---------------------------- MODULE UndoHistory ----------------------------
(***************************************************************************)
(* What the undo buffer of an editor promises of the text, whatever the    *)
(* commands are: the versions of the text form a line, an edit cuts off    *)
(* the versions that had been undone and appends its own, and undo and     *)
(* redo walk along the line and show the version they arrive at.           *)
(***************************************************************************)
EXTENDS Integers, Sequences

CONSTANT Text           \* the texts there can be

VARIABLES
    text,               \* the text shown
    versions,           \* versions[k + 1]: the text after the first k edits
    index               \* the edits in force

vars == <<text, versions, index>>

Init ==
    /\ text \in Text
    /\ versions = <<text>>
    /\ index = 0

Edit ==
    /\ text' \in Text
    /\ versions' = Append(SubSeq(versions, 1, index + 1), text')
    /\ index' = index + 1

Undo ==
    /\ index > 0
    /\ text' = versions[index]
    /\ index' = index - 1
    /\ UNCHANGED versions

Redo ==
    /\ index + 1 < Len(versions)
    /\ text' = versions[index + 2]
    /\ index' = index + 1
    /\ UNCHANGED versions

Next == Edit \/ Undo \/ Redo

Spec == Init /\ [][Next]_vars

-----------------------------------------------------------------------------
(* The text shown is the version the index names, however many versions    *)
(* have been cut off and walked over.                                      *)
ShowsVersion ==
    /\ index + 1 \in DOMAIN versions
    /\ text = versions[index + 1]

(* A version in force is never changed: whatever is done, undoing down to  *)
(* an index that was there leads to the text that was there.               *)
PastIsKept ==
    [][\A k \in 0..index : k <= index' => versions'[k + 1] = versions[k + 1]]_vars
=============================================================================
