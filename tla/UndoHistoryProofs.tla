------------------------- MODULE UndoHistoryProofs -------------------------
(***************************************************************************)
(* UndoHistory for any set of texts and any number of edits.               *)
(***************************************************************************)
EXTENDS UndoHistory, TLAPS

TypeInv ==
    /\ text \in Text
    /\ versions \in Seq(Text)
    /\ index \in Nat

Inv == TypeInv /\ ShowsVersion

-----------------------------------------------------------------------------
(* What an edit makes of the versions: those in force, and the new text.   *)
LEMMA EditedVersions ==
    ASSUME Inv, NEW t \in Text
    PROVE  LET kept == SubSeq(versions, 1, index + 1)
               edited == Append(kept, t)
           IN  /\ edited \in Seq(Text)
               /\ Len(edited) = index + 2
               /\ edited[index + 2] = t
               /\ \A k \in 0..index : edited[k + 1] = versions[k + 1]
<1> DEFINE kept == SubSeq(versions, 1, index + 1)
<1>1. index + 1 \in 1..Len(versions) /\ versions \in Seq(Text) /\ index \in Nat
  BY DEF Inv, TypeInv, ShowsVersion
<1>2. /\ kept \in Seq(Text)
      /\ Len(kept) = index + 1
      /\ \A k \in 0..index : kept[k + 1] = versions[k + 1]
  BY <1>1
<1> HIDE DEF kept
<1>3. /\ Append(kept, t) \in Seq(Text)
      /\ Len(Append(kept, t)) = index + 2
      /\ Append(kept, t)[index + 2] = t
      /\ \A k \in 0..index : Append(kept, t)[k + 1] = kept[k + 1]
  BY <1>1, <1>2
<1> QED BY <1>2, <1>3 DEF kept

LEMMA InitInv == Init => Inv
BY DEF Init, Inv, TypeInv, ShowsVersion

LEMMA NextInv == Inv /\ [Next]_vars => Inv'
<1> SUFFICES ASSUME Inv, [Next]_vars PROVE Inv'
  OBVIOUS
<1> USE DEF Inv, TypeInv, ShowsVersion
<1>1. CASE Edit
  BY <1>1, EditedVersions DEF Edit
<1>2. CASE Undo
  BY <1>2 DEF Undo
<1>3. CASE Redo
  BY <1>3 DEF Redo
<1>4. CASE UNCHANGED vars
  BY <1>4 DEF vars
<1> QED BY <1>1, <1>2, <1>3, <1>4 DEF Next

LEMMA NextKeepsPast ==
    Inv /\ [Next]_vars =>
        [\A k \in 0..index : k <= index' => versions'[k + 1] = versions[k + 1]]_vars
<1> SUFFICES ASSUME Inv, Next
    PROVE  \A k \in 0..index : k <= index' => versions'[k + 1] = versions[k + 1]
  BY DEF vars
<1>1. CASE Edit
  BY <1>1, EditedVersions DEF Edit
<1>2. CASE Undo
  BY <1>2 DEF Undo
<1>3. CASE Redo
  BY <1>3 DEF Redo
<1> QED BY <1>1, <1>2, <1>3 DEF Next

-----------------------------------------------------------------------------
(* The text shown is always the version that the index names.              *)
THEOREM ShowsVersionHolds == Spec => []ShowsVersion
<1>1. Inv => ShowsVersion
  BY DEF Inv
<1> QED BY <1>1, InitInv, NextInv, PTL DEF Spec

(* No step changes a version that stays in force.                          *)
THEOREM PastIsKeptHolds == Spec => PastIsKept
BY InitInv, NextInv, NextKeepsPast, PTL DEF Spec, PastIsKept
=============================================================================
