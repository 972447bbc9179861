--------------------------- MODULE EditorCursors ---------------------------
(***************************************************************************)
(* The cursors of CTextEditor::EditorState.  A cursor has the end s that   *)
(* stays and the end e that moves.  The operators take and return the work *)
(* of a command, a record w whose fields are                               *)
(*   lines      m_Lines                                                    *)
(*   cursors    the live part of m_Cursors, up to m_iCurrentCursor         *)
(*   lastAdded  m_iLastAddedCursor, counted from 1                         *)
(*   changed    m_bCursorPositionChanged                                   *)
(*   ops        the operations of the undo record under construction       *)
(*   aborted    an assert of the code has failed                           *)
(***************************************************************************)
EXTENDS EditorCoords

Caret(p) == [s |-> p, e |-> p]

HasSelection(k) == k.s # k.e
SelectionStart(k) == IF Before(k.s, k.e) THEN k.s ELSE k.e
SelectionEnd(k) == IF Before(k.s, k.e) THEN k.e ELSE k.s

AnyCursorHasSelection(w) == \E c \in DOMAIN w.cursors : HasSelection(w.cursors[c])
AllCursorsHaveSelection(w) == \A c \in DOMAIN w.cursors : HasSelection(w.cursors[c])

SetCursorPosition(w, p, c, clear) ==
    [w EXCEPT !.changed = TRUE,
              !.cursors[c] = [s |-> IF clear THEN p ELSE w.cursors[c].s, e |-> p]]

\* What every cursor is set to by one loop over them.
SetEachCursor(w, position(_), clear) ==
    LET Moved(k) == [s |-> IF clear THEN position(k) ELSE k.s, e |-> position(k)]
    IN  [w EXCEPT !.changed = TRUE,
                  !.cursors = [c \in DOMAIN w.cursors |-> Moved(w.cursors[c])]]

(* SetSelection clamps both ends to the text.                              *)
SetSelection(w, p, q, c) ==
    LET last == LastCoordinates(w.lines)
        clamped(x) == IF Before(last, x) THEN last ELSE x
    IN  [w EXCEPT !.changed = TRUE, !.cursors[c] = [s |-> clamped(p), e |-> clamped(q)]]

ClearSelections(w) ==
    [w EXCEPT !.cursors = [c \in DOMAIN w.cursors |-> Caret(SelectionEnd(w.cursors[c]))]]

ClearExtraCursors(w) == [w EXCEPT !.cursors = <<w.cursors[1]>>]

AddCursor(w) ==
    [w EXCEPT !.cursors = Append(@, Caret(At(0, 0))),
              !.lastAdded = Len(w.cursors) + 1]

GetLastAddedCursorIndex(w) ==
    IF w.lastAdded > Len(w.cursors) THEN 1 ELSE w.lastAdded

-----------------------------------------------------------------------------
(* std::sort leaves equal cursors in any order.                            *)
Sorted(cursors) ==
    \A c, d \in DOMAIN cursors :
        c < d => ~Before(SelectionStart(cursors[d]), SelectionStart(cursors[c]))

Sortings(cursors) ==
    LET orders == {f \in [DOMAIN cursors -> DOMAIN cursors] :
                       \A c, d \in DOMAIN cursors : f[c] = f[d] => c = d}
    IN  {k \in {[c \in DOMAIN cursors |-> cursors[f[c]]] : f \in orders} : Sorted(k)}

SortCursorsFromTopToBottom(w) ==
    LET last == w.cursors[GetLastAddedCursorIndex(w)].e
        first(k) == Min({c \in DOMAIN k : k[c].e = last})
    IN  {[w EXCEPT !.cursors = k, !.lastAdded = first(k)] : k \in Sortings(w.cursors)}

\* Mutant: only a cursor that lies inside the one above is merged with it.
MergeContained(cursors) ==
    [cursors |-> cursors,
     deleted |-> {c \in 2..Len(cursors) :
                      AtOrBefore(SelectionEnd(cursors[c]), SelectionEnd(cursors[c - 1]))}]

(* The pairs are taken from the bottom up, each pair once: a cursor is     *)
(* compared with its neighbour above, also when one of them is to go.      *)
MergeOverlapping(cursors) ==
    LET after[c \in 1..Len(cursors)] ==
            IF c = Len(cursors) THEN [cursors |-> cursors, deleted |-> {}]
            ELSE LET m == after[c + 1]
                     upper == m.cursors[c]
                     lower == m.cursors[c + 1]
                 IN  IF AtOrBefore(SelectionEnd(lower), SelectionEnd(upper))
                     THEN [m EXCEPT !.deleted = @ \cup {c + 1}]
                     ELSE IF Before(SelectionStart(lower), SelectionEnd(upper))
                     THEN [m EXCEPT !.deleted = @ \cup {c + 1},
                                    !.cursors[c] = [s |-> SelectionStart(upper),
                                                    e |-> SelectionEnd(lower)]]
                     ELSE m
    IN  after[1]

MergeCoinciding(cursors) ==
    [cursors |-> cursors,
     deleted |-> {c \in 2..Len(cursors) : cursors[c].e = cursors[c - 1].e}]

\* The numbers of a set, by their rank in it.
Upward(S) ==
    [n \in 1..Cardinality(S) |-> CHOOSE k \in S : Cardinality({j \in S : j < k}) = n - 1]

Kept(m) ==
    LET kept == Upward(DOMAIN m.cursors \ m.deleted)
    IN  [c \in DOMAIN kept |-> m.cursors[kept[c]]]

MergeCursorsIfPossible(w) ==
    [w EXCEPT !.cursors = Kept(IF AnyCursorHasSelection(w) THEN MergeOverlapping(@)
                               ELSE MergeCoinciding(@))]

SortAndMerge(w) == {MergeCursorsIfPossible(v) : v \in SortCursorsFromTopToBottom(w)}

\* Mutant: the cursors are sorted and merged during a drag, too.
OnCursorPositionChangedAlways(w) == SortAndMerge(w)

(* OnCursorPositionChanged; the highlighted bracket is left out.           *)
OnCursorPositionChanged(w) == IF w.dragging THEN {w} ELSE SortAndMerge(w)

-----------------------------------------------------------------------------
(* The cursor movements.                                                   *)
MoveUp(w, n, select) == SetEachCursor(w, LAMBDA k : MoveCoordsUp(k.e, n), ~select)
MoveDown(w, n, select) ==
    SetEachCursor(w, LAMBDA k : MoveCoordsDown(w.lines, k.e, n), ~select)

MoveLeft(w, select, word) ==
    IF AnyCursorHasSelection(w) /\ ~select /\ ~word
    THEN SetEachCursor(w, SelectionStart, TRUE)
    ELSE SetEachCursor(w, LAMBDA k : MoveCoordsLeft(w.lines, k.e, word), ~select)

MoveRight(w, select, word) ==
    IF AnyCursorHasSelection(w) /\ ~select /\ ~word
    THEN SetEachCursor(w, SelectionEnd, TRUE)
    ELSE SetEachCursor(w, LAMBDA k : MoveCoordsRight(w.lines, k.e, word), ~select)

MoveTop(w, select) == SetCursorPosition(w, At(0, 0), Len(w.cursors), ~select)
MoveBottom(w, select) ==
    SetCursorPosition(w, LastCoordinates(w.lines), Len(w.cursors), ~select)

MoveHome(w, select) == SetEachCursor(w, LAMBDA k : At(k.e.line, 0), ~select)
MoveEnd(w, select) ==
    SetEachCursor(w, LAMBDA k : At(k.e.line, GetLineMaxColumn(w.lines, k.e.line)), ~select)

SelectAll(w) == MoveBottom(MoveTop(ClearExtraCursors(ClearSelections(w)), FALSE), TRUE)

(* Ctrl+D: select the next occurrence of what the last added cursor has    *)
(* selected.  FindNextOccurrence asserts that the text is not empty.       *)
AddCursorWith(w, k) == SetSelection(AddCursor(w), k.s, k.e, Len(w.cursors) + 1)

AddCursorForNextOccurrence(w) ==
    LET k == w.cursors[GetLastAddedCursorIndex(w)]
        text == GetText(w.lines, SelectionStart(k), SelectionEnd(k))
    IN  IF ~HasSelection(k) THEN {w}
        ELSE IF text = <<>> THEN {[w EXCEPT !.aborted = TRUE]}
        ELSE IF Occurrences(w.lines, text) = {} THEN {w}
        ELSE SortAndMerge(AddCursorWith(w, FindNextOccurrence(w.lines, text, SelectionEnd(k))))
-----------------------------------------------------------------------------
(* What the commands that read a selection take for granted.               *)

(* No cursor selects, or every one does, and in order: what deleting every *)
(* selection takes for granted.                                            *)
SelectTogether(w) ==
    AnyCursorHasSelection(w) =>
        /\ AllCursorsHaveSelection(w)
        /\ \A c \in 1..(Len(w.cursors) - 1) :
               AtOrBefore(SelectionEnd(w.cursors[c]), SelectionStart(w.cursors[c + 1]))

(* What the cursor added last selects, if it does, has a glyph: a selection *)
(* inside a tab, or behind the end of a line, has none.                    *)
SelectsText(w) ==
    LET k == w.cursors[GetLastAddedCursorIndex(w)]
    IN  HasSelection(k) => GetText(w.lines, SelectionStart(k), SelectionEnd(k)) # <<>>
=============================================================================
