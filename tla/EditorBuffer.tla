---------------------------- MODULE EditorBuffer ----------------------------
(***************************************************************************)
(* How CTextEditor changes its text: every insertion and removal also      *)
(* moves the cursors it passes under.  The operators map the work w of a   *)
(* command (see EditorCursors) to the work after the change.               *)
(***************************************************************************)
EXTENDS EditorColoring

\* One step of a loop after the other, over the elements of a sequence.
Sweep(w, Step(_, _), seq) ==
    LET after[n \in 0..Len(seq)] == IF n = 0 THEN w ELSE Step(after[n - 1], seq[n])
    IN  after[Len(seq)]

(* One line gets new glyphs.  OnLineChanged, called before and after,      *)
(* carries along the cursors without selection to the right of the place:  *)
(* by their glyph index, read before, and its column, found after.         *)
ChangeLine(w, l, glyphs, column, count) ==
    LET lines == [w.lines EXCEPT ![l + 1] = glyphs]
        carried(k) == k.e.line = l /\ k.e.column > column /\ ~HasSelection(k)
        moved(k) ==
            At(l, GetCharacterColumn(lines, l, GetCharacterIndexR(w.lines, k.e) + count))
    IN  [w EXCEPT !.lines = lines,
                  !.fresh[l + 1] = (glyphs = <<>>) \/ (@ /\ glyphs = w.lines[l + 1]),
                  !.cursors = [c \in DOMAIN w.cursors |->
                                  IF carried(w.cursors[c]) THEN Caret(moved(w.cursors[c])) ELSE w.cursors[c]],
                  !.changed = @ \/ \E c \in DOMAIN w.cursors : carried(w.cursors[c])]

AddGlyphsToLine(w, l, i, glyphs) ==
    LET line == w.lines[l + 1]
    IN  ChangeLine(w, l, SubSeq(line, 1, i) \o glyphs \o SubSeq(line, i + 1, Len(line)),
                   GetCharacterColumn(w.lines, l, i), Len(glyphs))

AddGlyphToLine(w, l, i, g) == AddGlyphsToLine(w, l, i, <<g>>)

RemoveGlyphsFromLine(w, l, i, j) ==
    LET line == w.lines[l + 1]
    IN  ChangeLine(w, l, SubSeq(line, 1, i) \o SubSeq(line, j + 1, Len(line)),
                   GetCharacterColumn(w.lines, l, i), i - j)

\* aEndChar = -1, which also enters the count handed to OnLineChanged.
RemoveRestOfLine(w, l, i) ==
    ChangeLine(w, l, SubSeq(w.lines[l + 1], 1, i), GetCharacterColumn(w.lines, l, i), i + 1)

InsertLine(w, l) ==
    LET below(k) == k.e.line >= l
    IN  [w EXCEPT !.lines = SubSeq(@, 1, l) \o <<<<>>>> \o SubSeq(@, l + 1, Len(@)),
                  !.fresh = SubSeq(@, 1, l) \o <<TRUE>> \o SubSeq(@, l + 1, Len(@)),
                  !.cursors = [c \in DOMAIN w.cursors |->
                      IF below(w.cursors[c]) THEN Caret(At(w.cursors[c].e.line + 1, w.cursors[c].e.column)) ELSE w.cursors[c]],
                  !.changed = @ \/ \E c \in DOMAIN w.cursors : below(w.cursors[c])]

\* m_Lines without the lines from l up to, not including, m.
WithoutLines(lines, l, m) == SubSeq(lines, 1, l) \o SubSeq(lines, m + 1, Len(lines))

(* The new position is a Coordinates, whose constructor asserts that its   *)
(* line is not negative.                                                   *)
RemoveLine(w, l, handled) ==
    LET raised(c) == w.cursors[c].e.line >= l /\ c # handled
    IN  [w EXCEPT !.lines = WithoutLines(@, l, l + 1),
                  !.fresh = WithoutLines(@, l, l + 1),
                  !.cursors = [c \in DOMAIN w.cursors |->
                      IF raised(c) THEN Caret(At(w.cursors[c].e.line - 1, w.cursors[c].e.column)) ELSE w.cursors[c]],
                  !.changed = @ \/ \E c \in DOMAIN w.cursors : raised(c),
                  !.aborted = @ \/ \E c \in DOMAIN w.cursors :
                                       raised(c) /\ w.cursors[c].e.line = 0]

RemoveLines(w, l, m) ==
    LET raised(p) == IF p.line >= l THEN [p EXCEPT !.line = Max({0, @ - (m - l)})] ELSE p
    IN  [w EXCEPT !.lines = WithoutLines(@, l, m),
                  !.fresh = WithoutLines(@, l, m),
                  !.cursors = [c \in DOMAIN w.cursors |-> [s |-> raised(w.cursors[c].s), e |-> raised(w.cursors[c].e)]]]

-----------------------------------------------------------------------------
(* InsertTextAt, one byte after the other: the work a.w and the place the  *)
(* next byte goes to, which is where the caller's p comes back to.         *)
BreakLine(w, l, i) ==
    LET rest == SubSeq(w.lines[l + 1], i + 1, Len(w.lines[l + 1]))
        opened == InsertLine(w, l + 1)
    IN  IF i < LineSize(w.lines, l)
        THEN RemoveRestOfLine(AddGlyphsToLine(opened, l + 1, 0, rest), l, i)
        ELSE opened

InsertByte(a, g) ==
    IF g = NewLine
    THEN [w |-> BreakLine(a.w, a.line, a.index), line |-> a.line + 1, index |-> 0]
    ELSE [w |-> AddGlyphToLine(a.w, a.line, a.index, g), line |-> a.line, index |-> a.index + 1]

Inserted(a) == [w |-> a.w, end |-> At(a.line, GetCharacterColumn(a.w.lines, a.line, a.index))]

InsertTextAt(w, p, text) ==
    LET a == [w |-> w, line |-> p.line, index |-> GetCharacterIndexR(w.lines, p)]
    IN  IF text = <<>> THEN [w |-> w, end |-> p] ELSE Inserted(Sweep(a, InsertByte, text))

GetActualCursorCoordinates(w, c) == SanitizeCoordinates(w.lines, w.cursors[c].e)

SetBehind(inserted, c) == SetCursorPosition(inserted.w, inserted.end, c, TRUE)

\* Mutant: the lines that the text adds are not coloured.
InsertTextAtCursorShort(w, text, c) ==
    LET p == GetActualCursorCoordinates(w, c)
    IN  Colorize(SetBehind(InsertTextAt(w, p, text), c), p.line - 1, 2)

\* The lines from the cursor, or from the start of its selection, to the end.
ColorizeInserted(w, from, end) == Colorize(w, from - 1, end.line - from + 2)

InsertTextAtCursor(w, text, c) ==
    LET p == GetActualCursorCoordinates(w, c)
        inserted == InsertTextAt(w, p, text)
    IN  ColorizeInserted(SetBehind(inserted, c),
                         Min({p.line, SelectionStart(w.cursors[c]).line}), inserted.end)

-----------------------------------------------------------------------------
(* DeleteRange over several lines: the loop that moves up the cursors of   *)
(* the last line stops at the first cursor below it, and passes over a     *)
(* cursor that selects the very range.                                     *)
MoveUpFromLastLine(w, start, end) ==
    LET same(k) == SelectionStart(k) = start /\ SelectionEnd(k) = end
        stops == {c \in DOMAIN w.cursors :
                      ~same(w.cursors[c]) /\ w.cursors[c].e.line > end.line}
        moves(c) == /\ \A d \in stops : c < d
                    /\ w.cursors[c].e.line = end.line
                    /\ ~same(w.cursors[c])
        joint == GetCharacterIndexR(w.lines, start)
        moved(p) == At(start.line, GetCharacterColumn(w.lines, start.line,
                                       joint + GetCharacterIndexR(w.lines, p)))
    IN  [w EXCEPT !.cursors = [c \in DOMAIN w.cursors |->
                      IF moves(c) THEN [s |-> moved(w.cursors[c].s), e |-> moved(w.cursors[c].e)] ELSE w.cursors[c]],
                  !.changed = @ \/ \E c \in DOMAIN w.cursors : moves(c)]

JoinLines(w, l, m) == AddGlyphsToLine(w, l, LineSize(w.lines, l), w.lines[m + 1])

DeleteRange(w, start, end) ==
    LET i == GetCharacterIndexL(w.lines, start)
        j == GetCharacterIndexR(w.lines, end)
        cut == RemoveGlyphsFromLine(RemoveRestOfLine(w, start.line, i), end.line, 0, j)
    IN  IF start = end THEN w
        ELSE IF start.line < end.line
        THEN RemoveLines(MoveUpFromLastLine(JoinLines(cut, start.line, end.line), start, end),
                         start.line + 1, end.line + 1)
        ELSE IF end.column >= GetLineMaxColumn(w.lines, start.line)
        THEN RemoveRestOfLine(w, start.line, i)
        ELSE RemoveGlyphsFromLine(w, start.line, i, j)

\* Mutant: the line that is left of the selection is not coloured.
DeleteSelectionSilent(w, c) ==
    LET k == w.cursors[c]
    IN  IF HasSelection(k)
        THEN SetCursorPosition(DeleteRange(w, SelectionStart(k), SelectionEnd(k)),
                               SelectionStart(k), c, TRUE)
        ELSE w

DeleteSelection(w, c) ==
    LET k == w.cursors[c]
    IN  IF HasSelection(k)
        THEN Colorize(SetCursorPosition(DeleteRange(w, SelectionStart(k), SelectionEnd(k)),
                                        SelectionStart(k), c, TRUE),
                      SelectionStart(k).line, 1)
        ELSE w
=============================================================================
