--------------------------- MODULE EditorCommands ---------------------------
(***************************************************************************)
(* The commands of CTextEditor.  Each takes the work w (see EditorCursors) *)
(* and gives the set of works it may end with: several where std::sort may *)
(* order equal cursors either way.  To the fields of w come                *)
(*   dragging    m_bDraggingSelection                                      *)
(*   overwrite   m_bOverwrite                                              *)
(*   clipboard   the text ImGui keeps                                      *)
(*   undoBuffer, undoIndex   m_UndoBuffer, m_iUndoIndex                    *)
(* An undo record carries two history fields, from and to: the text when   *)
(* the command began and when it ended.                                    *)
(***************************************************************************)
EXTENDS EditorBuffer

State(w) == [cursors |-> w.cursors, lastAdded |-> w.lastAdded]

DefaultState == [cursors |-> <<Caret(At(0, 0))>>, lastAdded |-> 1]

Downward(S) == Reverse(Upward(S))

\* A failed assert ends the loop, and the program.
BottomUp(w, Step(_, _)) ==
    Sweep(w, LAMBDA v, c : IF v.aborted THEN v ELSE Step(v, c), Downward(DOMAIN w.cursors))

Operation(type, text, start, end) ==
    [type |-> type, text |-> text, start |-> start, end |-> end]

Noted(w, operation) == [w EXCEPT !.ops = Append(@, operation)]

\* Mutant: the operations of one record are not cleared for the next.
AddUndoStale(w, old, after) ==
    [w EXCEPT !.undoBuffer =
                  Append(SubSeq(@, 1, w.undoIndex),
                         [ops |-> w.ops, before |-> State(old), after |-> after,
                          from |-> old.lines, to |-> w.lines]),
              !.undoIndex = @ + 1]

AddUndo(w, old, after) ==
    [w EXCEPT !.undoBuffer =
                  Append(SubSeq(@, 1, w.undoIndex),
                         [ops |-> w.ops, before |-> State(old), after |-> after,
                          from |-> old.lines, to |-> w.lines]),
              !.undoIndex = @ + 1,
              !.ops = <<>>]

\* How nearly every command ends: u.m_After = m_State; AddUndo(u).
Recorded(w, old) == AddUndo(w, old, State(w))

\* GetText, with its assert(aStart < aEnd).
NoteDeletion(w, start, end) ==
    [Noted(w, Operation("Delete", GetText(w.lines, start, end), start, end))
        EXCEPT !.aborted = @ \/ ~Before(start, end)]

NoteInsertion(inserted, text, start) ==
    Noted(inserted.w, Operation("Add", text, start, inserted.end))

DeleteSelectionNoted(w, c) ==
    LET k == w.cursors[c]
    IN  DeleteSelection(NoteDeletion(w, SelectionStart(k), SelectionEnd(k)), c)

(* Delete and RemoveCurrentLines pass over the cursors that select nothing;*)
(* EnterCharacter, Cut and Paste do not.                                   *)
DeleteEverySelection(w) == BottomUp(w, DeleteSelectionNoted)

DeleteRealSelections(w) ==
    BottomUp(w, LAMBDA v, c :
                    IF HasSelection(v.cursors[c]) THEN DeleteSelectionNoted(v, c) ELSE v)

-----------------------------------------------------------------------------
(* The lines a cursor stands for: not the one its selection only reaches.  *)
LinesOf(k) ==
    {l \in SelectionStart(k).line..SelectionEnd(k).line :
        ~(HasSelection(k) /\ At(l, 0) = SelectionEnd(k))}

AffectedLines(w) == UNION {LinesOf(w.cursors[c]) : c \in DOMAIN w.cursors}

IndentLine(w, l) ==
    IF w.lines[l + 1] = <<>> THEN w
    ELSE Colorize(NoteInsertion(InsertTextAt(w, At(l, 0), <<Tab>>), <<Tab>>, At(l, 0)), l, 1)

UnindentLine(w, l) ==
    LET n == GetCharacterIndexL(w.lines, At(l, TabSize))
    IN  IF \A i \in 1..n : w.lines[l + 1][i] \in Blank
        THEN Colorize(DeleteRange(NoteDeletion(w, At(l, 0), At(l, TabSize)),
                                  At(l, 0), At(l, TabSize)), l, 1)
        ELSE w

(* The record of an indentation is stored with the default m_After.        *)
RecordedIndentation(w, old) == IF w.ops = <<>> THEN w ELSE AddUndo(w, old, DefaultState)

ChangeCurrentLinesIndentation(w, increase) ==
    LET Lines(v, c) == Downward(LinesOf(v.cursors[c]))
    IN  {RecordedIndentation(
            BottomUp(w, LAMBDA v, c :
                Sweep(v, LAMBDA u, l : IF increase THEN IndentLine(u, l) ELSE UnindentLine(u, l),
                      Lines(v, c))), w)}

-----------------------------------------------------------------------------
(* EnterCharacter.  A new line takes the leading blanks of the line it is  *)
(* broken off.                                                             *)
FirstCharacter(line) == Max({n \in 0..Len(line) : \A m \in 1..n : line[m] \in Blank})

NoteTyped(w, c, text, p, q) ==
    Noted(SetCursorPosition(w, q, c, TRUE), Operation("Add", text, p, q))

BrokenAt(w, p, i, blanks) ==
    LET line == w.lines[p.line + 1]
        opened == [InsertLine(w, p.line + 1) EXCEPT !.lines[p.line + 2] = SubSeq(line, 1, blanks),
                                                    !.fresh[p.line + 2] = (blanks = 0)]
        filled == AddGlyphsToLine(opened, p.line + 1, blanks, SubSeq(line, i + 1, Len(line)))
    IN  RemoveRestOfLine(filled, p.line, i)

NoteBreak(w, c, p, indent) ==
    NoteTyped(w, c, <<NewLine>> \o indent, p,
              At(p.line + 1, GetCharacterColumn(w.lines, p.line + 1, Len(indent))))

BreakLineAt(w, c, p) ==
    LET line == w.lines[p.line + 1]
        blanks == FirstCharacter(line)
    IN  NoteBreak(BrokenAt(w, p, GetCharacterIndexR(w.lines, p), blanks), c, p,
                  SubSeq(line, 1, blanks))

(* In overwrite mode the character under the cursor goes first, as far as  *)
(* the line has bytes of it; the operation starts where the cursor is,     *)
(* unsanitized.                                                            *)
Overwritten(w, c, p, i) ==
    LET line == w.lines[p.line + 1]
        d == UTF8CharLength(line[i + 1])
        last == Min({i + d, Len(line)})
        end == At(p.line, GetCharacterColumn(w.lines, p.line, i + d))
        removed == Sweep(w, LAMBDA v, n : RemoveGlyphsFromLine(v, p.line, i, i + 1),
                         [n \in 1..(last - i) |-> n])
    IN  IF w.overwrite /\ i < Len(line)
        THEN Noted(removed, Operation("Delete", SubSeq(line, i + 1, last), w.cursors[c].e, end))
        ELSE w

NoteBytes(w, c, p, i, bytes) ==
    NoteTyped(w, c, bytes, p, At(p.line, GetCharacterColumn(w.lines, p.line, i + Len(bytes))))

EnterAt(w, c, p, i, bytes) ==
    NoteBytes(Sweep(Overwritten(w, c, p, i),
                    LAMBDA v, n : AddGlyphToLine(v, p.line, i + n - 1, bytes[n]),
                    [n \in DOMAIN bytes |-> n]),
              c, p, i, bytes)

\* Im_TextCharToUtf8: a character outside ASCII is typed as its two bytes.
Im_TextCharToUtf8(ch) == IF ch = LeadByte THEN <<LeadByte, NextByte>> ELSE <<ch>>

EnterAtPlace(w, c, ch, p) ==
    IF ch = NewLine THEN BreakLineAt(w, c, p)
    ELSE EnterAt(w, c, p, GetCharacterIndexR(w.lines, p), Im_TextCharToUtf8(ch))

EnterAtCursors(w, ch) ==
    BottomUp(w, LAMBDA v, c : EnterAtPlace(v, c, ch, GetActualCursorCoordinates(v, c)))

(* The places where characters were entered, and the line above and below  *)
(* each; a break that another cursor makes above is not allowed for.       *)
ColorizeEntered(w, ops) ==
    LET entered == {ops[n].start.line : n \in {m \in DOMAIN ops : ops[m].type = "Add"}}
    IN  Sweep(w, LAMBDA v, l : Colorize(v, l - 1, 3), Upward(entered))

RecordedEntry(w, old) == ColorizeEntered(Recorded(w, old), w.ops)

EnterCharacter(w, ch, shift) ==
    IF ch = Tab /\ \E c \in DOMAIN w.cursors : w.cursors[c].s.line # w.cursors[c].e.line
    THEN ChangeCurrentLinesIndentation(w, ~shift)
    ELSE {RecordedEntry(EnterAtCursors(IF AnyCursorHasSelection(w)
                                       THEN DeleteEverySelection(w) ELSE w, ch), w)}

-----------------------------------------------------------------------------
(* Without a selection every cursor first selects what it is to delete; if *)
(* one cannot, at an end of the text, nothing is deleted.                  *)
DeleteSelected(w, old) == Recorded(DeleteRealSelections(w), old)

DeleteMoved(w, moved, back) ==
    IF AllCursorsHaveSelection(moved)
    THEN {DeleteSelected(v, w) : v \in OnCursorPositionChanged(moved)}
    ELSE {IF AnyCursorHasSelection(moved) THEN back ELSE moved}

Delete(w, word) ==
    LET moved == MoveRight(w, TRUE, word)
    IN  IF AnyCursorHasSelection(w) THEN {DeleteSelected(w, w)}
        ELSE DeleteMoved(w, moved, MoveLeft(moved, FALSE, FALSE))

Backspace(w, word) ==
    LET moved == MoveLeft(w, TRUE, word)
    IN  IF AnyCursorHasSelection(w) THEN {DeleteSelected(w, w)}
        ELSE DeleteMoved(w, moved, MoveRight(moved, FALSE, FALSE))

-----------------------------------------------------------------------------
(* MoveUpCurrentLines and MoveDownCurrentLines: one record deletes and adds*)
(* the whole stretch; the cursors go along and are not marked changed.     *)
SwapLines(w, l, m) ==
    [w EXCEPT !.lines = [w.lines EXCEPT ![l + 1] = w.lines[m + 1], ![m + 1] = w.lines[l + 1]],
              !.fresh = [w.fresh EXCEPT ![l + 1] = w.fresh[m + 1], ![m + 1] = w.fresh[l + 1]]]

NoteStretch(w, type, start, end) ==
    Noted(w, Operation(type, GetText(w.lines, start, end), start, end))

NoteLines(w, type, first, last) ==
    NoteStretch(w, type, At(first, 0), At(last, GetLineMaxColumn(w.lines, last)))

CursorsShifted(w, shift) ==
    LET shifted(p) == [p EXCEPT !.line = @ + shift]
    IN  [c \in DOMAIN w.cursors |-> [s |-> shifted(w.cursors[c].s), e |-> shifted(w.cursors[c].e)]]

MoveStretch(w, first, last, swapped, shift) ==
    LET moved == [NoteLines(w, "Delete", first, last)
                     EXCEPT !.lines = swapped.lines, !.fresh = swapped.fresh,
                            !.cursors = CursorsShifted(w, shift)]
    IN  Recorded(NoteLines(moved, "Add", first, last), w)

MoveUpCurrentLines(w) ==
    LET A == AffectedLines(w)
        swapped == Sweep(w, LAMBDA v, l : SwapLines(v, l - 1, l), Upward(A))
    IN  {IF Min(A) = 0 THEN w ELSE MoveStretch(w, Min(A) - 1, Max(A), swapped, -1)}

MoveDownCurrentLines(w) ==
    LET A == AffectedLines(w)
        swapped == Sweep(w, LAMBDA v, l : SwapLines(v, l + 1, l), Downward(A))
    IN  {IF Max(A) = Len(w.lines) - 1 THEN w
         ELSE MoveStretch(w, Min(A), Max(A) + 1, swapped, 1)}

-----------------------------------------------------------------------------
(* ToggleLineComment, for the SQL the editor is set up for.                *)
SingleLineComment == <<"-", "-">>

IsBlankLine(line) == FirstCharacter(line) = Len(line)

IsCommented(line) ==
    IsPrefix(SingleLineComment, SubSeq(line, FirstCharacter(line) + 1, Len(line)))

\* Mutant: the space behind the comment sign is inserted but not recorded.
CommentLineMisnoted(w, l) ==
    NoteInsertion(InsertTextAt(w, At(l, 0), Append(SingleLineComment, Space)),
                  SingleLineComment, At(l, 0))

CommentLine(w, l) ==
    LET text == Append(SingleLineComment, Space)
    IN  Colorize(NoteInsertion(InsertTextAt(w, At(l, 0), text), text, At(l, 0)), l, 1)

UncommentLine(w, l) ==
    LET line == w.lines[l + 1]
        i == FirstCharacter(line)
        j == i + Len(SingleLineComment)
        spaced == j < Len(line) /\ line[j + 1] = Space
        start == At(l, GetCharacterColumn(w.lines, l, i))
        end == At(l, GetCharacterColumn(w.lines, l, IF spaced THEN j + 1 ELSE j))
    IN  IF IsBlankLine(line) THEN w
        ELSE Colorize(DeleteRange(NoteDeletion(w, start, end), start, end), l, 1)

ToggleLineComment(w) ==
    LET A == AffectedLines(w)
        shouldAddComment == \E l \in A : LET line == w.lines[l + 1]
                                         IN  ~IsBlankLine(line) /\ ~IsCommented(line)
    IN  {Recorded(IF shouldAddComment THEN Sweep(w, CommentLine, Upward(A))
                  ELSE Sweep(w, UncommentLine, Upward(A)), w)}

-----------------------------------------------------------------------------
(* RemoveCurrentLines: the line of each cursor goes with the line break    *)
(* behind it, the last line with the one before it, the only line alone.   *)
EndOfLine(lines, l) == At(l, GetLineMaxColumn(lines, l))

LineRange(lines, l) ==
    IF Len(lines) > l + 1 THEN [goesTo |-> l, start |-> At(l, 0), end |-> At(l + 1, 0)]
    ELSE IF l > 0
    THEN [goesTo |-> l - 1, start |-> EndOfLine(lines, l - 1), end |-> EndOfLine(lines, l)]
    ELSE [goesTo |-> l, start |-> At(l, 0), end |-> EndOfLine(lines, l)]

RemoveNoted(w, c, l, range) ==
    IF range.start.line = range.end.line THEN DeleteRange(w, range.start, range.end)
    ELSE RemoveLine(w, l, c)

RemoveLineRange(w, c, l, range) ==
    RemoveNoted(NoteDeletion(SetCursorPosition(w, At(range.goesTo, 0), c, TRUE),
                             range.start, range.end), c, l, range)

RemoveLineOf(w, c) ==
    LET l == w.cursors[c].e.line IN RemoveLineRange(w, c, l, LineRange(w.lines, l))

\* Mutant: cursors that come to stand on one line are not merged.
RemoveCurrentLinesUnmerged(w) ==
    LET cleared == IF AnyCursorHasSelection(w) THEN DeleteRealSelections(w) ELSE w
    IN  {Recorded(BottomUp(MoveHome(cleared, FALSE), RemoveLineOf), w)}

RemoveCurrentLines(w) ==
    LET cleared == IF AnyCursorHasSelection(w) THEN DeleteRealSelections(w) ELSE w
    IN  {Recorded(BottomUp(v, RemoveLineOf), w) :
            v \in OnCursorPositionChanged(MoveHome(cleared, FALSE))}

(* A line is left over that no cursor removes, or the line that is the last*)
(* to go is not empty.                                                     *)
LeavesLine(w) ==
    \/ w.lines[1] # <<>>
    \/ \E l \in 0..(Len(w.lines) - 1) : \A c \in DOMAIN w.cursors : w.cursors[c].e.line # l

(* What removing the lines of the cursors takes for granted.               *)
RemovesText(w) ==
    /\ ~w.dragging
    /\ LeavesLine(IF AnyCursorHasSelection(w) THEN DeleteRealSelections(w) ELSE w)

-----------------------------------------------------------------------------
(* Copy, Cut and Paste.                                                    *)
GetClipboardText(w) ==
    LET Step(text, c) ==
            LET k == w.cursors[c]
                selected == GetText(w.lines, SelectionStart(k), SelectionEnd(k))
            IN  IF ~HasSelection(k) THEN text
                ELSE IF text = <<>> THEN selected
                ELSE text \o <<NewLine>> \o selected
    IN  Sweep(<<>>, Step, Upward(DOMAIN w.cursors))

Copy(w) ==
    LET l == GetActualCursorCoordinates(w, Len(w.cursors)).line
    IN  {[w EXCEPT !.clipboard =
              IF AnyCursorHasSelection(w) THEN GetClipboardText(w) ELSE w.lines[l + 1]]}

\* Mutant: the selections are deleted without asking whether there is one.
CutUnasked(w) == {Recorded(DeleteEverySelection(v), w) : v \in Copy(w)}

Cut(w) ==
    IF AnyCursorHasSelection(w) THEN {Recorded(DeleteEverySelection(v), w) : v \in Copy(w)}
    ELSE {w}

\* Mutant: a line begins with the line break before it.
ClipboardLineWithBreak(text, n) ==
    LET breaks == {i \in DOMAIN text : text[i] = NewLine}
        first == IF n = 1 THEN 1 ELSE Upward(breaks)[n - 1]
        last == IF n > Cardinality(breaks) THEN Len(text) + 1 ELSE Upward(breaks)[n]
    IN  SubSeq(text, first, last - 1)

\* The lines of the clipboard, each pasted at a cursor of its own when they
\* are as many as the cursors.
ClipboardLine(text, n) ==
    LET breaks == {i \in DOMAIN text : text[i] = NewLine}
        first == IF n = 1 THEN 0 ELSE Upward(breaks)[n - 1]
        last == IF n > Cardinality(breaks) THEN Len(text) + 1 ELSE Upward(breaks)[n]
    IN  SubSeq(text, first + 1, last - 1)

ClipboardLineCount(text) == Cardinality({i \in DOMAIN text : text[i] = NewLine}) + 1

NotePasted(w, c, text, start) ==
    Noted(w, Operation("Add", text, start, GetActualCursorCoordinates(w, c)))

PasteAt(w, c, text) ==
    NotePasted(InsertTextAtCursor(w, text, c), c, text, GetActualCursorCoordinates(w, c))

Paste(w) ==
    LET n == Len(w.cursors)
        canPasteToMultipleCursors == n > 1 /\ ClipboardLineCount(w.clipboard) = n
        textFor(c) == IF canPasteToMultipleCursors THEN ClipboardLine(w.clipboard, c)
                      ELSE w.clipboard
        cleared == IF AnyCursorHasSelection(w) THEN DeleteEverySelection(w) ELSE w
    IN  IF w.clipboard = <<>> THEN {w}
        ELSE {Recorded(BottomUp(cleared, LAMBDA v, c : PasteAt(v, c, textFor(c))), w)}

-----------------------------------------------------------------------------
(* UndoRecord::Undo and UndoRecord::Redo.                                  *)
WithState(w, state) == [w EXCEPT !.cursors = state.cursors, !.lastAdded = state.lastAdded]

Reinserted(w, o) == InsertTextAt(w, o.start, o.text).w
Deleted(w, o) == DeleteRange(w, o.start, o.end)

\* Both colour from the line above the operation.
ColorizeOperation(w, o, more) ==
    Colorize(w, o.start.line - 1, o.end.line - o.start.line + more)

\* Mutant: as few lines are coloured after an undo as after a redo.
UndoOperationShort(w, o) ==
    IF o.text = <<>> THEN w
    ELSE ColorizeOperation(IF o.type = "Delete" THEN Reinserted(w, o) ELSE Deleted(w, o), o, 1)

UndoOperation(w, o) ==
    IF o.text = <<>> THEN w
    ELSE ColorizeOperation(IF o.type = "Delete" THEN Reinserted(w, o) ELSE Deleted(w, o), o, 2)

\* The last line of the operation is not among those coloured.
RedoOperation(w, o) ==
    IF o.text = <<>> THEN w
    ELSE ColorizeOperation(IF o.type = "Add" THEN Reinserted(w, o) ELSE Deleted(w, o), o, 1)

\* Mutant: the operations are undone in the order they were done in.
UndoForwards(w) ==
    LET r == w.undoBuffer[w.undoIndex]
    IN  IF w.undoIndex = 0 THEN {w}
        ELSE {WithState([Sweep(w, UndoOperation, r.ops) EXCEPT !.undoIndex = @ - 1], r.before)}

Undo(w) ==
    LET r == w.undoBuffer[w.undoIndex]
    IN  IF w.undoIndex = 0 THEN {w}
        ELSE {WithState([Sweep(w, UndoOperation, Reverse(r.ops)) EXCEPT !.undoIndex = @ - 1],
                        r.before)}

Redo(w) ==
    LET r == w.undoBuffer[w.undoIndex + 1]
    IN  IF w.undoIndex = Len(w.undoBuffer) THEN {w}
        ELSE {WithState([Sweep(w, RedoOperation, r.ops) EXCEPT !.undoIndex = @ + 1], r.after)}
=============================================================================
