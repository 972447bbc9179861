----------------------------- MODULE TextEditor -----------------------------
(***************************************************************************)
(* CTextEditor as the window of the SQL editor drives it.  A frame first   *)
(* serves the buttons of the tool bar, then Render: sort and merge the     *)
(* cursors if one has moved, at most one key command, the characters of    *)
(* the input queue, and the mouse.  The editor is never read-only here.    *)
(***************************************************************************)
EXTENDS EditorCommands

CONSTANTS
    Texts,              \* the texts SetText may be given
    Clipboards,         \* what the clipboard may hold at first
    VisibleLineCount,   \* m_iVisibleLineCount
    Commands,           \* the keys, buttons and mouse actions used
    Characters,         \* the characters typed
    \* bounds of the instance
    MaxText,            \* bytes of the text, line breaks included
    MaxUndo,            \* undo records
    MaxCursors          \* cursors

ASSUME TextEditorAssumption ==
    /\ Texts \subseteq Seq(Line) \ {<<>>} /\ Clipboards \subseteq Passage
    /\ Characters \subseteq Glyph \cup {NewLine}
    /\ VisibleLineCount \in Nat
    /\ MaxText \in Nat /\ MaxUndo \in Nat /\ MaxCursors \in Nat \ {0}

VARIABLES
    editor,             \* the CTextEditor, as a record (see EditorCommands)
    phase,              \* where the frame is: "toolbar", "keys", "typing"
    mouseDown           \* the left button, IsMouseDown(0)

vars == <<editor, phase, mouseDown>>

(* The constructor, and SetText as ShowSqlDatabaseEditor calls it once.    *)
Init ==
    /\ \E text \in Texts, clipboard \in Clipboards :
           editor = [lines |-> text,
                     cursors |-> DefaultState.cursors,
                     lastAdded |-> DefaultState.lastAdded,
                     changed |-> FALSE, dragging |-> FALSE, overwrite |-> FALSE,
                     clipboard |-> clipboard,
                     undoBuffer |-> <<>>, undoIndex |-> 0,
                     ops |-> <<>>, aborted |-> FALSE,
                     fresh |-> [l \in DOMAIN text |-> text[l] = <<>>],
                     colorMin |-> 0, colorMax |-> Len(text), scan |-> TRUE]
    /\ phase = "toolbar"
    /\ mouseDown = FALSE

WithinBounds(w) ==
    /\ Len(Joined(w.lines)) <= MaxText
    /\ Len(w.undoBuffer) <= MaxUndo
    /\ Len(w.cursors) <= MaxCursors

\* A failed assert stops the program in the middle of the command.
Becomes(W) ==
    \E w \in W :
        IF w.aborted THEN editor' = [editor EXCEPT !.aborted = TRUE]
        ELSE WithinBounds(w) /\ editor' = w

Running == ~editor.aborted

-----------------------------------------------------------------------------
Button(name, W) ==
    /\ Running
    /\ phase = "toolbar"
    /\ ~mouseDown
    /\ name \in Commands
    /\ Becomes(W)
    /\ UNCHANGED <<phase, mouseDown>>

\* BeginDisabled keeps the first two from being clicked when they have no effect.
ToolbarUndo == editor.undoIndex > 0 /\ Button("ToolbarUndo", Undo(editor))
ToolbarRedo ==
    editor.undoIndex < Len(editor.undoBuffer) /\ Button("ToolbarRedo", Redo(editor))
ToolbarCut == Button("ToolbarCut", Cut(editor))
ToolbarCopy == Button("ToolbarCopy", Copy(editor))
ToolbarPaste == Button("ToolbarPaste", Paste(editor))
ToolbarSelectAll == Button("ToolbarSelectAll", {SelectAll(editor)})

BeginRender ==
    /\ Running
    /\ phase = "toolbar"
    /\ \E w \in IF editor.changed THEN OnCursorPositionChanged(editor) ELSE {editor} :
           editor' = [w EXCEPT !.changed = FALSE]
    /\ phase' = "keys"
    /\ UNCHANGED mouseDown

-----------------------------------------------------------------------------
(* HandleKeyboardInputs: the first key that matches, and no other.         *)
KeysServed == Running /\ (mouseDown => "KeysWhileMouseDown" \in Commands)

ShiftKeys == IF "Shift" \in Commands THEN BOOLEAN ELSE {FALSE}

Key(name, W) ==
    /\ KeysServed
    /\ phase = "keys"
    /\ name \in Commands
    /\ Becomes(W)
    /\ phase' = "typing"
    /\ UNCHANGED mouseDown

PressUndo == Key("Undo", Undo(editor))
PressRedo == Key("Redo", Redo(editor))

PressUp == \E shift \in ShiftKeys : Key("Up", {MoveUp(editor, 1, shift)})
PressDown == \E shift \in ShiftKeys : Key("Down", {MoveDown(editor, 1, shift)})
PressLeft == \E shift \in ShiftKeys : Key("Left", {MoveLeft(editor, shift, FALSE)})
PressRight == \E shift \in ShiftKeys : Key("Right", {MoveRight(editor, shift, FALSE)})
PressWordLeft == \E shift \in ShiftKeys : Key("WordLeft", {MoveLeft(editor, shift, TRUE)})
PressWordRight == \E shift \in ShiftKeys : Key("WordRight", {MoveRight(editor, shift, TRUE)})
PressPageUp ==
    \E shift \in ShiftKeys : Key("PageUp", {MoveUp(editor, VisibleLineCount - 2, shift)})
PressPageDown ==
    \E shift \in ShiftKeys : Key("PageDown", {MoveDown(editor, VisibleLineCount - 2, shift)})
PressTop == \E shift \in ShiftKeys : Key("Top", {MoveTop(editor, shift)})
PressBottom == \E shift \in ShiftKeys : Key("Bottom", {MoveBottom(editor, shift)})
PressHome == \E shift \in ShiftKeys : Key("Home", {MoveHome(editor, shift)})
PressEnd == \E shift \in ShiftKeys : Key("End", {MoveEnd(editor, shift)})

PressDelete == Key("Delete", Delete(editor, FALSE))
PressWordDelete == Key("WordDelete", Delete(editor, TRUE))
PressBackspace == Key("Backspace", Backspace(editor, FALSE))
PressWordBackspace == Key("WordBackspace", Backspace(editor, TRUE))
PressRemoveLines == Key("RemoveLines", RemoveCurrentLines(editor))
PressUnindent == Key("Unindent", ChangeCurrentLinesIndentation(editor, FALSE))
PressIndent == Key("Indent", ChangeCurrentLinesIndentation(editor, TRUE))
PressLinesUp == Key("LinesUp", MoveUpCurrentLines(editor))
PressLinesDown == Key("LinesDown", MoveDownCurrentLines(editor))
PressComment == Key("Comment", ToggleLineComment(editor))
PressInsert == Key("Insert", {[editor EXCEPT !.overwrite = ~@]})
PressCopy == Key("Copy", Copy(editor))
PressPaste == Key("Paste", Paste(editor))
PressCut == Key("Cut", Cut(editor))
PressSelectAll == Key("SelectAll", {SelectAll(editor)})
PressNextOccurrence == Key("NextOccurrence", AddCursorForNextOccurrence(editor))
PressEnter == Key("Enter", EnterCharacter(editor, NewLine, FALSE))
PressTab == \E shift \in ShiftKeys : Key("Tab", EnterCharacter(editor, Tab, shift))

(* The input queue, one character at a time.                               *)
Type(ch) ==
    /\ KeysServed
    /\ phase \in {"keys", "typing"}
    /\ Becomes(EnterCharacter(editor, ch, FALSE))
    /\ phase' = "typing"
    /\ UNCHANGED mouseDown

-----------------------------------------------------------------------------
(* HandleMouseInputs, and the end of the frame.                            *)
Mouse(name, down, W) ==
    /\ Running
    /\ phase \in {"keys", "typing"}
    /\ name \in Commands
    /\ Becomes({ColorizeInternal(w) : w \in W})
    /\ mouseDown' = down
    /\ phase' = "toolbar"

\* A click with Ctrl adds a cursor; one without keeps only the first.
Clicked(ctrl) ==
    [IF ctrl THEN AddCursor(editor) ELSE ClearExtraCursors(editor) EXCEPT !.dragging = TRUE]

Click ==
    \E ctrl \in BOOLEAN, p \in ScreenCoordinates(editor.lines) :
        LET w == Clicked(ctrl)
        IN  /\ ~mouseDown
            /\ Mouse(IF ctrl THEN "CtrlClick" ELSE "Click", TRUE,
                     {SetCursorPosition(w, p, GetLastAddedCursorIndex(w), TRUE)})

DoubleClick ==
    \E ctrl \in BOOLEAN, p \in ScreenCoordinates(editor.lines) :
        LET w == Clicked(ctrl)
        IN  /\ ~mouseDown
            /\ Mouse("DoubleClick", TRUE,
                     {SetSelection(w, FindWordStart(w.lines, p), FindWordEnd(w.lines, p),
                                   Len(w.cursors))})

\* A triple click, and a click on a line number, select the line.
LineClick ==
    \E ctrl \in BOOLEAN, l \in 0..(Len(editor.lines) - 1) :
        LET w == Clicked(ctrl)
            end == IF l < Len(w.lines) - 1 THEN At(l + 1, 0)
                   ELSE At(l, GetLineMaxColumn(w.lines, l))
        IN  /\ ~mouseDown
            /\ Mouse("LineClick", TRUE, {SetSelection(w, At(l, 0), end, Len(w.cursors))})

ShiftClick ==
    \E p \in ScreenCoordinates(editor.lines) :
        /\ ~mouseDown
        /\ Mouse("ShiftClick", TRUE, {SetCursorPosition(editor, p, Len(editor.cursors), FALSE)})

Drag ==
    \E p \in ScreenCoordinates(editor.lines) :
        /\ mouseDown
        /\ editor.dragging
        /\ Mouse("Drag", TRUE,
                 {SetCursorPosition(editor, p, GetLastAddedCursorIndex(editor), FALSE)})

\* The cursors are sorted and merged when the mouse is over the window and
\* neither Shift nor Alt is held.
Release ==
    /\ mouseDown
    /\ \E hovered \in BOOLEAN :
           LET w == [editor EXCEPT !.dragging = FALSE]
           IN  Mouse(IF hovered THEN "Release" ELSE "ReleaseOutside", FALSE,
                     IF hovered THEN SortAndMerge(w) ELSE {w})

EndFrame ==
    /\ Running
    /\ phase \in {"keys", "typing"}
    /\ editor' = ColorizeInternal(editor)
    /\ phase' = "toolbar"
    /\ UNCHANGED mouseDown

-----------------------------------------------------------------------------
ToolbarStep ==
    ToolbarUndo \/ ToolbarRedo \/ ToolbarCut \/ ToolbarCopy \/ ToolbarPaste \/ ToolbarSelectAll

MovementKey ==
    \/ PressUp \/ PressDown \/ PressLeft \/ PressRight \/ PressWordLeft \/ PressWordRight
    \/ PressPageUp \/ PressPageDown \/ PressTop \/ PressBottom \/ PressHome \/ PressEnd
    \/ PressSelectAll \/ PressNextOccurrence

EditingKey ==
    \/ PressUndo \/ PressRedo \/ PressDelete \/ PressWordDelete \/ PressBackspace
    \/ PressWordBackspace \/ PressRemoveLines \/ PressUnindent \/ PressIndent
    \/ PressLinesUp \/ PressLinesDown \/ PressComment \/ PressInsert \/ PressCopy
    \/ PressPaste \/ PressCut \/ PressEnter \/ PressTab

MouseStep == Click \/ DoubleClick \/ LineClick \/ ShiftClick \/ Drag \/ Release

Next ==
    \/ ToolbarStep \/ BeginRender \/ MovementKey \/ EditingKey
    \/ \E ch \in Characters : Type(ch)
    \/ MouseStep \/ EndFrame

Spec == Init /\ [][Next]_vars

-----------------------------------------------------------------------------
IsCursors(k) ==
    \A c \in DOMAIN k : k[c].s.column >= 0 /\ k[c].e.column >= 0 /\ k[c].s.line >= 0

(* The shape of the editor: at least one line and one cursor, an undo      *)
(* index inside the buffer, and a range of lines to be coloured.           *)
TypeOK ==
    /\ editor.lines \in Seq(Seq(Glyph)) /\ editor.lines # <<>>
    /\ editor.cursors # <<>> /\ IsCursors(editor.cursors)
    /\ editor.lastAdded \in Nat \ {0}
    /\ editor.undoIndex \in 0..Len(editor.undoBuffer)
    /\ editor.ops = <<>>
    /\ {editor.changed, editor.dragging, editor.overwrite, editor.aborted} \subseteq BOOLEAN
    /\ editor.fresh \in Seq(BOOLEAN) /\ Len(editor.fresh) = Len(editor.lines)
    /\ {editor.colorMin, editor.colorMax} \subseteq Nat /\ editor.scan \in BOOLEAN
    /\ phase \in {"toolbar", "keys", "typing"}
    /\ mouseDown \in BOOLEAN

(* No cursor, and none that an undo or redo would bring back, stands on a  *)
(* line that is not there: the commands index m_Lines with it unchecked.   *)
CursorsInText ==
    /\ \A c \in DOMAIN editor.cursors :
           {editor.cursors[c].s.line, editor.cursors[c].e.line} \subseteq 0..(Len(editor.lines) - 1)
    /\ \A n \in DOMAIN editor.undoBuffer :
           LET r == editor.undoBuffer[n]
           IN  /\ \A k \in ToSet(r.before.cursors) : k.e.line < Len(r.from) /\ k.s.line < Len(r.from)
               /\ \A k \in ToSet(r.after.cursors) : k.e.line < Len(r.to) /\ k.s.line < Len(r.to)

(* No line, nor a text that paste, undo or redo will put into one, holds a *)
(* part of a character: the indices that GetCharacterIndexL and R walk to  *)
(* are then inside the line, where insert and erase need them.             *)
CharactersWhole ==
    /\ \A l \in DOMAIN editor.lines : Whole(editor.lines[l])
    /\ Whole(editor.clipboard)
    /\ \A n \in DOMAIN editor.undoBuffer :
           \A o \in ToSet(editor.undoBuffer[n].ops) : Whole(o.text)

(* When the keys are served and no selection is being dragged, the cursors *)
(* are in order and no two of them overlap or coincide, so that no command *)
(* handles a stretch of the text twice.                                    *)
CursorsApart ==
    phase = "keys" /\ ~editor.dragging =>
        \A c \in 1..(Len(editor.cursors) - 1) :
            /\ AtOrBefore(SelectionEnd(editor.cursors[c]), SelectionStart(editor.cursors[c + 1]))
            /\ editor.cursors[c] # editor.cursors[c + 1]

(* No assertion of the code fails.                                         *)
NoAssertFails == ~editor.aborted

Deleting ==
    \/ ToolbarCut \/ ToolbarPaste \/ PressCut \/ PressPaste \/ PressEnter \/ PressTab
    \/ \E ch \in Characters : Type(ch)

(* Selections are cut, pasted over or typed over when no cursor selects, or*)
(* every one does and no two overlap; the next occurrence is looked for of *)
(* a selection with text in it; and lines are removed when no selection is *)
(* being dragged, and a line is left over or the first one is not empty.   *)
Asserted ==
    /\ Deleting => SelectTogether(editor)
    /\ PressNextOccurrence => SelectsText(editor)
    /\ PressRemoveLines => RemovesText(editor)

(* An assertion of the code fails in these cases only: whatever the cursors*)
(* select, and however they were sorted and merged before, no command asks *)
(* for the text of an empty stretch, or of one that it has deleted already.*)
FailsOnlyUnasserted == [][editor'.aborted => ~Asserted]_vars

Versions ==
    IF editor.undoBuffer = <<>> THEN <<editor.lines>>
    ELSE <<editor.undoBuffer[1].from>>
             \o [n \in DOMAIN editor.undoBuffer |-> editor.undoBuffer[n].to]

History == INSTANCE UndoHistory
               WITH Text <- Seq(Seq(Glyph)), text <- editor.lines,
                    versions <- Versions, index <- editor.undoIndex

(* Undo and redo, whatever the commands were, lead through the versions    *)
(* of the text that the commands produced.                                 *)
UndoRestoresText == History!Spec

OnCharacters(cursors, lines) ==
    \A k \in ToSet(cursors) : {k.s, k.e} \subseteq ScreenCoordinates(lines)

(* An undo takes back, and a redo brings back, all that a command did to   *)
(* the text, if the command found every cursor on an edge of a character;  *)
(* a cursor that MoveUp, MoveDown or an indentation left behind the end of *)
(* its line or inside a tab is not (see UndoRestoresText).                 *)
UndoInvertsCommand ==
    [][\A n \in DOMAIN editor.undoBuffer :
           LET r == editor.undoBuffer[n]
               walks(m) == editor.undoIndex = m /\ editor'.undoBuffer = editor.undoBuffer
           IN  OnCharacters(r.before.cursors, r.from) =>
                   /\ walks(n) /\ editor'.undoIndex = n - 1 /\ editor.lines = r.to
                          => editor'.lines = r.from
                   /\ walks(n - 1) /\ editor'.undoIndex = n /\ editor.lines = r.from
                          => editor'.lines = r.to]_vars

IsRedo == editor'.undoBuffer = editor.undoBuffer /\ editor'.undoIndex > editor.undoIndex

BreaksLinesAtSeveralCursors ==
    /\ Len(editor.cursors) > 1
    /\ editor'.undoIndex > editor.undoIndex
    /\ Len(editor'.lines) > Len(editor.lines)

EditsOneLine ==
    /\ Len(editor'.lines) = Len(editor.lines)
    /\ \E l \in DOMAIN editor.lines :
           editor'.lines = [editor.lines EXCEPT ![l] = editor'.lines[l]]

(* A line whose glyphs a command has changed is in the range to be coloured *)
(* until the frame that colours it: its tokens (m_ColorIndex) do not keep   *)
(* the colours of other tokens.  The code misses lines in three cases, which*)
(* the premise names: a redo does not colour the last line of an operation; *)
(* lines added at several cursors are coloured where the lower ones were    *)
(* before; and what is still to be coloured is not moved along when a       *)
(* command of the same frame moves lines.  Of the flags of comments, which  *)
(* reach from line to line, this says nothing: see ScanFollowsText.         *)
ColoursFollowText ==
    [][/\ Rotten(editor) = {} /\ ~IsRedo /\ ~BreaksLinesAtSeveralCursors
       /\ (\A l \in DOMAIN editor.fresh : editor.fresh[l]) \/ EditsOneLine
       => Rotten(editor') = {}]_vars

(* When the text has changed, the frame will scan it for comments again,    *)
(* whichever command, undo or redo changed it, and from then on the flags   *)
(* of the lines below are those of the new text.  Except for three commands:*)
(* LinesUp, LinesDown and RemoveLines without a selection ask for no scan,  *)
(* so that the lines below a sign that they move or remove keep the colour  *)
(* of the comment until something else is changed.                          *)
ScanFollowsText ==
    [][editor'.lines # editor.lines =>
           \/ editor'.scan
           \/ PressLinesUp \/ PressLinesDown
           \/ PressRemoveLines /\ ~AnyCursorHasSelection(editor)]_vars

Only(type, r) == \A n \in DOMAIN r.ops : r.ops[n].type = type

TextsTopDown(r) == Reverse([n \in DOMAIN r.ops |-> r.ops[n].text])

(* A paste puts back what a cut has just taken away, if the cursors and    *)
(* the clipboard are still those the cut left: with several cursors every  *)
(* line of the clipboard goes to the cursor it came from.  A selection     *)
(* over several lines comes back only if it was the only one.              *)
PastePutsBackCut ==
    [][editor.undoIndex > 0 /\ editor'.undoIndex = editor.undoIndex + 1 =>
           LET cut == editor.undoBuffer[editor.undoIndex]
               paste == editor'.undoBuffer[editor'.undoIndex]
           IN  /\ Only("Delete", cut) /\ Only("Add", paste)
               /\ editor'.undoBuffer # editor.undoBuffer
               /\ editor.cursors = cut.after.cursors
               /\ editor.clipboard = Joined(TextsTopDown(cut))
               /\ \/ Len(cut.ops) = 1
                  \/ \A n \in DOMAIN cut.ops : NewLine \notin ToSet(cut.ops[n].text)
               => editor'.lines = cut.from]_vars

(* From the click that begins a drag to the release, nothing but the free  *)
(* end of the newest cursor moves: the others are neither sorted nor       *)
(* merged, so that the drag does not go on with another cursor.  (No key   *)
(* is served meanwhile unless "KeysWhileMouseDown" is among the Commands.) *)
DragMovesOneCursor ==
    [][editor.dragging /\ mouseDown /\ mouseDown' =>
           LET n == Len(editor.cursors)
           IN  /\ Len(editor'.cursors) = n
               /\ \A c \in 1..(n - 1) : editor'.cursors[c] = editor.cursors[c]
               /\ editor'.cursors[n].s = editor.cursors[n].s]_vars

(* Every glyph index survives the way to its column and back, and a column *)
(* inside a tab lies between the two readings of it.                       *)
ColumnsRoundTrip ==
    \A l \in 0..(Len(editor.lines) - 1) :
        /\ \A s \in Stops(editor.lines[l + 1]) :
               /\ GetCharacterIndexR(editor.lines, At(l, s.column)) = s.index
               /\ GetCharacterIndexL(editor.lines, At(l, s.column)) = s.index
        /\ \A c \in 0..(GetLineMaxColumn(editor.lines, l) + 1) :
               GetCharacterIndexL(editor.lines, At(l, c))
                   <= GetCharacterIndexR(editor.lines, At(l, c))
=============================================================================
