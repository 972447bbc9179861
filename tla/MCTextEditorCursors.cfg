SPECIFICATION Spec

CONSTANTS
    TabSize = 2
    ColorIncrement = 10
    Glyph <- Glyphs
    Texts <- TwinLines
    Clipboards <- NoText
    VisibleLineCount = 3
    Commands = {"Up", "Down", "Top", "Bottom", "Right", "CtrlClick", "ShiftClick", "Drag",
                "Release", "NextOccurrence", "Backspace", "Enter", "RemoveLines", "Undo"}
    Characters = {}
    MaxText = 4
    MaxUndo = 1
    MaxCursors = 2

INVARIANTS
    CursorsInText
    CursorsApart

PROPERTIES
    DragMovesOneCursor
    FailsOnlyUnasserted

CHECK_DEADLOCK FALSE
