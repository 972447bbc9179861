SPECIFICATION Spec

CONSTANTS
    TabSize = 2
    ColorIncrement = 10
    Glyph <- Glyphs
    Texts <- Words
    Clipboards <- NoText
    VisibleLineCount = 3
    Commands = {"CtrlClick", "Drag", "Release", "Cut"}
    Characters = {}
    MaxText = 3
    MaxUndo = 1
    MaxCursors = 2

INVARIANTS
    NoAssertFails

CHECK_DEADLOCK FALSE
