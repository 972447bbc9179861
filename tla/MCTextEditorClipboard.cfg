SPECIFICATION Spec

CONSTANTS
    TabSize = 2
    ColorIncrement = 1
    Glyph <- Glyphs
    Texts <- Words
    Clipboards <- NoText
    VisibleLineCount = 3
    Commands = {"Cut", "ToolbarCut", "Copy", "ToolbarCopy", "Paste", "ToolbarPaste",
                "DoubleClick", "Release", "SelectAll", "ToolbarSelectAll"}
    Characters = {}
    MaxText = 4
    MaxUndo = 2
    MaxCursors = 2

INVARIANTS
    BracketsMatched
    CommentsMarked

PROPERTIES
    ColoursFollowText
    PastePutsBackCut
    FailsOnlyUnasserted

CHECK_DEADLOCK FALSE
