SPECIFICATION Spec

CONSTANTS
    TabSize = 2
    ColorIncrement = 10
    Glyph <- Glyphs
    Texts <- TabText
    Clipboards <- LineOfText
    VisibleLineCount = 3
    Commands = {"Shift", "ToolbarUndo", "Redo", "PageUp", "PageDown", "WordLeft", "End", "Delete",
                "WordDelete", "RemoveLines", "LinesUp", "Comment", "Tab", "Unindent", "Indent",
                "ToolbarPaste", "LineClick", "Release"}
    Characters = {"x"}
    MaxText = 5
    MaxUndo = 1
    MaxCursors = 1

PROPERTIES
    ColoursFollowText
    ScanFollowsText
    UndoInvertsCommand

CHECK_DEADLOCK FALSE
