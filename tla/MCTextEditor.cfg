SPECIFICATION Spec

CONSTANTS
    TabSize = 2
    ColorIncrement = 10
    Glyph <- Glyphs
    Texts <- TabText
    Clipboards <- LineOfText
    VisibleLineCount = 3
    Commands = {"Undo", "ToolbarRedo", "Left", "Right", "WordRight",
                "Home", "Backspace", "WordBackspace", "Delete", "Enter", "RemoveLines",
                "LinesUp", "LinesDown", "Comment", "Insert", "Paste"}
    Characters = {"lead"}
    MaxText = 6
    MaxUndo = 2
    MaxCursors = 1

INVARIANTS
    TypeOK
    CharactersWhole
    ColumnsRoundTrip

PROPERTIES
    ColoursFollowText
    ScanFollowsText
    UndoRestoresText

CHECK_DEADLOCK FALSE
