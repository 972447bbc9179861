---------------------------- MODULE EditorCoords ----------------------------
(***************************************************************************)
(* The coordinates of CTextEditor.  The text is a sequence of lines and a  *)
(* line a sequence of glyphs, one per byte; a coordinate counts columns as *)
(* the user sees them: a tab reaches to the next tab stop and the bytes of *)
(* one UTF-8 sequence take one column.  Lines, indices and columns are     *)
(* 0-based, as in the code.                                                *)
(***************************************************************************)
EXTENDS Integers, FiniteSets, Sequences, FiniteSetsExt, SequencesExt

CONSTANTS
    TabSize,            \* m_iTabSize, which SetTabSize clamps to 1..8
    Glyph               \* the bytes a line is made of

ASSUME TabSizeAssumption == TabSize \in 1..8

(* The glyphs told apart: a tab, a space, the two bytes of a character     *)
(* outside ASCII, and any others, each its own ASCII character.            *)
Tab == "tab"
Space == "space"
LeadByte == "lead"
NextByte == "next"
NewLine == "newline"      \* in a text, never in a line

Blank == {Tab, Space}

(* Whatever the texts hold: a key enters a tab, ToggleLineComment "--" and *)
(* a space, and a lead byte does not come without the byte that follows.   *)
ASSUME GlyphAssumption == {Tab, Space, NextByte, "-"} \subseteq Glyph /\ NewLine \notin Glyph

\* Mutant: a character is taken to be one byte.
UTF8CharLengthOne(g) == 1

UTF8CharLength(g) == IF g = LeadByte THEN 2 ELSE 1

IsUTFSequence(g) == g = NextByte

(* What lines and texts are made of: no character is cut in half.  A walk  *)
(* along a line that ended in a lead byte would step over its end.         *)
Whole(s) ==
    \A i \in DOMAIN s : s[i] = LeadByte => i + 1 \in DOMAIN s /\ s[i + 1] = NextByte

Line == {s \in Seq(Glyph) : Whole(s)}
Passage == {s \in Seq(Glyph \cup {NewLine}) : Whole(s)}

\* The classes of the ASCII glyphs that are not blank.
Punctuation == {"-", ";"}
CharIsWordChar(g) == g \notin Blank \cup Punctuation \cup {NextByte}

At(l, c) == [line |-> l, column |-> c]

Before(p, q) == p.line < q.line \/ (p.line = q.line /\ p.column < q.column)
AtOrBefore(p, q) == p = q \/ Before(p, q)

TabSizeAtColumn(c) == TabSize - (c % TabSize)

(* The step every walk along a line takes: over one character.             *)
MoveCharIndexAndColumn(line, s) ==
    LET g == line[s.index + 1]
    IN  [index |-> s.index + UTF8CharLength(g),
         column |-> s.column + (IF g = Tab THEN TabSizeAtColumn(s.column) ELSE 1)]

(* The places such a walk stops at.                                        *)
Stops(line) ==
    LET after[k \in 0..Len(line)] ==
            IF k = 0 THEN [index |-> 0, column |-> 0]
            ELSE LET s == after[k - 1]
                 IN  IF s.index < Len(line) THEN MoveCharIndexAndColumn(line, s) ELSE s
    IN  {after[k] : k \in 0..Len(line)}

Columns(S) == {s.column : s \in S}
Indices(S) == {s.index : s \in S}

LineSize(lines, l) == Len(lines[l + 1])

(* Where a walk that goes on while its column, or index, is less than n    *)
(* ends.                                                                   *)
WalkTo(S, scale, n) ==
    CHOOSE s \in S : /\ s[scale] >= n \/ \A t \in S : t[scale] <= s[scale]
                     /\ \A t \in S : t[scale] < s[scale] => t[scale] < n

(* The glyph under p; a tab counts from its first column to its last.      *)
GetCharacterIndexL(lines, p) ==
    IF p.line >= Len(lines) THEN -1
    ELSE Max(Indices({s \in Stops(lines[p.line + 1]) : s.column <= p.column}))

\* Mutant: the first glyph that starts after p.
GetCharacterIndexAfter(lines, p) ==
    IF p.line >= Len(lines) THEN -1
    ELSE WalkTo(Stops(lines[p.line + 1]), "column", p.column + 1).index

(* The first glyph that starts at p or after it.                           *)
GetCharacterIndexR(lines, p) ==
    IF p.line >= Len(lines) THEN -1
    ELSE WalkTo(Stops(lines[p.line + 1]), "column", p.column).index

GetCharacterColumn(lines, l, i) ==
    IF l >= Len(lines) THEN 0
    ELSE WalkTo(Stops(lines[l + 1]), "index", i).column

GetLineMaxColumn(lines, l) ==
    IF l >= Len(lines) THEN 0 ELSE Max(Columns(Stops(lines[l + 1])))

SanitizeCoordinates(lines, p) ==
    LET last == Len(lines) - 1
    IN  IF p.line > last THEN At(last, GetLineMaxColumn(lines, last))
        ELSE At(p.line, Min({p.column, GetLineMaxColumn(lines, p.line)}))

LastCoordinates(lines) ==
    At(Len(lines) - 1, GetLineMaxColumn(lines, Len(lines) - 1))

(* Where a click can land: ScreenPosToCoordinates snaps to the nearer edge *)
(* of a tab and sanitizes the rest.                                        *)
ScreenCoordinates(lines) ==
    UNION {{At(l, c) : c \in Columns(Stops(lines[l + 1]))} : l \in 0..(Len(lines) - 1)}

-----------------------------------------------------------------------------
(* Words: a run of spaces, of word characters, or of one other character.  *)
Alike(line, i, j) ==
    IF line[i + 1] \in Blank THEN line[j + 1] \in Blank
    ELSE IF CharIsWordChar(line[i + 1]) THEN CharIsWordChar(line[j + 1])
    ELSE line[j + 1] = line[i + 1]

Unlike(line, i, J) == {j \in J : j < Len(line) /\ ~Alike(line, i, j)}

\* The word around the glyph i of a line with these character starts.
WordStart(line, starts, i) ==
    LET U == Unlike(line, i, {j \in starts : j < i})
    IN  IF U = {} THEN 0 ELSE Min({j \in starts : j > Max(U)})

WordEnd(line, starts, i) ==
    LET U == Unlike(line, i, {j \in starts : j > i})
    IN  IF U = {} THEN Max(starts) ELSE Min(U)

FindWordStart(lines, p) ==
    LET line == lines[p.line + 1]
        start(i) == WordStart(line, Indices(Stops(line)), Min({i, Len(line) - 1}))
    IN  IF line = <<>> THEN p
        ELSE At(p.line, GetCharacterColumn(lines, p.line, start(GetCharacterIndexL(lines, p))))

FindWordEnd(lines, p) ==
    LET line == lines[p.line + 1]
        i == GetCharacterIndexL(lines, p)
    IN  IF i >= Len(line) THEN p
        ELSE At(p.line, GetCharacterColumn(lines, p.line, WordEnd(line, Indices(Stops(line)), i)))

-----------------------------------------------------------------------------
(* MoveCoords, one operator per direction.                                 *)
StepRight(lines, l, i) ==
    At(l, GetCharacterColumn(lines, l, Min({j \in Indices(Stops(lines[l + 1])) : j > i})))

StepLeft(lines, l, i) ==
    At(l, GetCharacterColumn(lines, l, Max({j \in Indices(Stops(lines[l + 1])) : j < i})))

Rightmost(p, q) == IF p.column < q.column THEN q ELSE p

MoveCoordsRight(lines, p, word) ==
    LET i == GetCharacterIndexR(lines, p)
    IN  IF i >= LineSize(lines, p.line)
        THEN IF p.line < Len(lines) - 1 THEN At(p.line + 1, 0) ELSE p
        ELSE Rightmost(StepRight(lines, p.line, i), IF word THEN FindWordEnd(lines, p) ELSE p)

MoveCoordsLeft(lines, p, word) ==
    LET i == GetCharacterIndexR(lines, p)
        step == StepLeft(lines, p.line, i)
    IN  IF i = 0
        THEN IF p.line > 0 THEN At(p.line - 1, GetLineMaxColumn(lines, p.line - 1)) ELSE p
        ELSE IF word THEN FindWordStart(lines, step) ELSE step

MoveCoordsUp(p, n) == [p EXCEPT !.line = Max({0, @ - n})]

\* Mutant: the line is not held inside the text.
MoveCoordsDownUnheld(lines, p, n) == [p EXCEPT !.line = @ + n]

MoveCoordsDown(lines, p, n) ==
    [p EXCEPT !.line = Max({0, Min({Len(lines) - 1, @ + n})})]

-----------------------------------------------------------------------------
(* The text from one coordinate to another, lines joined by NewLine.       *)
Joined(lines) ==
    LET upTo[k \in 1..Len(lines)] ==
            IF k = 1 THEN lines[1] ELSE upTo[k - 1] \o <<NewLine>> \o lines[k]
    IN  upTo[Len(lines)]

OffsetOfLine(lines, l) ==
    LET upTo[k \in 0..l] == IF k = 0 THEN 0 ELSE upTo[k - 1] + Len(lines[k]) + 1
    IN  upTo[l]

Offset(lines, p) == OffsetOfLine(lines, p.line) + GetCharacterIndexR(lines, p)

AtOffset(lines, o) ==
    LET l == Max({k \in 0..(Len(lines) - 1) : OffsetOfLine(lines, k) <= o})
    IN  At(l, GetCharacterColumn(lines, l, o - OffsetOfLine(lines, l)))

GetText(lines, p, q) ==
    SubSeq(Joined(lines), Offset(lines, p) + 1, Offset(lines, q))

(* The occurrences of a text, as the offsets they start at, and the one    *)
(* that the scan meets first from p on, wrapping past the end.             *)
Occurrences(lines, text) ==
    LET all == Joined(lines)
    IN  {o \in 0..(Len(all) - Len(text)) : SubSeq(all, o + 1, o + Len(text)) = text}

FirstFrom(O, start) ==
    LET ahead == {o \in O : o >= start}
    IN  IF ahead = {} THEN Min(O) ELSE Min(ahead)

Stretch(lines, o, length) == [s |-> AtOffset(lines, o), e |-> AtOffset(lines, o + length)]

FindNextOccurrence(lines, text, p) ==
    Stretch(lines, FirstFrom(Occurrences(lines, text), Offset(lines, p)), Len(text))
=============================================================================
