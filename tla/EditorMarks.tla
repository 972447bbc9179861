---------------------------- MODULE EditorMarks ----------------------------
(***************************************************************************)
(* Two scans over the whole text: the match of a bracket, and the search   *)
(* for comments that ColorizeInternal does before it colours.  Both are    *)
(* stated for the text as one sequence, its lines joined by line breaks.   *)
(***************************************************************************)
EXTENDS EditorCoords

OPEN_TO_CLOSE_CHAR ==
    [open \in {"{", "(", "["} |->
        CASE open = "{" -> "}" [] open = "(" -> ")" [] open = "[" -> "]"]
CLOSE_TO_OPEN_CHAR ==
    [close \in {"}", ")", "]"} |->
        CASE close = "}" -> "{" [] close = ")" -> "(" [] close = "]" -> "["]

\* Mutant: a bracket of the own kind on the way is not counted.
FirstAlongUncounted(text, way, own, other) ==
    LET met == {n \in DOMAIN way : text[way[n]] = other}
    IN  IF met = {} THEN 0 ELSE way[Min(met)]

\* The way is followed until the counter, 1 at first, comes down to 0.
FirstAlong(text, way, own, other) ==
    LET counter[n \in 0..Len(way)] ==
            IF n = 0 THEN 1
            ELSE counter[n - 1] + (IF text[way[n]] = own THEN 1
                                   ELSE IF text[way[n]] = other THEN -1 ELSE 0)
        met == {n \in DOMAIN way : counter[n] = 0}
    IN  IF met = {} THEN 0 ELSE way[Min(met)]

\* 0 if there is none.
FindMatchingBracket(text, i) ==
    LET back == [n \in 1..(i - 1) |-> i - n]
        on == [n \in 1..(Len(text) - i) |-> i + n]
    IN  IF text[i] \in DOMAIN CLOSE_TO_OPEN_CHAR
        THEN FirstAlong(text, back, text[i], CLOSE_TO_OPEN_CHAR[text[i]])
        ELSE IF text[i] \in DOMAIN OPEN_TO_CLOSE_CHAR
        THEN FirstAlong(text, on, text[i], OPEN_TO_CLOSE_CHAR[text[i]])
        ELSE 0

-----------------------------------------------------------------------------
(* The comment scan, as a fold over the text.  The glyphs with             *)
(* m_bMultiLineComment and m_bComment set are the sets multiLine and       *)
(* singleLine; they are the flags the glyphs had before the scan wherever  *)
(* it does not write them.  skip says that the glyph before escapes the    *)
(* next one, and rest how many bytes of a character are still to be passed *)
(* over.  The preprocessor flag is left out.                               *)
CommentStart == <<"/", "*">>
CommentEnd == <<"*", "/">>
SingleLineSign == <<"-", "-">>
Quote == "quote"
Backslash == "backslash"

Occurs(sign, text, i) ==
    i + Len(sign) - 1 <= Len(text) /\ SubSeq(text, i, i + Len(sign) - 1) = sign

EndsLine(text, i) == i = Len(text) \/ text[i + 1] = NewLine

AtFirst(flags) ==
    [comment |-> FALSE, string |-> FALSE, single |-> FALSE, concatenate |-> FALSE,
     skip |-> FALSE, rest |-> 0,
     multiLine |-> flags.multiLine, singleLine |-> flags.singleLine]

Put(set, i, on) == IF on THEN set \cup {i} ELSE set \ {i}

Marked(a, i) == [a EXCEPT !.multiLine = Put(@, i, a.comment)]

\* '\' on the very end of the line lets a comment go on in the next.
AtLineBreak(a) ==
    [a EXCEPT !.single = @ /\ a.concatenate, !.concatenate = FALSE, !.rest = 0]

InString(a, text, i) ==
    LET escapes == /\ ~EndsLine(text, i)
                   /\ text[i] = Backslash \/ (text[i] = Quote /\ text[i + 1] = Quote)
    IN  [Marked(a, i) EXCEPT !.skip = escapes, !.string = text[i] # Quote \/ escapes]

\* Mutant: the end of a comment is looked for before the flag is set.
OutsideStringEarly(a, text, i) ==
    LET opens == ~a.single /\ Occurs(CommentStart, text, i)
        single == a.single \/ Occurs(SingleLineSign, text, i)
        closes == i > 1 /\ Occurs(CommentEnd, text, i - 1)
        b == [a EXCEPT !.comment = (@ \/ opens) /\ ~closes, !.single = single]
    IN  IF text[i] = Quote THEN [Marked(a, i) EXCEPT !.string = TRUE]
        ELSE [Marked(b, i) EXCEPT !.singleLine = Put(@, i, single)]

OutsideString(a, text, i) ==
    LET opens == ~a.single /\ Occurs(CommentStart, text, i)
        single == a.single \/ Occurs(SingleLineSign, text, i)
        closes == i > 1 /\ Occurs(CommentEnd, text, i - 1)
        b == [a EXCEPT !.comment = @ \/ opens, !.single = single]
    IN  IF text[i] = Quote THEN [Marked(a, i) EXCEPT !.string = TRUE]
        ELSE [Marked(b, i) EXCEPT !.singleLine = Put(@, i, single), !.comment = @ /\ ~closes]

\* Of a character of several bytes only the first is looked at.
AtGlyph(a, text, i) ==
    LET b == [a EXCEPT !.concatenate = EndsLine(text, i) /\ text[i] = Backslash,
                       !.rest = UTF8CharLength(text[i]) - 1]
    IN  IF a.rest > 0 THEN [a EXCEPT !.rest = @ - 1]
        ELSE IF a.skip THEN [Marked(a, i) EXCEPT !.skip = FALSE]
        ELSE IF a.string THEN InString(b, text, i)
        ELSE OutsideString(b, text, i)

CheckComments(text, flags) ==
    LET after[i \in 0..Len(text)] ==
            IF i = 0 THEN AtFirst(flags)
            ELSE IF text[i] = NewLine THEN AtLineBreak(after[i - 1])
            ELSE AtGlyph(after[i - 1], text, i)
    IN  after[Len(text)]

-----------------------------------------------------------------------------
(* What the scans are to find, said without them.                          *)
Pairs(text, open) ==
    LET after[i \in 0..Len(text)] ==
            IF i = 0 THEN [stack |-> <<>>, pairs |-> {}]
            ELSE IF text[i] = open THEN [after[i - 1] EXCEPT !.stack = Append(@, i)]
            ELSE IF text[i] = OPEN_TO_CLOSE_CHAR[open] /\ after[i - 1].stack # <<>>
            THEN [stack |-> Front(after[i - 1].stack),
                  pairs |-> after[i - 1].pairs \cup {{Last(after[i - 1].stack), i}}]
            ELSE after[i - 1]
    IN  after[Len(text)].pairs

(* Brackets are matched as a stack matches them, each kind on its own: the *)
(* match of a match is the bracket itself, and a bracket too many has none.*)
BracketsPaired(text) ==
    LET pairs == UNION {Pairs(text, open) : open \in DOMAIN OPEN_TO_CLOSE_CHAR}
    IN  \A i \in DOMAIN text :
            LET j == FindMatchingBracket(text, i)
            IN  IF j = 0 THEN \A pair \in pairs : i \notin pair ELSE {i, j} \in pairs

Quoted(text, i) == Cardinality({j \in 1..(i - 1) : text[j] = Quote}) % 2 = 1

SignAt(sign, text, i) == Occurs(sign, text, i) /\ ~Quoted(text, i)

InSingleLineComment(text, i) ==
    \E s \in 1..i :
        /\ SignAt(SingleLineSign, text, s)
        /\ \A j \in s..i : text[j] = NewLine => text[j - 1] = Backslash

InMultiLineComment(text, i) ==
    \E s \in 1..i :
        /\ SignAt(CommentStart, text, s)
        /\ ~InSingleLineComment(text, s)
        /\ \A e \in s..(i - 1) : ~(e > 1 /\ SignAt(CommentEnd, text, e - 1))

PlainStrings(text) == \A i \in DOMAIN text : text[i] = Backslash => ~Quoted(text, i)

\* The second byte of a character.
IsRest(text, i) == i > 1 /\ text[i - 1] = LeadByte

OutsideStrings(text, i) == ~Quoted(text, i) /\ text[i] # Quote

(* Whatever flags the glyphs had before, the scan finds the comments of    *)
(* any text whose strings hold no backslash: a comment goes from its sign  *)
(* to the end sign, or to the end of the line; a sign inside a string opens*)
(* and closes nothing; and a comment of one line hides the start of one of *)
(* several lines.  But a glyph of a string keeps the flag m_bComment it had*)
(* (and its comment's colour, if it was part of one), and so does the rest *)
(* of a character, which nothing draws by itself.                          *)
CommentsFound(text, flags) ==
    LET found == CheckComments(text, flags)
    IN  \A i \in {j \in DOMAIN text : text[j] # NewLine} :
            /\ i \in found.multiLine
                   <=> IF IsRest(text, i) THEN i \in flags.multiLine ELSE InMultiLineComment(text, i)
            /\ i \in found.singleLine
                   <=> IF ~IsRest(text, i) /\ OutsideStrings(text, i)
                       THEN InSingleLineComment(text, i) ELSE i \in flags.singleLine
=============================================================================
