--------------------------- MODULE EditorColoring ---------------------------
(***************************************************************************)
(* How CTextEditor keeps the colours of its text up to date.  Every change *)
(* of the text asks for the lines it has touched (Colorize); the requests  *)
(* of a frame are kept as the one range that spans them, and the frame     *)
(* ends with colouring that range (ColorizeInternal).  A line is fresh     *)
(* when it has not changed since it was coloured.  To the fields of w come *)
(*   fresh       for every line, whether it is fresh                       *)
(*   colorMin    m_iColorRangeMin                                          *)
(*   colorMax    m_iColorRangeMax                                          *)
(*   scan        m_bCheckComments: the text is to be scanned for comments  *)
(***************************************************************************)
EXTENDS EditorCursors

CONSTANT ColorIncrement     \* lines coloured in a frame; 10 for SQL, which has no tokenizer

ASSUME ColorIncrementAssumption == ColorIncrement \in Nat \ {0}

MaxInt == 2147483647

\* Mutant: the range of the last request takes the place of those before.
ColorizeLast(w, from, count) ==
    LET to == Min({Len(w.lines), from + count})
    IN  [w EXCEPT !.colorMin = Max({0, from}), !.colorMax = Max({0, from, to}), !.scan = TRUE]

\* Mutant: the text is not scanned for comments again.
ColorizeUnscanned(w, from, count) ==
    LET min == Max({0, Min({w.colorMin, from})})
        to == Min({Len(w.lines), from + count})
    IN  [w EXCEPT !.colorMin = min, !.colorMax = Max({min, w.colorMax, to})]

Colorize(w, from, count) ==
    LET min == Max({0, Min({w.colorMin, from})})
        to == Min({Len(w.lines), from + count})
    IN  [w EXCEPT !.colorMin = min, !.colorMax = Max({min, w.colorMax, to}), !.scan = TRUE]

ColorizeRange(fresh, from, to) ==
    [l \in DOMAIN fresh |-> fresh[l] \/ l - 1 \in from..(to - 1)]

(* One frame's share of the range; when none is left the range is reset.   *)
ColorizeInternal(w) ==
    LET to == Min({w.colorMin + ColorIncrement, w.colorMax})
        colored == [w EXCEPT !.scan = FALSE, !.fresh = ColorizeRange(@, w.colorMin, to)]
    IN  IF w.colorMin >= w.colorMax THEN [w EXCEPT !.scan = FALSE]
        ELSE IF to = w.colorMax THEN [colored EXCEPT !.colorMin = MaxInt, !.colorMax = 0]
        ELSE [colored EXCEPT !.colorMin = to]

(* A line that will not get the colours of its text: it has changed since  *)
(* it was coloured and no request covers it.                               *)
Rotten(w) ==
    {l \in DOMAIN w.fresh : ~w.fresh[l] /\ l - 1 \notin w.colorMin..(w.colorMax - 1)}
=============================================================================
