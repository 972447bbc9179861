------------------------- MODULE EditorCoordsProofs -------------------------
(***************************************************************************)
(* The coordinates of CTextEditor, for every text and every tab size: how  *)
(* the walk along a line relates glyph indices and columns, and where the  *)
(* coordinates that the editor computes lie.                               *)
(***************************************************************************)
EXTENDS EditorCoords, FiniteSetTheorems, WellFoundedInduction, TLAPS

-----------------------------------------------------------------------------
(* Induction over the naturals, stated for a set and not for a predicate.  *)
LEMMA LeastNat ==
    ASSUME NEW T, T \subseteq Nat, T # {}
    PROVE  \E x \in T : \A y \in T : x <= y
<1> DEFINE R == OpToRel(<, Nat)
<1>1. IsWellFoundedOn(R, Nat)
  BY NatLessThanWellFounded
<1> HIDE DEF R
<1>2. PICK x \in T : \A y \in T : ~ (<<y, x>> \in R)
  BY <1>1, WFMin
<1>3. \A y \in T : ~ (y < x)
  BY <1>2 DEF R, OpToRel
<1> QED BY <1>3

LEMMA SetInduction ==
    ASSUME NEW S, 0 \in S, \A n \in Nat : n \in S => n + 1 \in S
    PROVE  Nat \subseteq S
<1> DEFINE T == {n \in Nat : n \notin S}
<1>1. SUFFICES ASSUME T # {} PROVE FALSE
  OBVIOUS
<1>2. PICK x \in T : \A y \in T : x <= y
  BY <1>1, LeastNat
<1>3. x # 0 /\ x \in Nat /\ x - 1 \in Nat /\ x - 1 \notin T
  BY <1>2
<1>4. x - 1 + 1 \in S
  BY <1>3
<1> QED BY <1>2, <1>3, <1>4

LEMMA GreatestNat ==
    ASSUME NEW T, T \subseteq Nat, T # {}, NEW b \in Nat, \A x \in T : x <= b
    PROVE  \E x \in T : \A y \in T : y <= x
<1> DEFINE U == {b - x : x \in T}
<1>1. U \subseteq Nat /\ U # {}
  <2>1. \A x \in T : x \in Nat /\ b - x \in Nat
    OBVIOUS
  <2> QED BY <2>1
<1>2. PICK u \in U : \A v \in U : u <= v
  BY <1>1, LeastNat
<1>3. PICK x \in T : u = b - x
  BY <1>2
<1>4. \A y \in T : b - x <= b - y
  BY <1>2, <1>3
<1>5. \A y \in T : y <= x
  BY <1>4
<1> QED BY <1>5

(* The library's Max and Min, of a set of naturals and of a few integers.  *)
LEMMA MaxOf ==
    ASSUME NEW S, NEW a \in S, S \subseteq Int, \A x \in S : a >= x
    PROVE  Max(S) = a
<1>1. Max(S) \in S /\ \A y \in S : Max(S) >= y
  BY DEF Max
<1>2. Max(S) >= a /\ a >= Max(S) /\ Max(S) \in Int /\ a \in Int
  BY <1>1
<1> QED BY <1>2

LEMMA MinOf ==
    ASSUME NEW S, NEW a \in S, S \subseteq Int, \A x \in S : a =< x
    PROVE  Min(S) = a
<1>1. Min(S) \in S /\ \A y \in S : Min(S) =< y
  BY DEF Min
<1>2. Min(S) =< a /\ a =< Min(S) /\ Min(S) \in Int /\ a \in Int
  BY <1>1
<1> QED BY <1>2

LEMMA MinOfTwo ==
    ASSUME NEW a \in Int, NEW b \in Int
    PROVE  Min({a, b}) = IF a <= b THEN a ELSE b
BY MinOf

LEMMA MaxOfTwo ==
    ASSUME NEW a \in Int, NEW b \in Int
    PROVE  Max({a, b}) = IF a >= b THEN a ELSE b
BY MaxOf

LEMMA MinOfNats ==
    ASSUME NEW S, S \subseteq Nat, S # {}
    PROVE  Min(S) \in S /\ \A x \in S : Min(S) <= x
<1>1. PICK a \in S : \A x \in S : a <= x
  BY LeastNat
<1>2. Min(S) = a
  <2>1. S \subseteq Int
    OBVIOUS
  <2> QED BY <1>1, <2>1, MinOf
<1> QED BY <1>1, <1>2

LEMMA MaxOfNats ==
    ASSUME NEW S, S \subseteq Nat, S # {}, NEW b \in Nat, \A x \in S : x <= b
    PROVE  Max(S) \in S /\ \A x \in S : x <= Max(S)
<1>1. PICK a \in S : \A x \in S : x <= a
  BY GreatestNat
<1>2. Max(S) = a
  <2>1. S \subseteq Int /\ \A x \in S : a >= x
    BY <1>1
  <2> QED BY <2>1, MaxOf
<1> QED BY <1>1, <1>2

-----------------------------------------------------------------------------
(* The walk along a line, as a function of the steps taken.                *)
Origin == [index |-> 0, column |-> 0]

NextStop(line, s) == IF s.index < Len(line) THEN MoveCharIndexAndColumn(line, s) ELSE s

IsWalk(line, n, f) ==
    f = [k \in 0..n |-> IF k = 0 THEN Origin ELSE NextStop(line, f[k - 1])]

Ahead(s, t) == s.index < t.index /\ s.column < t.column

LEMMA WalkExists ==
    ASSUME NEW line, NEW m \in Nat
    PROVE  \E f : IsWalk(line, m, f)
<1> DEFINE S == {n \in Nat : \E f : IsWalk(line, n, f)}
<1>1. 0 \in S
  <2> DEFINE f == [k \in 0..0 |-> Origin]
  <2>1. IsWalk(line, 0, f)
    BY DEF IsWalk
  <2> QED BY <2>1
<1>2. ASSUME NEW n \in Nat, n \in S PROVE n + 1 \in S
  <2>1. PICK f : IsWalk(line, n, f)
    BY <1>2
  <2> DEFINE g == [k \in 0..(n + 1) |-> IF k <= n THEN f[k] ELSE NextStop(line, f[n])]
  <2>2. \A k \in 0..n : f[k] = IF k = 0 THEN Origin ELSE NextStop(line, f[k - 1])
    BY <2>1 DEF IsWalk
  <2>3. \A k \in 0..(n + 1) : g[k] = IF k = 0 THEN Origin ELSE NextStop(line, g[k - 1])
    <3> SUFFICES ASSUME NEW k \in 0..(n + 1)
                 PROVE g[k] = IF k = 0 THEN Origin ELSE NextStop(line, g[k - 1])
      OBVIOUS
    <3>1. CASE k = 0
      BY <2>2, <3>1
    <3>2. CASE k \in 1..n
      <4>1. g[k] = f[k] /\ g[k - 1] = f[k - 1]
        BY <3>2
      <4> QED BY <2>2, <3>2, <4>1
    <3>3. CASE k = n + 1
      <4>1. g[k] = NextStop(line, f[n]) /\ g[k - 1] = f[n]
        BY <3>3
      <4> QED BY <3>3, <4>1
    <3> QED BY <3>1, <3>2, <3>3
  <2>4. IsWalk(line, n + 1, g)
    BY <2>3 DEF IsWalk
  <2> QED BY <2>4
<1>3. Nat \subseteq S
  BY <1>1, <1>2, SetInduction
<1> QED BY <1>3

(* Every step of a walk is over one character, until the end of the line.  *)
LEMMA NextStopType ==
    ASSUME NEW line, Len(line) \in Nat, NEW s \in [index : Nat, column : Nat]
    PROVE  /\ NextStop(line, s) \in [index : Nat, column : Nat]
           /\ s.index < Len(line) => Ahead(s, NextStop(line, s))
           /\ s.index >= Len(line) => NextStop(line, s) = s
<1> DEFINE g == line[s.index + 1]
           width == IF g = Tab THEN TabSizeAtColumn(s.column) ELSE 1
           length == UTF8CharLength(g)
<1>1. width \in Nat \ {0}
  BY TabSizeAssumption DEF TabSizeAtColumn
<1>2. length \in Nat \ {0}
  BY DEF UTF8CharLength
<1> HIDE DEF width, length
<1>3. MoveCharIndexAndColumn(line, s) = [index |-> s.index + length, column |-> s.column + width]
  BY DEF MoveCharIndexAndColumn, width, length
<1> QED BY <1>1, <1>2, <1>3 DEF NextStop, Ahead

LEMMA WalkOrdered ==
    ASSUME NEW line, Len(line) \in Nat, NEW n \in Nat, NEW f, IsWalk(line, n, f)
    PROVE  \A k \in 0..n :
               /\ f[k] \in [index : Nat, column : Nat]
               /\ f[k].index >= k \/ f[k].index >= Len(line)
               /\ \A j \in 0..k :
                      /\ f[j] \in [index : Nat, column : Nat]
                      /\ f[j] = f[k] \/ Ahead(f[j], f[k])
<1> DEFINE Good(k) ==
               /\ f[k] \in [index : Nat, column : Nat]
               /\ f[k].index >= k \/ f[k].index >= Len(line)
               /\ \A j \in 0..k :
                      /\ f[j] \in [index : Nat, column : Nat]
                      /\ f[j] = f[k] \/ Ahead(f[j], f[k])
           S == {k \in Nat : k <= n => Good(k)}
<1>1. /\ f[0] = Origin
      /\ \A k \in 1..n : f[k] = NextStop(line, f[k - 1])
  BY DEF IsWalk
<1>2. 0 \in S
  BY <1>1 DEF Origin
<1>3. ASSUME NEW k \in Nat, k \in S PROVE k + 1 \in S
  <2> SUFFICES ASSUME k + 1 <= n PROVE Good(k + 1)
    OBVIOUS
  <2>1. Good(k)
    BY <1>3
  <2>2. f[k + 1] = NextStop(line, f[k])
    BY <1>1
  <2>3. /\ f[k + 1] \in [index : Nat, column : Nat]
        /\ f[k].index < Len(line) => Ahead(f[k], f[k + 1])
        /\ f[k].index >= Len(line) => f[k + 1] = f[k]
    BY <2>1, <2>2, NextStopType
  <2>4. f[k + 1].index >= k + 1 \/ f[k + 1].index >= Len(line)
    BY <2>1, <2>3 DEF Ahead
  <2>5. ASSUME NEW j \in 0..(k + 1)
        PROVE  /\ f[j] \in [index : Nat, column : Nat]
               /\ f[j] = f[k + 1] \/ Ahead(f[j], f[k + 1])
    <3>1. CASE j = k + 1
      BY <2>3, <3>1
    <3>2. CASE j \in 0..k
      <4>1. f[j] = f[k] \/ Ahead(f[j], f[k])
        BY <2>1, <3>2
      <4>2. f[k + 1] = f[k] \/ Ahead(f[k], f[k + 1])
        BY <2>1, <2>3
      <4>3. \A t \in {f[j], f[k], f[k + 1]} : t.index \in Nat /\ t.column \in Nat
        BY <2>1, <2>3, <3>2
      <4>4. f[j] = f[k + 1] \/ Ahead(f[j], f[k + 1])
        BY <4>1, <4>2, <4>3 DEF Ahead
      <4> QED BY <2>1, <3>2, <4>4
    <3> QED BY <3>1, <3>2
  <2> QED BY <2>3, <2>4, <2>5
<1>4. Nat \subseteq S
  BY <1>2, <1>3, SetInduction
<1> QED BY <1>4

(* The stops of a line are ordered alike by their indices and by their     *)
(* columns; the first is the origin and the last lies at the end.          *)
THEOREM StopsOrdered ==
    ASSUME NEW line, Len(line) \in Nat
    PROVE  /\ Stops(line) \subseteq [index : Nat, column : Nat]
           /\ Origin \in Stops(line)
           /\ \A s, t \in Stops(line) : s = t \/ Ahead(s, t) \/ Ahead(t, s)
           /\ \E e \in Stops(line) :
                  /\ e.index >= Len(line)
                  /\ \A s \in Stops(line) : s = e \/ Ahead(s, e)
<1> DEFINE n == Len(line)
           f == CHOOSE g : IsWalk(line, n, g)
<1>1. IsWalk(line, n, f)
  BY WalkExists
<1>2. Stops(line) = {f[k] : k \in 0..n}
  BY DEF Stops, IsWalk, NextStop, Origin
<1> HIDE DEF f
<1>3. \A k \in 0..n :
          /\ f[k] \in [index : Nat, column : Nat]
          /\ f[k].index >= k \/ f[k].index >= n
          /\ \A j \in 0..k : f[j] = f[k] \/ Ahead(f[j], f[k])
  BY <1>1, WalkOrdered
<1>4. f[0] = Origin
  BY <1>1 DEF IsWalk
<1>5. f[n] \in Stops(line) /\ f[n].index >= n
  BY <1>2, <1>3
<1>6. \A s \in Stops(line) : s = f[n] \/ Ahead(s, f[n])
  BY <1>2, <1>3
<1>7. \A s, t \in Stops(line) : s = t \/ Ahead(s, t) \/ Ahead(t, s)
  <2> SUFFICES ASSUME NEW j \in 0..n, NEW k \in 0..n
               PROVE  f[j] = f[k] \/ Ahead(f[j], f[k]) \/ Ahead(f[k], f[j])
    BY <1>2
  <2>1. j \in 0..k \/ k \in 0..j
    OBVIOUS
  <2> QED BY <1>3, <2>1
<1> QED BY <1>2, <1>3, <1>4, <1>5, <1>6, <1>7

-----------------------------------------------------------------------------
(* Where a walk that goes on while its index, or column, is less than n    *)
(* ends: there is such a place, and it is the stop itself that has n.      *)
LEMMA WalkToIn ==
    ASSUME NEW S, NEW scale, NEW n \in Int, \A s \in S : s[scale] \in Nat,
           NEW e \in S, \A s \in S : s[scale] <= e[scale]
    PROVE  LET w == WalkTo(S, scale, n)
           IN  /\ w \in S
               /\ w[scale] >= n \/ \A t \in S : t[scale] <= w[scale]
               /\ \A t \in S : t[scale] < w[scale] => t[scale] < n
<1> DEFINE Ends(s) == /\ s[scale] >= n \/ \A t \in S : t[scale] <= s[scale]
                      /\ \A t \in S : t[scale] < s[scale] => t[scale] < n
           Far == {s \in S : s[scale] >= n}
           marks == {s[scale] : s \in Far}
<1>1. \E s \in S : Ends(s)
  <2>1. CASE Far = {}
    <3>1. \A s \in S : s[scale] < n
      BY <2>1
    <3> QED BY <3>1
  <2>2. CASE Far # {}
    <3>1. marks \subseteq Nat /\ marks # {}
      BY <2>2
    <3>2. PICK m \in marks : \A k \in marks : m <= k
      BY <3>1, LeastNat
    <3>3. PICK s \in Far : s[scale] = m
      BY <3>2
    <3>4. \A t \in S : t[scale] < s[scale] => t[scale] < n
      <4> SUFFICES ASSUME NEW t \in S, t[scale] < s[scale], ~(t[scale] < n) PROVE FALSE
        OBVIOUS
      <4>1. t \in Far /\ t[scale] \in marks
        OBVIOUS
      <4>2. m <= t[scale]
        BY <3>2, <4>1
      <4> QED BY <3>1, <3>2, <3>3, <4>2
    <3>5. s \in S /\ Ends(s)
      BY <3>3, <3>4
    <3> QED BY <3>5
  <2> QED BY <2>1, <2>2
<1>2. WalkTo(S, scale, n) = CHOOSE s \in S : Ends(s)
  BY DEF WalkTo
<1> HIDE DEF Ends
<1>3. WalkTo(S, scale, n) \in S /\ Ends(WalkTo(S, scale, n))
  BY <1>1, <1>2
<1> QED BY <1>3 DEF Ends

LEMMA WalkToStop ==
    ASSUME NEW line, Len(line) \in Nat, NEW n \in Int
    PROVE  LET c == WalkTo(Stops(line), "column", n)
               i == WalkTo(Stops(line), "index", n)
           IN  /\ c \in Stops(line) /\ i \in Stops(line)
               /\ c.column >= n \/ \A t \in Stops(line) : t.column <= c.column
               /\ i.index >= n \/ \A t \in Stops(line) : t.index <= i.index
               /\ \A t \in Stops(line) : t.column < c.column => t.column < n
               /\ \A t \in Stops(line) : t.index < i.index => t.index < n
<1> DEFINE S == Stops(line)
<1>1. PICK e \in S : \A s \in S : s = e \/ Ahead(s, e)
  BY StopsOrdered
<1>2. \A s \in S : s.index \in Nat /\ s.column \in Nat
  BY StopsOrdered
<1> HIDE DEF S
<1>3. \A s \in S : s.index <= e.index /\ s.column <= e.column
  BY <1>1, <1>2 DEF Ahead
<1>4. \A s \in S : s["index"] \in Nat /\ s["index"] <= e["index"]
  BY <1>2, <1>3
<1>5. \A s \in S : s["column"] \in Nat /\ s["column"] <= e["column"]
  BY <1>2, <1>3
<1> QED BY <1>4, <1>5, WalkToIn DEF S

LEMMA WalkToItself ==
    ASSUME NEW line, Len(line) \in Nat, NEW s \in Stops(line)
    PROVE  /\ WalkTo(Stops(line), "column", s.column) = s
           /\ WalkTo(Stops(line), "index", s.index) = s
<1> DEFINE S == Stops(line)
           c == WalkTo(S, "column", s.column)
           i == WalkTo(S, "index", s.index)
<1>1. \A t \in S : t.index \in Nat /\ t.column \in Nat
  BY StopsOrdered
<1>2. \A t \in S : t = s \/ Ahead(s, t) \/ Ahead(t, s)
  BY StopsOrdered
<1>3. /\ c \in S /\ i \in S
      /\ c.column >= s.column \/ \A t \in S : t.column <= c.column
      /\ i.index >= s.index \/ \A t \in S : t.index <= i.index
      /\ \A t \in S : t.column < c.column => t.column < s.column
      /\ \A t \in S : t.index < i.index => t.index < s.index
  BY <1>1, WalkToStop
<1> HIDE DEF S, c, i
<1>4. s \in S
  BY DEF S
<1>5. c = s
  BY <1>1, <1>2, <1>3, <1>4 DEF Ahead
<1>6. i = s
  BY <1>1, <1>2, <1>3, <1>4 DEF Ahead
<1> QED BY <1>5, <1>6 DEF S, c, i

(* The glyph under a column: the last stop that is not behind it.          *)
LEMMA LastStopUpTo ==
    ASSUME NEW line, Len(line) \in Nat, NEW c \in Nat
    PROVE  \E s \in Stops(line) :
               /\ s.column <= c
               /\ \A t \in Stops(line) : t.column <= c => t = s \/ Ahead(t, s)
               /\ Max(Indices({t \in Stops(line) : t.column <= c})) = s.index
<1> DEFINE S == Stops(line)
           U == {t \in S : t.column <= c}
           I == Indices(U)
<1>1. PICK e \in S : \A s \in S : s = e \/ Ahead(s, e)
  BY StopsOrdered
<1>2. \A s \in S : s.index \in Nat /\ s.column \in Nat
  BY StopsOrdered
<1>3. Origin \in U
  BY StopsOrdered DEF Origin
<1>4. \A s, t \in S : s = t \/ Ahead(s, t) \/ Ahead(t, s)
  BY StopsOrdered
<1> HIDE DEF S
<1>5. I \subseteq Nat /\ I # {} /\ \A i \in I : i <= e.index
  BY <1>1, <1>2, <1>3 DEF Indices, Ahead
<1>6. e.index \in Nat
  BY <1>1, <1>2
<1>7. Max(I) \in I /\ \A i \in I : i <= Max(I)
  BY <1>5, <1>6, MaxOfNats
<1>8. PICK s \in U : s.index = Max(I)
  BY <1>7 DEF Indices
<1>9. \A t \in U : t.index <= s.index
  BY <1>7, <1>8 DEF Indices
<1>10. \A t \in U : t = s \/ Ahead(t, s)
  BY <1>2, <1>4, <1>9 DEF Ahead
<1> QED BY <1>8, <1>10 DEF S

-----------------------------------------------------------------------------
(* Texts and the coordinates in them.  A text has a line; what the glyphs  *)
(* are does not matter.                                                    *)
IsSeq(s) == Len(s) \in Nat /\ s = [i \in 1..Len(s) |-> s[i]]

IsText(lines) ==
    /\ IsSeq(lines) /\ Len(lines) >= 1
    /\ \A l \in 1..Len(lines) : IsSeq(lines[l])

Places(lines) == [line : 0..(Len(lines) - 1), column : Nat]

LEMMA LineInText ==
    ASSUME NEW lines, IsText(lines), NEW l \in 0..(Len(lines) - 1)
    PROVE  Len(lines[l + 1]) \in Nat
<1>1. l + 1 \in 1..Len(lines)
  BY DEF IsText, IsSeq
<1> QED BY <1>1 DEF IsText, IsSeq

LEMMA AtIsPlace ==
    ASSUME NEW lines, NEW l \in 0..(Len(lines) - 1), NEW c \in Nat
    PROVE  At(l, c) \in Places(lines) /\ At(l, c).line = l /\ At(l, c).column = c
BY DEF At, Places

(* The glyph index of a place, rounded down and up: a stop's.              *)
LEMMA IndexLOfPlace ==
    ASSUME NEW lines, IsText(lines), NEW p \in Places(lines)
    PROVE  \E s \in Stops(lines[p.line + 1]) :
               /\ s.column <= p.column
               /\ \A t \in Stops(lines[p.line + 1]) : t.column <= p.column => t = s \/ Ahead(t, s)
               /\ GetCharacterIndexL(lines, p) = s.index
<1>1. p.line \in 0..(Len(lines) - 1) /\ p.column \in Nat /\ Len(lines) \in Nat
  BY DEF Places, IsText, IsSeq
<1>2. Len(lines[p.line + 1]) \in Nat
  BY <1>1, LineInText
<1>3. GetCharacterIndexL(lines, p) =
          Max(Indices({s \in Stops(lines[p.line + 1]) : s.column <= p.column}))
  BY <1>1 DEF GetCharacterIndexL
<1> QED BY <1>1, <1>2, <1>3, LastStopUpTo

LEMMA IndexROfPlace ==
    ASSUME NEW lines, IsText(lines), NEW p \in Places(lines)
    PROVE  \E s \in Stops(lines[p.line + 1]) :
               /\ s.column >= p.column \/ \A t \in Stops(lines[p.line + 1]) : t.column <= s.column
               /\ GetCharacterIndexR(lines, p) = s.index
               /\ s = WalkTo(Stops(lines[p.line + 1]), "column", p.column)
<1>1. p.line \in 0..(Len(lines) - 1) /\ p.column \in Int /\ Len(lines) \in Nat
  BY DEF Places, IsText, IsSeq
<1>2. Len(lines[p.line + 1]) \in Nat
  BY <1>1, LineInText
<1>3. GetCharacterIndexR(lines, p) = WalkTo(Stops(lines[p.line + 1]), "column", p.column).index
  BY <1>1 DEF GetCharacterIndexR
<1> QED BY <1>1, <1>2, <1>3, WalkToStop

(* For every text: the index of a glyph survives the way to its column and *)
(* back, whichever way a column inside a tab is read; and the reading that *)
(* rounds down never passes the one that rounds up.                        *)
THEOREM IndexRoundTrips ==
    ASSUME NEW lines, IsText(lines), NEW l \in 0..(Len(lines) - 1)
    PROVE  /\ \A s \in Stops(lines[l + 1]) :
                  /\ GetCharacterIndexR(lines, At(l, s.column)) = s.index
                  /\ GetCharacterIndexL(lines, At(l, s.column)) = s.index
                  /\ GetCharacterColumn(lines, l, s.index) = s.column
           /\ \A c \in Nat : GetCharacterIndexL(lines, At(l, c))
                                  <= GetCharacterIndexR(lines, At(l, c))
<1> DEFINE S == Stops(lines[l + 1])
<1>1. Len(lines[l + 1]) \in Nat /\ Len(lines) \in Nat
  BY LineInText DEF IsText, IsSeq
<1>2. \A s \in S : s.index \in Nat /\ s.column \in Nat
  BY <1>1, StopsOrdered
<1>3. \A s, t \in S : s = t \/ Ahead(s, t) \/ Ahead(t, s)
  BY <1>1, StopsOrdered
<1>4. ASSUME NEW s \in S
      PROVE  /\ GetCharacterIndexR(lines, At(l, s.column)) = s.index
             /\ GetCharacterIndexL(lines, At(l, s.column)) = s.index
             /\ GetCharacterColumn(lines, l, s.index) = s.column
  <2>1. At(l, s.column) \in Places(lines) /\ At(l, s.column).line = l /\ At(l, s.column).column = s.column
    BY <1>2, AtIsPlace
  <2>2. GetCharacterIndexR(lines, At(l, s.column)) = s.index
    BY <1>1, <2>1, IndexROfPlace, WalkToItself
  <2>3. PICK t \in S :
            /\ t.column <= s.column
            /\ \A u \in S : u.column <= s.column => u = t \/ Ahead(u, t)
            /\ GetCharacterIndexL(lines, At(l, s.column)) = t.index
    BY <2>1, IndexLOfPlace
  <2>4. s.column <= s.column
    BY <1>2
  <2>5. s = t \/ Ahead(s, t)
    BY <2>3, <2>4
  <2>6. s = t
    BY <1>2, <2>3, <2>5 DEF Ahead
  <2>7. GetCharacterColumn(lines, l, s.index) = s.column
    BY <1>1, WalkToItself DEF GetCharacterColumn
  <2> QED BY <2>2, <2>3, <2>6, <2>7
<1>5. ASSUME NEW c \in Nat
      PROVE  GetCharacterIndexL(lines, At(l, c)) <= GetCharacterIndexR(lines, At(l, c))
  <2>1. At(l, c) \in Places(lines) /\ At(l, c).line = l /\ At(l, c).column = c
    BY AtIsPlace
  <2>2. PICK s \in S : s.column <= c /\ GetCharacterIndexL(lines, At(l, c)) = s.index
    BY <2>1, IndexLOfPlace
  <2>3. PICK t \in S : /\ t.column >= c \/ \A u \in S : u.column <= t.column
                       /\ GetCharacterIndexR(lines, At(l, c)) = t.index
    BY <2>1, IndexROfPlace
  <2>4. s.column <= t.column
    BY <1>2, <2>2, <2>3
  <2>5. s.index <= t.index
    BY <1>2, <1>3, <2>4 DEF Ahead
  <2> QED BY <2>2, <2>3, <2>5
<1> QED BY <1>4, <1>5

-----------------------------------------------------------------------------
(* The coordinates the editor computes are places of the text.             *)
LEMMA IndicesOfLine ==
    ASSUME NEW lines, IsText(lines), NEW l \in 0..(Len(lines) - 1)
    PROVE  LET I == Indices(Stops(lines[l + 1]))
           IN  /\ I \subseteq Nat /\ 0 \in I
               /\ \E e \in I : e >= Len(lines[l + 1]) /\ \A i \in I : i <= e
<1>1. Len(lines[l + 1]) \in Nat
  BY LineInText
<1>2. PICK e \in Stops(lines[l + 1]) :
          /\ e.index >= Len(lines[l + 1])
          /\ \A s \in Stops(lines[l + 1]) : s = e \/ Ahead(s, e)
  BY <1>1, StopsOrdered
<1>3. /\ \A s \in Stops(lines[l + 1]) : s.index \in Nat
      /\ Origin \in Stops(lines[l + 1])
  BY <1>1, StopsOrdered
<1> QED BY <1>2, <1>3 DEF Indices, Origin, Ahead

LEMMA ColumnIsNat ==
    ASSUME NEW lines, IsText(lines), NEW l \in Nat, NEW i \in Int
    PROVE  GetCharacterColumn(lines, l, i) \in Nat
<1>1. Len(lines) \in Nat
  BY DEF IsText, IsSeq
<1>2. CASE l >= Len(lines)
  BY <1>2 DEF GetCharacterColumn
<1>3. CASE l < Len(lines)
  <2>1. l \in 0..(Len(lines) - 1)
    BY <1>1, <1>3
  <2>2. Len(lines[l + 1]) \in Nat
    BY <2>1, LineInText
  <2>3. WalkTo(Stops(lines[l + 1]), "index", i) \in [index : Nat, column : Nat]
    BY <2>2, WalkToStop, StopsOrdered
  <2>4. GetCharacterColumn(lines, l, i) = WalkTo(Stops(lines[l + 1]), "index", i).column
    BY <1>1, <1>3 DEF GetCharacterColumn
  <2> QED BY <2>3, <2>4
<1> QED BY <1>1, <1>2, <1>3

LEMMA MaxColumnIsNat ==
    ASSUME NEW lines, IsText(lines), NEW l \in Nat
    PROVE  GetLineMaxColumn(lines, l) \in Nat
<1>1. Len(lines) \in Nat
  BY DEF IsText, IsSeq
<1>2. CASE l >= Len(lines)
  BY <1>2 DEF GetLineMaxColumn
<1>3. CASE l < Len(lines)
  <2> DEFINE S == Stops(lines[l + 1])
             C == Columns(S)
  <2>1. l \in 0..(Len(lines) - 1)
    BY <1>1, <1>3
  <2>2. Len(lines[l + 1]) \in Nat
    BY <2>1, LineInText
  <2>3. PICK e \in S : \A s \in S : s = e \/ Ahead(s, e)
    BY <2>2, StopsOrdered
  <2>4. \A s \in S : s.column \in Nat
    BY <2>2, StopsOrdered
  <2>5. GetLineMaxColumn(lines, l) = Max(C)
    BY <1>1, <1>3 DEF GetLineMaxColumn
  <2> HIDE DEF S
  <2>6. C \subseteq Nat /\ C # {} /\ e.column \in Nat /\ \A c \in C : c <= e.column
    BY <2>3, <2>4 DEF Columns, Ahead
  <2>7. Max(C) \in C
    BY <2>6, MaxOfNats
  <2> QED BY <2>5, <2>6, <2>7
<1> QED BY <1>1, <1>2, <1>3

(* Every edge of the blanks that a line begins with is a stop.             *)
LEMMA BlanksAreStops ==
    ASSUME NEW line, Len(line) \in Nat, NEW i \in 0..Len(line),
           \A m \in 1..i : line[m] \in Blank
    PROVE  \E s \in Stops(line) : s.index = i
<1> DEFINE n == Len(line)
           f == CHOOSE g : IsWalk(line, n, g)
           S == {k \in Nat : k <= i => f[k].index = k}
<1>1. IsWalk(line, n, f)
  BY WalkExists
<1>2. Stops(line) = {f[k] : k \in 0..n}
  BY DEF Stops, IsWalk, NextStop, Origin
<1> HIDE DEF f
<1>3. f[0] = Origin /\ \A k \in 1..n : f[k] = NextStop(line, f[k - 1])
  BY <1>1 DEF IsWalk
<1>4. 0 \in S
  BY <1>3 DEF Origin
<1>5. ASSUME NEW k \in Nat, k \in S PROVE k + 1 \in S
  <2> SUFFICES ASSUME k + 1 <= i PROVE f[k + 1].index = k + 1
    OBVIOUS
  <2>1. f[k].index = k /\ k + 1 \in 1..n /\ k < Len(line)
    BY <1>5
  <2>2. f[k + 1] = MoveCharIndexAndColumn(line, f[k])
    BY <1>3, <2>1 DEF NextStop
  <2>3. UTF8CharLength(line[k + 1]) = 1
    BY DEF UTF8CharLength, Blank, Tab, Space, LeadByte
  <2> QED BY <2>1, <2>2, <2>3 DEF MoveCharIndexAndColumn
<1>6. Nat \subseteq S
  BY <1>4, <1>5, SetInduction
<1>7. i \in 0..n /\ f[i].index = i
  BY <1>6
<1> QED BY <1>2, <1>7

(* An index behind a stop has a column behind it, and a line with a glyph  *)
(* ends behind its start.                                                  *)
LEMMA ColumnsRise ==
    ASSUME NEW lines, IsText(lines), NEW l \in 0..(Len(lines) - 1),
           NEW s \in Stops(lines[l + 1]), s.index < Len(lines[l + 1])
    PROVE  /\ \A n \in Int : n > s.index =>
                  GetCharacterColumn(lines, l, s.index) < GetCharacterColumn(lines, l, n)
           /\ GetLineMaxColumn(lines, l) > 0
<1> DEFINE line == lines[l + 1]
           S == Stops(line)
<1>1. Len(line) \in Nat /\ l \in Nat /\ ~(l >= Len(lines))
  BY LineInText DEF IsText, IsSeq
<1>2. /\ Origin \in S
      /\ \A t \in S : t.index \in Nat /\ t.column \in Nat
      /\ \A t, u \in S : t = u \/ Ahead(t, u) \/ Ahead(u, t)
  BY <1>1, StopsOrdered
<1>3. PICK e \in S : e.index >= Len(line)
  BY <1>1, StopsOrdered
<1>4. /\ \A n \in Int : GetCharacterColumn(lines, l, n) = WalkTo(S, "index", n).column
      /\ GetLineMaxColumn(lines, l) = Max(Columns(S))
  BY <1>1 DEF GetCharacterColumn, GetLineMaxColumn
<1>5. ASSUME NEW n \in Int, n > s.index
      PROVE  GetCharacterColumn(lines, l, s.index) < GetCharacterColumn(lines, l, n)
  <2> DEFINE t == WalkTo(S, "index", n)
  <2>1. WalkTo(S, "index", s.index) = s
    BY <1>1, WalkToItself
  <2>2. t \in S /\ (t.index >= n \/ \A u \in S : u.index <= t.index)
    BY <1>1, WalkToStop
  <2> HIDE DEF t
  <2>3. s \in S /\ s.index \in Nat /\ t.index \in Nat /\ e.index \in Nat
    BY <1>2, <1>3, <2>2
  <2>4. s.index < t.index
    BY <1>1, <1>3, <1>5, <2>2, <2>3
  <2> HIDE DEF S
  <2>5. Ahead(s, t)
    BY <1>2, <2>2, <2>3, <2>4 DEF Ahead
  <2>6. s.column < t.column
    BY <2>5 DEF Ahead
  <2> QED BY <1>4, <1>5, <2>1, <2>3, <2>6 DEF t
<1>6. GetLineMaxColumn(lines, l) > 0
  <2>1. GetLineMaxColumn(lines, l) \in Nat
    BY <1>1, MaxColumnIsNat
  <2> HIDE DEF S
  <2>2. s \in S /\ s.index \in Nat /\ e.index \in Nat
    BY <1>2, <1>3 DEF S
  <2>3. e.index > 0 /\ e.column \in Nat
    BY <1>1, <1>2, <1>3, <2>2 DEF S
  <2>4. Ahead(Origin, e)
    BY <1>2, <2>3 DEF Ahead, Origin
  <2>5. e.column > 0 /\ e.column \in Columns(S)
    BY <2>4 DEF Ahead, Origin, Columns
  <2>6. \A c \in Columns(S) : c <= Max(Columns(S))
    <3>1. PICK x \in S : \A y \in S : y = x \/ Ahead(y, x)
      BY <1>1, StopsOrdered DEF S
    <3>2. Columns(S) \subseteq Nat /\ Columns(S) # {} /\ x.column \in Nat
          /\ \A c \in Columns(S) : c <= x.column
      BY <1>2, <3>1 DEF Columns, Ahead
    <3> QED BY <3>2, MaxOfNats
  <2> QED BY <1>4, <2>1, <2>3, <2>5, <2>6
<1> QED BY <1>5, <1>6

LEMMA IndexIsNat ==
    ASSUME NEW lines, IsText(lines), NEW p \in Places(lines)
    PROVE  /\ GetCharacterIndexL(lines, p) \in Indices(Stops(lines[p.line + 1]))
           /\ GetCharacterIndexR(lines, p) \in Indices(Stops(lines[p.line + 1]))
           /\ GetCharacterIndexL(lines, p) \in Nat
           /\ GetCharacterIndexR(lines, p) \in Nat
<1>1. p.line \in 0..(Len(lines) - 1)
  BY DEF Places
<1>2. /\ GetCharacterIndexL(lines, p) \in Indices(Stops(lines[p.line + 1]))
      /\ GetCharacterIndexR(lines, p) \in Indices(Stops(lines[p.line + 1]))
  BY IndexLOfPlace, IndexROfPlace DEF Indices
<1> QED BY <1>1, <1>2, IndicesOfLine

(* A line of whole characters is cut between characters only: a walk along *)
(* it never stops behind a lead byte, and never behind the end of the line.*)
Cuts(line) == {i \in 0..Len(line) : i = 0 \/ line[i] # LeadByte}

LEMMA StopsAreCuts ==
    ASSUME NEW line \in Line
    PROVE  Indices(Stops(line)) \subseteq Cuts(line)
<1> DEFINE n == Len(line)
           f == CHOOSE g : IsWalk(line, n, g)
           S == {k \in Nat : k <= n => f[k].index \in Cuts(line)}
<1>0. n \in Nat /\ DOMAIN line = 1..n /\ Whole(line)
  BY DEF Line
<1>1. IsWalk(line, n, f)
  BY <1>0, WalkExists
<1>2. Stops(line) = {f[k] : k \in 0..n}
  BY DEF Stops, IsWalk, NextStop, Origin
<1> HIDE DEF f
<1>3. f[0] = Origin /\ \A k \in 1..n : f[k] = NextStop(line, f[k - 1])
  BY <1>0, <1>1 DEF IsWalk
<1> HIDE DEF n
<1>4. 0 \in S
  BY <1>0, <1>3 DEF Origin, Cuts, n
<1>5. ASSUME NEW k \in Nat, k \in S PROVE k + 1 \in S
  <2> SUFFICES ASSUME k + 1 <= n PROVE f[k + 1].index \in Cuts(line)
    OBVIOUS
  <2> DEFINE i == f[k].index
  <2>1. i \in Cuts(line) /\ i \in 0..n /\ f[k + 1] = NextStop(line, f[k])
    BY <1>0, <1>3, <1>5 DEF Cuts, n
  <2>2. CASE ~(i < n)
    BY <2>1, <2>2 DEF NextStop, n
  <2>3. CASE i < n
    <3> DEFINE g == line[i + 1]
    <3>1. f[k + 1].index = i + UTF8CharLength(g)
      BY <2>1, <2>3 DEF NextStop, MoveCharIndexAndColumn, n
    <3> HIDE DEF i
    <3>2. i + 1 \in 1..n
      BY <1>0, <2>1, <2>3
    <3>3. CASE g = LeadByte
      <4>1. i + 1 + 1 \in 1..n /\ line[i + 1 + 1] = NextByte
        BY <1>0, <3>2, <3>3 DEF Whole
      <4>2. f[k + 1].index = i + 1 + 1 /\ i + 1 + 1 \in 0..n
        BY <1>0, <2>1, <3>1, <3>3, <4>1 DEF UTF8CharLength
      <4> QED BY <4>1, <4>2 DEF Cuts, n, NextByte, LeadByte
    <3>4. CASE g # LeadByte
      <4>1. f[k + 1].index = i + 1 /\ i + 1 \in 0..n
        BY <1>0, <3>1, <3>2, <3>4 DEF UTF8CharLength
      <4> QED BY <3>4, <4>1 DEF Cuts, n
    <3> QED BY <3>3, <3>4
  <2> QED BY <1>0, <2>1, <2>2, <2>3
<1>6. Nat \subseteq S
  <2> HIDE DEF S
  <2> QED BY <1>4, <1>5, SetInduction
<1>7. \A k \in 0..n : f[k].index \in Cuts(line)
  BY <1>0, <1>6
<1> QED BY <1>2, <1>7 DEF Indices

LEMMA IndexIsCut ==
    ASSUME NEW lines \in Seq(Line), IsText(lines), NEW p \in Places(lines)
    PROVE  /\ GetCharacterIndexL(lines, p) \in Cuts(lines[p.line + 1])
           /\ GetCharacterIndexR(lines, p) \in Cuts(lines[p.line + 1])
<1>1. lines[p.line + 1] \in Line
  BY DEF Places
<1> QED BY <1>1, StopsAreCuts, IndexIsNat

LEMMA ColumnIsPlace ==
    ASSUME NEW lines, IsText(lines), NEW l \in 0..(Len(lines) - 1), NEW i \in Int
    PROVE  /\ At(l, GetCharacterColumn(lines, l, i)) \in Places(lines)
           /\ At(l, GetLineMaxColumn(lines, l)) \in Places(lines)
           /\ At(l, 0) \in Places(lines)
<1>1. l \in Nat
  BY DEF IsText, IsSeq
<1> QED BY <1>1, ColumnIsNat, MaxColumnIsNat, AtIsPlace

(* A coordinate behind the text, or behind its line, is brought back.      *)
LEMMA SanitizedIsPlace ==
    ASSUME NEW lines, IsText(lines), NEW p \in [line : Nat, column : Nat]
    PROVE  /\ SanitizeCoordinates(lines, p) \in Places(lines)
           /\ p.line < Len(lines) => SanitizeCoordinates(lines, p).line = p.line
<1>1. Len(lines) \in Nat /\ Len(lines) >= 1
  BY DEF IsText, IsSeq
<1>2. CASE p.line > Len(lines) - 1
  <2>1. Len(lines) - 1 \in 0..(Len(lines) - 1)
    BY <1>1
  <2>2. SanitizeCoordinates(lines, p) = At(Len(lines) - 1, GetLineMaxColumn(lines, Len(lines) - 1))
    BY <1>2 DEF SanitizeCoordinates
  <2>3. SanitizeCoordinates(lines, p) \in Places(lines)
    BY <2>1, <2>2, ColumnIsPlace
  <2> QED BY <1>1, <1>2, <2>3
<1>3. CASE ~(p.line > Len(lines) - 1)
  <2> DEFINE c == Min({p.column, GetLineMaxColumn(lines, p.line)})
  <2>1. p.line \in 0..(Len(lines) - 1)
    BY <1>1, <1>3
  <2>2. GetLineMaxColumn(lines, p.line) \in Nat
    BY MaxColumnIsNat
  <2>3. c \in Nat
    BY <2>2, MinOfTwo
  <2>4. SanitizeCoordinates(lines, p) = At(p.line, c)
    BY <1>3 DEF SanitizeCoordinates
  <2> HIDE DEF c
  <2> QED BY <2>1, <2>3, <2>4, AtIsPlace
<1> QED BY <1>2, <1>3

LEMMA LastIsPlace ==
    ASSUME NEW lines, IsText(lines)
    PROVE  LastCoordinates(lines) \in Places(lines)
<1>1. Len(lines) - 1 \in 0..(Len(lines) - 1)
  BY DEF IsText, IsSeq
<1> QED BY <1>1, ColumnIsPlace DEF LastCoordinates

LEMMA ClicksArePlaces ==
    ASSUME NEW lines, IsText(lines)
    PROVE  ScreenCoordinates(lines) \subseteq Places(lines)
<1> SUFFICES ASSUME NEW l \in 0..(Len(lines) - 1), NEW s \in Stops(lines[l + 1])
             PROVE  At(l, s.column) \in Places(lines)
  BY DEF ScreenCoordinates, Columns
<1>1. s.column \in Nat
  BY LineInText, StopsOrdered
<1> QED BY <1>1, AtIsPlace

(* A word is looked for between the stops of one line.                     *)
LEMMA WordStartIsNat ==
    ASSUME NEW line, NEW I, I \subseteq Nat, NEW i \in Int,
           NEW e \in I, e > i, \A j \in I : j <= e
    PROVE  WordStart(line, I, i) \in Nat
<1> DEFINE U == Unlike(line, i, {j \in I : j < i})
           V == {j \in I : j > Max(U)}
<1>1. U \subseteq I /\ \A j \in U : j < i
  BY DEF Unlike
<1> HIDE DEF U
<1>2. CASE U = {}
  BY <1>2 DEF WordStart, U
<1>3. CASE U # {}
  <2>1. U \subseteq Nat /\ e \in Nat /\ \A j \in U : j <= e
    BY <1>1
  <2>2. Max(U) \in U
    BY <1>3, <2>1, MaxOfNats
  <2>3. e > Max(U)
    <3> DEFINE m == Max(U)
    <3>1. m \in Nat /\ m < i
      BY <1>1, <2>1, <2>2
    <3> HIDE DEF m
    <3>2. e > m
      BY <2>1, <3>1
    <3> QED BY <3>2 DEF m
  <2>4. e \in V /\ V \subseteq Nat
    BY <2>3
  <2>5. Min(V) \in V
    BY <2>4, MinOfNats
  <2>6. WordStart(line, I, i) = Min(V)
    BY <1>3 DEF WordStart, U
  <2> QED BY <2>4, <2>5, <2>6
<1> QED BY <1>2, <1>3

LEMMA WordEndIsNat ==
    ASSUME NEW line, NEW I, I \subseteq Nat, NEW i \in Int,
           NEW e \in I, \A j \in I : j <= e
    PROVE  WordEnd(line, I, i) \in Nat
<1> DEFINE U == Unlike(line, i, {j \in I : j > i})
<1>1. U \subseteq I
  BY DEF Unlike
<1> HIDE DEF U
<1>2. CASE U = {}
  <2>1. Max(I) \in I
    BY MaxOfNats
  <2>2. WordEnd(line, I, i) = Max(I)
    BY <1>2 DEF WordEnd, U
  <2> QED BY <2>1, <2>2
<1>3. CASE U # {}
  <2>1. U \subseteq Nat
    BY <1>1
  <2>2. Min(U) \in U
    BY <1>3, <2>1, MinOfNats
  <2>3. WordEnd(line, I, i) = Min(U)
    BY <1>3 DEF WordEnd, U
  <2> QED BY <2>1, <2>2, <2>3
<1> QED BY <1>2, <1>3

LEMMA WordsArePlaces ==
    ASSUME NEW lines, IsText(lines), NEW p \in Places(lines)
    PROVE  /\ FindWordStart(lines, p) \in Places(lines)
           /\ FindWordEnd(lines, p) \in Places(lines)
<1> DEFINE line == lines[p.line + 1]
           I == Indices(Stops(line))
           i == GetCharacterIndexL(lines, p)
           held == Min({i, Len(line) - 1})
<1>1. p.line \in 0..(Len(lines) - 1)
  BY DEF Places
<1>2. Len(line) \in Nat
  BY <1>1, LineInText
<1>3. I \subseteq Nat
  BY <1>1, IndicesOfLine
<1>4. PICK e \in I : e >= Len(line) /\ \A j \in I : j <= e
  BY <1>1, IndicesOfLine
<1>5. i \in Nat
  BY IndexIsNat
<1>6. FindWordStart(lines, p) \in Places(lines)
  <2>1. CASE line = <<>>
    BY <2>1 DEF FindWordStart
  <2>2. CASE line # <<>>
    <3>1. held \in Int /\ held <= Len(line) - 1
      BY <1>2, <1>5, MinOfTwo
    <3>2. e > held
      BY <1>2, <1>3, <1>4, <3>1
    <3> HIDE DEF held
    <3>3. WordStart(line, I, held) \in Nat
      <4> HIDE DEF line, I
      <4> QED BY <1>3, <1>4, <3>1, <3>2, WordStartIsNat
    <3>4. FindWordStart(lines, p)
              = At(p.line, GetCharacterColumn(lines, p.line, WordStart(line, I, held)))
      BY <2>2 DEF FindWordStart, held
    <3> HIDE DEF line, I
    <3> QED BY <1>1, <3>3, <3>4, ColumnIsPlace
  <2> QED BY <2>1, <2>2
<1>7. FindWordEnd(lines, p) \in Places(lines)
  <2>1. CASE i >= Len(line)
    BY <2>1 DEF FindWordEnd
  <2>2. CASE ~(i >= Len(line))
    <3>1. FindWordEnd(lines, p)
              = At(p.line, GetCharacterColumn(lines, p.line, WordEnd(line, I, i)))
      BY <2>2 DEF FindWordEnd
    <3> HIDE DEF line, I, i
    <3>2. WordEnd(line, I, i) \in Nat
      <4>1. i \in Int
        BY <1>5
      <4> QED BY <1>3, <1>4, <4>1, WordEndIsNat
    <3> QED BY <1>1, <3>1, <3>2, ColumnIsPlace
  <2> QED BY <2>1, <2>2
<1> QED BY <1>6, <1>7

(* MoveCoords in its four directions; up and down by any number of lines.  *)
LEMMA MoveCoordsPlaces ==
    ASSUME NEW lines, IsText(lines), NEW p \in Places(lines),
           NEW n \in Nat, NEW word \in BOOLEAN
    PROVE  /\ MoveCoordsUp(p, n) \in Places(lines)
           /\ MoveCoordsDown(lines, p, n) \in Places(lines)
           /\ MoveCoordsLeft(lines, p, word) \in Places(lines)
           /\ MoveCoordsRight(lines, p, word) \in Places(lines)
<1> DEFINE I == Indices(Stops(lines[p.line + 1]))
           i == GetCharacterIndexR(lines, p)
<1>1. /\ p.line \in 0..(Len(lines) - 1) /\ p.line \in Nat /\ Len(lines) \in Nat
      /\ p.line <= Len(lines) - 1
  BY DEF Places, IsText, IsSeq
<1>2. i \in I /\ i \in Nat
  BY IndexIsNat
<1>3. I \subseteq Nat /\ 0 \in I /\ \A j \in I : j \in Nat
  BY <1>1, IndicesOfLine
<1>4. PICK e \in I : e >= Len(lines[p.line + 1]) /\ \A j \in I : j <= e
  BY <1>1, IndicesOfLine
<1>5. Len(lines[p.line + 1]) \in Nat
  BY <1>1, LineInText
<1> HIDE DEF I, i
<1>6. MoveCoordsUp(p, n) \in Places(lines)
  <2> DEFINE up == Max({0, p.line - n})
  <2>1. up \in 0 .. Len(lines) - 1
    BY <1>1, MaxOfTwo
  <2> HIDE DEF up
  <2>2. MoveCoordsUp(p, n) = [p EXCEPT !.line = up]
    BY DEF MoveCoordsUp, up
  <2> QED BY <2>1, <2>2 DEF Places
<1>7. MoveCoordsDown(lines, p, n) \in Places(lines)
  <2> DEFINE held == Min({Len(lines) - 1, p.line + n})
             down == Max({0, held})
  <2>1. held \in 0 .. Len(lines) - 1
    BY <1>1, MinOfTwo
  <2> HIDE DEF held
  <2>2. down \in 0 .. Len(lines) - 1
    BY <2>1, MaxOfTwo
  <2>3. MoveCoordsDown(lines, p, n) = [p EXCEPT !.line = down]
    BY DEF MoveCoordsDown, held
  <2> HIDE DEF down
  <2> QED BY <2>2, <2>3 DEF Places
<1>8. MoveCoordsLeft(lines, p, word) \in Places(lines)
  <2>1. CASE i = 0 /\ p.line > 0
    <3>1. p.line - 1 \in 0..(Len(lines) - 1)
      BY <1>1, <2>1
    <3>2. MoveCoordsLeft(lines, p, word) = At(p.line - 1, GetLineMaxColumn(lines, p.line - 1))
      BY <2>1 DEF MoveCoordsLeft, i
    <3> QED BY <3>1, <3>2, ColumnIsPlace
  <2>2. CASE i = 0 /\ ~(p.line > 0)
    BY <2>2 DEF MoveCoordsLeft, i
  <2>3. CASE i # 0
    <3> DEFINE U == {j \in I : j < i}
               step == StepLeft(lines, p.line, i)
    <3>1. U \subseteq Nat /\ 0 \in U /\ \A j \in U : j <= i
      <4>1. \A j \in U : j \in Nat /\ j <= i
        BY <1>2, <1>3
      <4>2. 0 < i
        BY <1>2, <2>3
      <4> QED BY <1>3, <4>1, <4>2
    <3>2. Max(U) \in U
      BY <1>2, <3>1, MaxOfNats
    <3>3. step = At(p.line, GetCharacterColumn(lines, p.line, Max(U)))
      BY DEF StepLeft, I
    <3> HIDE DEF U
    <3>4. step \in Places(lines)
      <4>0. Max(U) \in Nat
        BY <3>1, <3>2, Zenon
      <4>1. Max(U) \in Int
        BY <4>0
      <4> HIDE DEF step
      <4> QED BY <1>1, <3>3, <4>1, ColumnIsPlace
    <3>5. MoveCoordsLeft(lines, p, word) = IF word THEN FindWordStart(lines, step) ELSE step
      BY <2>3 DEF MoveCoordsLeft, i
    <3> HIDE DEF step
    <3> QED BY <3>4, <3>5, WordsArePlaces
  <2> QED BY <2>1, <2>2, <2>3
<1>9. MoveCoordsRight(lines, p, word) \in Places(lines)
  <2>1. CASE i >= LineSize(lines, p.line) /\ p.line < Len(lines) - 1
    <3>1. p.line + 1 \in 0..(Len(lines) - 1)
      BY <1>1, <2>1
    <3>2. MoveCoordsRight(lines, p, word) = At(p.line + 1, 0)
      BY <2>1 DEF MoveCoordsRight, i
    <3> QED BY <3>1, <3>2, ColumnIsPlace
  <2>2. CASE i >= LineSize(lines, p.line) /\ ~(p.line < Len(lines) - 1)
    BY <2>2 DEF MoveCoordsRight, i
  <2>3. CASE ~(i >= LineSize(lines, p.line))
    <3> DEFINE U == {j \in I : j > i}
               step == StepRight(lines, p.line, i)
    <3>1. i < Len(lines[p.line + 1])
      BY <1>2, <1>5, <2>3 DEF LineSize
    <3>2. U \subseteq Nat /\ e \in U
      <4>1. e \in Nat /\ e > i
        BY <1>2, <1>3, <1>4, <1>5, <3>1
      <4> QED BY <1>3, <1>4, <4>1
    <3>3. Min(U) \in U
      BY <3>2, MinOfNats
    <3>4. step = At(p.line, GetCharacterColumn(lines, p.line, Min(U)))
      BY DEF StepRight, I
    <3> HIDE DEF U
    <3>5. step \in Places(lines)
      <4>0. Min(U) \in Nat
        BY <3>2, <3>3, Zenon
      <4>1. Min(U) \in Int
        BY <4>0
      <4> HIDE DEF step
      <4> QED BY <1>1, <3>4, <4>1, ColumnIsPlace
    <3>6. MoveCoordsRight(lines, p, word)
              = Rightmost(step, IF word THEN FindWordEnd(lines, p) ELSE p)
      BY <2>3 DEF MoveCoordsRight, i
    <3> HIDE DEF step
    <3> QED BY <3>5, <3>6, WordsArePlaces DEF Rightmost
  <2> QED BY <2>1, <2>2, <2>3
<1> QED BY <1>6, <1>7, <1>8, <1>9
=============================================================================
