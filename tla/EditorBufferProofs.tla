------------------------- MODULE EditorBufferProofs -------------------------
(***************************************************************************)
(* What the changes of CTextEditor's text do to the text and its cursors,  *)
(* for every text and any number of cursors: InsertTextAt, DeleteRange and *)
(* the steps they are made of leave a text with at least one line and      *)
(* every cursor in it, and so do the movements, and sorting and merging.   *)
(* Sound says what such a work is; the colouring of lines comes after it.  *)
(* At the end: a deletion is undone by putting the deleted text back, and  *)
(* an insertion by deleting what it put in (UndoOperation::Redo and Undo). *)
(***************************************************************************)
EXTENDS EditorBuffer, EditorCoordsProofs

-----------------------------------------------------------------------------
(* Sequences of anything: what makes one of another.                       *)
LEMMA ListIsSeq ==
    ASSUME NEW n \in Nat, NEW f, f = [i \in 1..n |-> f[i]]
    PROVE  IsSeq(f) /\ Len(f) = n /\ DOMAIN f = 1..n
BY DEF IsSeq

LEMMA SubSeqIsSeq ==
    ASSUME NEW s, NEW m \in Int, NEW n \in Int
    PROVE  /\ IsSeq(SubSeq(s, m, n))
           /\ Len(SubSeq(s, m, n)) = IF m <= n THEN 1 + n - m ELSE 0
           /\ \A i \in 1..Len(SubSeq(s, m, n)) : SubSeq(s, m, n)[i] = s[i + m - 1]
BY DEF IsSeq

LEMMA SmallSeqs ==
    ASSUME NEW x, NEW y
    PROVE  /\ IsSeq(<<>>) /\ Len(<<>>) = 0
           /\ IsSeq(<<x>>) /\ Len(<<x>>) = 1 /\ <<x>>[1] = x
           /\ IsSeq(<<x, y>>) /\ Len(<<x, y>>) = 2
BY DEF IsSeq

LEMMA SeqOfSelf ==
    ASSUME NEW s, IsSeq(s)
    PROVE  s \in Seq({s[i] : i \in 1..Len(s)})
BY DEF IsSeq

LEMMA ConcatIsSeq ==
    ASSUME NEW s, NEW t, IsSeq(s), IsSeq(t)
    PROVE  /\ IsSeq(s \o t)
           /\ Len(s \o t) = Len(s) + Len(t)
           /\ \A i \in 1..(Len(s) + Len(t)) :
                  (s \o t)[i] = IF i <= Len(s) THEN s[i] ELSE t[i - Len(s)]
<1> DEFINE U == {s[i] : i \in 1..Len(s)} \cup {t[i] : i \in 1..Len(t)}
<1>1. s \in Seq(U) /\ t \in Seq(U)
  BY DEF IsSeq
<1> HIDE DEF U
<1>2. s \o t \in Seq(U)
  BY <1>1
<1>3. Len(s \o t) \in Nat /\ s \o t = [i \in 1..Len(s \o t) |-> (s \o t)[i]]
  <2> DEFINE a == s \o t
  <2>1. a \in Seq(U)
    BY <1>2
  <2> HIDE DEF a
  <2>2. Len(a) \in Nat /\ a = [i \in 1..Len(a) |-> a[i]]
    BY <2>1
  <2> QED BY <2>2 DEF a
<1>4. Len(s \o t) = Len(s) + Len(t)
  BY <1>1
<1>5. \A i \in 1..(Len(s) + Len(t)) :
          (s \o t)[i] = IF i <= Len(s) THEN s[i] ELSE t[i - Len(s)]
  BY <1>1
<1> QED BY <1>3, <1>4, <1>5 DEF IsSeq

LEMMA AppendIsSeq ==
    ASSUME NEW s, NEW x, IsSeq(s)
    PROVE  /\ IsSeq(Append(s, x)) /\ Len(Append(s, x)) = Len(s) + 1
           /\ \A i \in 1..(Len(s) + 1) : Append(s, x)[i] = IF i <= Len(s) THEN s[i] ELSE x
<1> DEFINE U == {s[i] : i \in 1..Len(s)} \cup {x}
<1>1. s \in Seq(U) /\ x \in U
  BY DEF IsSeq
<1> HIDE DEF U
<1> DEFINE a == Append(s, x)
<1>2. a \in Seq(U) /\ Len(a) = Len(s) + 1
  BY <1>1
<1>3. \A i \in 1..(Len(s) + 1) : a[i] = IF i <= Len(s) THEN s[i] ELSE x
  BY <1>1
<1> HIDE DEF a
<1>4. Len(a) \in Nat /\ a = [i \in 1..Len(a) |-> a[i]]
  BY <1>2
<1>5. IsSeq(a) /\ Len(a) = Len(s) + 1
  BY <1>2, <1>4 DEF IsSeq
<1> QED BY <1>3, <1>5 DEF a

LEMMA ExceptIsSeq ==
    ASSUME NEW s, NEW n, NEW x, IsSeq(s)
    PROVE  /\ IsSeq([s EXCEPT ![n] = x]) /\ Len([s EXCEPT ![n] = x]) = Len(s)
           /\ \A i \in 1..Len(s) : [s EXCEPT ![n] = x][i] = IF i = n THEN x ELSE s[i]
<1> DEFINE m == Len(s)
           f == [i \in 1..m |-> IF i = n THEN x ELSE s[i]]
<1>1. m \in Nat /\ DOMAIN s = 1..m
  BY DEF IsSeq
<1> HIDE DEF m
<1>2. [s EXCEPT ![n] = x] = f
  BY <1>1
<1>3. f = [i \in 1..m |-> f[i]]
  OBVIOUS
<1>4. IsSeq(f) /\ Len(f) = m
  BY <1>1, <1>3, ListIsSeq
<1> QED BY <1>2, <1>4 DEF m

LEMMA ReverseIsSeq ==
    ASSUME NEW s, IsSeq(s)
    PROVE  /\ IsSeq(Reverse(s)) /\ Len(Reverse(s)) = Len(s)
           /\ \A i \in 1..Len(s) : Reverse(s)[i] = s[Len(s) + 1 - i]
<1> DEFINE m == Len(s)
           f == [i \in 1..m |-> s[(m - i) + 1]]
<1>1. m \in Nat
  BY DEF IsSeq
<1>2. Reverse(s) = f
  BY DEF Reverse
<1> HIDE DEF m
<1>3. f = [i \in 1..m |-> f[i]]
  OBVIOUS
<1>4. IsSeq(f) /\ Len(f) = m
  BY <1>1, <1>3, ListIsSeq
<1>5. \A i \in 1..m : f[i] = s[m + 1 - i]
  <2> SUFFICES ASSUME NEW i \in 1..m PROVE f[i] = s[m + 1 - i]
    OBVIOUS
  <2>1. (m - i) + 1 = m + 1 - i
    BY <1>1
  <2> QED BY <2>1
<1> QED BY <1>2, <1>4, <1>5 DEF m

-----------------------------------------------------------------------------
(* Sequences of elements of a set stay so.                                 *)
LEMMA InSeq ==
    ASSUME NEW S, NEW s
    PROVE  s \in Seq(S) <=> IsSeq(s) /\ \A i \in 1..Len(s) : s[i] \in S
<1>1. ASSUME s \in Seq(S) PROVE IsSeq(s) /\ \A i \in 1..Len(s) : s[i] \in S
  BY <1>1 DEF IsSeq
<1>2. ASSUME IsSeq(s), \A i \in 1..Len(s) : s[i] \in S PROVE s \in Seq(S)
  <2>1. s = [i \in 1..Len(s) |-> s[i]] /\ Len(s) \in Nat
    BY <1>2 DEF IsSeq
  <2>2. s \in [1..Len(s) -> S]
    BY <1>2, <2>1
  <2> QED BY <2>1, <2>2
<1> QED BY <1>1, <1>2

LEMMA SmallInSeq ==
    ASSUME NEW S, NEW x \in S, NEW y \in S
    PROVE  <<>> \in Seq(S) /\ <<x>> \in Seq(S) /\ <<x, y>> \in Seq(S)
OBVIOUS

LEMMA SubSeqInSeq ==
    ASSUME NEW S, NEW s \in Seq(S), NEW m \in Int, NEW n \in Int, 1 <= m, n <= Len(s)
    PROVE  SubSeq(s, m, n) \in Seq(S)
<1> DEFINE t == SubSeq(s, m, n)
<1>1. IsSeq(s) /\ \A i \in 1..Len(s) : s[i] \in S
  BY InSeq
<1>2. /\ IsSeq(t) /\ Len(t) = IF m <= n THEN 1 + n - m ELSE 0
      /\ \A i \in 1..Len(t) : t[i] = s[i + m - 1]
  BY SubSeqIsSeq
<1>3. Len(s) \in Nat
  BY <1>1 DEF IsSeq
<1> HIDE DEF t
<1>4. ASSUME NEW i \in 1..Len(t) PROVE t[i] \in S
  <2>1. i + m - 1 \in 1..Len(s)
    BY <1>2, <1>3, <1>4
  <2> QED BY <1>1, <1>2, <2>1
<1>5. t \in Seq(S)
  BY <1>2, <1>4, InSeq
<1> QED BY <1>5 DEF t

LEMMA ConcatInSeq ==
    ASSUME NEW S, NEW s \in Seq(S), NEW t \in Seq(S)
    PROVE  s \o t \in Seq(S)
OBVIOUS

LEMMA AppendInSeq ==
    ASSUME NEW S, NEW s \in Seq(S), NEW x \in S
    PROVE  Append(s, x) \in Seq(S)
OBVIOUS

LEMMA ExceptInSeq ==
    ASSUME NEW S, NEW s \in Seq(S), NEW n, NEW x \in S
    PROVE  [s EXCEPT ![n] = x] \in Seq(S)
<1> DEFINE t == [s EXCEPT ![n] = x]
<1>1. IsSeq(s) /\ \A i \in 1..Len(s) : s[i] \in S
  BY InSeq
<1>2. IsSeq(t) /\ Len(t) = Len(s)
  BY <1>1, ExceptIsSeq
<1>3. \A i \in 1..Len(s) : t[i] = IF i = n THEN x ELSE s[i]
  BY <1>1, ExceptIsSeq
<1> HIDE DEF t
<1>4. t \in Seq(S)
  BY <1>1, <1>2, <1>3, InSeq
<1> QED BY <1>4 DEF t

LEMMA LargerSeq ==
    ASSUME NEW S, NEW T, S \subseteq T, NEW s \in Seq(S)
    PROVE  s \in Seq(T)
<1>1. IsSeq(s) /\ \A i \in 1..Len(s) : s[i] \in S
  BY InSeq
<1> QED BY <1>1, InSeq

LEMMA OneMoreInSeq ==
    ASSUME NEW S, NEW s \in Seq(S), NEW l \in 0..Len(s), NEW x \in S
    PROVE  LET new == SubSeq(s, 1, l) \o <<x>> \o SubSeq(s, l + 1, Len(s))
           IN  new \in Seq(S) /\ Len(new) = Len(s) + 1
<1> DEFINE n == Len(s)
           a == SubSeq(s, 1, l)
           c == SubSeq(s, l + 1, n)
<1>1. n \in Nat /\ l \in Nat /\ l <= n
  OBVIOUS
<1>2. a \in Seq(S)
  BY <1>1, SubSeqInSeq
<1>3. c \in Seq(S)
  <2> DEFINE m == l + 1
  <2>1. m \in Int /\ n \in Int /\ 1 <= m /\ n <= Len(s)
    BY <1>1
  <2> HIDE DEF m, n
  <2>2. SubSeq(s, m, n) \in Seq(S)
    BY <2>1, SubSeqInSeq
  <2> QED BY <2>2 DEF m
<1>4. Len(a) = l /\ Len(c) = n - l
  <2> HIDE DEF n
  <2>1. Len(SubSeq(s, 1, l)) = IF 1 <= l THEN 1 + l - 1 ELSE 0
    BY <1>1, SubSeqIsSeq
  <2>2. Len(SubSeq(s, l + 1, n)) = IF l + 1 <= n THEN 1 + n - (l + 1) ELSE 0
    BY <1>1, SubSeqIsSeq
  <2> HIDE DEF a, c
  <2>3. Len(a) = IF 1 <= l THEN 1 + l - 1 ELSE 0
    BY <2>1 DEF a
  <2>4. Len(c) = IF l + 1 <= n THEN 1 + n - (l + 1) ELSE 0
    BY <2>2 DEF c
  <2> QED BY <1>1, <2>3, <2>4
<1> HIDE DEF a, c, n
<1>5. a \o <<x>> \in Seq(S) /\ Len(a \o <<x>>) = l + 1
  BY <1>1, <1>2, <1>4
<1>6. a \o <<x>> \o c \in Seq(S) /\ Len(a \o <<x>> \o c) = (l + 1) + (n - l)
  <2> DEFINE d == a \o <<x>>
  <2>1. d \in Seq(S) /\ Len(d) = l + 1
    BY <1>5
  <2> HIDE DEF d
  <2>2. d \o c \in Seq(S) /\ Len(d \o c) = Len(d) + Len(c)
    BY ONLY <1>3, <2>1
  <2> QED BY <1>4, <2>1, <2>2 DEF d
<1>7. (l + 1) + (n - l) = n + 1
  BY <1>1
<1>8. a \o <<x>> \o c \in Seq(S) /\ Len(a \o <<x>> \o c) = n + 1
  BY <1>6, <1>7
<1> QED BY <1>8 DEF a, c, n

LEMMA WithoutInSeq ==
    ASSUME NEW S, NEW s \in Seq(S), NEW l \in 0..Len(s), NEW m \in l..Len(s)
    PROVE  WithoutLines(s, l, m) \in Seq(S) /\ Len(WithoutLines(s, l, m)) = Len(s) - (m - l)
<1> DEFINE n == Len(s)
           a == SubSeq(s, 1, l)
           c == SubSeq(s, m + 1, n)
<1>1. n \in Nat /\ l \in Nat /\ m \in Nat /\ l <= m /\ m <= n
  OBVIOUS
<1>2. a \in Seq(S)
  BY <1>1, SubSeqInSeq
<1>3. c \in Seq(S)
  <2> DEFINE k == m + 1
  <2>1. k \in Int /\ n \in Int /\ 1 <= k /\ n <= Len(s)
    BY <1>1
  <2> HIDE DEF k, n
  <2>2. SubSeq(s, k, n) \in Seq(S)
    BY <2>1, SubSeqInSeq
  <2> QED BY <2>2 DEF k
<1>4. Len(a) = l /\ Len(c) = n - m
  <2> HIDE DEF n
  <2>1. Len(SubSeq(s, 1, l)) = IF 1 <= l THEN 1 + l - 1 ELSE 0
    BY <1>1, SubSeqIsSeq
  <2>2. Len(SubSeq(s, m + 1, n)) = IF m + 1 <= n THEN 1 + n - (m + 1) ELSE 0
    BY <1>1, SubSeqIsSeq
  <2> HIDE DEF a, c
  <2>3. Len(a) = IF 1 <= l THEN 1 + l - 1 ELSE 0
    BY <2>1 DEF a
  <2>4. Len(c) = IF m + 1 <= n THEN 1 + n - (m + 1) ELSE 0
    BY <2>2 DEF c
  <2> QED BY <1>1, <2>3, <2>4
<1>5. WithoutLines(s, l, m) = a \o c
  BY DEF WithoutLines
<1> HIDE DEF a, c, n
<1>6. a \o c \in Seq(S) /\ Len(a \o c) = l + (n - m)
  BY <1>2, <1>3, <1>4
<1> QED BY <1>1, <1>5, <1>6 DEF n

LEMMA SubSeqWhole ==
    ASSUME NEW s, IsSeq(s), Whole(s), NEW m \in Int, NEW n \in Int, 1 <= m, n <= Len(s),
           m <= n => n = Len(s) \/ s[n] # LeadByte
    PROVE  Whole(SubSeq(s, m, n))
<1> DEFINE t == SubSeq(s, m, n)
<1>1. /\ IsSeq(t) /\ Len(t) = IF m <= n THEN 1 + n - m ELSE 0
      /\ \A i \in 1..Len(t) : t[i] = s[i + m - 1]
  BY SubSeqIsSeq
<1>2. Len(s) \in Nat /\ DOMAIN s = 1..Len(s) /\ DOMAIN t = 1..Len(t)
  BY <1>1 DEF IsSeq
<1> HIDE DEF t
<1>3. ASSUME NEW i \in 1..Len(t), t[i] = LeadByte
      PROVE  i + 1 \in 1..Len(t) /\ t[i + 1] = NextByte
  <2>0. m <= n
    BY <1>1, <1>3
  <2>a. Len(t) = 1 + n - m
    BY <1>1, <2>0
  <2>b. s[i + m - 1] = LeadByte
    BY <1>1, <1>3
  <2>c. i + m - 1 \in 1..Len(s) /\ i + m - 1 <= n
    <3> DEFINE last == Len(s)
    <3>1. last \in Nat /\ i \in 1..(1 + n - m) /\ n <= last
      BY <1>2, <2>a
    <3> HIDE DEF last
    <3>2. i + m - 1 \in 1..last /\ i + m - 1 <= n
      BY <2>0, <3>1
    <3> QED BY <3>2 DEF last
  <2>1. /\ Len(t) = 1 + n - m /\ i + m - 1 \in 1..Len(s) /\ i + m - 1 <= n
        /\ s[i + m - 1] = LeadByte
    BY <2>a, <2>b, <2>c
  <2>2. i + m - 1 + 1 \in 1..Len(s) /\ s[i + m - 1 + 1] = NextByte
    BY <1>2, <2>1 DEF Whole
  <2>3. i + m - 1 # n
    <3> SUFFICES ASSUME i + m - 1 = n PROVE FALSE
      OBVIOUS
    <3>1. n + 1 \in 1..Len(s) /\ s[n] = LeadByte
      BY <2>b, <2>2
    <3> QED BY <1>2, <2>0, <3>1
  <2>4. i + 1 \in 1..Len(t) /\ i + 1 + m - 1 = i + m - 1 + 1
    BY <2>0, <2>1, <2>3
  <2> QED BY <1>1, <2>2, <2>4
<1>4. Whole(t)
  BY <1>2, <1>3 DEF Whole
<1> QED BY <1>4 DEF t

LEMMA ConcatWhole ==
    ASSUME NEW s, NEW t, IsSeq(s), IsSeq(t), Whole(s), Whole(t)
    PROVE  Whole(s \o t)
<1> DEFINE u == s \o t
<1>1. /\ IsSeq(u) /\ Len(u) = Len(s) + Len(t)
      /\ \A i \in 1..(Len(s) + Len(t)) : u[i] = IF i <= Len(s) THEN s[i] ELSE t[i - Len(s)]
  BY ConcatIsSeq
<1>2. /\ Len(s) \in Nat /\ Len(t) \in Nat
      /\ DOMAIN s = 1..Len(s) /\ DOMAIN t = 1..Len(t) /\ DOMAIN u = 1..Len(u)
  BY <1>1 DEF IsSeq
<1> HIDE DEF u
<1>3. ASSUME NEW i \in 1..Len(u), u[i] = LeadByte
      PROVE  i + 1 \in 1..Len(u) /\ u[i + 1] = NextByte
  <2>1. CASE i <= Len(s)
    <3>1. i \in 1..Len(s) /\ s[i] = LeadByte
      BY <1>1, <1>2, <1>3, <2>1
    <3>2. i + 1 \in 1..Len(s) /\ s[i + 1] = NextByte
      BY <1>2, <3>1 DEF Whole
    <3> QED BY <1>1, <1>2, <3>2
  <2>2. CASE ~(i <= Len(s))
    <3>1. i - Len(s) \in 1..Len(t) /\ t[i - Len(s)] = LeadByte
      BY <1>1, <1>2, <1>3, <2>2
    <3>2. i - Len(s) + 1 \in 1..Len(t) /\ t[i - Len(s) + 1] = NextByte
      BY <1>2, <3>1 DEF Whole
    <3>3. i + 1 \in 1..Len(u) /\ i + 1 - Len(s) = i - Len(s) + 1 /\ ~(i + 1 <= Len(s))
      BY <1>1, <1>2, <2>2, <3>2
    <3> QED BY <1>1, <3>2, <3>3
  <2> QED BY <2>1, <2>2
<1>4. Whole(u)
  BY <1>2, <1>3 DEF Whole
<1> QED BY <1>4 DEF u

LEMMA LineParts ==
    ASSUME NEW line \in Line
    PROVE  /\ IsSeq(line) /\ Len(line) \in Nat /\ Whole(line)
           /\ \A i \in Cuts(line) : SubSeq(line, 1, i) \in Line
           /\ \A i \in 0..Len(line) : SubSeq(line, i + 1, Len(line)) \in Line
<1>1. IsSeq(line) /\ Len(line) \in Nat /\ Whole(line) /\ line \in Seq(Glyph)
  BY DEF Line, IsSeq
<1>2. ASSUME NEW i \in Cuts(line) PROVE SubSeq(line, 1, i) \in Line
  <2>1. i \in Int /\ i <= Len(line) /\ (1 <= i => line[i] # LeadByte) /\ 1 \in Int
    BY <1>1 DEF Cuts
  <2>2. SubSeq(line, 1, i) \in Seq(Glyph)
    BY <1>1, <2>1, SubSeqInSeq
  <2>3. Whole(SubSeq(line, 1, i))
    BY <1>1, <2>1, SubSeqWhole
  <2> QED BY <2>2, <2>3 DEF Line
<1>3. ASSUME NEW i \in 0..Len(line) PROVE SubSeq(line, i + 1, Len(line)) \in Line
  <2> DEFINE m == i + 1
             n == Len(line)
  <2>1. m \in Int /\ 1 <= m /\ n \in Int /\ n <= Len(line)
    BY <1>1
  <2> HIDE DEF m
  <2>2. SubSeq(line, m, n) \in Seq(Glyph)
    BY <1>1, <2>1, SubSeqInSeq
  <2>3. Whole(SubSeq(line, m, n))
    BY <1>1, <2>1, SubSeqWhole
  <2> QED BY <2>2, <2>3 DEF Line, m
<1> QED BY <1>1, <1>2, <1>3

LEMMA LinesJoin ==
    ASSUME NEW s \in Line, NEW t \in Line
    PROVE  s \o t \in Line
<1>1. s \in Seq(Glyph) /\ t \in Seq(Glyph) /\ Whole(s) /\ Whole(t) /\ IsSeq(s) /\ IsSeq(t)
  BY LineParts DEF Line
<1> QED BY <1>1, ConcatInSeq, ConcatWhole DEF Line

LEMMA SmallLines ==
    /\ <<>> \in Line
    /\ \A g \in Glyph : g # LeadByte => <<g>> \in Line
<1>1. \A s \in Seq(Glyph) : (\A i \in 1..Len(s) : s[i] # LeadByte) => s \in Line
  <2> SUFFICES ASSUME NEW s \in Seq(Glyph), \A i \in 1..Len(s) : s[i] # LeadByte
               PROVE  s \in Line
    OBVIOUS
  <2>1. DOMAIN s = 1..Len(s)
    OBVIOUS
  <2> QED BY <2>1 DEF Line, Whole
<1>2. <<>> \in Seq(Glyph) /\ Len(<<>>) = 0 /\ \A i \in 1..0 : FALSE
  OBVIOUS
<1>3. <<>> \in Line
  BY <1>1, <1>2
<1>4. ASSUME NEW g \in Glyph, g # LeadByte PROVE <<g>> \in Line
  <2>1. <<g>> \in Seq(Glyph) /\ \A i \in 1..Len(<<g>>) : <<g>>[i] = g
    OBVIOUS
  <2> QED BY <1>1, <1>4, <2>1
<1> QED BY <1>3, <1>4

LEMMA LineIsPassage ==
    ASSUME NEW line \in Line
    PROVE  line \in Passage
<1>1. Glyph \subseteq Glyph \cup {NewLine}
  OBVIOUS
<1> QED BY <1>1, LargerSeq DEF Line, Passage

-----------------------------------------------------------------------------
(* Every rank up to their number is that of one of a finite set of numbers. *)
LEMMA RankExists ==
    ASSUME NEW T, T \subseteq Nat, IsFiniteSet(T), NEW n \in 1..Cardinality(T)
    PROVE  \E k \in T : Cardinality({j \in T : j < k}) = n - 1
<1> DEFINE below(k) == {j \in T : j < k}
           S == {r \in Nat : r < Cardinality(T) => \E k \in T : Cardinality(below(k)) = r}
<1>1. Cardinality(T) \in Nat /\ \A k \in T : k \in Nat
  BY FS_CardinalityType
<1>2. 0 \in S
  <2> SUFFICES ASSUME 0 < Cardinality(T) PROVE \E k \in T : Cardinality(below(k)) = 0
    OBVIOUS
  <2>1. T # {}
    BY FS_EmptySet
  <2>2. PICK k \in T : \A j \in T : k <= j
    BY <2>1, LeastNat
  <2>3. below(k) = {}
    <3>1. \A j \in T : ~(j < k)
      BY <1>1, <2>2
    <3> QED BY <3>1
  <2> QED BY <2>3, FS_EmptySet
<1>3. ASSUME NEW r \in Nat, r \in S PROVE r + 1 \in S
  <2> SUFFICES ASSUME r + 1 < Cardinality(T) PROVE \E k \in T : Cardinality(below(k)) = r + 1
    OBVIOUS
  <2>1. PICK k \in T : Cardinality(below(k)) = r
    BY <1>1, <1>3
  <2> DEFINE above == {j \in T : j > k}
  <2>2. IsFiniteSet(below(k)) /\ IsFiniteSet(below(k) \cup {k}) /\ k \notin below(k)
    BY FS_Subset, FS_AddElement
  <2>3. Cardinality(below(k) \cup {k}) = r + 1
    BY <2>1, <2>2, FS_AddElement
  <2>4. above # {}
    <3> SUFFICES ASSUME above = {} PROVE FALSE
      OBVIOUS
    <3>0. \A j \in T : j < k \/ j = k \/ j > k
      BY <1>1, <2>1
    <3>1. T = below(k) \cup {k}
      BY <2>1, <3>0
    <3> QED BY <1>1, <2>3, <3>1
  <2>5. PICK m \in above : \A j \in above : m <= j
    BY <2>4, LeastNat
  <2>6. below(m) = below(k) \cup {k}
    <3>1. m \in T /\ m > k /\ \A j \in T : j > k => m <= j
      BY <2>5
    <3>2. \A j \in T : j < m <=> j < k \/ j = k
      BY <1>1, <3>1
    <3> QED BY <3>2
  <2> QED BY <2>3, <2>5, <2>6
<1>4. Nat \subseteq S
  BY <1>2, <1>3, SetInduction
<1>5. n - 1 \in Nat /\ n - 1 < Cardinality(T)
  BY <1>1
<1> QED BY <1>4, <1>5

LEMMA UpwardIsSeq ==
    ASSUME NEW T, T \subseteq Nat, IsFiniteSet(T)
    PROVE  /\ IsSeq(Upward(T)) /\ Len(Upward(T)) = Cardinality(T)
           /\ \A n \in 1..Cardinality(T) : Upward(T)[n] \in T
           /\ T # {} => Len(Upward(T)) >= 1
<1>1. Cardinality(T) \in Nat
  BY FS_CardinalityType
<1> DEFINE rank(n) == CHOOSE k \in T : Cardinality({j \in T : j < k}) = n - 1
<1>0. Upward(T) = [n \in 1..Cardinality(T) |-> rank(n)]
  BY DEF Upward
<1>a. ASSUME NEW n \in 1..Cardinality(T) PROVE rank(n) \in T
  <2>1. \E k \in T : Cardinality({j \in T : j < k}) = n - 1
    BY RankExists
  <2> QED BY <2>1
<1> HIDE DEF rank
<1>2. Upward(T) = [n \in 1..Cardinality(T) |-> Upward(T)[n]]
  BY <1>0
<1>3. IsSeq(Upward(T)) /\ Len(Upward(T)) = Cardinality(T)
  BY <1>1, <1>2, ListIsSeq
<1>4. ASSUME NEW n \in 1..Cardinality(T) PROVE Upward(T)[n] \in T
  BY <1>0, <1>a
<1>5. T # {} => Cardinality(T) >= 1
  BY <1>1, FS_EmptySet
<1> QED BY <1>3, <1>4, <1>5

-----------------------------------------------------------------------------
(* The work of a command: a text, cursors in it, and what the commands     *)
(* take with them.  It continues a work b when the history is still that   *)
(* of b and there are as many cursors.                                     *)
WorkFields ==
    {"lines", "cursors", "lastAdded", "changed", "dragging", "overwrite", "clipboard",
     "undoBuffer", "undoIndex", "ops", "aborted", "fresh", "colorMin", "colorMax", "scan"}

AreCursors(k, lines) ==
    /\ IsSeq(k) /\ Len(k) >= 1
    /\ \A c \in 1..Len(k) : k[c] \in [s : Places(lines), e : Places(lines)]

(* What an operation took out or put in is a passage of a text.            *)
AreOperations(ops) ==
    IsSeq(ops) /\ \A n \in 1..Len(ops) : ops[n].text \in Passage /\ ops[n].start.line \in Nat

(* What else it takes along: a mark at each line, and the colouring to come.*)
Flagged(w) ==
    /\ w.fresh \in Seq(BOOLEAN) /\ Len(w.fresh) = Len(w.lines)
    /\ w.colorMin \in Nat /\ w.colorMax \in Nat /\ w.scan \in BOOLEAN
    /\ w.changed \in BOOLEAN /\ w.overwrite \in BOOLEAN /\ w.aborted \in BOOLEAN

(* The shape of a work, also while a character is being put in, byte by    *)
(* byte; between the changes the lines hold whole characters.              *)
Shaped(w) ==
    /\ WorkFields \subseteq DOMAIN w
    /\ IsText(w.lines)
    /\ AreCursors(w.cursors, w.lines)
    /\ w.lastAdded \in Nat \ {0}
    /\ AreOperations(w.ops) /\ w.clipboard \in Passage

Sound(w) == Shaped(w) /\ w.lines \in Seq(Line)

Retains(v, b) ==
    /\ v.undoBuffer = b.undoBuffer /\ v.undoIndex = b.undoIndex
    /\ v.dragging = b.dragging
    /\ Len(v.cursors) = Len(b.cursors)
    /\ Flagged(b) => Flagged(v)

Continues(v, b) == Retains(v, b) /\ (v.aborted <=> b.aborted)

(* The cursors are marked as changed, or are those of b.                   *)
Steady(v, b) == v.changed \/ (~b.changed /\ v.cursors = b.cursors)

Loose(v, b) == Sound(v) /\ Continues(v, b)

Work(v, b) == Sound(v) /\ Continues(v, b) /\ Steady(v, b)

Shape(v, b) == Shaped(v) /\ Continues(v, b) /\ Steady(v, b)

(* As far as an assertion has not failed.                                  *)
Tried(v, b) == Sound(v) /\ Retains(v, b) /\ Steady(v, b) /\ (b.aborted => v.aborted)

(* What a change of the text or of the cursors leaves alone.               *)
Beside(v, w) ==
    /\ DOMAIN v = DOMAIN w
    /\ v.lastAdded = w.lastAdded /\ v.ops = w.ops /\ v.clipboard = w.clipboard
    /\ v.undoBuffer = w.undoBuffer /\ v.undoIndex = w.undoIndex
    /\ v.dragging = w.dragging
    /\ v.aborted <=> w.aborted

AllCarets(w) == \A c \in 1..Len(w.cursors) : w.cursors[c].s = w.cursors[c].e

LEMMA WorkIsShape ==
    ASSUME NEW v, NEW b
    PROVE  Work(v, b) <=> Shape(v, b) /\ v.lines \in Seq(Line)
BY DEF Work, Shape, Sound

LEMMA ChangedShape ==
    ASSUME NEW b, NEW w, Shape(w, b), NEW v, Beside(v, w), IsText(v.lines),
           AreCursors(v.cursors, v.lines), Len(v.cursors) = Len(w.cursors), Steady(v, w),
           Flagged(w) => Flagged(v)
    PROVE  Shape(v, b)
<1>1. Steady(v, b)
  BY DEF Shape, Steady
<1> QED BY <1>1 DEF Shape, Shaped, Continues, Retains, Beside

LEMMA ChangedWork ==
    ASSUME NEW b, NEW w, Work(w, b), NEW v, Beside(v, w), IsText(v.lines),
           AreCursors(v.cursors, v.lines), Len(v.cursors) = Len(w.cursors), Steady(v, w),
           Flagged(w) => Flagged(v), v.lines \in Seq(Line)
    PROVE  Work(v, b)
BY WorkIsShape, ChangedShape

LEMMA ChangedLoosely ==
    ASSUME NEW b, NEW w, Loose(w, b), NEW v, Beside(v, w), IsText(v.lines),
           AreCursors(v.cursors, v.lines), Len(v.cursors) = Len(w.cursors),
           Flagged(w) => Flagged(v), v.lines \in Seq(Line)
    PROVE  Loose(v, b)
BY DEF Loose, Sound, Shaped, Continues, Retains, Beside

LEMMA WorkIsLoose ==
    ASSUME NEW v, NEW b, Work(v, b)
    PROVE  Loose(v, b) /\ Steady(v, b)
BY DEF Work, Loose

LEMMA SteadyUnless ==
    ASSUME NEW w, NEW v, NEW touched, v.changed <=> (w.changed \/ touched),
           ~touched => v.cursors = w.cursors
    PROVE  Steady(v, w)
BY DEF Steady

(* Cursors that an operation would have changed and did not are the same.  *)
Agree(f, k) == f = [c \in DOMAIN k |-> f[c]] /\ \A c \in 1..Len(k) : f[c] = k[c]

LEMMA UnchangedCursors ==
    ASSUME NEW w, Shaped(w), NEW f, Agree(f, w.cursors)
    PROVE  f = w.cursors
BY DEF Sound, Shaped, AreCursors, IsSeq, Agree

LEMMA MappedCursors ==
    ASSUME NEW k, IsSeq(k), Len(k) >= 1, NEW lines, NEW f, f = [c \in DOMAIN k |-> f[c]],
           \A c \in 1..Len(k) : f[c] \in [s : Places(lines), e : Places(lines)]
    PROVE  AreCursors(f, lines) /\ Len(f) = Len(k)
<1>1. Len(k) \in Nat /\ DOMAIN k = 1..Len(k)
  BY DEF IsSeq
<1>2. IsSeq(f) /\ Len(f) = Len(k)
  BY <1>1, ListIsSeq
<1> QED BY <1>2 DEF AreCursors

LEMMA SamePlaces ==
    ASSUME NEW lines, NEW other, Len(lines) = Len(other)
    PROVE  Places(lines) = Places(other)
BY DEF Places

LEMMA CursorOfShape ==
    ASSUME NEW w, Shaped(w), NEW c \in 1..Len(w.cursors)
    PROVE  /\ w.cursors[c] \in [s : Places(w.lines), e : Places(w.lines)]
           /\ w.cursors[c].s \in Places(w.lines)
           /\ w.cursors[c].e \in Places(w.lines)
           /\ w.cursors[c] = [s |-> w.cursors[c].s, e |-> w.cursors[c].e]
           /\ SelectionStart(w.cursors[c]) \in Places(w.lines)
           /\ SelectionEnd(w.cursors[c]) \in Places(w.lines)
<1>1. w.cursors[c] \in [s : Places(w.lines), e : Places(w.lines)]
  BY DEF Shaped, AreCursors
<1> QED BY <1>1 DEF SelectionStart, SelectionEnd

LEMMA DomainOfShape ==
    ASSUME NEW w, Shaped(w)
    PROVE  /\ DOMAIN w.cursors = 1..Len(w.cursors) /\ Len(w.cursors) \in Nat
           /\ Len(w.cursors) >= 1 /\ IsSeq(w.cursors)
           /\ Len(w.lines) \in Nat /\ Len(w.lines) >= 1 /\ IsSeq(w.lines)
           /\ DOMAIN w.lines = 1..Len(w.lines)
BY DEF Shaped, AreCursors, IsText, IsSeq

LEMMA CursorOfWork ==
    ASSUME NEW w, Sound(w), NEW c \in 1..Len(w.cursors)
    PROVE  /\ w.cursors[c] \in [s : Places(w.lines), e : Places(w.lines)]
           /\ w.cursors[c].s \in Places(w.lines)
           /\ w.cursors[c].e \in Places(w.lines)
           /\ w.cursors[c] = [s |-> w.cursors[c].s, e |-> w.cursors[c].e]
           /\ SelectionStart(w.cursors[c]) \in Places(w.lines)
           /\ SelectionEnd(w.cursors[c]) \in Places(w.lines)
BY CursorOfShape DEF Sound

LEMMA DomainOfWork ==
    ASSUME NEW w, Sound(w)
    PROVE  /\ DOMAIN w.cursors = 1..Len(w.cursors) /\ Len(w.cursors) \in Nat
           /\ Len(w.cursors) >= 1 /\ IsSeq(w.cursors)
           /\ Len(w.lines) \in Nat /\ Len(w.lines) >= 1 /\ IsSeq(w.lines)
           /\ DOMAIN w.lines = 1..Len(w.lines)
BY DomainOfShape DEF Sound

(* One line gets other glyphs.                                             *)
LEMMA TextWithLine ==
    ASSUME NEW lines, IsText(lines), NEW n, NEW glyphs, IsSeq(glyphs)
    PROVE  LET changed == [lines EXCEPT ![n] = glyphs]
           IN  IsText(changed) /\ Len(changed) = Len(lines)
<1> DEFINE changed == [lines EXCEPT ![n] = glyphs]
<1>1. IsSeq(lines) /\ \A i \in 1..Len(lines) : IsSeq(lines[i])
  BY DEF IsText
<1>2. IsSeq(changed) /\ Len(changed) = Len(lines)
  BY <1>1, ExceptIsSeq
<1>3. \A i \in 1..Len(lines) : changed[i] = IF i = n THEN glyphs ELSE lines[i]
  BY <1>1, ExceptIsSeq
<1> HIDE DEF changed
<1>4. \A i \in 1..Len(lines) : IsSeq(changed[i])
  BY <1>1, <1>3
<1>5. IsText(changed)
  BY <1>2, <1>4 DEF IsText
<1> QED BY <1>2, <1>5 DEF changed

LEMMA ChangeLineShape ==
    ASSUME NEW b, NEW w, Shape(w, b), NEW l \in 0..(Len(w.lines) - 1),
           NEW glyphs, IsSeq(glyphs), NEW column, NEW count \in Int
    PROVE  LET v == ChangeLine(w, l, glyphs, column, count)
           IN  /\ Shape(v, b)
               /\ v.lines = [w.lines EXCEPT ![l + 1] = glyphs]
               /\ Len(v.lines) = Len(w.lines)
               /\ AllCarets(w) => AllCarets(v)
<1> DEFINE lines == [w.lines EXCEPT ![l + 1] = glyphs]
           v == ChangeLine(w, l, glyphs, column, count)
           carried(k) == k.e.line = l /\ k.e.column > column /\ ~HasSelection(k)
           moved(k) ==
               At(l, GetCharacterColumn(lines, l, GetCharacterIndexR(w.lines, k.e) + count))
           f == [c \in DOMAIN w.cursors |->
                    IF carried(w.cursors[c]) THEN Caret(moved(w.cursors[c])) ELSE w.cursors[c]]
<1>1. Shaped(w) /\ WorkFields \subseteq DOMAIN w /\ IsText(w.lines)
  BY DEF Shape, Shaped
<1>2. /\ v.lines = lines /\ v.cursors = f
      /\ Beside(v, w)
      /\ v.changed <=> (w.changed \/ \E c \in DOMAIN w.cursors : carried(w.cursors[c]))
  BY <1>1 DEF ChangeLine, Beside, WorkFields
<1>f. Flagged(w) => Flagged(v)
  <2> SUFFICES ASSUME Flagged(w) PROVE Flagged(v)
    OBVIOUS
  <2> DEFINE mark == (glyphs = <<>>) \/ (w.fresh[l + 1] /\ glyphs = w.lines[l + 1])
             touched == \E c \in DOMAIN w.cursors : carried(w.cursors[c])
  <2>1. /\ v.fresh = [w.fresh EXCEPT ![l + 1] = mark]
        /\ v.changed = (w.changed \/ touched)
        /\ v.colorMin = w.colorMin /\ v.colorMax = w.colorMax /\ v.scan = w.scan
        /\ v.dragging = w.dragging /\ v.overwrite = w.overwrite /\ v.aborted = w.aborted
        /\ v.lines = lines
    BY <1>1 DEF ChangeLine, WorkFields
  <2>2. mark \in BOOLEAN /\ (w.changed \/ touched) \in BOOLEAN
    OBVIOUS
  <2> HIDE DEF v, lines, carried, mark, touched
  <2>3. w.fresh \in Seq(BOOLEAN) /\ IsSeq(w.fresh) /\ Len(w.fresh) = Len(w.lines)
    BY <1>1, InSeq DEF Shaped, Flagged
  <2>4. v.fresh \in Seq(BOOLEAN) /\ Len(v.fresh) = Len(w.lines)
    BY <2>1, <2>2, <2>3, ExceptInSeq, ExceptIsSeq
  <2>5. Len(lines) = Len(w.lines)
    BY <1>1, TextWithLine DEF lines
  <2> QED BY <1>1, <2>1, <2>2, <2>4, <2>5 DEF Shaped, Flagged
<1>3. IsText(lines) /\ Len(lines) = Len(w.lines)
  BY <1>1, TextWithLine
<1>4. Places(lines) = Places(w.lines)
  BY <1>3, SamePlaces
<1>5. DOMAIN w.cursors = 1..Len(w.cursors) /\ IsSeq(w.cursors) /\ Len(w.cursors) >= 1
  BY <1>1, DomainOfShape
<1> HIDE DEF v, lines
<1>6. ASSUME NEW c \in 1..Len(w.cursors)
      PROVE  /\ moved(w.cursors[c]) \in Places(lines)
             /\ w.cursors[c] \in [s : Places(lines), e : Places(lines)]
  <2>1. w.cursors[c].e \in Places(w.lines)
    BY <1>1, CursorOfShape
  <2>2. GetCharacterIndexR(w.lines, w.cursors[c].e) \in Nat
    BY <1>1, <2>1, IndexIsNat
  <2>3. GetCharacterIndexR(w.lines, w.cursors[c].e) + count \in Int
    BY <2>2
  <2>4. l \in 0..(Len(lines) - 1)
    BY <1>3
  <2> QED BY <1>1, <1>3, <1>4, <2>3, <2>4, ColumnIsPlace, CursorOfShape
<1> HIDE DEF moved, carried
<1>7. \A c \in 1..Len(w.cursors) : f[c] \in [s : Places(lines), e : Places(lines)]
  BY <1>5, <1>6 DEF Caret
<1>8. f = [c \in DOMAIN w.cursors |-> f[c]]
  OBVIOUS
<1>9. AllCarets(w) => \A c \in 1..Len(w.cursors) : f[c].s = f[c].e
  BY <1>5 DEF AllCarets, Caret
<1>a. (\A c \in DOMAIN w.cursors : ~carried(w.cursors[c]))
          => \A c \in 1..Len(w.cursors) : f[c] = w.cursors[c]
  BY <1>5
<1> HIDE DEF f
<1>b. Steady(v, w)
  <2> DEFINE touched == \E c \in DOMAIN w.cursors : carried(w.cursors[c])
  <2>1. v.changed <=> (w.changed \/ touched)
    BY <1>2
  <2>2. ASSUME ~touched PROVE v.cursors = w.cursors
    <3>1. \A c \in 1..Len(w.cursors) : f[c] = w.cursors[c]
      BY <1>a, <2>2
    <3>2. f = [c \in DOMAIN w.cursors |-> f[c]]
      BY <1>2, <1>8
    <3>3. Agree(f, w.cursors)
      BY <3>1, <3>2 DEF Agree
    <3>4. f = w.cursors
      BY <1>1, <3>3, UnchangedCursors
    <3> QED BY <1>2, <3>4
  <2> HIDE DEF touched
  <2> QED BY <2>1, <2>2, SteadyUnless
<1>10. AreCursors(f, lines) /\ Len(f) = Len(w.cursors)
  BY <1>5, <1>7, <1>8, MappedCursors
<1>11. Shape(v, b)
  BY <1>2, <1>3, <1>10, <1>b, <1>f, ChangedShape
<1>12. AllCarets(w) => AllCarets(v)
  BY <1>2, <1>9, <1>10 DEF AllCarets
<1> QED BY <1>2, <1>3, <1>11, <1>12 DEF v, lines

LEMMA LineIsSeq ==
    ASSUME NEW lines, IsText(lines), NEW l \in 0..(Len(lines) - 1)
    PROVE  IsSeq(lines[l + 1]) /\ Len(lines[l + 1]) \in Nat
<1>1. l + 1 \in 1..Len(lines)
  BY DEF IsText, IsSeq
<1> QED BY <1>1 DEF IsText, IsSeq

LEMMA AddGlyphsShape ==
    ASSUME NEW b, NEW w, Shape(w, b), NEW l \in 0..(Len(w.lines) - 1),
           NEW i \in Int, NEW glyphs, IsSeq(glyphs)
    PROVE  LET v == AddGlyphsToLine(w, l, i, glyphs)
           IN  Shape(v, b) /\ Len(v.lines) = Len(w.lines) /\ (AllCarets(w) => AllCarets(v))
<1> DEFINE line == w.lines[l + 1]
           new == SubSeq(line, 1, i) \o glyphs \o SubSeq(line, i + 1, Len(line))
<1>1. IsText(w.lines)
  BY DEF Shape, Shaped
<1>2. Len(line) \in Nat /\ Len(glyphs) \in Int
  BY <1>1, LineIsSeq DEF IsSeq
<1>3. IsSeq(SubSeq(line, 1, i)) /\ IsSeq(SubSeq(line, i + 1, Len(line)))
  BY <1>2, SubSeqIsSeq
<1>4. IsSeq(SubSeq(line, 1, i) \o glyphs)
  BY <1>3, ConcatIsSeq
<1>5. IsSeq(new)
  BY <1>3, <1>4, ConcatIsSeq
<1>6. AddGlyphsToLine(w, l, i, glyphs)
          = ChangeLine(w, l, new, GetCharacterColumn(w.lines, l, i), Len(glyphs))
  BY DEF AddGlyphsToLine
<1> HIDE DEF new
<1> DEFINE column == GetCharacterColumn(w.lines, l, i)
           v == ChangeLine(w, l, new, column, Len(glyphs))
<1>7. /\ Shape(v, b)
      /\ v.lines = [w.lines EXCEPT ![l + 1] = new]
      /\ Len(v.lines) = Len(w.lines)
      /\ AllCarets(w) => AllCarets(v)
  <2> HIDE DEF column
  <2> QED BY <1>2, <1>5, ChangeLineShape
<1> HIDE DEF v
<1> QED BY <1>6, <1>7 DEF v

LEMMA RemoveGlyphsShape ==
    ASSUME NEW b, NEW w, Shape(w, b), NEW l \in 0..(Len(w.lines) - 1),
           NEW i \in Int, NEW j \in Int
    PROVE  LET v == RemoveGlyphsFromLine(w, l, i, j)
           IN  Shape(v, b) /\ Len(v.lines) = Len(w.lines) /\ (AllCarets(w) => AllCarets(v))
<1> DEFINE line == w.lines[l + 1]
           new == SubSeq(line, 1, i) \o SubSeq(line, j + 1, Len(line))
<1>1. IsText(w.lines)
  BY DEF Shape, Shaped
<1>2. Len(line) \in Nat /\ i - j \in Int
  BY <1>1, LineIsSeq
<1>3. IsSeq(SubSeq(line, 1, i)) /\ IsSeq(SubSeq(line, j + 1, Len(line)))
  BY <1>2, SubSeqIsSeq
<1>4. IsSeq(new)
  BY <1>3, ConcatIsSeq
<1>5. RemoveGlyphsFromLine(w, l, i, j)
          = ChangeLine(w, l, new, GetCharacterColumn(w.lines, l, i), i - j)
  BY DEF RemoveGlyphsFromLine
<1> HIDE DEF new
<1> DEFINE column == GetCharacterColumn(w.lines, l, i)
           v == ChangeLine(w, l, new, column, i - j)
<1>6. /\ Shape(v, b)
      /\ v.lines = [w.lines EXCEPT ![l + 1] = new]
      /\ Len(v.lines) = Len(w.lines)
      /\ AllCarets(w) => AllCarets(v)
  <2> HIDE DEF column
  <2> QED BY <1>2, <1>4, ChangeLineShape
<1> HIDE DEF v
<1> QED BY <1>5, <1>6 DEF v

LEMMA RemoveRestShape ==
    ASSUME NEW b, NEW w, Shape(w, b), NEW l \in 0..(Len(w.lines) - 1), NEW i \in Int
    PROVE  LET v == RemoveRestOfLine(w, l, i)
           IN  Shape(v, b) /\ Len(v.lines) = Len(w.lines) /\ (AllCarets(w) => AllCarets(v))
<1> DEFINE new == SubSeq(w.lines[l + 1], 1, i)
<1>1. IsSeq(new) /\ i + 1 \in Int
  BY SubSeqIsSeq
<1>2. RemoveRestOfLine(w, l, i)
          = ChangeLine(w, l, new, GetCharacterColumn(w.lines, l, i), i + 1)
  BY DEF RemoveRestOfLine
<1> HIDE DEF new
<1> DEFINE column == GetCharacterColumn(w.lines, l, i)
           v == ChangeLine(w, l, new, column, i + 1)
<1>3. /\ Shape(v, b)
      /\ v.lines = [w.lines EXCEPT ![l + 1] = new]
      /\ Len(v.lines) = Len(w.lines)
      /\ AllCarets(w) => AllCarets(v)
  <2> HIDE DEF column
  <2> QED BY <1>1, ChangeLineShape
<1> HIDE DEF v
<1> QED BY <1>2, <1>3 DEF v

(* With whole characters put in, and taken out, between two characters.    *)
OnlyLine(v, w, l) ==
    /\ Len(v.lines) = Len(w.lines)
    /\ \A m \in 1..Len(w.lines) : m # l + 1 => v.lines[m] = w.lines[m]

LEMMA ChangeLineWork ==
    ASSUME NEW b, NEW w, Work(w, b), NEW l \in 0..(Len(w.lines) - 1),
           NEW glyphs \in Line, NEW column, NEW count \in Int
    PROVE  LET v == ChangeLine(w, l, glyphs, column, count)
           IN  /\ Work(v, b) /\ Len(v.lines) = Len(w.lines)
               /\ AllCarets(w) => AllCarets(v)
               /\ OnlyLine(v, w, l) /\ v.lines[l + 1] = glyphs
<1> DEFINE v == ChangeLine(w, l, glyphs, column, count)
<1>1. Shape(w, b) /\ w.lines \in Seq(Line) /\ IsSeq(glyphs) /\ IsText(w.lines)
  BY WorkIsShape, LineParts DEF Shape, Shaped
<1>2. /\ Shape(v, b) /\ Len(v.lines) = Len(w.lines) /\ (AllCarets(w) => AllCarets(v))
      /\ v.lines = [w.lines EXCEPT ![l + 1] = glyphs]
  BY <1>1, ChangeLineShape
<1> HIDE DEF v
<1>3. v.lines \in Seq(Line)
  BY <1>1, <1>2, ExceptInSeq
<1>4. l + 1 \in 1..Len(w.lines) /\ IsSeq(w.lines)
  BY <1>1 DEF IsText, IsSeq
<1>5. \A m \in 1..Len(w.lines) : v.lines[m] = IF m = l + 1 THEN glyphs ELSE w.lines[m]
  BY <1>2, <1>4, ExceptIsSeq
<1> QED BY <1>2, <1>3, <1>4, <1>5, WorkIsShape DEF v, OnlyLine

LEMMA LineOfWork ==
    ASSUME NEW w, Sound(w), NEW l \in 0..(Len(w.lines) - 1)
    PROVE  w.lines[l + 1] \in Line
<1>1. l + 1 \in 1..Len(w.lines)
  BY DomainOfWork
<1> QED BY <1>1 DEF Sound

LEMMA EndsAreCuts ==
    ASSUME NEW line \in Line
    PROVE  0 \in Cuts(line) /\ Len(line) \in Cuts(line) /\ Cuts(line) \subseteq Nat
<1>1. Len(line) \in Nat /\ DOMAIN line = 1..Len(line) /\ Whole(line)
  BY LineParts DEF IsSeq
<1> DEFINE n == Len(line)
<1>2. n = 0 \/ line[n] # LeadByte
  <2> SUFFICES ASSUME n # 0, line[n] = LeadByte PROVE FALSE
    OBVIOUS
  <2>1. n \in 1..n
    BY <1>1
  <2>2. n + 1 \in 1..n
    BY <1>1, <2>1 DEF Whole
  <2> QED BY <1>1, <2>2
<1> QED BY <1>1, <1>2 DEF Cuts

LEMMA AddGlyphsWork ==
    ASSUME NEW b, NEW w, Work(w, b), NEW l \in 0..(Len(w.lines) - 1),
           NEW i \in Cuts(w.lines[l + 1]), NEW glyphs \in Line
    PROVE  LET v == AddGlyphsToLine(w, l, i, glyphs)
           IN  /\ Work(v, b) /\ Len(v.lines) = Len(w.lines) /\ (AllCarets(w) => AllCarets(v))
               /\ OnlyLine(v, w, l)
<1> DEFINE line == w.lines[l + 1]
           new == SubSeq(line, 1, i) \o glyphs \o SubSeq(line, i + 1, Len(line))
<1>0. line \in Line /\ i \in 0..Len(line)
  BY LineOfWork DEF Work, Cuts
<1>1. line \in Line /\ i \in 0..Len(line) /\ Len(glyphs) \in Int
  <2>1. Len(glyphs) \in Nat
    BY LineParts
  <2> QED BY <1>0, <2>1
<1>2. SubSeq(line, 1, i) \in Line /\ SubSeq(line, i + 1, Len(line)) \in Line
  BY <1>1, LineParts
<1>3. SubSeq(line, 1, i) \o glyphs \in Line
  BY <1>2, LinesJoin
<1>4. new \in Line
  BY <1>2, <1>3, LinesJoin
<1>5. AddGlyphsToLine(w, l, i, glyphs)
          = ChangeLine(w, l, new, GetCharacterColumn(w.lines, l, i), Len(glyphs))
  BY DEF AddGlyphsToLine
<1> HIDE DEF new
<1> QED BY <1>1, <1>4, <1>5, ChangeLineWork

LEMMA RemoveGlyphsWork ==
    ASSUME NEW b, NEW w, Work(w, b), NEW l \in 0..(Len(w.lines) - 1),
           NEW i \in Cuts(w.lines[l + 1]), NEW j \in 0..Len(w.lines[l + 1])
    PROVE  LET v == RemoveGlyphsFromLine(w, l, i, j)
           IN  /\ Work(v, b) /\ Len(v.lines) = Len(w.lines) /\ (AllCarets(w) => AllCarets(v))
               /\ OnlyLine(v, w, l)
<1> DEFINE line == w.lines[l + 1]
           new == SubSeq(line, 1, i) \o SubSeq(line, j + 1, Len(line))
<1>1. line \in Line /\ i - j \in Int
  BY LineOfWork DEF Work, Cuts
<1>2. SubSeq(line, 1, i) \in Line /\ SubSeq(line, j + 1, Len(line)) \in Line
  BY <1>1, LineParts
<1>3. new \in Line
  BY <1>2, LinesJoin
<1>4. RemoveGlyphsFromLine(w, l, i, j)
          = ChangeLine(w, l, new, GetCharacterColumn(w.lines, l, i), i - j)
  BY DEF RemoveGlyphsFromLine
<1> HIDE DEF new
<1> QED BY <1>1, <1>3, <1>4, ChangeLineWork

LEMMA RemoveRestWork ==
    ASSUME NEW b, NEW w, Work(w, b), NEW l \in 0..(Len(w.lines) - 1),
           NEW i \in Cuts(w.lines[l + 1])
    PROVE  LET v == RemoveRestOfLine(w, l, i)
           IN  /\ Work(v, b) /\ Len(v.lines) = Len(w.lines) /\ (AllCarets(w) => AllCarets(v))
               /\ OnlyLine(v, w, l)
<1> DEFINE new == SubSeq(w.lines[l + 1], 1, i)
<1>1. new \in Line /\ i + 1 \in Int
  BY LineOfWork, LineParts DEF Work, Cuts
<1>2. RemoveRestOfLine(w, l, i)
          = ChangeLine(w, l, new, GetCharacterColumn(w.lines, l, i), i + 1)
  BY DEF RemoveRestOfLine
<1> HIDE DEF new
<1> QED BY <1>1, <1>2, ChangeLineWork

(* A line is put in, or lines are taken out.                               *)
LEMMA TextWithNewLine ==
    ASSUME NEW lines, IsText(lines), NEW l \in 0..Len(lines)
    PROVE  LET new == SubSeq(lines, 1, l) \o <<<<>>>> \o SubSeq(lines, l + 1, Len(lines))
           IN  IsText(new) /\ Len(new) = Len(lines) + 1
<1> DEFINE n == Len(lines)
           above == SubSeq(lines, 1, l)
           under == SubSeq(lines, l + 1, n)
           opened == <<<<>>>>
           top == above \o opened
           new == top \o under
<1>1. n \in Nat /\ \A i \in 1..n : IsSeq(lines[i])
  BY DEF IsText, IsSeq
<1> HIDE DEF n
<1>2. l \in Nat /\ l <= n
  BY <1>1 DEF n
<1>3. IsSeq(above) /\ Len(above) = l /\ \A i \in 1..l : above[i] = lines[i + 1 - 1]
  BY <1>2, SubSeqIsSeq
<1>4. /\ IsSeq(under) /\ Len(under) = n - l
      /\ \A i \in 1..(n - l) : under[i] = lines[i + (l + 1) - 1]
  BY <1>1, <1>2, SubSeqIsSeq
<1>5. IsSeq(opened) /\ Len(opened) = 1 /\ opened[1] = <<>> /\ IsSeq(<<>>)
  BY SmallSeqs
<1> HIDE DEF above, under, opened
<1>6. /\ IsSeq(top) /\ Len(top) = l + 1
      /\ \A i \in 1..(l + 1) : top[i] = IF i <= l THEN above[i] ELSE opened[i - l]
  <2>1. /\ IsSeq(top) /\ Len(top) = Len(above) + Len(opened)
        /\ \A i \in 1..(Len(above) + Len(opened)) :
               top[i] = IF i <= Len(above) THEN above[i] ELSE opened[i - Len(above)]
    BY <1>3, <1>5, ConcatIsSeq
  <2> HIDE DEF top
  <2> QED BY <1>3, <1>5, <2>1
<1> HIDE DEF top
<1>7. \A i \in 1..(l + 1) : IsSeq(top[i])
  <2> SUFFICES ASSUME NEW i \in 1..(l + 1) PROVE IsSeq(top[i])
    OBVIOUS
  <2>1. CASE i <= l
    <3>1. i \in 1..l /\ i + 1 - 1 = i /\ i \in 1..n
      BY <1>1, <1>2, <2>1
    <3> QED BY <1>1, <1>3, <1>6, <2>1, <3>1
  <2>2. CASE i = l + 1
    <3>1. i - l = 1 /\ ~(i <= l)
      BY <1>2, <2>2
    <3>2. top[i] = opened[i - l]
      BY <1>6, <3>1
    <3>3. top[i] = <<>>
      BY <1>5, <3>1, <3>2
    <3> QED BY <1>5, <3>3
  <2> QED BY <1>2, <2>1, <2>2
<1>8. /\ IsSeq(new) /\ Len(new) = n + 1
      /\ \A i \in 1..(n + 1) : new[i] = IF i <= l + 1 THEN top[i] ELSE under[i - (l + 1)]
  <2>1. (l + 1) + (n - l) = n + 1
    BY <1>1, <1>2
  <2>2. /\ IsSeq(new) /\ Len(new) = Len(top) + Len(under)
        /\ \A i \in 1..(Len(top) + Len(under)) :
               new[i] = IF i <= Len(top) THEN top[i] ELSE under[i - Len(top)]
    BY <1>4, <1>6, ConcatIsSeq
  <2> HIDE DEF new
  <2> QED BY <1>4, <1>6, <2>1, <2>2
<1>9. \A i \in 1..(n + 1) : IsSeq(new[i])
  <2> SUFFICES ASSUME NEW i \in 1..(n + 1) PROVE IsSeq(new[i])
    OBVIOUS
  <2>1. CASE i <= l + 1
    <3>1. i \in 1..(l + 1)
      BY <1>2, <2>1
    <3> QED BY <1>7, <1>8, <2>1, <3>1
  <2>2. CASE ~(i <= l + 1)
    <3>1. /\ i - (l + 1) \in 1..(n - l) /\ i - (l + 1) + (l + 1) - 1 \in 1..n
      BY <1>1, <1>2, <2>2
    <3>2. new[i] = lines[i - (l + 1) + (l + 1) - 1]
      BY <1>4, <1>8, <2>2, <3>1
    <3> QED BY <1>1, <3>1, <3>2
  <2> QED BY <2>1, <2>2
<1>10. IsText(new)
  BY <1>1, <1>8, <1>9 DEF IsText
<1> QED BY <1>8, <1>10 DEF new, top, above, under, opened, n

LEMMA TextWithoutLines ==
    ASSUME NEW lines, IsText(lines), NEW l \in 0..Len(lines), NEW m \in l..Len(lines)
    PROVE  LET new == WithoutLines(lines, l, m)
           IN  /\ IsSeq(new) /\ Len(new) = Len(lines) - (m - l)
               /\ Len(new) >= 1 => IsText(new)
               /\ l >= 1 => new[1] = lines[1]
<1> DEFINE n == Len(lines)
           above == SubSeq(lines, 1, l)
           under == SubSeq(lines, m + 1, n)
           new == above \o under
<1>1. n \in Nat /\ \A i \in 1..n : IsSeq(lines[i])
  BY DEF IsText, IsSeq
<1> HIDE DEF n
<1>2. l \in Nat /\ m \in Nat /\ l <= m /\ m <= n
  BY <1>1 DEF n
<1>3. IsSeq(above) /\ Len(above) = l /\ \A i \in 1..l : above[i] = lines[i + 1 - 1]
  BY <1>2, SubSeqIsSeq
<1>4. /\ IsSeq(under) /\ Len(under) = n - m
      /\ \A i \in 1..(n - m) : under[i] = lines[i + (m + 1) - 1]
  BY <1>1, <1>2, SubSeqIsSeq
<1> HIDE DEF above, under
<1>5. l + (n - m) = n - (m - l)
  BY <1>1, <1>2
<1>6. /\ IsSeq(new) /\ Len(new) = n - (m - l)
      /\ \A i \in 1..(n - (m - l)) : new[i] = IF i <= l THEN above[i] ELSE under[i - l]
  <2>1. /\ IsSeq(new) /\ Len(new) = Len(above) + Len(under)
        /\ \A i \in 1..(Len(above) + Len(under)) :
               new[i] = IF i <= Len(above) THEN above[i] ELSE under[i - Len(above)]
    BY <1>3, <1>4, ConcatIsSeq
  <2> HIDE DEF new
  <2> QED BY <1>3, <1>4, <1>5, <2>1
<1>7. \A i \in 1..(n - (m - l)) : IsSeq(new[i])
  <2> SUFFICES ASSUME NEW i \in 1..(n - (m - l)) PROVE IsSeq(new[i])
    OBVIOUS
  <2>1. CASE i <= l
    <3>1. i \in 1..l /\ i + 1 - 1 \in 1..n
      BY <1>1, <1>2, <2>1
    <3>2. new[i] = lines[i + 1 - 1]
      BY <1>3, <1>6, <2>1, <3>1
    <3> QED BY <1>1, <3>1, <3>2
  <2>2. CASE ~(i <= l)
    <3>1. /\ i - l \in 1..(n - m) /\ i - l + (m + 1) - 1 \in 1..n
      BY <1>1, <1>2, <2>2
    <3>2. new[i] = lines[i - l + (m + 1) - 1]
      BY <1>4, <1>6, <2>2, <3>1
    <3> QED BY <1>1, <3>1, <3>2
  <2> QED BY <2>1, <2>2
<1>8. Len(new) >= 1 => IsText(new)
  BY <1>6, <1>7 DEF IsText
<1>9. WithoutLines(lines, l, m) = new
  BY DEF WithoutLines, new, above, under, n
<1>10. l >= 1 => new[1] = lines[1]
  <2> SUFFICES ASSUME l >= 1 PROVE new[1] = lines[1]
    OBVIOUS
  <2>1. 1 \in 1..l /\ 1 \in 1..(n - (m - l)) /\ 1 <= l /\ 1 + 1 - 1 = 1
    BY <1>1, <1>2
  <2>2. above[1] = lines[1]
    BY <1>3, <2>1
  <2> QED BY <1>6, <2>1, <2>2
<1> QED BY <1>6, <1>8, <1>9, <1>10 DEF n

LEMMA MorePlaces ==
    ASSUME NEW lines, NEW other, Len(lines) \in Nat, Len(other) \in Nat, Len(lines) <= Len(other)
    PROVE  Places(lines) \subseteq Places(other)
BY DEF Places

LEMMA InsertLineShape ==
    ASSUME NEW b, NEW w, Shape(w, b), NEW l \in 0..Len(w.lines)
    PROVE  LET v == InsertLine(w, l)
           IN  /\ Shape(v, b) /\ Len(v.lines) = Len(w.lines) + 1
               /\ v.lines = SubSeq(w.lines, 1, l) \o <<<<>>>> \o SubSeq(w.lines, l + 1, Len(w.lines))
<1> DEFINE lines == SubSeq(w.lines, 1, l) \o <<<<>>>> \o SubSeq(w.lines, l + 1, Len(w.lines))
           v == InsertLine(w, l)
           below(k) == k.e.line >= l
           f == [c \in DOMAIN w.cursors |->
                    IF below(w.cursors[c])
                    THEN Caret(At(w.cursors[c].e.line + 1, w.cursors[c].e.column)) ELSE w.cursors[c]]
<1>1. Shaped(w) /\ WorkFields \subseteq DOMAIN w /\ IsText(w.lines)
  BY DEF Shape, Shaped
<1>2. /\ v.lines = lines /\ v.cursors = f /\ Beside(v, w)
      /\ v.changed <=> (w.changed \/ \E c \in DOMAIN w.cursors : below(w.cursors[c]))
  BY <1>1 DEF InsertLine, Beside, WorkFields
<1>3. IsText(lines) /\ Len(lines) = Len(w.lines) + 1 /\ Len(w.lines) \in Nat
  BY <1>1, TextWithNewLine, DomainOfShape
<1>f. Flagged(w) => Flagged(v)
  <2> SUFFICES ASSUME Flagged(w) PROVE Flagged(v)
    OBVIOUS
  <2> DEFINE new == SubSeq(w.fresh, 1, l) \o <<TRUE>> \o SubSeq(w.fresh, l + 1, Len(w.fresh))
             touched == \E c \in DOMAIN w.cursors : below(w.cursors[c])
  <2>1. /\ v.fresh = new
        /\ v.changed = (w.changed \/ touched)
        /\ v.colorMin = w.colorMin /\ v.colorMax = w.colorMax /\ v.scan = w.scan
        /\ v.dragging = w.dragging /\ v.overwrite = w.overwrite /\ v.aborted = w.aborted
        /\ v.lines = lines
    BY <1>1 DEF InsertLine, WorkFields
  <2>2. (w.changed \/ touched) \in BOOLEAN /\ TRUE \in BOOLEAN
    OBVIOUS
  <2> HIDE DEF v, lines, below, touched
  <2>3. w.fresh \in Seq(BOOLEAN) /\ Len(w.fresh) = Len(w.lines)
    BY <1>1 DEF Shaped, Flagged
  <2>4. new \in Seq(BOOLEAN) /\ Len(new) = Len(w.lines) + 1
    <3> DEFINE old == w.fresh
    <3>1. old \in Seq(BOOLEAN) /\ l \in 0..Len(old) /\ Len(old) = Len(w.lines)
      BY <2>3
    <3> HIDE DEF old
    <3>2. LET x == SubSeq(old, 1, l) \o <<TRUE>> \o SubSeq(old, l + 1, Len(old))
          IN  x \in Seq(BOOLEAN) /\ Len(x) = Len(old) + 1
      BY <2>2, <3>1, OneMoreInSeq
    <3> QED BY <3>1, <3>2 DEF old
  <2> HIDE DEF new
  <2> QED BY <1>1, <1>3, <2>1, <2>2, <2>4 DEF Shaped, Flagged
<1>4. Places(w.lines) \subseteq Places(lines)
  <2> DEFINE n == Len(w.lines)
             m == Len(lines)
  <2>1. n \in Nat /\ m = n + 1
    BY <1>3
  <2> HIDE DEF n, m
  <2>2. m \in Nat /\ n <= m
    BY <2>1
  <2> QED BY <2>1, <2>2, MorePlaces DEF n, m
<1>5. DOMAIN w.cursors = 1..Len(w.cursors) /\ IsSeq(w.cursors) /\ Len(w.cursors) >= 1
  BY <1>1, DomainOfShape
<1> HIDE DEF v, lines, below
<1>6. \A c \in 1..Len(w.cursors) : f[c] \in [s : Places(lines), e : Places(lines)]
  <2> SUFFICES ASSUME NEW c \in 1..Len(w.cursors)
               PROVE  f[c] \in [s : Places(lines), e : Places(lines)]
    OBVIOUS
  <2> DEFINE k == w.cursors[c]
             p == At(k.e.line + 1, k.e.column)
  <2>1. k \in [s : Places(w.lines), e : Places(w.lines)] /\ k.e \in Places(w.lines)
    BY <1>1, CursorOfShape
  <2>a. k.e.line \in 0..(Len(w.lines) - 1) /\ k.e.column \in Nat
    BY <2>1 DEF Places
  <2>2. k.e.line + 1 \in 0..(Len(lines) - 1) /\ k.e.column \in Nat
    <3> HIDE DEF k
    <3> QED BY <1>3, <2>a
  <2>3. p \in Places(lines)
    BY <2>2, AtIsPlace
  <2>4. f[c] = IF below(k) THEN Caret(p) ELSE k
    BY <1>5
  <2> HIDE DEF f, p, k
  <2> QED BY <1>4, <2>1, <2>3, <2>4 DEF Caret
<1>7. f = [c \in DOMAIN w.cursors |-> f[c]]
  OBVIOUS
<1>a. (\A c \in DOMAIN w.cursors : ~below(w.cursors[c]))
          => \A c \in 1..Len(w.cursors) : f[c] = w.cursors[c]
  BY <1>5
<1> HIDE DEF f
<1>b. Steady(v, w)
  <2> DEFINE touched == \E c \in DOMAIN w.cursors : below(w.cursors[c])
  <2>1. v.changed <=> (w.changed \/ touched)
    BY <1>2
  <2>2. ASSUME ~touched PROVE v.cursors = w.cursors
    <3>1. \A c \in 1..Len(w.cursors) : f[c] = w.cursors[c]
      BY <1>a, <2>2
    <3>2. f = [c \in DOMAIN w.cursors |-> f[c]]
      BY <1>2, <1>7
    <3>3. Agree(f, w.cursors)
      BY <3>1, <3>2 DEF Agree
    <3>4. f = w.cursors
      BY <1>1, <3>3, UnchangedCursors
    <3> QED BY <1>2, <3>4
  <2> HIDE DEF touched
  <2> QED BY <2>1, <2>2, SteadyUnless
<1>8. AreCursors(f, lines) /\ Len(f) = Len(w.cursors)
  BY <1>5, <1>6, <1>7, MappedCursors
<1>9. Shape(v, b)
  BY <1>2, <1>3, <1>8, <1>b, <1>f, ChangedShape
<1> QED BY <1>2, <1>3, <1>9 DEF v, lines

LEMMA InsertLineWork ==
    ASSUME NEW b, NEW w, Work(w, b), NEW l \in 0..Len(w.lines)
    PROVE  LET v == InsertLine(w, l)
           IN  /\ Work(v, b) /\ Len(v.lines) = Len(w.lines) + 1
               /\ v.lines = SubSeq(w.lines, 1, l) \o <<<<>>>> \o SubSeq(w.lines, l + 1, Len(w.lines))
<1> DEFINE v == InsertLine(w, l)
<1>1. Shape(w, b) /\ w.lines \in Seq(Line)
  BY WorkIsShape
<1>2. /\ Shape(v, b) /\ Len(v.lines) = Len(w.lines) + 1
      /\ v.lines = SubSeq(w.lines, 1, l) \o <<<<>>>> \o SubSeq(w.lines, l + 1, Len(w.lines))
  BY <1>1, InsertLineShape
<1> HIDE DEF v
<1>3. v.lines \in Seq(Line)
  BY <1>1, <1>2, OneMoreInSeq, SmallLines
<1> QED BY <1>2, <1>3, WorkIsShape DEF v

LEMMA MovedCursorsWork ==
    ASSUME NEW b, NEW w, Loose(w, b), NEW v, Beside(v, w), IsText(v.lines),
           v.cursors = [c \in DOMAIN w.cursors |-> v.cursors[c]],
           \A c \in 1..Len(w.cursors) : v.cursors[c] \in [s : Places(v.lines), e : Places(v.lines)],
           Flagged(w) => Flagged(v), v.lines \in Seq(Line)
    PROVE  /\ Loose(v, b) /\ Len(v.cursors) = Len(w.cursors)
           /\ Work(w, b) /\ Steady(v, w) => Work(v, b)
<1>1. IsSeq(w.cursors) /\ Len(w.cursors) >= 1
  BY DEF Loose, Sound, Shaped, AreCursors
<1>2. AreCursors(v.cursors, v.lines) /\ Len(v.cursors) = Len(w.cursors)
  BY <1>1, MappedCursors
<1> QED BY <1>2, ChangedWork, ChangedLoosely

(* An assertion has failed.                                                *)
Failed(w) == "aborted" \in DOMAIN w /\ w.aborted

(* The cursor whose line is removed has been sent elsewhere before.        *)
LEMMA RemoveLineWork ==
    ASSUME NEW b, NEW w, Work(w, b), AllCarets(w), NEW l \in 0..(Len(w.lines) - 1),
           Len(w.lines) >= 2, NEW handled, w.cursors[handled].e.line <= Len(w.lines) - 2
    PROVE  LET v == RemoveLine(w, l, handled)
           IN  /\ Failed(v) \/ (Work(v, b) /\ AllCarets(v))
               /\ Len(v.lines) = Len(w.lines) - 1 /\ (l >= 1 => v.lines[1] = w.lines[1])
               /\ w.aborted => v.aborted
<1> DEFINE lines == WithoutLines(w.lines, l, l + 1)
           v == RemoveLine(w, l, handled)
           raised(c) == w.cursors[c].e.line >= l /\ c # handled
           f == [c \in DOMAIN w.cursors |->
                    IF raised(c)
                    THEN Caret(At(w.cursors[c].e.line - 1, w.cursors[c].e.column)) ELSE w.cursors[c]]
           n == Len(w.lines)
<1>1. Sound(w) /\ Shaped(w) /\ WorkFields \subseteq DOMAIN w /\ IsText(w.lines)
  BY DEF Work, Sound, Shaped
<1>2. /\ v.lines = lines /\ v.cursors = f /\ DOMAIN v = DOMAIN w
      /\ v.lastAdded = w.lastAdded /\ v.ops = w.ops /\ v.clipboard = w.clipboard
      /\ v.undoBuffer = w.undoBuffer /\ v.undoIndex = w.undoIndex /\ v.dragging = w.dragging
      /\ v.aborted = (w.aborted \/ \E c \in DOMAIN w.cursors :
                                       raised(c) /\ w.cursors[c].e.line = 0)
      /\ v.changed <=> (w.changed \/ \E c \in DOMAIN w.cursors : raised(c))
  BY <1>1 DEF RemoveLine, WorkFields
<1>3. n \in Nat /\ l \in Nat /\ l <= n - 1 /\ n >= 2 /\ l + 1 \in l..n
  BY <1>1, DomainOfWork
<1>4. IsText(lines) /\ Len(lines) = n - 1 /\ (l >= 1 => lines[1] = w.lines[1])
  <2>1. l \in 0..n /\ l + 1 - l = 1
    BY <1>3
  <2>2. /\ IsSeq(lines) /\ Len(lines) = n - (l + 1 - l)
        /\ Len(lines) >= 1 => IsText(lines)
        /\ l >= 1 => lines[1] = w.lines[1]
    BY <1>1, <1>3, <2>1, TextWithoutLines
  <2> HIDE DEF lines, n
  <2> QED BY <1>3, <2>1, <2>2
<1>g. lines \in Seq(Line)
  <2> DEFINE m == l + 1
  <2>1. w.lines \in Seq(Line) /\ l \in 0..Len(w.lines) /\ m \in l..Len(w.lines)
    BY <1>1, <1>3 DEF Sound
  <2> HIDE DEF m
  <2>2. WithoutLines(w.lines, l, m) \in Seq(Line)
    BY <2>1, WithoutInSeq
  <2> QED BY <2>2 DEF lines, m
<1>f. Flagged(w) => Flagged(v)
  <2> SUFFICES ASSUME Flagged(w) PROVE Flagged(v)
    OBVIOUS
  <2> DEFINE new == WithoutLines(w.fresh, l, l + 1)
             touched == \E c \in DOMAIN w.cursors : raised(c)
             failed == \E c \in DOMAIN w.cursors : raised(c) /\ w.cursors[c].e.line = 0
  <2>1. /\ v.fresh = new
        /\ v.changed = (w.changed \/ touched) /\ v.aborted = (w.aborted \/ failed)
        /\ v.colorMin = w.colorMin /\ v.colorMax = w.colorMax /\ v.scan = w.scan
        /\ v.dragging = w.dragging /\ v.overwrite = w.overwrite
        /\ v.lines = lines
    BY <1>1 DEF RemoveLine, WorkFields
  <2>2. (w.changed \/ touched) \in BOOLEAN /\ (w.aborted \/ failed) \in BOOLEAN
    OBVIOUS
  <2> HIDE DEF v, raised, touched, failed
  <2>3. w.fresh \in Seq(BOOLEAN) /\ Len(w.fresh) = Len(w.lines)
    BY <1>1 DEF Sound, Shaped, Flagged
  <2>4. l \in 0..Len(w.lines) /\ l + 1 \in l..Len(w.lines) /\ l + 1 - l = 1
    BY <1>3
  <2>5. new \in Seq(BOOLEAN) /\ Len(new) = n - (l + 1 - l)
    <3> DEFINE m == l + 1
               old == w.fresh
    <3>1. /\ old \in Seq(BOOLEAN) /\ l \in 0..Len(old) /\ m \in l..Len(old) /\ Len(old) = n
          /\ l \in 0..Len(w.lines) /\ m \in l..Len(w.lines)
      BY <2>3, <2>4
    <3> HIDE DEF m, old, n
    <3>2. WithoutLines(old, l, m) \in Seq(BOOLEAN) /\ Len(WithoutLines(old, l, m)) = n - (m - l)
      BY <3>1, WithoutInSeq
    <3> QED BY <3>2 DEF m, old
  <2> HIDE DEF new, lines, n
  <2> QED BY <1>1, <1>4, <2>1, <2>2, <2>4, <2>5 DEF Sound, Shaped, Flagged
<1>5. DOMAIN w.cursors = 1..Len(w.cursors)
  BY <1>1, DomainOfWork
<1> HIDE DEF v, lines, n
<1>c. w.aborted => v.aborted
  BY <1>2
<1>6. SUFFICES ASSUME ~v.aborted PROVE Work(v, b) /\ AllCarets(v)
  <2>1. v.aborted => Failed(v)
    BY <1>1, <1>2 DEF Failed, WorkFields
  <2> QED BY <1>2, <1>4, <1>c, <2>1 DEF v, n
<1>q. Beside(v, w)
  BY <1>2, <1>6 DEF Beside
<1>7. \A c \in 1..Len(w.cursors) : raised(c) => w.cursors[c].e.line # 0
  BY <1>2, <1>5, <1>6
<1>8. \A c \in 1..Len(w.cursors) :
          f[c] \in [s : Places(lines), e : Places(lines)] /\ f[c].s = f[c].e
  <2> SUFFICES ASSUME NEW c \in 1..Len(w.cursors)
               PROVE  f[c] \in [s : Places(lines), e : Places(lines)] /\ f[c].s = f[c].e
    OBVIOUS
  <2> DEFINE k == w.cursors[c]
             p == At(k.e.line - 1, k.e.column)
  <2>1. k.e \in Places(w.lines) /\ k = [s |-> k.s, e |-> k.e] /\ k.s = k.e
    BY <1>1, CursorOfWork DEF AllCarets
  <2>2. k.e.line \in Nat /\ k.e.line <= n - 1 /\ k.e.column \in Nat /\ k.e = [line |-> k.e.line, column |-> k.e.column]
    BY <2>1, <1>3 DEF Places, n
  <2>3. f[c] = IF raised(c) THEN Caret(p) ELSE k
    BY <1>5
  <2>4. c = handled => k.e.line <= n - 2
    BY DEF n
  <2>5. raised(c) <=> k.e.line >= l /\ c # handled
    OBVIOUS
  <2>6. raised(c) => k.e.line # 0
    BY <1>7
  <2> HIDE DEF f, k, raised
  <2>7. CASE raised(c)
    <3>1. k.e.line - 1 \in 0..(Len(lines) - 1)
      <4> DEFINE i == k.e.line
      <4>1. i \in Nat /\ i <= n - 1 /\ i # 0
        BY <2>2, <2>6, <2>7
      <4> HIDE DEF i, n
      <4>2. i - 1 \in 0..(Len(lines) - 1)
        BY <1>3, <1>4, <4>1
      <4> QED BY <4>2 DEF i
    <3>2. p \in Places(lines)
      BY <2>2, <3>1, AtIsPlace
    <3> HIDE DEF p
    <3> QED BY <2>3, <2>7, <3>2 DEF Caret
  <2>8. CASE ~raised(c)
    <3>1. k.e.line \in 0..(Len(lines) - 1)
      BY <1>3, <1>4, <2>2, <2>4, <2>5, <2>8
    <3>2. k.e \in Places(lines)
      BY <2>2, <3>1 DEF Places
    <3> QED BY <2>1, <2>3, <2>8, <3>2
  <2> QED BY <2>7, <2>8
<1>9. v.cursors = [c \in DOMAIN w.cursors |-> v.cursors[c]]
  BY <1>2
<1>a. (\A c \in DOMAIN w.cursors : ~raised(c))
          => \A c \in 1..Len(w.cursors) : f[c] = w.cursors[c]
  BY <1>5
<1> HIDE DEF f, raised
<1>b. Steady(v, w)
  <2> DEFINE touched == \E c \in DOMAIN w.cursors : raised(c)
  <2>1. v.changed <=> (w.changed \/ touched)
    BY <1>2
  <2>2. ASSUME ~touched PROVE v.cursors = w.cursors
    <3>1. \A c \in 1..Len(w.cursors) : f[c] = w.cursors[c]
      BY <1>a, <2>2
    <3>2. f = [c \in DOMAIN w.cursors |-> f[c]]
      BY <1>2, <1>9
    <3>3. Agree(f, w.cursors)
      BY <3>1, <3>2 DEF Agree
    <3>4. f = w.cursors
      BY <1>1, <3>3, UnchangedCursors
    <3> QED BY <1>2, <3>4
  <2> HIDE DEF touched
  <2> QED BY <2>1, <2>2, SteadyUnless
<1>10. Work(v, b) /\ Len(v.cursors) = Len(w.cursors)
  <2>1. Loose(w, b)
    BY WorkIsLoose
  <2>2. IsText(v.lines)
        /\ \A c \in 1..Len(w.cursors) : v.cursors[c] \in [s : Places(v.lines), e : Places(v.lines)]
    BY <1>2, <1>4, <1>8
  <2> QED BY <1>2, <1>f, <1>g, <1>q, <1>9, <1>b, <2>1, <2>2, MovedCursorsWork
<1>11. AllCarets(v)
  BY <1>2, <1>8, <1>10 DEF AllCarets
<1> QED BY <1>10, <1>11

(* RemoveLines does not mark the cursors it moves.                         *)
LEMMA RemoveLinesWork ==
    ASSUME NEW b, NEW w, Work(w, b), NEW l \in 1..Len(w.lines), NEW m \in l..Len(w.lines)
    PROVE  LET v == RemoveLines(w, l, m)
           IN  Loose(v, b) /\ Len(v.lines) = Len(w.lines) - (m - l)
<1> DEFINE lines == WithoutLines(w.lines, l, m)
           v == RemoveLines(w, l, m)
           raised(p) == IF p.line >= l THEN [p EXCEPT !.line = Max({0, @ - (m - l)})] ELSE p
           f == [c \in DOMAIN w.cursors |->
                    [s |-> raised(w.cursors[c].s), e |-> raised(w.cursors[c].e)]]
           n == Len(w.lines)
<1>1. Sound(w) /\ WorkFields \subseteq DOMAIN w /\ IsText(w.lines)
  BY DEF Work, Sound, Shaped
<1>2. v.lines = lines /\ v.cursors = f /\ Beside(v, w)
  BY <1>1 DEF RemoveLines, Beside, WorkFields
<1>3. n \in Nat /\ l \in Nat /\ m \in Nat /\ 1 <= l /\ l <= m /\ m <= n
  BY <1>1, DomainOfWork
<1>4. IsText(lines) /\ Len(lines) = n - (m - l)
  <2>1. l \in 0..n /\ m \in l..n /\ n - (m - l) >= 1
    BY <1>3
  <2>2. /\ IsSeq(lines) /\ Len(lines) = n - (m - l)
        /\ Len(lines) >= 1 => IsText(lines)
    BY <1>1, <2>1, TextWithoutLines
  <2> HIDE DEF lines, n
  <2> QED BY <2>1, <2>2
<1>g. lines \in Seq(Line)
  <2>1. w.lines \in Seq(Line) /\ l \in 0..Len(w.lines) /\ m \in l..Len(w.lines)
    BY <1>1, <1>3 DEF Sound
  <2>2. WithoutLines(w.lines, l, m) \in Seq(Line)
    BY <2>1, WithoutInSeq
  <2> QED BY <2>2 DEF lines
<1>f. Flagged(w) => Flagged(v)
  <2> SUFFICES ASSUME Flagged(w) PROVE Flagged(v)
    OBVIOUS
  <2> DEFINE new == WithoutLines(w.fresh, l, m)
  <2>1. /\ v.fresh = new /\ v.changed = w.changed /\ v.aborted = w.aborted
        /\ v.colorMin = w.colorMin /\ v.colorMax = w.colorMax /\ v.scan = w.scan
        /\ v.dragging = w.dragging /\ v.overwrite = w.overwrite
        /\ v.lines = lines
    BY <1>1 DEF RemoveLines, WorkFields
  <2> HIDE DEF v
  <2>2. w.fresh \in Seq(BOOLEAN) /\ Len(w.fresh) = Len(w.lines)
    BY <1>1 DEF Sound, Shaped, Flagged
  <2>3. l \in 0..Len(w.lines) /\ m \in l..Len(w.lines)
    BY <1>3
  <2>4. new \in Seq(BOOLEAN) /\ Len(new) = n - (m - l)
    <3> DEFINE old == w.fresh
    <3>1. old \in Seq(BOOLEAN) /\ l \in 0..Len(old) /\ m \in l..Len(old) /\ Len(old) = n
      BY <2>2, <2>3
    <3> HIDE DEF old, n
    <3>2. WithoutLines(old, l, m) \in Seq(BOOLEAN) /\ Len(WithoutLines(old, l, m)) = n - (m - l)
      BY <3>1, WithoutInSeq
    <3> QED BY <3>2 DEF old
  <2> HIDE DEF new, lines, n
  <2> QED BY <1>1, <1>4, <2>1, <2>4 DEF Sound, Shaped, Flagged
<1>5. DOMAIN w.cursors = 1..Len(w.cursors)
  BY <1>1, DomainOfWork
<1> HIDE DEF v, lines
<1>6. ASSUME NEW p \in Places(w.lines) PROVE raised(p) \in Places(lines)
  <2> DEFINE up == Max({0, p.line - (m - l)})
  <2>1. p.line \in Nat /\ p.line <= n - 1
    BY <1>3 DEF Places
  <2> HIDE DEF n
  <2>2. p.line - (m - l) \in Int
    BY <1>3, <2>1
  <2>3. up = IF 0 >= p.line - (m - l) THEN 0 ELSE p.line - (m - l)
    BY <2>2, MaxOfTwo
  <2>4. CASE p.line >= l
    <3>1. up \in 0..(Len(lines) - 1)
      <4> HIDE DEF up
      <4> QED BY <1>3, <1>4, <2>1, <2>3
    <3>2. raised(p) = [p EXCEPT !.line = up]
      BY <2>4
    <3> HIDE DEF up
    <3> QED BY <3>1, <3>2 DEF Places
  <2>5. CASE ~(p.line >= l)
    <3>1. p.line \in 0..(Len(lines) - 1)
      BY <1>3, <1>4, <2>1, <2>5
    <3>2. raised(p) = p
      BY <2>5
    <3> QED BY <3>1, <3>2 DEF Places
  <2> QED BY <2>4, <2>5
<1> HIDE DEF raised
<1>7. \A c \in 1..Len(w.cursors) : f[c] \in [s : Places(lines), e : Places(lines)]
  BY <1>1, <1>5, <1>6, CursorOfWork
<1>8. v.cursors = [c \in DOMAIN w.cursors |-> v.cursors[c]]
  BY <1>2
<1> HIDE DEF f
<1>9. Loose(v, b)
  BY <1>2, <1>4, <1>7, <1>8, <1>f, <1>g, WorkIsLoose, MovedCursorsWork
<1> QED BY <1>2, <1>4, <1>9 DEF v, n

-----------------------------------------------------------------------------
(* Deleting a range.                                                       *)
LEMMA MoveUpFromLastLineWork ==
    ASSUME NEW b, NEW w, Work(w, b), NEW start \in Places(w.lines), NEW end
    PROVE  LET v == MoveUpFromLastLine(w, start, end)
           IN  Work(v, b) /\ v.lines = w.lines
<1> DEFINE v == MoveUpFromLastLine(w, start, end)
           same(k) == SelectionStart(k) = start /\ SelectionEnd(k) = end
           stops == {c \in DOMAIN w.cursors :
                         ~same(w.cursors[c]) /\ w.cursors[c].e.line > end.line}
           moves(c) == /\ \A d \in stops : c < d
                       /\ w.cursors[c].e.line = end.line
                       /\ ~same(w.cursors[c])
           joint == GetCharacterIndexR(w.lines, start)
           moved(p) == At(start.line, GetCharacterColumn(w.lines, start.line,
                                          joint + GetCharacterIndexR(w.lines, p)))
           f == [c \in DOMAIN w.cursors |->
                    IF moves(c) THEN [s |-> moved(w.cursors[c].s), e |-> moved(w.cursors[c].e)]
                    ELSE w.cursors[c]]
<1>1. Sound(w) /\ Shaped(w) /\ WorkFields \subseteq DOMAIN w /\ IsText(w.lines)
  BY DEF Work, Sound, Shaped
<1>2. /\ v.lines = w.lines /\ v.cursors = f /\ Beside(v, w)
      /\ v.changed <=> (w.changed \/ \E c \in DOMAIN w.cursors : moves(c))
  BY <1>1 DEF MoveUpFromLastLine, Beside, WorkFields
<1>g. w.lines \in Seq(Line)
  BY <1>1 DEF Sound
<1>f. Flagged(w) => Flagged(v)
  <2> SUFFICES ASSUME Flagged(w) PROVE Flagged(v)
    OBVIOUS
  <2> DEFINE touched == \E c \in DOMAIN w.cursors : moves(c)
  <2>1. /\ v.fresh = w.fresh /\ v.changed = (w.changed \/ touched) /\ v.aborted = w.aborted
        /\ v.colorMin = w.colorMin /\ v.colorMax = w.colorMax /\ v.scan = w.scan
        /\ v.dragging = w.dragging /\ v.overwrite = w.overwrite
        /\ v.lines = w.lines
    BY <1>1 DEF MoveUpFromLastLine, WorkFields
  <2>2. (w.changed \/ touched) \in BOOLEAN
    OBVIOUS
  <2> HIDE DEF v, touched
  <2> QED BY <1>1, <2>1, <2>2 DEF Sound, Shaped, Flagged
<1>3. DOMAIN w.cursors = 1..Len(w.cursors)
  BY <1>1, DomainOfWork
<1> HIDE DEF v
<1>4. start.line \in 0..(Len(w.lines) - 1) /\ joint \in Nat
  BY <1>1, IndexIsNat DEF Places
<1>5. ASSUME NEW p \in Places(w.lines) PROVE moved(p) \in Places(w.lines)
  <2>1. GetCharacterIndexR(w.lines, p) \in Nat
    BY <1>1, IndexIsNat
  <2>2. joint + GetCharacterIndexR(w.lines, p) \in Int
    BY <1>4, <2>1
  <2> QED BY <1>1, <1>4, <2>2, ColumnIsPlace
<1> HIDE DEF moved, moves
<1>6. \A c \in 1..Len(w.cursors) : f[c] \in [s : Places(w.lines), e : Places(w.lines)]
  BY <1>1, <1>3, <1>5, CursorOfWork
<1>7. v.cursors = [c \in DOMAIN w.cursors |-> v.cursors[c]]
  BY <1>2
<1>a. (\A c \in DOMAIN w.cursors : ~moves(c))
          => \A c \in 1..Len(w.cursors) : f[c] = w.cursors[c]
  BY <1>3
<1> HIDE DEF f
<1>b. Steady(v, w)
  <2> DEFINE touched == \E c \in DOMAIN w.cursors : moves(c)
  <2>1. v.changed <=> (w.changed \/ touched)
    BY <1>2
  <2>2. ASSUME ~touched PROVE v.cursors = w.cursors
    <3>1. \A c \in 1..Len(w.cursors) : f[c] = w.cursors[c]
      BY <1>a, <2>2
    <3>2. f = [c \in DOMAIN w.cursors |-> f[c]]
      BY <1>2, <1>7
    <3>3. Agree(f, w.cursors)
      BY <3>1, <3>2 DEF Agree
    <3>4. f = w.cursors
      BY <1>1, <3>3, UnchangedCursors
    <3> QED BY <1>2, <3>4
  <2> HIDE DEF touched
  <2> QED BY <2>1, <2>2, SteadyUnless
<1>8. Work(v, b)
  BY <1>1, <1>2, <1>6, <1>7, <1>b, <1>f, <1>g, WorkIsLoose, MovedCursorsWork
<1> QED BY <1>2, <1>8 DEF v

LEMMA JoinLinesWork ==
    ASSUME NEW b, NEW w, Work(w, b), NEW l \in 0..(Len(w.lines) - 1),
           NEW m \in 0..(Len(w.lines) - 1)
    PROVE  LET v == JoinLines(w, l, m)
           IN  Work(v, b) /\ Len(v.lines) = Len(w.lines)
<1>1. w.lines[l + 1] \in Line /\ w.lines[m + 1] \in Line
  BY LineOfWork DEF Work
<1>2. LineSize(w.lines, l) \in Cuts(w.lines[l + 1])
  BY <1>1, EndsAreCuts DEF LineSize
<1> QED BY <1>1, <1>2, AddGlyphsWork DEF JoinLines

(* Both ends of a range lie between two characters, and cutting the first  *)
(* line leaves the last as it is.                                          *)
LEMMA CutsOfRange ==
    ASSUME NEW w, Sound(w), NEW start \in Places(w.lines), NEW end \in Places(w.lines)
    PROVE  /\ GetCharacterIndexL(w.lines, start) \in Cuts(w.lines[start.line + 1])
           /\ GetCharacterIndexR(w.lines, end) \in 0..Len(w.lines[end.line + 1])
           /\ \A x : OnlyLine(x, w, start.line) /\ start.line # end.line =>
                     x.lines[end.line + 1] = w.lines[end.line + 1]
           /\ \A x : Sound(x) /\ Len(x.lines) = Len(w.lines) =>
                     0 \in Cuts(x.lines[end.line + 1])
<1>1. w.lines \in Seq(Line) /\ IsText(w.lines) /\ Len(w.lines) \in Nat
  BY DomainOfWork DEF Sound, Shaped
<1>2. /\ start.line \in Nat /\ end.line \in 0..(Len(w.lines) - 1)
      /\ end.line \in Nat /\ end.line + 1 \in 1..Len(w.lines)
  BY <1>1 DEF Places
<1>3. /\ GetCharacterIndexL(w.lines, start) \in Cuts(w.lines[start.line + 1])
      /\ GetCharacterIndexR(w.lines, end) \in 0..Len(w.lines[end.line + 1])
  BY <1>1, IndexIsCut DEF Cuts
<1>4. ASSUME NEW x, OnlyLine(x, w, start.line), start.line # end.line
      PROVE  x.lines[end.line + 1] = w.lines[end.line + 1]
  <2>1. end.line + 1 # start.line + 1
    BY <1>2, <1>4
  <2> QED BY <1>2, <1>4, <2>1 DEF OnlyLine
<1>5. ASSUME NEW x, Sound(x), Len(x.lines) = Len(w.lines)
      PROVE  0 \in Cuts(x.lines[end.line + 1])
  <2>1. x.lines[end.line + 1] \in Line
    BY <1>2, <1>5, LineOfWork
  <2> QED BY <2>1, EndsAreCuts
<1> QED BY <1>3, <1>4, <1>5

(* The line a deletion starts on is still there after it.                  *)
LEMMA DeleteRangeWork ==
    ASSUME NEW b, NEW w, Work(w, b),
           NEW start \in Places(w.lines), NEW end \in Places(w.lines), start.line <= end.line
    PROVE  LET v == DeleteRange(w, start, end)
           IN  /\ Loose(v, b)
               /\ start.line <= Len(v.lines) - 1
               /\ start.line = end.line =>
                      /\ Work(v, b) /\ Len(v.lines) = Len(w.lines)
                      /\ AllCarets(w) => AllCarets(v)
<1> DEFINE i == GetCharacterIndexL(w.lines, start)
           j == GetCharacterIndexR(w.lines, end)
           n == Len(w.lines)
           v == DeleteRange(w, start, end)
<1>1. Sound(w) /\ IsText(w.lines)
  BY DEF Work, Sound, Shaped
<1>2. i \in Cuts(w.lines[start.line + 1]) /\ j \in 0..Len(w.lines[end.line + 1])
  BY <1>1, CutsOfRange
<1>3. /\ start.line \in 0..(Len(w.lines) - 1) /\ end.line \in 0..(Len(w.lines) - 1)
  BY DEF Places
<1>4. n \in Nat /\ start.line \in Nat /\ end.line \in Nat /\ start.line <= n - 1 /\ end.line <= n - 1
  BY <1>1, <1>3, DomainOfWork
<1>5. CASE start = end
  BY <1>4, <1>5, WorkIsLoose DEF DeleteRange
<1>6. CASE start # end /\ start.line < end.line
  <2> DEFINE x == RemoveRestOfLine(w, start.line, i)
             cut == RemoveGlyphsFromLine(x, end.line, 0, j)
             y == JoinLines(cut, start.line, end.line)
             z == MoveUpFromLastLine(y, start, end)
  <2>1. v = RemoveLines(z, start.line + 1, end.line + 1)
    BY <1>6 DEF DeleteRange
  <2> HIDE DEF v, i, j
  <2>2. Work(x, b) /\ Len(x.lines) = n /\ OnlyLine(x, w, start.line)
    BY <1>2, <1>3, RemoveRestWork
  <2> HIDE DEF x
  <2>3. Work(cut, b) /\ Len(cut.lines) = n
    <3>1. end.line \in 0..(Len(x.lines) - 1) /\ start.line # end.line
      BY <1>3, <1>4, <1>6, <2>2
    <3>2. x.lines[end.line + 1] = w.lines[end.line + 1] /\ 0 \in Cuts(x.lines[end.line + 1])
      BY <1>1, <2>2, <3>1, CutsOfRange DEF Work
    <3>3. j \in 0..Len(x.lines[end.line + 1])
      BY <1>2, <3>2
    <3> QED BY <2>2, <3>1, <3>2, <3>3, RemoveGlyphsWork
  <2> HIDE DEF cut
  <2>4. Work(y, b) /\ Len(y.lines) = n
    <3>1. start.line \in 0..(Len(cut.lines) - 1) /\ end.line \in 0..(Len(cut.lines) - 1)
      BY <1>3, <2>3
    <3> QED BY <2>3, <3>1, JoinLinesWork
  <2> HIDE DEF y
  <2>5. start \in Places(y.lines)
    BY <2>4, SamePlaces
  <2>6. Work(z, b) /\ Len(z.lines) = n
    BY <2>4, <2>5, MoveUpFromLastLineWork
  <2> HIDE DEF z
  <2>7. start.line + 1 \in 1..Len(z.lines) /\ end.line + 1 \in (start.line + 1)..Len(z.lines)
    <3> HIDE DEF n
    <3> QED BY <1>4, <1>6, <2>6
  <2>8. Loose(v, b) /\ Len(v.lines) = Len(z.lines) - ((end.line + 1) - (start.line + 1))
    <3> DEFINE l == start.line + 1
               m == end.line + 1
    <3>1. l \in 1..Len(z.lines) /\ m \in l..Len(z.lines)
      BY <2>7
    <3>2. v = RemoveLines(z, l, m)
      BY <2>1
    <3> HIDE DEF l, m
    <3>3. Loose(v, b) /\ Len(v.lines) = Len(z.lines) - (m - l)
      <4>1. Work(z, b)
        BY <2>6
      <4>2. Loose(RemoveLines(z, l, m), b)
            /\ Len(RemoveLines(z, l, m).lines) = Len(z.lines) - (m - l)
        BY <3>1, <4>1, RemoveLinesWork
      <4> QED BY <3>2, <4>2
    <3> QED BY <3>3 DEF l, m
  <2>9. start.line <= Len(v.lines) - 1
    <3> HIDE DEF n
    <3> QED BY <1>4, <1>6, <2>6, <2>8
  <2>10. start.line # end.line
    BY <1>4, <1>6
  <2> QED BY <2>8, <2>9, <2>10 DEF v
<1>7. CASE start # end /\ ~(start.line < end.line)
  <2>1. \/ v = RemoveRestOfLine(w, start.line, i)
        \/ v = RemoveGlyphsFromLine(w, start.line, i, j)
    BY <1>7 DEF DeleteRange
  <2> HIDE DEF v, i, j
  <2>2. Work(v, b) /\ Len(v.lines) = n /\ (AllCarets(w) => AllCarets(v))
    <3>1. start.line = end.line
      BY <1>4, <1>7
    <3>2. j \in 0..Len(w.lines[start.line + 1])
      BY <1>2, <3>1
    <3>3. CASE v = RemoveRestOfLine(w, start.line, i)
      BY <1>2, <1>3, <3>3, RemoveRestWork
    <3>4. CASE v = RemoveGlyphsFromLine(w, start.line, i, j)
      BY <1>2, <1>3, <3>2, <3>4, RemoveGlyphsWork
    <3> QED BY <2>1, <3>3, <3>4
  <2>3. start.line <= Len(v.lines) - 1
    BY <1>4, <2>2
  <2> QED BY <2>2, <2>3, WorkIsLoose DEF v
<1> QED BY <1>5, <1>6, <1>7

(* One cursor is set to a place, by itself or as a selection.              *)
LEMMA ReplacedCursorWork ==
    ASSUME NEW b, NEW w, Loose(w, b), NEW v, Beside(v, w), v.lines = w.lines, v.changed, NEW c, NEW k,
           v.cursors = [w.cursors EXCEPT ![c] = k],
           c \in 1..Len(w.cursors) => k \in [s : Places(w.lines), e : Places(w.lines)],
           Flagged(w) => Flagged(v)
    PROVE  Work(v, b)
<1>1. IsText(w.lines) /\ AreCursors(w.cursors, w.lines) /\ IsSeq(w.cursors) /\ w.lines \in Seq(Line)
  BY DEF Loose, Sound, Shaped, AreCursors
<1>2. /\ IsSeq(v.cursors) /\ Len(v.cursors) = Len(w.cursors)
      /\ \A d \in 1..Len(w.cursors) : v.cursors[d] = IF d = c THEN k ELSE w.cursors[d]
  <2> DEFINE old == w.cursors
             new == [old EXCEPT ![c] = k]
  <2>0. IsSeq(old)
    BY <1>1
  <2> HIDE DEF old
  <2>1. IsSeq(new) /\ Len(new) = Len(old)
    BY <2>0, ExceptIsSeq
  <2>a. \A d \in 1..Len(old) : new[d] = IF d = c THEN k ELSE old[d]
    BY <2>0, ExceptIsSeq
  <2>2. v.cursors = new
    BY DEF old
  <2> HIDE DEF new
  <2> QED BY <2>1, <2>a, <2>2 DEF old
<1>3. AreCursors(v.cursors, v.lines)
  BY <1>1, <1>2 DEF AreCursors
<1>4. Loose(v, b)
  BY <1>1, <1>2, <1>3, ChangedLoosely
<1> QED BY <1>4 DEF Work, Loose, Steady

LEMMA SetCursorPositionWork ==
    ASSUME NEW b, NEW w, Loose(w, b), NEW p \in Places(w.lines), NEW c, NEW clear \in BOOLEAN
    PROVE  LET v == SetCursorPosition(w, p, c, clear)
           IN  /\ Work(v, b) /\ v.lines = w.lines /\ v.changed
               /\ clear /\ AllCarets(w) => AllCarets(v)
               /\ clear /\ c \in 1..Len(w.cursors) => v.cursors[c].e = p
<1> DEFINE v == SetCursorPosition(w, p, c, clear)
           k == [s |-> IF clear THEN p ELSE w.cursors[c].s, e |-> p]
<1>1. Sound(w) /\ WorkFields \subseteq DOMAIN w /\ IsSeq(w.cursors)
  BY DEF Loose, Sound, Shaped, AreCursors
<1>2. /\ v.lines = w.lines /\ Beside(v, w) /\ v.changed
      /\ v.cursors = [w.cursors EXCEPT ![c] = k]
  BY <1>1 DEF SetCursorPosition, Beside, WorkFields
<1>f. Flagged(w) => Flagged(v)
  BY <1>1 DEF SetCursorPosition, Flagged, WorkFields
<1>3. c \in 1..Len(w.cursors) => k \in [s : Places(w.lines), e : Places(w.lines)]
  BY <1>1, CursorOfWork
<1> HIDE DEF v
<1>4. clear => k.s = k.e /\ k.e = p
  OBVIOUS
<1> HIDE DEF k
<1>5. Work(v, b)
  BY <1>2, <1>3, <1>f, ReplacedCursorWork
<1>6. /\ Len(v.cursors) = Len(w.cursors)
      /\ \A d \in 1..Len(w.cursors) : v.cursors[d] = IF d = c THEN k ELSE w.cursors[d]
  BY <1>1, <1>2, ExceptIsSeq
<1>7. clear /\ AllCarets(w) => AllCarets(v)
  BY <1>4, <1>6 DEF AllCarets
<1>8. clear /\ c \in 1..Len(w.cursors) => v.cursors[c].e = p
  BY <1>4, <1>6
<1> QED BY <1>2, <1>5, <1>7, <1>8 DEF v

LEMMA MaxOfThree ==
    ASSUME NEW a \in Int, NEW b \in Int, NEW c \in Int
    PROVE  /\ Max({a, b, c}) \in {a, b, c}
           /\ Max({a, b, c}) >= a /\ Max({a, b, c}) >= b /\ Max({a, b, c}) >= c
<1>1. CASE a >= b /\ a >= c
  BY <1>1, MaxOf
<1>2. CASE b >= a /\ b >= c
  BY <1>2, MaxOf
<1>3. CASE c >= a /\ c >= b
  BY <1>3, MaxOf
<1> QED BY <1>1, <1>2, <1>3

LEMMA RangeOfColorize ==
    ASSUME NEW w, NEW from \in Int, NEW count \in Int, w.colorMin \in Nat, w.colorMax \in Nat,
           Len(w.lines) \in Nat
    PROVE  /\ Max({0, Min({w.colorMin, from})}) \in Nat
           /\ Max({Max({0, Min({w.colorMin, from})}), w.colorMax, Min({Len(w.lines), from + count})}) \in Nat
<1> DEFINE least == Min({w.colorMin, from})
           min == Max({0, least})
           to == Min({Len(w.lines), from + count})
<1>1. least \in Int
  BY MinOfTwo
<1> HIDE DEF least
<1>2. min \in Nat
  BY <1>1, MaxOfTwo
<1>3. to \in Int
  <2> DEFINE n == Len(w.lines)
             m == from + count
  <2>1. n \in Int /\ m \in Int
    OBVIOUS
  <2> HIDE DEF n, m
  <2>2. Min({n, m}) \in Int
    BY <2>1, MinOfTwo
  <2> QED BY <2>2 DEF n, m
<1> HIDE DEF min, to
<1> DEFINE old == w.colorMax
           max == Max({min, old, to})
<1>4. min \in Int /\ old \in Int
  BY <1>2
<1> HIDE DEF old
<1>5. max \in {min, old, to} /\ max >= min
  BY <1>3, <1>4, MaxOfThree
<1> HIDE DEF max
<1>6. max \in Nat
  BY <1>2, <1>3, <1>4, <1>5
<1> QED BY <1>2, <1>6 DEF least, min, to, old, max

LEMMA ColorizeWork ==
    ASSUME NEW b, NEW w, Work(w, b), NEW from \in Int, NEW count \in Int
    PROVE  LET v == Colorize(w, from, count)
           IN  Work(v, b) /\ v.lines = w.lines /\ v.cursors = w.cursors /\ v.aborted = w.aborted
<1> DEFINE v == Colorize(w, from, count)
<1>1. Sound(w) /\ WorkFields \subseteq DOMAIN w
  BY DEF Work, Sound, Shaped
<1>2. /\ v.lines = w.lines /\ v.cursors = w.cursors /\ Beside(v, w) /\ v.aborted = w.aborted
      /\ v.changed = w.changed
  BY <1>1 DEF Colorize, Beside, WorkFields
<1>f. ASSUME Flagged(w) PROVE Flagged(v)
  <2> DEFINE min == Max({0, Min({w.colorMin, from})})
             max == Max({min, w.colorMax, Min({Len(w.lines), from + count})})
  <2>1. min \in Nat /\ max \in Nat
    BY <1>1, <1>f, RangeOfColorize, DomainOfWork DEF Flagged
  <2>2. v = [w EXCEPT !.colorMin = min, !.colorMax = max, !.scan = TRUE]
    BY DEF Colorize
  <2> HIDE DEF min, max, v
  <2> QED BY <1>1, <1>f, <2>1, <2>2 DEF Flagged, WorkFields
<1> HIDE DEF v
<1>3. Work(v, b)
  BY <1>1, <1>2, <1>f, ChangedWork DEF Sound, Shaped, Steady
<1> QED BY <1>2, <1>3 DEF v

LEMMA SelectionGoesDown ==
    ASSUME NEW w, Sound(w), NEW c \in 1..Len(w.cursors)
    PROVE  /\ SelectionStart(w.cursors[c]).line <= SelectionEnd(w.cursors[c]).line
           /\ SelectionStart(w.cursors[c]).line \in Int
<1>1. w.cursors[c].s.line \in Int /\ w.cursors[c].e.line \in Int
  <2>1. w.cursors[c].s \in Places(w.lines) /\ w.cursors[c].e \in Places(w.lines)
    BY CursorOfWork
  <2> QED BY <2>1 DEF Places
<1> QED BY <1>1 DEF SelectionStart, SelectionEnd, Before

LEMMA DeleteSelectionWork ==
    ASSUME NEW b, NEW w, Work(w, b), NEW c \in 1..Len(w.cursors)
    PROVE  Work(DeleteSelection(w, c), b)
<1> DEFINE k == w.cursors[c]
           p == SelectionStart(k)
           q == SelectionEnd(k)
           cut == DeleteRange(w, p, q)
           set == SetCursorPosition(cut, p, c, TRUE)
<1>1. Sound(w)
  BY DEF Work
<1>2. p \in Places(w.lines) /\ q \in Places(w.lines)
  BY <1>1, CursorOfWork
<1>3. DeleteSelection(w, c) = IF HasSelection(k) THEN Colorize(set, p.line, 1) ELSE w
  BY DEF DeleteSelection
<1>a. p.line <= q.line /\ p.line \in Int
  BY <1>1, SelectionGoesDown
<1> HIDE DEF p, q
<1>4. Loose(cut, b) /\ p.line <= Len(cut.lines) - 1
  BY <1>2, <1>a, DeleteRangeWork
<1> HIDE DEF cut
<1>5. Len(cut.lines) \in Nat
  BY <1>4, DomainOfWork DEF Loose
<1>6. p \in Places(cut.lines)
  BY <1>2, <1>4, <1>5 DEF Places
<1>7. Work(set, b)
  BY <1>4, <1>6, SetCursorPositionWork
<1> HIDE DEF set, k
<1> QED BY <1>3, <1>7, <1>a, ColorizeWork

(* A selection that ends above the line n stays when text is deleted from  *)
(* there on.                                                               *)
Above(k, n) == HasSelection(k) /\ k.s.line <= n /\ k.e.line <= n

Spares(v, w, n) ==
    /\ DOMAIN v.cursors = DOMAIN w.cursors
    /\ \A d \in DOMAIN w.cursors : Above(w.cursors[d], n) => v.cursors[d] = w.cursors[d]

LEMMA SparesIsTransitive ==
    ASSUME NEW n, NEW u, NEW v, NEW w, Spares(u, v, n), Spares(v, w, n)
    PROVE  Spares(u, w, n)
BY DEF Spares

LEMMA ChangeLineSpares ==
    ASSUME NEW w, Sound(w), NEW l, NEW glyphs, NEW column, NEW count, NEW n
    PROVE  Spares(ChangeLine(w, l, glyphs, column, count), w, n)
<1> DEFINE carried(k) == k.e.line = l /\ k.e.column > column /\ ~HasSelection(k)
           lines == [w.lines EXCEPT ![l + 1] = glyphs]
           moved(k) ==
               At(l, GetCharacterColumn(lines, l, GetCharacterIndexR(w.lines, k.e) + count))
           v == ChangeLine(w, l, glyphs, column, count)
<1>1. v.cursors = [c \in DOMAIN w.cursors |->
                       IF carried(w.cursors[c]) THEN Caret(moved(w.cursors[c])) ELSE w.cursors[c]]
  BY DEF ChangeLine, Sound, Shaped, WorkFields
<1>2. \A k : Above(k, n) => ~carried(k)
  BY DEF Above
<1> HIDE DEF v, carried, moved
<1>3. Spares(v, w, n)
  BY <1>1, <1>2 DEF Spares
<1> QED BY <1>3 DEF v

LEMMA ChangesSpare ==
    ASSUME NEW w, Sound(w), NEW l, NEW m, NEW i, NEW j, NEW n
    PROVE  /\ Spares(RemoveGlyphsFromLine(w, l, i, j), w, n)
           /\ Spares(RemoveRestOfLine(w, l, i), w, n)
           /\ Spares(JoinLines(w, l, m), w, n)
<1>1. Spares(RemoveGlyphsFromLine(w, l, i, j), w, n)
  BY ChangeLineSpares DEF RemoveGlyphsFromLine
<1>2. Spares(RemoveRestOfLine(w, l, i), w, n)
  BY ChangeLineSpares DEF RemoveRestOfLine
<1>3. Spares(JoinLines(w, l, m), w, n)
  BY ChangeLineSpares DEF AddGlyphsToLine, JoinLines
<1> QED BY <1>1, <1>2, <1>3

LEMMA MoveUpSpares ==
    ASSUME NEW w, Sound(w), NEW p, NEW q, p.line \in Nat, q.line \in Nat, p.line < q.line
    PROVE  Spares(MoveUpFromLastLine(w, p, q), w, p.line)
<1> DEFINE same(k) == SelectionStart(k) = p /\ SelectionEnd(k) = q
           stops == {c \in DOMAIN w.cursors : ~same(w.cursors[c]) /\ w.cursors[c].e.line > q.line}
           moves(c) == /\ \A d \in stops : c < d
                       /\ w.cursors[c].e.line = q.line
                       /\ ~same(w.cursors[c])
           joint == GetCharacterIndexR(w.lines, p)
           moved(r) == At(p.line, GetCharacterColumn(w.lines, p.line,
                                          joint + GetCharacterIndexR(w.lines, r)))
           v == MoveUpFromLastLine(w, p, q)
<1>1. v.cursors = [c \in DOMAIN w.cursors |->
                       IF moves(c) THEN [s |-> moved(w.cursors[c].s), e |-> moved(w.cursors[c].e)]
                       ELSE w.cursors[c]]
  BY DEF MoveUpFromLastLine, Sound, Shaped, WorkFields
<1>2. \A c \in DOMAIN w.cursors : Above(w.cursors[c], p.line) => ~moves(c)
  BY DEF Above
<1> HIDE DEF v, moves, moved
<1>3. Spares(v, w, p.line)
  BY <1>1, <1>2 DEF Spares
<1> QED BY <1>3 DEF v

LEMMA RemoveLinesSpares ==
    ASSUME NEW w, Sound(w), NEW n \in Nat, NEW m
    PROVE  Spares(RemoveLines(w, n + 1, m), w, n)
<1> DEFINE raised(p) == IF p.line >= n + 1 THEN [p EXCEPT !.line = Max({0, @ - (m - (n + 1))})] ELSE p
           v == RemoveLines(w, n + 1, m)
<1>0. \A c \in DOMAIN w.cursors :
          /\ w.cursors[c] = [s |-> w.cursors[c].s, e |-> w.cursors[c].e]
          /\ w.cursors[c].s.line \in Int /\ w.cursors[c].e.line \in Int
  <2> SUFFICES ASSUME NEW c \in DOMAIN w.cursors
               PROVE  /\ w.cursors[c] = [s |-> w.cursors[c].s, e |-> w.cursors[c].e]
                      /\ w.cursors[c].s.line \in Int /\ w.cursors[c].e.line \in Int
    OBVIOUS
  <2>1. /\ w.cursors[c] \in [s : Places(w.lines), e : Places(w.lines)]
        /\ w.cursors[c].s \in Places(w.lines) /\ w.cursors[c].e \in Places(w.lines)
    BY CursorOfWork, DomainOfWork
  <2>2. \A r \in Places(w.lines) : r.line \in Int
    BY DEF Places
  <2> QED BY <2>1, <2>2
<1>1. v.cursors = [c \in DOMAIN w.cursors |->
                       [s |-> raised(w.cursors[c].s), e |-> raised(w.cursors[c].e)]]
  BY DEF RemoveLines, Sound, Shaped, WorkFields
<1>2. \A p : p.line \in Int /\ p.line <= n => raised(p) = p
  <2> SUFFICES ASSUME NEW p, p.line \in Int, p.line <= n PROVE ~(p.line >= n + 1)
    OBVIOUS
  <2> DEFINE i == p.line
  <2>1. i \in Int /\ i <= n
    OBVIOUS
  <2> HIDE DEF i
  <2>2. ~(i >= n + 1)
    BY <2>1
  <2> QED BY <2>2 DEF i
<1> HIDE DEF v, raised
<1>3. Spares(v, w, n)
  <2>1. DOMAIN v.cursors = DOMAIN w.cursors
    BY <1>1
  <2>2. ASSUME NEW d \in DOMAIN w.cursors, Above(w.cursors[d], n) PROVE v.cursors[d] = w.cursors[d]
    <3>1. raised(w.cursors[d].s) = w.cursors[d].s /\ raised(w.cursors[d].e) = w.cursors[d].e
      BY <1>0, <1>2, <2>2 DEF Above
    <3>2. v.cursors[d] = [s |-> w.cursors[d].s, e |-> w.cursors[d].e]
      BY <1>1, <3>1
    <3> QED BY <1>0, <3>2
  <2> QED BY <2>1, <2>2 DEF Spares
<1> QED BY <1>3 DEF v

LEMMA DeleteRangeSpares ==
    ASSUME NEW w, Sound(w), NEW start \in Places(w.lines), NEW end \in Places(w.lines),
           start.line <= end.line
    PROVE  Spares(DeleteRange(w, start, end), w, start.line)
<1> DEFINE i == GetCharacterIndexL(w.lines, start)
           j == GetCharacterIndexR(w.lines, end)
           n == Len(w.lines)
           v == DeleteRange(w, start, end)
<1>0. Work(w, w) /\ IsText(w.lines)
  BY DEF Work, Sound, Shaped, Continues, Retains, Steady
<1>2. i \in Cuts(w.lines[start.line + 1]) /\ j \in 0..Len(w.lines[end.line + 1])
  BY <1>0, CutsOfRange
<1>3. /\ start.line \in 0..(Len(w.lines) - 1) /\ end.line \in 0..(Len(w.lines) - 1)
  BY DEF Places
<1>4. n \in Nat /\ start.line \in Nat /\ end.line \in Nat
  BY <1>3, DomainOfWork
<1>5. CASE start = end
  BY <1>5 DEF DeleteRange, Spares
<1>6. CASE start # end /\ start.line < end.line
  <2> DEFINE x == RemoveRestOfLine(w, start.line, i)
             cut == RemoveGlyphsFromLine(x, end.line, 0, j)
             y == JoinLines(cut, start.line, end.line)
             z == MoveUpFromLastLine(y, start, end)
  <2>1. v = RemoveLines(z, start.line + 1, end.line + 1)
    BY <1>6 DEF DeleteRange
  <2> HIDE DEF v, i, j
  <2>2. Work(x, w) /\ Len(x.lines) = n /\ OnlyLine(x, w, start.line)
    BY <1>0, <1>2, <1>3, RemoveRestWork
  <2>a. Spares(x, w, start.line)
    BY ChangesSpare
  <2> HIDE DEF x
  <2>3. Work(cut, w) /\ Len(cut.lines) = n
    <3>1. end.line \in 0..(Len(x.lines) - 1) /\ start.line # end.line
      BY <1>3, <1>4, <1>6, <2>2
    <3>2. x.lines[end.line + 1] = w.lines[end.line + 1] /\ 0 \in Cuts(x.lines[end.line + 1])
      BY <2>2, <3>1, CutsOfRange DEF Work
    <3>3. j \in 0..Len(x.lines[end.line + 1])
      BY <1>2, <3>2
    <3> QED BY <2>2, <3>1, <3>2, <3>3, RemoveGlyphsWork
  <2>b. Spares(cut, x, start.line)
    BY <2>2, ChangesSpare DEF Work
  <2> HIDE DEF cut
  <2>4. Work(y, w) /\ Len(y.lines) = n
    <3>1. start.line \in 0..(Len(cut.lines) - 1) /\ end.line \in 0..(Len(cut.lines) - 1)
      BY <1>3, <2>3
    <3> QED BY <2>3, <3>1, JoinLinesWork
  <2>c. Spares(y, cut, start.line)
    BY <2>3, ChangesSpare DEF Work
  <2> HIDE DEF y
  <2>5. start \in Places(y.lines)
    BY <2>4, SamePlaces
  <2>6. Work(z, w)
    BY <2>4, <2>5, MoveUpFromLastLineWork
  <2>d. Spares(z, y, start.line)
    BY <1>4, <1>6, <2>4, MoveUpSpares DEF Work
  <2> HIDE DEF z
  <2>e. Spares(v, z, start.line)
    BY <1>4, <2>1, <2>6, RemoveLinesSpares DEF Work
  <2>f. Spares(y, w, start.line)
    BY <2>a, <2>b, <2>c, SparesIsTransitive
  <2>g. Spares(v, w, start.line)
    BY <2>d, <2>e, <2>f, SparesIsTransitive
  <2> QED BY <2>g DEF v
<1>7. CASE start # end /\ ~(start.line < end.line)
  <2>1. \/ v = RemoveRestOfLine(w, start.line, i)
        \/ v = RemoveGlyphsFromLine(w, start.line, i, j)
    BY <1>7 DEF DeleteRange
  <2> HIDE DEF v, i, j
  <2>2. Spares(v, w, start.line)
    BY <2>1, ChangesSpare
  <2> QED BY <2>2 DEF v
<1> QED BY <1>5, <1>6, <1>7

LEMMA DeleteSelectionSpares ==
    ASSUME NEW w, Sound(w), NEW c \in 1..Len(w.cursors), NEW d \in 1..Len(w.cursors), d # c,
           Above(w.cursors[d], SelectionStart(w.cursors[c]).line)
    PROVE  DeleteSelection(w, c).cursors[d] = w.cursors[d]
<1> DEFINE k == w.cursors[c]
           p == SelectionStart(k)
           q == SelectionEnd(k)
           cut == DeleteRange(w, p, q)
           set == SetCursorPosition(cut, p, c, TRUE)
           x == Colorize(set, p.line, 1)
<1>1. p \in Places(w.lines) /\ q \in Places(w.lines)
  BY CursorOfWork
<1>2. DeleteSelection(w, c) = IF HasSelection(k) THEN x ELSE w
  BY DEF DeleteSelection
<1>3. Work(w, w) /\ DOMAIN w.cursors = 1..Len(w.cursors) /\ d \in DOMAIN w.cursors
  BY DomainOfWork DEF Work, Continues, Retains, Steady
<1>a. p.line <= q.line
  BY SelectionGoesDown
<1> HIDE DEF p, q
<1>4. Spares(cut, w, p.line) /\ Loose(cut, w)
  BY <1>1, <1>3, <1>a, DeleteRangeSpares, DeleteRangeWork
<1> HIDE DEF cut
<1>5. cut.cursors[d] = w.cursors[d]
  BY <1>3, <1>4 DEF Spares, p
<1>6. WorkFields \subseteq DOMAIN cut /\ d \in DOMAIN cut.cursors
  BY <1>3, <1>4 DEF Loose, Sound, Shaped, Spares
<1>7. set.cursors[d] = cut.cursors[d] /\ "cursors" \in DOMAIN set
  BY <1>6 DEF SetCursorPosition, WorkFields
<1> HIDE DEF set
<1>8. x.cursors = set.cursors
  BY DEF Colorize
<1> HIDE DEF x, k
<1> QED BY <1>2, <1>5, <1>7, <1>8

-----------------------------------------------------------------------------
(* Sequences that are joined, and taken apart.                              *)
LEMMA SameSeq ==
    ASSUME NEW s, NEW t, IsSeq(s), IsSeq(t), Len(s) = Len(t),
           \A i \in 1..Len(s) : s[i] = t[i]
    PROVE  s = t
BY DEF IsSeq

LEMMA EmptySeq ==
    ASSUME NEW s, IsSeq(s), Len(s) = 0
    PROVE  s = <<>>
<1>1. IsSeq(<<>>) /\ Len(<<>>) = 0
  BY SmallSeqs
<1>2. \A i \in 1..Len(s) : s[i] = <<>>[i]
  OBVIOUS
<1> QED BY <1>1, <1>2, SameSeq

LEMMA ConcatEmpty ==
    ASSUME NEW s, IsSeq(s)
    PROVE  s \o <<>> = s /\ <<>> \o s = s
<1>1. IsSeq(<<>>) /\ Len(<<>>) = 0 /\ Len(s) \in Nat
  BY SmallSeqs DEF IsSeq
<1>2. s \o <<>> = s
  <2>1. /\ IsSeq(s \o <<>>) /\ Len(s \o <<>>) = Len(s)
        /\ \A i \in 1..Len(s) : (s \o <<>>)[i] = s[i]
    BY <1>1, ConcatIsSeq
  <2> QED BY <2>1, SameSeq
<1>3. <<>> \o s = s
  <2>1. /\ IsSeq(<<>> \o s) /\ Len(<<>> \o s) = Len(s)
        /\ \A i \in 1..Len(s) : (<<>> \o s)[i] = s[i]
    BY <1>1, ConcatIsSeq
  <2> QED BY <2>1, SameSeq
<1> QED BY <1>2, <1>3

(* Where two sequences are joined they can be taken apart.                 *)
LEMMA ConcatParts ==
    ASSUME NEW s, NEW t, IsSeq(s), IsSeq(t)
    PROVE  /\ SubSeq(s \o t, 1, Len(s)) = s
           /\ SubSeq(s \o t, Len(s) + 1, Len(s \o t)) = t
<1> DEFINE st == s \o t
           a == Len(s)
           b == Len(t)
           head == SubSeq(st, 1, a)
           tail == SubSeq(st, a + 1, a + b)
<1>1. a \in Nat /\ b \in Nat
  BY DEF IsSeq
<1>2. /\ IsSeq(st) /\ Len(st) = a + b
      /\ \A i \in 1..(a + b) : st[i] = IF i <= a THEN s[i] ELSE t[i - a]
  BY ConcatIsSeq
<1> HIDE DEF st, a, b
<1>3. IsSeq(head) /\ Len(head) = a /\ \A i \in 1..a : head[i] = st[i + 1 - 1]
  BY <1>1, SubSeqIsSeq
<1>4. IsSeq(tail) /\ Len(tail) = b /\ \A i \in 1..b : tail[i] = st[i + (a + 1) - 1]
  BY <1>1, SubSeqIsSeq
<1> HIDE DEF head, tail
<1>5. \A i \in 1..a : head[i] = s[i]
  BY <1>1, <1>2, <1>3
<1>6. \A i \in 1..b : tail[i] = t[i]
  <2> SUFFICES ASSUME NEW i \in 1..b PROVE tail[i] = t[i]
    OBVIOUS
  <2>1. i + (a + 1) - 1 = i + a /\ i + a \in 1..(a + b) /\ ~(i + a <= a) /\ (i + a) - a = i
    BY <1>1
  <2> QED BY <1>2, <1>4, <2>1
<1>7. head = s /\ tail = t
  BY <1>3, <1>4, <1>5, <1>6, SameSeq DEF a, b
<1> QED BY <1>2, <1>7 DEF head, tail, a, b, st

LEMMA PartsOfSeq ==
    ASSUME NEW s, IsSeq(s), NEW i \in 0..Len(s)
    PROVE  /\ SubSeq(s, 1, i) \o SubSeq(s, i + 1, Len(s)) = s
           /\ IsSeq(SubSeq(s, 1, i)) /\ Len(SubSeq(s, 1, i)) = i
           /\ IsSeq(SubSeq(s, i + 1, Len(s))) /\ Len(SubSeq(s, i + 1, Len(s))) = Len(s) - i
           /\ i < Len(s) => SubSeq(s, 1, i) \o <<s[i + 1]>> = SubSeq(s, 1, i + 1)
<1> DEFINE n == Len(s)
           head == SubSeq(s, 1, i)
           tail == SubSeq(s, i + 1, n)
           more == SubSeq(s, 1, i + 1)
           one == <<s[i + 1]>>
<1>1. n \in Nat /\ i \in Nat /\ i <= n
  BY DEF IsSeq
<1> HIDE DEF n
<1>2. IsSeq(head) /\ Len(head) = i /\ \A k \in 1..i : head[k] = s[k + 1 - 1]
  BY <1>1, SubSeqIsSeq
<1>3. IsSeq(tail) /\ Len(tail) = n - i /\ \A k \in 1..(n - i) : tail[k] = s[k + (i + 1) - 1]
  BY <1>1, SubSeqIsSeq
<1>4. IsSeq(more) /\ Len(more) = i + 1 /\ \A k \in 1..(i + 1) : more[k] = s[k + 1 - 1]
  BY <1>1, SubSeqIsSeq
<1>5. IsSeq(one) /\ Len(one) = 1 /\ one[1] = s[i + 1]
  BY SmallSeqs
<1> HIDE DEF head, tail, more, one
<1>6. head \o tail = s
  <2> DEFINE all == head \o tail
  <2>1. /\ IsSeq(all) /\ Len(all) = Len(head) + Len(tail)
        /\ \A k \in 1..(Len(head) + Len(tail)) :
               all[k] = IF k <= Len(head) THEN head[k] ELSE tail[k - Len(head)]
    BY <1>2, <1>3, ConcatIsSeq
  <2> HIDE DEF all
  <2>2. Len(all) = n
    BY <1>1, <1>2, <1>3, <2>1
  <2>3. ASSUME NEW k \in 1..n PROVE all[k] = s[k]
    <3>1. CASE k <= i
      BY <1>1, <1>2, <1>3, <2>1, <3>1
    <3>2. CASE ~(k <= i)
      <4>1. k - i \in 1..(n - i) /\ (k - i) + (i + 1) - 1 = k
        BY <1>1, <3>2
      <4>2. all[k] = tail[k - i]
        BY <1>1, <1>2, <1>3, <2>1, <3>2
      <4> QED BY <1>3, <4>1, <4>2
    <3> QED BY <3>1, <3>2
  <2> QED BY <2>1, <2>2, <2>3, SameSeq DEF all, n
<1>7. ASSUME i < n PROVE head \o one = more
  <2> DEFINE all == head \o one
  <2>1. /\ IsSeq(all) /\ Len(all) = Len(head) + Len(one)
        /\ \A k \in 1..(Len(head) + Len(one)) :
               all[k] = IF k <= Len(head) THEN head[k] ELSE one[k - Len(head)]
    BY <1>2, <1>5, ConcatIsSeq
  <2> HIDE DEF all
  <2>2. Len(all) = i + 1
    BY <1>1, <1>2, <1>5, <2>1
  <2>3. ASSUME NEW k \in 1..(i + 1) PROVE all[k] = more[k]
    <3>1. CASE k <= i
      BY <1>1, <1>2, <1>4, <1>5, <2>1, <3>1
    <3>2. CASE ~(k <= i)
      <4>1. k = i + 1 /\ k - i = 1 /\ k + 1 - 1 = i + 1
        BY <1>1, <3>2
      <4>2. all[k] = one[1]
        BY <1>1, <1>2, <1>5, <2>1, <3>2, <4>1
      <4> QED BY <1>4, <1>5, <4>1, <4>2
    <3> QED BY <3>1, <3>2
  <2> QED BY <1>4, <2>1, <2>2, <2>3, SameSeq DEF all
<1> QED BY <1>2, <1>3, <1>6, <1>7 DEF head, tail, more, one, n

-----------------------------------------------------------------------------
LEMMA ShapeOfItself ==
    ASSUME NEW w, Shaped(w)
    PROVE  Shape(w, w)
BY DEF Shape, Continues, Retains, Steady

(* What each change does to the lines.                                     *)
Replaced(v, w, l, glyphs) == v.lines = [w.lines EXCEPT ![l + 1] = glyphs]

LEMMA ChangedLines ==
    ASSUME NEW w, Shaped(w), NEW l
    PROVE  /\ \A i, glyphs :
                  Replaced(AddGlyphsToLine(w, l, i, glyphs), w, l,
                           SubSeq(w.lines[l + 1], 1, i) \o glyphs
                               \o SubSeq(w.lines[l + 1], i + 1, Len(w.lines[l + 1])))
           /\ \A i, j :
                  Replaced(RemoveGlyphsFromLine(w, l, i, j), w, l,
                           SubSeq(w.lines[l + 1], 1, i)
                               \o SubSeq(w.lines[l + 1], j + 1, Len(w.lines[l + 1])))
           /\ \A i : Replaced(RemoveRestOfLine(w, l, i), w, l, SubSeq(w.lines[l + 1], 1, i))
<1>1. "lines" \in DOMAIN w
  BY DEF Shaped, WorkFields
<1>2. ASSUME NEW glyphs, NEW column, NEW count
      PROVE  Replaced(ChangeLine(w, l, glyphs, column, count), w, l, glyphs)
  BY <1>1 DEF ChangeLine, Replaced
<1> QED BY <1>2 DEF AddGlyphsToLine, RemoveGlyphsFromLine, RemoveRestOfLine

LEMMA ReplacedLines ==
    ASSUME NEW v, NEW w, NEW l, NEW glyphs, Replaced(v, w, l, glyphs), IsSeq(w.lines)
    PROVE  /\ IsSeq(v.lines) /\ Len(v.lines) = Len(w.lines)
           /\ \A k \in 1..Len(w.lines) : v.lines[k] = IF k = l + 1 THEN glyphs ELSE w.lines[k]
<1> DEFINE lines == w.lines
           n == l + 1
           new == [lines EXCEPT ![n] = glyphs]
<1>1. v.lines = new
  BY DEF Replaced
<1>2. IsSeq(lines)
  OBVIOUS
<1> HIDE DEF lines, n
<1>3. IsSeq(new) /\ Len(new) = Len(lines)
  BY <1>2, ExceptIsSeq
<1>4. \A k \in 1..Len(lines) : new[k] = IF k = n THEN glyphs ELSE lines[k]
  BY <1>2, ExceptIsSeq
<1> HIDE DEF new
<1> QED BY <1>1, <1>3, <1>4 DEF lines, n

LEMMA InsertedLine ==
    ASSUME NEW w, Shaped(w), NEW l \in 0..Len(w.lines)
    PROVE  LET v == InsertLine(w, l)
           IN  /\ Len(v.lines) = Len(w.lines) + 1
               /\ \A k \in 1..l : v.lines[k] = w.lines[k]
               /\ v.lines[l + 1] = <<>>
               /\ \A k \in (l + 2)..(Len(w.lines) + 1) : v.lines[k] = w.lines[k - 1]
<1> DEFINE lines == w.lines
           n == Len(lines)
           above == SubSeq(lines, 1, l)
           under == SubSeq(lines, l + 1, n)
           opened == <<<<>>>>
           top == above \o opened
           new == top \o under
<1>1. InsertLine(w, l).lines = new
  BY DEF InsertLine, Sound, Shaped, WorkFields
<1>2. n \in Nat /\ l \in Nat /\ l <= n
  BY DomainOfShape
<1> HIDE DEF n, lines
<1>3. IsSeq(above) /\ Len(above) = l /\ \A i \in 1..l : above[i] = lines[i + 1 - 1]
  <2>1. 1 \in Int /\ l \in Int
    BY <1>2
  <2>2. /\ IsSeq(above) /\ Len(above) = IF 1 <= l THEN 1 + l - 1 ELSE 0
        /\ \A i \in 1..Len(above) : above[i] = lines[i + 1 - 1]
    BY ONLY <2>1, SubSeqIsSeq
  <2> HIDE DEF above
  <2> QED BY ONLY <1>2, <2>2
<1>4. /\ IsSeq(under) /\ Len(under) = n - l
      /\ \A i \in 1..(n - l) : under[i] = lines[i + (l + 1) - 1]
  <2>1. l + 1 \in Int /\ n \in Int
    BY <1>2
  <2>2. /\ IsSeq(under) /\ Len(under) = IF l + 1 <= n THEN 1 + n - (l + 1) ELSE 0
        /\ \A i \in 1..Len(under) : under[i] = lines[i + (l + 1) - 1]
    BY ONLY <2>1, SubSeqIsSeq
  <2> HIDE DEF under
  <2> QED BY ONLY <1>2, <2>2
<1>5. IsSeq(opened) /\ Len(opened) = 1 /\ opened[1] = <<>>
  BY SmallSeqs
<1> HIDE DEF above, under, opened
<1>6. /\ IsSeq(top) /\ Len(top) = Len(above) + Len(opened)
      /\ \A i \in 1..(Len(above) + Len(opened)) :
             top[i] = IF i <= Len(above) THEN above[i] ELSE opened[i - Len(above)]
  BY <1>3, <1>5, ConcatIsSeq
<1> HIDE DEF top
<1>7. /\ IsSeq(new) /\ Len(new) = Len(top) + Len(under)
      /\ \A i \in 1..(Len(top) + Len(under)) :
             new[i] = IF i <= Len(top) THEN top[i] ELSE under[i - Len(top)]
  BY <1>4, <1>6, ConcatIsSeq
<1> HIDE DEF new
<1>8. Len(top) = l + 1 /\ Len(new) = n + 1
  BY <1>2, <1>3, <1>4, <1>5, <1>6, <1>7
<1>9. ASSUME NEW k \in 1..l PROVE new[k] = lines[k]
  <2>1. k \in 1..(n + 1) /\ k <= l + 1 /\ k <= l /\ k \in 1..(l + 1) /\ k + 1 - 1 = k
    BY <1>2
  <2> QED BY <1>2, <1>3, <1>4, <1>5, <1>6, <1>7, <1>8, <2>1
<1>10. new[l + 1] = <<>>
  <2>1. l + 1 \in 1..(n + 1) /\ l + 1 <= l + 1 /\ ~(l + 1 <= l) /\ l + 1 \in 1..(l + 1)
        /\ (l + 1) - l = 1
    BY <1>2
  <2>2. new[l + 1] = top[l + 1]
    BY <1>2, <1>4, <1>7, <1>8, <2>1
  <2>3. top[l + 1] = opened[1]
    BY <1>3, <1>5, <1>6, <2>1
  <2> QED BY <1>5, <2>2, <2>3
<1>11. ASSUME NEW k \in (l + 2)..(n + 1) PROVE new[k] = lines[k - 1]
  <2>1. k \in 1..(n + 1) /\ ~(k <= l + 1) /\ k - (l + 1) \in 1..(n - l)
        /\ (k - (l + 1)) + (l + 1) - 1 = k - 1
    BY <1>2
  <2>2. new[k] = under[k - (l + 1)]
    BY <1>2, <1>4, <1>7, <1>8, <2>1
  <2> QED BY <1>4, <2>1, <2>2
<1> QED BY <1>1, <1>8, <1>9, <1>10, <1>11 DEF n, lines

(* Breaking a line leaves its two halves on lines of their own.            *)
LEMMA BrokenLine ==
    ASSUME NEW w, Shaped(w), NEW l \in 0..(Len(w.lines) - 1), NEW i \in 0..Len(w.lines[l + 1])
    PROVE  LET v == BreakLine(w, l, i)
               line == w.lines[l + 1]
           IN  /\ Len(v.lines) = Len(w.lines) + 1
               /\ \A k \in 1..l : v.lines[k] = w.lines[k]
               /\ v.lines[l + 1] = SubSeq(line, 1, i)
               /\ v.lines[l + 2] = SubSeq(line, i + 1, Len(line))
               /\ \A k \in (l + 3)..(Len(w.lines) + 1) : v.lines[k] = w.lines[k - 1]
<1> DEFINE n == Len(w.lines)
           line == w.lines[l + 1]
           rest == SubSeq(line, i + 1, Len(line))
           head == SubSeq(line, 1, i)
           opened == InsertLine(w, l + 1)
           filled == AddGlyphsToLine(opened, l + 1, 0, rest)
           v == BreakLine(w, l, i)
<1>0. i \in 0..Len(line)
  OBVIOUS
<1>1. Shape(w, w) /\ IsText(w.lines)
  BY ShapeOfItself DEF Shaped
<1>2. n \in Nat /\ l \in Nat /\ l + 1 \in 0..n /\ l + 1 \in 1..n /\ i \in Nat
  BY DomainOfShape
<1>3. IsSeq(line) /\ Len(line) \in Nat
  BY <1>1, LineIsSeq
<1>4. IsSeq(rest) /\ IsSeq(head) /\ Len(rest) = Len(line) - i
  BY <1>3, PartsOfSeq
<1>5. /\ Len(opened.lines) = n + 1
      /\ \A k \in 1..(l + 1) : opened.lines[k] = w.lines[k]
      /\ opened.lines[(l + 1) + 1] = <<>>
      /\ \A k \in ((l + 1) + 2)..(n + 1) : opened.lines[k] = w.lines[k - 1]
  BY <1>2, InsertedLine
<1>6. (l + 1) + 1 = l + 2 /\ (l + 1) + 2 = l + 3 /\ l + 1 \in 1..(l + 1)
  BY <1>2
<1>7. CASE ~(i < Len(line))
  <2>1. v = opened
    BY <1>7 DEF BreakLine, LineSize
  <2>2. i = Len(line)
    BY <1>2, <1>3, <1>7
  <2>3. rest = <<>>
    BY <1>3, <1>4, <2>2, EmptySeq
  <2>4. head = line
    <3> HIDE DEF line
    <3>1. rest = SubSeq(line, i + 1, Len(line)) /\ head \o rest = line
      BY <1>0, <1>3, PartsOfSeq
    <3> QED BY <1>4, <2>3, <3>1, ConcatEmpty
  <2>5. \A k \in 1..l : k \in 1..(l + 1)
    BY <1>2
  <2> HIDE DEF head, rest, opened
  <2>6. opened.lines[l + 1] = line
    BY <1>5, <1>6
  <2> QED BY <1>5, <1>6, <2>1, <2>3, <2>4, <2>5, <2>6 DEF n, head, rest
<1>8. CASE i < Len(line)
  <2>1. v = RemoveRestOfLine(filled, l, i)
    BY <1>8 DEF BreakLine, LineSize
  <2>2. Shape(opened, w) /\ Shaped(opened)
    BY <1>1, <1>2, InsertLineShape DEF Shape
  <2>3. filled.lines = [opened.lines EXCEPT ![l + 2] = rest]
    <3> DEFINE blank == opened.lines[(l + 1) + 1]
    <3>1. filled.lines = [opened.lines EXCEPT ![(l + 1) + 1] =
              SubSeq(blank, 1, 0) \o rest \o SubSeq(blank, 0 + 1, Len(blank))]
      <4> HIDE DEF opened, rest
      <4>1. Replaced(filled, opened, l + 1, SubSeq(blank, 1, 0) \o rest \o SubSeq(blank, 0 + 1, Len(blank)))
        BY <2>2, ChangedLines
      <4> QED BY <4>1 DEF Replaced
    <3>2. SubSeq(<<>>, 1, 0) = <<>> /\ SubSeq(<<>>, 0 + 1, Len(<<>>)) = <<>>
      <4>1. IsSeq(<<>>) /\ Len(<<>>) = 0
        BY SmallSeqs
      <4>2. /\ IsSeq(SubSeq(<<>>, 1, 0)) /\ Len(SubSeq(<<>>, 1, 0)) = 0
            /\ IsSeq(SubSeq(<<>>, 1, Len(<<>>))) /\ Len(SubSeq(<<>>, 1, Len(<<>>))) = 0
        BY <4>1, SubSeqIsSeq
      <4> QED BY <4>2, EmptySeq
    <3>3. blank = <<>>
      BY <1>5
    <3> HIDE DEF blank, rest, opened, filled
    <3>4. SubSeq(blank, 1, 0) \o rest \o SubSeq(blank, 0 + 1, Len(blank)) = rest
      BY <1>4, <3>2, <3>3, ConcatEmpty
    <3> QED BY <1>6, <3>1, <3>4
  <2>4. Shape(filled, w) /\ Shaped(filled) /\ Len(filled.lines) = n + 1
    <3>1. l + 1 \in 0..(Len(opened.lines) - 1)
      BY <1>2, <1>5
    <3>2. 0 \in Int
      OBVIOUS
    <3> HIDE DEF opened, rest
    <3>3. Shape(filled, w) /\ Len(filled.lines) = Len(opened.lines)
      BY <1>4, <2>2, <3>1, <3>2, AddGlyphsShape
    <3> QED BY <1>5, <3>3 DEF Shape
  <2> HIDE DEF filled
  <2>5. v.lines = [filled.lines EXCEPT ![l + 1] = SubSeq(filled.lines[l + 1], 1, i)]
    <3>1. RemoveRestOfLine(filled, l, i).lines
              = [filled.lines EXCEPT ![l + 1] = SubSeq(filled.lines[l + 1], 1, i)]
      <4>1. Replaced(RemoveRestOfLine(filled, l, i), filled, l, SubSeq(filled.lines[l + 1], 1, i))
        BY <2>4, ChangedLines
      <4> QED BY <4>1 DEF Replaced
    <3> QED BY <2>1, <3>1
  <2> HIDE DEF v, opened, rest
  <2>6. IsSeq(opened.lines) /\ IsSeq(filled.lines)
    BY <2>2, <2>4, DomainOfShape
  <2>7. /\ Len(v.lines) = n + 1
        /\ \A k \in 1..(n + 1) : v.lines[k] = IF k = l + 1 THEN SubSeq(filled.lines[l + 1], 1, i)
                                              ELSE filled.lines[k]
    BY <2>4, <2>5, <2>6, ExceptIsSeq
  <2>8. \A k \in 1..(n + 1) : filled.lines[k] = IF k = l + 2 THEN rest ELSE opened.lines[k]
    BY <1>5, <2>3, <2>6, ExceptIsSeq
  <2>9. /\ l + 1 \in 1..(n + 1) /\ l + 2 \in 1..(n + 1) /\ l + 1 # l + 2
        /\ \A k \in 1..l : k \in 1..(n + 1) /\ k # l + 1 /\ k # l + 2 /\ k \in 1..(l + 1)
        /\ \A k \in (l + 3)..(n + 1) : k \in 1..(n + 1) /\ k # l + 1 /\ k # l + 2
    BY <1>2
  <2>10. filled.lines[l + 1] = line
    BY <1>5, <1>6, <2>8, <2>9
  <2> HIDE DEF n, line
  <2>11. v.lines[l + 1] = SubSeq(line, 1, i) /\ v.lines[l + 2] = rest
    BY <2>7, <2>8, <2>9, <2>10
  <2>12. \A k \in 1..l : v.lines[k] = w.lines[k]
    BY <1>5, <2>7, <2>8, <2>9
  <2>13. \A k \in (l + 3)..(n + 1) : v.lines[k] = w.lines[k - 1]
    BY <1>5, <1>6, <2>7, <2>8, <2>9
  <2> QED BY <2>7, <2>11, <2>12, <2>13 DEF v, n, rest, line
<1> QED BY <1>7, <1>8

(* One glyph put into a line.                                              *)
OneMore(v, w, l, i, g) ==
    LET line == w.lines[l + 1]
        new == v.lines[l + 1]
    IN  /\ Shaped(v) /\ Len(v.lines) = Len(w.lines)
        /\ \A k \in 1..Len(w.lines) : k # l + 1 => v.lines[k] = w.lines[k]
        /\ new = (SubSeq(line, 1, i) \o <<g>>) \o SubSeq(line, i + 1, Len(line))
        /\ IsSeq(new) /\ Len(new) = Len(line) + 1
        /\ \A k \in 1..i : new[k] = line[k]
        /\ new[i + 1] = g
        /\ \A k \in (i + 1)..Len(line) : new[k + 1] = line[k]

LEMMA GlyphAdded ==
    ASSUME NEW w, Shaped(w), NEW l \in 0..(Len(w.lines) - 1), NEW i \in 0..Len(w.lines[l + 1]), NEW g
    PROVE  OneMore(AddGlyphToLine(w, l, i, g), w, l, i, g)
<1> DEFINE v == AddGlyphToLine(w, l, i, g)
           line == w.lines[l + 1]
           n == Len(line)
           head == SubSeq(line, 1, i)
           tail == SubSeq(line, i + 1, n)
           one == <<g>>
           top == head \o one
           new == top \o tail
<1>0. i \in 0..n /\ IsText(w.lines) /\ Shape(w, w)
  BY ShapeOfItself DEF Shaped
<1>1. IsSeq(line) /\ n \in Nat /\ i \in Int /\ i \in Nat
  BY <1>0, LineIsSeq
<1>2. IsSeq(one) /\ Len(one) = 1 /\ one[1] = g
  BY SmallSeqs
<1>3. v = AddGlyphsToLine(w, l, i, one)
  BY DEF AddGlyphToLine
<1>4. v.lines = [w.lines EXCEPT ![l + 1] = new]
  <2> HIDE DEF one
  <2>1. Replaced(v, w, l, new)
    BY <1>3, ChangedLines
  <2> QED BY <2>1 DEF Replaced
<1> HIDE DEF v, one
<1>5. Shaped(v) /\ Len(v.lines) = Len(w.lines)
  BY <1>0, <1>1, <1>2, <1>3, AddGlyphsShape DEF Shape
<1>6. IsSeq(head) /\ Len(head) = i /\ \A k \in 1..i : head[k] = line[k + 1 - 1]
  BY <1>0, <1>1, SubSeqIsSeq
<1>7. IsSeq(tail) /\ Len(tail) = n - i /\ \A k \in 1..(n - i) : tail[k] = line[k + (i + 1) - 1]
  BY <1>0, <1>1, SubSeqIsSeq
<1> HIDE DEF head, tail
<1>8. /\ IsSeq(top) /\ Len(top) = i + 1
      /\ \A k \in 1..(i + 1) : top[k] = IF k <= i THEN head[k] ELSE one[k - i]
  <2>1. /\ IsSeq(top) /\ Len(top) = Len(head) + Len(one)
        /\ \A k \in 1..(Len(head) + Len(one)) :
               top[k] = IF k <= Len(head) THEN head[k] ELSE one[k - Len(head)]
    BY <1>2, <1>6, ConcatIsSeq
  <2> QED BY <1>2, <1>6, <2>1
<1> HIDE DEF top
<1>9. /\ IsSeq(new) /\ Len(new) = (i + 1) + (n - i)
      /\ \A k \in 1..((i + 1) + (n - i)) :
             new[k] = IF k <= i + 1 THEN top[k] ELSE tail[k - (i + 1)]
  <2>1. /\ IsSeq(new) /\ Len(new) = Len(top) + Len(tail)
        /\ \A k \in 1..(Len(top) + Len(tail)) :
               new[k] = IF k <= Len(top) THEN top[k] ELSE tail[k - Len(top)]
    BY <1>7, <1>8, ConcatIsSeq
  <2> QED BY <1>7, <1>8, <2>1
<1> HIDE DEF new, n
<1>10. (i + 1) + (n - i) = n + 1
  BY <1>1
<1>11. \A k \in 1..i : new[k] = line[k]
  <2> SUFFICES ASSUME NEW k \in 1..i PROVE new[k] = line[k]
    OBVIOUS
  <2>1. k \in 1..(n + 1) /\ k <= i + 1 /\ k \in 1..(i + 1) /\ k <= i /\ k + 1 - 1 = k
    BY <1>0, <1>1
  <2> QED BY <1>6, <1>8, <1>9, <1>10, <2>1
<1>12. new[i + 1] = g
  <2>1. i + 1 \in 1..(n + 1) /\ i + 1 <= i + 1 /\ i + 1 \in 1..(i + 1) /\ ~(i + 1 <= i) /\ (i + 1) - i = 1
    BY <1>0, <1>1
  <2> QED BY <1>2, <1>8, <1>9, <1>10, <2>1
<1>13. \A k \in (i + 1)..n : new[k + 1] = line[k]
  <2> SUFFICES ASSUME NEW k \in (i + 1)..n PROVE new[k + 1] = line[k]
    OBVIOUS
  <2>1. k + 1 \in 1..(n + 1) /\ ~(k + 1 <= i + 1) /\ (k + 1) - (i + 1) = k - i /\ k - i \in 1..(n - i)
        /\ (k - i) + (i + 1) - 1 = k
    BY <1>0, <1>1
  <2> QED BY <1>7, <1>9, <1>10, <2>1
<1>14. IsSeq(w.lines) /\ l + 1 \in 1..Len(w.lines)
  BY DomainOfShape
<1>15. \A k \in 1..Len(w.lines) : v.lines[k] = IF k = l + 1 THEN new ELSE w.lines[k]
  BY <1>4, <1>14, ExceptIsSeq
<1>16. v.lines[l + 1] = new
  BY <1>14, <1>15
<1> QED BY <1>5, <1>9, <1>10, <1>11, <1>12, <1>13, <1>15, <1>16 DEF OneMore, v, new, top, head, tail, one, n

-----------------------------------------------------------------------------
(* Breaking a line, and inserting a text byte by byte.                     *)
LEMMA BreakLineShape ==
    ASSUME NEW b, NEW w, Shape(w, b), NEW l \in 0..(Len(w.lines) - 1), NEW i \in Int
    PROVE  LET v == BreakLine(w, l, i)
           IN  Shape(v, b) /\ Len(v.lines) = Len(w.lines) + 1
<1> DEFINE n == Len(w.lines)
           rest == SubSeq(w.lines[l + 1], i + 1, Len(w.lines[l + 1]))
           opened == InsertLine(w, l + 1)
           filled == AddGlyphsToLine(opened, l + 1, 0, rest)
           v == BreakLine(w, l, i)
<1>1. IsText(w.lines) /\ Shaped(w)
  BY DEF Shape, Shaped
<1>2. Len(w.lines[l + 1]) \in Nat /\ n \in Nat
  BY <1>1, LineIsSeq, DomainOfShape
<1>3. IsSeq(rest)
  <2>1. i + 1 \in Int /\ Len(w.lines[l + 1]) \in Int
    BY <1>2
  <2> DEFINE line == w.lines[l + 1]
             from == i + 1
             to == Len(line)
  <2>2. from \in Int /\ to \in Int /\ rest = SubSeq(line, from, to)
    BY <2>1
  <2> HIDE DEF rest, line, from, to
  <2> QED BY <2>2, SubSeqIsSeq
<1>4. v = opened \/ v = RemoveRestOfLine(filled, l, i)
  BY DEF BreakLine
<1> HIDE DEF rest, v
<1>5. l + 1 \in 0..n /\ l \in 0..(n + 1 - 1) /\ l + 1 \in 0..(n + 1 - 1) /\ 0 \in Int
  BY <1>2
<1>6. Shape(opened, b) /\ Len(opened.lines) = n + 1
  BY <1>5, InsertLineShape
<1> HIDE DEF opened, n
<1>a. l + 1 \in 0..(Len(opened.lines) - 1)
  BY <1>2, <1>5, <1>6
<1>7. Shape(filled, b) /\ Len(filled.lines) = n + 1
  BY <1>3, <1>5, <1>6, <1>a, AddGlyphsShape
<1> HIDE DEF filled
<1>b. l \in 0..(Len(filled.lines) - 1)
  BY <1>2, <1>5, <1>7
<1>8. Shape(v, b) /\ Len(v.lines) = n + 1
  BY <1>4, <1>6, <1>7, <1>b, RemoveRestShape
<1> QED BY <1>8 DEF v, n

LEMMA BreakLineWork ==
    ASSUME NEW b, NEW w, Work(w, b), NEW l \in 0..(Len(w.lines) - 1),
           NEW i \in Cuts(w.lines[l + 1])
    PROVE  LET v == BreakLine(w, l, i)
           IN  Work(v, b) /\ Len(v.lines) = Len(w.lines) + 1
<1> DEFINE n == Len(w.lines)
           line == w.lines[l + 1]
           v == BreakLine(w, l, i)
           head == SubSeq(line, 1, i)
           tail == SubSeq(line, i + 1, Len(line))
<1>1. Shape(w, b) /\ Sound(w) /\ Shaped(w) /\ i \in 0..Len(line) /\ i \in Int
  <2>1. line \in Line
    BY LineOfWork DEF Work
  <2>2. Cuts(line) \subseteq Nat /\ i \in Cuts(line)
    BY <2>1, EndsAreCuts
  <2>3. i \in 0..Len(line)
    BY DEF Cuts
  <2> QED BY <2>2, <2>3, WorkIsShape DEF Work, Sound
<1>2. Shape(v, b) /\ Len(v.lines) = n + 1
  BY <1>1, BreakLineShape
<1>3. /\ \A k \in 1..l : v.lines[k] = w.lines[k]
      /\ v.lines[l + 1] = head
      /\ v.lines[l + 2] = tail
      /\ \A k \in (l + 3)..(n + 1) : v.lines[k] = w.lines[k - 1]
  BY <1>1, BrokenLine
<1>4. line \in Line
  BY <1>1, LineOfWork
<1>5. head \in Line /\ tail \in Line
  BY <1>1, <1>4, LineParts
<1>6. n \in Nat /\ \A k \in 1..n : w.lines[k] \in Line
  BY <1>1 DEF Sound
<1> HIDE DEF v, head, tail, line, n
<1>7. ASSUME NEW k \in 1..(n + 1) PROVE v.lines[k] \in Line
  <2>1. k \in 1..l \/ k = l + 1 \/ k = l + 2 \/ k \in (l + 3)..(n + 1)
    BY <1>6 DEF n
  <2>2. CASE k \in 1..l
    <3>1. k \in 1..n
      BY <1>6, <2>2 DEF n
    <3> QED BY <1>3, <1>6, <2>2, <3>1
  <2>3. CASE k \in (l + 3)..(n + 1)
    <3>1. k - 1 \in 1..n
      BY <1>6, <2>3 DEF n
    <3> QED BY <1>3, <1>6, <2>3, <3>1
  <2> QED BY <1>3, <1>5, <2>1, <2>2, <2>3
<1>8. v.lines \in Seq(Line)
  <2>1. IsSeq(v.lines)
    BY <1>2, DomainOfShape DEF Shape
  <2> QED BY <1>2, <1>7, <2>1, InSeq
<1> QED BY <1>2, <1>8, WorkIsShape DEF v, n

Inserting(a, b, n) ==
    /\ Shape(a.w, b)
    /\ Len(a.w.lines) >= n
    /\ a.line \in 0..(Len(a.w.lines) - 1)
    /\ a.index \in Nat

LEMMA InsertByteShape ==
    ASSUME NEW b, NEW n \in Nat, NEW a, Inserting(a, b, n), NEW g
    PROVE  Inserting(InsertByte(a, g), b, n)
<1>1. Len(a.w.lines) >= n /\ Shape(a.w, b) /\ a.line \in 0..(Len(a.w.lines) - 1) /\ a.index \in Nat
  BY DEF Inserting
<1>2. Len(a.w.lines) \in Nat
  BY <1>1, DomainOfShape DEF Shape
<1>3. CASE g = NewLine
  <2> DEFINE v == BreakLine(a.w, a.line, a.index)
  <2>1. a.index \in Int
    BY <1>1
  <2>2. Shape(v, b) /\ Len(v.lines) = Len(a.w.lines) + 1
    BY <1>1, <2>1, BreakLineShape
  <2>3. InsertByte(a, g) = [w |-> v, line |-> a.line + 1, index |-> 0]
    BY <1>3 DEF InsertByte
  <2> HIDE DEF v
  <2>4. Len(v.lines) >= n /\ a.line + 1 \in 0..(Len(v.lines) - 1)
    BY <1>1, <1>2, <2>2
  <2> QED BY <2>2, <2>3, <2>4 DEF Inserting
<1>4. CASE g # NewLine
  <2> DEFINE v == AddGlyphToLine(a.w, a.line, a.index, g)
  <2>1. a.index \in Int /\ a.index + 1 \in Nat
    BY <1>1
  <2>0. PICK glyphs : glyphs = <<g>> /\ IsSeq(glyphs)
    BY SmallSeqs
  <2>3. InsertByte(a, g) = [w |-> v, line |-> a.line, index |-> a.index + 1]
    BY <1>4 DEF InsertByte
  <2>a. v = AddGlyphsToLine(a.w, a.line, a.index, glyphs)
    BY <2>0 DEF AddGlyphToLine
  <2> HIDE DEF v
  <2>2. Shape(v, b) /\ Len(v.lines) = Len(a.w.lines)
    BY <1>1, <2>0, <2>1, <2>a, AddGlyphsShape
  <2>4. Len(v.lines) >= n /\ a.line \in 0..(Len(v.lines) - 1)
    BY <1>1, <2>2
  <2> QED BY <2>1, <2>2, <2>3, <2>4 DEF Inserting
<1> QED BY <1>3, <1>4

AfterBytes(a, text) == Sweep(a, InsertByte, text)

LEMMA InsertRun ==
    ASSUME NEW a, NEW text, IsSeq(text)
    PROVE  \E f : /\ f[0] = a
                  /\ \A k \in 1..Len(text) : f[k] = InsertByte(f[k - 1], text[k])
                  /\ AfterBytes(a, text) = f[Len(text)]
<1> DEFINE N == Len(text)
           Run(n, f) ==
               /\ f[0] = a
               /\ \A k \in 1..n : f[k] = InsertByte(f[k - 1], text[k])
           S == {n \in Nat : \E f : Run(n, f)}
<1>0. N \in Nat
  BY DEF IsSeq
<1>1. 0 \in S
  <2>1. Run(0, [k \in 0..0 |-> a])
    OBVIOUS
  <2> QED BY <2>1
<1>2. ASSUME NEW n \in Nat, n \in S PROVE n + 1 \in S
  <2>1. PICK f : Run(n, f)
    BY <1>2
  <2>2. ASSUME NEW g, \A k \in 0..n : g[k] = f[k], g[n + 1] = InsertByte(f[n], text[n + 1])
        PROVE  Run(n + 1, g)
    <3> SUFFICES ASSUME NEW k \in 1..(n + 1) PROVE g[k] = InsertByte(g[k - 1], text[k])
      BY <2>1, <2>2
    <3>1. CASE k \in 1..n
      BY <2>1, <2>2, <3>1
    <3>2. CASE k = n + 1
      BY <2>2, <3>2
    <3> QED BY <3>1, <3>2
  <2>3. \E g : Run(n + 1, g)
    <3>1. PICK x : x = InsertByte(f[n], text[n + 1])
      OBVIOUS
    <3> DEFINE g == [k \in 0..(n + 1) |-> IF k <= n THEN f[k] ELSE x]
    <3>2. (\A k \in 0..n : g[k] = f[k]) /\ g[n + 1] = x
      OBVIOUS
    <3> HIDE DEF g
    <3> QED BY <2>2, <3>1, <3>2
  <2> QED BY <2>3
<1>3. N \in S
  <2> HIDE DEF S
  <2> QED BY <1>0, <1>1, <1>2, SetInduction
<1> DEFINE Next(f) == [k \in 0..N |-> IF k = 0 THEN a ELSE InsertByte(f[k - 1], text[k])]
           after == CHOOSE f : f = Next(f)
<1>4. AfterBytes(a, text) = after[N]
  BY DEF Sweep, AfterBytes
<1>5. \E f : f = Next(f)
  <2>1. PICK f : Run(N, f)
    BY <1>3
  <2> DEFINE g == [k \in 0..N |-> f[k]]
  <2>2. g = Next(g)
    BY <1>0, <2>1
  <2> QED BY <2>2
<1>6. after = Next(after)
  BY <1>5
<1> HIDE DEF after
<1>7. Run(N, after)
  BY <1>0, <1>6
<1> QED BY <1>4, <1>7

(* While a text is put in, byte by byte, the line it goes to holds whole   *)
(* characters but for the one that the byte g, put in last, may begin.     *)
WholeBut(s, i) ==
    \A k \in 1..Len(s) : k # i /\ s[k] = LeadByte => k + 1 \in 1..Len(s) /\ s[k + 1] = NextByte

Putting(a, b, n, g) ==
    /\ Inserting(a, b, n)
    /\ \A m \in 1..Len(a.w.lines) : m # a.line + 1 => a.w.lines[m] \in Line
    /\ a.w.lines[a.line + 1] \in Seq(Glyph)
    /\ a.index \in 0..Len(a.w.lines[a.line + 1])
    /\ WholeBut(a.w.lines[a.line + 1], a.index)
    /\ a.index > 0 /\ a.w.lines[a.line + 1][a.index] = LeadByte => g = LeadByte

LEMMA WholeAgain ==
    ASSUME NEW s \in Seq(Glyph), NEW i \in 0..Len(s), WholeBut(s, i), i > 0 => s[i] # LeadByte
    PROVE  s \in Line /\ i \in Cuts(s)
<1>1. Len(s) \in Nat /\ DOMAIN s = 1..Len(s)
  OBVIOUS
<1>2. ASSUME NEW k \in 1..Len(s), s[k] = LeadByte
      PROVE  k + 1 \in 1..Len(s) /\ s[k + 1] = NextByte
  <2>1. k # i
    BY <1>1, <1>2
  <2> QED BY <1>2, <2>1 DEF WholeBut
<1>3. Whole(s)
  BY <1>1, <1>2 DEF Whole
<1> QED BY <1>1, <1>3 DEF Line, Cuts

LEMMA WholeStarts ==
    ASSUME NEW s \in Line, NEW i \in Nat
    PROVE  WholeBut(s, i)
<1>1. Whole(s) /\ DOMAIN s = 1..Len(s)
  BY LineParts DEF IsSeq
<1> QED BY <1>1 DEF Whole, WholeBut

LEMMA OneMoreByte ==
    ASSUME NEW s \in Seq(Glyph), NEW i \in 0..Len(s), WholeBut(s, i), NEW h \in Glyph,
           i > 0 /\ s[i] = LeadByte => h = NextByte,
           NEW t, IsSeq(t), Len(t) = Len(s) + 1, \A k \in 1..i : t[k] = s[k], t[i + 1] = h,
           \A k \in (i + 1)..Len(s) : t[k + 1] = s[k]
    PROVE  t \in Seq(Glyph) /\ WholeBut(t, i + 1)
<1> DEFINE n == Len(s)
<1>1. n \in Nat /\ i \in Nat /\ i <= n /\ \A k \in 1..n : s[k] \in Glyph
  OBVIOUS
<1>2. \A k \in (i + 2)..(n + 1) : t[k] = s[k - 1] /\ k - 1 \in 1..n /\ k - 1 # i
  <2> SUFFICES ASSUME NEW k \in (i + 2)..(n + 1)
               PROVE  t[k] = s[k - 1] /\ k - 1 \in 1..n /\ k - 1 # i
    OBVIOUS
  <2>1. k - 1 \in (i + 1)..n /\ (k - 1) + 1 = k /\ k - 1 \in 1..n /\ k - 1 # i
    BY <1>1
  <2> QED BY <2>1
<1> HIDE DEF n
<1>3. ASSUME NEW k \in 1..(n + 1) PROVE k \in 1..i \/ k = i + 1 \/ k \in (i + 2)..(n + 1)
  BY <1>1
<1>4. ASSUME NEW k \in 1..(n + 1) PROVE t[k] \in Glyph
  <2>1. CASE k \in 1..i
    <3>1. k \in 1..n
      BY <1>1, <2>1
    <3> QED BY <1>1, <2>1, <3>1
  <2>2. CASE k \in (i + 2)..(n + 1)
    BY <1>1, <1>2, <2>2
  <2> QED BY <1>3, <2>1, <2>2
<1>5. ASSUME NEW k \in 1..(n + 1), k # i + 1, t[k] = LeadByte
      PROVE  k + 1 \in 1..(n + 1) /\ t[k + 1] = NextByte
  <2>1. CASE k \in 1..i /\ k # i
    <3>1. k \in 1..n /\ k + 1 \in 1..i /\ k + 1 \in 1..(n + 1)
      BY <1>1, <2>1
    <3>2. s[k] = LeadByte
      BY <1>5, <2>1
    <3>3. s[k + 1] = NextByte
      BY <2>1, <3>1, <3>2 DEF WholeBut, n
    <3> QED BY <3>1, <3>3
  <2>2. CASE k = i /\ i > 0
    <3>1. k + 1 \in 1..(n + 1) /\ k \in 1..i
      BY <1>1, <2>2
    <3>2. s[i] = LeadByte
      BY <1>5, <2>2, <3>1
    <3> QED BY <2>2, <3>1, <3>2
  <2>3. CASE k \in (i + 2)..(n + 1)
    <3>1. s[k - 1] = LeadByte /\ k - 1 \in 1..n /\ k - 1 # i
      BY <1>2, <1>5, <2>3
    <3>2. (k - 1) + 1 \in 1..n /\ s[(k - 1) + 1] = NextByte
      BY <3>1 DEF WholeBut, n
    <3>3. k + 1 \in (i + 2)..(n + 1) /\ (k + 1) - 1 = (k - 1) + 1 /\ k + 1 \in 1..(n + 1)
      BY <1>1, <2>3, <3>2
    <3> QED BY <1>2, <3>2, <3>3
  <2>4. k \in 1..i => (k # i \/ (k = i /\ i > 0))
    BY <1>1
  <2> QED BY <1>3, <1>5, <2>1, <2>2, <2>3, <2>4
<1>6. t \in Seq(Glyph)
  BY <1>4, InSeq DEF n
<1>7. WholeBut(t, i + 1)
  BY <1>5 DEF WholeBut, n
<1> QED BY <1>6, <1>7

LEMMA PuttingIsWork ==
    ASSUME NEW b, NEW n \in Nat, NEW a, NEW g, Putting(a, b, n, g), g # LeadByte
    PROVE  Work(a.w, b) /\ a.index \in Cuts(a.w.lines[a.line + 1])
<1>1. Shape(a.w, b) /\ a.line \in 0..(Len(a.w.lines) - 1)
  BY DEF Putting, Inserting
<1>2. IsSeq(a.w.lines) /\ Len(a.w.lines) \in Nat
  BY <1>1, DomainOfShape DEF Shape
<1>3. a.w.lines[a.line + 1] \in Line /\ a.index \in Cuts(a.w.lines[a.line + 1])
  BY WholeAgain DEF Putting
<1>4. \A m \in 1..Len(a.w.lines) : a.w.lines[m] \in Line
  BY <1>3 DEF Putting
<1>5. a.w.lines \in Seq(Line)
  BY <1>2, <1>4, InSeq
<1> QED BY <1>1, <1>3, <1>5, WorkIsShape

LEMMA PuttingByte ==
    ASSUME NEW b, NEW n \in Nat, NEW a, NEW g, Putting(a, b, n, g),
           NEW h \in Glyph \cup {NewLine}, g = LeadByte => h = NextByte
    PROVE  Putting(InsertByte(a, h), b, n, h)
<1> DEFINE c == InsertByte(a, h)
           l == a.line
           i == a.index
<1>1. Inserting(c, b, n)
  BY InsertByteShape DEF Putting
<1>2. Shaped(a.w) /\ l \in 0..(Len(a.w.lines) - 1) /\ Len(a.w.lines) \in Nat /\ i \in Nat
  <2>1. Shape(a.w, b) /\ l \in 0..(Len(a.w.lines) - 1) /\ i \in Nat
    BY DEF Putting, Inserting
  <2> HIDE DEF l, i
  <2> QED BY <2>1, DomainOfShape DEF Shape
<1>3. CASE h = NewLine
  <2> DEFINE v == BreakLine(a.w, l, i)
  <2>1. c.w = v /\ c.line = l + 1 /\ c.index = 0
    BY <1>3 DEF InsertByte
  <2>2. Work(a.w, b) /\ i \in Cuts(a.w.lines[l + 1])
    BY <1>3, PuttingIsWork DEF NewLine, NextByte
  <2> HIDE DEF c, l, i
  <2>3. Work(v, b) /\ Len(v.lines) = Len(a.w.lines) + 1
    BY <1>2, <2>2, BreakLineWork
  <2> HIDE DEF v
  <2>4. v.lines \in Seq(Line) /\ (l + 1) + 1 \in 1..Len(v.lines) /\ Len(v.lines) \in Nat
    BY <1>2, <2>3, WorkIsShape
  <2>5. \A m \in 1..Len(v.lines) : v.lines[m] \in Line
    BY <2>4
  <2>6. v.lines[(l + 1) + 1] \in Line
    BY <2>4, <2>5
  <2>7. /\ v.lines[(l + 1) + 1] \in Seq(Glyph) /\ WholeBut(v.lines[(l + 1) + 1], 0)
        /\ 0 \in 0..Len(v.lines[(l + 1) + 1])
    BY <2>6, WholeStarts, LineParts DEF Line
  <2> QED BY <1>1, <2>1, <2>5, <2>7 DEF Putting, c
<1>4. CASE h # NewLine
  <2> DEFINE v == AddGlyphToLine(a.w, l, i, h)
             s == a.w.lines[l + 1]
             t == v.lines[l + 1]
  <2>1. c.w = v /\ c.line = l /\ c.index = i + 1
    BY <1>4 DEF InsertByte
  <2>2. /\ s \in Seq(Glyph) /\ i \in 0..Len(s) /\ WholeBut(s, i)
        /\ i > 0 /\ s[i] = LeadByte => g = LeadByte
        /\ \A m \in 1..Len(a.w.lines) : m # l + 1 => a.w.lines[m] \in Line
    BY DEF Putting
  <2> HIDE DEF c
  <2>3. OneMore(v, a.w, l, i, h)
    <3> HIDE DEF l, i
    <3> QED BY <1>2, <2>2, GlyphAdded DEF s
  <2> HIDE DEF v
  <2>4. /\ Len(v.lines) = Len(a.w.lines)
        /\ \A k \in 1..Len(a.w.lines) : k # l + 1 => v.lines[k] = a.w.lines[k]
        /\ IsSeq(t) /\ Len(t) = Len(s) + 1
        /\ \A k \in 1..i : t[k] = s[k]
        /\ t[i + 1] = h
        /\ \A k \in (i + 1)..Len(s) : t[k + 1] = s[k]
    BY <2>3 DEF OneMore
  <2> HIDE DEF s, t, l, i
  <2>5. h \in Glyph /\ (i > 0 /\ s[i] = LeadByte => h = NextByte)
    BY <1>4, <2>2
  <2>6. t \in Seq(Glyph) /\ WholeBut(t, i + 1)
    BY <2>2, <2>4, <2>5, OneMoreByte
  <2>7. i + 1 \in 0..Len(t)
    BY <1>2, <2>2, <2>4
  <2>8. \A m \in 1..Len(v.lines) : m # l + 1 => v.lines[m] \in Line
    BY <2>2, <2>4
  <2> QED BY <1>1, <2>1, <2>4, <2>6, <2>7, <2>8 DEF Putting, c, t
<1> QED BY <1>3, <1>4

LEMMA PassageBytes ==
    ASSUME NEW text \in Passage
    PROVE  /\ IsSeq(text) /\ Len(text) \in Nat
           /\ \A k \in 1..Len(text) : text[k] \in Glyph \cup {NewLine}
           /\ \A k \in 1..Len(text) : text[k] = LeadByte =>
                  k + 1 \in 1..Len(text) /\ text[k + 1] = NextByte
           /\ text # <<>> => Len(text) > 0 /\ text[Len(text)] # LeadByte
<1>1. text \in Seq(Glyph \cup {NewLine}) /\ Whole(text) /\ IsSeq(text)
  BY InSeq DEF Passage
<1>2. Len(text) \in Nat /\ DOMAIN text = 1..Len(text)
  BY <1>1
<1>3. \A k \in 1..Len(text) : text[k] \in Glyph \cup {NewLine}
  BY <1>1, InSeq
<1>4. \A k \in 1..Len(text) : text[k] = LeadByte => k + 1 \in 1..Len(text) /\ text[k + 1] = NextByte
  BY <1>1, <1>2 DEF Whole
<1>5. ASSUME text # <<>> PROVE Len(text) > 0 /\ text[Len(text)] # LeadByte
  <2> DEFINE n == Len(text)
  <2>1. n \in Nat /\ n # 0
    BY <1>1, <1>2, <1>5, EmptySeq
  <2>2. n > 0 /\ n \in 1..n /\ ~(n + 1 \in 1..n)
    BY <2>1
  <2> HIDE DEF n
  <2>3. text[n] # LeadByte
    BY <1>4, <2>2 DEF n
  <2> QED BY <2>2, <2>3 DEF n
<1> QED BY <1>1, <1>2, <1>3, <1>4, <1>5

LEMMA InsertBytesWork ==
    ASSUME NEW b, NEW m \in Nat, NEW a, Putting(a, b, m, NewLine), NEW text \in Passage, text # <<>>
    PROVE  LET all == Sweep(a, InsertByte, text)
           IN  Work(all.w, b) /\ Len(all.w.lines) >= m /\ all.line \in 0..(Len(all.w.lines) - 1)
               /\ all.index \in Nat
<1> DEFINE N == Len(text)
<1>0. /\ IsSeq(text) /\ N \in Nat /\ N > 0 /\ text[N] # LeadByte
      /\ \A k \in 1..N : text[k] \in Glyph \cup {NewLine}
      /\ \A k \in 1..N : text[k] = LeadByte => k + 1 \in 1..N /\ text[k + 1] = NextByte
  BY PassageBytes
<1>a. IsSeq(text)
  BY <1>0
<1>b. N \in Nat /\ N > 0
  BY <1>0
<1>1. PICK f : /\ f[0] = a
               /\ \A k \in 1..N : f[k] = InsertByte(f[k - 1], text[k])
               /\ AfterBytes(a, text) = f[N]
  BY <1>a, InsertRun
<1> HIDE DEF N
<1> DEFINE last(k) == IF k = 0 THEN NewLine ELSE text[k]
           S == {k \in Nat : k <= N => Putting(f[k], b, m, last(k))}
<1>2. 0 \in S
  BY <1>1
<1>3. ASSUME NEW k \in Nat, k \in S PROVE k + 1 \in S
  <2> SUFFICES ASSUME k + 1 <= N PROVE Putting(f[k + 1], b, m, last(k + 1))
    <3> HIDE DEF last
    <3> QED OBVIOUS
  <2>1. k + 1 \in 1..N /\ (k + 1) - 1 = k /\ k <= N /\ k + 1 # 0
    BY <1>b
  <2>2. f[k + 1] = InsertByte(f[k], text[k + 1]) /\ Putting(f[k], b, m, last(k))
    BY <1>1, <1>3, <2>1
  <2>3. last(k) = LeadByte => text[k + 1] = NextByte
    <3>1. CASE k = 0
      BY <3>1 DEF LeadByte, NewLine
    <3>2. CASE k # 0
      <4>1. k \in 1..N
        BY <1>b, <2>1, <3>2
      <4> QED BY <1>0, <3>2, <4>1
    <3> QED BY <3>1, <3>2
  <2>4. last(k + 1) = text[k + 1] /\ text[k + 1] \in Glyph \cup {NewLine}
    BY <1>0, <2>1
  <2> HIDE DEF last
  <2> QED BY <2>2, <2>3, <2>4, PuttingByte
<1>4. Nat \subseteq S
  <2> HIDE DEF S
  <2> QED BY <1>2, <1>3, SetInduction
<1>5. Putting(f[N], b, m, text[N])
  <2>1. last(N) = text[N]
    BY <1>b
  <2> HIDE DEF last
  <2>2. N \in S
    <3> HIDE DEF S
    <3> QED BY <1>b, <1>4
  <2>3. N <= N
    BY <1>b
  <2> QED BY <2>1, <2>2, <2>3
<1>6. Work(f[N].w, b)
  BY <1>0, <1>5, PuttingIsWork
<1>7. Len(f[N].w.lines) >= m /\ f[N].line \in 0..(Len(f[N].w.lines) - 1) /\ f[N].index \in Nat
  BY <1>5 DEF Putting, Inserting
<1>8. Sweep(a, InsertByte, text) = f[N]
  BY <1>1 DEF AfterBytes
<1> QED BY <1>6, <1>7, <1>8

LEMMA InsertTextAtWork ==
    ASSUME NEW b, NEW w, Work(w, b), NEW p \in Places(w.lines), NEW text \in Passage
    PROVE  LET inserted == InsertTextAt(w, p, text)
           IN  /\ Work(inserted.w, b) /\ inserted.end \in Places(inserted.w.lines)
               /\ Len(inserted.w.lines) >= Len(w.lines)
<1> DEFINE n == Len(w.lines)
           a == [w |-> w, line |-> p.line, index |-> GetCharacterIndexR(w.lines, p)]
           all == Sweep(a, InsertByte, text)
           inserted == InsertTextAt(w, p, text)
<1>1. CASE text = <<>>
  <2>1. inserted = [w |-> w, end |-> p]
    BY <1>1 DEF InsertTextAt
  <2> QED BY <2>1, DomainOfWork DEF Work
<1>2. CASE text # <<>>
  <2>0. n \in Nat /\ IsText(w.lines) /\ w.lines \in Seq(Line) /\ p.line \in 0..(n - 1)
    BY DomainOfWork DEF Work, Sound, Shaped, Places
  <2>1. Putting(a, b, n, NewLine)
    <3> DEFINE i == GetCharacterIndexR(w.lines, p)
               s == w.lines[p.line + 1]
    <3>1. s \in Line /\ \A m \in 1..n : w.lines[m] \in Line
      BY <2>0, LineOfWork DEF Work
    <3>2. i \in Cuts(s)
      BY <2>0, IndexIsCut
    <3>3. i \in 0..Len(s) /\ i \in Nat /\ (i > 0 => s[i] # LeadByte)
      BY <3>1, <3>2, EndsAreCuts DEF Cuts
    <3>4. s \in Seq(Glyph) /\ WholeBut(s, i)
      BY <3>1, <3>3, WholeStarts DEF Line
    <3>5. a.w = w /\ a.line = p.line /\ a.index = i
      OBVIOUS
    <3> HIDE DEF a, i
    <3>6. Inserting(a, b, n)
      BY <2>0, <3>3, <3>5, WorkIsShape DEF Inserting
    <3> QED BY <3>1, <3>3, <3>4, <3>5, <3>6 DEF Putting
  <2> HIDE DEF n
  <2> HIDE DEF a
  <2>2. /\ Work(all.w, b) /\ Len(all.w.lines) >= n
        /\ all.line \in 0..(Len(all.w.lines) - 1) /\ all.index \in Nat
    BY <1>2, <2>0, <2>1, InsertBytesWork
  <2>3. inserted = [w |-> all.w, end |-> At(all.line, GetCharacterColumn(all.w.lines, all.line, all.index))]
    BY <1>2 DEF InsertTextAt, Inserted, a
  <2> HIDE DEF all
  <2>4. IsText(all.w.lines) /\ all.index \in Int
    BY <2>2 DEF Work, Sound, Shaped
  <2>5. At(all.line, GetCharacterColumn(all.w.lines, all.line, all.index)) \in Places(all.w.lines)
    BY <2>2, <2>4, ColumnIsPlace
  <2> QED BY <2>2, <2>3, <2>5 DEF n
<1> QED BY <1>1, <1>2

LEMMA ActualCursorIsPlace ==
    ASSUME NEW w, Sound(w), NEW c \in 1..Len(w.cursors)
    PROVE  GetActualCursorCoordinates(w, c) \in Places(w.lines)
<1>1. w.cursors[c].e \in Places(w.lines) /\ IsText(w.lines)
  BY CursorOfWork DEF Sound, Shaped
<1>2. w.cursors[c].e \in [line : Nat, column : Nat]
  BY <1>1 DEF Places, IsText, IsSeq
<1> QED BY <1>1, <1>2, SanitizedIsPlace DEF GetActualCursorCoordinates

LEMMA InsertTextAtCursorWork ==
    ASSUME NEW b, NEW w, Work(w, b), NEW c \in 1..Len(w.cursors), NEW text \in Passage
    PROVE  Work(InsertTextAtCursor(w, text, c), b)
<1> DEFINE p == GetActualCursorCoordinates(w, c)
           inserted == InsertTextAt(w, p, text)
           behind == SetBehind(inserted, c)
<1>1. p \in Places(w.lines)
  BY ActualCursorIsPlace DEF Work
<1>2. Work(inserted.w, b) /\ inserted.end \in Places(inserted.w.lines)
  BY <1>1, InsertTextAtWork
<1>3. InsertTextAtCursor(w, text, c) =
          ColorizeInserted(behind, Min({p.line, SelectionStart(w.cursors[c]).line}), inserted.end)
  BY DEF InsertTextAtCursor
<1> HIDE DEF inserted
<1>4. Work(behind, b)
  BY <1>2, WorkIsLoose, SetCursorPositionWork DEF SetBehind
<1> HIDE DEF behind
<1>5. p.line \in Int /\ inserted.end.line \in Int
  BY <1>1, <1>2 DEF Places
<1>6. SelectionStart(w.cursors[c]).line \in Int
  BY SelectionGoesDown DEF Work
<1> DEFINE first == Min({p.line, SelectionStart(w.cursors[c]).line})
           last == inserted.end.line
<1>7. first \in Int
  BY <1>5, <1>6, MinOfTwo
<1>8. ColorizeInserted(behind, first, inserted.end) = Colorize(behind, first - 1, last - first + 2)
  BY DEF ColorizeInserted
<1>9. last \in Int
  BY <1>5
<1> HIDE DEF first, last, p
<1>10. first - 1 \in Int /\ last - first + 2 \in Int
  BY <1>7, <1>9
<1>11. Work(Colorize(behind, first - 1, last - first + 2), b)
  BY <1>4, <1>10, ColorizeWork
<1>12. InsertTextAtCursor(w, text, c) = ColorizeInserted(behind, first, inserted.end)
  BY <1>3 DEF first, p
<1> QED BY <1>8, <1>11, <1>12

-----------------------------------------------------------------------------
(* The movements: every cursor is set to a place of its own.               *)
Setting(w, places, clear) ==
    [w EXCEPT !.changed = TRUE,
              !.cursors = [c \in DOMAIN w.cursors |->
                  [s |-> IF clear THEN places[c] ELSE w.cursors[c].s, e |-> places[c]]]]

LEMMA SettingWork ==
    ASSUME NEW b, NEW w, Work(w, b), NEW clear \in BOOLEAN, NEW g,
           \A c \in 1..Len(w.cursors) : g[c] \in Places(w.lines)
    PROVE  /\ Work(Setting(w, g, clear), b) /\ Setting(w, g, clear).lines = w.lines
           /\ Setting(w, g, clear).changed
           /\ clear => AllCarets(Setting(w, g, clear))
<1> DEFINE k == [c \in DOMAIN w.cursors |->
                     [s |-> IF clear THEN g[c] ELSE w.cursors[c].s, e |-> g[c]]]
           v == Setting(w, g, clear)
<1>1. /\ WorkFields \subseteq DOMAIN w /\ IsText(w.lines)
      /\ IsSeq(w.cursors) /\ Len(w.cursors) >= 1 /\ DOMAIN w.cursors = 1..Len(w.cursors)
      /\ \A c \in 1..Len(w.cursors) : w.cursors[c].s \in Places(w.lines)
  BY CursorOfWork, DomainOfWork DEF Work, Sound, Shaped
<1>2. \A c \in 1..Len(w.cursors) : k[c] \in [s : Places(w.lines), e : Places(w.lines)]
  BY <1>1
<1>3. k = [c \in DOMAIN w.cursors |-> k[c]]
  OBVIOUS
<1>a. clear => \A c \in 1..Len(w.cursors) : k[c].s = k[c].e
  BY <1>1
<1>4. v.lines = w.lines /\ v.cursors = k /\ Beside(v, w) /\ v.changed
  BY <1>1 DEF Setting, Beside, WorkFields
<1>f. Flagged(w) => Flagged(v)
  BY <1>1 DEF Setting, Flagged, WorkFields
<1>s. w.lines \in Seq(Line)
  BY WorkIsShape
<1> HIDE DEF k, v
<1>5. AreCursors(k, w.lines) /\ Len(k) = Len(w.cursors)
  BY <1>1, <1>2, <1>3, MappedCursors
<1>6. Work(v, b)
  BY <1>1, <1>4, <1>5, <1>f, <1>s, ChangedWork DEF Steady
<1>7. clear => AllCarets(v)
  BY <1>4, <1>5, <1>a DEF AllCarets
<1> QED BY <1>4, <1>6, <1>7 DEF v

(* The movement commands keep every cursor in the text, with and without a *)
(* selection, by character or by word, up and down by any number of lines. *)
THEOREM MovementsStayInText ==
    ASSUME NEW b, NEW w, Work(w, b), NEW n \in Nat, NEW select \in BOOLEAN, NEW word \in BOOLEAN
    PROVE  /\ Work(MoveUp(w, n, select), b) /\ MoveUp(w, n, select).lines = w.lines
           /\ MoveUp(w, n, select).changed
           /\ Work(MoveDown(w, n, select), b) /\ MoveDown(w, n, select).lines = w.lines
           /\ MoveDown(w, n, select).changed
           /\ Work(MoveLeft(w, select, word), b) /\ MoveLeft(w, select, word).lines = w.lines
           /\ MoveLeft(w, select, word).changed
           /\ Work(MoveRight(w, select, word), b) /\ MoveRight(w, select, word).lines = w.lines
           /\ MoveRight(w, select, word).changed
           /\ Work(MoveHome(w, select), b) /\ MoveHome(w, select).lines = w.lines
           /\ MoveHome(w, select).changed
           /\ Work(MoveEnd(w, select), b) /\ MoveEnd(w, select).lines = w.lines
           /\ MoveEnd(w, select).changed
<1>1. /\ IsText(w.lines) /\ DOMAIN w.cursors = 1..Len(w.cursors)
      /\ \A c \in 1..Len(w.cursors) :
             /\ w.cursors[c].e \in Places(w.lines)
             /\ SelectionStart(w.cursors[c]) \in Places(w.lines)
             /\ SelectionEnd(w.cursors[c]) \in Places(w.lines)
  BY CursorOfWork, DomainOfWork DEF Work, Sound, Shaped
<1>2. PICK clear \in BOOLEAN : clear <=> ~select
  BY (~select) \in BOOLEAN
<1>0. PICK always \in BOOLEAN : always
  OBVIOUS
<1>3. \A c \in 1..Len(w.cursors) : w.cursors[c].e.line \in 0..(Len(w.lines) - 1)
  BY <1>1 DEF Places
<1>4. Work(MoveUp(w, n, select), b) /\ MoveUp(w, n, select).lines = w.lines
      /\ MoveUp(w, n, select).changed
  <2> DEFINE g == [c \in DOMAIN w.cursors |-> MoveCoordsUp(w.cursors[c].e, n)]
  <2>1. \A c \in 1..Len(w.cursors) : g[c] \in Places(w.lines)
    BY <1>1, MoveCoordsPlaces
  <2>2. MoveUp(w, n, select) = Setting(w, g, clear)
    BY <1>0, <1>2 DEF MoveUp, SetEachCursor, Setting
  <2> HIDE DEF g
  <2> QED BY <2>1, <2>2, SettingWork
<1>5. Work(MoveDown(w, n, select), b) /\ MoveDown(w, n, select).lines = w.lines
      /\ MoveDown(w, n, select).changed
  <2> DEFINE g == [c \in DOMAIN w.cursors |-> MoveCoordsDown(w.lines, w.cursors[c].e, n)]
  <2>1. \A c \in 1..Len(w.cursors) : g[c] \in Places(w.lines)
    BY <1>1, MoveCoordsPlaces
  <2>2. MoveDown(w, n, select) = Setting(w, g, clear)
    BY <1>0, <1>2 DEF MoveDown, SetEachCursor, Setting
  <2> HIDE DEF g
  <2> QED BY <2>1, <2>2, SettingWork
<1>6. Work(MoveLeft(w, select, word), b) /\ MoveLeft(w, select, word).lines = w.lines
      /\ MoveLeft(w, select, word).changed
  <2> DEFINE g == [c \in DOMAIN w.cursors |-> MoveCoordsLeft(w.lines, w.cursors[c].e, word)]
             h == [c \in DOMAIN w.cursors |-> SelectionStart(w.cursors[c])]
             v == MoveLeft(w, select, word)
  <2>1. \A c \in 1..Len(w.cursors) : g[c] \in Places(w.lines)
    BY <1>1, MoveCoordsPlaces
  <2>2. \A c \in 1..Len(w.cursors) : h[c] \in Places(w.lines)
    BY <1>1
  <2>3. \/ v = Setting(w, g, clear)
        \/ v = Setting(w, h, always)
    BY <1>0, <1>2 DEF MoveLeft, SetEachCursor, Setting
  <2> HIDE DEF g, h, v
  <2>4. Work(v, b) /\ v.lines = w.lines /\ v.changed
    BY <2>1, <2>2, <2>3, SettingWork
  <2> QED BY <2>4 DEF v
<1>7. Work(MoveRight(w, select, word), b) /\ MoveRight(w, select, word).lines = w.lines
      /\ MoveRight(w, select, word).changed
  <2> DEFINE g == [c \in DOMAIN w.cursors |-> MoveCoordsRight(w.lines, w.cursors[c].e, word)]
             h == [c \in DOMAIN w.cursors |-> SelectionEnd(w.cursors[c])]
             v == MoveRight(w, select, word)
  <2>1. \A c \in 1..Len(w.cursors) : g[c] \in Places(w.lines)
    BY <1>1, MoveCoordsPlaces
  <2>2. \A c \in 1..Len(w.cursors) : h[c] \in Places(w.lines)
    BY <1>1
  <2>3. \/ v = Setting(w, g, clear)
        \/ v = Setting(w, h, always)
    BY <1>0, <1>2 DEF MoveRight, SetEachCursor, Setting
  <2> HIDE DEF g, h, v
  <2>4. Work(v, b) /\ v.lines = w.lines /\ v.changed
    BY <2>1, <2>2, <2>3, SettingWork
  <2> QED BY <2>4 DEF v
<1>8. Work(MoveHome(w, select), b) /\ MoveHome(w, select).lines = w.lines
      /\ MoveHome(w, select).changed
  <2> DEFINE g == [c \in DOMAIN w.cursors |-> At(w.cursors[c].e.line, 0)]
  <2>1. \A c \in 1..Len(w.cursors) : g[c] \in Places(w.lines)
    BY <1>1, <1>3, ColumnIsPlace
  <2>2. MoveHome(w, select) = Setting(w, g, clear)
    BY <1>0, <1>2 DEF MoveHome, SetEachCursor, Setting
  <2> HIDE DEF g
  <2> QED BY <2>1, <2>2, SettingWork
<1>9. Work(MoveEnd(w, select), b) /\ MoveEnd(w, select).lines = w.lines
      /\ MoveEnd(w, select).changed
  <2> DEFINE g == [c \in DOMAIN w.cursors |-> At(w.cursors[c].e.line, GetLineMaxColumn(w.lines, w.cursors[c].e.line))]
  <2>1. \A c \in 1..Len(w.cursors) : g[c] \in Places(w.lines)
    <3> SUFFICES ASSUME NEW c \in 1..Len(w.cursors) PROVE g[c] \in Places(w.lines)
      OBVIOUS
    <3>1. w.cursors[c].e.line \in 0..(Len(w.lines) - 1) /\ 0 \in Int
      BY <1>3
    <3> QED BY <1>1, <3>1, ColumnIsPlace
  <2>2. MoveEnd(w, select) = Setting(w, g, clear)
    BY <1>0, <1>2 DEF MoveEnd, SetEachCursor, Setting
  <2> HIDE DEF g
  <2> QED BY <2>1, <2>2, SettingWork
<1> QED BY <1>4, <1>5, <1>6, <1>7, <1>8, <1>9

-----------------------------------------------------------------------------
(* Cursors come and go: the history and the text are still those of b.     *)
Succeeds(v, b) ==
    /\ Sound(v) /\ v.undoBuffer = b.undoBuffer /\ v.undoIndex = b.undoIndex
    /\ v.dragging = b.dragging
    /\ v.aborted <=> b.aborted
    /\ Flagged(b) => Flagged(v)

LEMMA WorkSucceeds ==
    ASSUME NEW w
    PROVE  /\ Sound(w) => Work(w, w) /\ Succeeds(w, w)
           /\ \A v : Work(v, w) \/ Loose(v, w) => Succeeds(v, w)
           /\ \A v, u : Succeeds(v, u) /\ Succeeds(u, w) => Succeeds(v, w)
BY DEF Work, Loose, Continues, Retains, Steady, Succeeds

LEMMA OtherCursorsSucceed ==
    ASSUME NEW w, Sound(w), NEW v, DOMAIN v = DOMAIN w, v.lines = w.lines,
           v.ops = w.ops, v.clipboard = w.clipboard,
           v.undoBuffer = w.undoBuffer, v.undoIndex = w.undoIndex, v.dragging = w.dragging,
           v.aborted <=> w.aborted,
           v.lastAdded \in Nat \ {0}, AreCursors(v.cursors, w.lines), Flagged(w) => Flagged(v)
    PROVE  Succeeds(v, w)
BY DEF Sound, Shaped, Succeeds

LEMMA SetSelectionWork ==
    ASSUME NEW b, NEW w, Work(w, b), NEW p \in Places(w.lines), NEW q \in Places(w.lines), NEW c
    PROVE  LET v == SetSelection(w, p, q, c)
           IN  Work(v, b) /\ v.lines = w.lines /\ v.changed
<1> DEFINE v == SetSelection(w, p, q, c)
           last == LastCoordinates(w.lines)
           k == [s |-> IF Before(last, p) THEN last ELSE p,
                 e |-> IF Before(last, q) THEN last ELSE q]
<1>1. Sound(w) /\ WorkFields \subseteq DOMAIN w /\ last \in Places(w.lines)
  BY LastIsPlace DEF Work, Sound, Shaped
<1> HIDE DEF last
<1>2. k \in [s : Places(w.lines), e : Places(w.lines)]
  BY <1>1
<1>3. /\ v.lines = w.lines /\ Beside(v, w) /\ v.cursors = [w.cursors EXCEPT ![c] = k]
      /\ v.changed
  BY <1>1 DEF SetSelection, Beside, WorkFields, last
<1>f. Flagged(w) => Flagged(v)
  BY <1>1 DEF SetSelection, Flagged, WorkFields
<1> HIDE DEF v, k
<1>4. Work(v, b)
  BY <1>2, <1>3, <1>f, WorkIsLoose, ReplacedCursorWork
<1> QED BY <1>3, <1>4 DEF v

LEMMA ClearSelectionsWork ==
    ASSUME NEW b, NEW w, Work(w, b)
    PROVE  Loose(ClearSelections(w), b) /\ ClearSelections(w).lines = w.lines
<1> DEFINE v == ClearSelections(w)
           k == [c \in DOMAIN w.cursors |-> Caret(SelectionEnd(w.cursors[c]))]
<1>1. /\ WorkFields \subseteq DOMAIN w /\ IsText(w.lines)
      /\ IsSeq(w.cursors) /\ Len(w.cursors) >= 1 /\ DOMAIN w.cursors = 1..Len(w.cursors)
      /\ \A c \in 1..Len(w.cursors) : SelectionEnd(w.cursors[c]) \in Places(w.lines)
  BY CursorOfWork, DomainOfWork DEF Work, Sound, Shaped
<1>2. \A c \in 1..Len(w.cursors) : k[c] \in [s : Places(w.lines), e : Places(w.lines)]
  BY <1>1 DEF Caret
<1>3. k = [c \in DOMAIN w.cursors |-> k[c]]
  OBVIOUS
<1>4. v.lines = w.lines /\ v.cursors = k /\ Beside(v, w)
  BY <1>1 DEF ClearSelections, Beside, WorkFields
<1>f. Flagged(w) => Flagged(v)
  BY <1>1 DEF ClearSelections, Flagged, WorkFields
<1>s. w.lines \in Seq(Line)
  BY WorkIsShape
<1> HIDE DEF k, v
<1>5. AreCursors(k, w.lines) /\ Len(k) = Len(w.cursors)
  BY <1>1, <1>2, <1>3, MappedCursors
<1>6. Loose(v, b)
  BY <1>1, <1>4, <1>5, <1>f, <1>s, WorkIsLoose, ChangedLoosely
<1> QED BY <1>4, <1>6 DEF v

LEMMA ClearExtraCursorsSucceeds ==
    ASSUME NEW w, Sound(w)
    PROVE  LET v == ClearExtraCursors(w)
           IN  Succeeds(v, w) /\ v.lines = w.lines
<1> DEFINE v == ClearExtraCursors(w)
           one == <<w.cursors[1]>>
<1>1. WorkFields \subseteq DOMAIN w /\ w.cursors[1] \in [s : Places(w.lines), e : Places(w.lines)]
  BY DEF Sound, Shaped, AreCursors, IsSeq
<1>2. AreCursors(one, w.lines)
  <2>1. IsSeq(one) /\ Len(one) = 1 /\ one[1] = w.cursors[1]
    BY SmallSeqs
  <2> HIDE DEF one
  <2> QED BY <1>1, <2>1 DEF AreCursors
<1>3. /\ DOMAIN v = DOMAIN w /\ v.lines = w.lines /\ v.ops = w.ops /\ v.clipboard = w.clipboard
      /\ v.undoBuffer = w.undoBuffer /\ v.undoIndex = w.undoIndex /\ v.dragging = w.dragging
      /\ v.aborted <=> w.aborted
      /\ v.lastAdded = w.lastAdded /\ v.cursors = one
  BY <1>1 DEF ClearExtraCursors, WorkFields
<1>f. Flagged(w) => Flagged(v)
  BY <1>1 DEF ClearExtraCursors, Flagged, WorkFields
<1> HIDE DEF v, one
<1>4. w.lastAdded \in Nat \ {0}
  BY DEF Sound, Shaped
<1>5. Succeeds(v, w)
  BY <1>2, <1>3, <1>4, <1>f, OtherCursorsSucceed
<1> QED BY <1>3, <1>5 DEF v

LEMMA AddCursorSucceeds ==
    ASSUME NEW w, Sound(w)
    PROVE  LET v == AddCursor(w)
           IN  /\ Succeeds(v, w) /\ v.lines = w.lines
               /\ Len(v.cursors) = Len(w.cursors) + 1
<1> DEFINE v == AddCursor(w)
           old == w.cursors
           k == Caret(At(0, 0))
           more == Append(old, k)
<1>1. /\ WorkFields \subseteq DOMAIN w /\ IsSeq(old) /\ Len(old) \in Nat
      /\ \A c \in 1..Len(old) : old[c] \in [s : Places(w.lines), e : Places(w.lines)]
  BY DEF Sound, Shaped, AreCursors, IsSeq
<1>2. k \in [s : Places(w.lines), e : Places(w.lines)]
  BY DEF Sound, Shaped, IsText, IsSeq, Caret, At, Places
<1>3. /\ DOMAIN v = DOMAIN w /\ v.lines = w.lines /\ v.ops = w.ops /\ v.clipboard = w.clipboard
      /\ v.undoBuffer = w.undoBuffer /\ v.undoIndex = w.undoIndex /\ v.dragging = w.dragging
      /\ v.aborted <=> w.aborted
      /\ v.lastAdded = Len(old) + 1 /\ v.cursors = more
  BY <1>1 DEF AddCursor, WorkFields
<1>f. Flagged(w) => Flagged(v)
  BY <1>1 DEF AddCursor, Flagged, WorkFields
<1> HIDE DEF v, old, k
<1>4. /\ IsSeq(more) /\ Len(more) = Len(old) + 1
      /\ \A i \in 1..(Len(old) + 1) : more[i] = IF i <= Len(old) THEN old[i] ELSE k
  BY <1>1, AppendIsSeq
<1> HIDE DEF more
<1>5. AreCursors(more, w.lines)
  BY <1>1, <1>2, <1>4 DEF AreCursors
<1>6. v.lastAdded \in Nat \ {0}
  BY <1>1, <1>3
<1>7. Succeeds(v, w)
  BY <1>3, <1>5, <1>6, <1>f, OtherCursorsSucceed
<1> QED BY <1>3, <1>4, <1>7 DEF v, old

LEMMA TopAndBottomWork ==
    ASSUME NEW b, NEW w, Work(w, b), NEW select \in BOOLEAN
    PROVE  /\ Work(MoveTop(w, select), b) /\ MoveTop(w, select).lines = w.lines
           /\ MoveTop(w, select).changed
           /\ Work(MoveBottom(w, select), b) /\ MoveBottom(w, select).lines = w.lines
           /\ MoveBottom(w, select).changed
<1>1. PICK clear \in BOOLEAN : clear <=> ~select
  BY (~select) \in BOOLEAN
<1>2. At(0, 0) \in Places(w.lines) /\ LastCoordinates(w.lines) \in Places(w.lines)
  <2>1. IsText(w.lines) /\ Len(w.lines) \in Nat /\ Len(w.lines) >= 1
    BY DEF Work, Sound, Shaped, IsText, IsSeq
  <2>2. At(0, 0) \in Places(w.lines)
    BY <2>1 DEF At, Places
  <2> QED BY <2>1, <2>2, LastIsPlace
<1>3. /\ MoveTop(w, select) = SetCursorPosition(w, At(0, 0), Len(w.cursors), clear)
      /\ MoveBottom(w, select) = SetCursorPosition(w, LastCoordinates(w.lines), Len(w.cursors), clear)
  BY <1>1 DEF MoveTop, MoveBottom, SetCursorPosition
<1> QED BY <1>2, <1>3, WorkIsLoose, SetCursorPositionWork

LEMMA SelectAllSucceeds ==
    ASSUME NEW w, Sound(w)
    PROVE  Succeeds(SelectAll(w), w) /\ SelectAll(w).lines = w.lines /\ SelectAll(w).changed
<1> DEFINE u == ClearSelections(w)
           x == ClearExtraCursors(u)
           t == MoveTop(x, FALSE)
           v == MoveBottom(t, TRUE)
<1>0. FALSE \in BOOLEAN /\ TRUE \in BOOLEAN /\ SelectAll(w) = v
  BY DEF SelectAll
<1>1. Succeeds(u, w) /\ u.lines = w.lines
  BY ClearSelectionsWork, WorkSucceeds
<1> HIDE DEF u
<1>2. Succeeds(x, u) /\ x.lines = u.lines
  BY <1>1, ClearExtraCursorsSucceeds DEF Succeeds
<1> HIDE DEF x
<1>3. Work(t, x) /\ t.lines = x.lines
  BY <1>0, <1>2, WorkSucceeds, TopAndBottomWork DEF Succeeds
<1> HIDE DEF t
<1>4. Work(v, x) /\ v.lines = t.lines /\ v.changed
  BY <1>0, <1>3, TopAndBottomWork
<1> HIDE DEF v
<1> QED BY <1>0, <1>1, <1>2, <1>3, <1>4, WorkSucceeds

-----------------------------------------------------------------------------
(* Sorting the cursors, and merging them.                                  *)
LEMMA SortingKeepsCursors ==
    ASSUME NEW cursors, NEW lines, AreCursors(cursors, lines), NEW k \in Sortings(cursors)
    PROVE  /\ AreCursors(k, lines) /\ Len(k) = Len(cursors)
           /\ \A d \in 1..Len(cursors) : \E c \in 1..Len(k) : k[c] = cursors[d]
           /\ \A c \in 1..Len(k) : \E d \in 1..Len(cursors) : k[c] = cursors[d]
<1> DEFINE D == 1..Len(cursors)
<1>1. /\ IsSeq(cursors) /\ Len(cursors) \in Nat /\ Len(cursors) >= 1 /\ DOMAIN cursors = D
      /\ \A c \in D : cursors[c] \in [s : Places(lines), e : Places(lines)]
  BY DEF AreCursors, IsSeq
<1>2. PICK f \in [D -> D] : /\ \A c, d \in D : f[c] = f[d] => c = d
                            /\ k = [c \in D |-> cursors[f[c]]]
  BY <1>1 DEF Sortings
<1>3. AreCursors(k, lines) /\ Len(k) = Len(cursors)
  <2>1. k = [c \in DOMAIN cursors |-> k[c]]
    BY <1>1, <1>2
  <2>2. \A c \in 1..Len(cursors) : k[c] \in [s : Places(lines), e : Places(lines)]
    BY <1>1, <1>2
  <2> QED BY <1>1, <2>1, <2>2, MappedCursors
<1>4. f \in Surjection(D, D)
  <2>1. IsFiniteSet(D)
    BY <1>1, FS_Interval
  <2>2. f \in Injection(D, D)
    BY <1>2 DEF Injection, IsInjective
  <2> QED BY <2>1, <2>2, FS_Injection
<1>5. \A d \in D : \E c \in D : f[c] = d
  BY <1>4 DEF Surjection
<1>6. \A d \in D : \E c \in D : k[c] = cursors[d]
  BY <1>2, <1>5
<1>7. \A c \in D : \E d \in D : k[c] = cursors[d]
  BY <1>2
<1> QED BY <1>3, <1>6, <1>7

LEMMA LastAddedIsCursor ==
    ASSUME NEW w, Sound(w)
    PROVE  GetLastAddedCursorIndex(w) \in 1..Len(w.cursors)
BY DEF Sound, Shaped, AreCursors, IsSeq, GetLastAddedCursorIndex

LEMMA SortSucceeds ==
    ASSUME NEW w, Sound(w), NEW v \in SortCursorsFromTopToBottom(w)
    PROVE  Loose(v, w) /\ v.lines = w.lines /\ (AllCarets(w) => AllCarets(v))
<1> DEFINE a == GetLastAddedCursorIndex(w)
           last == w.cursors[a].e
<1>1. PICK k \in Sortings(w.cursors) :
          v = [w EXCEPT !.cursors = k, !.lastAdded = Min({c \in DOMAIN k : k[c].e = last})]
  BY DEF SortCursorsFromTopToBottom
<1>2. a \in 1..Len(w.cursors)
  BY LastAddedIsCursor
<1> HIDE DEF a
<1>3. WorkFields \subseteq DOMAIN w /\ AreCursors(w.cursors, w.lines)
  BY DEF Sound, Shaped
<1>4. /\ AreCursors(k, w.lines) /\ Len(k) = Len(w.cursors)
      /\ \E c \in 1..Len(k) : k[c] = w.cursors[a]
      /\ \A c \in 1..Len(k) : \E d \in 1..Len(w.cursors) : k[c] = w.cursors[d]
  <2>1. /\ AreCursors(k, w.lines) /\ Len(k) = Len(w.cursors)
        /\ \A d \in 1..Len(w.cursors) : \E c \in 1..Len(k) : k[c] = w.cursors[d]
        /\ \A c \in 1..Len(k) : \E d \in 1..Len(w.cursors) : k[c] = w.cursors[d]
    BY <1>3, SortingKeepsCursors
  <2> QED BY <1>2, <2>1
<1> DEFINE C == {c \in DOMAIN k : k[c].e = last}
<1>5. C \subseteq Nat \ {0} /\ C # {}
  <2>1. Len(k) \in Nat /\ DOMAIN k = 1..Len(k)
    BY <1>4 DEF AreCursors, IsSeq
  <2>2. PICK c \in 1..Len(k) : k[c].e = last
    BY <1>4
  <2>3. c \in C /\ C \subseteq 1..Len(k)
    BY <2>1, <2>2
  <2> HIDE DEF C
  <2> QED BY <2>1, <2>3
<1>6. Min(C) \in Nat \ {0}
  BY <1>5, MinOfNats
<1>7. /\ DOMAIN v = DOMAIN w /\ v.lines = w.lines /\ v.ops = w.ops /\ v.clipboard = w.clipboard
      /\ v.undoBuffer = w.undoBuffer /\ v.undoIndex = w.undoIndex /\ v.dragging = w.dragging
      /\ v.aborted <=> w.aborted
      /\ v.lastAdded = Min(C) /\ v.cursors = k
  BY <1>1, <1>3 DEF WorkFields
<1>f. Flagged(w) => Flagged(v)
  BY <1>1, <1>3 DEF Flagged, WorkFields
<1> HIDE DEF C, last
<1>8. Succeeds(v, w)
  BY <1>4, <1>6, <1>7, <1>f, OtherCursorsSucceed
<1>9. AllCarets(w) => AllCarets(v)
  <2> SUFFICES ASSUME AllCarets(w), NEW c \in 1..Len(k) PROVE k[c].s = k[c].e
    BY <1>7 DEF AllCarets
  <2>1. PICK d \in 1..Len(w.cursors) : k[c] = w.cursors[d]
    BY <1>4
  <2> QED BY <2>1 DEF AllCarets
<1> QED BY <1>4, <1>7, <1>8, <1>9 DEF Succeeds, Loose, Continues, Retains

(* What the merging keeps while it goes over the pairs.                    *)
Merging(m, lines, n) ==
    /\ {"cursors", "deleted"} \subseteq DOMAIN m
    /\ AreCursors(m.cursors, lines) /\ Len(m.cursors) = n
    /\ m.deleted \subseteq 2..n

MergePair(m, c) ==
    LET upper == m.cursors[c]
        lower == m.cursors[c + 1]
    IN  IF AtOrBefore(SelectionEnd(lower), SelectionEnd(upper))
        THEN [m EXCEPT !.deleted = @ \cup {c + 1}]
        ELSE IF Before(SelectionStart(lower), SelectionEnd(upper))
        THEN [m EXCEPT !.deleted = @ \cup {c + 1},
                       !.cursors[c] = [s |-> SelectionStart(upper), e |-> SelectionEnd(lower)]]
        ELSE m

LEMMA MergePairKeeps ==
    ASSUME NEW m, NEW lines, NEW n \in Nat, Merging(m, lines, n), NEW c \in 1..(n - 1)
    PROVE  Merging(MergePair(m, c), lines, n)
<1> DEFINE old == m.cursors
           k == [s |-> SelectionStart(old[c]), e |-> SelectionEnd(old[c + 1])]
           new == [old EXCEPT ![c] = k]
           gone == m.deleted \cup {c + 1}
<1>1. /\ IsSeq(old) /\ Len(old) = n /\ n >= 1 /\ c \in 1..n /\ c + 1 \in 1..n
      /\ \A i \in 1..n : old[i] \in [s : Places(lines), e : Places(lines)]
      /\ gone \subseteq 2..n
  BY DEF Merging, AreCursors
<1>2. old[c] \in [s : Places(lines), e : Places(lines)] /\ old[c + 1] \in [s : Places(lines), e : Places(lines)]
  BY <1>1
<1>3. k \in [s : Places(lines), e : Places(lines)]
  BY <1>2 DEF SelectionStart, SelectionEnd
<1> DEFINE v == MergePair(m, c)
<1>4. /\ {"cursors", "deleted"} \subseteq DOMAIN v
      /\ v.cursors \in {old, new} /\ v.deleted \in {m.deleted, gone}
  <2>1. {"cursors", "deleted"} \subseteq DOMAIN m
    BY DEF Merging
  <2> HIDE DEF k
  <2> QED BY <2>1 DEF MergePair, k
<1> HIDE DEF v
<1> HIDE DEF old, k, gone
<1>5. /\ IsSeq(new) /\ Len(new) = n
      /\ \A i \in 1..n : new[i] = IF i = c THEN k ELSE old[i]
  <2>1. IsSeq(new) /\ Len(new) = Len(old)
    BY <1>1, ExceptIsSeq
  <2>2. \A i \in 1..Len(old) : new[i] = IF i = c THEN k ELSE old[i]
    BY <1>1, ExceptIsSeq
  <2> HIDE DEF new
  <2> QED BY <1>1, <2>1, <2>2
<1> HIDE DEF new
<1>6. AreCursors(old, lines) /\ AreCursors(new, lines)
  BY <1>1, <1>3, <1>5 DEF AreCursors
<1>7. m.deleted \subseteq gone
  BY DEF gone
<1>8. Merging(v, lines, n)
  BY <1>1, <1>4, <1>5, <1>6, <1>7 DEF Merging
<1> QED BY <1>8 DEF v

LEMMA MergeOverlappingKeeps ==
    ASSUME NEW cursors, NEW lines, AreCursors(cursors, lines)
    PROVE  Merging(MergeOverlapping(cursors), lines, Len(cursors))
<1> DEFINE N == Len(cursors)
           start == [cursors |-> cursors, deleted |-> {}]
           Run(d, f) ==
               /\ f[N] = start
               /\ \A c \in d..(N - 1) : f[c] = MergePair(f[c + 1], c)
           Fine(d) ==
               /\ \E f : Run(d, f)
               /\ \A f : Run(d, f) => Merging(f[d], lines, N)
           S == {n \in Nat : n < N => Fine(N - n)}
<1>0. N \in Nat /\ N >= 1
  BY DEF AreCursors, IsSeq
<1>1. Fine(N)
  <2>1. Run(N, [c \in {N} |-> start])
    BY <1>0
  <2>2. ASSUME NEW f, Run(N, f) PROVE Merging(f[N], lines, N)
    BY <1>0, <2>2 DEF Merging
  <2> QED BY <2>1, <2>2
<1> HIDE DEF start
<1>2. ASSUME NEW d \in 1..(N - 1), Fine(d + 1) PROVE Fine(d)
  <2>0. N \in (d + 1)..N /\ d + 1 \in (d + 1)..N /\ N # d
    BY <1>0
  <2>1. PICK f : Run(d + 1, f)
    BY <1>2
  <2>2. ASSUME NEW g, \A c \in (d + 1)..N : g[c] = f[c], g[d] = MergePair(f[d + 1], d)
        PROVE  Run(d, g)
    <3>1. g[N] = start
      BY <2>0, <2>1, <2>2
    <3>2. ASSUME NEW c \in d..(N - 1) PROVE g[c] = MergePair(g[c + 1], c)
      <4>1. CASE c = d
        BY <2>0, <2>2, <4>1
      <4>2. CASE c # d
        <5>1. c \in (d + 1)..(N - 1) /\ c \in (d + 1)..N /\ c + 1 \in (d + 1)..N
          BY <1>0, <4>2
        <5> QED BY <2>1, <2>2, <5>1
      <4> QED BY <4>1, <4>2
    <3> QED BY <3>1, <3>2
  <2>3. \E g : Run(d, g)
    <3>1. PICK x : x = MergePair(f[d + 1], d)
      OBVIOUS
    <3> DEFINE g == [c \in d..N |-> IF c = d THEN x ELSE f[c]]
    <3>2. ASSUME NEW c \in (d + 1)..N PROVE g[c] = f[c]
      BY <1>0
    <3>3. g[d] = x
      BY <1>0
    <3> HIDE DEF g
    <3> QED BY <2>2, <3>1, <3>2, <3>3
  <2>4. ASSUME NEW h, Run(d, h) PROVE Merging(h[d], lines, N)
    <3>1. Run(d + 1, h) /\ h[d] = MergePair(h[d + 1], d)
      BY <1>0, <2>4
    <3>2. Merging(h[d + 1], lines, N)
      BY <1>2, <3>1
    <3> HIDE DEF Run
    <3> QED BY <1>0, <3>1, <3>2, MergePairKeeps
  <2> QED BY <2>3, <2>4
<1>3. Fine(1)
  <2> HIDE DEF Fine
  <2>1. 0 \in S
    <3>1. N - 0 = N
      BY <1>0
    <3> QED BY <1>1, <3>1
  <2>2. ASSUME NEW n \in Nat, n \in S PROVE n + 1 \in S
    <3> SUFFICES ASSUME n + 1 < N PROVE Fine(N - (n + 1))
      OBVIOUS
    <3>1. N - (n + 1) \in 1..(N - 1) /\ (N - (n + 1)) + 1 = N - n /\ n < N
      BY <1>0
    <3>2. Fine((N - (n + 1)) + 1)
      BY <2>2, <3>1
    <3> QED BY <1>2, <3>1, <3>2
  <2>3. Nat \subseteq S
    <3> HIDE DEF S
    <3> QED BY <2>1, <2>2, SetInduction
  <2>4. N - 1 \in Nat /\ N - 1 < N /\ N - (N - 1) = 1
    BY <1>0
  <2> QED BY <2>3, <2>4
<1> DEFINE Next(f) == [c \in 1..N |-> IF c = N THEN start ELSE MergePair(f[c + 1], c)]
           after == CHOOSE f : f = Next(f)
<1>5. MergeOverlapping(cursors) = after[1]
  BY DEF MergeOverlapping, MergePair, start
<1>6. \E f : f = Next(f)
  <2>1. PICK f : Run(1, f)
    BY <1>3
  <2> DEFINE g == [c \in 1..N |-> f[c]]
  <2>2. g = Next(g)
    BY <1>0, <2>1
  <2> QED BY <2>2
<1>7. after = Next(after)
  BY <1>6
<1> HIDE DEF after
<1>8. Run(1, after)
  <2>1. after[N] = start
    BY <1>0, <1>7
  <2>2. ASSUME NEW c \in 1..(N - 1) PROVE after[c] = MergePair(after[c + 1], c)
    BY <1>0, <1>7
  <2> QED BY <2>1, <2>2
<1>9. Merging(after[1], lines, N)
  BY <1>3, <1>8
<1> QED BY <1>5, <1>9

LEMMA KeptAreCursors ==
    ASSUME NEW m, NEW lines, NEW n \in Nat, Merging(m, lines, n)
    PROVE  /\ AreCursors(Kept(m), lines)
           /\ \A c \in 1..Len(Kept(m)) : \E d \in 1..n : Kept(m)[c] = m.cursors[d]
<1> DEFINE T == DOMAIN m.cursors \ m.deleted
           kept == Upward(T)
           new == [c \in DOMAIN kept |-> m.cursors[kept[c]]]
<1>1. /\ DOMAIN m.cursors = 1..n /\ n >= 1
      /\ \A i \in 1..n : m.cursors[i] \in [s : Places(lines), e : Places(lines)]
      /\ m.deleted \subseteq 2..n
  BY DEF Merging, AreCursors, IsSeq
<1>2. T \subseteq Nat /\ IsFiniteSet(T) /\ 1 \in T /\ T \subseteq 1..n
  <2>1. T \subseteq 1..n /\ 1 \in T
    BY <1>1
  <2>2. IsFiniteSet(T)
    BY <2>1, FS_Interval, FS_Subset
  <2> QED BY <2>1, <2>2
<1> HIDE DEF T
<1>3. /\ IsSeq(kept) /\ Len(kept) >= 1 /\ Len(kept) \in Nat /\ DOMAIN kept = 1..Len(kept)
      /\ \A c \in 1..Len(kept) : kept[c] \in T
  BY <1>2, UpwardIsSeq DEF IsSeq
<1> HIDE DEF kept
<1>4. \A c \in 1..Len(kept) : new[c] \in [s : Places(lines), e : Places(lines)]
  BY <1>1, <1>2, <1>3
<1>5. new = [c \in DOMAIN kept |-> new[c]]
  OBVIOUS
<1>a. \A c \in 1..Len(kept) : \E d \in 1..n : new[c] = m.cursors[d]
  BY <1>2, <1>3
<1> HIDE DEF new
<1>6. AreCursors(new, lines) /\ Len(new) = Len(kept)
  BY <1>3, <1>4, <1>5, MappedCursors
<1>7. Kept(m) = new
  BY DEF Kept, new, kept, T
<1> QED BY <1>6, <1>7, <1>a

LEMMA MergeSucceeds ==
    ASSUME NEW w, Sound(w)
    PROVE  /\ Succeeds(MergeCursorsIfPossible(w), w)
           /\ MergeCursorsIfPossible(w).lines = w.lines
           /\ AllCarets(w) => AllCarets(MergeCursorsIfPossible(w))
<1> DEFINE v == MergeCursorsIfPossible(w)
           k == w.cursors
           m == MergeOverlapping(k)
           u == MergeCoinciding(k)
<1>1. WorkFields \subseteq DOMAIN w /\ AreCursors(k, w.lines) /\ w.lastAdded \in Nat \ {0} /\ Len(k) \in Nat
  BY DEF Sound, Shaped, AreCursors, IsSeq
<1>2. Merging(m, w.lines, Len(k))
  BY <1>1, MergeOverlappingKeeps
<1>3. Merging(u, w.lines, Len(k))
  BY <1>1 DEF Merging, MergeCoinciding
<1>4. /\ AreCursors(Kept(m), w.lines) /\ AreCursors(Kept(u), w.lines)
      /\ \A c \in 1..Len(Kept(u)) : \E d \in 1..Len(k) : Kept(u)[c] = u.cursors[d]
  BY <1>1, <1>2, <1>3, KeptAreCursors
<1>a. u.cursors = k
  BY DEF MergeCoinciding
<1> HIDE DEF m, u
<1>b. AllCarets(w) => v.cursors = Kept(u)
  <2>1. DOMAIN k = 1..Len(k)
    BY <1>1 DEF AreCursors, IsSeq
  <2>2. AllCarets(w) => ~AnyCursorHasSelection(w)
    BY <2>1 DEF AllCarets, AnyCursorHasSelection, HasSelection
  <2> QED BY <1>1, <2>2 DEF MergeCursorsIfPossible, WorkFields, u
<1>5. /\ DOMAIN v = DOMAIN w /\ v.lines = w.lines /\ v.ops = w.ops /\ v.clipboard = w.clipboard
      /\ v.undoBuffer = w.undoBuffer /\ v.undoIndex = w.undoIndex /\ v.dragging = w.dragging
      /\ v.aborted <=> w.aborted
      /\ v.lastAdded = w.lastAdded /\ v.cursors \in {Kept(m), Kept(u)}
  BY <1>1 DEF MergeCursorsIfPossible, WorkFields, m, u
<1>f. Flagged(w) => Flagged(v)
  BY <1>1 DEF MergeCursorsIfPossible, Flagged, WorkFields
<1> HIDE DEF v
<1>6. Succeeds(v, w)
  BY <1>1, <1>4, <1>5, <1>f, OtherCursorsSucceed
<1>7. AllCarets(w) => AllCarets(v)
  <2> SUFFICES ASSUME AllCarets(w), NEW c \in 1..Len(Kept(u)) PROVE Kept(u)[c].s = Kept(u)[c].e
    BY <1>b DEF AllCarets
  <2>1. PICK d \in 1..Len(k) : Kept(u)[c] = u.cursors[d]
    BY <1>4
  <2> QED BY <1>a, <2>1 DEF AllCarets
<1> QED BY <1>5, <1>6, <1>7 DEF v

(* OnCursorPositionChanged, sorting and merging however many cursors there *)
(* are, leaves at least one cursor, and every cursor that is left in the   *)
(* text; it makes no selection where there was none.                       *)
THEOREM CursorsStaySound ==
    ASSUME NEW w, Sound(w)
    PROVE  /\ \A v \in SortAndMerge(w) :
                  Succeeds(v, w) /\ v.lines = w.lines /\ (AllCarets(w) => AllCarets(v))
           /\ \A v \in OnCursorPositionChanged(w) :
                  Succeeds(v, w) /\ v.lines = w.lines /\ (AllCarets(w) => AllCarets(v))
<1>1. ASSUME NEW u \in SortCursorsFromTopToBottom(w)
      PROVE  LET v == MergeCursorsIfPossible(u)
             IN  Succeeds(v, w) /\ v.lines = w.lines /\ (AllCarets(w) => AllCarets(v))
  <2>1. Loose(u, w) /\ u.lines = w.lines /\ (AllCarets(w) => AllCarets(u))
    BY SortSucceeds
  <2>2. Sound(u) /\ Succeeds(u, w)
    BY <2>1, WorkSucceeds DEF Loose
  <2>3. /\ Succeeds(MergeCursorsIfPossible(u), u) /\ MergeCursorsIfPossible(u).lines = u.lines
        /\ AllCarets(u) => AllCarets(MergeCursorsIfPossible(u))
    BY <2>2, MergeSucceeds
  <2> QED BY <2>1, <2>2, <2>3, WorkSucceeds
<1>2. \A v \in SortAndMerge(w) :
          Succeeds(v, w) /\ v.lines = w.lines /\ (AllCarets(w) => AllCarets(v))
  BY <1>1 DEF SortAndMerge
<1> QED BY <1>2, WorkSucceeds DEF OnCursorPositionChanged

-----------------------------------------------------------------------------
(* Cursors in order, none of which overlaps or coincides with the next.    *)
InOrder(upper, lower) ==
    AtOrBefore(SelectionEnd(upper), SelectionStart(lower)) /\ upper # lower

Apart(k) == \A c \in 1..(Len(k) - 1) : InOrder(k[c], k[c + 1])

LEMMA PlacesAreOrdered ==
    ASSUME NEW lines, NEW p \in Places(lines), NEW q \in Places(lines), Len(lines) \in Nat
    PROVE  /\ Before(p, q) \/ p = q \/ Before(q, p)
           /\ ~(Before(p, q) /\ Before(q, p)) /\ ~Before(p, p)
           /\ \A r \in Places(lines) : AtOrBefore(p, q) /\ AtOrBefore(q, r) => AtOrBefore(p, r)
           /\ \A r \in Places(lines) : AtOrBefore(p, q) /\ Before(q, r) => Before(p, r)
<1>1. \A r \in Places(lines) : r.line \in Int /\ r.column \in Int /\ r = [line |-> r.line, column |-> r.column]
  BY DEF Places
<1>2. p = q <=> p.line = q.line /\ p.column = q.column
  BY <1>1
<1>3. Before(p, q) \/ p = q \/ Before(q, p)
  BY <1>1, <1>2 DEF Before
<1>4. ~(Before(p, q) /\ Before(q, p)) /\ ~Before(p, p)
  BY <1>1 DEF Before
<1>5. \A r \in Places(lines) : Before(p, q) /\ Before(q, r) => Before(p, r)
  BY <1>1 DEF Before
<1> QED BY <1>3, <1>4, <1>5 DEF AtOrBefore

(* The numbers of a set come in order.                                     *)
LEMMA UpwardRises ==
    ASSUME NEW T, T \subseteq Nat, IsFiniteSet(T), NEW n \in 1..(Cardinality(T) - 1)
    PROVE  Upward(T)[n] < Upward(T)[n + 1]
<1> DEFINE below(k) == {j \in T : j < k}
           rank(m) == CHOOSE k \in T : Cardinality(below(k)) = m - 1
<1>0. Cardinality(T) \in Nat
  BY FS_CardinalityType
<1>1. Upward(T) = [m \in 1..Cardinality(T) |-> rank(m)]
  BY DEF Upward
<1>2. ASSUME NEW m \in 1..Cardinality(T)
      PROVE  Upward(T)[m] \in T /\ Cardinality(below(Upward(T)[m])) = m - 1
  <2>1. \E k \in T : Cardinality(below(k)) = m - 1
    BY RankExists
  <2>2. rank(m) \in T /\ Cardinality(below(rank(m))) = m - 1
    BY <2>1
  <2> HIDE DEF rank, below
  <2> QED BY <1>1, <2>2
<1> HIDE DEF rank
<1>3. n \in 1..Cardinality(T) /\ n + 1 \in 1..Cardinality(T) /\ (n + 1) - 1 = n
  BY <1>0
<1> DEFINE a == Upward(T)[n]
           b == Upward(T)[n + 1]
<1>4. /\ a \in T /\ Cardinality(below(a)) = n - 1
      /\ b \in T /\ Cardinality(below(b)) = n
  BY <1>2, <1>3
<1> HIDE DEF a, b
<1>5. ASSUME b <= a PROVE FALSE
  <2>1. below(b) \subseteq below(a)
    <3>1. a \in Nat /\ b \in Nat /\ \A j \in T : j \in Nat
      BY <1>4
    <3>2. \A j \in T : j < b => j < a
      BY <1>5, <3>1
    <3> QED BY <3>2
  <2>2. IsFiniteSet(below(a))
    BY FS_Subset
  <2> HIDE DEF below
  <2>3. Cardinality(below(b)) <= Cardinality(below(a))
    BY <2>1, <2>2, FS_Subset
  <2> QED BY <1>3, <1>4, <2>3
<1>6. a < b
  BY <1>4, <1>5
<1> QED BY <1>6 DEF a, b

(* The cursors that are left are those of their numbers.                   *)
Numbers(m, n) == 1..n \ m.deleted

KeptByNumber(m, T) ==
    /\ T \subseteq Nat /\ IsFiniteSet(T) /\ Cardinality(T) \in Nat
    /\ Len(Kept(m)) = Cardinality(T)
    /\ \A c \in 1..Cardinality(T) :
           Upward(T)[c] \in T /\ Kept(m)[c] = m.cursors[Upward(T)[c]]

LEMMA KeptIsByNumber ==
    ASSUME NEW m, NEW lines, NEW n \in Nat, Merging(m, lines, n)
    PROVE  KeptByNumber(m, Numbers(m, n))
<1> DEFINE T == Numbers(m, n)
           kept == Upward(T)
           new == [c \in DOMAIN kept |-> m.cursors[kept[c]]]
<1>1. DOMAIN m.cursors = 1..n
  BY DEF Merging, AreCursors, IsSeq
<1>2. T \subseteq Nat /\ IsFiniteSet(T)
  <2>1. T \in SUBSET (1..n) /\ IsFiniteSet(1..n)
    BY FS_Interval DEF Numbers
  <2> HIDE DEF T
  <2>2. IsFiniteSet(T)
    BY <2>1, FS_Subset
  <2>3. T \subseteq Nat
    BY <2>1
  <2> QED BY <2>2, <2>3
<1>3. Kept(m) = new
  BY <1>1 DEF Kept, Numbers
<1> HIDE DEF T
<1>4. /\ IsSeq(kept) /\ Len(kept) = Cardinality(T) /\ Cardinality(T) \in Nat
      /\ \A c \in 1..Cardinality(T) : kept[c] \in T
  BY <1>2, UpwardIsSeq, FS_CardinalityType
<1>5. DOMAIN kept = 1..Cardinality(T)
  BY <1>4 DEF IsSeq
<1> HIDE DEF kept
<1>6. Len(new) = Cardinality(T)
  BY <1>4, <1>5
<1>7. \A c \in 1..Cardinality(T) : new[c] = m.cursors[kept[c]]
  BY <1>5
<1> QED BY <1>2, <1>3, <1>4, <1>6, <1>7 DEF kept, T, KeptByNumber

(* Carets that are sorted, and of which none coincides with the one above. *)
LEMMA CoincidingMerged ==
    ASSUME NEW k, NEW lines, AreCursors(k, lines), Len(lines) \in Nat, Sorted(k),
           \A c \in 1..Len(k) : k[c].s = k[c].e
    PROVE  Apart(Kept(MergeCoinciding(k)))
<1> DEFINE m == MergeCoinciding(k)
           n == Len(k)
           T == Numbers(m, n)
           N == Cardinality(T)
<1>1. /\ n \in Nat /\ n >= 1 /\ DOMAIN k = 1..n /\ IsSeq(k)
      /\ \A c \in 1..n : k[c] \in [s : Places(lines), e : Places(lines)]
  BY DEF AreCursors, IsSeq
<1>2. m.cursors = k /\ m.deleted = {c \in 2..n : k[c].e = k[c - 1].e}
  BY DEF MergeCoinciding
<1>3. Merging(m, lines, n)
  <2>1. {"cursors", "deleted"} \subseteq DOMAIN m
    BY DEF MergeCoinciding
  <2> HIDE DEF m
  <2> QED BY <1>1, <1>2, <2>1 DEF Merging
<1>4. /\ T \subseteq Nat /\ IsFiniteSet(T) /\ N \in Nat /\ Len(Kept(m)) = N
      /\ \A c \in 1..N : Upward(T)[c] \in T /\ Kept(m)[c] = k[Upward(T)[c]]
  BY <1>1, <1>2, <1>3, KeptIsByNumber DEF KeptByNumber
<1> HIDE DEF m, n
<1>5. ASSUME NEW c \in 1..n, NEW d \in 1..n, c < d PROVE AtOrBefore(k[c].e, k[d].e)
  <2>1. k[c].e \in Places(lines) /\ k[d].e \in Places(lines)
        /\ SelectionStart(k[c]) = k[c].e /\ SelectionStart(k[d]) = k[d].e
    BY <1>1 DEF SelectionStart, n
  <2>2. ~Before(k[d].e, k[c].e)
    BY <1>1, <1>5, <2>1 DEF Sorted
  <2> QED BY <2>1, <2>2, PlacesAreOrdered DEF AtOrBefore
<1>6. ASSUME NEW a \in T, NEW b \in T, a < b PROVE InOrder(k[a], k[b])
  <2>1. a \in 1..n /\ b \in 1..n /\ b \in 2..n /\ b - 1 \in 1..n /\ a <= b - 1 /\ b - 1 < b
    BY <1>1, <1>6 DEF Numbers
  <2>2. k[b].e # k[b - 1].e
    BY <1>2, <1>6, <2>1 DEF Numbers
  <2>3. AtOrBefore(k[a].e, k[b - 1].e)
    <3>1. CASE a = b - 1
      BY <3>1 DEF AtOrBefore
    <3>2. CASE a # b - 1
      BY <1>5, <2>1, <3>2
    <3> QED BY <3>1, <3>2
  <2>4. AtOrBefore(k[b - 1].e, k[b].e)
    BY <1>5, <2>1
  <2>5. Before(k[b - 1].e, k[b].e)
    BY <2>2, <2>4 DEF AtOrBefore
  <2>6. k[a].e \in Places(lines) /\ k[b].e \in Places(lines) /\ k[b - 1].e \in Places(lines)
    BY <1>1, <2>1 DEF n
  <2>7. Before(k[a].e, k[b].e)
    BY <2>3, <2>5, <2>6, PlacesAreOrdered
  <2>8. k[a].e # k[b].e
    BY <2>6, <2>7, PlacesAreOrdered
  <2>9. SelectionEnd(k[a]) = k[a].e /\ SelectionStart(k[b]) = k[b].e
    BY <2>1 DEF SelectionEnd, SelectionStart, n
  <2> QED BY <2>7, <2>8, <2>9 DEF InOrder, AtOrBefore
<1> HIDE DEF T
<1>7. ASSUME NEW c \in 1..(N - 1) PROVE InOrder(Kept(m)[c], Kept(m)[c + 1])
  <2>1. c \in 1..N /\ c + 1 \in 1..N
    BY <1>4
  <2>2. Upward(T)[c] < Upward(T)[c + 1]
    BY <1>4, UpwardRises
  <2> QED BY <1>4, <1>6, <2>1, <2>2
<1>8. Apart(Kept(m))
  BY <1>4, <1>7 DEF Apart
<1> QED BY <1>8 DEF m

(* One selection or two.                                                   *)
LEMMA OverlappingMerged ==
    ASSUME NEW k, NEW lines, AreCursors(k, lines), Len(lines) \in Nat, Len(k) <= 2
    PROVE  Apart(Kept(MergeOverlapping(k)))
<1> DEFINE m == MergeOverlapping(k)
           n == Len(k)
           T == Numbers(m, n)
           start == [cursors |-> k, deleted |-> {}]
<1>1. /\ n \in Nat /\ n >= 1 /\ IsSeq(k)
      /\ \A c \in 1..n : k[c] \in [s : Places(lines), e : Places(lines)]
  BY DEF AreCursors, IsSeq
<1>2. Merging(m, lines, n)
  BY MergeOverlappingKeeps
<1>3. /\ T \subseteq Nat /\ IsFiniteSet(T) /\ Cardinality(T) \in Nat /\ Len(Kept(m)) = Cardinality(T)
      /\ \A c \in 1..Cardinality(T) : Upward(T)[c] \in T /\ Kept(m)[c] = m.cursors[Upward(T)[c]]
  BY <1>1, <1>2, KeptIsByNumber DEF KeptByNumber
<1>4. ASSUME Cardinality(T) <= 1 PROVE Apart(Kept(m))
  <2> HIDE DEF T, m
  <2> QED BY <1>3, <1>4 DEF Apart
<1>5. CASE n = 1
  <2>1. T \subseteq {1}
    BY <1>5 DEF Numbers
  <2>2. Cardinality({1}) = 1 /\ IsFiniteSet({1})
    BY FS_Singleton
  <2> HIDE DEF T
  <2>3. Cardinality(T) <= 1
    BY <2>1, <2>2, FS_Subset
  <2> QED BY <1>4, <2>3
<1>6. CASE n = 2
  <2> DEFINE upper == k[1]
             lower == k[2]
             merged == MergePair(start, 1)
             Pass(f) == [c \in 1..n |-> IF c = n THEN start ELSE MergePair(f[c + 1], c)]
             after == CHOOSE f : f = Pass(f)
  <2>1. m = after[1]
    BY DEF MergeOverlapping, MergePair
  <2>2. \E f : f = Pass(f)
    <3> DEFINE g == [c \in 1..2 |-> IF c = 2 THEN start ELSE merged]
    <3>1. g[2] = start /\ g[1] = merged
      OBVIOUS
    <3>2. \A c \in 1..2 : c # 2 => c = 1 /\ c + 1 = 2
      OBVIOUS
    <3> HIDE DEF start, merged
    <3>3. g = Pass(g)
      BY <1>6, <3>1, <3>2 DEF merged
    <3> QED BY <3>3
  <2>3. after = Pass(after)
    BY <2>2
  <2> HIDE DEF after, m
  <2>4. after[2] = start /\ after[1] = MergePair(after[2], 1)
    <3> HIDE DEF start
    <3>1. after = [c \in 1..2 |-> IF c = 2 THEN start ELSE MergePair(after[c + 1], c)]
      BY <1>6, <2>3
    <3>2. 1 + 1 = 2 /\ 1 \in 1..2 /\ 2 \in 1..2 /\ 1 # 2
      OBVIOUS
    <3> QED BY <3>1, <3>2
  <2>5. m = merged
    BY <2>1, <2>4
  <2>6. start.cursors = k /\ start.deleted = {}
    OBVIOUS
  <2>7. \/ m.deleted = {2}
        \/ /\ m = start
           /\ ~AtOrBefore(SelectionEnd(lower), SelectionEnd(upper))
           /\ ~Before(SelectionStart(lower), SelectionEnd(upper))
    BY <2>5, <2>6 DEF MergePair
  <2>8. CASE m.deleted = {2}
    <3>1. T \subseteq {1}
      BY <1>6, <2>8 DEF Numbers
    <3>2. Cardinality({1}) = 1 /\ IsFiniteSet({1})
      BY FS_Singleton
    <3> HIDE DEF T
    <3>3. Cardinality(T) <= 1
      BY <3>1, <3>2, FS_Subset
    <3> QED BY <1>4, <3>3 DEF m
  <2>9. CASE /\ m = start
             /\ ~AtOrBefore(SelectionEnd(lower), SelectionEnd(upper))
             /\ ~Before(SelectionStart(lower), SelectionEnd(upper))
    <3>1. upper \in [s : Places(lines), e : Places(lines)] /\ lower \in [s : Places(lines), e : Places(lines)]
      BY <1>1, <1>6
    <3>2. SelectionEnd(upper) \in Places(lines) /\ SelectionStart(lower) \in Places(lines)
      BY <3>1 DEF SelectionEnd, SelectionStart
    <3>3. AtOrBefore(SelectionEnd(upper), SelectionStart(lower))
      BY <2>9, <3>2, PlacesAreOrdered DEF AtOrBefore
    <3>4. upper # lower
      BY <2>9 DEF AtOrBefore
    <3>5. InOrder(k[1], k[2])
      BY <3>3, <3>4 DEF InOrder
    <3>6. T = {1, 2}
      BY <1>6, <2>6, <2>9 DEF Numbers
    <3>7. Cardinality(T) <= 2
      <4>1. {1, 2} = 1..2
        OBVIOUS
      <4>2. Cardinality(1..2) = 2
        <5>1. 1 \in Int /\ 2 \in Int /\ ~(1 > 2) /\ 2 - 1 + 1 = 2
          OBVIOUS
        <5>2. Cardinality(1..2) = IF 1 > 2 THEN 0 ELSE 2 - 1 + 1
          BY <5>1, FS_Interval
        <5> QED BY <5>1, <5>2
      <4> QED BY <3>6, <4>1, <4>2
    <3>8. ASSUME NEW c \in 1..(Cardinality(T) - 1) PROVE InOrder(Kept(m)[c], Kept(m)[c + 1])
      <4> HIDE DEF T
      <4>1. c \in 1..Cardinality(T) /\ c + 1 \in 1..Cardinality(T)
        BY <1>3
      <4>2. Upward(T)[c] < Upward(T)[c + 1]
        BY <1>3, UpwardRises
      <4>3. Upward(T)[c] \in {1, 2} /\ Upward(T)[c + 1] \in {1, 2}
        BY <1>3, <3>6, <4>1
      <4>4. Upward(T)[c] = 1 /\ Upward(T)[c + 1] = 2
        BY <4>2, <4>3
      <4>5. m.cursors = k
        BY <2>6, <2>9
      <4> QED BY <1>3, <3>5, <4>1, <4>4, <4>5
    <3> HIDE DEF T
    <3>9. Apart(Kept(m))
      BY <1>3, <3>8 DEF Apart
    <3> QED BY <3>9 DEF m
  <2> QED BY <2>7, <2>8, <2>9
<1>7. n = 1 \/ n = 2
  <2>1. n <= 2
    OBVIOUS
  <2> HIDE DEF n
  <2> QED BY <1>1, <2>1
<1> QED BY <1>5, <1>6, <1>7

(* Sorting and merging leaves apart one or two selections, and any number  *)
(* of carets.                                                              *)
FewCursorsOf(w) == Len(w.cursors) <= 2 \/ AllCarets(w)

THEOREM SortingSetsApart ==
    ASSUME NEW w, Sound(w), FewCursorsOf(w), NEW v \in SortAndMerge(w)
    PROVE  Apart(v.cursors)
<1>1. PICK u \in SortCursorsFromTopToBottom(w) : v = MergeCursorsIfPossible(u)
  BY DEF SortAndMerge
<1>2. Loose(u, w) /\ u.lines = w.lines /\ (AllCarets(w) => AllCarets(u))
  BY SortSucceeds
<1> DEFINE k == u.cursors
<1>3. Sound(u) /\ AreCursors(k, u.lines) /\ Len(k) = Len(w.cursors) /\ "cursors" \in DOMAIN u
  BY <1>2 DEF Loose, Sound, Shaped, Continues, Retains, WorkFields
<1>4. Len(u.lines) \in Nat /\ DOMAIN k = 1..Len(k)
  BY <1>3, DomainOfWork
<1>5. Sorted(k)
  <2>1. "cursors" \in DOMAIN w
    BY DEF Sound, Shaped, WorkFields
  <2>2. PICK j \in Sortings(w.cursors) : u.cursors = j
    BY <2>1 DEF SortCursorsFromTopToBottom
  <2> QED BY <2>2 DEF Sortings
<1>6. v.cursors = Kept(IF AnyCursorHasSelection(u) THEN MergeOverlapping(k) ELSE MergeCoinciding(k))
  BY <1>1, <1>3 DEF MergeCursorsIfPossible
<1>7. CASE ~AnyCursorHasSelection(u)
  <2>1. \A c \in 1..Len(k) : k[c].s = k[c].e
    BY <1>4, <1>7 DEF AnyCursorHasSelection, HasSelection
  <2>2. Apart(Kept(MergeCoinciding(k)))
    BY <1>3, <1>4, <1>5, <2>1, CoincidingMerged
  <2> QED BY <1>6, <1>7, <2>2
<1>8. CASE AnyCursorHasSelection(u)
  <2>1. ~AllCarets(u)
    BY <1>4, <1>8 DEF AnyCursorHasSelection, HasSelection, AllCarets
  <2>2. Len(k) <= 2
    BY <1>2, <1>3, <2>1 DEF FewCursorsOf
  <2>3. Apart(Kept(MergeOverlapping(k)))
    BY <1>3, <1>4, <2>2, OverlappingMerged
  <2> QED BY <1>6, <1>8, <2>3
<1> QED BY <1>7, <1>8

(* Carets are sorted and merged by leaving some of them out.               *)
TakenFrom(v, w) ==
    \A c \in 1..Len(v.cursors) : \E d \in 1..Len(w.cursors) : v.cursors[c] = w.cursors[d]

LEMMA CaretsAreTaken ==
    ASSUME NEW w, Sound(w), AllCarets(w), NEW v \in SortAndMerge(w)
    PROVE  TakenFrom(v, w)
<1>1. PICK u \in SortCursorsFromTopToBottom(w) : v = MergeCursorsIfPossible(u)
  BY DEF SortAndMerge
<1>2. Loose(u, w) /\ u.lines = w.lines /\ AllCarets(u)
  BY SortSucceeds
<1> DEFINE k == u.cursors
           m == MergeCoinciding(k)
<1>3. Sound(u) /\ AreCursors(k, u.lines) /\ "cursors" \in DOMAIN u /\ Len(k) \in Nat /\ DOMAIN k = 1..Len(k)
  BY <1>2, DomainOfWork DEF Loose, Sound, Shaped, WorkFields
<1>4. \A c \in 1..Len(k) : \E d \in 1..Len(w.cursors) : k[c] = w.cursors[d]
  <2>1. "cursors" \in DOMAIN w /\ AreCursors(w.cursors, w.lines)
    BY DEF Sound, Shaped, WorkFields
  <2>2. PICK j \in Sortings(w.cursors) : u.cursors = j
    BY <2>1 DEF SortCursorsFromTopToBottom
  <2> QED BY <2>1, <2>2, SortingKeepsCursors
<1>5. v.cursors = Kept(m)
  <2>1. ~AnyCursorHasSelection(u)
    BY <1>2, <1>3 DEF AllCarets, AnyCursorHasSelection, HasSelection
  <2> QED BY <1>1, <1>3, <2>1 DEF MergeCursorsIfPossible
<1>6. Merging(m, u.lines, Len(k)) /\ m.cursors = k
  BY <1>3 DEF Merging, MergeCoinciding
<1> HIDE DEF m
<1>7. \A c \in 1..Len(Kept(m)) : \E d \in 1..Len(k) : Kept(m)[c] = m.cursors[d]
  BY <1>3, <1>6, KeptAreCursors
<1> HIDE DEF k
<1> QED BY <1>4, <1>5, <1>6, <1>7 DEF TakenFrom

(* It keeps what it is not about.                                          *)
LEMMA SortingKeepsMarks ==
    ASSUME NEW w, Sound(w), NEW v \in SortAndMerge(w) \cup OnCursorPositionChanged(w)
    PROVE  (v.changed <=> w.changed) /\ (v.aborted <=> w.aborted)
<1>1. ASSUME NEW u \in SortCursorsFromTopToBottom(w)
      PROVE  /\ MergeCursorsIfPossible(u).changed <=> w.changed
             /\ MergeCursorsIfPossible(u).aborted <=> w.aborted
  <2>1. WorkFields \subseteq DOMAIN w
    BY DEF Sound, Shaped
  <2>2. u.changed = w.changed /\ u.aborted = w.aborted
    BY <2>1 DEF SortCursorsFromTopToBottom, WorkFields
  <2>3. MergeCursorsIfPossible(u).changed = u.changed /\ MergeCursorsIfPossible(u).aborted = u.aborted
    BY DEF MergeCursorsIfPossible
  <2> QED BY <2>2, <2>3
<1>2. \A u \in SortAndMerge(w) : (u.changed <=> w.changed) /\ (u.aborted <=> w.aborted)
  BY <1>1 DEF SortAndMerge
<1> QED BY <1>2 DEF OnCursorPositionChanged

-----------------------------------------------------------------------------
(* The text as one sequence, and the places its offsets stand for.         *)

LEMMA OffsetRun ==
    ASSUME NEW lines, IsText(lines), NEW l \in 0..(Len(lines) - 1)
    PROVE  \E f : /\ f[0] = 0
                  /\ \A k \in 1..l : f[k] = f[k - 1] + Len(lines[k]) + 1
                  /\ OffsetOfLine(lines, l) = f[l]
<1> DEFINE Run(n, f) ==
               /\ f[0] = 0
               /\ \A k \in 1..n : f[k] = f[k - 1] + Len(lines[k]) + 1
           S == {n \in Nat : \E f : Run(n, f)}
<1>0. l \in Nat
  OBVIOUS
<1>1. 0 \in S
  <2>1. Run(0, [k \in 0..0 |-> 0])
    OBVIOUS
  <2> QED BY <2>1
<1>2. ASSUME NEW n \in Nat, n \in S PROVE n + 1 \in S
  <2>1. PICK f : Run(n, f)
    BY <1>2
  <2>2. ASSUME NEW g, \A k \in 0..n : g[k] = f[k], g[n + 1] = f[n] + Len(lines[n + 1]) + 1
        PROVE  Run(n + 1, g)
    <3> SUFFICES ASSUME NEW k \in 1..(n + 1) PROVE g[k] = g[k - 1] + Len(lines[k]) + 1
      BY <2>1, <2>2
    <3>1. CASE k \in 1..n
      BY <2>1, <2>2, <3>1
    <3>2. CASE k = n + 1
      BY <2>2, <3>2
    <3> QED BY <3>1, <3>2
  <2>3. \E g : Run(n + 1, g)
    <3>1. PICK x : x = f[n] + Len(lines[n + 1]) + 1
      OBVIOUS
    <3> DEFINE g == [k \in 0..(n + 1) |-> IF k <= n THEN f[k] ELSE x]
    <3>2. (\A k \in 0..n : g[k] = f[k]) /\ g[n + 1] = x
      OBVIOUS
    <3> HIDE DEF g
    <3> QED BY <2>2, <3>1, <3>2
  <2> QED BY <2>3
<1>3. l \in S
  <2> HIDE DEF S
  <2> QED BY <1>0, <1>1, <1>2, SetInduction
<1> DEFINE Next(f) == [k \in 0..l |-> IF k = 0 THEN 0 ELSE f[k - 1] + Len(lines[k]) + 1]
           after == CHOOSE f : f = Next(f)
<1>4. OffsetOfLine(lines, l) = after[l]
  BY DEF OffsetOfLine
<1>5. \E f : f = Next(f)
  <2>1. PICK f : Run(l, f)
    BY <1>3
  <2> DEFINE g == [k \in 0..l |-> f[k]]
  <2>2. g = Next(g)
    BY <1>0, <2>1
  <2> QED BY <2>2
<1>6. after = Next(after)
  BY <1>5
<1> HIDE DEF after
<1>7. Run(l, after)
  BY <1>0, <1>6
<1> QED BY <1>4, <1>7

LEMMA OffsetIsNat ==
    ASSUME NEW lines,
           IsText(lines),
           NEW l \in 0..(Len(lines) - 1)
    PROVE  OffsetOfLine(lines, l) \in Nat /\ OffsetOfLine(lines, 0) = 0
<1>1. \A k \in 1..l : Len(lines[k]) \in Nat
  BY DEF IsText, IsSeq
<1>2. PICK f : /\ f[0] = 0
               /\ \A k \in 1..l : f[k] = f[k - 1] + Len(lines[k]) + 1
               /\ OffsetOfLine(lines, l) = f[l]
  BY OffsetRun
<1> DEFINE S == {n \in Nat : n <= l => f[n] \in Nat}
<1>3. 0 \in S
  BY <1>2
<1>4. ASSUME NEW n \in Nat, n \in S PROVE n + 1 \in S
  <2> SUFFICES ASSUME n + 1 <= l PROVE f[n + 1] \in Nat
    OBVIOUS
  <2>1. n + 1 \in 1..l /\ (n + 1) - 1 = n /\ n <= l
    OBVIOUS
  <2>2. f[n] \in Nat /\ Len(lines[n + 1]) \in Nat
    BY <1>1, <1>4, <2>1
  <2>3. f[n + 1] = f[n] + Len(lines[n + 1]) + 1
    BY <1>2, <2>1
  <2> QED BY <2>2, <2>3
<1>5. f[l] \in Nat
  <2>1. Nat \subseteq S
    <3> HIDE DEF S
    <3> QED BY <1>3, <1>4, SetInduction
  <2>2. l \in Nat /\ l <= l
    OBVIOUS
  <2> QED BY <2>1, <2>2
<1>6. OffsetOfLine(lines, 0) = 0
  <2>1. 0 \in 0..(Len(lines) - 1)
    BY DEF IsText, IsSeq
  <2> QED BY <2>1, OffsetRun
<1> QED BY <1>2, <1>5, <1>6

JoinLine(text, line) == text \o <<NewLine>> \o line

LEMMA JoinLineIsSeq ==
    ASSUME NEW text, NEW line, IsSeq(text), IsSeq(line)
    PROVE  IsSeq(JoinLine(text, line))
<1>1. IsSeq(<<NewLine>>)
  BY SmallSeqs
<1>2. IsSeq(text \o <<NewLine>>)
  BY <1>1, ConcatIsSeq
<1> QED BY <1>2, ConcatIsSeq DEF JoinLine

(* Passages put together, with or without a line break between them.       *)
LEMMA PassagesJoin ==
    ASSUME NEW s \in Passage, NEW t \in Passage
    PROVE  s \o t \in Passage /\ s \o <<NewLine>> \o t \in Passage
           /\ IsSeq(s) /\ Len(s) \in Nat /\ <<NewLine>> \in Passage /\ <<>> \in Passage
<1>1. ASSUME NEW a \in Passage
      PROVE  a \in Seq(Glyph \cup {NewLine}) /\ Whole(a) /\ IsSeq(a)
  BY InSeq DEF Passage
<1>2. ASSUME NEW a \in Passage, NEW b \in Passage PROVE a \o b \in Passage
  <2>1. a \o b \in Seq(Glyph \cup {NewLine})
    BY <1>1, ConcatInSeq
  <2>2. Whole(a \o b)
    BY <1>1, ConcatWhole
  <2> QED BY <2>1, <2>2 DEF Passage
<1>3. <<NewLine>> \in Passage
  <2>1. <<NewLine>> \in Seq(Glyph \cup {NewLine})
    OBVIOUS
  <2>2. NewLine # LeadByte
    BY DEF NewLine, LeadByte
  <2>3. \A i \in DOMAIN <<NewLine>> : <<NewLine>>[i] = NewLine
    OBVIOUS
  <2> QED BY <2>1, <2>2, <2>3 DEF Passage, Whole
<1>4. <<>> \in Passage
  BY SmallLines, LineIsPassage
<1>5. (s \o <<NewLine>>) \o t \in Passage
  BY <1>2, <1>3
<1>6. IsSeq(s) /\ Len(s) \in Nat
  BY <1>1 DEF IsSeq
<1> QED BY <1>2, <1>3, <1>4, <1>5, <1>6

LEMMA JoinLineIsPassage ==
    ASSUME NEW text \in Passage, NEW line \in Passage
    PROVE  JoinLine(text, line) \in Passage
BY PassagesJoin DEF JoinLine

LEMMA JoinedRun ==
    ASSUME NEW lines, IsText(lines)
    PROVE  \E f : /\ f[1] = lines[1]
                  /\ \A k \in 2..Len(lines) : f[k] = JoinLine(f[k - 1], lines[k])
                  /\ Joined(lines) = f[Len(lines)]
<1> DEFINE N == Len(lines)
           Run(n, f) == f[1] = lines[1] /\ \A k \in 2..n : f[k] = JoinLine(f[k - 1], lines[k])
           S == {n \in Nat : \E f : Run(n + 1, f)}
<1>0. N \in Nat /\ N >= 1
  BY DEF IsText, IsSeq
<1>1. 0 \in S
  <2>1. Run(0 + 1, [k \in {1} |-> lines[1]])
    OBVIOUS
  <2> QED BY <2>1
<1>2. ASSUME NEW h \in Nat, h \in S PROVE h + 1 \in S
  <2> DEFINE n == h + 1
  <2>0. n \in Nat /\ n >= 1
    OBVIOUS
  <2>1. PICK f : Run(n, f)
    BY <1>2
  <2> HIDE DEF n
  <2>2. ASSUME NEW g, \A k \in 1..n : g[k] = f[k], g[n + 1] = JoinLine(f[n], lines[n + 1])
        PROVE  Run(n + 1, g)
    <3>1. g[1] = lines[1]
      BY <2>0, <2>1, <2>2
    <3>2. ASSUME NEW k \in 2..(n + 1) PROVE g[k] = JoinLine(g[k - 1], lines[k])
      <4>1. CASE k = n + 1
        BY <2>0, <2>2, <4>1
      <4>2. CASE k # n + 1
        BY <2>0, <2>1, <2>2, <4>2
      <4> QED BY <4>1, <4>2
    <3> QED BY <3>1, <3>2
  <2>3. \E g : Run(n + 1, g)
    <3>1. PICK x : x = JoinLine(f[n], lines[n + 1])
      OBVIOUS
    <3> DEFINE g == [k \in 1..(n + 1) |-> IF k <= n THEN f[k] ELSE x]
    <3>2. (\A k \in 1..n : g[k] = f[k]) /\ g[n + 1] = x
      BY <2>0
    <3> HIDE DEF g
    <3> QED BY <2>2, <3>1, <3>2
  <2> QED BY <2>3 DEF n
<1>3. \E f : Run(N, f)
  <2>1. Nat \subseteq S
    <3> HIDE DEF S
    <3> QED BY <1>1, <1>2, SetInduction
  <2>2. N - 1 \in Nat /\ (N - 1) + 1 = N
    BY <1>0
  <2>3. N - 1 \in S
    <3> HIDE DEF S
    <3> QED BY <2>1, <2>2
  <2> HIDE DEF Run
  <2>4. \E f : Run((N - 1) + 1, f)
    BY <2>3
  <2> QED BY <2>2, <2>4
<1> DEFINE Next(f) == [k \in 1..N |-> IF k = 1 THEN lines[1] ELSE JoinLine(f[k - 1], lines[k])]
           after == CHOOSE f : f = Next(f)
<1>4. Joined(lines) = after[N]
  BY DEF Joined, JoinLine
<1>5. \E f : f = Next(f)
  <2>1. PICK f : Run(N, f)
    BY <1>3
  <2> DEFINE g == [k \in 1..N |-> f[k]]
  <2>2. g = Next(g)
    BY <1>0, <2>1
  <2> QED BY <2>2
<1>6. after = Next(after)
  BY <1>5
<1> HIDE DEF after
<1>7. Run(N, after)
  <2>1. after[1] = lines[1]
    BY <1>0, <1>6
  <2>2. ASSUME NEW k \in 2..N PROVE after[k] = JoinLine(after[k - 1], lines[k])
    BY <1>0, <1>6
  <2> QED BY <2>1, <2>2
<1> QED BY <1>4, <1>7

LEMMA JoinedIsSeq ==
    ASSUME NEW lines, IsText(lines)
    PROVE  IsSeq(Joined(lines))
<1> DEFINE N == Len(lines)
<1>1. N \in Nat /\ N >= 1 /\ \A k \in 1..N : IsSeq(lines[k])
  BY DEF IsText, IsSeq
<1>2. PICK f : /\ f[1] = lines[1]
               /\ \A k \in 2..N : f[k] = JoinLine(f[k - 1], lines[k])
               /\ Joined(lines) = f[N]
  BY JoinedRun
<1> HIDE DEF N
<1> DEFINE S == {n \in Nat : n < N => IsSeq(f[n + 1])}
<1>3. 0 \in S
  BY <1>1, <1>2
<1>4. ASSUME NEW n \in Nat, n \in S PROVE n + 1 \in S
  <2> SUFFICES ASSUME n + 1 < N PROVE IsSeq(f[(n + 1) + 1])
    OBVIOUS
  <2>1. (n + 1) + 1 \in 2..N /\ ((n + 1) + 1) - 1 = n + 1 /\ (n + 1) + 1 \in 1..N /\ n < N
    BY <1>1
  <2>2. IsSeq(f[n + 1]) /\ IsSeq(lines[(n + 1) + 1])
    BY <1>1, <1>4, <2>1
  <2>3. f[(n + 1) + 1] = JoinLine(f[n + 1], lines[(n + 1) + 1])
    BY <1>2, <2>1
  <2> QED BY <2>2, <2>3, JoinLineIsSeq
<1>5. Nat \subseteq S
  <2> HIDE DEF S
  <2> QED BY <1>3, <1>4, SetInduction
<1>6. N - 1 \in Nat /\ N - 1 < N /\ (N - 1) + 1 = N
  BY <1>1
<1>7. N - 1 \in S
  <2> HIDE DEF S
  <2> QED BY <1>5, <1>6
<1>8. IsSeq(f[(N - 1) + 1])
  BY <1>6, <1>7
<1> QED BY <1>2, <1>6, <1>8

LEMMA TextOfPlacesIsSeq ==
    ASSUME NEW lines, IsText(lines), NEW p \in Places(lines), NEW q \in Places(lines)
    PROVE  IsSeq(GetText(lines, p, q)) /\ Len(GetText(lines, p, q)) \in Nat
<1>1. p.line \in 0..(Len(lines) - 1) /\ q.line \in 0..(Len(lines) - 1)
  BY DEF Places
<1>2. Offset(lines, p) \in Nat /\ Offset(lines, q) \in Nat
  <2>1. OffsetOfLine(lines, p.line) \in Nat /\ OffsetOfLine(lines, q.line) \in Nat
    BY <1>1, OffsetIsNat
  <2>2. GetCharacterIndexR(lines, p) \in Nat /\ GetCharacterIndexR(lines, q) \in Nat
    BY IndexIsNat
  <2> QED BY <2>1, <2>2 DEF Offset
<1>3. IsSeq(GetText(lines, p, q))
  <2> DEFINE i == Offset(lines, p) + 1
             j == Offset(lines, q)
  <2>1. i \in Int /\ j \in Int
    BY <1>2
  <2>2. GetText(lines, p, q) = SubSeq(Joined(lines), i, j)
    BY DEF GetText
  <2> HIDE DEF i, j
  <2>3. IsSeq(SubSeq(Joined(lines), i, j))
    BY <2>1, SubSeqIsSeq
  <2> QED BY <2>2, <2>3
<1> QED BY <1>3 DEF IsSeq

LEMMA AtOffsetIsPlace ==
    ASSUME NEW lines, IsText(lines), NEW o \in Nat
    PROVE  AtOffset(lines, o) \in Places(lines)
<1> DEFINE K == {k \in 0..(Len(lines) - 1) : OffsetOfLine(lines, k) <= o}
           l == Max(K)
<1>1. Len(lines) \in Nat /\ Len(lines) >= 1 /\ 0 \in 0..(Len(lines) - 1)
  BY DEF IsText, IsSeq
<1>2. 0 \in K
  BY <1>1, OffsetIsNat
<1>3. K \subseteq Nat /\ K \subseteq 0..(Len(lines) - 1) /\ Len(lines) \in Nat /\ \A k \in K : k <= Len(lines)
  BY <1>1
<1> HIDE DEF K
<1>4. l \in K
  BY <1>2, <1>3, MaxOfNats
<1>5. l \in 0..(Len(lines) - 1)
  BY <1>3, <1>4
<1> HIDE DEF l
<1>6. OffsetOfLine(lines, l) \in Nat
  BY <1>5, OffsetIsNat
<1>7. o - OffsetOfLine(lines, l) \in Int
  BY <1>6
<1>8. AtOffset(lines, o) = At(l, GetCharacterColumn(lines, l, o - OffsetOfLine(lines, l)))
  BY DEF AtOffset, l, K
<1> QED BY <1>5, <1>7, <1>8, ColumnIsPlace

LEMMA OccurrenceArePlaces ==
    ASSUME NEW lines, IsText(lines), NEW text, Len(text) \in Nat, NEW p,
           Occurrences(lines, text) # {}
    PROVE  FindNextOccurrence(lines, text, p) \in [s : Places(lines), e : Places(lines)]
<1> DEFINE O == Occurrences(lines, text)
           ahead == {o \in O : o >= Offset(lines, p)}
           o == FirstFrom(O, Offset(lines, p))
<1>1. Len(Joined(lines)) \in Nat
  BY JoinedIsSeq DEF IsSeq
<1>2. O \subseteq Nat
  BY <1>1 DEF Occurrences
<1>3. o = IF ahead = {} THEN Min(O) ELSE Min(ahead)
  BY DEF FirstFrom
<1>4. Min(O) \in O /\ (ahead # {} => Min(ahead) \in ahead)
  BY <1>2, MinOfNats
<1>5. o \in Nat /\ o + Len(text) \in Nat
  <2>1. o \in O
    BY <1>3, <1>4
  <2> HIDE DEF o
  <2> QED BY <1>2, <2>1
<1>6. FindNextOccurrence(lines, text, p) = [s |-> AtOffset(lines, o), e |-> AtOffset(lines, o + Len(text))]
  BY DEF FindNextOccurrence, Stretch
<1> HIDE DEF o
<1> QED BY <1>5, <1>6, AtOffsetIsPlace

LEMMA AddCursorForNextOccurrenceSucceeds ==
    ASSUME NEW w, Sound(w), NEW v \in AddCursorForNextOccurrence(w)
    PROVE  \/ Failed(v) /\ ~SelectsText(w)
           \/ Succeeds(v, w) /\ v.lines = w.lines /\ (v = w \/ v.changed)
<1> DEFINE k == w.cursors[GetLastAddedCursorIndex(w)]
           text == GetText(w.lines, SelectionStart(k), SelectionEnd(k))
           found == FindNextOccurrence(w.lines, text, SelectionEnd(k))
           more == AddCursor(w)
           with == AddCursorWith(w, found)
<1>1. IsText(w.lines) /\ "aborted" \in DOMAIN w
  BY DEF Sound, Shaped, WorkFields
<1>2. SelectionStart(k) \in Places(w.lines) /\ SelectionEnd(k) \in Places(w.lines)
  BY LastAddedIsCursor, CursorOfWork
<1>3. Len(text) \in Nat
  BY <1>1, <1>2, TextOfPlacesIsSeq
<1>4. \/ v = w
      \/ v = [w EXCEPT !.aborted = TRUE] /\ ~SelectsText(w)
      \/ Occurrences(w.lines, text) # {} /\ v \in SortAndMerge(with)
  BY DEF AddCursorForNextOccurrence, SelectsText
<1> HIDE DEF k, text
<1>5. CASE v = w
  BY <1>5, WorkSucceeds
<1>6. CASE v = [w EXCEPT !.aborted = TRUE] /\ ~SelectsText(w)
  BY <1>1, <1>6 DEF Failed
<1>7. CASE Occurrences(w.lines, text) # {} /\ v \in SortAndMerge(with)
  <2>1. found \in [s : Places(w.lines), e : Places(w.lines)]
    BY <1>1, <1>3, <1>7, OccurrenceArePlaces
  <2> HIDE DEF found
  <2>2. found.s \in Places(w.lines) /\ found.e \in Places(w.lines)
    BY <2>1
  <2>3. Succeeds(more, w) /\ more.lines = w.lines
    BY AddCursorSucceeds
  <2>4. with = SetSelection(more, found.s, found.e, Len(w.cursors) + 1)
    BY DEF AddCursorWith
  <2> HIDE DEF more, with
  <2>5. Work(with, more) /\ with.lines = more.lines /\ with.changed
    BY <2>2, <2>3, <2>4, SetSelectionWork, WorkSucceeds DEF Succeeds
  <2>6. Succeeds(with, w) /\ with.lines = w.lines /\ Sound(with)
    BY <2>3, <2>5, WorkSucceeds DEF Succeeds
  <2>7. Succeeds(v, with) /\ v.lines = with.lines
    BY <1>7, <2>6, CursorsStaySound
  <2>8. v.changed
    BY <1>7, <2>5, <2>6, SortingKeepsMarks
  <2> QED BY <2>6, <2>7, <2>8, WorkSucceeds
<1> QED BY <1>4, <1>5, <1>6, <1>7

-----------------------------------------------------------------------------
(* Colouring: for every text and every number of lines coloured in a      *)
(* frame.                                                                  *)
(* The fields the colouring of a work is about.                            *)
HasRange(w) ==
    /\ {"lines", "fresh", "colorMin", "colorMax", "scan"} \subseteq DOMAIN w
    /\ w.fresh \in Seq(BOOLEAN)
    /\ Len(w.lines) \in Nat
    /\ w.colorMin \in Nat /\ w.colorMax \in Nat

InRange(w, l) == l \in w.colorMin .. (w.colorMax - 1)

(* Lines are numbered from 1, and colouring one does not change their      *)
(* number.                                                                 *)
LEMMA FreshDomain ==
    ASSUME NEW fresh \in Seq(BOOLEAN)
    PROVE  DOMAIN fresh = 1 .. Len(fresh) /\ \A l \in DOMAIN fresh : l - 1 \in Nat
OBVIOUS

LEMMA ColorizeRangeType ==
    ASSUME NEW fresh \in Seq(BOOLEAN), NEW from \in Nat, NEW to \in Nat
    PROVE  LET coloured == ColorizeRange(fresh, from, to)
           IN  /\ coloured \in Seq(BOOLEAN)
               /\ DOMAIN coloured = DOMAIN fresh
               /\ \A l \in DOMAIN fresh :
                      coloured[l] <=> fresh[l] \/ l - 1 \in from .. (to - 1)
<1> DEFINE coloured == ColorizeRange(fresh, from, to)
<1>1. Len(fresh) \in Nat /\ DOMAIN fresh = 1 .. Len(fresh)
  OBVIOUS
<1>2. coloured = [l \in 1 .. Len(fresh) |-> fresh[l] \/ l - 1 \in from .. (to - 1)]
  BY <1>1 DEF ColorizeRange
<1>3. coloured \in [1 .. Len(fresh) -> BOOLEAN]
  BY <1>2
<1>4. coloured \in Seq(BOOLEAN)
  BY <1>1, <1>3
<1> QED BY <1>1, <1>2, <1>4

-----------------------------------------------------------------------------
(* A request: the range grows, and takes in the lines of the text that are *)
(* asked for.                                                              *)
THEOREM ColorizeCovers ==
    ASSUME NEW w, HasRange(w), NEW from \in Int, NEW count \in Int
    PROVE  LET v == Colorize(w, from, count)
           IN  /\ HasRange(v)
               /\ v.fresh = w.fresh
               /\ \A l \in Nat : InRange(w, l) => InRange(v, l)
               /\ \A l \in 0 .. Len(w.lines) - 1 :
                      l \in from .. from + count - 1 => InRange(v, l)
               /\ Rotten(v) \subseteq Rotten(w)
<1> DEFINE low == Min({w.colorMin, from})
           min == Max({0, low})
           to == Min({Len(w.lines), from + count})
           max == Max({min, w.colorMax, to})
           v == Colorize(w, from, count)
<1>1. w.colorMin \in Nat /\ w.colorMax \in Nat /\ Len(w.lines) \in Nat
  BY DEF HasRange
<1>2. low \in Int /\ low <= w.colorMin /\ low <= from
  BY <1>1, MinOfTwo
<1>3. to \in Int /\ (to = Len(w.lines) \/ to = from + count)
  BY <1>1, MinOfTwo
<1> HIDE DEF low, to
<1>4. min \in Nat /\ (min = 0 \/ min = low)
  BY <1>2, MaxOfTwo
<1> HIDE DEF min
<1>5. max \in Nat /\ max >= w.colorMax /\ max >= to
  <2> DEFINE c == w.colorMax
  <2>1. c \in Nat
    BY <1>1
  <2> HIDE DEF c
  <2>2. min \in Int /\ c \in Int /\ to \in Int
    BY <1>3, <1>4, <2>1
  <2>3. /\ Max({min, c, to}) \in {min, c, to}
        /\ Max({min, c, to}) >= min /\ Max({min, c, to}) >= c /\ Max({min, c, to}) >= to
    BY <2>2, MaxOfThree
  <2>4. max = Max({min, c, to})
    BY DEF c
  <2> HIDE DEF max
  <2>5. max \in Nat /\ max >= c /\ max >= to
    BY <1>3, <1>4, <2>1, <2>3, <2>4
  <2> QED BY <2>5 DEF c
<1> HIDE DEF max
<1>6. v = [w EXCEPT !.colorMin = min, !.colorMax = max, !.scan = TRUE]
  BY DEF Colorize, min, max, low, to
<1> HIDE DEF v
<1>7. /\ DOMAIN v = DOMAIN w
      /\ v.fresh = w.fresh /\ v.lines = w.lines /\ v.colorMin = min /\ v.colorMax = max
  BY <1>6 DEF HasRange
<1>8. HasRange(v)
  BY <1>4, <1>5, <1>7 DEF HasRange
<1>9. \A l \in Nat : InRange(w, l) => InRange(v, l)
  BY <1>1, <1>2, <1>4, <1>5, <1>7 DEF InRange
<1>10. \A l \in 0 .. Len(w.lines) - 1 :
           l \in from .. from + count - 1 => InRange(v, l)
  BY <1>1, <1>2, <1>3, <1>4, <1>5, <1>7 DEF InRange
<1>11. Rotten(v) \subseteq Rotten(w)
  <2>1. \A l \in DOMAIN w.fresh : l - 1 \in Nat
    <3>1. w.fresh \in Seq(BOOLEAN)
      BY DEF HasRange
    <3> QED BY <3>1, FreshDomain
  <2> QED BY <1>7, <1>9, <2>1 DEF Rotten, InRange
<1> QED BY <1>7, <1>8, <1>9, <1>10, <1>11 DEF v

(* A frame: no line rots, the lines that leave the range are coloured, and *)
(* the range gets shorter by the increment until it is gone.               *)
THEOREM ColorizeInternalKeeps ==
    ASSUME NEW w, HasRange(w)
    PROVE  LET v == ColorizeInternal(w)
           IN  /\ HasRange(v)
               /\ Rotten(v) \subseteq Rotten(w)
               /\ \A l \in DOMAIN w.fresh :
                      InRange(w, l - 1) => v.fresh[l] \/ InRange(v, l - 1)
               /\ \/ v.colorMin >= v.colorMax
                  \/ v.colorMin = w.colorMin + ColorIncrement /\ v.colorMax = w.colorMax
<1> DEFINE to == Min({w.colorMin + ColorIncrement, w.colorMax})
           v == ColorizeInternal(w)
           coloured == ColorizeRange(w.fresh, w.colorMin, to)
<1>1. w.colorMin \in Nat /\ w.colorMax \in Nat /\ ColorIncrement \in Nat \ {0}
  BY ColorIncrementAssumption DEF HasRange
<1>2. to \in Nat /\ to = IF w.colorMin + ColorIncrement <= w.colorMax
                         THEN w.colorMin + ColorIncrement ELSE w.colorMax
  BY <1>1, MinOfTwo
<1> HIDE DEF to
<1>3. /\ w.fresh \in Seq(BOOLEAN)
      /\ coloured \in Seq(BOOLEAN) /\ DOMAIN coloured = DOMAIN w.fresh
      /\ \A l \in DOMAIN w.fresh :
             coloured[l] <=> w.fresh[l] \/ l - 1 \in w.colorMin .. (to - 1)
      /\ \A l \in DOMAIN w.fresh : l - 1 \in Nat
  <2>1. w.fresh \in Seq(BOOLEAN)
    BY DEF HasRange
  <2>2. \A l \in DOMAIN w.fresh : l - 1 \in Nat
    BY <2>1, FreshDomain
  <2>3. /\ coloured \in Seq(BOOLEAN) /\ DOMAIN coloured = DOMAIN w.fresh
        /\ \A l \in DOMAIN w.fresh :
               coloured[l] <=> w.fresh[l] \/ l - 1 \in w.colorMin .. (to - 1)
    BY <1>1, <1>2, <2>1, ColorizeRangeType
  <2> QED BY <2>1, <2>2, <2>3
<1> HIDE DEF coloured
<1>4. CASE w.colorMin >= w.colorMax
  <2>1. v = [w EXCEPT !.scan = FALSE]
    BY <1>4 DEF ColorizeInternal
  <2> HIDE DEF v
  <2>2. /\ DOMAIN v = DOMAIN w /\ v.lines = w.lines /\ v.fresh = w.fresh
        /\ v.colorMin = w.colorMin /\ v.colorMax = w.colorMax
    BY <2>1 DEF HasRange
  <2> QED BY <1>4, <2>2 DEF HasRange, Rotten, InRange, v
<1>5. CASE w.colorMin < w.colorMax /\ to = w.colorMax
  <2>1. v = [[w EXCEPT !.scan = FALSE, !.fresh = coloured]
                 EXCEPT !.colorMin = MaxInt, !.colorMax = 0]
    BY <1>1, <1>5 DEF ColorizeInternal, coloured, to
  <2> HIDE DEF v
  <2>2. /\ DOMAIN v = DOMAIN w /\ v.lines = w.lines /\ v.fresh = coloured
        /\ v.colorMin = MaxInt /\ v.colorMax = 0
    BY <2>1 DEF HasRange
  <2>3. HasRange(v)
    BY <1>3, <2>2 DEF HasRange, MaxInt
  <2>4. Rotten(v) \subseteq Rotten(w)
    BY <1>1, <1>3, <1>5, <2>2 DEF Rotten, MaxInt
  <2>5. v.colorMin >= v.colorMax
    BY <2>2 DEF MaxInt
  <2>6. \A l \in DOMAIN w.fresh : InRange(w, l - 1) => v.fresh[l]
    BY <1>3, <1>5, <2>2 DEF InRange
  <2> QED BY <2>3, <2>4, <2>5, <2>6 DEF v
<1>6. CASE w.colorMin < w.colorMax /\ to # w.colorMax
  <2>1. v = [[w EXCEPT !.scan = FALSE, !.fresh = coloured] EXCEPT !.colorMin = to]
    BY <1>1, <1>6 DEF ColorizeInternal, coloured, to
  <2> HIDE DEF v
  <2>2. /\ DOMAIN v = DOMAIN w /\ v.lines = w.lines /\ v.fresh = coloured
        /\ v.colorMin = to /\ v.colorMax = w.colorMax
    BY <2>1 DEF HasRange
  <2>3. HasRange(v)
    BY <1>1, <1>2, <1>3, <2>2 DEF HasRange
  <2>4. \A l \in DOMAIN w.fresh : InRange(w, l - 1) => v.fresh[l] \/ InRange(v, l - 1)
    <3> SUFFICES ASSUME NEW l \in DOMAIN w.fresh, InRange(w, l - 1), ~InRange(v, l - 1)
                 PROVE  v.fresh[l]
      OBVIOUS
    <3>1. l - 1 \in w.colorMin .. (to - 1)
      BY <1>1, <1>2, <1>3, <2>2 DEF InRange
    <3> QED BY <1>3, <2>2, <3>1
  <2>5. Rotten(v) \subseteq Rotten(w)
    BY <1>1, <1>2, <1>3, <2>2, <2>4 DEF Rotten, InRange
  <2>6. v.colorMin = w.colorMin + ColorIncrement /\ v.colorMax = w.colorMax
    BY <1>1, <1>2, <1>6, <2>2
  <2> QED BY <2>3, <2>4, <2>5, <2>6 DEF v
<1> QED BY <1>1, <1>4, <1>5, <1>6

-----------------------------------------------------------------------------
(* What is put in is what a deletion at the same place takes out again,    *)
(* and the other way round: operations and their inverses.                 *)

(* The text without the stretch from glyph i of line l to glyph j of line  *)
(* m: the lines above, one line of the two ends, the lines under it.       *)
Without(lines, l, i, m, j) ==
    [k \in 1..(Len(lines) - (m - l)) |->
        IF k <= l THEN lines[k]
        ELSE IF k = l + 1
        THEN SubSeq(lines[l + 1], 1, i) \o SubSeq(lines[m + 1], j + 1, Len(lines[m + 1]))
        ELSE lines[k + (m - l)]]

LEMMA SameWithout ==
    ASSUME NEW a, NEW b, IsText(a), IsText(b), Len(a) = Len(b),
           \A k \in 1..Len(a) : a[k] = b[k]
    PROVE  a = b
BY SameSeq DEF IsText

LeavesOut(left, lines, l, i, m, j) ==
    /\ IsText(left) /\ Len(left) = Len(lines) - (m - l)
    /\ \A k \in 1..l : left[k] = lines[k]
    /\ left[l + 1] = SubSeq(lines[l + 1], 1, i) \o SubSeq(lines[m + 1], j + 1, Len(lines[m + 1]))
    /\ \A k \in (l + 2)..(Len(lines) - (m - l)) : left[k] = lines[k + (m - l)]
    /\ IsSeq(SubSeq(lines[l + 1], 1, i)) /\ Len(SubSeq(lines[l + 1], 1, i)) = i
    /\ IsSeq(SubSeq(lines[m + 1], j + 1, Len(lines[m + 1])))
    /\ Len(SubSeq(lines[m + 1], j + 1, Len(lines[m + 1]))) = Len(lines[m + 1]) - j

LEMMA WithoutIsText ==
    ASSUME NEW lines, IsText(lines), NEW l \in 0..(Len(lines) - 1), NEW m \in l..(Len(lines) - 1),
           NEW i \in 0..Len(lines[l + 1]), NEW j \in 0..Len(lines[m + 1])
    PROVE  LeavesOut(Without(lines, l, i, m, j), lines, l, i, m, j)
<1> DEFINE n == Len(lines)
           left == Without(lines, l, i, m, j)
           head == SubSeq(lines[l + 1], 1, i)
           tail == SubSeq(lines[m + 1], j + 1, Len(lines[m + 1]))
           d == m - l
<1>1. n \in Nat /\ n >= 1 /\ \A k \in 1..n : IsSeq(lines[k])
  BY DEF IsText, IsSeq
<1>2. l \in 0..(n - 1) /\ m \in 0..(n - 1) /\ d \in Nat /\ l + d = m /\ l \in Nat
  BY <1>1
<1>3. IsSeq(lines[l + 1]) /\ IsSeq(lines[m + 1])
  BY <1>2, LineIsSeq
<1>4. /\ IsSeq(head) /\ Len(head) = i /\ IsSeq(tail) /\ Len(tail) = Len(lines[m + 1]) - j
  BY <1>3, PartsOfSeq
<1>5. left = [k \in 1..(n - d) |-> IF k <= l THEN lines[k] ELSE IF k = l + 1 THEN head \o tail
                                   ELSE lines[k + d]]
  BY DEF Without
<1> HIDE DEF head, tail, left, n, d
<1>6. IsSeq(head \o tail)
  BY <1>4, ConcatIsSeq
<1>7. n - d \in Nat /\ n - d >= 1 /\ l + 1 \in 1..(n - d)
  BY <1>1, <1>2
<1>8. left = [k \in 1..(n - d) |-> left[k]]
  BY <1>5
<1>9. IsSeq(left) /\ Len(left) = n - d
  BY <1>7, <1>8, ListIsSeq
<1>10. /\ \A k \in 1..l : left[k] = lines[k]
       /\ left[l + 1] = head \o tail
       /\ \A k \in (l + 2)..(n - d) : left[k] = lines[k + d]
  <2>1. \A k \in 1..l : k \in 1..(n - d) /\ k <= l
    BY <1>2, <1>7
  <2>2. \A k \in (l + 2)..(n - d) : k \in 1..(n - d) /\ ~(k <= l) /\ k # l + 1
    BY <1>2, <1>7
  <2>3. ~(l + 1 <= l)
    BY <1>2
  <2> QED BY <1>5, <1>7, <2>1, <2>2, <2>3
<1>11. \A k \in 1..(n - d) : IsSeq(left[k])
  <2> SUFFICES ASSUME NEW k \in 1..(n - d) PROVE IsSeq(left[k])
    OBVIOUS
  <2>1. CASE k <= l
    <3>1. k \in 1..n
      BY <1>1, <1>2
    <3> QED BY <1>1, <1>5, <2>1, <3>1
  <2>2. CASE k = l + 1
    BY <1>6, <1>10, <2>2
  <2>3. CASE ~(k <= l) /\ k # l + 1
    <3>1. k + d \in 1..n
      BY <1>1, <1>2, <2>3
    <3> QED BY <1>1, <1>5, <2>3, <3>1
  <2> QED BY <2>1, <2>2, <2>3
<1>12. IsText(left)
  BY <1>7, <1>9, <1>11 DEF IsText
<1> QED BY <1>4, <1>9, <1>10, <1>12 DEF LeavesOut, head, tail, left, n, d

LEMMA WithoutNothing ==
    ASSUME NEW lines, IsText(lines), NEW l \in 0..(Len(lines) - 1), NEW i \in 0..Len(lines[l + 1])
    PROVE  Without(lines, l, i, l, i) = lines
<1> DEFINE n == Len(lines)
           left == Without(lines, l, i, l, i)
<1>1. n \in Nat /\ l \in Nat /\ n - (l - l) = n /\ l - l = 0 /\ l \in l..(n - 1)
  BY DEF IsText, IsSeq
<1>2. /\ IsText(left) /\ Len(left) = n - (l - l)
      /\ \A k \in 1..l : left[k] = lines[k]
      /\ left[l + 1] = SubSeq(lines[l + 1], 1, i) \o SubSeq(lines[l + 1], i + 1, Len(lines[l + 1]))
      /\ \A k \in (l + 2)..(n - (l - l)) : left[k] = lines[k + (l - l)]
  <2>1. LeavesOut(left, lines, l, i, l, i)
    BY <1>1, WithoutIsText
  <2> QED BY <2>1 DEF LeavesOut
<1> HIDE DEF left
<1>3. left[l + 1] = lines[l + 1]
  BY <1>2, LineIsSeq, PartsOfSeq
<1>4. ASSUME NEW k \in 1..n PROVE left[k] = lines[k]
  <2>1. k \in 1..l \/ k = l + 1 \/ (k \in (l + 2)..n /\ k + 0 = k)
    BY <1>1
  <2> QED BY <1>1, <1>2, <1>3, <2>1
<1> QED BY <1>1, <1>2, <1>4, SameWithout DEF left

-----------------------------------------------------------------------------
LEMMA SameSubSeq ==
    ASSUME NEW s, NEW t, NEW a \in Int, NEW b \in Int, NEW d \in Int,
           \A k \in a..b : s[k] = t[k + d]
    PROVE  SubSeq(s, a, b) = SubSeq(t, a + d, b + d)
<1> DEFINE x == SubSeq(s, a, b)
           y == SubSeq(t, a + d, b + d)
           e == a + d
           f == b + d
<1>0. e \in Int /\ f \in Int
  OBVIOUS
<1>1. /\ IsSeq(x) /\ Len(x) = IF a <= b THEN 1 + b - a ELSE 0
      /\ \A i \in 1..Len(x) : x[i] = s[i + a - 1]
  BY SubSeqIsSeq
<1>2. y = SubSeq(t, e, f)
  OBVIOUS
<1> HIDE DEF x, y
<1>3. /\ IsSeq(y) /\ Len(y) = IF e <= f THEN 1 + f - e ELSE 0
      /\ \A i \in 1..Len(y) : y[i] = t[i + e - 1]
  <2> HIDE DEF e, f
  <2> QED BY <1>0, <1>2, SubSeqIsSeq
<1>4. Len(x) = Len(y)
  BY <1>1, <1>3
<1>5. ASSUME NEW i \in 1..Len(x) PROVE x[i] = y[i]
  <2>1. i + a - 1 \in a..b /\ (i + a - 1) + d = i + e - 1
    BY <1>1
  <2> HIDE DEF e, f
  <2>2. x[i] = s[i + a - 1] /\ s[i + a - 1] = t[(i + a - 1) + d]
    BY <1>1, <2>1
  <2> QED BY <1>3, <1>4, <2>1, <2>2
<1> QED BY <1>1, <1>3, <1>4, <1>5, SameSeq DEF x, y

(* Each glyph, and each line break, of a stretch put back where it was     *)
(* makes what is left out one glyph shorter.                               *)
LEMMA GlyphPutBack ==
    ASSUME NEW lines, IsText(lines), NEW l \in 0..(Len(lines) - 1), NEW m \in l..(Len(lines) - 1),
           NEW i \in 0..Len(lines[l + 1]), i < Len(lines[l + 1]), NEW j \in 0..Len(lines[m + 1]),
           NEW w, Shaped(w), w.lines = Without(lines, l, i, m, j)
    PROVE  AddGlyphToLine(w, l, i, lines[l + 1][i + 1]).lines = Without(lines, l, i + 1, m, j)
<1> DEFINE line == lines[l + 1]
           g == line[i + 1]
           v == AddGlyphToLine(w, l, i, g)
           n == Len(lines)
           left == Without(lines, l, i, m, j)
           less == Without(lines, l, i + 1, m, j)
           head == SubSeq(line, 1, i)
           more == SubSeq(line, 1, i + 1)
           tail == SubSeq(lines[m + 1], j + 1, Len(lines[m + 1]))
           d == m - l
<1>1. n \in Nat /\ l \in Nat /\ m \in 0..(n - 1) /\ d \in Nat /\ n - d \in Nat /\ l <= n - d - 1
  <2>1. n \in Nat
    BY DEF IsText, IsSeq
  <2> QED BY <2>1
<1>2. IsSeq(line) /\ Len(line) \in Nat /\ i + 1 \in 0..Len(line)
  BY LineIsSeq
<1>3. /\ IsText(left) /\ Len(left) = n - d
      /\ \A k \in 1..l : left[k] = lines[k]
      /\ left[l + 1] = head \o tail
      /\ \A k \in (l + 2)..(n - d) : left[k] = lines[k + d]
      /\ IsSeq(head) /\ Len(head) = i /\ IsSeq(tail)
  <2>1. LeavesOut(left, lines, l, i, m, j)
    BY WithoutIsText
  <2> QED BY <2>1 DEF LeavesOut
<1>4. /\ IsText(less) /\ Len(less) = n - d
      /\ \A k \in 1..l : less[k] = lines[k]
      /\ less[l + 1] = more \o tail
      /\ \A k \in (l + 2)..(n - d) : less[k] = lines[k + d]
      /\ IsSeq(more)
  <2> DEFINE h == i + 1
  <2>1. h \in 0..Len(lines[l + 1])
    BY <1>2
  <2> HIDE DEF h
  <2>2. LeavesOut(Without(lines, l, h, m, j), lines, l, h, m, j)
    BY <2>1, WithoutIsText
  <2> QED BY <2>2 DEF h, LeavesOut
<1>5. head \o <<g>> = more
  BY <1>2, PartsOfSeq
<1> HIDE DEF left, less, n, d
<1>6. l \in 0..(Len(w.lines) - 1) /\ w.lines[l + 1] = head \o tail
  BY <1>1, <1>3 DEF left
<1> HIDE DEF tail
<1>7. i \in 0..Len(w.lines[l + 1])
  <2>1. Len(head \o tail) = i + Len(tail) /\ Len(tail) \in Nat
    BY <1>3, ConcatIsSeq DEF IsSeq
  <2> QED BY <1>6, <2>1
<1> HIDE DEF g
<1>8. /\ Shaped(v) /\ Len(v.lines) = Len(w.lines)
      /\ \A k \in 1..Len(w.lines) : k # l + 1 => v.lines[k] = w.lines[k]
      /\ v.lines[l + 1] = (SubSeq(w.lines[l + 1], 1, i) \o <<g>>)
                              \o SubSeq(w.lines[l + 1], i + 1, Len(w.lines[l + 1]))
  <2>1. OneMore(v, w, l, i, g)
    BY <1>6, <1>7, GlyphAdded
  <2> QED BY <2>1 DEF OneMore
<1> HIDE DEF v
<1>9. v.lines[l + 1] = less[l + 1]
  <2>1. SubSeq(head \o tail, 1, i) = head /\ SubSeq(head \o tail, i + 1, Len(head \o tail)) = tail
    <3> HIDE DEF head
    <3> QED BY <1>3, ConcatParts
  <2> QED BY <1>4, <1>5, <1>6, <1>8, <2>1
<1>10. w.lines = left
  BY DEF left
<1>11. ASSUME NEW k \in 1..(n - d) PROVE v.lines[k] = less[k]
  <2>1. k \in 1..l \/ k = l + 1 \/ k \in (l + 2)..(n - d)
    BY <1>1
  <2>2. k # l + 1 => v.lines[k] = left[k]
    BY <1>3, <1>8, <1>10
  <2>3. \A h \in 1..l : h # l + 1
    BY <1>1
  <2>4. \A h \in (l + 2)..(n - d) : h # l + 1
    BY <1>1
  <2> QED BY <1>3, <1>4, <1>9, <2>1, <2>2, <2>3, <2>4
<1>12. IsText(v.lines) /\ Len(v.lines) = n - d
  BY <1>3, <1>8, <1>10 DEF Shaped
<1>13. v.lines = less
  BY <1>4, <1>11, <1>12, SameWithout
<1> QED BY <1>13 DEF v, less, g

LEMMA BreakPutBack ==
    ASSUME NEW lines, IsText(lines), NEW l \in 0..(Len(lines) - 1), NEW m \in l..(Len(lines) - 1), l < m,
           NEW j \in 0..Len(lines[m + 1]),
           NEW w, Shaped(w), w.lines = Without(lines, l, Len(lines[l + 1]), m, j)
    PROVE  BreakLine(w, l, Len(lines[l + 1])).lines = Without(lines, l + 1, 0, m, j)
<1> DEFINE line == lines[l + 1]
           i == Len(line)
           v == BreakLine(w, l, i)
           n == Len(lines)
           left == Without(lines, l, i, m, j)
           less == Without(lines, l + 1, 0, m, j)
           head == SubSeq(line, 1, i)
           none == SubSeq(lines[(l + 1) + 1], 1, 0)
           tail == SubSeq(lines[m + 1], j + 1, Len(lines[m + 1]))
           d == m - l
           e == m - (l + 1)
<1>1. n \in Nat /\ l \in Nat /\ m \in 0..(n - 1) /\ d \in Nat /\ n - d \in Nat /\ l <= n - d - 1
      /\ e = d - 1 /\ n - e = (n - d) + 1 /\ l + 1 \in 0..(n - 1) /\ m \in (l + 1)..(n - 1)
  <2>1. n \in Nat
    BY DEF IsText, IsSeq
  <2> QED BY <2>1
<1>2. IsSeq(line) /\ i \in Nat /\ i \in 0..i
  BY LineIsSeq
<1>3. /\ IsText(left) /\ Len(left) = n - d
      /\ \A k \in 1..l : left[k] = lines[k]
      /\ left[l + 1] = head \o tail
      /\ \A k \in (l + 2)..(n - d) : left[k] = lines[k + d]
      /\ IsSeq(head) /\ Len(head) = i /\ IsSeq(tail)
  <2>1. LeavesOut(left, lines, l, i, m, j)
    <3> HIDE DEF i
    <3>1. i \in 0..Len(lines[l + 1])
      BY <1>2 DEF i
    <3> QED BY <3>1, WithoutIsText
  <2> QED BY <2>1 DEF LeavesOut
<1>4. /\ IsText(less) /\ Len(less) = n - e
      /\ \A k \in 1..(l + 1) : less[k] = lines[k]
      /\ less[(l + 1) + 1] = none \o tail
      /\ \A k \in ((l + 1) + 2)..(n - e) : less[k] = lines[k + e]
      /\ IsSeq(none) /\ Len(none) = 0
  <2> DEFINE b == l + 1
  <2>0. 0 \in 0..Len(lines[b + 1])
    BY <1>1, LineIsSeq
  <2>1. b \in 0..(Len(lines) - 1) /\ m \in b..(Len(lines) - 1)
    BY <1>1
  <2> HIDE DEF b
  <2>2. LeavesOut(Without(lines, b, 0, m, j), lines, b, 0, m, j)
    BY <2>0, <2>1, WithoutIsText
  <2> QED BY <2>2 DEF b, LeavesOut
<1>5. head = line /\ none \o tail = tail
  <2>1. head \o SubSeq(line, i + 1, i) = line
        /\ IsSeq(SubSeq(line, i + 1, i)) /\ Len(SubSeq(line, i + 1, i)) = i - i
    BY <1>2, PartsOfSeq
  <2>2. SubSeq(line, i + 1, i) = <<>>
    BY <1>2, <2>1, EmptySeq
  <2>3. none = <<>>
    BY <1>4, EmptySeq
  <2> HIDE DEF head, none, tail
  <2> QED BY <1>3, <2>1, <2>2, <2>3, ConcatEmpty
<1> HIDE DEF left, less, n, d, e, none
<1>6. l \in 0..(Len(w.lines) - 1) /\ w.lines[l + 1] = head \o tail
  BY <1>1, <1>3 DEF left
<1> HIDE DEF tail
<1>7. i \in 0..Len(w.lines[l + 1])
  <2>1. Len(head \o tail) = i + Len(tail) /\ Len(tail) \in Nat
    BY <1>3, ConcatIsSeq DEF IsSeq
  <2> QED BY <1>2, <1>6, <2>1
<1>8. /\ Len(v.lines) = Len(w.lines) + 1
      /\ \A k \in 1..l : v.lines[k] = w.lines[k]
      /\ v.lines[l + 1] = SubSeq(w.lines[l + 1], 1, i)
      /\ v.lines[l + 2] = SubSeq(w.lines[l + 1], i + 1, Len(w.lines[l + 1]))
      /\ \A k \in (l + 3)..(Len(w.lines) + 1) : v.lines[k] = w.lines[k - 1]
  <2> HIDE DEF i
  <2> QED BY <1>6, <1>7, BrokenLine
<1>9. Shaped(v)
  <2>1. Shape(w, w) /\ i \in Int
    BY <1>2, ShapeOfItself
  <2> HIDE DEF i
  <2> QED BY <1>6, <2>1, BreakLineShape DEF Shape
<1> HIDE DEF v
<1>10. v.lines[l + 1] = line /\ v.lines[l + 2] = tail
  <2>1. SubSeq(head \o tail, 1, i) = head /\ SubSeq(head \o tail, i + 1, Len(head \o tail)) = tail
    <3> HIDE DEF head
    <3> QED BY <1>3, ConcatParts
  <2> QED BY <1>5, <1>6, <1>8, <2>1
<1>11. w.lines = left
  BY DEF left
<1> HIDE DEF i
<1>12. ASSUME NEW k \in 1..(n - e) PROVE v.lines[k] = less[k]
  <2>1. k \in 1..l \/ k = l + 1 \/ k = l + 2 \/ k \in (l + 3)..(n - e)
    BY <1>1
  <2>2. CASE k \in 1..l
    <3>1. k \in 1..(l + 1)
      BY <1>1, <2>2
    <3> QED BY <1>3, <1>4, <1>8, <1>11, <2>2, <3>1
  <2>3. CASE k = l + 1
    <3>1. l + 1 \in 1..(l + 1)
      BY <1>1
    <3> QED BY <1>4, <1>10, <2>3, <3>1
  <2>4. CASE k = l + 2
    <3>1. (l + 1) + 1 = l + 2
      BY <1>1
    <3> QED BY <1>4, <1>5, <1>10, <2>4, <3>1
  <2>5. CASE k \in (l + 3)..(n - e)
    <3>1. k \in ((l + 1) + 2)..(n - e) /\ k - 1 \in (l + 2)..(n - d) /\ (k - 1) + d = k + e
      BY <1>1, <2>5
    <3>2. k \in (l + 3)..(Len(w.lines) + 1)
      BY <1>1, <1>3, <1>11, <2>5
    <3>3. v.lines[k] = left[k - 1]
      BY <1>8, <1>11, <3>2
    <3> QED BY <1>3, <1>4, <3>1, <3>3
  <2> QED BY <2>1, <2>2, <2>3, <2>4, <2>5
<1>13. IsText(v.lines) /\ Len(v.lines) = n - e
  BY <1>1, <1>3, <1>8, <1>9, <1>11 DEF Shaped
<1>14. v.lines = less
  BY <1>4, <1>12, <1>13, SameWithout
<1> QED BY <1>14 DEF v, less, i

(* A glyph or a line break put in, and taken out again.                    *)
LEMMA GlyphTakenOut ==
    ASSUME NEW w, Shaped(w), NEW l \in 0..(Len(w.lines) - 1), NEW m \in l..(Len(w.lines) - 1),
           NEW i \in 0..Len(w.lines[l + 1]), NEW j \in 0..Len(w.lines[m + 1]), l = m => i <= j, NEW g
    PROVE  Without(AddGlyphToLine(w, m, j, g).lines, l, i, m, j + 1) = Without(w.lines, l, i, m, j)
<1> DEFINE v == AddGlyphToLine(w, m, j, g)
           lines == w.lines
           new == v.lines
           n == Len(lines)
           d == m - l
           h == j + 1
           before == Without(lines, l, i, m, j)
           after == Without(new, l, i, m, h)
<1>1. n \in Nat /\ l \in Nat /\ m \in 0..(n - 1) /\ d \in Nat /\ l + d = m /\ IsText(lines)
  BY DomainOfShape DEF Shaped
<1>2. /\ Shaped(v) /\ Len(new) = n
      /\ \A k \in 1..n : k # m + 1 => new[k] = lines[k]
      /\ IsSeq(new[m + 1]) /\ Len(new[m + 1]) = Len(lines[m + 1]) + 1
      /\ \A k \in 1..j : new[m + 1][k] = lines[m + 1][k]
      /\ \A k \in (j + 1)..Len(lines[m + 1]) : new[m + 1][k + 1] = lines[m + 1][k]
  <2>1. OneMore(v, w, m, j, g)
    BY <1>1, GlyphAdded
  <2> QED BY <2>1 DEF OneMore
<1> HIDE DEF v, n, d
<1>3. IsText(new)
  BY <1>2 DEF Shaped
<1>4. /\ IsSeq(lines[l + 1]) /\ Len(lines[l + 1]) \in Nat
      /\ IsSeq(lines[m + 1]) /\ Len(lines[m + 1]) \in Nat
  BY <1>1, LineIsSeq DEF n
<1>5. i \in 0..Len(new[l + 1]) /\ \A k \in 1..i : new[l + 1][k] = lines[l + 1][k]
  <2>1. CASE l = m
    <3>1. i <= j /\ i \in Nat /\ j \in Nat /\ i \in 0..(Len(lines[m + 1]) + 1)
      BY <1>4, <2>1
    <3>2. \A k \in 1..i : k \in 1..j
      BY <3>1
    <3> HIDE DEF lines, new
    <3> QED BY <1>2, <2>1, <3>1, <3>2
  <2>2. CASE l # m
    <3>1. l + 1 \in 1..n /\ l + 1 # m + 1
      BY <1>1, <2>2
    <3> QED BY <1>2, <3>1
  <2> QED BY <2>1, <2>2
<1>6. h \in 0..Len(new[m + 1])
  BY <1>2, <1>4
<1>7. /\ IsText(before) /\ Len(before) = n - d
      /\ \A k \in 1..l : before[k] = lines[k]
      /\ before[l + 1] = SubSeq(lines[l + 1], 1, i) \o SubSeq(lines[m + 1], j + 1, Len(lines[m + 1]))
      /\ \A k \in (l + 2)..(n - d) : before[k] = lines[k + d]
  <2>1. LeavesOut(before, lines, l, i, m, j)
    BY <1>1, WithoutIsText DEF n
  <2> QED BY <2>1 DEF LeavesOut, n, d
<1>8. /\ IsText(after) /\ Len(after) = n - d
      /\ \A k \in 1..l : after[k] = new[k]
      /\ after[l + 1] = SubSeq(new[l + 1], 1, i) \o SubSeq(new[m + 1], h + 1, Len(new[m + 1]))
      /\ \A k \in (l + 2)..(n - d) : after[k] = new[k + d]
  <2>1. l \in 0..(Len(new) - 1) /\ m \in l..(Len(new) - 1)
    BY <1>1, <1>2 DEF n
  <2> HIDE DEF new, h
  <2>2. LeavesOut(after, new, l, i, m, h)
    BY <1>2, <1>3, <1>5, <1>6, <2>1, WithoutIsText
  <2> QED BY <1>2, <2>2 DEF LeavesOut, d
<1> HIDE DEF before, after, new, lines
<1>9. SubSeq(new[l + 1], 1, i) = SubSeq(lines[l + 1], 1, i)
  <2>1. \A k \in 1..i : lines[l + 1][k] = new[l + 1][k + 0]
    BY <1>5
  <2>2. SubSeq(lines[l + 1], 1, i) = SubSeq(new[l + 1], 1 + 0, i + 0)
    BY <2>1, SameSubSeq
  <2>3. 1 + 0 = 1 /\ i + 0 = i
    BY <1>4, <1>5
  <2> QED BY <2>2, <2>3
<1>10. SubSeq(new[m + 1], h + 1, Len(new[m + 1])) = SubSeq(lines[m + 1], j + 1, Len(lines[m + 1]))
  <2> DEFINE b == Len(lines[m + 1])
             a == j + 1
  <2>1. a \in Int /\ b \in Int /\ 1 \in Int /\ a + 1 = h + 1 /\ Len(new[m + 1]) = b + 1
    BY <1>2, <1>4
  <2>2. \A k \in a..b : lines[m + 1][k] = new[m + 1][k + 1]
    BY <1>2
  <2> HIDE DEF a, b, h
  <2>3. SubSeq(lines[m + 1], a, b) = SubSeq(new[m + 1], a + 1, b + 1)
    BY <2>1, <2>2, SameSubSeq
  <2> QED BY <2>1, <2>3 DEF a, b
<1>11. ASSUME NEW k \in 1..(n - d) PROVE after[k] = before[k]
  <2>1. k \in 1..l \/ k = l + 1 \/ k \in (l + 2)..(n - d)
    BY <1>1
  <2>2. CASE k \in 1..l
    <3>1. k \in 1..n /\ k # m + 1
      BY <1>1, <2>2
    <3> QED BY <1>2, <1>7, <1>8, <2>2, <3>1
  <2>3. CASE k = l + 1
    BY <1>7, <1>8, <1>9, <1>10, <2>3
  <2>4. CASE k \in (l + 2)..(n - d)
    <3>1. k + d \in 1..n /\ k + d # m + 1
      BY <1>1, <2>4
    <3> QED BY <1>2, <1>7, <1>8, <2>4, <3>1
  <2> QED BY <2>1, <2>2, <2>3, <2>4
<1>12. after = before
  BY <1>7, <1>8, <1>11, SameWithout
<1> QED BY <1>12 DEF after, before, new, lines, v, h

LEMMA BreakTakenOut ==
    ASSUME NEW w, Shaped(w), NEW l \in 0..(Len(w.lines) - 1), NEW m \in l..(Len(w.lines) - 1),
           NEW i \in 0..Len(w.lines[l + 1]), NEW j \in 0..Len(w.lines[m + 1]), l = m => i <= j
    PROVE  LET v == BreakLine(w, m, j)
           IN  /\ Shaped(v) /\ Len(v.lines) = Len(w.lines) + 1
               /\ i \in 0..Len(v.lines[l + 1])
               /\ Without(v.lines, l, i, m + 1, 0) = Without(w.lines, l, i, m, j)
<1> DEFINE v == BreakLine(w, m, j)
           lines == w.lines
           new == v.lines
           line == lines[m + 1]
           n == Len(lines)
           d == m - l
           h == m + 1
           e == h - l
           before == Without(lines, l, i, m, j)
           after == Without(new, l, i, h, 0)
           head == SubSeq(line, 1, j)
           tail == SubSeq(line, j + 1, Len(line))
<1>1. n \in Nat /\ l \in Nat /\ m \in 0..(n - 1) /\ d \in Nat /\ l + d = m /\ IsText(lines)
      /\ e = d + 1 /\ (n + 1) - e = n - d
  <2>1. n \in Nat /\ IsText(lines)
    BY DomainOfShape DEF Shaped
  <2> QED BY <2>1
<1>2. /\ Len(new) = n + 1
      /\ \A k \in 1..m : new[k] = lines[k]
      /\ new[m + 1] = head
      /\ new[m + 2] = tail
      /\ \A k \in (m + 3)..(n + 1) : new[k] = lines[k - 1]
  BY <1>1, BrokenLine
<1>3. Shaped(v) /\ IsText(new)
  <2>1. Shape(w, w) /\ j \in Int
    BY ShapeOfItself
  <2>2. Shape(v, w)
    BY <1>1, <2>1, BreakLineShape
  <2> QED BY <2>2 DEF Shape, Shaped
<1> HIDE DEF v, n, d, e
<1>4. /\ IsSeq(lines[l + 1]) /\ Len(lines[l + 1]) \in Nat
      /\ IsSeq(line) /\ Len(line) \in Nat
  BY <1>1, LineIsSeq DEF n
<1>5. /\ IsSeq(head) /\ Len(head) = j /\ \A k \in 1..j : head[k] = line[k + 1 - 1]
      /\ IsSeq(tail) /\ Len(tail) = Len(line) - j
  BY <1>4, SubSeqIsSeq, PartsOfSeq
<1> HIDE DEF head, tail
<1>6. i \in 0..Len(new[l + 1]) /\ \A k \in 1..i : new[l + 1][k] = lines[l + 1][k]
  <2>1. CASE l = m
    <3>1. \A k \in 1..i : k \in 1..j /\ k + 1 - 1 = k
      BY <1>4, <2>1
    <3>2. new[l + 1] = head /\ lines[l + 1] = line /\ i \in 0..j
      BY <1>2, <2>1
    <3>3. \A k \in 1..i : head[k] = line[k]
      BY <1>5, <3>1
    <3>4. i \in 0..Len(head)
      BY <1>5, <3>2
    <3> HIDE DEF new, lines, line
    <3> QED BY <3>2, <3>3, <3>4
  <2>2. CASE l # m
    <3>1. l + 1 \in 1..m
      BY <1>1, <2>2
    <3> QED BY <1>2, <3>1
  <2> QED BY <2>1, <2>2
<1>7. /\ IsText(before) /\ Len(before) = n - d
      /\ \A k \in 1..l : before[k] = lines[k]
      /\ before[l + 1] = SubSeq(lines[l + 1], 1, i) \o tail
      /\ \A k \in (l + 2)..(n - d) : before[k] = lines[k + d]
  <2>1. LeavesOut(before, lines, l, i, m, j)
    BY <1>1, WithoutIsText DEF n
  <2> QED BY <2>1 DEF LeavesOut, n, d, tail
<1>8. /\ IsText(after) /\ Len(after) = n - d
      /\ \A k \in 1..l : after[k] = new[k]
      /\ after[l + 1] = SubSeq(new[l + 1], 1, i) \o SubSeq(new[m + 2], 1, Len(new[m + 2]))
      /\ \A k \in (l + 2)..(n - d) : after[k] = new[k + e]
  <2>1. l \in 0..(Len(new) - 1) /\ h \in l..(Len(new) - 1) /\ h + 1 = m + 2
    <3>1. Len(new) = n + 1
      BY <1>2
    <3>2. n \in Nat /\ l \in Nat /\ m \in 0..(n - 1) /\ l <= m
      BY <1>1
    <3> HIDE DEF new
    <3> QED BY <3>1, <3>2
  <2>2. 0 \in 0..Len(new[h + 1]) /\ 0 + 1 = 1
    <3>1. new[h + 1] = tail
      BY <1>2, <2>1
    <3>2. Len(tail) \in Nat
      BY <1>5 DEF IsSeq
    <3> HIDE DEF new, h
    <3> QED BY <3>1, <3>2
  <2>3. Len(new) - (h - l) = n - d
    <3>1. Len(new) = n + 1 /\ h - l = e
      BY <1>2 DEF e
    <3> HIDE DEF new, h
    <3> QED BY <1>1, <3>1
  <2> HIDE DEF new, h
  <2>4. /\ IsText(after) /\ Len(after) = Len(new) - (h - l)
        /\ \A k \in 1..l : after[k] = new[k]
        /\ after[l + 1] = SubSeq(new[l + 1], 1, i) \o SubSeq(new[h + 1], 0 + 1, Len(new[h + 1]))
        /\ \A k \in (l + 2)..(Len(new) - (h - l)) : after[k] = new[k + (h - l)]
    <3>1. LeavesOut(after, new, l, i, h, 0)
      BY <1>3, <1>6, <2>1, <2>2, WithoutIsText
    <3> QED BY <3>1 DEF LeavesOut
  <2> QED BY <2>1, <2>2, <2>3, <2>4 DEF e
<1> HIDE DEF before, after, new, lines, line
<1>9. SubSeq(new[l + 1], 1, i) = SubSeq(lines[l + 1], 1, i)
  <2>1. \A k \in 1..i : lines[l + 1][k] = new[l + 1][k + 0]
    BY <1>6
  <2>2. SubSeq(lines[l + 1], 1, i) = SubSeq(new[l + 1], 1 + 0, i + 0)
    BY <2>1, SameSubSeq
  <2>3. 1 + 0 = 1 /\ i + 0 = i
    BY <1>4, <1>6
  <2> QED BY <2>2, <2>3
<1>10. SubSeq(new[m + 2], 1, Len(new[m + 2])) = tail
  <2> DEFINE z == Len(tail)
             whole == SubSeq(tail, 1, z)
  <2>1. z \in Int /\ z \in Nat /\ 1 \in Int
    BY <1>5 DEF IsSeq
  <2> HIDE DEF z
  <2>2. IsSeq(whole) /\ Len(whole) = z /\ \A k \in 1..Len(whole) : whole[k] = tail[k + 1 - 1]
    BY <2>1, SubSeqIsSeq
  <2>3. \A k \in 1..z : k + 1 - 1 = k
    BY <2>1
  <2> HIDE DEF whole
  <2>4. whole = tail
    BY <1>5, <2>2, <2>3, SameSeq DEF z
  <2> QED BY <1>2, <2>4 DEF whole, z
<1>11. ASSUME NEW k \in 1..(n - d) PROVE after[k] = before[k]
  <2>1. k \in 1..l \/ k = l + 1 \/ k \in (l + 2)..(n - d)
    BY <1>1
  <2>2. CASE k \in 1..l
    <3>1. k \in 1..m
      BY <1>1, <2>2
    <3> QED BY <1>2, <1>7, <1>8, <2>2, <3>1
  <2>3. CASE k = l + 1
    BY <1>7, <1>8, <1>9, <1>10, <2>3
  <2>4. CASE k \in (l + 2)..(n - d)
    <3>1. k + e \in (m + 3)..(n + 1) /\ (k + e) - 1 = k + d
      BY <1>1, <2>4
    <3>2. after[k] = new[k + e]
      BY <1>8, <2>4
    <3>3. new[k + e] = lines[(k + e) - 1]
      BY <1>2, <3>1
    <3>4. before[k] = lines[k + d]
      BY <1>7, <2>4
    <3> QED BY <3>1, <3>2, <3>3, <3>4
  <2> QED BY <2>1, <2>2, <2>3, <2>4
<1>12. after = before
  BY <1>7, <1>8, <1>11, SameWithout
<1> QED BY <1>2, <1>3, <1>6, <1>12 DEF after, before, new, lines, v, h, n

-----------------------------------------------------------------------------
(* A deletion leaves out what lies between the glyphs of its two ends.     *)
LEMMA RangeDeleted ==
    ASSUME NEW w, Sound(w), NEW p \in Places(w.lines), NEW q \in Places(w.lines), p # q,
           GetCharacterIndexL(w.lines, p) \in 0..Len(w.lines[p.line + 1]),
           GetCharacterIndexR(w.lines, q) \in 0..Len(w.lines[q.line + 1]),
           \/ p.line < q.line
           \/ /\ p.line = q.line
              /\ q.column >= GetLineMaxColumn(w.lines, q.line) =>
                     GetCharacterIndexR(w.lines, q) = Len(w.lines[q.line + 1])
    PROVE  DeleteRange(w, p, q).lines
               = Without(w.lines, p.line, GetCharacterIndexL(w.lines, p),
                                  q.line, GetCharacterIndexR(w.lines, q))
<1> DEFINE lines == w.lines
           n == Len(lines)
           l == p.line
           m == q.line
           i == GetCharacterIndexL(lines, p)
           j == GetCharacterIndexR(lines, q)
           d == m - l
           v == DeleteRange(w, p, q)
           left == Without(lines, l, i, m, j)
           head == SubSeq(lines[l + 1], 1, i)
           tail == SubSeq(lines[m + 1], j + 1, Len(lines[m + 1]))
<1>1. /\ n \in Nat /\ IsText(lines) /\ IsSeq(lines) /\ Work(w, w)
      /\ l \in 0..(n - 1) /\ m \in 0..(n - 1) /\ l <= m
  <2>1. n \in Nat /\ IsText(lines) /\ IsSeq(lines) /\ Work(w, w)
    BY DomainOfWork, WorkSucceeds DEF Sound, Shaped
  <2>2. l \in 0..(n - 1) /\ m \in 0..(n - 1)
    BY DEF Places
  <2>3. l < m \/ l = m
    OBVIOUS
  <2> HIDE DEF n, l, m, lines
  <2> QED BY <2>1, <2>2, <2>3
<1>2. /\ d \in Nat /\ l + d = m /\ m \in l..(n - 1) /\ l \in Nat
      /\ l + 1 \in 1..n /\ m + 1 \in 1..n
  <2> HIDE DEF l, m, n
  <2> QED BY <1>1
<1>3. /\ IsSeq(lines[l + 1]) /\ IsSeq(lines[m + 1]) /\ Len(lines[m + 1]) \in Nat
      /\ i \in Nat /\ j \in Nat
  <2>1. IsSeq(lines[l + 1]) /\ IsSeq(lines[m + 1])
        /\ Len(lines[l + 1]) \in Nat /\ Len(lines[m + 1]) \in Nat
    <3> HIDE DEF l, m, lines
    <3> QED BY <1>1, LineIsSeq DEF n
  <2>2. i \in 0..Len(lines[l + 1]) /\ j \in 0..Len(lines[m + 1])
    OBVIOUS
  <2> HIDE DEF i, j, l, m, lines
  <2> QED BY <2>1, <2>2
<1>4. /\ IsText(left) /\ Len(left) = n - d
      /\ \A k \in 1..l : left[k] = lines[k]
      /\ left[l + 1] = head \o tail
      /\ \A k \in (l + 2)..(n - d) : left[k] = lines[k + d]
      /\ IsSeq(head) /\ Len(head) = i /\ IsSeq(tail) /\ Len(tail) = Len(lines[m + 1]) - j
  <2>1. l \in 0..(n - 1) /\ m \in l..(n - 1) /\ i \in 0..Len(lines[l + 1]) /\ j \in 0..Len(lines[m + 1])
    BY <1>1, <1>2
  <2> HIDE DEF lines, l, m, i, j
  <2>2. LeavesOut(left, lines, l, i, m, j)
    BY <1>1, <2>1, WithoutIsText DEF n
  <2> QED BY <2>2 DEF LeavesOut, n
<1> HIDE DEF left
<1>5. CASE ~(l < m)
  <2>1. l = m /\ d = 0
    BY <1>1, <1>2, <1>5
  <2>2. Replaced(v, w, l, head \o tail)
    <3>1. CASE q.column >= GetLineMaxColumn(lines, l)
      <4>1. j = Len(lines[m + 1])
        BY <1>5, <2>1, <3>1
      <4>2. v = RemoveRestOfLine(w, l, i)
        BY <1>5, <3>1 DEF DeleteRange
      <4>3. Replaced(v, w, l, head)
        <5> HIDE DEF v, i, l
        <5> QED BY <4>2, ChangedLines DEF Sound
      <4>4. tail = <<>>
        <5>1. Len(tail) = 0
          BY <1>3, <1>4, <4>1
        <5> HIDE DEF tail
        <5> QED BY <1>4, <5>1, EmptySeq
      <4> HIDE DEF head, tail, v
      <4> QED BY <1>4, <4>3, <4>4, ConcatEmpty
    <3>2. CASE ~(q.column >= GetLineMaxColumn(lines, l))
      <4>1. v = RemoveGlyphsFromLine(w, l, i, j)
        BY <1>5, <3>2 DEF DeleteRange
      <4>2. tail = SubSeq(lines[l + 1], j + 1, Len(lines[l + 1]))
        BY <2>1
      <4> HIDE DEF v, i, j, l, m, tail, lines
      <4>3. Replaced(RemoveGlyphsFromLine(w, l, i, j), w, l,
                     SubSeq(w.lines[l + 1], 1, i) \o SubSeq(w.lines[l + 1], j + 1, Len(w.lines[l + 1])))
        BY ChangedLines DEF Sound
      <4> QED BY <4>1, <4>2, <4>3 DEF lines
    <3> QED BY <3>1, <3>2
  <2> HIDE DEF v, head, tail, lines, l, m, n, d
  <2>3. /\ IsSeq(v.lines) /\ Len(v.lines) = n
        /\ \A k \in 1..n : v.lines[k] = IF k = l + 1 THEN head \o tail ELSE lines[k]
    BY <1>1, <2>2, ReplacedLines DEF n, lines
  <2>4. ASSUME NEW k \in 1..n PROVE v.lines[k] = left[k]
    <3>1. k \in 1..l \/ k = l + 1 \/ (k \in (l + 2)..n /\ k # l + 1)
      BY <1>1, <1>2
    <3>2. \A h \in 1..l : h # l + 1
      BY <1>1, <1>2
    <3>3. n - d = n /\ k + d = k
      BY <1>1, <2>1
    <3> QED BY <1>4, <2>3, <3>1, <3>2, <3>3
  <2>5. IsSeq(left) /\ Len(left) = n
    BY <1>1, <1>4, <2>1 DEF IsText
  <2> QED BY <2>3, <2>4, <2>5, SameSeq DEF v, left, lines, l, m
<1>6. CASE l < m
  <2> DEFINE x == RemoveRestOfLine(w, l, i)
             cut == RemoveGlyphsFromLine(x, m, 0, j)
             y == JoinLines(cut, l, m)
             z == MoveUpFromLastLine(y, p, q)
  <2>1. v = RemoveLines(z, l + 1, m + 1)
    BY <1>6 DEF DeleteRange
  <2> HIDE DEF v
  <2>2. Work(x, w) /\ Len(x.lines) = n /\ Replaced(x, w, l, head)
    <3> HIDE DEF i, l
    <3>1. Replaced(RemoveRestOfLine(w, l, i), w, l, SubSeq(w.lines[l + 1], 1, i))
      BY ChangedLines DEF Sound
    <3>2. i \in Cuts(w.lines[l + 1])
      BY CutsOfRange DEF i, l
    <3> QED BY <1>1, <3>1, <3>2, RemoveRestWork
  <2> HIDE DEF x
  <2>3. \A k \in 1..n : x.lines[k] = IF k = l + 1 THEN head ELSE lines[k]
    <3> HIDE DEF head, lines, l
    <3> QED BY <1>1, <2>2, ReplacedLines DEF n, lines
  <2>4. Work(cut, w) /\ Len(cut.lines) = n
        /\ \A k \in 1..n : cut.lines[k] = IF k = m + 1 THEN tail ELSE x.lines[k]
    <3>1. m + 1 # l + 1
      <4> HIDE DEF l, m
      <4> QED BY <1>1, <1>6
    <3>2. x.lines[m + 1] = lines[m + 1]
      BY <1>2, <2>3, <3>1
    <3>3. 0 \in Int /\ m \in 0..(Len(x.lines) - 1)
      BY <1>1, <2>2
    <3> HIDE DEF lines, l, m, j, n
    <3>4. Work(cut, w) /\ Len(cut.lines) = n
      <4>1. 0 \in Cuts(x.lines[m + 1])
        BY <2>2, CutsOfRange DEF Work, m, n, lines
      <4>2. j \in 0..Len(x.lines[m + 1])
        BY <3>2 DEF j, m, lines
      <4> QED BY <2>2, <3>3, <4>1, <4>2, RemoveGlyphsWork
    <3>5. Replaced(cut, x, m, SubSeq(x.lines[m + 1], 1, 0)
                                  \o SubSeq(x.lines[m + 1], j + 1, Len(x.lines[m + 1])))
      <4>1. Shaped(x)
        BY <2>2 DEF Work, Sound
      <4> QED BY <4>1, ChangedLines
    <3> HIDE DEF cut
    <3>6. SubSeq(x.lines[m + 1], 1, 0) = <<>>
      <4>1. IsSeq(SubSeq(x.lines[m + 1], 1, 0)) /\ Len(SubSeq(x.lines[m + 1], 1, 0)) = 0
        BY SubSeqIsSeq
      <4> QED BY <4>1, EmptySeq
    <3>7. <<>> \o tail = tail
      <4> HIDE DEF tail
      <4> QED BY <1>4, ConcatEmpty
    <3>8. Replaced(cut, x, m, tail)
      BY <3>2, <3>5, <3>6, <3>7
    <3>9. IsSeq(x.lines)
      BY <2>2, DomainOfWork DEF Work
    <3> HIDE DEF tail
    <3> QED BY <2>2, <3>4, <3>8, <3>9, ReplacedLines
  <2> HIDE DEF cut
  <2>5. cut.lines[l + 1] = head /\ cut.lines[m + 1] = tail
        /\ \A k \in 1..n : k # l + 1 /\ k # m + 1 => cut.lines[k] = lines[k]
    <3>1. m + 1 # l + 1
      <4> HIDE DEF l, m
      <4> QED BY <1>1, <1>6
    <3> HIDE DEF head, tail, lines, l, m
    <3> QED BY <1>2, <2>3, <2>4, <3>1
  <2>6. Work(y, w) /\ Len(y.lines) = n
        /\ \A k \in 1..n : y.lines[k] = IF k = l + 1 THEN head \o tail ELSE cut.lines[k]
    <3>1. l \in 0..(Len(cut.lines) - 1) /\ m \in 0..(Len(cut.lines) - 1)
      BY <1>1, <2>4
    <3> HIDE DEF head, tail, lines, l, m, n, i
    <3>2. Work(y, w) /\ Len(y.lines) = n
      BY <2>4, <3>1, JoinLinesWork
    <3>3. LineSize(cut.lines, l) = i
      BY <1>4, <2>5 DEF LineSize
    <3>4. y = AddGlyphsToLine(cut, l, i, tail)
      BY <2>5, <3>3 DEF JoinLines
    <3>5. Replaced(y, cut, l, SubSeq(head, 1, i) \o tail \o SubSeq(head, i + 1, Len(head)))
      <4>1. Shaped(cut)
        BY <2>4 DEF Work, Sound
      <4>2. Replaced(AddGlyphsToLine(cut, l, i, tail), cut, l, SubSeq(cut.lines[l + 1], 1, i) \o tail
                         \o SubSeq(cut.lines[l + 1], i + 1, Len(cut.lines[l + 1])))
        BY <4>1, ChangedLines
      <4> QED BY <2>5, <3>4, <4>2
    <3>6. SubSeq(head, 1, i) = head /\ SubSeq(head, i + 1, Len(head)) = <<>>
      <4>0. i \in 0..Len(head) /\ Len(head) - i = 0
        BY <1>3, <1>4
      <4>1. /\ SubSeq(head, 1, i) \o SubSeq(head, i + 1, Len(head)) = head
            /\ IsSeq(SubSeq(head, 1, i)) /\ IsSeq(SubSeq(head, i + 1, Len(head)))
            /\ Len(SubSeq(head, i + 1, Len(head))) = Len(head) - i
        BY <1>4, <4>0, PartsOfSeq
      <4>3. SubSeq(head, i + 1, Len(head)) = <<>>
        BY <4>0, <4>1, EmptySeq
      <4> QED BY <4>1, <4>3, ConcatEmpty
    <3>7. (head \o tail) \o <<>> = head \o tail
      BY <1>4, ConcatIsSeq, ConcatEmpty
    <3>8. Replaced(y, cut, l, head \o tail)
      BY <3>5, <3>6, <3>7
    <3>9. IsSeq(cut.lines)
      BY <2>4, DomainOfWork DEF Work
    <3> QED BY <2>4, <3>2, <3>8, <3>9, ReplacedLines
  <2> HIDE DEF y
  <2>7. Work(z, w) /\ z.lines = y.lines
    <3>1. p \in Places(y.lines)
      BY <2>6, SamePlaces
    <3> QED BY <2>6, <3>1, MoveUpFromLastLineWork
  <2> HIDE DEF z
  <2>8. v.lines = SubSeq(y.lines, 1, l + 1) \o SubSeq(y.lines, (m + 1) + 1, n)
    <3>1. "lines" \in DOMAIN z
      BY <2>7 DEF Work, Sound, Shaped, WorkFields
    <3>2. RemoveLines(z, l + 1, m + 1).lines = WithoutLines(z.lines, l + 1, m + 1)
      BY <3>1 DEF RemoveLines
    <3> HIDE DEF l, m
    <3> QED BY <2>1, <2>6, <2>7, <3>2 DEF WithoutLines
  <2> DEFINE above == SubSeq(y.lines, 1, l + 1)
             under == SubSeq(y.lines, (m + 1) + 1, n)
  <2>9. /\ IsSeq(above) /\ Len(above) = l + 1
        /\ \A k \in 1..(l + 1) : above[k] = y.lines[k + 1 - 1]
    <3> DEFINE b == l + 1
    <3>1. b \in Nat /\ 1 \in Int /\ b \in Int /\ (IF 1 <= b THEN 1 + b - 1 ELSE 0) = b
      BY <1>2
    <3> HIDE DEF b
    <3>2. /\ IsSeq(SubSeq(y.lines, 1, b)) /\ Len(SubSeq(y.lines, 1, b)) = b
          /\ \A k \in 1..b : SubSeq(y.lines, 1, b)[k] = y.lines[k + 1 - 1]
      BY <3>1, SubSeqIsSeq
    <3> QED BY <3>2 DEF b
  <2>10. /\ IsSeq(under) /\ Len(under) = n - (m + 1)
         /\ \A k \in 1..(n - (m + 1)) : under[k] = y.lines[k + (m + 2) - 1]
    <3> DEFINE a == (m + 1) + 1
    <3>1. a \in Int /\ a = m + 2 /\ n \in Int /\ (IF a <= n THEN 1 + n - a ELSE 0) = n - (m + 1)
      <4> HIDE DEF l, m, n
      <4> QED BY <1>1, <1>2
    <3> HIDE DEF a, n
    <3>2. /\ IsSeq(SubSeq(y.lines, a, n)) /\ Len(SubSeq(y.lines, a, n)) = n - (m + 1)
          /\ \A k \in 1..Len(SubSeq(y.lines, a, n)) : SubSeq(y.lines, a, n)[k] = y.lines[k + a - 1]
      BY <3>1, SubSeqIsSeq
    <3> QED BY <3>1, <3>2 DEF a
  <2> HIDE DEF above, under, l, m, n, d, head, tail, lines
  <2>11. /\ IsSeq(v.lines) /\ Len(v.lines) = (l + 1) + (n - (m + 1))
         /\ \A k \in 1..((l + 1) + (n - (m + 1))) :
                v.lines[k] = IF k <= l + 1 THEN above[k] ELSE under[k - (l + 1)]
    <3>1. v.lines = above \o under
      BY <2>8 DEF above, under
    <3>2. /\ IsSeq(v.lines) /\ Len(v.lines) = Len(above) + Len(under)
          /\ \A k \in 1..(Len(above) + Len(under)) :
                 v.lines[k] = IF k <= Len(above) THEN above[k] ELSE under[k - Len(above)]
      <4> DEFINE both == above \o under
      <4>1. /\ IsSeq(both) /\ Len(both) = Len(above) + Len(under)
            /\ \A k \in 1..(Len(above) + Len(under)) :
                   both[k] = IF k <= Len(above) THEN above[k] ELSE under[k - Len(above)]
        BY <2>9, <2>10, ConcatIsSeq
      <4>2. v.lines = both
        BY <3>1
      <4> HIDE DEF both
      <4> QED BY <4>1, <4>2
    <3> QED BY <2>9, <2>10, <3>2
  <2>12. (l + 1) + (n - (m + 1)) = n - d
    BY <1>1, <1>2
  <2>13. ASSUME NEW k \in 1..(n - d) PROVE v.lines[k] = left[k]
    <3>1. k \in 1..l \/ k = l + 1 \/ k \in (l + 2)..(n - d)
      BY <1>1, <1>2
    <3>2. CASE k \in 1..l
      <4>1. /\ k <= l + 1 /\ k \in 1..(l + 1) /\ k + 1 - 1 = k /\ k \in 1..n
            /\ k # l + 1 /\ k # m + 1
        BY <1>1, <1>2, <3>2
      <4>2. v.lines[k] = y.lines[k]
        BY <2>9, <2>11, <2>12, <4>1
      <4> QED BY <1>4, <2>5, <2>6, <3>2, <4>1, <4>2
    <3>3. CASE k = l + 1
      <4>1. l + 1 <= l + 1 /\ l + 1 \in 1..(l + 1) /\ (l + 1) + 1 - 1 = l + 1
        BY <1>2
      <4>2. v.lines[k] = y.lines[l + 1]
        BY <2>9, <2>11, <2>12, <3>3, <4>1
      <4> QED BY <1>2, <1>4, <2>6, <3>3, <4>2
    <3>4. CASE k \in (l + 2)..(n - d)
      <4>1. /\ ~(k <= l + 1) /\ k - (l + 1) \in 1..(n - (m + 1))
            /\ (k - (l + 1)) + (m + 2) - 1 = k + d
            /\ k + d \in 1..n /\ k + d # l + 1 /\ k + d # m + 1
        BY <1>1, <1>2, <3>4
      <4>2. v.lines[k] = under[k - (l + 1)]
        BY <2>11, <2>12, <4>1
      <4>3. v.lines[k] = y.lines[k + d]
        BY <2>10, <4>1, <4>2
      <4> QED BY <1>4, <2>5, <2>6, <3>4, <4>1, <4>3
    <3> QED BY <3>1, <3>2, <3>3, <3>4
  <2>14. IsSeq(left) /\ Len(left) = n - d
    BY <1>4 DEF IsText
  <2>15. v.lines = left
    BY <2>11, <2>12, <2>13, <2>14, SameSeq
  <2> QED BY <2>15 DEF v, left, lines, l, m
<1> QED BY <1>5, <1>6

-----------------------------------------------------------------------------
(* The stops of a line up to some glyph are told by the glyphs before it.  *)
LEMMA StopsByNumber ==
    ASSUME NEW line, Len(line) \in Nat
    PROVE  \E f : /\ IsWalk(line, Len(line), f)
                  /\ Stops(line) = {f[k] : k \in 0..Len(line)}
<1> DEFINE n == Len(line)
           f == CHOOSE g : IsWalk(line, n, g)
<1>1. IsWalk(line, n, f)
  BY WalkExists
<1>2. Stops(line) = {f[k] : k \in 0..n}
  BY DEF Stops, IsWalk, NextStop, Origin
<1> QED BY <1>1, <1>2

LEMMA StopsGoOn ==
    ASSUME NEW line, Len(line) \in Nat, NEW s \in Stops(line), s.index < Len(line)
    PROVE  MoveCharIndexAndColumn(line, s) \in Stops(line)
<1> DEFINE n == Len(line)
<1>1. PICK f : IsWalk(line, n, f) /\ Stops(line) = {f[k] : k \in 0..n}
  BY StopsByNumber
<1>2. PICK k \in 0..n : s = f[k]
  BY <1>1
<1>3. f[k] \in [index : Nat, column : Nat] /\ (f[k].index >= k \/ f[k].index >= n)
  BY <1>1, WalkOrdered
<1>4. k < n
  BY <1>2, <1>3
<1>5. k + 1 \in 1..n /\ k + 1 \in 0..n /\ (k + 1) - 1 = k
  BY <1>4
<1>6. f[k + 1] = NextStop(line, s)
  BY <1>1, <1>2, <1>5 DEF IsWalk
<1> QED BY <1>1, <1>5, <1>6 DEF NextStop

LEMMA StopsOfPrefix ==
    ASSUME NEW line, Len(line) \in Nat, NEW other, Len(other) \in Nat,
           NEW s \in Stops(line), s.index <= Len(line), s.index <= Len(other),
           \A k \in 1..s.index : other[k] = line[k]
    PROVE  s \in Stops(other)
<1> DEFINE n == Len(line)
<1>1. PICK f : IsWalk(line, n, f) /\ Stops(line) = {f[k] : k \in 0..n}
  BY StopsByNumber
<1>2. \A k \in 0..n : f[k] \in [index : Nat, column : Nat]
  BY <1>1, WalkOrdered
<1>3. f[0] = Origin /\ \A k \in 1..n : f[k] = NextStop(line, f[k - 1])
  BY <1>1 DEF IsWalk
<1>4. s.index \in Nat
  BY <1>1, <1>2
<1> DEFINE S == {k \in Nat : k <= n /\ f[k].index <= s.index => f[k] \in Stops(other)}
<1>5. 0 \in S
  BY <1>3, StopsOrdered
<1>6. ASSUME NEW k \in Nat, k \in S PROVE k + 1 \in S
  <2> SUFFICES ASSUME k + 1 <= n, f[k + 1].index <= s.index PROVE f[k + 1] \in Stops(other)
    OBVIOUS
  <2>1. k \in 0..n /\ k + 1 \in 1..n /\ (k + 1) - 1 = k
    OBVIOUS
  <2>2. f[k + 1] = NextStop(line, f[k]) /\ f[k] \in [index : Nat, column : Nat] /\ f[k].index \in Nat
    BY <1>2, <1>3, <2>1
  <2>3. CASE f[k].index >= n
    <3>1. f[k + 1] = f[k]
      BY <2>2, <2>3, NextStopType
    <3> QED BY <1>6, <2>1, <3>1
  <2>4. CASE f[k].index < n
    <3>1. f[k].index < f[k + 1].index
      BY <2>2, <2>4, NextStopType DEF Ahead
    <3>2. f[k + 1].index \in Nat
      BY <1>2, <2>1
    <3>3. f[k].index < s.index /\ f[k].index < Len(other) /\ f[k].index + 1 \in 1..s.index
      BY <1>4, <2>2, <3>1, <3>2
    <3>4. f[k] \in Stops(other)
      BY <1>6, <2>1, <2>2, <3>3, <1>4
    <3>5. MoveCharIndexAndColumn(other, f[k]) \in Stops(other)
      BY <3>3, <3>4, StopsGoOn
    <3>6. f[k + 1] = MoveCharIndexAndColumn(line, f[k])
      BY <2>2, <2>4 DEF NextStop
    <3>7. other[f[k].index + 1] = line[f[k].index + 1]
      BY <3>3
    <3>8. MoveCharIndexAndColumn(line, f[k]) = MoveCharIndexAndColumn(other, f[k])
      BY <3>7 DEF MoveCharIndexAndColumn
    <3> QED BY <3>5, <3>6, <3>8
  <2> QED BY <2>2, <2>3, <2>4
<1>7. Nat \subseteq S
  <2> HIDE DEF S
  <2> QED BY <1>5, <1>6, SetInduction
<1>8. PICK k \in 0..n : s = f[k]
  BY <1>1
<1>9. k \in S
  BY <1>7
<1> QED BY <1>4, <1>8, <1>9

(* The edges of whole characters: the coordinates a text can be taken out  *)
(* or put in at without breaking a character.                              *)
Edges(lines) ==
    {p \in Places(lines) :
        \E s \in Stops(lines[p.line + 1]) : s.column = p.column /\ s.index <= Len(lines[p.line + 1])}

(* At an edge both readings of a column give the one glyph, and so they do *)
(* in any text that has the same glyphs before it on the line.             *)
LEMMA EdgeIndex ==
    ASSUME NEW lines, IsText(lines), NEW p \in Edges(lines)
    PROVE  \E s \in Stops(lines[p.line + 1]) :
               /\ p = At(p.line, s.column) /\ p.line \in 0..(Len(lines) - 1)
               /\ s.index \in 0..Len(lines[p.line + 1]) /\ s.index \in Nat
               /\ GetCharacterIndexR(lines, p) = s.index
               /\ GetCharacterIndexL(lines, p) = s.index
<1>1. /\ p \in Places(lines) /\ p.line \in 0..(Len(lines) - 1)
      /\ p = At(p.line, p.column)
  BY DEF Edges, Places, At
<1>2. PICK s \in Stops(lines[p.line + 1]) : s.column = p.column /\ s.index <= Len(lines[p.line + 1])
  BY DEF Edges
<1>3. s.index \in Nat /\ Len(lines[p.line + 1]) \in Nat
  BY <1>1, LineInText, StopsOrdered
<1>4. /\ GetCharacterIndexR(lines, At(p.line, s.column)) = s.index
      /\ GetCharacterIndexL(lines, At(p.line, s.column)) = s.index
  BY <1>1, IndexRoundTrips
<1>5. At(p.line, s.column) = p
  BY <1>1, <1>2
<1>6. s.index \in 0..Len(lines[p.line + 1])
  BY <1>2, <1>3
<1> QED BY <1>1, <1>3, <1>4, <1>5, <1>6

LEMMA EdgeStays ==
    ASSUME NEW lines, IsText(lines), NEW l \in 0..(Len(lines) - 1),
           NEW s \in Stops(lines[l + 1]), s.index <= Len(lines[l + 1]),
           NEW others, IsText(others), l \in 0..(Len(others) - 1), s.index <= Len(others[l + 1]),
           \A k \in 1..s.index : others[l + 1][k] = lines[l + 1][k]
    PROVE  /\ s \in Stops(others[l + 1]) /\ At(l, s.column) \in Edges(others)
           /\ GetCharacterIndexR(others, At(l, s.column)) = s.index
           /\ GetCharacterIndexL(others, At(l, s.column)) = s.index
           /\ GetCharacterColumn(others, l, s.index) = s.column
<1>1. Len(lines[l + 1]) \in Nat /\ Len(others[l + 1]) \in Nat
  BY LineInText
<1>2. s \in Stops(others[l + 1])
  BY <1>1, StopsOfPrefix
<1>3. s.column \in Nat
  BY <1>1, StopsOrdered
<1>4. At(l, s.column) \in Places(others) /\ At(l, s.column).line = l /\ At(l, s.column).column = s.column
  BY <1>3, AtIsPlace
<1>5. At(l, s.column) \in Edges(others)
  BY <1>2, <1>4 DEF Edges
<1> QED BY <1>2, <1>5, IndexRoundTrips

-----------------------------------------------------------------------------
(* Where the lines lie in the text as one sequence.                        *)
LEMMA OffsetStep ==
    ASSUME NEW lines, IsText(lines), NEW l \in Nat, l + 1 \in 0..(Len(lines) - 1)
    PROVE  OffsetOfLine(lines, l + 1) = OffsetOfLine(lines, l) + Len(lines[l + 1]) + 1
<1>1. l \in 0..(Len(lines) - 1)
  BY DEF IsText, IsSeq
<1>2. PICK f : /\ f[0] = 0
               /\ \A k \in 1..l : f[k] = f[k - 1] + Len(lines[k]) + 1
               /\ OffsetOfLine(lines, l) = f[l]
  BY <1>1, OffsetRun
<1>3. PICK g : /\ g[0] = 0
               /\ \A k \in 1..(l + 1) : g[k] = g[k - 1] + Len(lines[k]) + 1
               /\ OffsetOfLine(lines, l + 1) = g[l + 1]
  BY OffsetRun
<1> DEFINE S == {k \in Nat : k <= l => f[k] = g[k]}
<1>4. 0 \in S
  BY <1>2, <1>3
<1>5. ASSUME NEW k \in Nat, k \in S PROVE k + 1 \in S
  <2> SUFFICES ASSUME k + 1 <= l PROVE f[k + 1] = g[k + 1]
    OBVIOUS
  <2>1. k + 1 \in 1..l /\ k + 1 \in 1..(l + 1) /\ (k + 1) - 1 = k /\ k <= l
    OBVIOUS
  <2>2. f[k] = g[k]
    BY <1>5, <2>1
  <2> QED BY <1>2, <1>3, <2>1, <2>2
<1>6. Nat \subseteq S
  <2> HIDE DEF S
  <2> QED BY <1>4, <1>5, SetInduction
<1>7. f[l] = g[l]
  <2>1. l \in S /\ l <= l
    BY <1>6
  <2> QED BY <2>1
<1>8. l + 1 \in 1..(l + 1) /\ (l + 1) - 1 = l
  OBVIOUS
<1>9. g[l + 1] = g[l] + Len(lines[l + 1]) + 1
  BY <1>3, <1>8
<1> QED BY <1>2, <1>3, <1>7, <1>9

LEMMA OffsetsRise ==
    ASSUME NEW lines, IsText(lines), NEW l \in 0..(Len(lines) - 1), NEW m \in 0..(Len(lines) - 1), l < m
    PROVE  OffsetOfLine(lines, l) + Len(lines[l + 1]) + 1 <= OffsetOfLine(lines, m)
<1> DEFINE n == Len(lines)
           Off(k) == OffsetOfLine(lines, k)
           S == {k \in Nat : l + 1 + k <= n - 1 => Off(l) + Len(lines[l + 1]) + 1 <= Off(l + 1 + k)}
<1>1. n \in Nat /\ l \in Nat
  BY DEF IsText, IsSeq
<1>2. \A k \in 0..(n - 1) : Off(k) \in Nat /\ Len(lines[k + 1]) \in Nat
  BY OffsetIsNat, LineIsSeq
<1>3. \A k \in Nat : k + 1 <= n - 1 => Off(k + 1) = Off(k) + Len(lines[k + 1]) + 1
  <2> SUFFICES ASSUME NEW k \in Nat, k + 1 <= n - 1
               PROVE  Off(k + 1) = Off(k) + Len(lines[k + 1]) + 1
    OBVIOUS
  <2>1. k + 1 \in 0..(Len(lines) - 1)
    BY <1>1
  <2> QED BY <2>1, OffsetStep
<1> HIDE DEF Off, n
<1>4. 0 \in S
  <2>1. l + 1 + 0 = l + 1
    BY <1>1
  <2>2. ASSUME l + 1 <= n - 1 PROVE Off(l) + Len(lines[l + 1]) + 1 <= Off(l + 1)
    <3>1. l \in 0..(n - 1) /\ l + 1 \in 0..(n - 1)
      BY <1>1, <2>2
    <3>2. Off(l + 1) = Off(l) + Len(lines[l + 1]) + 1
      BY <1>1, <1>3, <2>2
    <3> QED BY <1>2, <3>1, <3>2
  <2> QED BY <2>1, <2>2
<1>5. ASSUME NEW k \in Nat, k \in S PROVE k + 1 \in S
  <2> DEFINE h == l + 1 + k
             low == Off(l) + Len(lines[l + 1]) + 1
  <2>0. l + 1 + (k + 1) = h + 1 /\ h \in Nat
    BY <1>1
  <2> SUFFICES ASSUME h + 1 <= n - 1 PROVE low <= Off(h + 1)
    BY <2>0
  <2>1. h <= n - 1 /\ h \in 0..(n - 1) /\ l \in 0..(n - 1)
    BY <1>1, <2>0
  <2>2. low <= Off(h)
    BY <1>5, <2>1
  <2>3. Off(h + 1) = Off(h) + Len(lines[h + 1]) + 1
    BY <1>3, <2>0
  <2>4. low \in Nat
    <3>1. Off(l) \in Nat /\ Len(lines[l + 1]) \in Nat
      BY <1>2, <2>1
    <3> QED BY <3>1
  <2>5. Off(h) \in Nat /\ Len(lines[h + 1]) \in Nat
    <3> HIDE DEF h
    <3> QED BY <1>2, <2>1
  <2> HIDE DEF low, h
  <2> QED BY <2>2, <2>3, <2>4, <2>5
<1>6. Nat \subseteq S
  <2> HIDE DEF S
  <2> QED BY <1>4, <1>5, SetInduction
<1>7. m - (l + 1) \in Nat /\ l + 1 + (m - (l + 1)) = m /\ m <= n - 1
  BY <1>1 DEF n
<1>8. m - (l + 1) \in S
  BY <1>6, <1>7
<1>9. Off(l) + Len(lines[l + 1]) + 1 <= Off(m)
  BY <1>7, <1>8
<1> QED BY <1>9 DEF Off

(* The lines as they lie in a text t of n of them.                         *)
Lies(lines, t, n) ==
    /\ IsSeq(t)
    /\ Len(t) = OffsetOfLine(lines, n - 1) + Len(lines[n])
    /\ \A l \in 0..(n - 1) : \A i \in 1..Len(lines[l + 1]) :
           t[OffsetOfLine(lines, l) + i] = lines[l + 1][i]
    /\ \A l \in 0..(n - 2) : t[OffsetOfLine(lines, l) + Len(lines[l + 1]) + 1] = NewLine

LEMMA LiesOn ==
    ASSUME NEW lines, IsText(lines), NEW n \in Nat, n >= 1, n + 1 <= Len(lines), NEW t, Lies(lines, t, n)
    PROVE  Lies(lines, JoinLine(t, lines[n + 1]), n + 1)
<1> DEFINE line == lines[n + 1]
           one == <<NewLine>>
           top == t \o one
           u == JoinLine(t, line)
           Off(l) == OffsetOfLine(lines, l)
           a == Len(t)
           b == Len(line)
<1>1. /\ n - 1 \in Nat /\ n - 1 \in 0..(Len(lines) - 1) /\ n \in 0..(Len(lines) - 1) /\ (n - 1) + 1 = n
      /\ n - 1 + 1 \in 0..(Len(lines) - 1) /\ Len(lines) \in Nat
  BY DEF IsText, IsSeq
<1>2. \A l \in 0..n : Off(l) \in Nat /\ IsSeq(lines[l + 1]) /\ Len(lines[l + 1]) \in Nat
  <2> SUFFICES ASSUME NEW l \in 0..n
               PROVE  Off(l) \in Nat /\ IsSeq(lines[l + 1]) /\ Len(lines[l + 1]) \in Nat
    OBVIOUS
  <2>1. l \in 0..(Len(lines) - 1)
    BY <1>1
  <2> QED BY <2>1, OffsetIsNat, LineIsSeq
<1>3. Off(n) = Off(n - 1) + Len(lines[n]) + 1
  <2>1. OffsetOfLine(lines, (n - 1) + 1) = OffsetOfLine(lines, n - 1) + Len(lines[(n - 1) + 1]) + 1
    BY <1>1, OffsetStep
  <2> QED BY <1>1, <2>1
<1>4. IsSeq(t) /\ a \in Nat /\ a = Off(n - 1) + Len(lines[n])
  BY DEF Lies, IsSeq
<1>5. \A l \in 0..(n - 1) : Off(l) + Len(lines[l + 1]) <= a
  <2> SUFFICES ASSUME NEW l \in 0..(n - 1) PROVE Off(l) + Len(lines[l + 1]) <= a
    OBVIOUS
  <2>1. CASE l = n - 1
    BY <1>1, <1>2, <1>4, <2>1
  <2>2. CASE l # n - 1
    <3>1. l < n - 1 /\ l \in 0..(Len(lines) - 1) /\ l \in 0..n /\ n - 1 \in 0..n
      BY <1>1, <2>2
    <3>2. Off(l) + Len(lines[l + 1]) + 1 <= Off(n - 1)
      BY <1>1, <3>1, OffsetsRise
    <3>3. Len(lines[n]) \in Nat
      BY <1>1, <1>2, <3>1
    <3>4. Off(l) \in Nat /\ Len(lines[l + 1]) \in Nat /\ Off(n - 1) \in Nat
      BY <1>2, <3>1
    <3> DEFINE x == Off(l)
               y == Off(n - 1)
               z == Len(lines[l + 1])
               c == Len(lines[n])
    <3>5. x \in Nat /\ y \in Nat /\ z \in Nat /\ c \in Nat /\ x + z + 1 <= y /\ a = y + c
      BY <1>4, <3>2, <3>3, <3>4
    <3> HIDE DEF x, y, z, c, a
    <3>6. x + z <= a
      BY <3>5
    <3> QED BY <3>6 DEF x, z
  <2> QED BY <2>1, <2>2
<1>6. /\ \A l \in 0..(n - 1) : \A i \in 1..Len(lines[l + 1]) : t[Off(l) + i] = lines[l + 1][i]
      /\ \A l \in 0..(n - 2) : t[Off(l) + Len(lines[l + 1]) + 1] = NewLine
  BY DEF Lies
<1>7. IsSeq(one) /\ Len(one) = 1 /\ one[1] = NewLine
  BY SmallSeqs
<1>8. IsSeq(line) /\ b \in Nat
  BY <1>1, <1>2
<1>9. u = top \o line
  BY DEF JoinLine
<1> HIDE DEF Off, one, u, a, b
<1>10. /\ IsSeq(top) /\ Len(top) = a + 1
       /\ \A i \in 1..(a + 1) : top[i] = IF i <= a THEN t[i] ELSE one[i - a]
  <2>1. /\ IsSeq(top) /\ Len(top) = Len(t) + Len(one)
        /\ \A i \in 1..(Len(t) + Len(one)) :
               top[i] = IF i <= Len(t) THEN t[i] ELSE one[i - Len(t)]
    BY <1>4, <1>7, ConcatIsSeq
  <2> QED BY <1>7, <2>1 DEF a
<1> HIDE DEF top
<1>11. /\ IsSeq(u) /\ Len(u) = (a + 1) + b
       /\ \A i \in 1..((a + 1) + b) : u[i] = IF i <= a + 1 THEN top[i] ELSE line[i - (a + 1)]
  <2> DEFINE all == top \o line
  <2>1. /\ IsSeq(all) /\ Len(all) = Len(top) + Len(line)
        /\ \A i \in 1..(Len(top) + Len(line)) :
               all[i] = IF i <= Len(top) THEN top[i] ELSE line[i - Len(top)]
    <3> HIDE DEF line
    <3> QED BY <1>8, <1>10, ConcatIsSeq
  <2> HIDE DEF all, line
  <2> QED BY <1>9, <1>10, <2>1 DEF b, all
<1>12. \A i \in 1..a : u[i] = t[i]
  <2> SUFFICES ASSUME NEW i \in 1..a PROVE u[i] = t[i]
    OBVIOUS
  <2>1. i \in 1..(a + 1) /\ i <= a + 1 /\ i <= a /\ i \in 1..((a + 1) + b)
    BY <1>4, <1>8
  <2> QED BY <1>10, <1>11, <2>1
<1>13. u[a + 1] = NewLine
  <2>1. a + 1 \in 1..(a + 1) /\ a + 1 <= a + 1 /\ ~(a + 1 <= a) /\ a + 1 \in 1..((a + 1) + b)
        /\ (a + 1) - a = 1
    BY <1>4, <1>8
  <2> QED BY <1>7, <1>10, <1>11, <2>1
<1>14. \A i \in 1..b : u[(a + 1) + i] = line[i]
  <2> SUFFICES ASSUME NEW i \in 1..b PROVE u[(a + 1) + i] = line[i]
    OBVIOUS
  <2>1. (a + 1) + i \in 1..((a + 1) + b) /\ ~((a + 1) + i <= a + 1) /\ ((a + 1) + i) - (a + 1) = i
    BY <1>4, <1>8
  <2> QED BY <1>11, <2>1
<1>15. Off(n) = a + 1
  BY <1>3, <1>4
<1>16. ASSUME NEW l \in 0..n, NEW i \in 1..Len(lines[l + 1])
       PROVE  u[Off(l) + i] = lines[l + 1][i]
  <2>1. CASE l = n
    BY <1>14, <1>15, <2>1 DEF b
  <2>2. CASE l # n
    <3>1. l \in 0..(n - 1)
      BY <2>2
    <3>2. Off(l) + i \in 1..a
      <4> DEFINE x == Off(l)
                 z == Len(lines[l + 1])
      <4>1. x \in Nat /\ z \in Nat /\ i \in 1..z
        BY <1>2
      <4>2. x + z <= a
        BY <1>5, <3>1
      <4>3. a \in Nat
        BY <1>4
      <4> HIDE DEF x, z
      <4>4. x + i \in 1..a
        BY <4>1, <4>2, <4>3
      <4> QED BY <4>4 DEF x
    <3> QED BY <1>6, <1>12, <3>1, <3>2
  <2> QED BY <2>1, <2>2
<1>17. ASSUME NEW l \in 0..(n - 1) PROVE u[Off(l) + Len(lines[l + 1]) + 1] = NewLine
  <2>1. CASE l = n - 1
    BY <1>1, <1>4, <1>13, <2>1
  <2>2. CASE l # n - 1
    <3>1. l \in 0..(n - 2) /\ l < n - 1 /\ l \in 0..(Len(lines) - 1) /\ l \in 0..n /\ n - 1 \in 0..n
      BY <1>1, <2>2
    <3>2. Off(l) + Len(lines[l + 1]) + 1 <= Off(n - 1)
      BY <1>1, <3>1, OffsetsRise DEF Off
    <3>3. Len(lines[n]) \in Nat
      BY <1>1, <1>2, <3>1
    <3>4. Off(l) + Len(lines[l + 1]) + 1 \in 1..a
      <4>1. Off(l) \in Nat /\ Len(lines[l + 1]) \in Nat /\ Off(n - 1) \in Nat
        BY <1>2, <3>1
      <4> DEFINE x == Off(l)
                 y == Len(lines[l + 1])
                 z == Off(n - 1)
                 c == Len(lines[n])
      <4>2. x \in Nat /\ y \in Nat /\ z \in Nat /\ c \in Nat /\ x + y + 1 <= z /\ a = z + c
        BY <1>4, <3>2, <3>3, <4>1
      <4> HIDE DEF x, y, z, c
      <4>3. x + y + 1 \in 1..a
        BY <4>2
      <4> QED BY <4>3 DEF x, y
    <3> QED BY <1>6, <1>12, <3>1, <3>4
  <2> QED BY <2>1, <2>2
<1>18. (n + 1) - 1 = n /\ (n + 1) - 2 = n - 1
  OBVIOUS
<1>19. Len(u) = Off(n) + Len(lines[n + 1])
  BY <1>11, <1>15 DEF b
<1> QED BY <1>11, <1>16, <1>17, <1>18, <1>19 DEF Lies, Off, u

LEMMA JoinedLies ==
    ASSUME NEW lines, IsText(lines)
    PROVE  Lies(lines, Joined(lines), Len(lines))
<1> DEFINE n == Len(lines)
<1>1. PICK f : /\ f[1] = lines[1]
               /\ \A k \in 2..n : f[k] = JoinLine(f[k - 1], lines[k])
               /\ Joined(lines) = f[n]
  BY JoinedRun
<1>2. n \in Nat /\ n >= 1 /\ 0 \in 0..(n - 1) /\ 1 \in 1..n
  BY DEF IsText, IsSeq
<1> DEFINE S == {k \in Nat : k + 1 <= n => Lies(lines, f[k + 1], k + 1)}
<1>3. 0 \in S
  <2>1. OffsetOfLine(lines, 0) = 0 /\ IsSeq(lines[1]) /\ Len(lines[1]) \in Nat
    BY <1>2, OffsetIsNat DEF IsText, IsSeq
  <2>2. \A l \in 0..0 : l = 0 /\ l + 1 = 1
    OBVIOUS
  <2>3. \A i \in 1..Len(lines[1]) : 0 + i = i
    BY <2>1
  <2>4. 1 - 1 = 0 /\ 1 - 2 = -1 /\ 0..(-1) = {} /\ 0 + Len(lines[1]) = Len(lines[1]) /\ 0 + 1 = 1
    BY <2>1
  <2>5. Lies(lines, lines[1], 1)
    BY <2>1, <2>2, <2>3, <2>4 DEF Lies
  <2> QED BY <1>1, <2>4, <2>5
<1>4. ASSUME NEW k \in Nat, k \in S PROVE k + 1 \in S
  <2> SUFFICES ASSUME (k + 1) + 1 <= n PROVE Lies(lines, f[(k + 1) + 1], (k + 1) + 1)
    OBVIOUS
  <2>1. k + 1 \in Nat /\ k + 1 >= 1 /\ k + 1 <= n /\ (k + 1) + 1 \in 2..n /\ ((k + 1) + 1) - 1 = k + 1
    BY <1>2
  <2>2. Lies(lines, f[k + 1], k + 1)
    BY <1>4, <2>1
  <2>3. f[(k + 1) + 1] = JoinLine(f[k + 1], lines[(k + 1) + 1])
    BY <1>1, <2>1
  <2> DEFINE h == k + 1
  <2> HIDE DEF h
  <2>4. Lies(lines, JoinLine(f[h], lines[h + 1]), h + 1)
    BY <2>1, <2>2, LiesOn DEF h
  <2> QED BY <2>3, <2>4 DEF h
<1>5. Nat \subseteq S
  <2> HIDE DEF S
  <2> QED BY <1>3, <1>4, SetInduction
<1>6. n - 1 \in S /\ (n - 1) + 1 = n /\ n <= n
  BY <1>2, <1>5
<1>7. Lies(lines, f[n], n)
  BY <1>6
<1> QED BY <1>1, <1>7

(* A text from one coordinate to another holds only whole characters.      *)
LEMMA JoinedIsPassage ==
    ASSUME NEW lines \in Seq(Line), IsText(lines)
    PROVE  Joined(lines) \in Passage
<1> DEFINE N == Len(lines)
<1>1. N \in Nat /\ N >= 1 /\ \A k \in 1..N : lines[k] \in Line
  BY DEF IsText, IsSeq
<1>2. PICK f : /\ f[1] = lines[1]
               /\ \A k \in 2..N : f[k] = JoinLine(f[k - 1], lines[k])
               /\ Joined(lines) = f[N]
  BY JoinedRun
<1> HIDE DEF N
<1> DEFINE S == {n \in Nat : n < N => f[n + 1] \in Passage}
<1>3. 0 \in S
  <2>1. 1 \in 1..N /\ 0 + 1 = 1
    BY <1>1
  <2>2. f[1] \in Passage
    BY <1>1, <1>2, <2>1, LineIsPassage
  <2> QED BY <2>1, <2>2
<1>4. ASSUME NEW n \in Nat, n \in S PROVE n + 1 \in S
  <2> SUFFICES ASSUME n + 1 < N PROVE f[(n + 1) + 1] \in Passage
    OBVIOUS
  <2>1. (n + 1) + 1 \in 2..N /\ ((n + 1) + 1) - 1 = n + 1 /\ (n + 1) + 1 \in 1..N /\ n < N
    BY <1>1
  <2>2. f[n + 1] \in Passage /\ lines[(n + 1) + 1] \in Passage
    BY <1>1, <1>4, <2>1, LineIsPassage
  <2>3. f[(n + 1) + 1] = JoinLine(f[n + 1], lines[(n + 1) + 1])
    BY <1>2, <2>1
  <2> QED BY <2>2, <2>3, JoinLineIsPassage
<1>5. Nat \subseteq S
  <2> HIDE DEF S
  <2> QED BY <1>3, <1>4, SetInduction
<1>6. N - 1 \in Nat /\ N - 1 < N /\ (N - 1) + 1 = N
  BY <1>1
<1>7. N - 1 \in S
  <2> HIDE DEF S
  <2> QED BY <1>5, <1>6
<1>8. f[(N - 1) + 1] \in Passage
  BY <1>6, <1>7
<1> QED BY <1>2, <1>6, <1>8

LEMMA OffsetIsCut ==
    ASSUME NEW lines \in Seq(Line), IsText(lines), NEW p \in Places(lines)
    PROVE  LET o == Offset(lines, p)
           IN  /\ o \in 0..Len(Joined(lines))
               /\ o >= 1 => Joined(lines)[o] # LeadByte
<1> DEFINE t == Joined(lines)
           n == Len(lines)
           l == p.line
           i == GetCharacterIndexR(lines, p)
           Off(k) == OffsetOfLine(lines, k)
           o == Off(l) + i
<1>1. n \in Nat /\ n >= 1 /\ l \in 0..(n - 1) /\ l \in Nat /\ n - 1 \in 0..(n - 1)
  BY DEF IsText, IsSeq, Places
<1>2. Offset(lines, p) = o
  BY DEF Offset
<1>3. /\ i \in 0..Len(lines[l + 1]) /\ (i = 0 \/ lines[l + 1][i] # LeadByte)
      /\ Len(lines[l + 1]) \in Nat /\ i \in Nat
  <2>1. Len(lines[l + 1]) \in Nat
    BY <1>1, LineIsSeq
  <2>2. i \in Cuts(lines[l + 1])
    BY IndexIsCut
  <2> HIDE DEF i, l
  <2> QED BY <2>1, <2>2 DEF Cuts
<1>4. /\ Len(t) = Off(n - 1) + Len(lines[n])
      /\ \A m \in 0..(n - 1) : \A h \in 1..Len(lines[m + 1]) : t[Off(m) + h] = lines[m + 1][h]
      /\ \A m \in 0..(n - 2) : t[Off(m) + Len(lines[m + 1]) + 1] = NewLine
  <2>1. Lies(lines, t, n)
    BY JoinedLies
  <2> HIDE DEF t, n
  <2> QED BY <2>1 DEF Lies
<1> HIDE DEF t, i, l
<1>5. Off(l) \in Nat /\ Off(n - 1) \in Nat /\ Off(0) = 0 /\ Len(lines[n]) \in Nat
  <2>1. Off(l) \in Nat /\ Off(n - 1) \in Nat /\ Off(0) = 0
    BY <1>1, OffsetIsNat
  <2>2. Len(lines[(n - 1) + 1]) \in Nat /\ (n - 1) + 1 = n
    BY <1>1, LineIsSeq
  <2> QED BY <2>1, <2>2
<1>6. o \in 0..Len(t)
  <2>1. CASE l = n - 1
    <3>1. l + 1 = n
      BY <1>1, <2>1
    <3> QED BY <1>3, <1>4, <1>5, <2>1, <3>1
  <2>2. CASE l # n - 1
    <3>1. Off(l) + Len(lines[l + 1]) + 1 <= Off(n - 1)
      <4> DEFINE m == n - 1
      <4>1. m \in 0..(n - 1) /\ l < m
        BY <1>1, <2>2
      <4> HIDE DEF m
      <4>2. OffsetOfLine(lines, l) + Len(lines[l + 1]) + 1 <= OffsetOfLine(lines, m)
        BY <1>1, <4>1, OffsetsRise DEF n
      <4> QED BY <4>2 DEF m
    <3> DEFINE x == Off(l)
               y == Off(n - 1)
               c == Len(lines[l + 1])
               d == Len(lines[n])
               len == Len(t)
    <3>2. /\ x \in Nat /\ y \in Nat /\ c \in Nat /\ d \in Nat /\ i \in Nat /\ i <= c
          /\ len = y + d /\ x + c + 1 <= y
      BY <1>3, <1>4, <1>5, <3>1
    <3> HIDE DEF x, y, c, d, len
    <3>3. x + i \in 0..len
      BY <3>2
    <3> QED BY <3>3 DEF x, len
  <2> QED BY <2>1, <2>2
<1>7. ASSUME o >= 1 PROVE t[o] # LeadByte
  <2>1. CASE i # 0
    <3>1. i \in 1..Len(lines[l + 1])
      BY <1>3, <2>1
    <3>2. t[Off(l) + i] = lines[l + 1][i]
      BY <1>1, <1>4, <3>1
    <3> QED BY <1>3, <2>1, <3>2
  <2>2. CASE i = 0
    <3>1. o = Off(l)
      BY <1>5, <2>2
    <3>2. l # 0
      BY <1>5, <1>7, <3>1
    <3>3. l - 1 \in 0..(n - 2) /\ (l - 1) + 1 = l /\ l - 1 \in 0..(n - 1) /\ l - 1 \in Nat
          /\ (l - 1) + 1 \in 0..(n - 1)
      BY <1>1, <3>2
    <3> DEFINE m == l - 1
    <3>4. OffsetOfLine(lines, m + 1) = OffsetOfLine(lines, m) + Len(lines[m + 1]) + 1
      <4>1. m \in 0..(n - 1) /\ m + 1 \in 0..(n - 1)
        BY <3>3
      <4> HIDE DEF m
      <4> QED BY <4>1, OffsetStep DEF n
    <3>5. t[Off(m) + Len(lines[m + 1]) + 1] = NewLine
      BY <1>4, <3>3
    <3>6. t[o] = NewLine
      BY <3>1, <3>3, <3>4, <3>5
    <3> QED BY <3>6 DEF NewLine, LeadByte
  <2> QED BY <2>1, <2>2
<1> QED BY <1>2, <1>6, <1>7 DEF t

LEMMA TextOfPlacesIsPassage ==
    ASSUME NEW lines \in Seq(Line), IsText(lines), NEW p \in Places(lines), NEW q \in Places(lines)
    PROVE  GetText(lines, p, q) \in Passage
<1> DEFINE t == Joined(lines)
           a == Offset(lines, p) + 1
           b == Offset(lines, q)
<1>1. t \in Seq(Glyph \cup {NewLine}) /\ Whole(t) /\ IsSeq(t) /\ Len(t) \in Nat
  <2>1. t \in Seq(Glyph \cup {NewLine}) /\ Whole(t)
    BY JoinedIsPassage DEF Passage
  <2> QED BY <2>1, InSeq DEF IsSeq
<1>2. /\ Offset(lines, p) \in 0..Len(t) /\ b \in 0..Len(t)
      /\ b >= 1 => t[b] # LeadByte
  BY OffsetIsCut
<1>3. a \in Int /\ b \in Int /\ 1 <= a /\ b <= Len(t) /\ (a <= b => t[b] # LeadByte)
  BY <1>1, <1>2
<1>4. GetText(lines, p, q) = SubSeq(t, a, b)
  BY DEF GetText
<1> HIDE DEF t, a, b
<1>5. SubSeq(t, a, b) \in Seq(Glyph \cup {NewLine})
  BY <1>1, <1>3, SubSeqInSeq
<1>6. Whole(SubSeq(t, a, b))
  BY <1>1, <1>3, SubSeqWhole
<1> QED BY <1>4, <1>5, <1>6 DEF Passage

-----------------------------------------------------------------------------
(* A deletion undone: the glyphs come back one by one, in their order.     *)
LEMMA EdgeAtEnd ==
    ASSUME NEW lines, IsText(lines), NEW p \in Edges(lines), p.column >= GetLineMaxColumn(lines, p.line)
    PROVE  GetCharacterIndexR(lines, p) = Len(lines[p.line + 1])
<1> DEFINE S == Stops(lines[p.line + 1])
           C == Columns(S)
<1>1. PICK s \in S : /\ p = At(p.line, s.column) /\ p.line \in 0..(Len(lines) - 1)
                     /\ s.index \in 0..Len(lines[p.line + 1])
                     /\ GetCharacterIndexR(lines, p) = s.index
  BY EdgeIndex
<1>2. Len(lines[p.line + 1]) \in Nat /\ Len(lines) \in Nat
  BY <1>1, LineInText DEF IsText, IsSeq
<1>3. \A t \in S : t.index \in Nat /\ t.column \in Nat
  BY <1>2, StopsOrdered
<1>4. PICK e \in S : e.index >= Len(lines[p.line + 1]) /\ \A t \in S : t = e \/ Ahead(t, e)
  BY <1>2, StopsOrdered
<1>5. GetLineMaxColumn(lines, p.line) = Max(C)
  BY <1>1, <1>2 DEF GetLineMaxColumn
<1>6. p.column = s.column
  BY <1>1 DEF At
<1> HIDE DEF S
<1>7. C \subseteq Int /\ e.column \in C /\ \A c \in C : e.column >= c
  BY <1>3, <1>4 DEF Columns, Ahead
<1>8. Max(C) = e.column
  BY <1>7, MaxOf
<1>9. s = e
  BY <1>1, <1>3, <1>4, <1>5, <1>6, <1>8 DEF Ahead
<1> QED BY <1>1, <1>2, <1>4, <1>9

Plain(lines) == \A l \in 1..Len(lines) : \A i \in 1..Len(lines[l]) : lines[l][i] # NewLine

(* So much of the text is back that only what lies from o on is missing.   *)
PutBack(a, lines, m, j, o) ==
    /\ Shaped(a.w)
    /\ a.line \in 0..m /\ a.index \in 0..Len(lines[a.line + 1])
    /\ a.line = m => a.index <= j
    /\ OffsetOfLine(lines, a.line) + a.index = o
    /\ a.w.lines = Without(lines, a.line, a.index, m, j)

LEMMA BytePutBack ==
    ASSUME NEW lines, IsText(lines), Plain(lines),
           NEW m \in 0..(Len(lines) - 1), NEW j \in 0..Len(lines[m + 1]),
           NEW o \in Nat, o < OffsetOfLine(lines, m) + j,
           NEW a, PutBack(a, lines, m, j, o)
    PROVE  PutBack(InsertByte(a, Joined(lines)[o + 1]), lines, m, j, o + 1)
<1> DEFINE g == Joined(lines)[o + 1]
           b == InsertByte(a, g)
           l == a.line
           i == a.index
           n == Len(lines)
           line == lines[l + 1]
           Off(k) == OffsetOfLine(lines, k)
<1>1. /\ Shaped(a.w) /\ l \in 0..m /\ i \in 0..Len(line) /\ (l = m => i <= j)
      /\ Off(l) + i = o /\ a.w.lines = Without(lines, l, i, m, j)
  BY DEF PutBack
<1>2. n \in Nat /\ l \in 0..(n - 1) /\ m \in l..(n - 1) /\ l \in Nat /\ m \in Nat
  BY <1>1 DEF IsText, IsSeq
<1>3. Len(line) \in Nat /\ Len(lines[m + 1]) \in Nat /\ Off(l) \in Nat /\ Off(m) \in Nat
      /\ i \in Nat /\ j \in Nat
  <2>1. Len(line) \in Nat /\ Len(lines[m + 1]) \in Nat
    <3> HIDE DEF l
    <3> QED BY <1>2, LineIsSeq
  <2>2. Off(l) \in Nat /\ Off(m) \in Nat
    <3> HIDE DEF l
    <3> QED BY <1>2, OffsetIsNat
  <2>3. i \in 0..Len(line)
    BY <1>1
  <2> HIDE DEF line, l, i, Off
  <2> QED BY <2>1, <2>2, <2>3
<1>4. Lies(lines, Joined(lines), n)
  BY JoinedLies
<1>5. Shaped(b.w)
  <2>1. Len(a.w.lines) = n - (m - l)
    <3> DEFINE left == Without(lines, l, i, m, j)
    <3>1. LeavesOut(left, lines, l, i, m, j)
      <4> HIDE DEF l, i
      <4> QED BY <1>1, <1>2, WithoutIsText DEF n
    <3> QED BY <1>1, <3>1 DEF LeavesOut
  <2>2. l \in 0..(Len(a.w.lines) - 1) /\ Len(a.w.lines) >= 0
    BY <1>2, <2>1
  <2>3. Shape(a.w, a.w)
    BY <1>1, ShapeOfItself
  <2>4. Inserting(a, a.w, 0)
    BY <1>3, <2>2, <2>3 DEF Inserting
  <2> HIDE DEF b
  <2>5. Inserting(b, a.w, 0)
    BY <2>4, InsertByteShape DEF b
  <2> QED BY <2>5 DEF Inserting, Shape
<1>6. CASE i < Len(line)
  <2>1. g = line[i + 1]
    <3>1. l \in 0..(n - 1) /\ i + 1 \in 1..Len(line) /\ Off(l) + (i + 1) = o + 1
      <4>1. Off(l) + i = o /\ i < Len(line) /\ i \in Nat /\ Len(line) \in Nat /\ Off(l) \in Nat
        BY <1>1, <1>3, <1>6
      <4>2. l \in 0..(n - 1)
        BY <1>2
      <4> HIDE DEF l, i, n, line, Off
      <4> QED BY <4>1, <4>2
    <3>2. Joined(lines)[Off(l) + (i + 1)] = line[i + 1]
      BY <1>4, <3>1 DEF Lies
    <3> HIDE DEF Off, line
    <3> QED BY <3>1, <3>2
  <2>2. g # NewLine
    <3>1. l + 1 \in 1..n /\ i + 1 \in 1..Len(line)
      <4> HIDE DEF l, i, n, line
      <4> QED BY <1>2, <1>3, <1>6
    <3> QED BY <2>1, <3>1 DEF Plain
  <2>3. b = [w |-> AddGlyphToLine(a.w, l, i, g), line |-> l, index |-> i + 1]
    BY <2>2 DEF InsertByte
  <2>4. AddGlyphToLine(a.w, l, i, g).lines = Without(lines, l, i + 1, m, j)
    <3> DEFINE w == a.w
    <3>1. Shaped(w) /\ w.lines = Without(lines, l, i, m, j) /\ i \in 0..Len(lines[l + 1])
          /\ i < Len(lines[l + 1]) /\ g = lines[l + 1][i + 1]
      BY <1>1, <1>6, <2>1
    <3> HIDE DEF w, l, i, g
    <3> QED BY <1>2, <3>1, GlyphPutBack DEF w
  <2>5. i + 1 \in 0..Len(line) /\ (l = m => i + 1 <= j) /\ Off(l) + (i + 1) = o + 1
    <3>1. o < Off(m) + j
      OBVIOUS
    <3> DEFINE x == Off(l)
               y == Len(line)
    <3>2. /\ x \in Nat /\ y \in Nat /\ i \in Nat /\ i < y /\ x + i = o /\ (l = m => i <= j)
          /\ l = m => o < x + j
      BY <1>1, <1>3, <1>6, <3>1
    <3>3. j \in Nat
      BY <1>3
    <3> HIDE DEF x, y, l, i
    <3>4. i + 1 \in 0..y /\ (l = m => i + 1 <= j) /\ x + (i + 1) = o + 1
      BY <3>2, <3>3
    <3> QED BY <3>4 DEF x, y
  <2> HIDE DEF g
  <2>6. b.w = AddGlyphToLine(a.w, l, i, g) /\ b.line = l /\ b.index = i + 1
    BY <2>3
  <2> HIDE DEF b
  <2> QED BY <1>1, <1>5, <2>4, <2>5, <2>6 DEF PutBack, b, g
<1>7. CASE ~(i < Len(line))
  <2>1. i = Len(line)
    <3>1. i \in 0..Len(line) /\ Len(line) \in Nat
      BY <1>1, <1>3
    <3> HIDE DEF i, line
    <3> QED BY <1>7, <3>1
  <2>2. l < m
    <3> SUFFICES ASSUME l = m PROVE FALSE
      <4>1. l \in 0..m
        BY <1>1
      <4> HIDE DEF l
      <4> QED BY <4>1
    <3> DEFINE x == Off(l)
               y == Len(line)
    <3>1. x \in Nat /\ y \in Nat /\ j \in 0..y /\ i = y /\ x + i = o /\ o < x + j
      BY <1>1, <1>3, <2>1
    <3> HIDE DEF x, y, i
    <3> QED BY <3>1
  <2>3. l \in 0..(n - 2) /\ l + 1 \in 0..(n - 1) /\ l + 1 \in 0..m
    BY <1>2, <2>2
  <2>4. g = NewLine
    <3>1. Joined(lines)[Off(l) + Len(line) + 1] = NewLine
      BY <1>4, <2>3 DEF Lies
    <3>2. Off(l) + Len(line) + 1 = o + 1
      BY <1>1, <2>1
    <3> HIDE DEF Off, line
    <3> QED BY <3>1, <3>2
  <2>5. b = [w |-> BreakLine(a.w, l, i), line |-> l + 1, index |-> 0]
    BY <2>4 DEF InsertByte
  <2>6. BreakLine(a.w, l, i).lines = Without(lines, l + 1, 0, m, j)
    <3> DEFINE w == a.w
    <3>1. Shaped(w) /\ w.lines = Without(lines, l, Len(lines[l + 1]), m, j) /\ i = Len(lines[l + 1])
      BY <1>1, <2>1
    <3> HIDE DEF w, l, i
    <3> QED BY <1>2, <2>2, <3>1, BreakPutBack DEF w
  <2>7. Off(l + 1) + 0 = o + 1
    <3>1. OffsetOfLine(lines, l + 1) = OffsetOfLine(lines, l) + Len(lines[l + 1]) + 1
      BY <1>2, <2>3, OffsetStep
    <3> QED BY <1>1, <1>3, <2>1, <3>1
  <2>8. 0 \in 0..Len(lines[(l + 1) + 1]) /\ 0 <= j
    <3>1. Len(lines[(l + 1) + 1]) \in Nat
      BY <2>3, LineIsSeq
    <3> QED BY <1>3, <3>1
  <2>9. b.w = BreakLine(a.w, l, i) /\ b.line = l + 1 /\ b.index = 0
    BY <2>5
  <2> HIDE DEF b
  <2> QED BY <1>5, <2>3, <2>6, <2>7, <2>8, <2>9 DEF PutBack, b
<1> QED BY <1>6, <1>7

(* For every text, and every stretch of it between edges of whole          *)
(* characters: what UndoOperation inserts for a deletion, the text that    *)
(* was read before it at the place it began, gives back the lines as they  *)
(* were, whatever has become of the cursors meanwhile.                     *)
THEOREM DeletionIsUndone ==
    ASSUME NEW w, Sound(w), Plain(w.lines),
           NEW p \in Edges(w.lines), NEW q \in Edges(w.lines), Before(p, q),
           NEW v, Sound(v), v.lines = DeleteRange(w, p, q).lines
    PROVE  InsertTextAt(v, p, GetText(w.lines, p, q)).w.lines = w.lines
<1> DEFINE lines == w.lines
           n == Len(lines)
           l == p.line
           m == q.line
           i == GetCharacterIndexR(lines, p)
           j == GetCharacterIndexR(lines, q)
           Off(k) == OffsetOfLine(lines, k)
           o == Off(l) + i
           N == (Off(m) + j) - o
           text == GetText(lines, p, q)
           a == [w |-> v, line |-> l, index |-> GetCharacterIndexR(v.lines, p)]
<1>1. IsText(lines) /\ n \in Nat /\ p \in Places(lines) /\ q \in Places(lines)
  BY DomainOfWork DEF Sound, Shaped, Edges
<1>2. PICK s \in Stops(lines[l + 1]) :
          /\ p = At(l, s.column) /\ l \in 0..(n - 1)
          /\ s.index \in 0..Len(lines[l + 1])
          /\ i = s.index /\ GetCharacterIndexL(lines, p) = i
  BY <1>1, EdgeIndex
<1>3. PICK t \in Stops(lines[m + 1]) :
          /\ q = At(m, t.column) /\ m \in 0..(n - 1)
          /\ t.index \in 0..Len(lines[m + 1]) /\ j = t.index
  BY <1>1, EdgeIndex
<1>4. /\ Len(lines[l + 1]) \in Nat /\ Len(lines[m + 1]) \in Nat
      /\ i \in Nat /\ j \in Nat /\ Off(l) \in Nat /\ Off(m) \in Nat
  <2>1. Len(lines[l + 1]) \in Nat /\ Len(lines[m + 1]) \in Nat
    <3> HIDE DEF l, m, lines
    <3> QED BY <1>1, <1>2, <1>3, LineInText DEF n
  <2>2. Off(l) \in Nat /\ Off(m) \in Nat
    <3> HIDE DEF l, m, lines
    <3> QED BY <1>1, <1>2, <1>3, OffsetIsNat DEF n
  <2>3. i \in 0..Len(lines[l + 1]) /\ j \in 0..Len(lines[m + 1])
    BY <1>2, <1>3
  <2> HIDE DEF i, j, l, m, lines, Off
  <2> QED BY <2>1, <2>2, <2>3
<1>5. l < m \/ (l = m /\ i < j)
  <2>1. CASE l < m
    BY <2>1
  <2>2. CASE l = m /\ p.column < q.column
    <3>1. s.column < t.column /\ s.column \in Nat /\ t.column \in Nat
      BY <1>2, <1>3, <1>4, <2>2, StopsOrdered DEF At
    <3>2. s = t \/ Ahead(s, t) \/ Ahead(t, s)
      BY <1>2, <1>3, <1>4, <2>2, StopsOrdered
    <3>3. s.index < t.index
      BY <3>1, <3>2 DEF Ahead
    <3> QED BY <1>2, <1>3, <2>2, <3>3
  <2> QED BY <2>1, <2>2 DEF Before
<1>6. p # q /\ l <= m
  BY <1>1, <1>5 DEF Before, Places
<1>7. v.lines = Without(lines, l, i, m, j)
  <2>1. q.column >= GetLineMaxColumn(lines, m) => j = Len(lines[m + 1])
    BY <1>1, EdgeAtEnd
  <2>2. GetCharacterIndexL(lines, p) \in 0..Len(lines[l + 1]) /\ j \in 0..Len(lines[m + 1])
    BY <1>2, <1>3
  <2>3. DeleteRange(w, p, q).lines = Without(lines, l, GetCharacterIndexL(lines, p), m, j)
    BY <1>1, <1>5, <1>6, <2>1, <2>2, RangeDeleted
  <2> QED BY <1>2, <2>3
<1>8. /\ IsText(v.lines) /\ Len(v.lines) = n - (m - l)
      /\ v.lines[l + 1] = SubSeq(lines[l + 1], 1, i) \o SubSeq(lines[m + 1], j + 1, Len(lines[m + 1]))
      /\ IsSeq(SubSeq(lines[l + 1], 1, i)) /\ Len(SubSeq(lines[l + 1], 1, i)) = i
      /\ IsSeq(SubSeq(lines[m + 1], j + 1, Len(lines[m + 1])))
  <2>1. m \in l..(n - 1) /\ i \in 0..Len(lines[l + 1]) /\ j \in 0..Len(lines[m + 1])
    BY <1>2, <1>3, <1>4, <1>6
  <2> DEFINE left == Without(lines, l, i, m, j)
  <2>2. LeavesOut(left, lines, l, i, m, j)
    <3> HIDE DEF i, j, l, m, lines
    <3> QED BY <1>1, <1>2, <2>1, WithoutIsText DEF n
  <2> QED BY <1>7, <2>2 DEF LeavesOut
<1> DEFINE head == SubSeq(lines[l + 1], 1, i)
           tail == SubSeq(lines[m + 1], j + 1, Len(lines[m + 1]))
<1>9. a = [w |-> v, line |-> l, index |-> i]
  <2>1. \A k \in 1..i : head[k] = lines[l + 1][k]
    <3>1. \A k \in 1..i : head[k] = lines[l + 1][k + 1 - 1]
      <4> HIDE DEF i, l, lines
      <4>1. i \in Int
        BY <1>4
      <4>2. \A k \in 1..Len(head) : head[k] = lines[l + 1][k + 1 - 1]
        BY <4>1, SubSeqIsSeq
      <4> QED BY <1>8, <4>2
    <3>2. \A k \in 1..i : k + 1 - 1 = k
      BY <1>4
    <3> QED BY <3>1, <3>2
  <2> HIDE DEF head, tail
  <2>2. /\ Len(v.lines[l + 1]) = i + Len(tail) /\ Len(tail) \in Nat
        /\ \A k \in 1..i : v.lines[l + 1][k] = head[k]
    <3>1. /\ Len(head \o tail) = Len(head) + Len(tail) /\ Len(tail) \in Nat
          /\ \A k \in 1..(Len(head) + Len(tail)) :
                 (head \o tail)[k] = IF k <= Len(head) THEN head[k] ELSE tail[k - Len(head)]
      BY <1>8, ConcatIsSeq DEF head, tail, IsSeq
    <3>2. Len(head) = i /\ v.lines[l + 1] = head \o tail
      BY <1>8 DEF head, tail
    <3>3. \A k \in 1..i : k \in 1..(i + Len(tail)) /\ k <= i
      BY <1>4, <3>1
    <3> DEFINE all == v.lines[l + 1]
    <3>4. all = head \o tail
      BY <3>2
    <3> HIDE DEF i, all
    <3>5. Len(all) = i + Len(tail)
      BY <3>1, <3>2, <3>4
    <3>6. \A k \in 1..i : all[k] = head[k]
      BY <3>1, <3>2, <3>3, <3>4
    <3> QED BY <3>1, <3>5, <3>6 DEF all
  <2>3. l \in 0..(Len(v.lines) - 1)
    <3>1. Len(v.lines) = n - (m - l) /\ l \in 0..(n - 1) /\ m \in 0..(n - 1) /\ l <= m /\ n \in Nat
      BY <1>1, <1>2, <1>3, <1>6, <1>8
    <3> HIDE DEF l, m, n
    <3> QED BY <3>1
  <2>4. s.index <= Len(lines[l + 1]) /\ s.index <= Len(v.lines[l + 1])
        /\ \A k \in 1..s.index : v.lines[l + 1][k] = lines[l + 1][k]
    BY <1>2, <1>4, <2>1, <2>2
  <2> DEFINE new == v.lines
  <2>5. GetCharacterIndexR(new, At(l, s.column)) = s.index
    <3>1. /\ IsText(new) /\ IsText(lines) /\ l \in 0..(Len(lines) - 1) /\ l \in 0..(Len(new) - 1)
          /\ s \in Stops(lines[l + 1]) /\ s.index <= Len(lines[l + 1]) /\ s.index <= Len(new[l + 1])
          /\ \A k \in 1..s.index : new[l + 1][k] = lines[l + 1][k]
      BY <1>1, <1>2, <1>8, <2>3, <2>4
    <3> HIDE DEF lines, l, i, n, new
    <3> QED BY <3>1, EdgeStays
  <2> QED BY <1>2, <2>5
<1>10. N \in Nat /\ N > 0 /\ o \in Nat /\ o + N = Off(m) + j
  <2>1. CASE l < m
    <3>1. Off(l) + Len(lines[l + 1]) + 1 <= Off(m)
      BY <1>1, <1>2, <1>3, <2>1, OffsetsRise
    <3>2. i <= Len(lines[l + 1])
      BY <1>2
    <3> DEFINE x == Off(l)
               y == Off(m)
               z == Len(lines[l + 1])
    <3>3. x \in Nat /\ y \in Nat /\ z \in Nat /\ x + z + 1 <= y /\ i <= z /\ i \in Nat /\ j \in Nat
      BY <1>4, <3>1, <3>2
    <3> HIDE DEF x, y, z, i, j
    <3>4. (y + j) - (x + i) \in Nat /\ (y + j) - (x + i) > 0 /\ x + i \in Nat
          /\ (x + i) + ((y + j) - (x + i)) = y + j
      BY <3>3
    <3>5. o = x + i /\ N = (y + j) - (x + i) /\ Off(m) = y
      BY DEF x, y, i, j
    <3> HIDE DEF o, N, Off
    <3> QED BY <3>4, <3>5
  <2>2. CASE l = m /\ i < j
    <3> DEFINE x == Off(l)
    <3>1. x \in Nat /\ i \in Nat /\ j \in Nat /\ i < j
      BY <1>4, <2>2
    <3>2. o = x + i /\ N = (x + j) - (x + i) /\ Off(m) = x
      BY <2>2
    <3> HIDE DEF x, i, j, o, N, Off
    <3> QED BY <3>1, <3>2
  <2> QED BY <1>5, <2>1, <2>2
<1>11. IsSeq(text) /\ Len(text) = N /\ \A k \in 1..N : text[k] = Joined(lines)[o + k]
  <2> DEFINE from == o + 1
             to == o + N
  <2>1. text = SubSeq(Joined(lines), from, to)
    <3>1. Offset(lines, p) = o /\ Offset(lines, q) = o + N
      BY <1>10 DEF Offset
    <3> QED BY <3>1 DEF GetText
  <2>2. from \in Int /\ to \in Int /\ (IF from <= to THEN 1 + to - from ELSE 0) = N
        /\ \A k \in 1..N : k + from - 1 = o + k
    <3> HIDE DEF o, N
    <3> QED BY <1>10
  <2> HIDE DEF text, from, to, o, N
  <2>3. /\ IsSeq(text) /\ Len(text) = N
        /\ \A k \in 1..N : text[k] = Joined(lines)[k + from - 1]
    BY <2>1, <2>2, SubSeqIsSeq
  <2> QED BY <2>2, <2>3
<1> HIDE DEF text, o, N, head, tail
<1>12. text # <<>>
  BY <1>10, <1>11, SmallSeqs
<1>13. InsertTextAt(v, p, text).w = AfterBytes(a, text).w
  BY <1>12 DEF InsertTextAt, Inserted, AfterBytes
<1> HIDE DEF a
<1>14. PICK f : /\ f[0] = a
                /\ \A k \in 1..N : f[k] = InsertByte(f[k - 1], text[k])
                /\ AfterBytes(a, text) = f[N]
  BY <1>11, InsertRun
<1> DEFINE S == {k \in Nat : k <= N => PutBack(f[k], lines, m, j, o + k)}
<1>15. 0 \in S
  <2>1. a.w = v /\ a.line = l /\ a.index = i
    BY <1>9
  <2>2. l \in 0..m /\ i \in 0..Len(lines[l + 1]) /\ (l = m => i <= j)
    BY <1>2, <1>3, <1>4, <1>5, <1>6
  <2>3. Off(l) + i = o + 0
    <3>1. o = Off(l) + i
      BY DEF o
    <3> QED BY <1>10, <3>1
  <2>4. PutBack(a, lines, m, j, o + 0)
    <3> HIDE DEF i, j, l, m, lines
    <3> QED BY <1>7, <2>1, <2>2, <2>3 DEF PutBack, Sound
  <2> QED BY <1>14, <2>4
<1>16. ASSUME NEW k \in Nat, k \in S PROVE k + 1 \in S
  <2> SUFFICES ASSUME k + 1 <= N PROVE PutBack(f[k + 1], lines, m, j, o + (k + 1))
    OBVIOUS
  <2>1. k <= N /\ k + 1 \in 1..N /\ (k + 1) - 1 = k
    BY <1>10
  <2>2. o + k \in Nat /\ o + k < Off(m) + j /\ (o + k) + 1 = o + (k + 1)
    BY <1>10, <2>1
  <2>3. PutBack(f[k], lines, m, j, o + k)
    BY <1>16, <2>1
  <2>4. f[k + 1] = InsertByte(f[k], Joined(lines)[(o + k) + 1])
    BY <1>11, <1>14, <2>1, <2>2
  <2>5. m \in 0..(Len(lines) - 1) /\ j \in 0..Len(lines[m + 1])
    BY <1>3
  <2>6. Plain(lines)
    OBVIOUS
  <2> DEFINE h == o + k
             b == f[k]
  <2> HIDE DEF h, b, lines, m, j, n
  <2>7. PutBack(InsertByte(b, Joined(lines)[h + 1]), lines, m, j, h + 1)
    BY <1>1, <2>2, <2>3, <2>5, <2>6, BytePutBack DEF h, b
  <2> QED BY <2>2, <2>4, <2>7 DEF h, b
<1>17. Nat \subseteq S
  <2> HIDE DEF S
  <2> QED BY <1>15, <1>16, SetInduction
<1>18. PutBack(f[N], lines, m, j, o + N)
  BY <1>10, <1>17
<1> DEFINE e == f[N]
<1> HIDE DEF e, S
<1>19. /\ e.line \in 0..m /\ e.index \in 0..Len(lines[e.line + 1])
       /\ Off(e.line) + e.index = Off(m) + j
       /\ e.w.lines = Without(lines, e.line, e.index, m, j)
  BY <1>10, <1>18 DEF e, PutBack
<1>20. e.line = m
  <2> SUFFICES ASSUME e.line < m PROVE FALSE
    BY <1>3, <1>19
  <2>1. e.line \in 0..(n - 1)
    BY <1>3, <1>19
  <2>2. Off(e.line) + Len(lines[e.line + 1]) + 1 <= Off(m)
    BY <1>1, <1>3, <2>1, OffsetsRise
  <2>3. Off(e.line) \in Nat /\ Len(lines[e.line + 1]) \in Nat
    BY <1>1, <2>1, OffsetIsNat, LineInText
  <2> DEFINE x == Off(e.line)
             y == Off(m)
             z == Len(lines[e.line + 1])
             k == e.index
  <2>4. x \in Nat /\ y \in Nat /\ z \in Nat /\ j \in Nat /\ k \in 0..z
        /\ x + z + 1 <= y /\ x + k = y + j
    BY <1>4, <1>19, <2>2, <2>3
  <2> HIDE DEF x, y, z, k, j
  <2> QED BY <2>4
<1>21. e.index = j
  BY <1>4, <1>19, <1>20
<1>22. e.w.lines = lines
  <2>1. e.w.lines = Without(lines, m, j, m, j) /\ j \in 0..Len(lines[m + 1])
    BY <1>3, <1>19, <1>20, <1>21
  <2> HIDE DEF lines, m, j
  <2> QED BY <1>1, <1>3, <2>1, WithoutNothing DEF n
<1> QED BY <1>13, <1>14, <1>22 DEF e, text

-----------------------------------------------------------------------------
(* An insertion undone.  So far everything between glyph i of line l and   *)
(* the place of the next byte has been inserted into the text; that place  *)
(* is the edge of a character, unless the byte g, inserted last, begins    *)
(* one.                                                                    *)
PutIn(a, lines, l, i, g) ==
    /\ Shaped(a.w)
    /\ l \in 0..(Len(a.w.lines) - 1) /\ i \in 0..Len(a.w.lines[l + 1])
    /\ a.line \in l..(Len(a.w.lines) - 1) /\ a.index \in 0..Len(a.w.lines[a.line + 1])
    /\ a.line = l => i <= a.index
    /\ Without(a.w.lines, l, i, a.line, a.index) = lines
    /\ \E s \in Stops(a.w.lines[a.line + 1]) :
           \/ s.index = a.index
           \/ /\ s.index = a.index - 1 /\ a.w.lines[a.line + 1][a.index] = LeadByte
              /\ g = LeadByte

LEMMA BytePutIn ==
    ASSUME NEW lines, NEW l, NEW i, NEW a, NEW g, PutIn(a, lines, l, i, g), NEW h
    PROVE  PutIn(InsertByte(a, h), lines, l, i, h)
<1> DEFINE w == a.w
           m == a.line
           j == a.index
           old == w.lines[m + 1]
           b == InsertByte(a, h)
<1>1. /\ Shaped(w) /\ l \in 0..(Len(w.lines) - 1) /\ i \in 0..Len(w.lines[l + 1])
      /\ m \in l..(Len(w.lines) - 1) /\ j \in 0..Len(old) /\ (l = m => i <= j)
      /\ Without(w.lines, l, i, m, j) = lines
  BY DEF PutIn
<1>2. PICK s \in Stops(old) :
          \/ s.index = j
          \/ s.index = j - 1 /\ old[j] = LeadByte
  BY DEF PutIn
<1>3. /\ IsText(w.lines) /\ Len(w.lines) \in Nat /\ l \in Nat /\ m \in Nat
      /\ m \in 0..(Len(w.lines) - 1)
  BY <1>1, DomainOfShape DEF Shaped
<1>4. Len(old) \in Nat /\ j \in Nat
  <2>1. Len(old) \in Nat
    <3> HIDE DEF m, w
    <3> QED BY <1>3, LineInText
  <2>2. j \in 0..Len(old)
    BY <1>1
  <2> HIDE DEF j, old
  <2> QED BY <2>1, <2>2
<1>5. CASE h = NewLine
  <2> DEFINE v == BreakLine(w, m, j)
  <2>1. b.w = v /\ b.line = m + 1 /\ b.index = 0
    BY <1>5 DEF InsertByte
  <2> HIDE DEF b
  <2>2. /\ Shaped(v) /\ Len(v.lines) = Len(w.lines) + 1 /\ i \in 0..Len(v.lines[l + 1])
        /\ Without(v.lines, l, i, m + 1, 0) = Without(w.lines, l, i, m, j)
    <3> HIDE DEF w, m, j
    <3> QED BY <1>1, BreakTakenOut DEF old
  <2> HIDE DEF v
  <2>3. /\ l \in 0..(Len(v.lines) - 1) /\ m + 1 \in l..(Len(v.lines) - 1) /\ m + 1 # l
        /\ m + 1 \in 0..(Len(v.lines) - 1)
    <3> HIDE DEF m, w
    <3> QED BY <1>1, <1>3, <2>2
  <2>4. Len(v.lines[(m + 1) + 1]) \in Nat
    BY <2>2, <2>3, LineInText DEF Shaped
  <2>5. Origin \in Stops(v.lines[(m + 1) + 1]) /\ Origin.index = 0
    BY <2>4, StopsOrdered DEF Origin
  <2>6. 0 \in 0..Len(v.lines[(m + 1) + 1])
    BY <2>4
  <2> HIDE DEF w, m, j
  <2> QED BY <1>1, <2>1, <2>2, <2>3, <2>5, <2>6 DEF PutIn, b
<1>6. CASE h # NewLine
  <2> DEFINE v == AddGlyphToLine(w, m, j, h)
             new == v.lines[m + 1]
  <2>1. b.w = v /\ b.line = m /\ b.index = j + 1
    BY <1>6 DEF InsertByte
  <2> HIDE DEF b
  <2>2. /\ Shaped(v) /\ Len(v.lines) = Len(w.lines)
        /\ \A k \in 1..Len(w.lines) : k # m + 1 => v.lines[k] = w.lines[k]
        /\ Len(new) = Len(old) + 1
        /\ \A k \in 1..j : new[k] = old[k]
        /\ new[j + 1] = h
    <3>1. OneMore(v, w, m, j, h)
      <4> HIDE DEF w, m, j
      <4> QED BY <1>1, <1>3, GlyphAdded DEF old
    <3> HIDE DEF v, w, m, j
    <3> QED BY <3>1 DEF OneMore, old
  <2>3. Without(v.lines, l, i, m, j + 1) = Without(w.lines, l, i, m, j)
    <3> HIDE DEF w, m, j
    <3> QED BY <1>1, GlyphTakenOut DEF old
  <2> HIDE DEF v, old, w
  <2>4. i \in 0..Len(v.lines[l + 1])
    <3>1. CASE l = m
      <4>1. Len(v.lines[l + 1]) = Len(old) + 1 /\ i \in 0..Len(old)
        BY <1>1, <2>2, <3>1 DEF old
      <4> QED BY <1>4, <4>1
    <3>2. CASE l # m
      <4>1. l + 1 \in 1..Len(w.lines) /\ l + 1 # m + 1
        BY <1>1, <1>3, <3>2
      <4> QED BY <1>1, <2>2, <4>1
    <3> QED BY <3>1, <3>2
  <2> HIDE DEF new
  <2>5. s.index \in Nat /\ s.index <= j
    BY <1>2, <1>4, StopsOrdered
  <2>6. s \in Stops(new)
    <3>1. Len(new) \in Nat /\ s.index <= Len(old) /\ s.index <= Len(new)
      <4>1. Len(new) = Len(old) + 1 /\ j \in 0..Len(old) /\ Len(old) \in Nat
        BY <1>1, <1>4, <2>2
      <4> QED BY <2>5, <4>1
    <3>2. \A k \in 1..s.index : new[k] = old[k]
      BY <1>4, <2>2, <2>5
    <3> QED BY <1>2, <1>4, <3>1, <3>2, StopsOfPrefix
  <2>7. s.index < Len(new) /\ Len(new) \in Nat
    BY <1>1, <1>4, <2>2, <2>5
  <2> DEFINE t == MoveCharIndexAndColumn(new, s)
  <2>8. t \in Stops(new)
    BY <2>6, <2>7, StopsGoOn
  <2>9. t.index = s.index + UTF8CharLength(new[s.index + 1])
    BY DEF MoveCharIndexAndColumn
  <2> HIDE DEF t
  <2>10. \E u \in Stops(new) :
             \/ u.index = j + 1
             \/ u.index = (j + 1) - 1 /\ new[j + 1] = LeadByte /\ h = LeadByte
    <3>1. CASE s.index = j /\ h = LeadByte
      <4>1. s.index = (j + 1) - 1
        BY <1>4, <3>1
      <4> QED BY <2>2, <2>6, <3>1, <4>1
    <3>2. CASE s.index = j /\ h # LeadByte
      <4>1. UTF8CharLength(new[s.index + 1]) = 1
        BY <2>2, <3>2 DEF UTF8CharLength
      <4> QED BY <2>8, <2>9, <3>2, <4>1
    <3>3. CASE s.index = j - 1 /\ old[j] = LeadByte
      <4>1. j \in 1..j /\ s.index + 1 = j
        BY <1>4, <2>5, <3>3
      <4>2. new[s.index + 1] = LeadByte
        BY <2>2, <3>3, <4>1
      <4>3. t.index = s.index + 2
        BY <2>9, <4>2 DEF UTF8CharLength
      <4>4. t.index = j + 1
        BY <1>4, <2>5, <3>3, <4>3
      <4> QED BY <2>8, <4>4
    <3> QED BY <1>2, <3>1, <3>2, <3>3
  <2>11. j + 1 \in 0..Len(new) /\ (l = m => i <= j + 1)
    BY <1>1, <1>3, <1>4, <2>2
  <2> HIDE DEF m, j
  <2> QED BY <1>1, <2>1, <2>2, <2>3, <2>4, <2>10, <2>11 DEF PutIn, b, new
<1> QED BY <1>5, <1>6

(* For every text, and every text inserted at the edge of a character that *)
(* does not end in the middle of one: what UndoOperation deletes for an    *)
(* insertion, from the place it began to the one it ended at, gives back   *)
(* the lines as they were.                                                 *)
THEOREM InsertionIsUndone ==
    ASSUME NEW w, Sound(w), NEW p \in Edges(w.lines),
           NEW text, IsSeq(text), text # <<>> => text[Len(text)] # LeadByte,
           NEW v, Sound(v), v.lines = InsertTextAt(w, p, text).w.lines
    PROVE  DeleteRange(v, p, InsertTextAt(w, p, text).end).lines = w.lines
<1> DEFINE lines == w.lines
           n == Len(lines)
           l == p.line
           i == GetCharacterIndexR(lines, p)
           N == Len(text)
           a == [w |-> w, line |-> l, index |-> i]
           end == InsertTextAt(w, p, text).end
<1>1. IsText(lines) /\ n \in Nat
  BY DomainOfWork DEF Sound, Shaped
<1>2. PICK s \in Stops(lines[l + 1]) :
          /\ p = At(l, s.column) /\ l \in 0..(n - 1)
          /\ s.index \in 0..Len(lines[l + 1]) /\ i = s.index /\ s.index \in Nat
  BY <1>1, EdgeIndex
<1>3. CASE text = <<>>
  <2>1. end = p /\ v.lines = lines
    BY <1>3 DEF InsertTextAt
  <2> HIDE DEF end
  <2>2. DeleteRange(v, p, p) = v
    BY DEF DeleteRange
  <2> QED BY <2>1, <2>2 DEF end
<1>4. CASE text # <<>>
  <2>1. N \in Nat /\ N > 0
    BY <1>4, EmptySeq DEF IsSeq
  <2>2. PICK f : /\ f[0] = a
                 /\ \A k \in 1..N : f[k] = InsertByte(f[k - 1], text[k])
                 /\ AfterBytes(a, text) = f[N]
    <3> HIDE DEF a
    <3> QED BY InsertRun
  <2>3. InsertTextAt(w, p, text) = Inserted(f[N])
    BY <1>4, <2>2 DEF InsertTextAt, AfterBytes
  <2> DEFINE S == {k \in Nat : k <= N =>
                       \E g : PutIn(f[k], lines, l, i, g) /\ (k > 0 => g = text[k])}
  <2>4. 0 \in S
    <3>1. Without(lines, l, i, l, i) = lines
      <4> HIDE DEF lines, l, i
      <4> QED BY <1>1, <1>2, WithoutNothing DEF n
    <3>2. l \in l..(n - 1) /\ i <= i
      BY <1>1, <1>2
    <3>3. a.w = w /\ a.line = l /\ a.index = i
      OBVIOUS
    <3> HIDE DEF a, l, i
    <3>4. PutIn(a, lines, l, i, "")
      BY <1>2, <3>1, <3>2, <3>3 DEF PutIn, Sound
    <3>5. PutIn(f[0], lines, l, i, "")
      BY <2>2, <3>4
    <3> HIDE DEF lines, N
    <3>6. ~(0 > 0)
      OBVIOUS
    <3>7. \E g : PutIn(f[0], lines, l, i, g) /\ (0 > 0 => g = text[0])
      BY <3>5, <3>6, Zenon
    <3> QED BY <3>7
  <2>5. ASSUME NEW k \in Nat, k \in S PROVE k + 1 \in S
    <3> SUFFICES ASSUME k + 1 <= N PROVE PutIn(f[k + 1], lines, l, i, text[k + 1])
      OBVIOUS
    <3>1. k <= N /\ k + 1 \in 1..N /\ (k + 1) - 1 = k
      BY <2>1
    <3>2. PICK g : PutIn(f[k], lines, l, i, g)
      BY <2>5, <3>1
    <3>3. f[k + 1] = InsertByte(f[k], text[k + 1])
      BY <2>2, <3>1
    <3> HIDE DEF lines, l, i, S
    <3> QED BY <3>2, <3>3, BytePutIn
  <2>6. Nat \subseteq S
    <3> HIDE DEF S
    <3> QED BY <2>4, <2>5, SetInduction
  <2>7. PutIn(f[N], lines, l, i, text[N])
    <3>1. N \in S /\ N <= N
      <4> HIDE DEF S
      <4> QED BY <2>1, <2>6
    <3> HIDE DEF lines, l, i, N
    <3> QED BY <2>1, <3>1
  <2> DEFINE e == f[N]
             new == v.lines
             m == e.line
             j == e.index
  <2>8. e.w.lines = new /\ end = At(m, GetCharacterColumn(new, m, j))
    BY <2>3 DEF Inserted
  <2> HIDE DEF S, e
  <2>9. /\ l \in 0..(Len(new) - 1) /\ i \in 0..Len(new[l + 1])
        /\ m \in l..(Len(new) - 1) /\ j \in 0..Len(new[m + 1])
        /\ Without(new, l, i, m, j) = lines
    BY <2>7, <2>8 DEF PutIn, e
  <2>10. PICK t \in Stops(new[m + 1]) : t.index = j
    BY <1>4, <2>7, <2>8 DEF PutIn, e
  <2>11. IsText(new) /\ Len(new) \in Nat /\ m \in 0..(Len(new) - 1) /\ l <= m /\ m \in Nat /\ l \in Nat
    <3>1. IsText(new) /\ Len(new) \in Nat
      BY DomainOfWork DEF Sound, Shaped
    <3>2. l \in 0..(Len(new) - 1) /\ m \in l..(Len(new) - 1)
      BY <2>9
    <3> HIDE DEF l, m, new
    <3> QED BY <3>1, <3>2
  <2> HIDE DEF end, new, m, j
  <2>12. t.index \in Nat /\ t.column \in Nat /\ Len(new[m + 1]) \in Nat
    BY <2>10, <2>11, LineInText, StopsOrdered
  <2>13. end = At(m, t.column) /\ end \in Edges(new) /\ GetCharacterIndexR(new, end) = j
         /\ end.line = m
    <3>1. /\ GetCharacterIndexR(new, At(m, t.column)) = t.index
          /\ GetCharacterColumn(new, m, t.index) = t.column
      BY <2>10, <2>11, IndexRoundTrips
    <3>2. At(m, t.column) \in Places(new) /\ At(m, t.column).line = m /\ At(m, t.column).column = t.column
      BY <2>11, <2>12 DEF Places, At
    <3>3. t.index <= Len(new[m + 1])
      BY <2>9, <2>10, <2>12
    <3>4. At(m, t.column) \in Edges(new)
      BY <2>10, <3>2, <3>3 DEF Edges
    <3> QED BY <2>8, <2>10, <3>1, <3>2, <3>4
  <2>14. /\ GetCharacterIndexL(new, p) = i /\ p \in Edges(new)
    <3>1. /\ lines[l + 1] = SubSeq(new[l + 1], 1, i) \o SubSeq(new[m + 1], j + 1, Len(new[m + 1]))
          /\ IsSeq(SubSeq(new[l + 1], 1, i)) /\ Len(SubSeq(new[l + 1], 1, i)) = i
          /\ IsSeq(SubSeq(new[m + 1], j + 1, Len(new[m + 1])))
      <4>1. LeavesOut(Without(new, l, i, m, j), new, l, i, m, j)
        <5> HIDE DEF l, i
        <5> QED BY <2>9, <2>11, WithoutIsText
      <4>2. LeavesOut(lines, new, l, i, m, j)
        BY <2>9, <4>1
      <4> HIDE DEF lines, l, i
      <4> QED BY <4>2 DEF LeavesOut
    <3> DEFINE head == SubSeq(new[l + 1], 1, i)
               tail == SubSeq(new[m + 1], j + 1, Len(new[m + 1]))
    <3>2. \A k \in 1..i : head[k] = new[l + 1][k]
      <4>1. i \in Int /\ \A k \in 1..i : k + 1 - 1 = k
        BY <1>2
      <4> HIDE DEF i
      <4>2. \A k \in 1..i : head[k] = new[l + 1][k + 1 - 1]
        BY <3>1, <4>1, SubSeqIsSeq
      <4> QED BY <4>1, <4>2
    <3>3. IsSeq(head) /\ Len(head) = i /\ IsSeq(tail) /\ lines[l + 1] = head \o tail
      BY <3>1
    <3> HIDE DEF head, tail, lines, i
    <3>4. \A k \in 1..i : lines[l + 1][k] = head[k]
      <4>1. /\ Len(tail) \in Nat
            /\ \A k \in 1..(Len(head) + Len(tail)) :
                   lines[l + 1][k] = IF k <= Len(head) THEN head[k] ELSE tail[k - Len(head)]
        BY <3>3, ConcatIsSeq DEF IsSeq
      <4>2. \A k \in 1..i : k \in 1..(i + Len(tail)) /\ k <= i
        BY <1>2, <4>1
      <4> QED BY <3>3, <4>1, <4>2
    <3>5. \A k \in 1..s.index : new[l + 1][k] = lines[l + 1][k]
      BY <1>2, <3>2, <3>4
    <3>6. s.index <= Len(lines[l + 1]) /\ s.index <= Len(new[l + 1])
      <4>1. Len(lines[l + 1]) \in Nat /\ Len(new[l + 1]) \in Nat
        BY <1>1, <1>2, <2>9, <2>11, LineInText DEF n
      <4> QED BY <1>2, <2>9, <4>1
    <3> HIDE DEF l, n
    <3>7. /\ At(l, s.column) \in Edges(new) /\ GetCharacterIndexL(new, At(l, s.column)) = s.index
      BY <1>1, <1>2, <2>9, <2>11, <3>5, <3>6, EdgeStays DEF n
    <3> QED BY <1>2, <3>7
  <2>15. CASE p = end
    <3>1. m = l
      BY <1>2, <2>13, <2>15
    <3>2. i = j
      <4>1. Len(new[m + 1]) \in Nat
        BY <2>12
      <4>2. GetCharacterIndexL(new, At(m, t.column)) = t.index
        BY <2>10, <2>11, IndexRoundTrips
      <4> QED BY <2>10, <2>13, <2>14, <2>15, <4>2
    <3>3. Without(new, m, j, m, j) = new
      BY <2>9, <2>11, WithoutNothing
    <3>4. DeleteRange(v, p, p) = v
      BY DEF DeleteRange
    <3>5. lines = new
      BY <2>9, <3>1, <3>2, <3>3
    <3> QED BY <2>15, <3>4, <3>5 DEF end, new
  <2>16. CASE p # end
    <3>1. p \in Places(v.lines) /\ end \in Places(v.lines)
      BY <2>13, <2>14 DEF Edges, new
    <3>2. end.column >= GetLineMaxColumn(v.lines, end.line) =>
              GetCharacterIndexR(v.lines, end) = Len(v.lines[end.line + 1])
      BY <2>11, <2>13, EdgeAtEnd DEF new
    <3>3. /\ GetCharacterIndexL(v.lines, p) \in 0..Len(v.lines[p.line + 1])
          /\ GetCharacterIndexR(v.lines, end) \in 0..Len(v.lines[end.line + 1])
      BY <2>9, <2>13, <2>14 DEF new
    <3>4. p.line < end.line \/ p.line = end.line
      BY <2>11, <2>13
    <3> HIDE DEF lines, l, i
    <3>5. DeleteRange(v, p, end).lines
              = Without(v.lines, p.line, GetCharacterIndexL(v.lines, p),
                                 end.line, GetCharacterIndexR(v.lines, end))
      BY <2>16, <3>1, <3>2, <3>3, <3>4, RangeDeleted
    <3> QED BY <2>9, <2>13, <2>14, <3>5 DEF new, end, lines, l
  <2> QED BY <2>15, <2>16
<1> QED BY <1>3, <1>4
=============================================================================
