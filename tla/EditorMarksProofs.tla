------------------------- MODULE EditorMarksProofs -------------------------
(***************************************************************************)
(* The match of a bracket, for every text.  C counts, from the start of    *)
(* the text, how many brackets of a kind are open more than are closed.    *)
(* The match of an open bracket is the first closed one at which C is as   *)
(* it was before the open one (Match).  The stack of the reference holds   *)
(* the brackets that are open still (Pending), and so it pairs what the    *)
(* code's counter finds on its way.                                        *)
(*                                                                         *)
(* The comments of a text, for every text whose strings hold no backslash. *)
(* What the scan holds after a glyph (Found) is told by the text up to it: *)
(* each glyph keeps that, by the case it is of (ScanFits).                 *)
(***************************************************************************)
EXTENDS MCEditorMarks, EditorBufferProofs

LEMMA Brackets ==
    /\ \A o \in DOMAIN OPEN_TO_CLOSE_CHAR : o \notin DOMAIN CLOSE_TO_OPEN_CHAR
    /\ \A o \in DOMAIN OPEN_TO_CLOSE_CHAR :
           /\ OPEN_TO_CLOSE_CHAR[o] \in DOMAIN CLOSE_TO_OPEN_CHAR
           /\ CLOSE_TO_OPEN_CHAR[OPEN_TO_CLOSE_CHAR[o]] = o
    /\ \A c \in DOMAIN CLOSE_TO_OPEN_CHAR :
           /\ CLOSE_TO_OPEN_CHAR[c] \in DOMAIN OPEN_TO_CLOSE_CHAR
           /\ OPEN_TO_CLOSE_CHAR[CLOSE_TO_OPEN_CHAR[c]] = c
BY DEF OPEN_TO_CLOSE_CHAR, CLOSE_TO_OPEN_CHAR

-----------------------------------------------------------------------------
(* Sums: the values of d are added one by one.                            *)
LEMMA SumExists ==
    ASSUME NEW N \in Nat, NEW d, \A n \in 1..N : d[n] \in Int
    PROVE  \E f \in [0..N -> Int] : f[0] = 0 /\ \A n \in 1..N : f[n] = f[n - 1] + d[n]
<1> DEFINE Sum(f, n) == f[0] = 0 /\ \A k \in 1..n : f[k] = f[k - 1] + d[k]
           S == {n \in Nat : n <= N => \E f \in [0..n -> Int] : Sum(f, n)}
<1>1. 0 \in S
  <2> DEFINE f == [k \in 0..0 |-> 0]
  <2>1. f \in [0..0 -> Int] /\ Sum(f, 0)
    OBVIOUS
  <2> QED BY <2>1
<1>2. ASSUME NEW n \in Nat, n \in S PROVE n + 1 \in S
  <2> SUFFICES ASSUME n + 1 <= N PROVE \E g \in [0..(n + 1) -> Int] : Sum(g, n + 1)
    OBVIOUS
  <2>1. PICK f \in [0..n -> Int] : Sum(f, n)
    BY <1>2
  <2> DEFINE g == [k \in 0..(n + 1) |-> IF k <= n THEN f[k] ELSE f[n] + d[n + 1]]
  <2>2. g \in [0..(n + 1) -> Int]
    <3>1. n + 1 \in 1..N /\ n \in 0..n
      OBVIOUS
    <3>2. f[n] + d[n + 1] \in Int
      BY <2>1, <3>1
    <3> QED BY <2>1, <3>2
  <2>3. /\ \A k \in 0..n : g[k] = f[k]
        /\ g[n + 1] = f[n] + d[n + 1]
    OBVIOUS
  <2> HIDE DEF g
  <2>4. ASSUME NEW k \in 1..(n + 1) PROVE g[k] = g[k - 1] + d[k]
    <3>1. CASE k \in 1..n
      <4>1. k \in 0..n /\ k - 1 \in 0..n
        BY <3>1
      <4> QED BY <2>1, <2>3, <3>1, <4>1
    <3>2. CASE k = n + 1
      <4>1. k - 1 = n /\ n \in 0..n
        BY <3>2
      <4> QED BY <2>3, <3>2, <4>1
    <3> QED BY <3>1, <3>2
  <2>5. g[0] = 0
    <3>1. 0 \in 0..n
      OBVIOUS
    <3> QED BY <2>1, <2>3, <3>1
  <2>6. Sum(g, n + 1)
    BY <2>4, <2>5
  <2> HIDE DEF Sum
  <2> QED BY <2>2, <2>6
<1>3. N \in S
  BY <1>1, <1>2, SetInduction
<1> QED BY <1>3

(* A counter that starts at 1 and moves by one at most is at least 1 until *)
(* it is 0 for the first time.                                             *)
Counter(f, N) ==
    /\ f \in [0..N -> Int] /\ f[0] = 1
    /\ \A n \in 1..N : f[n] \in {f[n - 1] - 1, f[n - 1], f[n - 1] + 1}

Zeros(f, N) == {n \in 1..N : f[n] = 0}

LEMMA FirstZero ==
    ASSUME NEW N \in Nat, NEW f, Counter(f, N), Zeros(f, N) # {}
    PROVE  LET z == Min(Zeros(f, N))
           IN  z \in 1..N /\ f[z] = 0 /\ \A n \in 0..(z - 1) : f[n] >= 1
<1> DEFINE z == Min(Zeros(f, N))
           S == {n \in Nat : n <= z - 1 => f[n] >= 1}
<1>1. z \in Zeros(f, N) /\ \A n \in Zeros(f, N) : z <= n
  BY MinOfNats DEF Zeros
<1> HIDE DEF z
<1>2. z \in 1..N /\ f[z] = 0
  BY <1>1 DEF Zeros
<1>3. 0 \in S
  BY DEF Counter
<1>4. ASSUME NEW n \in Nat, n \in S PROVE n + 1 \in S
  <2> SUFFICES ASSUME n + 1 <= z - 1 PROVE f[n + 1] >= 1
    OBVIOUS
  <2>1. n + 1 \in 1..N /\ n \in 0..N /\ n + 1 \in 0..N /\ (n + 1) - 1 = n /\ f[n] >= 1
    BY <1>2, <1>4
  <2>2. f[n] \in Int /\ f[n + 1] \in Int /\ f[n + 1] \in {f[n] - 1, f[n], f[n] + 1}
    BY <2>1 DEF Counter
  <2>3. f[n + 1] # 0
    BY <1>1, <1>2, <2>1 DEF Zeros
  <2> QED BY <2>1, <2>2, <2>3
<1>5. Nat \subseteq S
  BY <1>3, <1>4, SetInduction
<1> QED BY <1>2, <1>5 DEF z

(* The code's counter on its way.                                          *)
Turned(g, own, other) == IF g = own THEN 1 ELSE IF g = other THEN -1 ELSE 0

Counts(f, text, way, own, other, N) ==
    /\ Len(way) = N /\ DOMAIN way = 1..N /\ Counter(f, N)
    /\ \A n \in 1..N : f[n] = f[n - 1] + Turned(text[way[n]], own, other)

LEMMA FirstAlongIs ==
    ASSUME NEW text, NEW way, NEW own, NEW other, NEW N \in Nat, NEW f,
           Counts(f, text, way, own, other, N)
    PROVE  FirstAlong(text, way, own, other)
               = IF Zeros(f, N) = {} THEN 0 ELSE way[Min(Zeros(f, N))]
<1> DEFINE Pass(h) == [n \in 0..N |->
                           IF n = 0 THEN 1
                           ELSE h[n - 1] + (IF text[way[n]] = own THEN 1
                                            ELSE IF text[way[n]] = other THEN -1 ELSE 0)]
           counter == CHOOSE h : h = Pass(h)
           met == {n \in DOMAIN way : counter[n] = 0}
<1>0. /\ Len(way) = N /\ DOMAIN way = 1..N /\ Counter(f, N)
      /\ \A n \in 1..N : f[n] = f[n - 1] + Turned(text[way[n]], own, other)
  BY DEF Counts
<1>1. FirstAlong(text, way, own, other) = IF met = {} THEN 0 ELSE way[Min(met)]
  BY <1>0 DEF FirstAlong
<1>2. f = Pass(f)
  BY <1>0 DEF Counter, Turned
<1>3. counter = Pass(counter)
  BY <1>2
<1>4. ASSUME NEW c, c = Pass(c) PROVE \A n \in 0..N : c[n] = f[n]
  <2> DEFINE S == {n \in Nat : n <= N => c[n] = f[n]}
  <2>1. \A n \in 1..N : c[n] = c[n - 1] + Turned(text[way[n]], own, other)
    BY <1>0, <1>4 DEF Turned
  <2>2. 0 \in S
    BY <1>0, <1>4 DEF Counter
  <2>3. ASSUME NEW n \in Nat, n \in S PROVE n + 1 \in S
    <3> SUFFICES ASSUME n + 1 <= N PROVE c[n + 1] = f[n + 1]
      OBVIOUS
    <3>1. n + 1 \in 1..N /\ (n + 1) - 1 = n /\ c[n] = f[n]
      BY <2>3
    <3> QED BY <1>0, <2>1, <3>1
  <2>4. Nat \subseteq S
    BY <2>2, <2>3, SetInduction
  <2> QED BY <2>4
<1>5. met = Zeros(f, N)
  <2>1. \A n \in 0..N : counter[n] = f[n]
    BY <1>3, <1>4
  <2> HIDE DEF counter
  <2> QED BY <1>0, <2>1 DEF Zeros
<1> QED BY <1>1, <1>5

-----------------------------------------------------------------------------
(* How deep the text is in brackets of a kind after n of its glyphs.       *)
Depths(C, text, open, close) ==
    /\ C \in [0..Len(text) -> Int] /\ C[0] = 0
    /\ \A n \in 1..Len(text) : C[n] = C[n - 1] + Turned(text[n], open, close)

(* The bracket at j has not been closed up to n.                           *)
Pending(C, text, open, j, n) ==
    /\ j \in 1..n /\ text[j] = open
    /\ \A k \in j..n : C[k] >= C[j - 1] + 1

(* The bracket at m is the one that closes that at j.                      *)
Match(C, text, open, close, j, m) ==
    /\ m \in 1..Len(text) /\ text[m] = close
    /\ Pending(C, text, open, j, m - 1)
    /\ C[m] = C[j - 1]

LEMMA DepthsExist ==
    ASSUME NEW text, Len(text) \in Nat, NEW open, NEW close
    PROVE  \E C : Depths(C, text, open, close)
<1> DEFINE d == [n \in 1..Len(text) |-> Turned(text[n], open, close)]
<1>1. /\ Len(text) \in Nat
      /\ \A n \in 1..Len(text) : d[n] \in Int /\ d[n] = Turned(text[n], open, close)
  BY DEF Turned
<1> HIDE DEF d
<1>2. PICK C \in [0..Len(text) -> Int] :
          C[0] = 0 /\ \A n \in 1..Len(text) : C[n] = C[n - 1] + d[n]
  BY <1>1, SumExists
<1> QED BY <1>1, <1>2 DEF Depths

-----------------------------------------------------------------------------
(* The reference: what its stack and its pairs are after n glyphs.         *)
Levels(C, stack, n) ==
    \A h \in 1..Len(stack) : C[stack[h] - 1] = C[n] - (Len(stack) - h + 1)

Stacked(C, text, open, stack, n) ==
    /\ IsSeq(stack) /\ Levels(C, stack, n)
    /\ \A h \in 1..Len(stack) : Pending(C, text, open, stack[h], n)
    /\ \A j \in 1..n : Pending(C, text, open, j, n) => \E h \in 1..Len(stack) : stack[h] = j

MatchedUpTo(C, text, open, close, pairs, n) ==
    \A x : x \in pairs <=>
        \E j, m \in 1..n : Match(C, text, open, close, j, m) /\ x = {j, m}

(* One glyph further.                                                      *)
NextDepth(C, text, open, close, n) ==
    /\ C[n] \in Int /\ C[n + 1] = C[n] + Turned(text[n + 1], open, close)
    /\ Pending(C, text, open, n + 1, n + 1) <=> text[n + 1] = open
    /\ \A j \in 1..n :
           /\ Pending(C, text, open, j, n + 1)
                  <=> Pending(C, text, open, j, n) /\ C[n + 1] >= C[j - 1] + 1
           /\ Pending(C, text, open, j, n) => C[j - 1] \in Int /\ C[n] >= C[j - 1] + 1

LEMMA PendingNext ==
    ASSUME NEW text, IsSeq(text), NEW open, NEW close, open # close,
           NEW C, Depths(C, text, open, close), NEW n \in Nat, n + 1 <= Len(text)
    PROVE  NextDepth(C, text, open, close, n)
<1>1. /\ n \in 0..Len(text) /\ n + 1 \in 1..Len(text) /\ (n + 1) - 1 = n /\ Len(text) \in Nat
  BY DEF IsSeq
<1>2. C[n] \in Int /\ C[n + 1] = C[n] + Turned(text[n + 1], open, close)
  BY <1>1 DEF Depths
<1>3. ASSUME NEW j \in 1..n
      PROVE  Pending(C, text, open, j, n + 1)
                  <=> Pending(C, text, open, j, n) /\ C[n + 1] >= C[j - 1] + 1
  <2>1. j \in 1..(n + 1) /\ j..(n + 1) = (j..n) \cup {n + 1}
    OBVIOUS
  <2> QED BY <2>1 DEF Pending
<1>4. Pending(C, text, open, n + 1, n + 1) <=> text[n + 1] = open
  <2>1. (n + 1)..(n + 1) = {n + 1} /\ n + 1 \in 1..(n + 1)
    OBVIOUS
  <2>2. text[n + 1] = open => C[n + 1] >= C[n] + 1
    BY <1>2 DEF Turned
  <2> QED BY <1>1, <2>1, <2>2 DEF Pending
<1>5. ASSUME NEW j \in 1..n, Pending(C, text, open, j, n)
      PROVE  C[j - 1] \in Int /\ C[n] >= C[j - 1] + 1
  <2>1. j - 1 \in 0..Len(text) /\ n \in j..n
    BY <1>1
  <2> QED BY <1>5, <2>1 DEF Pending, Depths
<1> QED BY <1>2, <1>3, <1>4, <1>5 DEF NextDepth

OnlyMatch(C, text, open, close, t, n) ==
    t \in 1..n /\ \A j \in 1..n : Match(C, text, open, close, j, n + 1) <=> j = t

LEMMA MatchNext ==
    ASSUME NEW text, NEW open, NEW close, NEW C, NEW n \in Nat,
           NEW p, MatchedUpTo(C, text, open, close, p, n),
           NEW t, OnlyMatch(C, text, open, close, t, n)
    PROVE  MatchedUpTo(C, text, open, close, p \cup {{t, n + 1}}, n + 1)
<1> DEFINE M(j, m) == Match(C, text, open, close, j, m)
           q == p \cup {{t, n + 1}}
<1>0. ASSUME NEW j \in 1..(n + 1), NEW m \in 1..(n + 1), M(j, m)
      PROVE  j \in 1..n /\ (m \in 1..n \/ m = n + 1)
  BY <1>0 DEF Match, Pending
<1>1. /\ t \in 1..n /\ \A j \in 1..n : M(j, n + 1) <=> j = t
      /\ \A x : x \in p <=> \E j, m \in 1..n : M(j, m) /\ x = {j, m}
      /\ \A x : x \in q <=> x \in p \/ x = {t, n + 1}
  BY DEF MatchedUpTo, OnlyMatch
<1> HIDE DEF M, q
<1> SUFFICES ASSUME NEW x
             PROVE  x \in q <=> \E j, m \in 1..(n + 1) : M(j, m) /\ x = {j, m}
  BY DEF MatchedUpTo, M, q
<1>2. ASSUME x \in q PROVE \E j, m \in 1..(n + 1) : M(j, m) /\ x = {j, m}
  <2>1. CASE x \in p
    <3>1. PICK j \in 1..n, m \in 1..n : M(j, m) /\ x = {j, m}
      BY <1>1, <2>1
    <3>2. j \in 1..(n + 1) /\ m \in 1..(n + 1)
      OBVIOUS
    <3> QED BY <3>1, <3>2
  <2>2. CASE x = {t, n + 1}
    <3>1. t \in 1..(n + 1) /\ n + 1 \in 1..(n + 1) /\ M(t, n + 1)
      BY <1>1
    <3> QED BY <2>2, <3>1
  <2> QED BY <1>1, <1>2, <2>1, <2>2
<1>3. ASSUME NEW j \in 1..(n + 1), NEW m \in 1..(n + 1), M(j, m), x = {j, m} PROVE x \in q
  <2>1. j \in 1..n /\ (m \in 1..n \/ m = n + 1)
    BY <1>0, <1>3
  <2> QED BY <1>1, <1>3, <2>1
<1> QED BY <1>2, <1>3

LEMMA NoMatchNext ==
    ASSUME NEW text, NEW open, NEW close, NEW C, NEW n \in Nat,
           NEW p, MatchedUpTo(C, text, open, close, p, n),
           \A j \in 1..n : ~Match(C, text, open, close, j, n + 1)
    PROVE  MatchedUpTo(C, text, open, close, p, n + 1)
<1> DEFINE M(j, m) == Match(C, text, open, close, j, m)
<1>0. ASSUME NEW j \in 1..(n + 1), NEW m \in 1..(n + 1), M(j, m)
      PROVE  j \in 1..n /\ m \in 1..n
  <2>1. j \in 1..n
    BY <1>0 DEF Match, Pending
  <2> QED BY <1>0, <2>1
<1>1. \A x : x \in p <=> \E j, m \in 1..n : M(j, m) /\ x = {j, m}
  BY DEF MatchedUpTo
<1> HIDE DEF M
<1> SUFFICES ASSUME NEW x
             PROVE  x \in p <=> \E j, m \in 1..(n + 1) : M(j, m) /\ x = {j, m}
  BY DEF MatchedUpTo, M
<1>2. ASSUME x \in p PROVE \E j, m \in 1..(n + 1) : M(j, m) /\ x = {j, m}
  <2>1. PICK j \in 1..n, m \in 1..n : M(j, m) /\ x = {j, m}
    BY <1>1, <1>2
  <2>2. j \in 1..(n + 1) /\ m \in 1..(n + 1)
    OBVIOUS
  <2> QED BY <2>1, <2>2
<1> QED BY <1>0, <1>1, <1>2

(* One step of the reference keeps what its stack and its pairs are.       *)
LEMMA OpenStacked ==
    ASSUME NEW text, IsSeq(text), NEW open, NEW close, open # close,
           NEW C, Depths(C, text, open, close), NEW n \in Nat, n + 1 <= Len(text),
           text[n + 1] = open, NEW stack, Stacked(C, text, open, stack, n)
    PROVE  Stacked(C, text, open, Append(stack, n + 1), n + 1)
<1>0. NextDepth(C, text, open, close, n)
  BY PendingNext
<1> DEFINE next == Append(stack, n + 1)
           L == Len(stack)
<1>1. /\ L \in Nat /\ IsSeq(next) /\ Len(next) = L + 1
      /\ \A h \in 1..(L + 1) : next[h] = IF h <= L THEN stack[h] ELSE n + 1
  BY AppendIsSeq DEF Stacked, IsSeq
<1>2. /\ C[n] \in Int /\ C[n + 1] = C[n] + 1
      /\ Pending(C, text, open, n + 1, n + 1)
      /\ \A j \in 1..n : Pending(C, text, open, j, n) <=> Pending(C, text, open, j, n + 1)
  BY <1>0 DEF NextDepth, Turned
<1>3. \A h \in 1..L : /\ stack[h] \in 1..n /\ Pending(C, text, open, stack[h], n)
                      /\ C[stack[h] - 1] = C[n] - (L - h + 1)
  BY DEF Stacked, Levels, Pending
<1>4. \A j \in 1..n : Pending(C, text, open, j, n) => \E h \in 1..L : stack[h] = j
  BY DEF Stacked
<1> HIDE DEF next, L
<1>5. ASSUME NEW h \in 1..(L + 1)
      PROVE  /\ C[next[h] - 1] = C[n + 1] - ((L + 1) - h + 1)
             /\ Pending(C, text, open, next[h], n + 1)
  <2>1. CASE h \in 1..L
    <3>1. next[h] = stack[h]
      BY <1>1, <2>1
    <3>2. C[next[h] - 1] = C[n] - (L - h + 1)
      BY <1>3, <2>1, <3>1
    <3>3. C[n] - (L - h + 1) = C[n + 1] - ((L + 1) - h + 1)
      BY <1>1, <1>2
    <3>4. Pending(C, text, open, stack[h], n + 1)
      BY <1>2, <1>3, <2>1
    <3> QED BY <3>1, <3>2, <3>3, <3>4
  <2>2. CASE h = L + 1
    <3>1. next[h] = n + 1 /\ (n + 1) - 1 = n
      BY <1>1, <2>2
    <3> QED BY <1>1, <1>2, <2>2, <3>1
  <2> QED BY <1>1, <2>1, <2>2
<1>6. ASSUME NEW j \in 1..(n + 1), Pending(C, text, open, j, n + 1)
      PROVE  \E h \in 1..(L + 1) : next[h] = j
  <2>1. CASE j \in 1..n
    <3>1. PICK h \in 1..L : stack[h] = j
      BY <1>2, <1>4, <1>6, <2>1
    <3>2. h \in 1..(L + 1) /\ next[h] = j
      BY <1>1, <3>1
    <3> QED BY <3>2
  <2>2. CASE j = n + 1
    <3>1. L + 1 \in 1..(L + 1) /\ next[L + 1] = n + 1
      BY <1>1
    <3> QED BY <2>2, <3>1
  <2> QED BY <2>1, <2>2
<1> QED BY <1>1, <1>5, <1>6 DEF Stacked, Levels, next

LEMMA CloseStacked ==
    ASSUME NEW text, IsSeq(text), NEW open, NEW close, open # close,
           NEW C, Depths(C, text, open, close), NEW n \in Nat, n + 1 <= Len(text),
           text[n + 1] = close, NEW stack, Stacked(C, text, open, stack, n), stack # <<>>
    PROVE  /\ Stacked(C, text, open, Front(stack), n + 1)
           /\ OnlyMatch(C, text, open, close, Last(stack), n)
<1>0. NextDepth(C, text, open, close, n)
  BY PendingNext
<1> DEFINE L == Len(stack)
           front == Front(stack)
           t == Last(stack)
<1>1. L \in Nat /\ IsSeq(stack)
  BY DEF Stacked, IsSeq
<1>2. L >= 1
  <2>1. L = 0 => stack = <<>>
    BY <1>1 DEF IsSeq
  <2> QED BY <1>1, <2>1
<1>3. t = stack[L]
  BY DEF Last
<1>4. /\ IsSeq(front) /\ Len(front) = L - 1 /\ \A h \in 1..(L - 1) : front[h] = stack[h]
  <2>1. front = SubSeq(stack, 1, L - 1)
    BY DEF Front
  <2>2. /\ IsSeq(SubSeq(stack, 1, L - 1))
        /\ Len(SubSeq(stack, 1, L - 1)) = IF 1 <= L - 1 THEN 1 + (L - 1) - 1 ELSE 0
        /\ \A i \in 1..Len(SubSeq(stack, 1, L - 1)) :
               SubSeq(stack, 1, L - 1)[i] = stack[i + 1 - 1]
    BY <1>1, SubSeqIsSeq
  <2>3. Len(front) = L - 1
    <3> HIDE DEF L, front
    <3> QED BY <1>1, <1>2, <2>1, <2>2
  <2> QED BY <1>1, <1>2, <2>1, <2>2, <2>3
<1>5. /\ C[n] \in Int /\ C[n + 1] = C[n] - 1
      /\ ~Pending(C, text, open, n + 1, n + 1)
      /\ \A j \in 1..n : Pending(C, text, open, j, n + 1)
                             <=> Pending(C, text, open, j, n) /\ C[n + 1] >= C[j - 1] + 1
  BY <1>0 DEF NextDepth, Turned
<1>6. \A h \in 1..L : /\ stack[h] \in 1..n /\ Pending(C, text, open, stack[h], n)
                      /\ C[stack[h] - 1] = C[n] - (L - h + 1)
  BY DEF Stacked, Levels, Pending
<1>7. \A j \in 1..n : Pending(C, text, open, j, n) => \E h \in 1..L : stack[h] = j
  BY DEF Stacked
<1> HIDE DEF front, t, L
<1>8. t \in 1..n /\ Pending(C, text, open, t, n) /\ C[t - 1] = C[n + 1]
  <2>1. L \in 1..L /\ L - L + 1 = 1
    BY <1>1, <1>2
  <2> QED BY <1>3, <1>5, <1>6, <2>1
<1>9. ASSUME NEW h \in 1..(L - 1)
      PROVE  /\ C[front[h] - 1] = C[n + 1] - ((L - 1) - h + 1)
             /\ Pending(C, text, open, front[h], n + 1)
  <2>1. h \in 1..L /\ front[h] = stack[h]
    BY <1>1, <1>4
  <2>2. C[stack[h] - 1] = C[n] - (L - h + 1)
    BY <1>6, <2>1
  <2>3. C[stack[h] - 1] = C[n + 1] - ((L - 1) - h + 1) /\ C[n + 1] >= C[stack[h] - 1] + 1
    BY <1>1, <1>5, <2>2
  <2> QED BY <1>5, <1>6, <2>1, <2>3
<1>10. ASSUME NEW j \in 1..(n + 1), Pending(C, text, open, j, n + 1)
       PROVE  \E h \in 1..(L - 1) : front[h] = j
  <2>1. j \in 1..n
    BY <1>5, <1>10
  <2>2. PICK h \in 1..L : stack[h] = j
    BY <1>5, <1>7, <1>10, <2>1
  <2>3. h # L
    <3>1. C[n + 1] >= C[j - 1] + 1
      BY <1>5, <1>10, <2>1
    <3>2. C[n + 1] \in Int
      BY <1>5
    <3> QED BY <1>3, <1>8, <2>2, <3>1, <3>2
  <2>4. h \in 1..(L - 1)
    BY <1>1, <2>3
  <2> QED BY <1>4, <2>2, <2>4
<1>11. ASSUME NEW j \in 1..n PROVE Match(C, text, open, close, j, n + 1) <=> j = t
  <2>1. n + 1 \in 1..Len(text) /\ (n + 1) - 1 = n
    BY DEF IsSeq
  <2>2. Match(C, text, open, close, j, n + 1)
            <=> Pending(C, text, open, j, n) /\ C[n + 1] = C[j - 1]
    BY <2>1 DEF Match
  <2>3. ASSUME Pending(C, text, open, j, n), C[n + 1] = C[j - 1] PROVE j = t
    <3>1. PICK h \in 1..L : stack[h] = j
      BY <1>7, <2>3
    <3>2. C[j - 1] = C[n] - (L - h + 1)
      BY <1>6, <3>1
    <3>3. h = L
      BY <1>1, <1>5, <2>3, <3>2
    <3> QED BY <1>3, <3>1, <3>3
  <2> QED BY <1>8, <2>2, <2>3
<1> QED BY <1>4, <1>8, <1>9, <1>10, <1>11 DEF Stacked, Levels, OnlyMatch, front, t

LEMMA OtherStacked ==
    ASSUME NEW text, IsSeq(text), NEW open, NEW close, open # close,
           NEW C, Depths(C, text, open, close), NEW n \in Nat, n + 1 <= Len(text),
           text[n + 1] # open, NEW stack, Stacked(C, text, open, stack, n),
           text[n + 1] # close \/ stack = <<>>
    PROVE  /\ Stacked(C, text, open, stack, n + 1)
           /\ \A j \in 1..n : ~Match(C, text, open, close, j, n + 1)
<1>0. NextDepth(C, text, open, close, n)
  BY PendingNext
<1>1. n + 1 \in 1..Len(text) /\ (n + 1) - 1 = n
  BY DEF IsSeq
<1>2. /\ C[n] \in Int /\ C[n + 1] = C[n] + Turned(text[n + 1], open, close)
      /\ ~Pending(C, text, open, n + 1, n + 1)
      /\ \A j \in 1..n : Pending(C, text, open, j, n + 1)
                             <=> Pending(C, text, open, j, n) /\ C[n + 1] >= C[j - 1] + 1
      /\ \A j \in 1..n : Pending(C, text, open, j, n) => C[n] >= C[j - 1] + 1
  BY <1>0 DEF NextDepth
<1>3. ASSUME text[n + 1] # close
      PROVE  /\ Stacked(C, text, open, stack, n + 1)
             /\ \A j \in 1..n : ~Match(C, text, open, close, j, n + 1)
  <2>1. C[n + 1] = C[n]
    BY <1>2, <1>3 DEF Turned
  <2>2. \A j \in 1..(n + 1) : Pending(C, text, open, j, n + 1)
                                  => j \in 1..n /\ Pending(C, text, open, j, n)
    BY <1>2
  <2>3. \A j \in 1..n : Pending(C, text, open, j, n) => Pending(C, text, open, j, n + 1)
    BY <1>2, <2>1
  <2>4. \A h \in 1..Len(stack) : stack[h] \in 1..n
    BY DEF Stacked, Pending
  <2>5. Stacked(C, text, open, stack, n + 1)
    BY <2>1, <2>2, <2>3, <2>4 DEF Stacked, Levels
  <2> QED BY <1>3, <2>5 DEF Match
<1>4. ASSUME stack = <<>>
      PROVE  /\ Stacked(C, text, open, stack, n + 1)
             /\ \A j \in 1..n : ~Match(C, text, open, close, j, n + 1)
  <2>1. Len(stack) = 0 /\ 1..Len(stack) = {}
    BY <1>4
  <2>2. \A j \in 1..n : ~Pending(C, text, open, j, n)
    BY <2>1 DEF Stacked
  <2>3. \A j \in 1..(n + 1) : ~Pending(C, text, open, j, n + 1)
    BY <1>2, <2>2
  <2>4. Stacked(C, text, open, stack, n + 1)
    BY <2>1, <2>3 DEF Stacked, Levels
  <2> QED BY <1>1, <2>2, <2>4 DEF Match
<1> QED BY <1>3, <1>4

-----------------------------------------------------------------------------
(* The reference pairs each bracket with its match, and nothing else.      *)
Stepped(a, text, open, i) ==
    IF text[i] = open THEN [a EXCEPT !.stack = Append(@, i)]
    ELSE IF text[i] = OPEN_TO_CLOSE_CHAR[open] /\ a.stack # <<>>
    THEN [stack |-> Front(a.stack), pairs |-> a.pairs \cup {{Last(a.stack), i}}]
    ELSE a

StepsTo(h, text, open, n) ==
    h = [i \in 0..n |-> IF i = 0 THEN [stack |-> <<>>, pairs |-> {}]
                        ELSE Stepped(h[i - 1], text, open, i)]

LEMMA StepsExist ==
    ASSUME NEW text, NEW open, NEW N \in Nat
    PROVE  \E h : StepsTo(h, text, open, N)
<1> DEFINE S == {n \in Nat : \E h : StepsTo(h, text, open, n)}
<1>1. 0 \in S
  <2> DEFINE h == [i \in 0..0 |-> [stack |-> <<>>, pairs |-> {}]]
  <2>1. StepsTo(h, text, open, 0)
    BY DEF StepsTo
  <2> QED BY <2>1
<1>2. ASSUME NEW n \in Nat, n \in S PROVE n + 1 \in S
  <2>1. PICK h : StepsTo(h, text, open, n)
    BY <1>2
  <2> DEFINE g == [i \in 0..(n + 1) |-> IF i <= n THEN h[i]
                                        ELSE Stepped(h[n], text, open, n + 1)]
  <2>2. /\ \A i \in 0..n : g[i] = h[i]
        /\ g[n + 1] = Stepped(h[n], text, open, n + 1)
    OBVIOUS
  <2>3. g = [i \in 0..(n + 1) |-> g[i]]
    OBVIOUS
  <2> HIDE DEF g
  <2>4. ASSUME NEW i \in 0..(n + 1)
        PROVE  g[i] = IF i = 0 THEN [stack |-> <<>>, pairs |-> {}]
                      ELSE Stepped(g[i - 1], text, open, i)
    <3>1. CASE i = 0
      BY <2>1, <2>2, <3>1 DEF StepsTo
    <3>2. CASE i \in 1..n
      <4>1. g[i] = h[i] /\ g[i - 1] = h[i - 1] /\ i # 0 /\ i \in 0..n
        BY <2>2, <3>2
      <4> QED BY <2>1, <4>1 DEF StepsTo
    <3>3. CASE i = n + 1
      <4>1. n \in 0..n /\ i - 1 = n /\ i # 0
        BY <3>3
      <4> QED BY <2>2, <3>3, <4>1
    <3> QED BY <3>1, <3>2, <3>3
  <2>5. StepsTo(g, text, open, n + 1)
    BY <2>3, <2>4 DEF StepsTo
  <2> QED BY <2>5
<1>3. N \in S
  BY <1>1, <1>2, SetInduction
<1> QED BY <1>3

LEMMA PairsAreMatches ==
    ASSUME NEW text, IsSeq(text), NEW open, NEW close,
           close = OPEN_TO_CLOSE_CHAR[open], open # close,
           NEW C, Depths(C, text, open, close)
    PROVE  MatchedUpTo(C, text, open, close, Pairs(text, open), Len(text))
<1> DEFINE after == CHOOSE h : StepsTo(h, text, open, Len(text))
           Fits(a, n) == /\ a = [stack |-> a.stack, pairs |-> a.pairs]
                         /\ Stacked(C, text, open, a.stack, n)
                         /\ MatchedUpTo(C, text, open, close, a.pairs, n)
           S == {n \in Nat : n <= Len(text) => Fits(after[n], n)}
<1>0. Len(text) \in Nat
  BY DEF IsSeq
<1>1. Pairs(text, open) = after[Len(text)].pairs
  BY DEF Pairs, Stepped, StepsTo
<1>2. StepsTo(after, text, open, Len(text))
  BY <1>0, StepsExist
<1> HIDE DEF after
<1>3. /\ after[0] = [stack |-> <<>>, pairs |-> {}]
      /\ \A i \in 1..Len(text) : after[i] = Stepped(after[i - 1], text, open, i)
  <2>1. \A i \in 0..Len(text) : after[i] = IF i = 0 THEN [stack |-> <<>>, pairs |-> {}]
                                           ELSE Stepped(after[i - 1], text, open, i)
    BY <1>2 DEF StepsTo
  <2> QED BY <1>0, <2>1
<1>4. 0 \in S
  <2>1. IsSeq(<<>>) /\ Len(<<>>) = 0 /\ 1..0 = {}
    BY DEF IsSeq
  <2> QED BY <1>3, <2>1 DEF Stacked, Levels, MatchedUpTo
<1>5. ASSUME NEW n \in Nat, n \in S PROVE n + 1 \in S
  <2> SUFFICES ASSUME n + 1 <= Len(text) PROVE Fits(after[n + 1], n + 1)
    OBVIOUS
  <2>1. n + 1 \in 1..Len(text) /\ (n + 1) - 1 = n /\ n <= Len(text)
    BY <1>0
  <2> DEFINE a == after[n]
  <2>2. Fits(a, n)
    BY <1>5, <2>1
  <2>3. after[n + 1] = Stepped(a, text, open, n + 1)
    BY <1>3, <2>1
  <2> HIDE DEF a
  <2>4. CASE text[n + 1] = open
    <3>1. after[n + 1] = [stack |-> Append(a.stack, n + 1), pairs |-> a.pairs]
      BY <2>2, <2>3, <2>4 DEF Stepped
    <3>2. \A j \in 1..n : ~Match(C, text, open, close, j, n + 1)
      BY <2>4 DEF Match
    <3>3. MatchedUpTo(C, text, open, close, a.pairs, n + 1)
      BY <2>2, <3>2, NoMatchNext
    <3>4. Stacked(C, text, open, Append(a.stack, n + 1), n + 1)
      BY <2>2, <2>4, OpenStacked
    <3> QED BY <3>1, <3>3, <3>4
  <2>5. CASE text[n + 1] = close /\ a.stack # <<>>
    <3>1. after[n + 1] = [stack |-> Front(a.stack),
                          pairs |-> a.pairs \cup {{Last(a.stack), n + 1}}]
      BY <2>3, <2>5 DEF Stepped
    <3>2. /\ Stacked(C, text, open, Front(a.stack), n + 1)
          /\ OnlyMatch(C, text, open, close, Last(a.stack), n)
      BY <2>2, <2>5, CloseStacked
    <3>3. MatchedUpTo(C, text, open, close, a.pairs \cup {{Last(a.stack), n + 1}}, n + 1)
      BY <2>2, <3>2, MatchNext
    <3> QED BY <3>1, <3>2, <3>3
  <2>6. CASE text[n + 1] # open /\ (text[n + 1] # close \/ a.stack = <<>>)
    <3>1. after[n + 1] = a
      BY <2>3, <2>6 DEF Stepped
    <3>2. /\ Stacked(C, text, open, a.stack, n + 1)
          /\ \A j \in 1..n : ~Match(C, text, open, close, j, n + 1)
      <4>1. text[n + 1] # open
        BY <2>6
      <4>2. text[n + 1] # close \/ a.stack = <<>>
        BY <2>6
      <4> DEFINE stack == a.stack
      <4>3. Stacked(C, text, open, stack, n) /\ (text[n + 1] # close \/ stack = <<>>)
        BY <2>2, <4>2
      <4> HIDE DEF stack
      <4>4. /\ Stacked(C, text, open, stack, n + 1)
            /\ \A j \in 1..n : ~Match(C, text, open, close, j, n + 1)
        BY <4>1, <4>3, OtherStacked
      <4> QED BY <4>4 DEF stack
    <3>3. MatchedUpTo(C, text, open, close, a.pairs, n + 1)
      BY <2>2, <3>2, NoMatchNext
    <3> QED BY <2>2, <3>1, <3>2, <3>3
  <2> QED BY <2>4, <2>5, <2>6
<1>6. Nat \subseteq S
  BY <1>4, <1>5, SetInduction
<1>7. Fits(after[Len(text)], Len(text))
  BY <1>0, <1>6
<1> QED BY <1>1, <1>7

-----------------------------------------------------------------------------
(* The code's way back from a closed bracket, and on from an open one.     *)
FindBack(text, i, own, other) ==
    FirstAlong(text, [n \in 1..(i - 1) |-> i - n], own, other)
FindOn(text, i, own, other) ==
    FirstAlong(text, [n \in 1..(Len(text) - i) |-> i + n], own, other)

LEMMA FindsBack ==
    ASSUME NEW text, IsSeq(text), NEW open, NEW close, open # close,
           NEW C, Depths(C, text, open, close), NEW i \in 1..Len(text), text[i] = close
    PROVE  LET j == FindBack(text, i, close, open)
           IN  IF j = 0 THEN \A a \in 1..Len(text) : ~Match(C, text, open, close, a, i)
               ELSE j \in 1..Len(text) /\ Match(C, text, open, close, j, i)
<1> DEFINE N == i - 1
           way == [n \in 1..N |-> i - n]
           f == [n \in 0..N |-> C[i - 1 - n] - C[i]]
<1>1. /\ N \in Nat /\ Len(text) \in Nat /\ i \in Nat /\ N = i - 1 /\ i <= Len(text)
      /\ Len(way) = N /\ DOMAIN way = 1..N
      /\ \A n \in 1..N : way[n] = i - n
  BY DEF IsSeq
<1>2. /\ \A n \in 0..Len(text) : C[n] \in Int
      /\ \A n \in 1..Len(text) : C[n] = C[n - 1] + Turned(text[n], open, close)
  BY DEF Depths
<1>3. /\ f = [n \in 0..N |-> f[n]]
      /\ \A n \in 0..N : f[n] = C[i - 1 - n] - C[i]
  OBVIOUS
<1>4. FindBack(text, i, close, open) = FirstAlong(text, way, close, open)
  BY DEF FindBack
<1> HIDE DEF N, way, f
<1>5. ASSUME NEW n \in 0..N PROVE i - 1 - n \in 0..Len(text) /\ f[n] \in Int
  <2>1. i - 1 - n \in 0..Len(text) /\ i \in 0..Len(text)
    BY <1>1
  <2> QED BY <1>2, <1>3, <2>1
<1>6. ASSUME NEW n \in 1..N PROVE f[n] = f[n - 1] + Turned(text[way[n]], close, open)
  <2>1. /\ i - n \in 1..Len(text) /\ n - 1 \in 0..N /\ n \in 0..N
        /\ i - 1 - (n - 1) = i - n /\ i - 1 - n = (i - n) - 1
        /\ i \in 0..Len(text) /\ i - n \in 0..Len(text) /\ (i - n) - 1 \in 0..Len(text)
    BY <1>1
  <2>2. f[n - 1] = C[i - n] - C[i] /\ f[n] = C[(i - n) - 1] - C[i]
    BY <1>3, <2>1
  <2>3. C[i - n] = C[(i - n) - 1] + Turned(text[i - n], open, close)
    BY <1>2, <2>1
  <2>4. Turned(text[way[n]], close, open) = -Turned(text[i - n], open, close)
    BY <1>1 DEF Turned
  <2>5. Turned(text[i - n], open, close) \in Int
    BY DEF Turned
  <2>6. C[i] \in Int /\ C[i - n] \in Int /\ C[(i - n) - 1] \in Int
    BY <1>2, <2>1
  <2> QED BY <2>2, <2>3, <2>4, <2>5, <2>6
<1>7. f[0] = 1
  <2>1. C[i] = C[i - 1] - 1 /\ C[i - 1] \in Int /\ i - 1 - 0 = i - 1 /\ 0 \in 0..N
    BY <1>1, <1>2 DEF Turned
  <2> QED BY <1>3, <2>1
<1>8. Counter(f, N)
  <2>1. f \in [0..N -> Int]
    BY <1>3, <1>5
  <2>2. \A n \in 1..N : f[n] \in {f[n - 1] - 1, f[n - 1], f[n - 1] + 1}
    <3> SUFFICES ASSUME NEW n \in 1..N PROVE f[n] \in {f[n - 1] - 1, f[n - 1], f[n - 1] + 1}
      OBVIOUS
    <3>1. n - 1 \in 0..N /\ f[n - 1] \in Int
      BY <1>1, <1>5
    <3> QED BY <1>6, <3>1 DEF Turned
  <2> QED BY <1>7, <2>1, <2>2 DEF Counter
<1>9. FindBack(text, i, close, open)
          = IF Zeros(f, N) = {} THEN 0 ELSE way[Min(Zeros(f, N))]
  <2>1. Counts(f, text, way, close, open, N)
    BY <1>1, <1>6, <1>8 DEF Counts
  <2> QED BY <1>1, <1>4, <2>1, FirstAlongIs
<1>10. ASSUME NEW a \in 1..Len(text), Match(C, text, open, close, a, i)
       PROVE  Zeros(f, N) # {}
  <2>1. a \in 1..(i - 1) /\ C[i] = C[a - 1]
    BY <1>10 DEF Match, Pending
  <2>2. i - a \in 1..N /\ i - a \in 0..N /\ i - 1 - (i - a) = a - 1
    BY <1>1, <2>1
  <2>3. C[i] \in Int
    BY <1>1, <1>2
  <2>4. f[i - a] = 0
    BY <1>3, <2>1, <2>2, <2>3
  <2> QED BY <2>2, <2>4 DEF Zeros
<1>11. ASSUME Zeros(f, N) # {}
       PROVE  LET j == way[Min(Zeros(f, N))]
              IN  j \in 1..Len(text) /\ Match(C, text, open, close, j, i)
  <2> DEFINE z == Min(Zeros(f, N))
             a == i - z
  <2>1. z \in 1..N /\ f[z] = 0 /\ \A n \in 0..(z - 1) : f[n] >= 1
    BY <1>1, <1>8, <1>11, FirstZero
  <2> HIDE DEF z
  <2>2. way[z] = a /\ a \in 1..(i - 1) /\ a \in 1..Len(text) /\ a \in Nat /\ i - 1 - z = a - 1
    BY <1>1, <2>1
  <2>3. C[i] = C[a - 1] /\ C[a - 1] \in Int /\ C[i] \in Int
    <3>1. i \in 0..Len(text) /\ a - 1 \in 0..Len(text) /\ z \in 0..N
      BY <1>1, <2>1, <2>2
    <3>2. f[z] = C[a - 1] - C[i]
      BY <1>3, <2>2, <3>1
    <3>3. C[a - 1] \in Int /\ C[i] \in Int
      BY <1>2, <3>1
    <3> QED BY <2>1, <3>2, <3>3
  <2>4. ASSUME NEW k \in a..(i - 1) PROVE C[k] >= C[a - 1] + 1
    <3>1. i - 1 - k \in 0..(z - 1) /\ i - 1 - k \in 0..N /\ i - 1 - (i - 1 - k) = k
      BY <1>1, <2>1, <2>2
    <3>2. C[k] - C[i] >= 1
      BY <1>3, <2>1, <3>1
    <3>3. C[k] \in Int
      BY <1>1, <1>2, <2>2
    <3> QED BY <2>3, <3>2, <3>3
  <2>5. text[a] = open
    <3>1. C[a] >= C[a - 1] + 1 /\ C[a] = C[a - 1] + Turned(text[a], open, close)
      BY <1>1, <1>2, <2>2, <2>4
    <3> QED BY <2>3, <3>1 DEF Turned
  <2> HIDE DEF a
  <2>6. Pending(C, text, open, a, i - 1)
    BY <2>2, <2>4, <2>5 DEF Pending
  <2> QED BY <2>2, <2>3, <2>6 DEF Match, z
<1> DEFINE j == way[Min(Zeros(f, N))]
<1> HIDE DEF j
<1>12. Zeros(f, N) # {} => j # 0
  BY <1>11 DEF j
<1> QED BY <1>9, <1>10, <1>11, <1>12 DEF j

LEMMA FindsOn ==
    ASSUME NEW text, IsSeq(text), NEW open, NEW close, open # close,
           NEW C, Depths(C, text, open, close), NEW i \in 1..Len(text), text[i] = open
    PROVE  LET j == FindOn(text, i, open, close)
           IN  IF j = 0 THEN \A m \in 1..Len(text) : ~Match(C, text, open, close, i, m)
               ELSE j \in 1..Len(text) /\ Match(C, text, open, close, i, j)
<1> DEFINE N == Len(text) - i
           way == [n \in 1..N |-> i + n]
           f == [n \in 0..N |-> C[i + n] - C[i - 1]]
<1>1. /\ N \in Nat /\ Len(text) \in Nat /\ i \in Nat /\ N = Len(text) - i /\ i >= 1
      /\ Len(way) = N /\ DOMAIN way = 1..N
      /\ \A n \in 1..N : way[n] = i + n
  BY DEF IsSeq
<1>2. /\ \A n \in 0..Len(text) : C[n] \in Int
      /\ \A n \in 1..Len(text) : C[n] = C[n - 1] + Turned(text[n], open, close)
  BY DEF Depths
<1>3. /\ f = [n \in 0..N |-> f[n]]
      /\ \A n \in 0..N : f[n] = C[i + n] - C[i - 1]
  OBVIOUS
<1>4. FindOn(text, i, open, close) = FirstAlong(text, way, open, close)
  BY DEF FindOn
<1> HIDE DEF N, way, f
<1>5. ASSUME NEW n \in 0..N PROVE i + n \in 0..Len(text) /\ f[n] \in Int
  <2>1. i + n \in 0..Len(text) /\ i - 1 \in 0..Len(text)
    BY <1>1
  <2>2. f[n] = C[i + n] - C[i - 1] /\ C[i + n] \in Int /\ C[i - 1] \in Int
    BY <1>2, <1>3, <2>1
  <2> QED BY <2>1, <2>2
<1>6. ASSUME NEW n \in 1..N PROVE f[n] = f[n - 1] + Turned(text[way[n]], open, close)
  <2>1. /\ i + n \in 1..Len(text) /\ n - 1 \in 0..N /\ n \in 0..N
        /\ i + (n - 1) = (i + n) - 1
        /\ i - 1 \in 0..Len(text) /\ i + n \in 0..Len(text) /\ (i + n) - 1 \in 0..Len(text)
    BY <1>1
  <2>2. f[n - 1] = C[(i + n) - 1] - C[i - 1] /\ f[n] = C[i + n] - C[i - 1]
    BY <1>3, <2>1
  <2>3. C[i + n] = C[(i + n) - 1] + Turned(text[way[n]], open, close)
    BY <1>1, <1>2, <2>1
  <2>4. Turned(text[way[n]], open, close) \in Int
    BY DEF Turned
  <2>5. C[i - 1] \in Int /\ C[i + n] \in Int /\ C[(i + n) - 1] \in Int
    BY <1>2, <2>1
  <2> QED BY <2>2, <2>3, <2>4, <2>5
<1>7. f[0] = 1
  <2>1. C[i] = C[i - 1] + 1 /\ C[i - 1] \in Int /\ i + 0 = i /\ 0 \in 0..N
    BY <1>1, <1>2 DEF Turned
  <2> QED BY <1>3, <2>1
<1>8. Counter(f, N)
  <2>1. f \in [0..N -> Int]
    BY <1>3, <1>5
  <2>2. \A n \in 1..N : f[n] \in {f[n - 1] - 1, f[n - 1], f[n - 1] + 1}
    <3> SUFFICES ASSUME NEW n \in 1..N PROVE f[n] \in {f[n - 1] - 1, f[n - 1], f[n - 1] + 1}
      OBVIOUS
    <3>1. n - 1 \in 0..N /\ f[n - 1] \in Int
      BY <1>1, <1>5
    <3> QED BY <1>6, <3>1 DEF Turned
  <2> QED BY <1>7, <2>1, <2>2 DEF Counter
<1>9. FindOn(text, i, open, close)
          = IF Zeros(f, N) = {} THEN 0 ELSE way[Min(Zeros(f, N))]
  <2>1. Counts(f, text, way, open, close, N)
    BY <1>1, <1>6, <1>8 DEF Counts
  <2> QED BY <1>1, <1>4, <2>1, FirstAlongIs
<1>10. ASSUME NEW m \in 1..Len(text), Match(C, text, open, close, i, m)
       PROVE  Zeros(f, N) # {}
  <2>1. i \in 1..(m - 1) /\ C[m] = C[i - 1]
    BY <1>10 DEF Match, Pending
  <2>2. m - i \in 1..N /\ m - i \in 0..N /\ i + (m - i) = m
    BY <1>1, <2>1
  <2>3. C[m] \in Int
    BY <1>1, <1>2
  <2>4. f[m - i] = 0
    <3>1. f[m - i] = C[m] - C[i - 1]
      BY <1>3, <2>2
    <3> QED BY <2>1, <2>3, <3>1
  <2> QED BY <2>2, <2>4 DEF Zeros
<1>11. ASSUME Zeros(f, N) # {}
       PROVE  LET j == way[Min(Zeros(f, N))]
              IN  j \in 1..Len(text) /\ Match(C, text, open, close, i, j)
  <2> DEFINE z == Min(Zeros(f, N))
             m == i + z
  <2>1. z \in 1..N /\ f[z] = 0 /\ \A n \in 0..(z - 1) : f[n] >= 1
    BY <1>1, <1>8, <1>11, FirstZero
  <2> HIDE DEF z
  <2>2. way[z] = m /\ m \in 1..Len(text) /\ i \in 1..(m - 1) /\ m \in Nat
    BY <1>1, <2>1
  <2>3. C[m] = C[i - 1] /\ C[m] \in Int /\ C[i - 1] \in Int
    <3>1. i - 1 \in 0..Len(text) /\ m \in 0..Len(text) /\ z \in 0..N
      BY <1>1, <2>1, <2>2
    <3>2. f[z] = C[m] - C[i - 1]
      BY <1>3, <3>1
    <3>3. C[m] \in Int /\ C[i - 1] \in Int
      BY <1>2, <3>1
    <3> QED BY <2>1, <3>2, <3>3
  <2>4. ASSUME NEW k \in i..(m - 1) PROVE C[k] >= C[i - 1] + 1
    <3>1. k - i \in 0..(z - 1) /\ k - i \in 0..N /\ i + (k - i) = k
      BY <1>1, <2>1, <2>2
    <3>2. C[k] - C[i - 1] >= 1
      BY <1>3, <2>1, <3>1
    <3>3. C[k] \in Int
      BY <1>1, <1>2, <2>2
    <3> QED BY <2>3, <3>2, <3>3
  <2>5. text[m] = close
    <3>1. m - 1 \in i..(m - 1) /\ m - 1 \in 0..Len(text)
      BY <1>1, <2>2
    <3>2. C[m - 1] >= C[i - 1] + 1 /\ C[m - 1] \in Int
      BY <1>2, <2>4, <3>1
    <3>3. C[m] = C[m - 1] + Turned(text[m], open, close)
      BY <1>2, <2>2
    <3> QED BY <2>3, <3>2, <3>3 DEF Turned
  <2> HIDE DEF m
  <2>6. Pending(C, text, open, i, m - 1)
    BY <2>2, <2>4 DEF Pending
  <2> QED BY <2>2, <2>3, <2>5, <2>6 DEF Match, z
<1> DEFINE j == way[Min(Zeros(f, N))]
<1> HIDE DEF j
<1>12. Zeros(f, N) # {} => j # 0
  BY <1>11 DEF j
<1> QED BY <1>9, <1>10, <1>11, <1>12 DEF j

-----------------------------------------------------------------------------
(* A bracket of one kind, and what the reference pairs of that kind.       *)
LEMMA KindPaired ==
    ASSUME NEW text, IsSeq(text), NEW open, NEW close,
           close = OPEN_TO_CLOSE_CHAR[open], open # close, NEW i \in 1..Len(text)
    PROVE  /\ text[i] = close =>
                  LET j == FindBack(text, i, close, open)
                  IN  IF j = 0 THEN \A x \in Pairs(text, open) : i \notin x
                      ELSE {i, j} \in Pairs(text, open)
           /\ text[i] = open =>
                  LET j == FindOn(text, i, open, close)
                  IN  IF j = 0 THEN \A x \in Pairs(text, open) : i \notin x
                      ELSE {i, j} \in Pairs(text, open)
           /\ text[i] \notin {open, close} => \A x \in Pairs(text, open) : i \notin x
<1>1. PICK C : Depths(C, text, open, close)
  BY DepthsExist DEF IsSeq
<1> DEFINE M(j, m) == Match(C, text, open, close, j, m)
           B == FindBack(text, i, close, open)
           F == FindOn(text, i, open, close)
<1>2. \A x : x \in Pairs(text, open) <=> \E j, m \in 1..Len(text) : M(j, m) /\ x = {j, m}
  <2>1. MatchedUpTo(C, text, open, close, Pairs(text, open), Len(text))
    BY <1>1, PairsAreMatches
  <2> QED BY <2>1 DEF MatchedUpTo
<1>3. \A j, m : M(j, m) => text[j] = open /\ text[m] = close
  BY DEF Match, Pending
<1>4. text[i] = close => IF B = 0 THEN \A j \in 1..Len(text) : ~M(j, i)
                         ELSE B \in 1..Len(text) /\ M(B, i)
  BY <1>1, FindsBack
<1>5. text[i] = open => IF F = 0 THEN \A m \in 1..Len(text) : ~M(i, m)
                        ELSE F \in 1..Len(text) /\ M(i, F)
  BY <1>1, FindsOn
<1> HIDE DEF M, B, F
<1>6. ASSUME NEW x \in Pairs(text, open), i \in x
      PROVE  \/ \E j \in 1..Len(text) : M(j, i) /\ text[i] = close
             \/ \E m \in 1..Len(text) : M(i, m) /\ text[i] = open
  BY <1>2, <1>3, <1>6
<1>7. text[i] = close => IF B = 0 THEN \A x \in Pairs(text, open) : i \notin x
                         ELSE {i, B} \in Pairs(text, open)
  <2> SUFFICES ASSUME text[i] = close
               PROVE  IF B = 0 THEN \A x \in Pairs(text, open) : i \notin x
                      ELSE {i, B} \in Pairs(text, open)
    OBVIOUS
  <2>1. CASE B = 0
    BY <1>4, <1>6, <2>1
  <2>2. CASE B # 0
    <3>1. B \in 1..Len(text) /\ M(B, i) /\ {i, B} = {B, i}
      BY <1>4, <2>2
    <3> QED BY <1>2, <2>2, <3>1
  <2> QED BY <2>1, <2>2
<1>8. text[i] = open => IF F = 0 THEN \A x \in Pairs(text, open) : i \notin x
                        ELSE {i, F} \in Pairs(text, open)
  <2> SUFFICES ASSUME text[i] = open
               PROVE  IF F = 0 THEN \A x \in Pairs(text, open) : i \notin x
                      ELSE {i, F} \in Pairs(text, open)
    OBVIOUS
  <2>1. CASE F = 0
    BY <1>5, <1>6, <2>1
  <2>2. CASE F # 0
    <3>1. F \in 1..Len(text) /\ M(i, F)
      BY <1>5, <2>2
    <3> QED BY <1>2, <2>2, <3>1
  <2> QED BY <2>1, <2>2
<1>9. text[i] \notin {open, close} => \A x \in Pairs(text, open) : i \notin x
  BY <1>6
<1> QED BY <1>7, <1>8, <1>9 DEF B, F

(* FindMatchingBracket finds, in every text, the bracket that a stack      *)
(* pairs the one under the cursor with, and none where the stack has none. *)
THEOREM EveryBracketPaired ==
    ASSUME NEW text, IsSeq(text) PROVE BracketsPaired(text)
<1> DEFINE O == DOMAIN OPEN_TO_CLOSE_CHAR
           K == DOMAIN CLOSE_TO_OPEN_CHAR
           all == UNION {Pairs(text, open) : open \in O}
<1>1. \A x : x \in all <=> \E open \in O : x \in Pairs(text, open)
  OBVIOUS
<1> HIDE DEF all
<1>2. DOMAIN text = 1..Len(text)
  BY DEF IsSeq
<1> SUFFICES ASSUME NEW i \in 1..Len(text)
             PROVE  LET j == FindMatchingBracket(text, i)
                    IN  IF j = 0 THEN \A x \in all : i \notin x ELSE {i, j} \in all
  BY <1>2 DEF BracketsPaired, all
<1> DEFINE g == text[i]
           j == FindMatchingBracket(text, i)
<1>3. ASSUME NEW o \in O, g \notin {o, OPEN_TO_CLOSE_CHAR[o]}
      PROVE  \A x \in Pairs(text, o) : i \notin x
  BY <1>3, Brackets, KindPaired
<1>4. CASE g \in K
  <2> DEFINE open == CLOSE_TO_OPEN_CHAR[g]
  <2>1. open \in O /\ g = OPEN_TO_CLOSE_CHAR[open] /\ open # g
    BY <1>4, Brackets
  <2>2. j = FindBack(text, i, g, open)
    BY <1>4 DEF FindMatchingBracket, FindBack
  <2>3. IF j = 0 THEN \A x \in Pairs(text, open) : i \notin x
        ELSE {i, j} \in Pairs(text, open)
    BY <2>1, <2>2, KindPaired
  <2>4. \A o \in O : o # open => g \notin {o, OPEN_TO_CLOSE_CHAR[o]}
    BY <1>4, Brackets
  <2>5. \A o \in O : o # open => \A x \in Pairs(text, o) : i \notin x
    BY <1>3, <2>4
  <2> HIDE DEF j, open
  <2>6. j # 0 => {i, j} \in all
    BY <1>1, <2>1, <2>3
  <2>7. j = 0 => \A x \in all : i \notin x
    BY <1>1, <2>3, <2>5
  <2> QED BY <2>6, <2>7 DEF j
<1>5. CASE g \in O
  <2> DEFINE close == OPEN_TO_CLOSE_CHAR[g]
  <2>1. close \in K /\ g # close /\ g \notin K
    BY <1>5, Brackets
  <2>2. j = FindOn(text, i, g, close)
    BY <1>5, <2>1 DEF FindMatchingBracket, FindOn
  <2>3. IF j = 0 THEN \A x \in Pairs(text, g) : i \notin x
        ELSE {i, j} \in Pairs(text, g)
    BY <1>5, <2>1, <2>2, KindPaired
  <2>4. \A o \in O : o # g => g \notin {o, OPEN_TO_CLOSE_CHAR[o]}
    BY <1>5, Brackets
  <2>5. \A o \in O : o # g => \A x \in Pairs(text, o) : i \notin x
    BY <1>3, <2>4
  <2> HIDE DEF j
  <2>6. j # 0 => {i, j} \in all
    BY <1>1, <1>5, <2>3
  <2>7. j = 0 => \A x \in all : i \notin x
    BY <1>1, <2>3, <2>5
  <2> QED BY <2>6, <2>7 DEF j
<1>6. CASE g \notin O \cup K
  <2>1. j = 0
    BY <1>6 DEF FindMatchingBracket
  <2>2. \A o \in O : g \notin {o, OPEN_TO_CLOSE_CHAR[o]}
    BY <1>6, Brackets
  <2> QED BY <1>1, <1>3, <2>1, <2>2
<1> QED BY <1>4, <1>5, <1>6

(* So the match is right in each text the run of the clipboard scans.      *)
THEOREM BracketsStayMatched == Spec => []BracketsMatched
<1>1. ASSUME NEW text \in BracketTexts PROVE IsSeq(text)
  <2>1. PICK n \in 0..6 : text \in [1..n -> {"(", ")", "[", "]"}]
    BY DEF BracketTexts, BoundedSeq, SeqOf
  <2> QED BY <2>1 DEF IsSeq
<1>2. BracketsMatched
  BY <1>1, EveryBracketPaired DEF BracketsMatched, EveryTextPaired
<1> QED BY <1>2, PTL

-----------------------------------------------------------------------------
(* The comments of a text.  CommentEndsAt: the last glyph of an end sign.  *)
(* CommentOpen: a comment of several lines goes on after the glyph i.      *)
CommentEndsAt(text, e) == e > 1 /\ SignAt(CommentEnd, text, e - 1)

CommentOpen(text, i) ==
    \E s \in 1..i :
        /\ SignAt(CommentStart, text, s)
        /\ ~InSingleLineComment(text, s)
        /\ \A e \in s..i : ~CommentEndsAt(text, e)

LEMMA SignOccurs ==
    ASSUME NEW text, IsSeq(text), NEW x, NEW y, NEW i \in 1..Len(text)
    PROVE  Occurs(<<x, y>>, text, i)
               <=> i < Len(text) /\ text[i] = x /\ text[i + 1] = y
<1> DEFINE sub == SubSeq(text, i, i + 1)
<1>0. Len(text) \in Nat /\ i \in Nat /\ i + 2 - 1 = i + 1
  BY DEF IsSeq
<1>1. Occurs(<<x, y>>, text, i) <=> i + 1 <= Len(text) /\ sub = <<x, y>>
  BY <1>0 DEF Occurs
<1>2. ASSUME i + 1 <= Len(text)
      PROVE  sub = <<x, y>> <=> text[i] = x /\ text[i + 1] = y
  <2>1. sub = [k \in 1..2 |-> text[i + k - 1]]
    BY <1>0, <1>2 DEF IsSeq
  <2>2. sub[1] = text[i] /\ sub[2] = text[i + 1]
    BY <2>1, <1>0
  <2>3. /\ <<x, y>> = [k \in 1..2 |-> IF k = 1 THEN x ELSE y]
        /\ <<x, y>>[1] = x /\ <<x, y>>[2] = y
    OBVIOUS
  <2>4. ASSUME text[i] = x, text[i + 1] = y PROVE sub = <<x, y>>
    <3>1. \A k \in 1..2 : text[i + k - 1] = IF k = 1 THEN x ELSE y
      <4>1. \A k \in 1..2 : (k = 1 /\ i + k - 1 = i) \/ (k = 2 /\ i + k - 1 = i + 1)
        BY <1>0
      <4> QED BY <2>4, <4>1
    <3>2. [k \in 1..2 |-> text[i + k - 1]] = [k \in 1..2 |-> IF k = 1 THEN x ELSE y]
      BY <3>1, Zenon
    <3> HIDE DEF sub
    <3> QED BY <2>1, <2>3, <3>2, Zenon
  <2> HIDE DEF sub
  <2>5. ASSUME sub = <<x, y>> PROVE text[i] = x /\ text[i + 1] = y
    BY <2>2, <2>3, <2>5, Zenon
  <2> QED BY <2>4, <2>5
<1> QED BY <1>0, <1>1, <1>2

LEMMA QuotedNext ==
    ASSUME NEW text, NEW k \in Nat \ {0}
    PROVE  /\ ~Quoted(text, 1)
           /\ Quoted(text, k + 1) <=> (Quoted(text, k) <=> text[k] # Quote)
<1> DEFINE Q(i) == {j \in 1..(i - 1) : text[j] = Quote}
<1>1. Q(1) = {} /\ Cardinality(Q(1)) = 0
  BY FS_EmptySet
<1>2. IsFiniteSet(Q(k)) /\ Cardinality(Q(k)) \in Nat /\ k \notin Q(k)
  <2>1. IsFiniteSet(1..(k - 1))
    BY FS_Interval
  <2>2. Q(k) \subseteq 1..(k - 1)
    OBVIOUS
  <2>3. IsFiniteSet(Q(k))
    BY <2>1, <2>2, FS_Subset
  <2> QED BY <2>3, FS_CardinalityType
<1>3. Q(k + 1) = IF text[k] = Quote THEN Q(k) \cup {k} ELSE Q(k)
  OBVIOUS
<1>4. Cardinality(Q(k) \cup {k}) = Cardinality(Q(k)) + 1
  BY <1>2, FS_AddElement
<1> DEFINE c == Cardinality(Q(k))
<1>5. Quoted(text, k) <=> c % 2 = 1
  BY DEF Quoted
<1>6. Quoted(text, k + 1) <=> (IF text[k] = Quote THEN c + 1 ELSE c) % 2 = 1
  BY <1>3, <1>4 DEF Quoted
<1>7. ~Quoted(text, 1)
  BY <1>1 DEF Quoted
<1>8. c \in Nat
  BY <1>2
<1> HIDE DEF c
<1>9. ((c + 1) % 2 = 1) <=> ~(c % 2 = 1)
  BY <1>8
<1> QED BY <1>5, <1>6, <1>7, <1>9

(* What a glyph is in its text, from what the glyph before it was.         *)
AtNext(text, k) ==
    /\ Quoted(text, k + 1) <=> (Quoted(text, k) <=> text[k] # Quote)
    /\ InSingleLineComment(text, k)
           <=> /\ text[k] = NewLine => text[k - 1] = Backslash
               /\ InSingleLineComment(text, k - 1) \/ SignAt(SingleLineSign, text, k)
    /\ InMultiLineComment(text, k)
           <=> \/ CommentOpen(text, k - 1)
               \/ SignAt(CommentStart, text, k) /\ ~InSingleLineComment(text, k)
    /\ CommentOpen(text, k) <=> InMultiLineComment(text, k) /\ ~CommentEndsAt(text, k)

LEMMA EveryNext ==
    ASSUME NEW text, IsSeq(text), NEW k \in 1..Len(text) PROVE AtNext(text, k)
<1>0. Len(text) \in Nat /\ k \in Nat \ {0}
  BY DEF IsSeq
<1>1. Quoted(text, k + 1) <=> (Quoted(text, k) <=> text[k] # Quote)
  BY <1>0, QuotedNext
<1>2. ASSUME SignAt(SingleLineSign, text, k) PROVE text[k] # NewLine
  <2>1. text[k] = "-"
    BY <1>2, SignOccurs DEF SignAt, SingleLineSign
  <2> QED BY <2>1 DEF NewLine
<1>3. InSingleLineComment(text, k)
           <=> /\ text[k] = NewLine => text[k - 1] = Backslash
               /\ InSingleLineComment(text, k - 1) \/ SignAt(SingleLineSign, text, k)
  <2> DEFINE Sign(s) == SignAt(SingleLineSign, text, s)
             Goes(s, i) == \A j \in s..i : text[j] = NewLine => text[j - 1] = Backslash
             Break == text[k] = NewLine => text[k - 1] = Backslash
  <2>1. \A i : InSingleLineComment(text, i) <=> \E s \in 1..i : Sign(s) /\ Goes(s, i)
    BY DEF InSingleLineComment
  <2>2. ASSUME NEW s \in 1..(k - 1) PROVE s \in 1..k /\ (Goes(s, k) <=> Goes(s, k - 1) /\ Break)
    <3>1. s..k = (s..(k - 1)) \cup {k} /\ s \in 1..k
      BY <1>0
    <3> QED BY <3>1
  <2>3. Goes(k, k) <=> Break
    <3>1. k..k = {k}
      BY <1>0
    <3> QED BY <3>1
  <2>4. 1..k = (1..(k - 1)) \cup {k}
    BY <1>0
  <2>5. Sign(k) => Break
    BY <1>2
  <2> HIDE DEF Sign, Goes, Break
  <2>6. ASSUME NEW s \in 1..k, Sign(s), Goes(s, k)
        PROVE  Break /\ (InSingleLineComment(text, k - 1) \/ Sign(k))
    BY <2>1, <2>2, <2>3, <2>4, <2>6
  <2>7. ASSUME NEW s \in 1..(k - 1), Sign(s), Goes(s, k - 1), Break
        PROVE  \E r \in 1..k : Sign(r) /\ Goes(r, k)
    BY <2>2, <2>7
  <2>8. ASSUME Sign(k) PROVE \E r \in 1..k : Sign(r) /\ Goes(r, k)
    BY <2>3, <2>4, <2>5, <2>8
  <2> QED BY <2>1, <2>6, <2>7, <2>8 DEF Sign, Break
<1> DEFINE Start(s) == SignAt(CommentStart, text, s) /\ ~InSingleLineComment(text, s)
           On(s, i) == \A e \in s..i : ~CommentEndsAt(text, e)
<1>4. /\ \A i : CommentOpen(text, i) <=> \E s \in 1..i : Start(s) /\ On(s, i)
      /\ \A i : InMultiLineComment(text, i) <=> \E s \in 1..i : Start(s) /\ On(s, i - 1)
  BY DEF CommentOpen, InMultiLineComment, CommentEndsAt
<1>5. ASSUME NEW s \in 1..k PROVE On(s, k) <=> On(s, k - 1) /\ ~CommentEndsAt(text, k)
  <2>1. s..k = (s..(k - 1)) \cup {k}
    BY <1>0
  <2> QED BY <2>1
<1>6. On(k, k - 1)
  <2>1. k..(k - 1) = {}
    BY <1>0
  <2> QED BY <2>1
<1>7. 1..k = (1..(k - 1)) \cup {k}
  BY <1>0
<1> HIDE DEF Start, On
<1>8. CommentOpen(text, k) <=> InMultiLineComment(text, k) /\ ~CommentEndsAt(text, k)
  BY <1>4, <1>5
<1>9. InMultiLineComment(text, k) <=> CommentOpen(text, k - 1) \/ Start(k)
  BY <1>4, <1>6, <1>7
<1> QED BY <1>1, <1>3, <1>8, <1>9 DEF AtNext, Start
-----------------------------------------------------------------------------
(* What the scan has found after the glyph i, from the flags before it.    *)
Scans ==
    [comment : BOOLEAN, string : BOOLEAN, single : BOOLEAN, concatenate : BOOLEAN,
     skip : BOOLEAN, rest : Nat, multiLine : SUBSET Nat, singleLine : SUBSET Nat]

Flags == [multiLine : SUBSET Nat, singleLine : SUBSET Nat]

StringFits(a, text, i) ==
    IF a.skip
    THEN a.string /\ ~Quoted(text, i + 1) /\ text[i] = Quote
         /\ i + 1 <= Len(text) /\ text[i + 1] = Quote
    ELSE a.string <=> Quoted(text, i + 1)

FlagsFit(a, text, i) ==
    /\ a.single <=> InSingleLineComment(text, i)
    /\ a.comment <=> CommentOpen(text, i)
    /\ a.concatenate <=> i >= 1 /\ text[i] = Backslash /\ EndsLine(text, i)

RestFits(a, text, i) == a.rest = IF i >= 1 /\ text[i] = LeadByte THEN 1 ELSE 0

Looked(text, x) == text[x] # NewLine /\ ~IsRest(text, x)

SetsFit(a, text, i, flags) ==
    /\ \A x : x \in a.multiLine
                  <=> IF x \in 1..i /\ Looked(text, x)
                      THEN InMultiLineComment(text, x) ELSE x \in flags.multiLine
    /\ \A x : x \in a.singleLine
                  <=> IF x \in 1..i /\ Looked(text, x) /\ OutsideStrings(text, x)
                      THEN InSingleLineComment(text, x) ELSE x \in flags.singleLine

Found(a, text, i, flags) ==
    /\ a \in Scans /\ StringFits(a, text, i) /\ FlagsFit(a, text, i)
    /\ RestFits(a, text, i) /\ SetsFit(a, text, i, flags)

LEMMA SetsNext ==
    ASSUME NEW text, NEW flags, NEW k \in Nat \ {0}, NEW a, NEW b,
           SetsFit(a, text, k - 1, flags),
           b.multiLine = IF Looked(text, k)
                         THEN Put(a.multiLine, k, InMultiLineComment(text, k)) ELSE a.multiLine,
           b.singleLine = IF Looked(text, k) /\ OutsideStrings(text, k)
                          THEN Put(a.singleLine, k, InSingleLineComment(text, k))
                          ELSE a.singleLine
    PROVE  SetsFit(b, text, k, flags)
<1>1. \A x : x \in 1..k <=> x \in 1..(k - 1) \/ x = k
  OBVIOUS
<1>2. k \notin 1..(k - 1)
  OBVIOUS
<1>3. ASSUME NEW x
      PROVE  x \in b.multiLine <=> IF x \in 1..k /\ Looked(text, x)
                                  THEN InMultiLineComment(text, x) ELSE x \in flags.multiLine
  <2>1. x \in a.multiLine <=> IF x \in 1..(k - 1) /\ Looked(text, x)
                              THEN InMultiLineComment(text, x) ELSE x \in flags.multiLine
    BY Zenon DEF SetsFit
  <2>2. CASE x # k
    <3>1. x \in b.multiLine <=> x \in a.multiLine
      BY <2>2 DEF Put
    <3> QED BY <1>1, <2>1, <2>2, <3>1, Zenon
  <2>3. CASE x = k /\ Looked(text, k)
    <3>1. x \in b.multiLine <=> InMultiLineComment(text, k)
      BY <2>3 DEF Put
    <3> QED BY <1>1, <2>3, <3>1, Zenon
  <2>4. CASE x = k /\ ~Looked(text, k)
    BY <1>2, <2>1, <2>4, Zenon
  <2> QED BY <2>2, <2>3, <2>4, Zenon
<1>4. ASSUME NEW x
      PROVE  x \in b.singleLine <=> IF x \in 1..k /\ Looked(text, x) /\ OutsideStrings(text, x)
                                   THEN InSingleLineComment(text, x) ELSE x \in flags.singleLine
  <2>1. x \in a.singleLine <=> IF x \in 1..(k - 1) /\ Looked(text, x) /\ OutsideStrings(text, x)
                               THEN InSingleLineComment(text, x) ELSE x \in flags.singleLine
    BY Zenon DEF SetsFit
  <2>2. CASE x # k
    <3>1. x \in b.singleLine <=> x \in a.singleLine
      BY <2>2 DEF Put
    <3> QED BY <1>1, <2>1, <2>2, <3>1, Zenon
  <2>3. CASE x = k /\ Looked(text, k) /\ OutsideStrings(text, k)
    <3>1. x \in b.singleLine <=> InSingleLineComment(text, k)
      BY <2>3 DEF Put
    <3> QED BY <1>1, <2>3, <3>1, Zenon
  <2>4. CASE x = k /\ ~(Looked(text, k) /\ OutsideStrings(text, k))
    BY <1>2, <2>1, <2>4, Zenon
  <2> QED BY <2>2, <2>3, <2>4, Zenon
<1> QED BY <1>3, <1>4, Zenon DEF SetsFit

(* In a string.                                                            *)
LEMMA StringSetsNext ==
    ASSUME NEW text, NEW flags, NEW k \in Nat \ {0}, NEW a, NEW b, NEW on,
           SetsFit(a, text, k - 1, flags), Looked(text, k), ~OutsideStrings(text, k),
           on <=> InMultiLineComment(text, k),
           b.multiLine = Put(a.multiLine, k, on), b.singleLine = a.singleLine
    PROVE  SetsFit(b, text, k, flags)
<1>1. b.multiLine = Put(a.multiLine, k, InMultiLineComment(text, k))
  BY Zenon DEF Put
<1> QED BY <1>1, SetsNext

(* A glyph that no sign starts at, and no comment ends at.                 *)
NoSigns(text, k) ==
    ~SignAt(SingleLineSign, text, k) /\ ~SignAt(CommentStart, text, k)
    /\ ~CommentEndsAt(text, k)

LEMMA NoSignsIn ==
    ASSUME NEW text, IsSeq(text), NEW k \in 1..Len(text),
           text[k] \notin {"/", "-"} \/ Quoted(text, k)
    PROVE  NoSigns(text, k)
<1>0. Len(text) \in Nat /\ k \in Nat \ {0}
  BY DEF IsSeq
<1>1. ~SignAt(SingleLineSign, text, k) /\ ~SignAt(CommentStart, text, k)
  BY SignOccurs DEF SignAt, SingleLineSign, CommentStart
<1>2. ASSUME CommentEndsAt(text, k) PROVE FALSE
  <2>1. k > 1 /\ Occurs(CommentEnd, text, k - 1) /\ ~Quoted(text, k - 1)
    BY <1>2 DEF CommentEndsAt, SignAt
  <2>2. k - 1 \in 1..Len(text) /\ (k - 1) + 1 = k /\ k - 1 \in Nat \ {0}
    BY <1>0, <2>1
  <2>3. text[k - 1] = "*" /\ text[k] = "/"
    BY <2>1, <2>2, SignOccurs DEF CommentEnd
  <2>4. text[k - 1] # Quote /\ text[k] \in {"/", "-"}
    BY <2>3 DEF Quote
  <2>5. ~Quoted(text, k)
    BY <2>1, <2>2, <2>4, QuotedNext
  <2> QED BY <2>4, <2>5
<1> QED BY <1>1, <1>2 DEF NoSigns

LEMMA LineBreakFits ==
    ASSUME NEW text, IsSeq(text), NEW flags, NEW k \in 1..Len(text), text[k] = NewLine,
           NEW a, Found(a, text, k - 1, flags)
    PROVE  Found(AtLineBreak(a), text, k, flags)
<1> DEFINE b == AtLineBreak(a)
<1>0. Len(text) \in Nat /\ k \in Nat \ {0} /\ (k - 1) + 1 = k
  BY DEF IsSeq
<1>1. /\ b \in Scans
      /\ b.comment = a.comment /\ b.string = a.string /\ b.skip = a.skip
      /\ b.multiLine = a.multiLine /\ b.singleLine = a.singleLine
      /\ b.concatenate = FALSE /\ b.rest = 0
      /\ b.single <=> a.single /\ a.concatenate
  BY DEF Found, Scans, AtLineBreak
<1> HIDE DEF b
<1>2. AtNext(text, k) /\ NoSigns(text, k)
  BY EveryNext, NoSignsIn DEF NewLine
<1>3. text[k] # Quote /\ text[k] # Backslash
  BY DEF NewLine, Quote, Backslash
<1>4. ~a.skip /\ (a.string <=> Quoted(text, k))
  BY <1>0, <1>3 DEF Found, StringFits
<1>5. StringFits(b, text, k)
  BY <1>1, <1>2, <1>3, <1>4 DEF StringFits, AtNext
<1>6. InSingleLineComment(text, k)
          <=> InSingleLineComment(text, k - 1) /\ text[k - 1] = Backslash
  BY <1>2 DEF AtNext, NoSigns
<1>7. InSingleLineComment(text, k - 1) => k - 1 >= 1
  BY <1>0 DEF InSingleLineComment
<1>8. EndsLine(text, k - 1)
  BY <1>0 DEF EndsLine
<1>9. FlagsFit(b, text, k)
  <2>1. b.single <=> InSingleLineComment(text, k)
    BY <1>1, <1>6, <1>7, <1>8 DEF Found, FlagsFit
  <2>2. b.comment <=> CommentOpen(text, k)
    BY <1>1, <1>2 DEF Found, FlagsFit, AtNext, NoSigns
  <2> QED BY <1>1, <1>3, <2>1, <2>2 DEF FlagsFit
<1>10. SetsFit(b, text, k, flags)
  BY <1>0, <1>1, SetsNext DEF Found, Looked
<1>11. RestFits(b, text, k)
  BY <1>1 DEF RestFits, NewLine, LeadByte
<1> QED BY <1>1, <1>5, <1>9, <1>10, <1>11 DEF Found, b

(* A glyph is the rest of a character when the one before it says so.      *)
LEMMA RestNext ==
    ASSUME NEW text, IsSeq(text), Whole(text), NEW k \in 1..Len(text), NEW a,
           RestFits(a, text, k - 1)
    PROVE  /\ a.rest = IF IsRest(text, k) THEN 1 ELSE 0
           /\ IsRest(text, k) => text[k] = NextByte
           /\ UTF8CharLength(text[k]) - 1 = IF text[k] = LeadByte THEN 1 ELSE 0
<1>0. Len(text) \in Nat /\ k \in Nat \ {0} /\ DOMAIN text = 1..Len(text)
  BY DEF IsSeq
<1>1. IsRest(text, k) <=> k - 1 >= 1 /\ text[k - 1] = LeadByte
  BY <1>0 DEF IsRest
<1>2. ASSUME IsRest(text, k) PROVE text[k] = NextByte
  <2>1. k - 1 \in DOMAIN text /\ (k - 1) + 1 = k
    BY <1>0, <1>1, <1>2
  <2> QED BY <1>1, <1>2, <2>1 DEF Whole
<1> QED BY <1>1, <1>2 DEF RestFits, UTF8CharLength

LEMMA PassedFits ==
    ASSUME NEW text, IsSeq(text), Whole(text), NEW flags, NEW k \in 1..Len(text),
           NEW a, Found(a, text, k - 1, flags), a.rest > 0
    PROVE  Found([a EXCEPT !.rest = @ - 1], text, k, flags)
<1> DEFINE b == [a EXCEPT !.rest = @ - 1]
<1>0. Len(text) \in Nat /\ k \in Nat \ {0} /\ (k - 1) + 1 = k
  BY DEF IsSeq
<1>r. a.rest = 1 /\ IsRest(text, k) /\ text[k] = NextByte /\ text[k - 1] = LeadByte
  <2>1. a.rest = IF IsRest(text, k) THEN 1 ELSE 0
    BY RestNext DEF Found
  <2>2. IsRest(text, k)
    BY <2>1
  <2>3. text[k] = NextByte
    BY <2>2, RestNext DEF Found
  <2> QED BY <2>1, <2>2, <2>3 DEF IsRest
<1>1. /\ b \in Scans
      /\ b.comment = a.comment /\ b.string = a.string /\ b.skip = a.skip /\ b.rest = 0
      /\ b.multiLine = a.multiLine /\ b.singleLine = a.singleLine
      /\ b.concatenate = a.concatenate /\ b.single = a.single
  BY <1>r DEF Found, Scans
<1> HIDE DEF b
<1>2. /\ text[k] \notin {"/", "-", Quote, Backslash, NewLine, LeadByte}
      /\ text[k - 1] \notin {Quote, Backslash}
  BY <1>r DEF NextByte, LeadByte, Quote, Backslash, NewLine
<1>3. AtNext(text, k) /\ NoSigns(text, k)
  BY <1>2, EveryNext, NoSignsIn
<1>4. ~a.skip /\ (a.string <=> Quoted(text, k))
  BY <1>0, <1>2 DEF Found, StringFits
<1>5. StringFits(b, text, k)
  BY <1>1, <1>2, <1>3, <1>4 DEF StringFits, AtNext
<1>6. FlagsFit(b, text, k)
  BY <1>1, <1>2, <1>3 DEF Found, FlagsFit, AtNext, NoSigns
<1>7. SetsFit(b, text, k, flags)
  BY <1>0, <1>1, <1>r, SetsNext DEF Found, Looked
<1>8. RestFits(b, text, k)
  BY <1>1, <1>2 DEF RestFits
<1> QED BY <1>1, <1>5, <1>6, <1>7, <1>8 DEF Found, b

LEMMA SkippedFits ==
    ASSUME NEW text, IsSeq(text), NEW flags, NEW k \in 1..Len(text),
           NEW a, Found(a, text, k - 1, flags), a.skip
    PROVE  text[k] = Quote /\ Found([Marked(a, k) EXCEPT !.skip = FALSE], text, k, flags)
<1> DEFINE b == [Marked(a, k) EXCEPT !.skip = FALSE]
<1>0. Len(text) \in Nat /\ k \in Nat \ {0} /\ (k - 1) + 1 = k
  BY DEF IsSeq
<1>1. /\ b \in Scans
      /\ b.comment = a.comment /\ b.string = a.string /\ b.skip = FALSE
      /\ b.multiLine = Put(a.multiLine, k, a.comment)
      /\ b.singleLine = a.singleLine
      /\ b.concatenate = a.concatenate /\ b.single = a.single /\ b.rest = a.rest
  BY <1>0 DEF Found, Scans, Marked, Put
<1> HIDE DEF b
<1>2. text[k] = Quote /\ text[k - 1] = Quote /\ a.string /\ ~Quoted(text, k)
  BY <1>0 DEF Found, StringFits
<1>3. text[k] # NewLine /\ text[k] # Backslash /\ text[k - 1] # Backslash
      /\ text[k] \notin {"/", "-"}
  BY <1>2 DEF NewLine, Quote, Backslash
<1>4. AtNext(text, k) /\ NoSigns(text, k)
  BY <1>3, EveryNext, NoSignsIn
<1>5. StringFits(b, text, k)
  BY <1>1, <1>2, <1>4 DEF StringFits, AtNext
<1>6. FlagsFit(b, text, k)
  BY <1>1, <1>3, <1>4 DEF Found, FlagsFit, AtNext, NoSigns
<1>7. a.comment <=> InMultiLineComment(text, k)
  BY <1>4 DEF Found, FlagsFit, AtNext, NoSigns
<1>8. SetsFit(b, text, k, flags)
  <2>1. Looked(text, k) /\ ~OutsideStrings(text, k)
    BY <1>2, <1>3 DEF Looked, IsRest, OutsideStrings, Quote, LeadByte
  <2> QED BY <1>0, <1>1, <1>7, <2>1, StringSetsNext DEF Found
<1>9. RestFits(b, text, k)
  BY <1>0, <1>1, <1>2 DEF Found, RestFits, Quote, LeadByte
<1> QED BY <1>1, <1>2, <1>5, <1>6, <1>8, <1>9 DEF Found, b

GlyphRead(a, text, k) ==
    [a EXCEPT !.concatenate = EndsLine(text, k) /\ text[k] = Backslash,
              !.rest = UTF8CharLength(text[k]) - 1]

LEMMA LookedAt ==
    ASSUME NEW text, IsSeq(text), Whole(text), NEW k \in 1..Len(text), text[k] # NewLine,
           NEW a, RestFits(a, text, k - 1), a.rest = 0
    PROVE  /\ Looked(text, k)
           /\ UTF8CharLength(text[k]) - 1 = IF text[k] = LeadByte THEN 1 ELSE 0
           /\ \A b : b.rest = UTF8CharLength(text[k]) - 1 => RestFits(b, text, k)
<1>1. ~IsRest(text, k) /\ UTF8CharLength(text[k]) - 1 = IF text[k] = LeadByte THEN 1 ELSE 0
  BY RestNext
<1>2. k >= 1
  OBVIOUS
<1> QED BY <1>1, <1>2 DEF Looked, RestFits

LEMMA InStringFits ==
    ASSUME NEW text, IsSeq(text), Whole(text), NEW flags, NEW k \in 1..Len(text), text[k] # NewLine,
           text[k] = Backslash => ~Quoted(text, k),
           NEW a, Found(a, text, k - 1, flags), a.rest = 0, ~a.skip, a.string
    PROVE  Found(InString(GlyphRead(a, text, k), text, k), text, k, flags)
<1> DEFINE b == InString(GlyphRead(a, text, k), text, k)
           escapes == ~EndsLine(text, k) /\ text[k] = Quote /\ text[k + 1] = Quote
<1>0. Len(text) \in Nat /\ k \in Nat \ {0} /\ (k - 1) + 1 = k
  BY DEF IsSeq
<1>a. /\ Looked(text, k)
      /\ UTF8CharLength(text[k]) - 1 = IF text[k] = LeadByte THEN 1 ELSE 0
      /\ \A v : v.rest = UTF8CharLength(text[k]) - 1 => RestFits(v, text, k)
  BY LookedAt DEF Found
<1>1. Quoted(text, k) /\ text[k] # Backslash
  BY <1>0 DEF Found, StringFits
<1>2. /\ b \in Scans
      /\ b.comment = a.comment /\ b.string = (text[k] # Quote \/ escapes)
      /\ b.skip = escapes /\ b.concatenate = FALSE /\ b.single = a.single
      /\ b.multiLine = Put(a.multiLine, k, a.comment)
      /\ b.singleLine = a.singleLine /\ b.rest = UTF8CharLength(text[k]) - 1
  <2>1. UTF8CharLength(text[k]) - 1 \in Nat
    BY <1>a
  <2> DEFINE rest == UTF8CharLength(text[k]) - 1
             ends == EndsLine(text, k) /\ text[k] = Backslash
             c == [a EXCEPT !.concatenate = ends, !.rest = rest]
             m == [c EXCEPT !.multiLine = Put(@, k, c.comment)]
  <2>2. GlyphRead(a, text, k) = c /\ Marked(c, k) = m
    BY DEF GlyphRead, Marked
  <2>3. b = [m EXCEPT !.skip = escapes, !.string = text[k] # Quote \/ escapes]
    BY <1>1, <2>2 DEF InString
  <2>4. ~ends /\ ends \in BOOLEAN /\ escapes \in BOOLEAN /\ a \in Scans /\ rest \in Nat
    BY <1>1, <2>1 DEF Found
  <2> HIDE DEF rest, ends, escapes, b
  <2>5. /\ c \in Scans /\ c.comment = a.comment /\ c.single = a.single
        /\ c.concatenate = FALSE /\ c.rest = rest
        /\ c.multiLine = a.multiLine /\ c.singleLine = a.singleLine
    BY <2>4 DEF Scans
  <2> HIDE DEF c
  <2>6. /\ m \in Scans /\ m.comment = c.comment /\ m.single = c.single
        /\ m.concatenate = c.concatenate /\ m.rest = c.rest
        /\ m.multiLine = Put(c.multiLine, k, c.comment) /\ m.singleLine = c.singleLine
    BY <1>0, <2>5 DEF Scans, Put
  <2> HIDE DEF m
  <2>7. /\ b \in Scans /\ b.comment = m.comment /\ b.single = m.single
        /\ b.concatenate = m.concatenate /\ b.rest = m.rest
        /\ b.multiLine = m.multiLine /\ b.singleLine = m.singleLine
        /\ b.skip = escapes /\ b.string = (text[k] # Quote \/ escapes)
    BY <2>3, <2>4, <2>6 DEF Scans
  <2> QED BY <2>5, <2>6, <2>7 DEF rest
<1> HIDE DEF b
<1>3. AtNext(text, k) /\ NoSigns(text, k)
  BY <1>1, EveryNext, NoSignsIn
<1>4. StringFits(b, text, k)
  <2>1. CASE escapes
    <3>1. k # Len(text) /\ text[k] = Quote /\ text[k + 1] = Quote
      BY <2>1 DEF EndsLine
    <3>2. k + 1 <= Len(text)
      BY <1>0, <3>1
    <3> QED BY <1>1, <1>2, <1>3, <2>1, <3>1, <3>2 DEF StringFits, AtNext
  <2>2. CASE ~escapes
    BY <1>1, <1>2, <1>3, <2>2 DEF StringFits, AtNext
  <2> QED BY <2>1, <2>2
<1>5. FlagsFit(b, text, k)
  BY <1>1, <1>2, <1>3 DEF Found, FlagsFit, AtNext, NoSigns
<1>6. a.comment <=> InMultiLineComment(text, k)
  BY <1>3 DEF Found, FlagsFit, AtNext, NoSigns
<1>7. SetsFit(b, text, k, flags)
  <2>1. ~OutsideStrings(text, k)
    BY <1>1 DEF OutsideStrings
  <2> QED BY <1>0, <1>a, <1>2, <1>6, <2>1, StringSetsNext DEF Found
<1>8. RestFits(b, text, k)
  BY <1>a, <1>2
<1> QED BY <1>2, <1>4, <1>5, <1>7, <1>8 DEF Found, b

LEMMA OutsideStringFits ==
    ASSUME NEW text, IsSeq(text), Whole(text), NEW flags, NEW k \in 1..Len(text), text[k] # NewLine,
           NEW a, Found(a, text, k - 1, flags), a.rest = 0, ~a.skip, ~a.string
    PROVE  Found(OutsideString(GlyphRead(a, text, k), text, k), text, k, flags)
<1> DEFINE b == OutsideString(GlyphRead(a, text, k), text, k)
<1>0. Len(text) \in Nat /\ k \in Nat \ {0} /\ (k - 1) + 1 = k
  BY DEF IsSeq
<1>a. /\ Looked(text, k)
      /\ UTF8CharLength(text[k]) - 1 = IF text[k] = LeadByte THEN 1 ELSE 0
      /\ \A v : v.rest = UTF8CharLength(text[k]) - 1 => RestFits(v, text, k)
  BY LookedAt DEF Found
<1>b. UTF8CharLength(text[k]) - 1 \in Nat
  BY <1>a
<1>1. ~Quoted(text, k)
  BY <1>0 DEF Found, StringFits
<1>2. AtNext(text, k)
  BY EveryNext
<1>3. CASE text[k] = Quote
  <2>1. text[k] # Backslash /\ text[k] \notin {"/", "-"}
    BY <1>3 DEF Quote, Backslash
  <2>2. /\ b \in Scans
        /\ b.comment = a.comment /\ b.string = TRUE /\ b.skip = FALSE
        /\ b.concatenate = FALSE /\ b.single = a.single
        /\ b.multiLine = Put(a.multiLine, k, a.comment)
        /\ b.singleLine = a.singleLine /\ b.rest = UTF8CharLength(text[k]) - 1
    BY <1>0, <1>b, <1>3, <2>1 DEF Found, Scans, Marked, OutsideString, GlyphRead, Put
  <2> HIDE DEF b
  <2>3. NoSigns(text, k)
    BY <2>1, NoSignsIn
  <2>4. StringFits(b, text, k)
    BY <1>1, <1>2, <1>3, <2>2 DEF StringFits, AtNext
  <2>5. FlagsFit(b, text, k)
    BY <1>2, <2>1, <2>2, <2>3 DEF Found, FlagsFit, AtNext, NoSigns
  <2>6. a.comment <=> InMultiLineComment(text, k)
    BY <1>2, <2>3 DEF Found, FlagsFit, AtNext, NoSigns
  <2>7. SetsFit(b, text, k, flags)
    <3>1. ~OutsideStrings(text, k)
      BY <1>3 DEF OutsideStrings
    <3> QED BY <1>0, <1>a, <2>2, <2>6, <3>1, StringSetsNext DEF Found
  <2>8. RestFits(b, text, k)
    BY <1>a, <2>2
  <2> QED BY <2>2, <2>4, <2>5, <2>7, <2>8 DEF Found, b
<1>4. CASE text[k] # Quote
  <2> DEFINE opens == ~a.single /\ Occurs(CommentStart, text, k)
             single == a.single \/ Occurs(SingleLineSign, text, k)
             closes == k > 1 /\ Occurs(CommentEnd, text, k - 1)
  <2>1. /\ b \in Scans
        /\ b.comment = ((a.comment \/ opens) /\ ~closes)
        /\ b.string = FALSE /\ b.skip = FALSE /\ b.single = single
        /\ b.concatenate = (EndsLine(text, k) /\ text[k] = Backslash)
        /\ b.multiLine = Put(a.multiLine, k, a.comment \/ opens)
        /\ b.singleLine = Put(a.singleLine, k, single)
        /\ b.rest = UTF8CharLength(text[k]) - 1
    <3> DEFINE c == [GlyphRead(a, text, k) EXCEPT !.comment = @ \/ opens, !.single = single]
               m == Marked(c, k)
               ends == EndsLine(text, k) /\ text[k] = Backslash
               rest == UTF8CharLength(text[k]) - 1
    <3>1. /\ a \in Scans /\ opens \in BOOLEAN /\ single \in BOOLEAN /\ ends \in BOOLEAN
          /\ closes \in BOOLEAN /\ rest \in Nat
      BY <1>b DEF Found, Scans
    <3>2. /\ GlyphRead(a, text, k) = [a EXCEPT !.concatenate = ends, !.rest = rest]
          /\ GlyphRead(a, text, k).single = a.single
      BY DEF GlyphRead, Found, Scans
    <3>3. b = [m EXCEPT !.singleLine = Put(@, k, single),
                        !.comment = @ /\ ~closes]
      BY <1>4, <3>2 DEF OutsideString
    <3> HIDE DEF opens, single, closes, ends, rest, b
    <3>4. /\ c \in Scans
          /\ c.comment = (a.comment \/ opens) /\ c.string = FALSE /\ c.skip = FALSE
          /\ c.single = single /\ c.concatenate = ends
          /\ c.multiLine = a.multiLine /\ c.singleLine = a.singleLine /\ c.rest = rest
      BY <3>1, <3>2 DEF Scans
    <3> HIDE DEF c
    <3>5. /\ m \in Scans
          /\ m.comment = c.comment /\ m.string = FALSE /\ m.skip = FALSE
          /\ m.single = single /\ m.concatenate = ends
          /\ m.multiLine = Put(a.multiLine, k, c.comment)
          /\ m.singleLine = a.singleLine /\ m.rest = rest
      BY <1>0, <3>1, <3>4 DEF Scans, Marked, Put
    <3> HIDE DEF m
    <3>6. /\ b \in Scans
          /\ b.comment = (m.comment /\ ~closes) /\ b.string = FALSE /\ b.skip = FALSE
          /\ b.single = single /\ b.concatenate = ends
          /\ b.multiLine = m.multiLine /\ b.rest = rest
          /\ b.singleLine = Put(a.singleLine, k, single)
      BY <1>0, <3>1, <3>3, <3>5 DEF Scans, Put
    <3> QED BY <3>4, <3>5, <3>6 DEF ends, rest
  <2> HIDE DEF b
  <2>2. /\ SignAt(SingleLineSign, text, k) <=> Occurs(SingleLineSign, text, k)
        /\ SignAt(CommentStart, text, k) <=> Occurs(CommentStart, text, k)
    BY <1>1 DEF SignAt
  <2>3. CommentEndsAt(text, k) <=> closes
    <3>1. ASSUME k > 1, Occurs(CommentEnd, text, k - 1) PROVE ~Quoted(text, k - 1)
      <4>1. k - 1 \in 1..Len(text) /\ k - 1 \in Nat \ {0}
        BY <1>0, <3>1
      <4>2. text[k - 1] = "*"
        BY <3>1, <4>1, SignOccurs DEF CommentEnd
      <4>3. text[k - 1] # Quote
        BY <4>2 DEF Quote
      <4>4. Quoted(text, (k - 1) + 1) <=> (Quoted(text, k - 1) <=> text[k - 1] # Quote)
        BY <4>1, QuotedNext
      <4> QED BY <1>0, <1>1, <4>3, <4>4
    <3> QED BY <3>1 DEF CommentEndsAt, SignAt
  <2>4. Occurs(CommentStart, text, k) => ~Occurs(SingleLineSign, text, k)
    BY SignOccurs DEF CommentStart, SingleLineSign
  <2>5. /\ a.single <=> InSingleLineComment(text, k - 1)
        /\ a.comment <=> CommentOpen(text, k - 1)
    BY DEF Found, FlagsFit
  <2> DEFINE starts == Occurs(CommentStart, text, k)
             signs == Occurs(SingleLineSign, text, k)
  <2>6. single <=> InSingleLineComment(text, k)
    BY <1>2, <2>2, <2>5 DEF AtNext
  <2>7. opens <=> starts /\ ~InSingleLineComment(text, k)
    BY <2>4, <2>6
  <2>8. (a.comment \/ opens) <=> InMultiLineComment(text, k)
    BY <1>2, <2>2, <2>5, <2>7 DEF AtNext
  <2>9. b.comment <=> CommentOpen(text, k)
    BY <1>2, <2>1, <2>3, <2>8 DEF AtNext
  <2>10. StringFits(b, text, k)
    BY <1>1, <1>2, <1>4, <2>1 DEF StringFits, AtNext
  <2>11. FlagsFit(b, text, k)
    <3>1. b.single <=> InSingleLineComment(text, k)
      BY <2>1, <2>6
    <3>2. b.concatenate <=> k >= 1 /\ text[k] = Backslash /\ EndsLine(text, k)
      <4>1. k >= 1
        BY <1>0
      <4> QED BY <2>1, <4>1, Zenon
    <3> QED BY <2>9, <3>1, <3>2 DEF FlagsFit
  <2>12. SetsFit(b, text, k, flags)
    <3>1. OutsideStrings(text, k)
      BY <1>1, <1>4 DEF OutsideStrings
    <3>2. /\ b.multiLine = Put(a.multiLine, k, InMultiLineComment(text, k))
          /\ b.singleLine = Put(a.singleLine, k, InSingleLineComment(text, k))
      BY <2>1, <2>6, <2>8, Zenon DEF Put
    <3> QED BY <1>0, <1>a, <3>1, <3>2, SetsNext DEF Found
  <2>13. RestFits(b, text, k)
    BY <1>a, <2>1
  <2> QED BY <2>1, <2>10, <2>11, <2>12, <2>13 DEF Found, b
<1> QED BY <1>3, <1>4

Scanned(a, text, i) == IF text[i] = NewLine THEN AtLineBreak(a) ELSE AtGlyph(a, text, i)

LEMMA ScanFits ==
    ASSUME NEW text, IsSeq(text), Whole(text), PlainStrings(text), NEW flags,
           NEW k \in 1..Len(text), NEW a, Found(a, text, k - 1, flags)
    PROVE  Found(Scanned(a, text, k), text, k, flags)
<1>1. k \in DOMAIN text
  BY DEF IsSeq
<1>2. text[k] = Backslash => ~Quoted(text, k)
  BY <1>1 DEF PlainStrings
<1>3. CASE text[k] = NewLine
  BY <1>3, LineBreakFits DEF Scanned
<1>4. CASE text[k] # NewLine
  <2>r. CASE a.rest > 0
    <3>1. Scanned(a, text, k) = [a EXCEPT !.rest = @ - 1]
      BY <1>4, <2>r DEF Scanned, AtGlyph
    <3> QED BY <2>r, <3>1, PassedFits
  <2>1. CASE ~(a.rest > 0) /\ a.skip
    <3>1. Scanned(a, text, k) = [Marked(a, k) EXCEPT !.skip = FALSE]
      BY <1>4, <2>1 DEF Scanned, AtGlyph
    <3> QED BY <2>1, <3>1, SkippedFits
  <2>2. CASE ~(a.rest > 0) /\ ~a.skip
    <3>1. GlyphRead(a, text, k).string = a.string /\ a.rest = 0
      BY <2>2 DEF GlyphRead, Found, Scans
    <3>2. CASE a.string
      <4>1. Scanned(a, text, k) = InString(GlyphRead(a, text, k), text, k)
        BY <1>4, <2>2, <3>2 DEF Scanned, AtGlyph, GlyphRead
      <4> QED BY <1>2, <1>4, <2>2, <3>1, <3>2, <4>1, InStringFits
    <3>3. CASE ~a.string
      <4>1. Scanned(a, text, k) = OutsideString(GlyphRead(a, text, k), text, k)
        BY <1>4, <2>2, <3>3 DEF Scanned, AtGlyph, GlyphRead
      <4> QED BY <1>4, <2>2, <3>1, <3>3, <4>1, OutsideStringFits
    <3> QED BY <3>2, <3>3
  <2> QED BY <2>r, <2>1, <2>2
<1> QED BY <1>3, <1>4

ScansTo(h, text, flags, n) ==
    h = [i \in 0..n |-> IF i = 0 THEN AtFirst(flags) ELSE Scanned(h[i - 1], text, i)]

LEMMA ScansExist ==
    ASSUME NEW text, NEW flags, NEW N \in Nat
    PROVE  \E h : ScansTo(h, text, flags, N)
<1> DEFINE S == {n \in Nat : \E h : ScansTo(h, text, flags, n)}
<1>1. 0 \in S
  <2> DEFINE h == [i \in 0..0 |-> AtFirst(flags)]
  <2>1. ScansTo(h, text, flags, 0)
    BY DEF ScansTo
  <2> QED BY <2>1
<1>2. ASSUME NEW n \in Nat, n \in S PROVE n + 1 \in S
  <2>1. PICK f : ScansTo(f, text, flags, n)
    BY <1>2
  <2> DEFINE next(i) == IF i = 0 THEN AtFirst(flags) ELSE Scanned(f[i - 1], text, i)
             g == [i \in 0..(n + 1) |-> next(i)]
  <2>2. \A i \in 0..n : f[i] = next(i)
    BY <2>1, Zenon DEF ScansTo
  <2>3. \A i \in 0..(n + 1) : g[i] = next(i)
    OBVIOUS
  <2>4. \A i \in 0..n : f[i] = g[i]
    <3>1. \A i \in 0..n : i \in 0..(n + 1)
      OBVIOUS
    <3> HIDE DEF next, g
    <3> QED BY <2>2, <2>3, <3>1
  <2>5. ASSUME NEW i \in 0..(n + 1)
        PROVE  next(i) = IF i = 0 THEN AtFirst(flags) ELSE Scanned(g[i - 1], text, i)
    <3>1. i # 0 => i - 1 \in 0..n
      OBVIOUS
    <3> HIDE DEF g
    <3> QED BY <2>4, <3>1
  <2>6. ScansTo(g, text, flags, n + 1)
    <3> DEFINE pass(i) == IF i = 0 THEN AtFirst(flags) ELSE Scanned(g[i - 1], text, i)
    <3>1. \A i \in 0..(n + 1) : next(i) = pass(i)
      BY <2>5
    <3>2. g = [i \in 0..(n + 1) |-> next(i)]
      OBVIOUS
    <3> HIDE DEF g, next, pass
    <3>3. g = [i \in 0..(n + 1) |-> pass(i)]
      BY <3>1, <3>2, Zenon
    <3> QED BY <3>3, Zenon DEF ScansTo, pass
  <2> HIDE DEF g
  <2> QED BY <2>6
<1>3. N \in S
  BY <1>1, <1>2, SetInduction
<1> QED BY <1>3

(* The scan of the code finds the comments of every text of whole          *)
(* characters whose strings hold no backslash, however long the text is    *)
(* and whatever flags its glyphs have from scans and edits before; inside  *)
(* strings, what m_bComment was is what it is.                             *)
THEOREM EveryCommentIsFound ==
    ASSUME NEW text, IsSeq(text), Whole(text), PlainStrings(text), NEW flags \in Flags
    PROVE  CommentsFound(text, flags)
<1> DEFINE after == CHOOSE h : ScansTo(h, text, flags, Len(text))
           S == {n \in Nat : n <= Len(text) => Found(after[n], text, n, flags)}
<1>0. Len(text) \in Nat /\ DOMAIN text = 1..Len(text)
  BY DEF IsSeq
<1>1. CheckComments(text, flags) = after[Len(text)]
  BY Zenon DEF CheckComments, ScansTo, Scanned
<1>2. ScansTo(after, text, flags, Len(text))
  BY <1>0, ScansExist
<1> HIDE DEF after
<1>3. /\ after[0] = AtFirst(flags)
      /\ \A n \in 1..Len(text) : after[n] = Scanned(after[n - 1], text, n)
  <2> DEFINE next(i) == IF i = 0 THEN AtFirst(flags) ELSE Scanned(after[i - 1], text, i)
  <2>1. \A i \in 0..Len(text) : after[i] = next(i)
    BY <1>2, Zenon DEF ScansTo
  <2>2. 0 \in 0..Len(text) /\ next(0) = AtFirst(flags)
    BY <1>0
  <2>3. \A n \in 1..Len(text) : n \in 0..Len(text) /\ n # 0
    BY <1>0
  <2> QED BY <2>1, <2>2, <2>3
<1>4. 0 \in S
  <2> DEFINE a == AtFirst(flags)
  <2>1. /\ a \in Scans /\ ~a.skip /\ ~a.string /\ ~a.single /\ ~a.comment /\ ~a.concatenate
        /\ a.rest = 0 /\ a.multiLine = flags.multiLine /\ a.singleLine = flags.singleLine
    BY DEF AtFirst, Scans, Flags
  <2> HIDE DEF a
  <2>2. ~Quoted(text, 0 + 1)
    BY QuotedNext
  <2>3. 1..0 = {}
    OBVIOUS
  <2>4. ~InSingleLineComment(text, 0) /\ ~CommentOpen(text, 0)
    BY <2>3, Zenon DEF InSingleLineComment, CommentOpen
  <2>5. FlagsFit(a, text, 0)
    BY <2>1, <2>4 DEF FlagsFit
  <2>6. SetsFit(a, text, 0, flags)
    BY <2>1, <2>3 DEF SetsFit
  <2>7. RestFits(a, text, 0)
    BY <2>1 DEF RestFits
  <2>8. StringFits(a, text, 0)
    BY <2>1, <2>2 DEF StringFits
  <2> QED BY <1>3, <2>1, <2>5, <2>6, <2>7, <2>8 DEF Found, a
<1>5. ASSUME NEW n \in Nat, n \in S PROVE n + 1 \in S
  <2> SUFFICES ASSUME n + 1 <= Len(text) PROVE Found(after[n + 1], text, n + 1, flags)
    OBVIOUS
  <2>1. n + 1 \in 1..Len(text) /\ (n + 1) - 1 = n
    BY <1>0
  <2>2. Found(after[n], text, (n + 1) - 1, flags)
    BY <1>5, <2>1
  <2>3. after[n + 1] = Scanned(after[n], text, n + 1)
    BY <1>3, <2>1
  <2> QED BY <2>1, <2>2, <2>3, ScanFits
<1>6. Found(after[Len(text)], text, Len(text), flags)
  <2>1. Nat \subseteq S
    BY <1>4, <1>5, SetInduction
  <2> QED BY <1>0, <2>1
<1>7. SetsFit(CheckComments(text, flags), text, Len(text), flags)
  BY <1>1, <1>6 DEF Found
<1> DEFINE found == CheckComments(text, flags)
<1> HIDE DEF found
<1>8. ASSUME NEW i \in DOMAIN text, text[i] # NewLine
      PROVE  /\ i \in found.multiLine
                    <=> IF IsRest(text, i) THEN i \in flags.multiLine
                        ELSE InMultiLineComment(text, i)
             /\ i \in found.singleLine
                    <=> IF ~IsRest(text, i) /\ OutsideStrings(text, i)
                        THEN InSingleLineComment(text, i) ELSE i \in flags.singleLine
  <2>1. i \in 1..Len(text)
    BY <1>0
  <2>2. Looked(text, i) <=> ~IsRest(text, i)
    BY <1>8 DEF Looked
  <2>3. SetsFit(found, text, Len(text), flags)
    BY <1>7 DEF found
  <2> QED BY <2>1, <2>2, <2>3, Zenon DEF SetsFit
<1> QED BY <1>8, Zenon DEF CommentsFound, found

(* So the flags are right in each text the run of the clipboard scans.     *)
THEOREM CommentsStayMarked == Spec => []CommentsMarked
<1>1. ASSUME NEW text \in CommentTexts PROVE IsSeq(text) /\ Whole(text)
  <2>1. ASSUME NEW S, NEW m \in Nat, text \in BoundedSeq(S, m) PROVE IsSeq(text)
    <3>1. PICK n \in 0..m : text \in [1..n -> S]
      BY <2>1 DEF BoundedSeq, SeqOf
    <3> QED BY <3>1 DEF IsSeq
  <2>2. Whole(text)
    BY DEF CommentTexts
  <2>3. text \in BoundedSeq(CommentGlyphs, 6)
            \/ text \in BoundedSeq(CommentGlyphs \cup {LeadByte, NextByte}, 5)
    BY DEF CommentTexts
  <2> QED BY <2>1, <2>2, <2>3
<1>2. ASSUME NEW text \in CommentTexts, NEW flags \in FlagsBefore(text) PROVE flags \in Flags
  <2>1. DOMAIN text \subseteq Nat
    BY <1>1 DEF IsSeq
  <2> QED BY <2>1 DEF FlagsBefore, Flags
<1>3. CommentsMarked
  BY <1>1, <1>2, EveryCommentIsFound DEF CommentsMarked, EveryCommentFound
<1> QED BY <1>3, PTL
=============================================================================
