-------------------------- MODULE TextEditorProofs --------------------------
(***************************************************************************)
(* CTextEditor, for every text, clipboard, tab size and any number of      *)
(* cursors, characters and undo records.  Sane is the inductive invariant: *)
(* a text with a line, every cursor in it, and a history in which every    *)
(* record knows two texts and cursors that fit them.  One lemma per        *)
(* command shows what it makes of a sound editor (its Outcome): it fails   *)
(* an assertion, leaves the history alone, or appends one record that      *)
(* starts from the text before and ends in the text after.  An undo or a   *)
(* redo puts cursors back unchecked; they fit if the text does, which is   *)
(* what UndoRestoresText says.                                             *)
(***************************************************************************)
EXTENDS TextEditor, EditorBufferProofs

-----------------------------------------------------------------------------
LEMMA DownwardIsSeq ==
    ASSUME NEW T, T \subseteq Nat, IsFiniteSet(T)
    PROVE  /\ IsSeq(Downward(T)) /\ Len(Downward(T)) \in Nat
           /\ \A n \in 1..Len(Downward(T)) : Downward(T)[n] \in T
<1> DEFINE u == Upward(T)
           d == Downward(T)
<1>1. IsSeq(u) /\ Len(u) \in Nat /\ \A n \in 1..Len(u) : u[n] \in T
  BY UpwardIsSeq DEF IsSeq
<1> HIDE DEF u
<1>2. d = Reverse(u)
  BY DEF Downward, u
<1>3. IsSeq(d) /\ Len(d) = Len(u) /\ \A n \in 1..Len(u) : d[n] = u[Len(u) + 1 - n]
  BY <1>1, <1>2, ReverseIsSeq
<1> HIDE DEF d
<1>4. \A n \in 1..Len(u) : Len(u) + 1 - n \in 1..Len(u)
  BY <1>1
<1>5. \A n \in 1..Len(d) : d[n] \in T
  BY <1>1, <1>3, <1>4
<1> QED BY <1>1, <1>3, <1>5 DEF d

(* The cursors of a work, from the bottom up, and from the top down.       *)
LEMMA CursorNumbers ==
    ASSUME NEW w, Sound(w)
    PROVE  /\ IsSeq(Downward(DOMAIN w.cursors)) /\ Len(Downward(DOMAIN w.cursors)) \in Nat
           /\ \A n \in 1..Len(Downward(DOMAIN w.cursors)) :
                  Downward(DOMAIN w.cursors)[n] \in 1..Len(w.cursors)
           /\ IsSeq(Upward(DOMAIN w.cursors)) /\ Len(Upward(DOMAIN w.cursors)) \in Nat
           /\ \A n \in 1..Len(Upward(DOMAIN w.cursors)) :
                  Upward(DOMAIN w.cursors)[n] \in 1..Len(w.cursors)
           /\ DOMAIN w.cursors \subseteq Nat /\ IsFiniteSet(DOMAIN w.cursors)
<1> DEFINE D == DOMAIN w.cursors
<1>1. D = 1..Len(w.cursors) /\ Len(w.cursors) \in Nat
  BY DomainOfWork
<1>2. D \subseteq Nat /\ IsFiniteSet(D)
  BY <1>1, FS_Interval
<1> HIDE DEF D
<1> QED BY <1>1, <1>2, DownwardIsSeq, UpwardIsSeq DEF IsSeq, D

-----------------------------------------------------------------------------
(* A command notes what it does.                                           *)
LEMMA NotedWork ==
    ASSUME NEW b, NEW w, Work(w, b), NEW o, o.text \in Passage,
           o.start.line \in Nat
    PROVE  LET v == Noted(w, o)
           IN  /\ Work(v, b) /\ v.lines = w.lines /\ v.cursors = w.cursors
               /\ v.aborted = w.aborted
<1> DEFINE v == Noted(w, o)
           old == w.ops
           new == Append(old, o)
<1>1. Sound(w) /\ WorkFields \subseteq DOMAIN w /\ IsSeq(old)
      /\ \A n \in 1..Len(old) : old[n].text \in Passage /\ old[n].start.line \in Nat
  BY DEF Work, Sound, Shaped, AreOperations
<1>2. /\ v.ops = new /\ DOMAIN v = DOMAIN w /\ v.lines = w.lines /\ v.cursors = w.cursors
      /\ v.aborted = w.aborted /\ v.lastAdded = w.lastAdded /\ v.clipboard = w.clipboard
      /\ v.undoBuffer = w.undoBuffer /\ v.undoIndex = w.undoIndex /\ v.dragging = w.dragging
      /\ v.changed = w.changed
  BY <1>1 DEF Noted, WorkFields
<1>f. Flagged(w) => Flagged(v)
  BY <1>1 DEF Noted, Flagged, WorkFields
<1> HIDE DEF v, old
<1>3. IsSeq(new) /\ Len(new) = Len(old) + 1
  BY <1>1, AppendIsSeq
<1>4. \A i \in 1..(Len(old) + 1) : new[i] = IF i <= Len(old) THEN old[i] ELSE o
  BY <1>1, AppendIsSeq
<1> HIDE DEF new
<1>5. AreOperations(v.ops)
  <2>1. Len(old) \in Nat
    BY <1>1 DEF IsSeq
  <2>2. \A i \in 1..Len(new) : new[i].text \in Passage /\ new[i].start.line \in Nat
    BY <1>1, <1>3, <1>4, <2>1
  <2> QED BY <1>2, <1>3, <2>2 DEF AreOperations
<1>6. Sound(v) /\ Continues(v, b)
  BY <1>1, <1>2, <1>5, <1>f DEF Work, Sound, Shaped, Continues, Retains
<1>7. Steady(v, b)
  BY <1>2 DEF Work, Steady
<1> QED BY <1>2, <1>6, <1>7 DEF v, Work

(* What was tried from b either failed an assertion or works on.           *)
LEMMA TriedOrFailed ==
    ASSUME NEW v, NEW b
    PROVE  /\ Work(v, b) => Tried(v, b)
           /\ Tried(v, b) => Work(v, v) /\ (Failed(v) \/ Work(v, b))
           /\ Tried(v, b) => \A x : Tried(x, v) => Tried(x, b)
BY DEF Tried, Work, Failed, Sound, Shaped, Continues, Retains, Steady, WorkFields

LEMMA NoteDeletionWork ==
    ASSUME NEW b, NEW w, Work(w, b), NEW p \in Places(w.lines), NEW q \in Places(w.lines)
    PROVE  LET v == NoteDeletion(w, p, q)
           IN  /\ Tried(v, b) /\ v.lines = w.lines /\ v.cursors = w.cursors
               /\ Before(p, q) => Work(v, b)
               /\ ~Before(p, q) => v.aborted
<1> DEFINE o == Operation("Delete", GetText(w.lines, p, q), p, q)
           u == Noted(w, o)
           v == NoteDeletion(w, p, q)
<1>1. o.text \in Passage /\ o.start.line \in Nat
  BY TextOfPlacesIsPassage DEF Operation, Work, Sound, Shaped, Places
<1> HIDE DEF o
<1>2. Work(u, b) /\ u.lines = w.lines /\ u.cursors = w.cursors
  BY <1>1, NotedWork
<1>3. v = [u EXCEPT !.aborted = @ \/ ~Before(p, q)]
  BY DEF NoteDeletion, o
<1> HIDE DEF u
<1>4. WorkFields \subseteq DOMAIN u /\ Sound(u) /\ Continues(u, b) /\ Steady(u, b)
  BY <1>2 DEF Work, Sound, Shaped
<1>5. /\ v.lines = u.lines /\ v.cursors = u.cursors /\ v.changed = u.changed
      /\ DOMAIN v = DOMAIN u /\ v.lastAdded = u.lastAdded /\ v.ops = u.ops
      /\ v.clipboard = u.clipboard /\ v.undoBuffer = u.undoBuffer
      /\ v.undoIndex = u.undoIndex /\ v.dragging = u.dragging
      /\ v.aborted <=> u.aborted \/ ~Before(p, q)
  BY <1>3, <1>4 DEF WorkFields
<1>f. Flagged(u) => Flagged(v)
  BY <1>3, <1>4 DEF Flagged, WorkFields
<1> HIDE DEF v
<1>6. Sound(v) /\ Retains(v, b) /\ Steady(v, b) /\ (b.aborted => v.aborted)
  BY <1>4, <1>5, <1>f DEF Sound, Shaped, Continues, Retains, Steady
<1>7. Before(p, q) => Work(v, b)
  BY <1>4, <1>5, <1>6 DEF Work, Continues
<1> QED BY <1>2, <1>5, <1>6, <1>7 DEF v, Tried

LEMMA NoteInsertionWork ==
    ASSUME NEW b, NEW inserted, Work(inserted.w, b), NEW text \in Passage,
           NEW p, p.line \in Nat
    PROVE  LET v == NoteInsertion(inserted, text, p)
           IN  Work(v, b) /\ v.lines = inserted.w.lines
<1> DEFINE o == Operation("Add", text, p, inserted.end)
<1>1. o.text \in Passage /\ o.start.line \in Nat
  BY DEF Operation
<1> HIDE DEF o
<1> QED BY <1>1, NotedWork DEF NoteInsertion, o

(* A selection starts before it ends.                                      *)
LEMMA SelectionRises ==
    ASSUME NEW w, Sound(w), NEW c \in 1..Len(w.cursors), HasSelection(w.cursors[c])
    PROVE  Before(SelectionStart(w.cursors[c]), SelectionEnd(w.cursors[c]))
<1> DEFINE k == w.cursors[c]
<1>1. k.s \in Places(w.lines) /\ k.e \in Places(w.lines) /\ Len(w.lines) \in Nat
  BY CursorOfWork, DomainOfWork
<1>2. k.s # k.e
  BY DEF HasSelection
<1> HIDE DEF k
<1>3. Before(k.s, k.e) \/ Before(k.e, k.s)
  BY <1>1, <1>2, PlacesAreOrdered
<1>4. ~(Before(k.s, k.e) /\ Before(k.e, k.s))
  BY <1>1, PlacesAreOrdered
<1>5. Before(SelectionStart(k), SelectionEnd(k))
  BY <1>3, <1>4 DEF SelectionStart, SelectionEnd
<1> QED BY <1>5 DEF k

LEMMA DeleteSelectionNotedWork ==
    ASSUME NEW b, NEW w, Work(w, b), NEW c \in 1..Len(w.cursors)
    PROVE  LET v == DeleteSelectionNoted(w, c)
           IN  Tried(v, b) /\ (HasSelection(w.cursors[c]) => Work(v, b))
<1> DEFINE k == w.cursors[c]
           v == NoteDeletion(w, SelectionStart(k), SelectionEnd(k))
           x == DeleteSelection(v, c)
<1>1. SelectionStart(k) \in Places(w.lines) /\ SelectionEnd(k) \in Places(w.lines)
  BY CursorOfWork DEF Work
<1>2. HasSelection(k) => Before(SelectionStart(k), SelectionEnd(k))
  BY SelectionRises DEF Work
<1> HIDE DEF k
<1>3. /\ Tried(v, b) /\ v.cursors = w.cursors
      /\ HasSelection(k) => Work(v, b)
  BY <1>1, <1>2, NoteDeletionWork
<1> HIDE DEF v
<1>4. Work(v, v)
  BY <1>3, TriedOrFailed
<1>5. Work(x, v) /\ (HasSelection(k) => Work(x, b))
  BY <1>3, <1>4, DeleteSelectionWork
<1> HIDE DEF x
<1>6. Tried(x, b)
  BY <1>3, <1>5, TriedOrFailed
<1> QED BY <1>5, <1>6 DEF DeleteSelectionNoted, v, k, x

-----------------------------------------------------------------------------
(* The loops over the cursors.                                             *)
DeletionStep(w, c) == IF w.aborted THEN w ELSE DeleteSelectionNoted(w, c)

RealDeletionStep(w, c) ==
    IF w.aborted THEN w
    ELSE IF HasSelection(w.cursors[c]) THEN DeleteSelectionNoted(w, c) ELSE w

LEMMA DeleteEverySelectionWork ==
    ASSUME NEW w,
           Sound(w)
    PROVE  Tried(DeleteEverySelection(w), w)
<1> DEFINE N == Len(Downward(DOMAIN w.cursors))
           Run(n, f) ==
               /\ f[0] = w
               /\ \A k \in 1..n : f[k] = DeletionStep(f[k - 1], Downward(DOMAIN w.cursors)[k])
           Fine(n) ==
               /\ \E f : Run(n, f)
               /\ \A f : Run(n, f) => Tried(f[n], w)
           S == {n \in Nat : n \in 0..N => Fine(n)}
<1>0. N \in Nat
  BY CursorNumbers
<1>1. 0 \in S
  <2>1. Run(0, [k \in 0..0 |-> w])
    OBVIOUS
  <2>2. ASSUME NEW f, Run(0, f) PROVE Tried(f[0], w)
    BY <2>2, WorkSucceeds, TriedOrFailed
  <2> QED BY <2>1, <2>2
<1>2. ASSUME NEW n \in Nat, n \in S PROVE n + 1 \in S
  <2> SUFFICES ASSUME n + 1 \in 0..N PROVE Fine(n + 1)
    OBVIOUS
  <2>1. PICK f : Run(n, f)
    BY <1>0, <1>2
  <2>2. ASSUME NEW g, \A k \in 0..n : g[k] = f[k],
               g[n + 1] = DeletionStep(f[n], Downward(DOMAIN w.cursors)[n + 1])
        PROVE  Run(n + 1, g)
    <3> SUFFICES ASSUME NEW k \in 1..(n + 1)
                 PROVE g[k] = DeletionStep(g[k - 1], Downward(DOMAIN w.cursors)[k])
      BY <2>1, <2>2
    <3>1. CASE k \in 1..n
      <4>1. k \in 0..n /\ k - 1 \in 0..n
        BY <3>1
      <4> QED BY <2>1, <2>2, <3>1, <4>1
    <3>2. CASE k = n + 1
      <4>1. k - 1 = n /\ n \in 0..n
        BY <3>2
      <4>2. g[k - 1] = f[n]
        BY <2>2, <4>1
      <4> QED BY <2>2, <3>2, <4>2
    <3> QED BY <3>1, <3>2
  <2>3. \E g : Run(n + 1, g)
    <3>1. PICK x : x = DeletionStep(f[n], Downward(DOMAIN w.cursors)[n + 1])
      OBVIOUS
    <3> DEFINE g == [k \in 0..(n + 1) |-> IF k <= n THEN f[k] ELSE x]
    <3>2. (\A k \in 0..n : g[k] = f[k]) /\ g[n + 1] = x
      OBVIOUS
    <3> HIDE DEF g
    <3> QED BY <2>2, <3>1, <3>2
  <2>4. ASSUME NEW f1, Run(n + 1, f1) PROVE Tried(f1[n + 1], w)
    <3>1. Run(n, f1) /\ n + 1 \in 1..N /\ f1[n + 1] = DeletionStep(f1[n], Downward(DOMAIN w.cursors)[n + 1])
      BY <2>4
    <3>2. Tried(f1[n], w)
      BY <1>0, <1>2, <3>1
    <3> HIDE DEF Run
    <3>3. Downward(DOMAIN w.cursors)[n + 1] \in 1..Len(f1[n].cursors)
      BY <3>1, <3>2, CursorNumbers DEF Tried, Retains
    <3>4. Work(f1[n], f1[n])
      BY <3>2, TriedOrFailed
    <3>5. Tried(f1[n + 1], f1[n])
      BY <3>1, <3>3, <3>4, DeleteSelectionNotedWork, TriedOrFailed DEF DeletionStep
    <3> QED BY <3>2, <3>5, TriedOrFailed
  <2> QED BY <2>3, <2>4
<1>3. Nat \subseteq S
  BY <1>1, <1>2, SetInduction
<1>4. Fine(N)
  <2> HIDE DEF Fine
  <2> QED BY <1>0, <1>3
<1> DEFINE Pass(f) == [k \in 0..N |-> IF k = 0 THEN w
                                      ELSE DeletionStep(f[k - 1], Downward(DOMAIN w.cursors)[k])]
           after == CHOOSE f : f = Pass(f)
<1>5. DeleteEverySelection(w) = after[N]
  BY DEF DeleteEverySelection, BottomUp, Sweep, DeletionStep
<1>6. \E f : f = Pass(f)
  <2>1. PICK f : Run(N, f)
    BY <1>4
  <2> DEFINE g == [k \in 0..N |-> f[k]]
  <2>2. g = Pass(g)
    BY <1>0, <2>1
  <2> QED BY <2>2
<1>7. after = Pass(after)
  BY <1>6
<1> HIDE DEF after
<1>8. Run(N, after)
  BY <1>0, <1>7
<1> QED BY <1>4, <1>5, <1>8

LEMMA DownwardFalls ==
    ASSUME NEW T, T \subseteq Nat, IsFiniteSet(T), NEW n \in 1..(Len(Downward(T)) - 1)
    PROVE  Downward(T)[n + 1] < Downward(T)[n]
<1> DEFINE u == Upward(T)
           N == Cardinality(T)
           d == Downward(T)
<1>1. IsSeq(u) /\ Len(u) = N /\ N \in Nat
  BY UpwardIsSeq, FS_CardinalityType
<1>2. \A i \in 1..(N - 1) : u[i] < u[i + 1]
  BY UpwardRises
<1>3. d = Reverse(u)
  BY DEF Downward
<1> HIDE DEF u, N, d
<1>4. Len(d) = N /\ \A i \in 1..N : d[i] = u[N + 1 - i]
  BY <1>1, <1>3, ReverseIsSeq
<1>5. n \in 1..(N - 1)
  BY <1>4 DEF d
<1> DEFINE i == N - n
<1>6. i \in 1..(N - 1) /\ N + 1 - n = i + 1 /\ N + 1 - (n + 1) = i /\ n \in 1..N /\ n + 1 \in 1..N
  BY <1>1, <1>5
<1> HIDE DEF i
<1>7. d[n + 1] = u[i] /\ d[n] = u[i + 1]
  BY <1>4, <1>6
<1>8. d[n + 1] < d[n]
  BY <1>2, <1>6, <1>7
<1> QED BY <1>8 DEF d

LEMMA DownFromLast ==
    ASSUME NEW N \in Nat
    PROVE  /\ Len(Downward(1..N)) = N
           /\ \A n \in 1..N : Downward(1..N)[n] = N + 1 - n
<1> DEFINE u == Upward(1..N)
<1>1. IsFiniteSet(1..N) /\ Cardinality(1..N) = N /\ 1..N \subseteq Nat
  BY FS_Interval
<1>2. IsSeq(u) /\ Len(u) = N
  BY <1>1, UpwardIsSeq
<1>3. \A n \in 1..N : u[n] = n
  <2> TAKE n \in 1..N
  <2>1. u[n] = CHOOSE k \in 1..N : Cardinality({j \in 1..N : j < k}) = n - 1
    BY <1>1 DEF Upward
  <2>2. \A k \in 1..N : Cardinality({j \in 1..N : j < k}) = k - 1
    <3> TAKE k \in 1..N
    <3>1. {j \in 1..N : j < k} = 1..(k - 1)
      OBVIOUS
    <3>2. Cardinality(1..(k - 1)) = k - 1
      BY FS_Interval
    <3> QED BY <3>1, <3>2
  <2>3. \A k \in 1..N : Cardinality({j \in 1..N : j < k}) = n - 1 <=> k = n
    <3> TAKE k \in 1..N
    <3>1. Cardinality({j \in 1..N : j < k}) = k - 1
      BY <2>2
    <3> QED BY <3>1
  <2> QED BY <2>1, <2>3
<1>4. Downward(1..N) = Reverse(u)
  BY DEF Downward
<1> HIDE DEF u
<1>5. Len(Reverse(u)) = N /\ \A n \in 1..N : Reverse(u)[n] = u[N + 1 - n]
  BY <1>2, ReverseIsSeq
<1>6. \A n \in 1..N : N + 1 - n \in 1..N
  OBVIOUS
<1> QED BY <1>3, <1>4, <1>5, <1>6

\* Selections in order: one of them lies above the start of every later one.
LEMMA SelectionsAbove ==
    ASSUME NEW w, Sound(w), SelectTogether(w), AnyCursorHasSelection(w),
           NEW c \in 1..Len(w.cursors), NEW d \in 1..Len(w.cursors), d < c
    PROVE  Above(w.cursors[d], SelectionStart(w.cursors[c]).line)
<1> DEFINE N == Len(w.cursors)
           first(k) == SelectionStart(w.cursors[k]).line
           last(k) == SelectionEnd(w.cursors[k]).line
<1>1. N \in Nat /\ Len(w.lines) \in Nat /\ DOMAIN w.cursors = 1..N
  BY DomainOfWork
<1>2. \A k \in 1..N : HasSelection(w.cursors[k])
  BY <1>1 DEF SelectTogether, AllCursorsHaveSelection
<1>3. \A p, q \in Places(w.lines) : Before(p, q) \/ AtOrBefore(p, q) => p.line <= q.line
  BY <1>1 DEF Places, Before, AtOrBefore
<1>4. \A k \in 1..N : first(k) \in Nat /\ last(k) \in Nat /\ first(k) <= last(k)
  <2> SUFFICES ASSUME NEW k \in 1..N PROVE first(k) \in Nat /\ last(k) \in Nat /\ first(k) <= last(k)
    OBVIOUS
  <2>1. /\ SelectionStart(w.cursors[k]) \in Places(w.lines)
        /\ SelectionEnd(w.cursors[k]) \in Places(w.lines)
        /\ Before(SelectionStart(w.cursors[k]), SelectionEnd(w.cursors[k]))
    BY <1>2, CursorOfWork, SelectionRises
  <2> QED BY <1>1, <1>3, <2>1 DEF Places
<1>5. \A k \in 1..(N - 1) : last(k) <= first(k + 1)
  <2> SUFFICES ASSUME NEW k \in 1..(N - 1) PROVE last(k) <= first(k + 1)
    OBVIOUS
  <2>1. k \in 1..N /\ k + 1 \in 1..N
    BY <1>1
  <2>2. SelectionEnd(w.cursors[k]) \in Places(w.lines) /\ SelectionStart(w.cursors[k + 1]) \in Places(w.lines)
    BY <2>1, CursorOfWork
  <2>3. AtOrBefore(SelectionEnd(w.cursors[k]), SelectionStart(w.cursors[k + 1]))
    BY DEF SelectTogether
  <2> QED BY <1>3, <2>2, <2>3
<1> HIDE DEF first, last
<1> DEFINE S == {n \in Nat : d + 1 + n <= N => last(d) <= first(d + 1 + n)}
<1>6. 0 \in S
  BY <1>1, <1>5
<1>7. ASSUME NEW n \in Nat, n \in S PROVE n + 1 \in S
  <2> SUFFICES ASSUME d + 1 + (n + 1) <= N PROVE last(d) <= first(d + 1 + (n + 1))
    OBVIOUS
  <2> DEFINE k == d + 1 + n
  <2>1. k \in 1..(N - 1) /\ k \in 1..N /\ k + 1 \in 1..N /\ d + 1 + (n + 1) = k + 1
    BY <1>1
  <2>2. last(d) <= first(k)
    BY <1>1, <1>7
  <2> HIDE DEF k
  <2>3. first(k) <= last(k) /\ last(k) <= first(k + 1)
    BY <1>4, <1>5, <2>1
  <2>4. last(d) \in Nat /\ first(k) \in Nat /\ last(k) \in Nat /\ first(k + 1) \in Nat
    BY <1>4, <2>1
  <2> QED BY <2>1, <2>2, <2>3, <2>4
<1>8. Nat \subseteq S
  <2> HIDE DEF S
  <2> QED BY <1>6, <1>7, SetInduction
<1>9. last(d) <= first(c)
  <2> DEFINE n == c - d - 1
  <2>1. n \in Nat /\ d + 1 + n = c /\ c <= N
    BY <1>1
  <2> HIDE DEF n
  <2>2. n \in S
    BY <1>8, <2>1
  <2> QED BY <2>1, <2>2
<1>10. w.cursors[d].s.line \in Nat /\ w.cursors[d].e.line \in Nat
  <2>1. \A p \in Places(w.lines) : p.line \in Nat
    BY <1>1 DEF Places
  <2> QED BY <2>1, CursorOfWork
<1>11. w.cursors[d].s.line <= last(d) /\ w.cursors[d].e.line <= last(d)
  <2>1. w.cursors[d].s.line <= w.cursors[d].e.line \/ ~Before(w.cursors[d].s, w.cursors[d].e)
    BY <1>3, CursorOfWork
  <2>2. Before(w.cursors[d].s, w.cursors[d].e) => last(d) = w.cursors[d].e.line /\ first(d) = w.cursors[d].s.line
    BY DEF SelectionEnd, SelectionStart, first, last
  <2>3. ~Before(w.cursors[d].s, w.cursors[d].e) => last(d) = w.cursors[d].s.line /\ first(d) = w.cursors[d].e.line
    BY DEF SelectionEnd, SelectionStart, first, last
  <2>4. first(d) <= last(d)
    BY <1>4
  <2> QED BY <1>10, <2>1, <2>2, <2>3, <2>4
<1>12. w.cursors[d].s.line <= first(c) /\ w.cursors[d].e.line <= first(c)
  <2>1. last(d) \in Nat /\ first(c) \in Nat
    BY <1>4
  <2> HIDE DEF N
  <2> QED BY <1>9, <1>10, <1>11, <2>1
<1> QED BY <1>2, <1>12 DEF Above, first

LEMMA DeleteSelectionNotedSpares ==
    ASSUME NEW w, Sound(w), NEW c \in 1..Len(w.cursors), NEW d \in 1..Len(w.cursors), d # c,
           Above(w.cursors[d], SelectionStart(w.cursors[c]).line)
    PROVE  DeleteSelectionNoted(w, c).cursors[d] = w.cursors[d]
<1> DEFINE k == w.cursors[c]
           v == NoteDeletion(w, SelectionStart(k), SelectionEnd(k))
<1>1. SelectionStart(k) \in Places(w.lines) /\ SelectionEnd(k) \in Places(w.lines) /\ Work(w, w)
  BY CursorOfWork, WorkSucceeds
<1>2. Sound(v) /\ v.cursors = w.cursors
  BY <1>1, NoteDeletionWork DEF Tried
<1>3. DeleteSelectionNoted(w, c) = DeleteSelection(v, c)
  BY DEF DeleteSelectionNoted
<1> HIDE DEF v
<1>4. DeleteSelection(v, c).cursors[d] = v.cursors[d]
  BY <1>2, DeleteSelectionSpares
<1> QED BY <1>2, <1>3, <1>4

\* After n steps down the cursors, those below the n-th are still as in w.
Untouched(v, w, n) ==
    \A d \in 1..Len(w.cursors) :
        n = 0 \/ d < Downward(DOMAIN w.cursors)[n] => v.cursors[d] = w.cursors[d]

LEMMA DeletionStepTogether ==
    ASSUME NEW w, Sound(w), SelectTogether(w), AnyCursorHasSelection(w),
           NEW n \in Nat, n + 1 <= Len(Downward(DOMAIN w.cursors)),
           NEW v, Work(v, w), Untouched(v, w, n)
    PROVE  LET x == DeletionStep(v, Downward(DOMAIN w.cursors)[n + 1])
           IN  Work(x, w) /\ Untouched(x, w, n + 1)
<1> DEFINE T == DOMAIN w.cursors
           N == Len(Downward(T))
           c == Downward(T)[n + 1]
           x == DeletionStep(v, c)
<1>1. T = 1..Len(w.cursors) /\ Len(w.cursors) \in Nat /\ T \subseteq Nat /\ IsFiniteSet(T) /\ N \in Nat
  <2>1. T = 1..Len(w.cursors) /\ Len(w.cursors) \in Nat
    BY DomainOfWork
  <2> QED BY <2>1, CursorNumbers
<1>2. c \in 1..Len(w.cursors)
  BY <1>1, CursorNumbers
<1>3. n = 0 \/ c < Downward(T)[n]
  <2>1. CASE n # 0
    <3>1. n \in 1..(N - 1)
      BY <1>1, <2>1
    <3> QED BY <1>1, <3>1, DownwardFalls
  <2> QED BY <2>1
<1>4. n = 0 \/ Downward(T)[n] \in Nat
  <2>1. CASE n # 0
    <3>1. n \in 1..N
      BY <1>1, <2>1
    <3> QED BY <1>1, <3>1, CursorNumbers
  <2> QED BY <2>1
<1>5. \A d \in 1..Len(w.cursors) : d <= c => v.cursors[d] = w.cursors[d]
  <2> SUFFICES ASSUME NEW d \in 1..Len(w.cursors), d <= c PROVE v.cursors[d] = w.cursors[d]
    OBVIOUS
  <2>1. n = 0 \/ d < Downward(T)[n]
    BY <1>1, <1>2, <1>3, <1>4
  <2> QED BY <2>1 DEF Untouched
<1> HIDE DEF c, N
<1>6. Len(v.cursors) = Len(w.cursors) /\ Sound(v)
  <2>1. DOMAIN v.cursors = DOMAIN w.cursors /\ Sound(v)
    BY DEF Work, Continues, Retains
  <2> QED BY <1>1, <2>1, DomainOfWork
<1>7. HasSelection(w.cursors[c]) /\ v.cursors[c] = w.cursors[c]
  <2>1. HasSelection(w.cursors[c])
    BY <1>1, <1>2 DEF SelectTogether, AllCursorsHaveSelection
  <2>2. c \in Nat
    BY <1>2
  <2>3. c <= c
    BY <2>2
  <2> QED BY <1>2, <1>5, <2>1, <2>3
<1>8. Work(x, w)
  BY <1>2, <1>6, <1>7, DeleteSelectionNotedWork DEF DeletionStep
<1>9. ASSUME NEW d \in 1..Len(w.cursors), d < c PROVE x.cursors[d] = w.cursors[d]
  <2>1. v.cursors[d] = w.cursors[d] /\ d # c
    BY <1>1, <1>2, <1>5, <1>9
  <2>2. Above(w.cursors[d], SelectionStart(w.cursors[c]).line)
    BY <1>2, <1>9, SelectionsAbove
  <2>3. DeleteSelectionNoted(v, c).cursors[d] = v.cursors[d]
    BY <1>2, <1>6, <1>7, <2>1, <2>2, DeleteSelectionNotedSpares
  <2> QED BY <2>1, <2>3 DEF DeletionStep
<1>10. Untouched(x, w, n + 1)
  <2>1. n + 1 # 0 /\ c = Downward(DOMAIN w.cursors)[n + 1]
    BY DEF c
  <2> HIDE DEF x
  <2> QED BY <1>9, <2>1 DEF Untouched
<1> QED BY <1>8, <1>10 DEF c

LEMMA DeleteTogetherWork ==
    ASSUME NEW w, Sound(w), SelectTogether(w), AnyCursorHasSelection(w)
    PROVE  Work(DeleteEverySelection(w), w)
<1> DEFINE N == Len(Downward(DOMAIN w.cursors))
           Run(n, f) ==
               /\ f[0] = w
               /\ \A k \in 1..n : f[k] = DeletionStep(f[k - 1], Downward(DOMAIN w.cursors)[k])
           Fine(n) ==
               /\ \E f : Run(n, f)
               /\ \A f : Run(n, f) => Work(f[n], w) /\ Untouched(f[n], w, n)
           S == {n \in Nat : n \in 0..N => Fine(n)}
<1>0. N \in Nat
  BY CursorNumbers
<1>1. 0 \in S
  <2>1. Run(0, [k \in 0..0 |-> w])
    OBVIOUS
  <2>2. ASSUME NEW f, Run(0, f) PROVE Work(f[0], w) /\ Untouched(f[0], w, 0)
    BY <2>2, WorkSucceeds DEF Untouched
  <2> QED BY <2>1, <2>2
<1>2. ASSUME NEW n \in Nat, n \in S PROVE n + 1 \in S
  <2> SUFFICES ASSUME n + 1 \in 0..N PROVE Fine(n + 1)
    OBVIOUS
  <2>1. PICK f : Run(n, f)
    BY <1>0, <1>2
  <2>2. ASSUME NEW g, \A k \in 0..n : g[k] = f[k],
               g[n + 1] = DeletionStep(f[n], Downward(DOMAIN w.cursors)[n + 1])
        PROVE  Run(n + 1, g)
    <3> SUFFICES ASSUME NEW k \in 1..(n + 1)
                 PROVE g[k] = DeletionStep(g[k - 1], Downward(DOMAIN w.cursors)[k])
      BY <2>1, <2>2
    <3>1. CASE k \in 1..n
      <4>1. k \in 0..n /\ k - 1 \in 0..n
        BY <3>1
      <4> QED BY <2>1, <2>2, <3>1, <4>1
    <3>2. CASE k = n + 1
      <4>1. k - 1 = n /\ n \in 0..n
        BY <3>2
      <4>2. g[k - 1] = f[n]
        BY <2>2, <4>1
      <4> QED BY <2>2, <3>2, <4>2
    <3> QED BY <3>1, <3>2
  <2>3. \E g : Run(n + 1, g)
    <3>1. PICK x : x = DeletionStep(f[n], Downward(DOMAIN w.cursors)[n + 1])
      OBVIOUS
    <3> DEFINE g == [k \in 0..(n + 1) |-> IF k <= n THEN f[k] ELSE x]
    <3>2. (\A k \in 0..n : g[k] = f[k]) /\ g[n + 1] = x
      OBVIOUS
    <3> HIDE DEF g
    <3> QED BY <2>2, <3>1, <3>2
  <2>4. ASSUME NEW f1, Run(n + 1, f1) PROVE Work(f1[n + 1], w) /\ Untouched(f1[n + 1], w, n + 1)
    <3>1. Run(n, f1) /\ n + 1 <= N /\ f1[n + 1] = DeletionStep(f1[n], Downward(DOMAIN w.cursors)[n + 1])
      BY <2>4
    <3>2. Work(f1[n], w) /\ Untouched(f1[n], w, n)
      BY <1>0, <1>2, <3>1
    <3> HIDE DEF Run
    <3> QED BY <3>1, <3>2, DeletionStepTogether
  <2> QED BY <2>3, <2>4
<1>3. Nat \subseteq S
  BY <1>1, <1>2, SetInduction
<1>4. Fine(N)
  <2> HIDE DEF Fine
  <2> QED BY <1>0, <1>3
<1> DEFINE Pass(f) == [k \in 0..N |-> IF k = 0 THEN w
                                      ELSE DeletionStep(f[k - 1], Downward(DOMAIN w.cursors)[k])]
           after == CHOOSE f : f = Pass(f)
<1>5. DeleteEverySelection(w) = after[N]
  BY DEF DeleteEverySelection, BottomUp, Sweep, DeletionStep
<1>6. \E f : f = Pass(f)
  <2>1. PICK f : Run(N, f)
    BY <1>4
  <2> DEFINE g == [k \in 0..N |-> f[k]]
  <2>2. g = Pass(g)
    BY <1>0, <2>1
  <2> QED BY <2>2
<1>7. after = Pass(after)
  BY <1>6
<1> HIDE DEF after
<1>8. Run(N, after)
  BY <1>0, <1>7
<1> QED BY <1>4, <1>5, <1>8

LEMMA DeleteRealSelectionsWork ==
    ASSUME NEW w,
           Sound(w)
    PROVE  Work(DeleteRealSelections(w), w)
<1> DEFINE N == Len(Downward(DOMAIN w.cursors))
           Run(n, f) ==
               /\ f[0] = w
               /\ \A k \in 1..n : f[k] = RealDeletionStep(f[k - 1], Downward(DOMAIN w.cursors)[k])
           Fine(n) ==
               /\ \E f : Run(n, f)
               /\ \A f : Run(n, f) => Work(f[n], w)
           S == {n \in Nat : n \in 0..N => Fine(n)}
<1>0. N \in Nat
  BY CursorNumbers
<1>1. 0 \in S
  <2>1. Run(0, [k \in 0..0 |-> w])
    OBVIOUS
  <2>2. ASSUME NEW f, Run(0, f) PROVE Work(f[0], w)
    BY <2>2, WorkSucceeds
  <2> QED BY <2>1, <2>2
<1>2. ASSUME NEW n \in Nat, n \in S PROVE n + 1 \in S
  <2> SUFFICES ASSUME n + 1 \in 0..N PROVE Fine(n + 1)
    OBVIOUS
  <2>1. PICK f : Run(n, f)
    BY <1>0, <1>2
  <2>2. ASSUME NEW g, \A k \in 0..n : g[k] = f[k],
               g[n + 1] = RealDeletionStep(f[n], Downward(DOMAIN w.cursors)[n + 1])
        PROVE  Run(n + 1, g)
    <3> SUFFICES ASSUME NEW k \in 1..(n + 1)
                 PROVE g[k] = RealDeletionStep(g[k - 1], Downward(DOMAIN w.cursors)[k])
      BY <2>1, <2>2
    <3>1. CASE k \in 1..n
      <4>1. k \in 0..n /\ k - 1 \in 0..n
        BY <3>1
      <4> QED BY <2>1, <2>2, <3>1, <4>1
    <3>2. CASE k = n + 1
      <4>1. k - 1 = n /\ n \in 0..n
        BY <3>2
      <4>2. g[k - 1] = f[n]
        BY <2>2, <4>1
      <4> QED BY <2>2, <3>2, <4>2
    <3> QED BY <3>1, <3>2
  <2>3. \E g : Run(n + 1, g)
    <3>1. PICK x : x = RealDeletionStep(f[n], Downward(DOMAIN w.cursors)[n + 1])
      OBVIOUS
    <3> DEFINE g == [k \in 0..(n + 1) |-> IF k <= n THEN f[k] ELSE x]
    <3>2. (\A k \in 0..n : g[k] = f[k]) /\ g[n + 1] = x
      OBVIOUS
    <3> HIDE DEF g
    <3> QED BY <2>2, <3>1, <3>2
  <2>4. ASSUME NEW f1, Run(n + 1, f1) PROVE Work(f1[n + 1], w)
    <3>1. Run(n, f1) /\ n + 1 \in 1..N /\ f1[n + 1] = RealDeletionStep(f1[n], Downward(DOMAIN w.cursors)[n + 1])
      BY <2>4
    <3>2. Work(f1[n], w)
      BY <1>0, <1>2, <3>1
    <3> HIDE DEF Run
    <3>3. Downward(DOMAIN w.cursors)[n + 1] \in 1..Len(f1[n].cursors)
      BY <3>1, <3>2, CursorNumbers DEF Work, Continues, Retains
    <3> QED BY <3>1, <3>2, <3>3, DeleteSelectionNotedWork DEF RealDeletionStep
  <2> QED BY <2>3, <2>4
<1>3. Nat \subseteq S
  BY <1>1, <1>2, SetInduction
<1>4. Fine(N)
  <2> HIDE DEF Fine
  <2> QED BY <1>0, <1>3
<1> DEFINE Pass(f) == [k \in 0..N |-> IF k = 0 THEN w
                                      ELSE RealDeletionStep(f[k - 1], Downward(DOMAIN w.cursors)[k])]
           after == CHOOSE f : f = Pass(f)
<1>5. DeleteRealSelections(w) = after[N]
  BY DEF DeleteRealSelections, BottomUp, Sweep, RealDeletionStep
<1>6. \E f : f = Pass(f)
  <2>1. PICK f : Run(N, f)
    BY <1>4
  <2> DEFINE g == [k \in 0..N |-> f[k]]
  <2>2. g = Pass(g)
    BY <1>0, <2>1
  <2> QED BY <2>2
<1>7. after = Pass(after)
  BY <1>6
<1> HIDE DEF after
<1>8. Run(N, after)
  BY <1>0, <1>7
<1> QED BY <1>4, <1>5, <1>8

-----------------------------------------------------------------------------
(* The lines that a cursor stands for, and those of all cursors.           *)
LEMMA LinesAreFinite ==
    ASSUME NEW n \in Nat, NEW T, T \subseteq 0..(n - 1)
    PROVE  IsFiniteSet(T)
<1>1. IsFiniteSet(0..(n - 1))
  BY FS_Interval, 0 \in Int, n - 1 \in Int
<1> QED BY <1>1, FS_Subset, T \in SUBSET (0..(n - 1))

LEMMA LinesOfCursor ==
    ASSUME NEW lines, IsText(lines), NEW k \in [s : Places(lines), e : Places(lines)]
    PROVE  /\ LinesOf(k) \subseteq 0..(Len(lines) - 1) /\ LinesOf(k) \subseteq Nat
           /\ IsFiniteSet(LinesOf(k))
           /\ SelectionStart(k).line \in LinesOf(k)
           /\ SelectionStart(k).line <= k.s.line /\ SelectionStart(k).line <= k.e.line
<1> DEFINE p == SelectionStart(k)
           q == SelectionEnd(k)
<1>0. Len(lines) \in Nat
  BY DEF IsText, IsSeq
<1>1. k.s \in Places(lines) /\ k.e \in Places(lines)
  OBVIOUS
<1>2. /\ p \in Places(lines) /\ q \in Places(lines) /\ p.line <= q.line
      /\ p.line <= k.s.line /\ p.line <= k.e.line
      /\ p.line = q.line => p.column <= q.column
      /\ p = q <=> k.s = k.e
  BY <1>0, <1>1 DEF SelectionStart, SelectionEnd, Before, Places
<1>3. LinesOf(k) = {l \in p.line..q.line : ~(HasSelection(k) /\ At(l, 0) = q)}
  BY DEF LinesOf
<1> HIDE DEF p, q
<1>4. /\ p.line \in Nat /\ q.line \in Nat /\ q.line <= Len(lines) - 1
      /\ p.column \in Nat /\ p = [line |-> p.line, column |-> p.column]
  BY <1>0, <1>2 DEF Places
<1>5. LinesOf(k) \subseteq 0..(Len(lines) - 1)
  BY <1>0, <1>3, <1>4
<1>6. IsFiniteSet(LinesOf(k))
  BY <1>0, <1>5, LinesAreFinite
<1>7. p.line \in LinesOf(k)
  <2> SUFFICES ASSUME At(p.line, 0) = q PROVE ~HasSelection(k)
    BY <1>2, <1>3, <1>4
  <2>1. q.line = p.line /\ q.column = 0
    BY DEF At
  <2>2. p.column = 0
    BY <1>2, <1>4, <2>1
  <2>3. p = q
    BY <1>4, <2>2 DEF At
  <2> QED BY <1>2, <2>3 DEF HasSelection
<1> QED BY <1>2, <1>5, <1>6, <1>7 DEF p

LEMMA LinesAffected ==
    ASSUME NEW w, Sound(w)
    PROVE  LET A == AffectedLines(w)
           IN  /\ A \subseteq 0..(Len(w.lines) - 1) /\ A \subseteq Nat /\ IsFiniteSet(A)
               /\ Min(A) \in A /\ Max(A) \in A
               /\ \A l \in A : Min(A) <= l /\ l <= Max(A)
               /\ \A c \in 1..Len(w.cursors) :
                      Min(A) <= w.cursors[c].s.line /\ Min(A) <= w.cursors[c].e.line
<1> DEFINE A == AffectedLines(w)
<1>0. /\ IsText(w.lines) /\ Len(w.lines) \in Nat /\ Len(w.lines) >= 1 /\ Len(w.cursors) >= 1
      /\ DOMAIN w.cursors = 1..Len(w.cursors) /\ Len(w.cursors) \in Nat
      /\ \A c \in 1..Len(w.cursors) : w.cursors[c] \in [s : Places(w.lines), e : Places(w.lines)]
  BY DomainOfWork DEF Sound, Shaped, AreCursors
<1>1. A \subseteq 0..(Len(w.lines) - 1)
  BY <1>0, LinesOfCursor DEF AffectedLines
<1>2. \A c \in 1..Len(w.cursors) :
          /\ SelectionStart(w.cursors[c]).line \in A
          /\ SelectionStart(w.cursors[c]).line <= w.cursors[c].s.line
          /\ SelectionStart(w.cursors[c]).line <= w.cursors[c].e.line
  BY <1>0, LinesOfCursor DEF AffectedLines
<1>3. A # {}
  BY <1>0, <1>2
<1>a. \A c \in 1..Len(w.cursors) : w.cursors[c].s.line \in Nat /\ w.cursors[c].e.line \in Nat
  BY <1>0 DEF Places
<1> HIDE DEF A
<1>b. IsFiniteSet(A)
  BY <1>0, <1>1, LinesAreFinite
<1>4. A \subseteq Nat /\ IsFiniteSet(A) /\ \A l \in A : l <= Len(w.lines)
  BY <1>0, <1>1, <1>b
<1>5. /\ Min(A) \in A /\ Max(A) \in A
      /\ \A l \in A : Min(A) <= l /\ l <= Max(A)
  BY <1>0, <1>3, <1>4, MinOfNats, MaxOfNats
<1>6. \A c \in 1..Len(w.cursors) :
          Min(A) <= w.cursors[c].s.line /\ Min(A) <= w.cursors[c].e.line
  <2> SUFFICES ASSUME NEW c \in 1..Len(w.cursors)
               PROVE  Min(A) <= w.cursors[c].s.line /\ Min(A) <= w.cursors[c].e.line
    OBVIOUS
  <2> DEFINE l == SelectionStart(w.cursors[c]).line
  <2>1. l \in A /\ l <= w.cursors[c].s.line /\ l <= w.cursors[c].e.line
    BY <1>2
  <2> HIDE DEF l
  <2>2. Min(A) \in Nat /\ l \in Nat /\ Min(A) <= l
    BY <1>4, <1>5, <2>1
  <2> QED BY <1>a, <2>1, <2>2
<1> QED BY <1>1, <1>4, <1>5, <1>6 DEF A

(* Work that goes on with at least as many lines as w has.                 *)
Longer(v, b, w) == Work(v, b) /\ Len(v.lines) >= Len(w.lines)

LEMMA LongerKeepsLines ==
    ASSUME NEW v, NEW b, NEW w, Longer(v, b, w), NEW l \in 0..(Len(w.lines) - 1),
           Len(w.lines) \in Nat
    PROVE  l \in 0..(Len(v.lines) - 1)
<1>1. Len(v.lines) \in Nat /\ Len(v.lines) >= Len(w.lines)
  BY DomainOfWork DEF Longer, Work
<1> QED BY <1>1

LEMMA InsertAtLineWork ==
    ASSUME NEW b, NEW w, Work(w, b), NEW l \in 0..(Len(w.lines) - 1), NEW text \in Passage
    PROVE  Longer(Colorize(NoteInsertion(InsertTextAt(w, At(l, 0), text), text, At(l, 0)), l, 1), b, w)
<1> DEFINE inserted == InsertTextAt(w, At(l, 0), text)
           u == NoteInsertion(inserted, text, At(l, 0))
           v == Colorize(u, l, 1)
<1>0. 0 \in Int /\ IsText(w.lines)
  BY DEF Work, Sound, Shaped
<1>1. At(l, 0) \in Places(w.lines)
  BY <1>0, ColumnIsPlace
<1>2. Work(inserted.w, b) /\ Len(inserted.w.lines) >= Len(w.lines)
  BY <1>1, InsertTextAtWork
<1> HIDE DEF inserted
<1>3. Work(u, b) /\ u.lines = inserted.w.lines
  <2>1. At(l, 0).line \in Nat
    BY DEF At
  <2> QED BY <1>2, <2>1, NoteInsertionWork
<1> HIDE DEF u
<1>4. Work(v, b) /\ v.lines = u.lines
  BY <1>3, ColorizeWork
<1> HIDE DEF v
<1>5. Longer(v, b, w)
  BY <1>2, <1>3, <1>4 DEF Longer
<1> QED BY <1>5 DEF v, u, inserted

LEMMA DeleteInLineWork ==
    ASSUME NEW b, NEW w, Work(w, b), NEW l \in Int, NEW p \in Places(w.lines), NEW q \in Places(w.lines),
           p.line = q.line, Before(p, q)
    PROVE  Longer(Colorize(DeleteRange(NoteDeletion(w, p, q), p, q), l, 1), b, w)
<1> DEFINE u == NoteDeletion(w, p, q)
           cut == DeleteRange(u, p, q)
           v == Colorize(cut, l, 1)
<1>1. Work(u, b) /\ u.lines = w.lines
  BY NoteDeletionWork
<1> HIDE DEF u
<1>2. Work(cut, b) /\ Len(cut.lines) = Len(u.lines)
  <2>1. p.line <= q.line
    BY DEF Places
  <2> QED BY <1>1, <2>1, DeleteRangeWork
<1> HIDE DEF cut
<1>3. Work(v, b) /\ v.lines = cut.lines
  BY <1>2, ColorizeWork
<1> HIDE DEF v
<1>4. Longer(v, b, w)
  BY <1>1, <1>2, <1>3, DomainOfWork DEF Longer, Work
<1> QED BY <1>4 DEF v, cut, u

LEMMA LongerIsReflexive ==
    ASSUME NEW w, NEW b, Work(w, b) PROVE Longer(w, b, w)
BY DomainOfWork DEF Longer, Work

(* What the commands enter by themselves.                                  *)
LEMMA KeysArePassages ==
    /\ <<Tab>> \in Passage /\ <<NewLine>> \in Passage /\ <<>> \in Passage
    /\ Tab # LeadByte /\ Space # LeadByte /\ NewLine # LeadByte /\ NextByte # LeadByte
<1>1. /\ Tab # LeadByte /\ Space # LeadByte /\ NewLine # LeadByte /\ NextByte # LeadByte
      /\ "-" # LeadByte
  BY DEF Tab, Space, NewLine, NextByte, LeadByte
<1>2. Tab \in Glyph /\ Space \in Glyph /\ "-" \in Glyph
  BY GlyphAssumption
<1>3. <<Tab>> \in Line /\ <<Space>> \in Line /\ <<"-">> \in Line /\ <<>> \in Line
  BY <1>1, <1>2, SmallLines
<1>4. <<Tab>> \in Passage /\ <<>> \in Passage
  BY <1>3, LineIsPassage
<1> QED BY <1>1, <1>4, PassagesJoin

LEMMA IndentLineWork ==
    ASSUME NEW b, NEW w, Work(w, b), NEW l \in 0..(Len(w.lines) - 1)
    PROVE  Longer(IndentLine(w, l), b, w) /\ Longer(UnindentLine(w, l), b, w)
<1>1. <<Tab>> \in Passage /\ l \in Int
  BY KeysArePassages
<1>2. Longer(IndentLine(w, l), b, w)
  BY <1>1, InsertAtLineWork, LongerIsReflexive DEF IndentLine
<1>3. At(l, 0) \in Places(w.lines) /\ At(l, TabSize) \in Places(w.lines)
      /\ At(l, 0).line = At(l, TabSize).line /\ Before(At(l, 0), At(l, TabSize))
  BY TabSizeAssumption DEF At, Places, Before
<1>4. Longer(UnindentLine(w, l), b, w)
  BY <1>1, <1>3, DeleteInLineWork, LongerIsReflexive DEF UnindentLine
<1> QED BY <1>2, <1>4

LEMMA LongerIsTransitive ==
    ASSUME NEW b, NEW u, NEW v, NEW w, Longer(u, b, v), Longer(v, b, w), Len(w.lines) \in Nat
    PROVE  Longer(u, b, w)
<1>1. Len(u.lines) \in Nat /\ Len(v.lines) \in Nat
  BY DomainOfWork DEF Longer, Work
<1> QED BY <1>1 DEF Longer

(* One step of a loop over lines.                                          *)
IndentStep(w, l, increase) == IF increase THEN IndentLine(w, l) ELSE UnindentLine(w, l)

IndentLines(w, lines, increase) ==
    Sweep(w, LAMBDA u, l : IF increase THEN IndentLine(u, l) ELSE UnindentLine(u, l), lines)

LEMMA IndentLinesWork ==
    ASSUME NEW b,
           NEW w,
           Work(w, b),
           NEW lines,
           IsSeq(lines),
           \A n \in 1..Len(lines) : lines[n] \in 0..(Len(w.lines) - 1),
           NEW increase
    PROVE  Longer(IndentLines(w, lines, increase), b, w)
<1> DEFINE N == Len(lines)
           Run(n, f) ==
               /\ f[0] = w
               /\ \A k \in 1..n : f[k] = IndentStep(f[k - 1], lines[k], increase)
           Fine(n) ==
               /\ \E f : Run(n, f)
               /\ \A f : Run(n, f) => Longer(f[n], b, w)
           S == {n \in Nat : n \in 0..N => Fine(n)}
<1>0. N \in Nat
  BY DEF IsSeq
<1>a. Len(w.lines) \in Nat
  BY DomainOfWork DEF Work
<1>1. 0 \in S
  <2>1. Run(0, [k \in 0..0 |-> w])
    OBVIOUS
  <2>2. ASSUME NEW f, Run(0, f) PROVE Longer(f[0], b, w)
    BY <2>2, LongerIsReflexive
  <2> QED BY <2>1, <2>2
<1>2. ASSUME NEW n \in Nat, n \in S PROVE n + 1 \in S
  <2> SUFFICES ASSUME n + 1 \in 0..N PROVE Fine(n + 1)
    OBVIOUS
  <2>1. PICK f : Run(n, f)
    BY <1>0, <1>2
  <2>2. ASSUME NEW g, \A k \in 0..n : g[k] = f[k], g[n + 1] = IndentStep(f[n], lines[n + 1], increase)
        PROVE  Run(n + 1, g)
    <3> SUFFICES ASSUME NEW k \in 1..(n + 1) PROVE g[k] = IndentStep(g[k - 1], lines[k], increase)
      BY <2>1, <2>2
    <3>1. CASE k \in 1..n
      <4>1. k \in 0..n /\ k - 1 \in 0..n
        BY <3>1
      <4> QED BY <2>1, <2>2, <3>1, <4>1
    <3>2. CASE k = n + 1
      <4>1. k - 1 = n /\ n \in 0..n
        BY <3>2
      <4>2. g[k - 1] = f[n]
        BY <2>2, <4>1
      <4> QED BY <2>2, <3>2, <4>2
    <3> QED BY <3>1, <3>2
  <2>3. \E g : Run(n + 1, g)
    <3>1. PICK x : x = IndentStep(f[n], lines[n + 1], increase)
      OBVIOUS
    <3> DEFINE g == [k \in 0..(n + 1) |-> IF k <= n THEN f[k] ELSE x]
    <3>2. (\A k \in 0..n : g[k] = f[k]) /\ g[n + 1] = x
      OBVIOUS
    <3> HIDE DEF g
    <3> QED BY <2>2, <3>1, <3>2
  <2>4. ASSUME NEW f1, Run(n + 1, f1) PROVE Longer(f1[n + 1], b, w)
    <3>1. Run(n, f1) /\ n + 1 \in 1..N /\ f1[n + 1] = IndentStep(f1[n], lines[n + 1], increase)
      BY <2>4
    <3>2. Longer(f1[n], b, w)
      BY <1>0, <1>2, <3>1
    <3> HIDE DEF Run
    <3>3. Work(f1[n], b) /\ lines[n + 1] \in 0..(Len(f1[n].lines) - 1)
      BY <1>a, <3>1, <3>2, LongerKeepsLines DEF Longer
    <3>4. Longer(IndentStep(f1[n], lines[n + 1], increase), b, f1[n])
      BY <3>3, IndentLineWork DEF IndentStep
    <3>5. Longer(IndentStep(f1[n], lines[n + 1], increase), b, w)
      BY <1>a, <3>2, <3>3, <3>4, LongerIsTransitive
    <3> QED BY <3>1, <3>5
  <2> QED BY <2>3, <2>4
<1>3. Nat \subseteq S
  BY <1>1, <1>2, SetInduction
<1>4. Fine(N)
  <2> HIDE DEF Fine
  <2> QED BY <1>0, <1>3
<1> DEFINE Pass(f) == [k \in 0..N |-> IF k = 0 THEN w ELSE IndentStep(f[k - 1], lines[k], increase)]
           after == CHOOSE f : f = Pass(f)
<1>5. IndentLines(w, lines, increase) = after[N]
  BY DEF IndentLines, Sweep, IndentStep
<1>6. \E f : f = Pass(f)
  <2>1. PICK f : Run(N, f)
    BY <1>4
  <2> DEFINE g == [k \in 0..N |-> f[k]]
  <2>2. g = Pass(g)
    BY <1>0, <2>1
  <2> QED BY <2>2
<1>7. after = Pass(after)
  BY <1>6
<1> HIDE DEF after
<1>8. Run(N, after)
  BY <1>0, <1>7
<1> QED BY <1>4, <1>5, <1>8

-----------------------------------------------------------------------------
(* What a command makes of the editor: it fails an assertion, or goes on   *)
(* with the history as it was, or adds one record to it.                   *)
Entry(r) ==
    /\ IsText(r.from) /\ IsText(r.to) /\ AreOperations(r.ops)
    /\ r.from \in Seq(Line) /\ r.to \in Seq(Line)
    /\ AreCursors(r.before.cursors, r.from) /\ r.before.lastAdded \in Nat \ {0}
    /\ AreCursors(r.after.cursors, r.to) /\ r.after.lastAdded \in Nat \ {0}

Edited(v, w) ==
    /\ Sound(v)
    /\ v.undoIndex = w.undoIndex + 1 /\ v.dragging = w.dragging
    /\ v.aborted <=> w.aborted
    /\ Flagged(w) => Flagged(v)
    /\ v.ops = <<>>
    /\ \E r : /\ Entry(r) /\ r.from = w.lines /\ r.to = v.lines /\ r.before.cursors = w.cursors
              /\ v.undoBuffer = Append(SubSeq(w.undoBuffer, 1, w.undoIndex), r)

(* Cursors that go up or down together stay apart.                         *)
LEMMA ShiftedStayApart ==
    ASSUME NEW w, Sound(w), Apart(w.cursors), NEW d \in Int
    PROVE  Apart(CursorsShifted(w, d))
<1> DEFINE shifted(p) == [p EXCEPT !.line = @ + d]
           P == Places(w.lines)
           f == [c \in DOMAIN w.cursors |->
                    [s |-> shifted(w.cursors[c].s), e |-> shifted(w.cursors[c].e)]]
<1>1. DOMAIN w.cursors = 1..Len(w.cursors) /\ Len(w.cursors) \in Nat
  BY DomainOfWork
<1>2. CursorsShifted(w, d) = f
  BY DEF CursorsShifted
<1>3. \A p \in P : /\ p.line \in Int /\ p.column \in Int /\ p = [line |-> p.line, column |-> p.column]
                   /\ shifted(p) = [line |-> p.line + d, column |-> p.column]
  BY DEF Places
<1> DEFINE g(k) == [s |-> shifted(k.s), e |-> shifted(k.e)]
<1>4. \A p, q \in P : /\ Before(shifted(p), shifted(q)) <=> Before(p, q)
                      /\ shifted(p) = shifted(q) <=> p = q
  <2> SUFFICES ASSUME NEW p \in P, NEW q \in P
               PROVE  /\ Before(shifted(p), shifted(q)) <=> Before(p, q)
                      /\ shifted(p) = shifted(q) <=> p = q
    OBVIOUS
  <2> DEFINE x == shifted(p)
             y == shifted(q)
  <2>1. x = [line |-> p.line + d, column |-> p.column] /\ y = [line |-> q.line + d, column |-> q.column]
    BY <1>3
  <2> HIDE DEF x, y
  <2>2. x.line = p.line + d /\ x.column = p.column /\ y.line = q.line + d /\ y.column = q.column
    BY <2>1
  <2>3. p.line \in Int /\ q.line \in Int /\ p.column \in Int /\ q.column \in Int
    BY <1>3
  <2>4. Before(x, y) <=> Before(p, q)
    <3>1. (x.line < y.line <=> p.line < q.line) /\ (x.line = y.line <=> p.line = q.line)
      BY <2>2, <2>3
    <3>2. x.column < y.column <=> p.column < q.column
      BY <2>2
    <3> QED BY <3>1, <3>2 DEF Before
  <2>5. x = y => p = q
    <3>1. x = y => p.line = q.line /\ p.column = q.column
      BY <2>2, <2>3
    <3> QED BY <1>3, <3>1
  <2>6. p = q => x = y
    BY DEF x, y
  <2>7. (Before(x, y) <=> Before(p, q)) /\ (x = y <=> p = q)
    BY <2>4, <2>5, <2>6
  <2> QED BY <2>7 DEF x, y
<1> HIDE DEF shifted, P
<1>5. ASSUME NEW j \in [s : P, e : P], NEW k \in [s : P, e : P], InOrder(j, k) PROVE InOrder(g(j), g(k))
  <2>1. /\ SelectionEnd(g(j)) = shifted(SelectionEnd(j)) /\ SelectionStart(g(k)) = shifted(SelectionStart(k))
        /\ SelectionEnd(j) \in P /\ SelectionStart(k) \in P
    BY <1>4 DEF SelectionEnd, SelectionStart
  <2>2. AtOrBefore(SelectionEnd(g(j)), SelectionStart(g(k)))
    <3>1. AtOrBefore(SelectionEnd(j), SelectionStart(k))
      BY <1>5 DEF InOrder
    <3> HIDE DEF g
    <3> QED BY <1>4, <2>1, <3>1 DEF AtOrBefore
  <2>3. g(j) # g(k)
    <3>1. j.s \in P /\ j.e \in P /\ k.s \in P /\ k.e \in P /\ (j.s = k.s /\ j.e = k.e => j = k)
      OBVIOUS
    <3>2. j # k
      BY <1>5 DEF InOrder
    <3>3. g(j).s = shifted(j.s) /\ g(j).e = shifted(j.e) /\ g(k).s = shifted(k.s) /\ g(k).e = shifted(k.e)
      OBVIOUS
    <3> HIDE DEF g
    <3>4. g(j) = g(k) => shifted(j.s) = shifted(k.s) /\ shifted(j.e) = shifted(k.e)
      BY <3>3
    <3> QED BY <1>4, <3>1, <3>2, <3>4
  <2> QED BY <2>2, <2>3 DEF InOrder
<1>6. \A c \in 1..Len(w.cursors) : f[c] = g(w.cursors[c]) /\ w.cursors[c] \in [s : P, e : P]
  BY <1>1, CursorOfWork DEF P
<1>7. Len(f) = Len(w.cursors)
  BY <1>1
<1> HIDE DEF f, g
<1>8. ASSUME NEW c \in 1..(Len(f) - 1) PROVE InOrder(f[c], f[c + 1])
  <2>1. c \in 1..Len(w.cursors) /\ c + 1 \in 1..Len(w.cursors) /\ c \in 1..(Len(w.cursors) - 1)
    BY <1>1, <1>7
  <2>2. InOrder(w.cursors[c], w.cursors[c + 1])
    BY <2>1 DEF Apart
  <2> QED BY <1>5, <1>6, <2>1, <2>2
<1>9. Apart(f)
  BY <1>8 DEF Apart
<1> QED BY <1>2, <1>9

(* The cursors are marked as changed, or are those of w, or those of w     *)
(* with their lines.                                                       *)
Carried(v, w) ==
    \/ v.changed
    \/ /\ ~w.changed
       /\ v.cursors = w.cursors \/ \E d \in Int : v.cursors = CursorsShifted(w, d)

(* No operation is noted that is not in a record of the history.           *)
Written(v, w) == v.ops = <<>> \/ v.ops = w.ops

Smooth(v, w) == Carried(v, w) /\ ((Succeeds(v, w) /\ Written(v, w)) \/ Edited(v, w))

Outcome(v, w) == Failed(v) \/ Smooth(v, w)

(* What only moves, adds or drops cursors leaves the noted operations.     *)
KeepsNotes(v, w) == DOMAIN v = DOMAIN w /\ v.ops = w.ops

LEMMA MovementsKeepNotes ==
    ASSUME NEW w, WorkFields \subseteq DOMAIN w
    PROVE  \A n, select, word :
               /\ KeepsNotes(MoveUp(w, n, select), w) /\ KeepsNotes(MoveDown(w, n, select), w)
               /\ KeepsNotes(MoveLeft(w, select, word), w)
               /\ KeepsNotes(MoveRight(w, select, word), w)
               /\ KeepsNotes(MoveHome(w, select), w) /\ KeepsNotes(MoveEnd(w, select), w)
               /\ KeepsNotes(MoveTop(w, select), w) /\ KeepsNotes(MoveBottom(w, select), w)
<1>1. "ops" \in DOMAIN w
  BY DEF WorkFields
<1>2. \A k : KeepsNotes([w EXCEPT !.changed = TRUE, !.cursors = k], w)
  BY <1>1 DEF KeepsNotes
<1> TAKE n, select, word
<1>3. /\ KeepsNotes(MoveUp(w, n, select), w) /\ KeepsNotes(MoveDown(w, n, select), w)
      /\ KeepsNotes(MoveHome(w, select), w) /\ KeepsNotes(MoveEnd(w, select), w)
  BY <1>2 DEF MoveUp, MoveDown, MoveHome, MoveEnd, SetEachCursor
<1>4. KeepsNotes(MoveLeft(w, select, word), w)
  BY <1>2 DEF MoveLeft, SetEachCursor
<1>5. KeepsNotes(MoveRight(w, select, word), w)
  BY <1>2 DEF MoveRight, SetEachCursor
<1>6. KeepsNotes(MoveTop(w, select), w) /\ KeepsNotes(MoveBottom(w, select), w)
  BY <1>1 DEF MoveTop, MoveBottom, SetCursorPosition, KeepsNotes
<1> QED BY <1>3, <1>4, <1>5, <1>6

LEMMA CursorsKeepNotes ==
    ASSUME NEW w, WorkFields \subseteq DOMAIN w
    PROVE  /\ \A p, c, clear : KeepsNotes(SetCursorPosition(w, p, c, clear), w)
           /\ \A p, q, c : KeepsNotes(SetSelection(w, p, q, c), w)
           /\ KeepsNotes(AddCursor(w), w) /\ KeepsNotes(ClearExtraCursors(w), w)
           /\ KeepsNotes(ClearSelections(w), w)
           /\ \A v \in SortAndMerge(w) \cup OnCursorPositionChanged(w) : KeepsNotes(v, w)
<1>1. "ops" \in DOMAIN w
  BY DEF WorkFields
<1>2. /\ \A p, c, clear : KeepsNotes(SetCursorPosition(w, p, c, clear), w)
      /\ \A p, q, c : KeepsNotes(SetSelection(w, p, q, c), w)
  BY <1>1 DEF SetCursorPosition, SetSelection, KeepsNotes
<1>3. /\ KeepsNotes(AddCursor(w), w) /\ KeepsNotes(ClearExtraCursors(w), w)
      /\ KeepsNotes(ClearSelections(w), w)
  BY <1>1 DEF AddCursor, ClearExtraCursors, ClearSelections, KeepsNotes
<1>4. ASSUME NEW v \in SortAndMerge(w) PROVE KeepsNotes(v, w)
  <2>1. PICK u \in SortCursorsFromTopToBottom(w) : v = MergeCursorsIfPossible(u)
    BY DEF SortAndMerge
  <2>2. PICK k, first : u = [w EXCEPT !.cursors = k, !.lastAdded = first]
    BY <2>1 DEF SortCursorsFromTopToBottom
  <2>3. KeepsNotes(u, w)
    BY <1>1, <2>2 DEF KeepsNotes
  <2>4. \E m : v = [u EXCEPT !.cursors = m]
    BY <2>1 DEF MergeCursorsIfPossible
  <2> QED BY <1>1, <2>3, <2>4 DEF KeepsNotes
<1>5. ASSUME NEW v \in OnCursorPositionChanged(w) PROVE KeepsNotes(v, w)
  BY <1>4 DEF OnCursorPositionChanged, KeepsNotes
<1> QED BY <1>2, <1>3, <1>4, <1>5

LEMMA SelectingKeepsNotes ==
    ASSUME NEW w, WorkFields \subseteq DOMAIN w
    PROVE  /\ KeepsNotes(SelectAll(w), w)
           /\ \A v \in AddCursorForNextOccurrence(w) : KeepsNotes(v, w)
<1>1. \A u, v : KeepsNotes(v, u) /\ KeepsNotes(u, w) => KeepsNotes(v, w) /\ WorkFields \subseteq DOMAIN v
  BY DEF KeepsNotes
<1>2. KeepsNotes(w, w)
  BY DEF KeepsNotes
<1>3. KeepsNotes(SelectAll(w), w)
  <2> DEFINE u == ClearSelections(w)
             x == ClearExtraCursors(u)
             t == MoveTop(x, FALSE)
  <2>1. KeepsNotes(u, w)
    BY CursorsKeepNotes
  <2> HIDE DEF u
  <2>2. KeepsNotes(x, w)
    BY <1>1, <1>2, <2>1, CursorsKeepNotes
  <2> HIDE DEF x
  <2>3. KeepsNotes(t, w)
    BY <1>1, <1>2, <2>2, MovementsKeepNotes
  <2> HIDE DEF t
  <2>4. KeepsNotes(MoveBottom(t, TRUE), w)
    BY <1>1, <1>2, <2>3, MovementsKeepNotes
  <2> QED BY <2>4 DEF SelectAll, u, x, t
<1>4. ASSUME NEW v \in AddCursorForNextOccurrence(w) PROVE KeepsNotes(v, w)
  <2> DEFINE more == AddCursor(w)
  <2>1. \/ v = w \/ v = [w EXCEPT !.aborted = TRUE]
        \/ \E k : v \in SortAndMerge(AddCursorWith(w, k))
    BY DEF AddCursorForNextOccurrence
  <2>2. KeepsNotes([w EXCEPT !.aborted = TRUE], w)
    BY DEF KeepsNotes, WorkFields
  <2>3. ASSUME NEW k, v \in SortAndMerge(AddCursorWith(w, k)) PROVE KeepsNotes(v, w)
    <3> DEFINE u == AddCursorWith(w, k)
    <3>1. KeepsNotes(more, w)
      BY CursorsKeepNotes
    <3>2. u = SetSelection(more, k.s, k.e, Len(w.cursors) + 1)
      BY DEF AddCursorWith
    <3> HIDE DEF u, more
    <3>3. KeepsNotes(u, w)
      BY <1>1, <1>2, <3>1, <3>2, CursorsKeepNotes
    <3>4. v \in SortAndMerge(u) /\ WorkFields \subseteq DOMAIN u
      BY <1>1, <2>3, <3>3, <1>2 DEF u
    <3>5. KeepsNotes(v, u)
      BY <3>4, CursorsKeepNotes
    <3> QED BY <1>1, <3>3, <3>5
  <2> QED BY <1>2, <2>1, <2>2, <2>3
<1> QED BY <1>3, <1>4

LEMMA CarryingOn ==
    ASSUME NEW w
    PROVE  /\ \A v : Steady(v, w) => Carried(v, w)
           /\ \A v : v.changed => Carried(v, w)
           /\ \A u, v : Steady(u, v) /\ Steady(v, w) => Steady(u, w)
           /\ \A v : Work(v, w) => Steady(v, w)
           /\ Steady(w, w)
BY DEF Steady, Carried, Work

LEMMA ShiftCarries ==
    ASSUME NEW w, NEW noted, Steady(noted, w), NEW moved, moved.changed <=> noted.changed,
           NEW d \in Int, moved.cursors = CursorsShifted(w, d), NEW v, Steady(v, moved)
    PROVE  Carried(v, w)
BY DEF Steady, Carried

LEMMA CarriedStays ==
    ASSUME NEW v, NEW w, Carried(v, w), NEW x, x.changed <=> v.changed, x.cursors = v.cursors
    PROVE  Carried(x, w)
BY DEF Carried

LEMMA AddUndoSound ==
    ASSUME NEW w, NEW v, Sound(v), NEW after
    PROVE  /\ Sound(AddUndo(v, w, after)) /\ AddUndo(v, w, after).aborted = v.aborted
           /\ Sound(Recorded(v, w)) /\ Recorded(v, w).aborted = v.aborted
<1>1. ASSUME NEW last
      PROVE  Sound(AddUndo(v, w, last)) /\ AddUndo(v, w, last).aborted = v.aborted
  <2> DEFINE x == AddUndo(v, w, last)
  <2>1. WorkFields \subseteq DOMAIN v
    BY DEF Sound, Shaped
  <2>2. /\ DOMAIN x = DOMAIN v /\ x.lines = v.lines /\ x.cursors = v.cursors /\ x.ops = <<>>
        /\ x.clipboard = v.clipboard /\ x.lastAdded = v.lastAdded /\ x.aborted = v.aborted
    BY <2>1 DEF AddUndo, WorkFields
  <2> HIDE DEF x
  <2>3. AreOperations(x.ops)
    <3>1. x.ops = <<>> /\ Len(<<>>) = 0 /\ IsSeq(<<>>)
      BY <2>2, SmallSeqs
    <3> QED BY <3>1 DEF AreOperations
  <2> QED BY <2>2, <2>3 DEF Sound, Shaped, x
<1> QED BY <1>1 DEF Recorded

LEMMA AddUndoEdits ==
    ASSUME NEW w, Sound(w), NEW v, Succeeds(v, w), NEW after,
           AreCursors(after.cursors, v.lines), after.lastAdded \in Nat \ {0}
    PROVE  LET x == AddUndo(v, w, after)
           IN  /\ Edited(x, w) /\ x.lines = v.lines /\ x.aborted = v.aborted
               /\ x.cursors = v.cursors /\ (x.changed <=> v.changed)
               /\ Carried(v, w) => Smooth(x, w)
<1> DEFINE r == [ops |-> v.ops, before |-> State(w), after |-> after,
                 from |-> w.lines, to |-> v.lines]
           x == AddUndo(v, w, after)
<1>1. Sound(v) /\ WorkFields \subseteq DOMAIN v /\ v.undoBuffer = w.undoBuffer
      /\ v.undoIndex = w.undoIndex /\ v.dragging = w.dragging
  BY DEF Succeeds, Sound, Shaped
<1>2. Entry(r) /\ r.from = w.lines /\ r.to = v.lines /\ r.before.cursors = w.cursors
  BY <1>1 DEF Entry, State, Sound, Shaped
<1>3. /\ DOMAIN x = DOMAIN v /\ x.lines = v.lines /\ x.cursors = v.cursors /\ x.ops = <<>>
      /\ x.clipboard = v.clipboard /\ x.lastAdded = v.lastAdded /\ x.aborted = v.aborted
      /\ x.undoBuffer = Append(SubSeq(v.undoBuffer, 1, v.undoIndex), r)
      /\ x.undoIndex = v.undoIndex + 1 /\ x.dragging = v.dragging
      /\ x.changed = v.changed
  BY <1>1 DEF AddUndo, WorkFields
<1>f. Flagged(w) => Flagged(x)
  <2>1. Flagged(w) => Flagged(v)
    BY DEF Succeeds
  <2>2. Flagged(v) => Flagged(x)
    BY <1>1 DEF AddUndo, Flagged, WorkFields
  <2> QED BY <2>1, <2>2
<1> HIDE DEF x, r
<1>5. Sound(x)
  BY <1>1, AddUndoSound DEF x
<1>6. Edited(x, w)
  <2>1. x.aborted <=> w.aborted
    BY <1>3 DEF Succeeds
  <2> QED BY <1>1, <1>2, <1>3, <1>5, <1>f, <2>1 DEF Edited
<1>7. Carried(v, w) => Smooth(x, w)
  BY <1>3, <1>6, CarriedStays DEF Smooth
<1> QED BY <1>3, <1>6, <1>7 DEF x

LEMMA RecordedEdits ==
    ASSUME NEW w, Sound(w), NEW v, Succeeds(v, w)
    PROVE  LET x == Recorded(v, w)
           IN  /\ Edited(x, w) /\ x.lines = v.lines /\ x.aborted = v.aborted
               /\ x.cursors = v.cursors /\ (x.changed <=> v.changed)
               /\ Carried(v, w) => Smooth(x, w)
<1>1. AreCursors(State(v).cursors, v.lines) /\ State(v).lastAdded \in Nat \ {0}
  BY DEF State, Succeeds, Sound, Shaped
<1> QED BY <1>1, AddUndoEdits DEF Recorded

(* A failed assertion is not forgotten when the command is recorded.       *)
LEMMA RecordedOutcome ==
    ASSUME NEW w, Sound(w), NEW v, Tried(v, w)
    PROVE  Outcome(Recorded(v, w), w) /\ (Work(v, w) => Smooth(Recorded(v, w), w))
<1> DEFINE x == Recorded(v, w)
<1>1. Failed(v) \/ Work(v, w)
  BY TriedOrFailed
<1>2. Failed(v) => Failed(x)
  BY AddUndoSound DEF Failed, Tried, Sound, Shaped, WorkFields
<1>3. Work(v, w) => Smooth(x, w)
  <2>1. Work(v, w) => Succeeds(v, w) /\ Carried(v, w)
    BY WorkSucceeds, CarryingOn
  <2> QED BY <2>1, RecordedEdits
<1> HIDE DEF x
<1> QED BY <1>1, <1>2, <1>3 DEF Outcome, x

(* ChangeCurrentLinesIndentation.                                          *)
IndentationStep(w, c, increase) ==
    IF w.aborted THEN w
    ELSE IndentLines(w, Downward(LinesOf(w.cursors[c])), increase)

LEMMA IndentationStepWork ==
    ASSUME NEW b, NEW w, Work(w, b), NEW c \in 1..Len(w.cursors), NEW increase
    PROVE  Work(IndentationStep(w, c, increase), b)
<1> DEFINE L == LinesOf(w.cursors[c])
           lines == Downward(L)
<1>1. IsText(w.lines) /\ w.cursors[c] \in [s : Places(w.lines), e : Places(w.lines)]
  BY CursorOfWork DEF Work, Sound, Shaped
<1>2. L \subseteq 0..(Len(w.lines) - 1) /\ L \subseteq Nat /\ IsFiniteSet(L)
  BY <1>1, LinesOfCursor
<1> HIDE DEF L
<1>3. IsSeq(lines) /\ \A n \in 1..Len(lines) : lines[n] \in 0..(Len(w.lines) - 1)
  BY <1>2, DownwardIsSeq
<1> HIDE DEF lines
<1>4. Longer(IndentLines(w, lines, increase), b, w)
  BY <1>3, IndentLinesWork
<1> QED BY <1>4 DEF IndentationStep, Longer, lines, L

IndentEachCursor(w, increase) ==
    BottomUp(w, LAMBDA v, c :
        IndentLines(v, Downward(LinesOf(v.cursors[c])), increase))

LEMMA IndentEachCursorWork ==
    ASSUME NEW w,
           Sound(w),
           NEW increase
    PROVE  Work(IndentEachCursor(w, increase), w)
<1> DEFINE N == Len(Downward(DOMAIN w.cursors))
           Run(n, f) ==
               /\ f[0] = w
               /\ \A k \in 1..n : f[k] = IndentationStep(f[k - 1], Downward(DOMAIN w.cursors)[k], increase)
           Fine(n) ==
               /\ \E f : Run(n, f)
               /\ \A f : Run(n, f) => Work(f[n], w)
           S == {n \in Nat : n \in 0..N => Fine(n)}
<1>0. N \in Nat
  BY CursorNumbers
<1>1. 0 \in S
  <2>1. Run(0, [k \in 0..0 |-> w])
    OBVIOUS
  <2>2. ASSUME NEW f, Run(0, f) PROVE Work(f[0], w)
    BY <2>2, WorkSucceeds
  <2> QED BY <2>1, <2>2
<1>2. ASSUME NEW n \in Nat, n \in S PROVE n + 1 \in S
  <2> SUFFICES ASSUME n + 1 \in 0..N PROVE Fine(n + 1)
    OBVIOUS
  <2>1. PICK f : Run(n, f)
    BY <1>0, <1>2
  <2>2. ASSUME NEW g, \A k \in 0..n : g[k] = f[k],
               g[n + 1] = IndentationStep(f[n], Downward(DOMAIN w.cursors)[n + 1], increase)
        PROVE  Run(n + 1, g)
    <3> SUFFICES ASSUME NEW k \in 1..(n + 1)
                 PROVE g[k] = IndentationStep(g[k - 1], Downward(DOMAIN w.cursors)[k], increase)
      BY <2>1, <2>2
    <3>1. CASE k \in 1..n
      <4>1. k \in 0..n /\ k - 1 \in 0..n
        BY <3>1
      <4> QED BY <2>1, <2>2, <3>1, <4>1
    <3>2. CASE k = n + 1
      <4>1. k - 1 = n /\ n \in 0..n
        BY <3>2
      <4>2. g[k - 1] = f[n]
        BY <2>2, <4>1
      <4> QED BY <2>2, <3>2, <4>2
    <3> QED BY <3>1, <3>2
  <2>3. \E g : Run(n + 1, g)
    <3>1. PICK x : x = IndentationStep(f[n], Downward(DOMAIN w.cursors)[n + 1], increase)
      OBVIOUS
    <3> DEFINE g == [k \in 0..(n + 1) |-> IF k <= n THEN f[k] ELSE x]
    <3>2. (\A k \in 0..n : g[k] = f[k]) /\ g[n + 1] = x
      OBVIOUS
    <3> HIDE DEF g
    <3> QED BY <2>2, <3>1, <3>2
  <2>4. ASSUME NEW f1, Run(n + 1, f1) PROVE Work(f1[n + 1], w)
    <3>1. Run(n, f1) /\ n + 1 \in 1..N /\ f1[n + 1] = IndentationStep(f1[n], Downward(DOMAIN w.cursors)[n + 1], increase)
      BY <2>4
    <3>2. Work(f1[n], w)
      BY <1>0, <1>2, <3>1
    <3> HIDE DEF Run
    <3>3. Downward(DOMAIN w.cursors)[n + 1] \in 1..Len(f1[n].cursors)
      BY <3>1, <3>2, CursorNumbers DEF Work, Continues, Retains
    <3> QED BY <3>1, <3>2, <3>3, IndentationStepWork
  <2> QED BY <2>3, <2>4
<1>3. Nat \subseteq S
  BY <1>1, <1>2, SetInduction
<1>4. Fine(N)
  <2> HIDE DEF Fine
  <2> QED BY <1>0, <1>3
<1> DEFINE Pass(f) == [k \in 0..N |-> IF k = 0 THEN w
                                      ELSE IndentationStep(f[k - 1], Downward(DOMAIN w.cursors)[k], increase)]
           after == CHOOSE f : f = Pass(f)
<1>5. IndentEachCursor(w, increase) = after[N]
  BY DEF IndentEachCursor, BottomUp, Sweep, IndentationStep
<1>6. \E f : f = Pass(f)
  <2>1. PICK f : Run(N, f)
    BY <1>4
  <2> DEFINE g == [k \in 0..N |-> f[k]]
  <2>2. g = Pass(g)
    BY <1>0, <2>1
  <2> QED BY <2>2
<1>7. after = Pass(after)
  BY <1>6
<1> HIDE DEF after
<1>8. Run(N, after)
  BY <1>0, <1>7
<1> QED BY <1>4, <1>5, <1>8

LEMMA IndentationOutcome ==
    ASSUME NEW w, Sound(w), NEW increase, NEW v \in ChangeCurrentLinesIndentation(w, increase)
    PROVE  Smooth(v, w)
<1> DEFINE u == IndentEachCursor(w, increase)
<1>1. v = RecordedIndentation(u, w)
  BY DEF ChangeCurrentLinesIndentation, IndentEachCursor, IndentLines
<1>2. Work(u, w)
  BY IndentEachCursorWork
<1> HIDE DEF u
<1>3. Succeeds(u, w)
  BY <1>2, WorkSucceeds
<1>4. AreCursors(DefaultState.cursors, u.lines) /\ DefaultState.lastAdded \in Nat \ {0}
  <2> DEFINE k == Caret(At(0, 0))
  <2>1. k \in [s : Places(u.lines), e : Places(u.lines)]
    BY <1>2 DEF Work, Sound, Shaped, IsText, IsSeq, Caret, At, Places
  <2> HIDE DEF k
  <2>2. DefaultState.cursors = <<k>> /\ DefaultState.lastAdded = 1
    BY DEF DefaultState, k
  <2>3. IsSeq(<<k>>) /\ Len(<<k>>) = 1 /\ <<k>>[1] = k
    BY SmallSeqs
  <2> QED BY <2>1, <2>2, <2>3 DEF AreCursors
<1>a. Carried(u, w)
  BY <1>2, CarryingOn
<1>5. Smooth(AddUndo(u, w, DefaultState), w)
  BY <1>3, <1>4, <1>a, AddUndoEdits
<1> QED BY <1>1, <1>3, <1>5, <1>a DEF RecordedIndentation, Smooth, Written

-----------------------------------------------------------------------------
(* EnterCharacter.                                                         *)
LEMMA FirstCharacterIsIndex ==
    ASSUME NEW line, IsSeq(line)
    PROVE  /\ FirstCharacter(line) \in 0..Len(line) /\ FirstCharacter(line) \in Nat
           /\ \A m \in 1..FirstCharacter(line) : line[m] \in Blank
<1> DEFINE F == {n \in 0..Len(line) : \A m \in 1..n : line[m] \in Blank}
<1>1. Len(line) \in Nat
  BY DEF IsSeq
<1>2. 0 \in F /\ F \subseteq Nat /\ \A n \in F : n <= Len(line)
  BY <1>1
<1>3. FirstCharacter(line) = Max(F)
  BY DEF FirstCharacter
<1> HIDE DEF F
<1>4. Max(F) \in F
  BY <1>1, <1>2, MaxOfNats
<1> QED BY <1>1, <1>2, <1>3, <1>4 DEF F

LEMMA NoteTypedWork ==
    ASSUME NEW b, NEW w, Work(w, b), NEW c, NEW t \in Passage,
           NEW p, p.line \in Nat, NEW q \in Places(w.lines)
    PROVE  Work(NoteTyped(w, c, t, p, q), b)
<1> DEFINE v == SetCursorPosition(w, q, c, TRUE)
           o == Operation("Add", t, p, q)
<1>1. o.text \in Passage /\ o.start.line \in Nat
  BY DEF Operation
<1>2. Work(v, b)
  BY WorkIsLoose, SetCursorPositionWork
<1> HIDE DEF o, v
<1>3. Work(Noted(v, o), b)
  BY <1>1, <1>2, NotedWork
<1> QED BY <1>3 DEF NoteTyped, o, v

(* The same number of lines as w.                                          *)
Even(v, b, w) == Work(v, b) /\ Len(v.lines) = Len(w.lines)

RemoveBytes(w, l, i, d) ==
    Sweep(w, LAMBDA v, n : RemoveGlyphsFromLine(v, l, i, i + 1), [n \in 1..d |-> n])

AddByteStep(w, l, i, bytes, n) == AddGlyphToLine(w, l, i + n - 1, bytes[n])

AddBytes(w, l, i, bytes, numbers) ==
    Sweep(w, LAMBDA v, n : AddGlyphToLine(v, l, i + n - 1, bytes[n]), numbers)

(* The line l without n bytes after the cut i.                             *)
Left(v, w, l, i, n) ==
    /\ Len(v.lines[l + 1]) = Len(w.lines[l + 1]) - n
    /\ i \in Cuts(v.lines[l + 1])

LEMMA LeftOne ==
    ASSUME NEW v, Sound(v), NEW w, NEW l \in 0..(Len(v.lines) - 1), NEW i \in Nat, NEW n \in Nat,
           Left(v, w, l, i, n), i + 1 \in 0..Len(v.lines[l + 1]), Len(w.lines[l + 1]) \in Nat
    PROVE  Left(RemoveGlyphsFromLine(v, l, i, i + 1), w, l, i, n + 1)
<1> DEFINE line == v.lines[l + 1]
           x == RemoveGlyphsFromLine(v, l, i, i + 1)
           h == i + 1
           a == SubSeq(line, 1, i)
           c == SubSeq(line, h + 1, Len(line))
           t == x.lines[l + 1]
<1>1. line \in Line /\ IsSeq(v.lines) /\ l + 1 \in 1..Len(v.lines) /\ h \in 0..Len(line)
  <2>1. line \in Line
    BY LineOfWork
  <2>2. IsSeq(v.lines) /\ Len(v.lines) \in Nat
    BY DomainOfWork
  <2>3. l + 1 \in 1..Len(v.lines)
    BY <2>2
  <2> QED BY <2>1, <2>2, <2>3
<1>2. t = a \o c
  <2>1. Replaced(x, v, l, a \o c)
    BY ChangedLines DEF Sound
  <2> HIDE DEF x, a, c
  <2>2. \A k \in 1..Len(v.lines) : x.lines[k] = IF k = l + 1 THEN a \o c ELSE v.lines[k]
    BY <1>1, <2>1, ReplacedLines
  <2> QED BY <1>1, <2>2
<1>3. IsSeq(line) /\ Len(line) \in Nat /\ i \in 0..Len(line) /\ i < Len(line)
  <2>1. IsSeq(line) /\ Len(line) \in Nat
    BY <1>1, LineParts
  <2> HIDE DEF line
  <2> QED BY <1>1, <2>1
<1> HIDE DEF line, h, t
<1>4. /\ IsSeq(a) /\ Len(a) = i /\ \A k \in 1..i : a[k] = line[k]
      /\ IsSeq(c) /\ Len(c) = Len(line) - h
  <2>1. /\ IsSeq(SubSeq(line, 1, i)) /\ Len(SubSeq(line, 1, i)) = i
        /\ \A k \in 1..i : SubSeq(line, 1, i)[k] = line[k]
    <3>1. /\ IsSeq(SubSeq(line, 1, i)) /\ Len(SubSeq(line, 1, i)) = IF 1 <= i THEN 1 + i - 1 ELSE 0
          /\ \A k \in 1..Len(SubSeq(line, 1, i)) : SubSeq(line, 1, i)[k] = line[k + 1 - 1]
      BY <1>3, SubSeqIsSeq
    <3> DEFINE y == SubSeq(line, 1, i)
    <3> HIDE DEF y
    <3>2. /\ IsSeq(y) /\ Len(y) = IF 1 <= i THEN 1 + i - 1 ELSE 0
          /\ \A k \in 1..Len(y) : y[k] = line[k + 1 - 1]
      BY <3>1 DEF y
    <3>3. Len(y) = i /\ \A k \in 1..i : k + 1 - 1 = k
      BY <3>2
    <3>4. IsSeq(y) /\ Len(y) = i /\ \A k \in 1..i : y[k] = line[k]
      BY <3>2, <3>3
    <3> QED BY <3>4 DEF y
  <2>2. IsSeq(SubSeq(line, h + 1, Len(line))) /\ Len(SubSeq(line, h + 1, Len(line))) = Len(line) - h
    <3> DEFINE m == h + 1
               len == Len(line)
    <3>1. m \in Int /\ len \in Int /\ h \in 0..len
      BY <1>1, <1>3
    <3> HIDE DEF m, len
    <3>2. IsSeq(SubSeq(line, m, len)) /\ Len(SubSeq(line, m, len)) = IF m <= len THEN 1 + len - m ELSE 0
      BY <3>1, SubSeqIsSeq
    <3>3. (IF m <= len THEN 1 + len - m ELSE 0) = len - h
      BY <3>1 DEF m
    <3>4. IsSeq(SubSeq(line, m, len)) /\ Len(SubSeq(line, m, len)) = len - h
      BY <3>2, <3>3
    <3> QED BY <3>4 DEF m, len
  <2> QED BY <2>1, <2>2
<1> HIDE DEF a, c
<1>5. /\ IsSeq(t) /\ Len(t) = Len(a) + Len(c)
      /\ \A k \in 1..(Len(a) + Len(c)) : t[k] = IF k <= Len(a) THEN a[k] ELSE c[k - Len(a)]
  BY <1>2, <1>4, ConcatIsSeq
<1>6. Len(t) = Len(line) - 1 /\ i \in 0..Len(t)
  BY <1>3, <1>4, <1>5 DEF h
<1>7. i = 0 \/ t[i] # LeadByte
  <2> SUFFICES ASSUME i # 0 PROVE t[i] # LeadByte
    OBVIOUS
  <2>1. i \in 1..i /\ i \in 1..(Len(a) + Len(c)) /\ i <= Len(a)
    BY <1>3, <1>4, <1>5, <1>6
  <2>2. t[i] = line[i]
    BY <1>4, <1>5, <2>1
  <2> QED BY <2>2 DEF Left, Cuts, line
<1>8. Len(line) = Len(w.lines[l + 1]) - n
  BY DEF Left, line
<1>9. Len(t) = Len(w.lines[l + 1]) - (n + 1)
  BY <1>3, <1>6, <1>8
<1> QED BY <1>6, <1>7, <1>9 DEF Left, Cuts, t

LEMMA RemoveBytesWork ==
    ASSUME NEW b,
           NEW w,
           Work(w, b),
           NEW l \in 0..(Len(w.lines) - 1),
           NEW i \in Cuts(w.lines[l + 1]),
           NEW d \in Nat, i + d <= Len(w.lines[l + 1])
    PROVE  Even(RemoveBytes(w, l, i, d), b, w) /\ Left(RemoveBytes(w, l, i, d), w, l, i, d)
<1> DEFINE N == Len([j \in 1..d |-> j])
           Run(n, f) ==
               /\ f[0] = w
               /\ \A k \in 1..n : f[k] = RemoveGlyphsFromLine(f[k - 1], l, i, i + 1)
           Fine(n) ==
               /\ \E f : Run(n, f)
               /\ \A f : Run(n, f) => Even(f[n], b, w) /\ Left(f[n], w, l, i, n)
           S == {n \in Nat : n \in 0..N => Fine(n)}
<1>0. N \in Nat /\ N = d
  <2> DEFINE s == [j \in 1..d |-> j]
  <2>1. s = [j \in 1..d |-> s[j]]
    OBVIOUS
  <2> HIDE DEF s
  <2>2. Len(s) = d
    BY <2>1, ListIsSeq
  <2> QED BY <2>2 DEF s
<1>a. i \in Nat /\ Len(w.lines[l + 1]) \in Nat
  <2>1. w.lines[l + 1] \in Line
    BY LineOfWork DEF Work
  <2> QED BY <2>1, LineParts, EndsAreCuts
<1>1. 0 \in S
  <2>1. Run(0, [k \in 0..0 |-> w])
    OBVIOUS
  <2>2. ASSUME NEW f, Run(0, f) PROVE Even(f[0], b, w) /\ Left(f[0], w, l, i, 0)
    BY <1>a, <2>2 DEF Even, Left
  <2> QED BY <2>1, <2>2
<1>2. ASSUME NEW n \in Nat, n \in S PROVE n + 1 \in S
  <2> SUFFICES ASSUME n + 1 \in 0..N PROVE Fine(n + 1)
    OBVIOUS
  <2>1. PICK f : Run(n, f)
    BY <1>0, <1>2
  <2>2. ASSUME NEW g, \A k \in 0..n : g[k] = f[k], g[n + 1] = RemoveGlyphsFromLine(f[n], l, i, i + 1)
        PROVE  Run(n + 1, g)
    <3> SUFFICES ASSUME NEW k \in 1..(n + 1) PROVE g[k] = RemoveGlyphsFromLine(g[k - 1], l, i, i + 1)
      BY <2>1, <2>2
    <3>1. CASE k \in 1..n
      <4>1. k \in 0..n /\ k - 1 \in 0..n
        BY <3>1
      <4> QED BY <2>1, <2>2, <3>1, <4>1
    <3>2. CASE k = n + 1
      <4>1. k - 1 = n /\ n \in 0..n
        BY <3>2
      <4>2. g[k - 1] = f[n]
        BY <2>2, <4>1
      <4> QED BY <2>2, <3>2, <4>2
    <3> QED BY <3>1, <3>2
  <2>3. \E g : Run(n + 1, g)
    <3>1. PICK x : x = RemoveGlyphsFromLine(f[n], l, i, i + 1)
      OBVIOUS
    <3> DEFINE g == [k \in 0..(n + 1) |-> IF k <= n THEN f[k] ELSE x]
    <3>2. (\A k \in 0..n : g[k] = f[k]) /\ g[n + 1] = x
      OBVIOUS
    <3> HIDE DEF g
    <3> QED BY <2>2, <3>1, <3>2
  <2>4. ASSUME NEW f1, Run(n + 1, f1) PROVE Even(f1[n + 1], b, w) /\ Left(f1[n + 1], w, l, i, n + 1)
    <3>1. Run(n, f1) /\ n + 1 \in 1..N /\ f1[n + 1] = RemoveGlyphsFromLine(f1[n], l, i, i + 1)
      BY <2>4
    <3>2. Even(f1[n], b, w) /\ Left(f1[n], w, l, i, n)
      BY <1>0, <1>2, <3>1
    <3> HIDE DEF Run
    <3>3. Work(f1[n], b) /\ l \in 0..(Len(f1[n].lines) - 1)
      BY <3>2 DEF Even
    <3>4. i \in Cuts(f1[n].lines[l + 1]) /\ i + 1 \in 0..Len(f1[n].lines[l + 1])
      BY <1>0, <1>a, <3>1, <3>2 DEF Left
    <3>5. Even(RemoveGlyphsFromLine(f1[n], l, i, i + 1), b, w)
      BY <3>2, <3>3, <3>4, RemoveGlyphsWork DEF Even
    <3>6. Left(RemoveGlyphsFromLine(f1[n], l, i, i + 1), w, l, i, n + 1)
      BY <1>a, <3>2, <3>3, <3>4, LeftOne DEF Work
    <3> QED BY <3>1, <3>5, <3>6
  <2> QED BY <2>3, <2>4
<1>3. Nat \subseteq S
  BY <1>1, <1>2, SetInduction
<1>4. Fine(N)
  <2> HIDE DEF Fine
  <2> QED BY <1>0, <1>3
<1> DEFINE Pass(f) == [k \in 0..N |-> IF k = 0 THEN w ELSE RemoveGlyphsFromLine(f[k - 1], l, i, i + 1)]
           after == CHOOSE f : f = Pass(f)
<1>5. RemoveBytes(w, l, i, d) = after[N]
  BY DEF RemoveBytes, Sweep
<1>6. \E f : f = Pass(f)
  <2>1. PICK f : Run(N, f)
    BY <1>4
  <2> DEFINE g == [k \in 0..N |-> f[k]]
  <2>2. g = Pass(g)
    BY <1>0, <2>1
  <2> QED BY <2>2
<1>7. after = Pass(after)
  BY <1>6
<1> HIDE DEF after
<1>8. Run(N, after)
  BY <1>0, <1>7
<1> QED BY <1>0, <1>4, <1>5, <1>8

(* The line l while bytes are typed into it: g went in last, before i.      *)
Typed(v, b, w, l, i, g) ==
    /\ Putting([w |-> v, line |-> l, index |-> i], b, Len(w.lines), g)
    /\ Len(v.lines) = Len(w.lines) /\ Len(w.lines) \in Nat

LEMMA TypedByte ==
    ASSUME NEW b, NEW v, NEW w, NEW l, NEW i \in Nat, NEW g, Typed(v, b, w, l, i, g),
           NEW h \in Glyph, g = LeadByte => h = NextByte
    PROVE  Typed(AddGlyphToLine(v, l, i, h), b, w, l, i + 1, h)
<1> DEFINE a == [w |-> v, line |-> l, index |-> i]
           n == Len(w.lines)
           x == AddGlyphToLine(v, l, i, h)
           c == [w |-> x, line |-> l, index |-> i + 1]
<1>1. Putting(a, b, n, g) /\ Len(v.lines) = n /\ n \in Nat
  BY DEF Typed
<1>2. a.w = v /\ a.line = l /\ a.index = i /\ h # NewLine
  BY GlyphAssumption
<1>3. InsertByte(a, h) = c
  BY <1>2 DEF InsertByte
<1> HIDE DEF a, c, n
<1>4. Putting(c, b, n, h)
  BY <1>1, <1>3, PuttingByte
<1>5. Shaped(v) /\ l \in 0..(Len(v.lines) - 1) /\ i \in 0..Len(v.lines[l + 1])
  BY <1>1, <1>2 DEF Putting, Inserting, Shape
<1>6. Len(x.lines) = Len(v.lines)
  <2>1. OneMore(x, v, l, i, h)
    BY <1>5, GlyphAdded
  <2> QED BY <2>1 DEF OneMore
<1> QED BY <1>1, <1>4, <1>6 DEF Typed, c, n

LEMMA TypedIsEven ==
    ASSUME NEW b, NEW v, NEW w, NEW l, NEW i, NEW g, Typed(v, b, w, l, i, g), g # LeadByte
    PROVE  Even(v, b, w)
<1> DEFINE a == [w |-> v, line |-> l, index |-> i]
<1>1. Putting(a, b, Len(w.lines), g) /\ Len(v.lines) = Len(w.lines) /\ Len(w.lines) \in Nat
  BY DEF Typed
<1>2. a.w = v
  OBVIOUS
<1> HIDE DEF a
<1> QED BY <1>1, <1>2, PuttingIsWork DEF Even

LEMMA AddBytesWork ==
    ASSUME NEW b,
           NEW w,
           Work(w, b),
           NEW l \in 0..(Len(w.lines) - 1),
           NEW i \in Cuts(w.lines[l + 1]),
           NEW bytes \in Line, bytes # <<>>,
           NEW numbers,
           IsSeq(numbers), Len(numbers) = Len(bytes),
           \A k \in 1..Len(numbers) : numbers[k] = k
    PROVE  Even(AddBytes(w, l, i, bytes, numbers), b, w)
<1> DEFINE N == Len(numbers)
           Run(n, f) ==
               /\ f[0] = w
               /\ \A k \in 1..n : f[k] = AddByteStep(f[k - 1], l, i, bytes, numbers[k])
           ByteBefore(n) == IF n = 0 THEN NewLine ELSE bytes[n]
           Fine(n) ==
               /\ \E f : Run(n, f)
               /\ \A f : Run(n, f) => Typed(f[n], b, w, l, i + n, ByteBefore(n))
           S == {n \in Nat : n \in 0..N => Fine(n)}
<1>0. N \in Nat
  BY DEF IsSeq
<1>a. /\ IsSeq(bytes) /\ N > 0 /\ bytes[N] # LeadByte
      /\ \A k \in 1..N : bytes[k] \in Glyph
      /\ \A k \in 1..N : bytes[k] = LeadByte => bytes[k + 1] = NextByte
  <2>1. bytes \in Passage /\ \A k \in 1..Len(bytes) : bytes[k] \in Glyph
    BY LineIsPassage DEF Line
  <2> QED BY <2>1, PassageBytes
<1>b. w.lines[l + 1] \in Line /\ i \in Nat /\ i \in 0..Len(w.lines[l + 1])
      /\ (i = 0 \/ w.lines[l + 1][i] # LeadByte)
  <2>1. w.lines[l + 1] \in Line
    BY LineOfWork DEF Work
  <2> QED BY <2>1, EndsAreCuts DEF Cuts
<1>c. Typed(w, b, w, l, i, NewLine)
  <2> DEFINE a == [w |-> w, line |-> l, index |-> i]
             n == Len(w.lines)
  <2>1. Shape(w, b) /\ n \in Nat /\ \A m \in 1..n : w.lines[m] \in Line
    BY WorkIsShape, DomainOfWork DEF Work, Sound
  <2>2. w.lines[l + 1] \in Seq(Glyph) /\ WholeBut(w.lines[l + 1], i)
    BY <1>b, WholeStarts DEF Line
  <2>3. a.w = w /\ a.line = l /\ a.index = i
    OBVIOUS
  <2> HIDE DEF a
  <2>4. Inserting(a, b, n)
    BY <1>b, <2>1, <2>3 DEF Inserting
  <2>5. i > 0 /\ w.lines[l + 1][i] = LeadByte => NewLine = LeadByte
    BY <1>b
  <2>6. Putting(a, b, n, NewLine)
    BY <1>b, <2>1, <2>2, <2>3, <2>4, <2>5 DEF Putting
  <2> QED BY <2>6 DEF Typed, a
<1>1. 0 \in S
  <2>1. Run(0, [k \in 0..0 |-> w])
    OBVIOUS
  <2>2. ASSUME NEW f, Run(0, f) PROVE Typed(f[0], b, w, l, i + 0, ByteBefore(0))
    <3>1. i + 0 = i /\ f[0] = w
      BY <1>b, <2>2
    <3> QED BY <1>c, <3>1
  <2> QED BY <2>1, <2>2
<1>2. ASSUME NEW n \in Nat, n \in S PROVE n + 1 \in S
  <2> SUFFICES ASSUME n + 1 \in 0..N PROVE Fine(n + 1)
    OBVIOUS
  <2>1. PICK f : Run(n, f)
    BY <1>0, <1>2
  <2>2. ASSUME NEW g, \A k \in 0..n : g[k] = f[k], g[n + 1] = AddByteStep(f[n], l, i, bytes, numbers[n + 1])
        PROVE  Run(n + 1, g)
    <3> SUFFICES ASSUME NEW k \in 1..(n + 1) PROVE g[k] = AddByteStep(g[k - 1], l, i, bytes, numbers[k])
      BY <2>1, <2>2
    <3>1. CASE k \in 1..n
      <4>1. k \in 0..n /\ k - 1 \in 0..n
        BY <3>1
      <4> QED BY <2>1, <2>2, <3>1, <4>1
    <3>2. CASE k = n + 1
      <4>1. k - 1 = n /\ n \in 0..n
        BY <3>2
      <4>2. g[k - 1] = f[n]
        BY <2>2, <4>1
      <4> QED BY <2>2, <3>2, <4>2
    <3> QED BY <3>1, <3>2
  <2>3. \E g : Run(n + 1, g)
    <3>1. PICK x : x = AddByteStep(f[n], l, i, bytes, numbers[n + 1])
      OBVIOUS
    <3> DEFINE g == [k \in 0..(n + 1) |-> IF k <= n THEN f[k] ELSE x]
    <3>2. (\A k \in 0..n : g[k] = f[k]) /\ g[n + 1] = x
      OBVIOUS
    <3> HIDE DEF g
    <3> QED BY <2>2, <3>1, <3>2
  <2>4. ASSUME NEW f1, Run(n + 1, f1) PROVE Typed(f1[n + 1], b, w, l, i + (n + 1), ByteBefore(n + 1))
    <3>1. Run(n, f1) /\ n + 1 \in 1..N /\ f1[n + 1] = AddByteStep(f1[n], l, i, bytes, numbers[n + 1])
      BY <2>4
    <3>2. Typed(f1[n], b, w, l, i + n, ByteBefore(n))
      BY <1>0, <1>2, <3>1
    <3>3. /\ i + n \in Nat /\ i + (n + 1) = (i + n) + 1 /\ i + (n + 1) - 1 = i + n
          /\ ByteBefore(n + 1) = bytes[n + 1] /\ numbers[n + 1] = n + 1
      <4>1. n + 1 # 0 /\ n + 1 \in 1..Len(numbers)
        BY <3>1
      <4>2. ByteBefore(n + 1) = bytes[n + 1] /\ numbers[n + 1] = n + 1
        BY <4>1
      <4> HIDE DEF ByteBefore, N
      <4> QED BY <1>b, <4>2
    <3>4. ByteBefore(n) = LeadByte => bytes[n + 1] = NextByte
      <4>1. CASE n = 0
        BY <4>1, KeysArePassages
      <4>2. CASE n # 0
        <5>1. n \in 1..N
          BY <1>0, <3>1, <4>2
        <5> QED BY <1>a, <4>2, <5>1
      <4> QED BY <4>1, <4>2
    <3>5. bytes[n + 1] \in Glyph
      BY <1>a, <3>1
    <3>6. f1[n + 1] = AddGlyphToLine(f1[n], l, i + n, bytes[n + 1])
      BY <3>1, <3>3 DEF AddByteStep
    <3> HIDE DEF Run, ByteBefore
    <3>7. Typed(AddGlyphToLine(f1[n], l, i + n, bytes[n + 1]), b, w, l, (i + n) + 1, bytes[n + 1])
      BY <3>2, <3>3, <3>4, <3>5, TypedByte
    <3> QED BY <3>3, <3>6, <3>7
  <2> QED BY <2>3, <2>4
<1>3. Nat \subseteq S
  BY <1>1, <1>2, SetInduction
<1>4. Fine(N)
  <2> HIDE DEF Fine
  <2> QED BY <1>0, <1>3
<1> DEFINE Pass(f) == [k \in 0..N |-> IF k = 0 THEN w ELSE AddByteStep(f[k - 1], l, i, bytes, numbers[k])]
           after == CHOOSE f : f = Pass(f)
<1>5. AddBytes(w, l, i, bytes, numbers) = after[N]
  BY DEF AddBytes, Sweep, AddByteStep
<1>6. \E f : f = Pass(f)
  <2>1. PICK f : Run(N, f)
    BY <1>4
  <2> DEFINE g == [k \in 0..N |-> f[k]]
  <2>2. g = Pass(g)
    BY <1>0, <2>1
  <2> QED BY <2>2
<1>7. after = Pass(after)
  BY <1>6
<1> HIDE DEF after
<1>8. Run(N, after)
  BY <1>0, <1>7
<1>9. Typed(after[N], b, w, l, i + N, bytes[N])
  BY <1>0, <1>4, <1>8, <1>a
<1>10. Even(after[N], b, w)
  BY <1>9, <1>a, TypedIsEven
<1> QED BY <1>5, <1>10

LEMMA OverwrittenWork ==
    ASSUME NEW b, NEW w, Work(w, b), NEW c \in 1..Len(w.cursors),
           NEW p \in Places(w.lines), NEW i \in Cuts(w.lines[p.line + 1])
    PROVE  /\ Even(Overwritten(w, c, p, i), b, w)
           /\ i \in Cuts(Overwritten(w, c, p, i).lines[p.line + 1])
<1> DEFINE line == w.lines[p.line + 1]
           n == UTF8CharLength(line[i + 1])
           last == Min({i + n, Len(line)})
           d == last - i
           end == At(p.line, GetCharacterColumn(w.lines, p.line, i + n))
           removed == RemoveBytes(w, p.line, i, d)
           o == Operation("Delete", SubSeq(line, i + 1, last), w.cursors[c].e, end)
           x == Overwritten(w, c, p, i)
<1>1. p.line \in 0..(Len(w.lines) - 1)
  BY DEF Places
<1>2. line \in Line /\ Len(line) \in Nat /\ i \in 0..Len(line) /\ (i = 0 \/ line[i] # LeadByte)
  <2>1. line \in Line
    BY <1>1, LineOfWork DEF Work
  <2> QED BY <2>1, LineParts DEF Cuts
<1>3. CASE ~(w.overwrite /\ i < Len(line))
  <2>1. x = w
    BY <1>3 DEF Overwritten
  <2> QED BY <2>1 DEF Even
<1>4. CASE w.overwrite /\ i < Len(line)
  <2>1. x = Noted(removed, o)
    BY <1>4 DEF Overwritten, RemoveBytes
  <2>2. n \in {1, 2} /\ (n = 1 => line[i + 1] # LeadByte) /\ (n = 2 => line[i + 1] = LeadByte)
    BY DEF UTF8CharLength
  <2>3. i + 1 \in 1..Len(line)
    BY <1>2, <1>4
  <2>4. i + n <= Len(line) /\ (i + n = Len(line) \/ line[i + n] # LeadByte)
    <3>1. CASE n = 1
      <4> HIDE DEF n, line
      <4> QED BY <2>2, <2>3, <3>1
    <3>2. CASE n = 2
      <4>1. Whole(line) /\ DOMAIN line = 1..Len(line)
        BY <1>2, LineParts DEF IsSeq
      <4>2. line[i + 1] = LeadByte
        BY <2>2, <3>2
      <4> HIDE DEF n, line
      <4>3. (i + 1) + 1 \in 1..Len(line) /\ line[(i + 1) + 1] = NextByte
        BY <2>3, <4>1, <4>2 DEF Whole
      <4>4. (i + 1) + 1 = i + n
        BY <1>2, <3>2
      <4> QED BY <4>3, <4>4, KeysArePassages
    <3> QED BY <2>2, <3>1, <3>2
  <2>5. last = i + n /\ d = n
    <3>1. i + n \in Int /\ Len(line) \in Int
      BY <1>2, <2>2
    <3> DEFINE m == i + n
               len == Len(line)
    <3>2. m \in Int /\ len \in Int /\ m <= len
      BY <2>4, <3>1
    <3> HIDE DEF m, len
    <3>3. Min({m, len}) = m
      BY <3>2, MinOfTwo
    <3>4. last = m
      BY <3>3 DEF m, len
    <3> HIDE DEF last, n
    <3>5. m - i = n
      BY <1>2, <2>2 DEF m
    <3> QED BY <3>4, <3>5 DEF m
  <2>6. o.text \in Passage
    <3>1. o.text = SubSeq(line, i + 1, last)
      BY DEF Operation
    <3> DEFINE h == i + 1
               m == i + n
    <3>2. /\ h \in Int /\ m \in Int /\ 1 <= h /\ m <= Len(line)
          /\ (h <= m => m = Len(line) \/ line[m] # LeadByte)
      <4> HIDE DEF n, line
      <4> QED BY <1>2, <2>2, <2>4
    <3> HIDE DEF line, h, m, last, n, o
    <3>3. line \in Seq(Glyph) /\ Whole(line) /\ IsSeq(line)
      BY <1>2, LineParts DEF Line
    <3>4. SubSeq(line, h, m) \in Line
      BY <3>2, <3>3, SubSeqInSeq, SubSeqWhole DEF Line
    <3>5. SubSeq(line, h, m) \in Passage
      BY <3>4, LineIsPassage
    <3> QED BY <2>5, <3>1, <3>5 DEF h, m
  <2> HIDE DEF o
  <2>7. Even(removed, b, w) /\ Left(removed, w, p.line, i, d)
    <3>1. d \in Nat /\ i + d <= Len(line)
      BY <2>2, <2>4, <2>5
    <3> DEFINE l == p.line
    <3>2. /\ l \in 0..(Len(w.lines) - 1) /\ i \in Cuts(w.lines[l + 1])
          /\ i + d <= Len(w.lines[l + 1]) /\ d \in Nat
      BY <1>1, <3>1
    <3> HIDE DEF d, l
    <3>3. Even(RemoveBytes(w, l, i, d), b, w) /\ Left(RemoveBytes(w, l, i, d), w, l, i, d)
      BY <3>2, RemoveBytesWork
    <3> QED BY <3>3 DEF l
  <2> HIDE DEF removed, x
  <2>9. o.start.line \in Nat
    <3>1. w.cursors[c].e \in Places(w.lines)
      BY CursorOfWork DEF Work
    <3> QED BY <3>1 DEF o, Operation, Places
  <2>8. Work(x, b) /\ x.lines = removed.lines
    BY <2>1, <2>6, <2>7, <2>9, NotedWork DEF Even
  <2> QED BY <2>7, <2>8 DEF Even, Left, x
<1> QED BY <1>3, <1>4

LEMMA EnterAtWork ==
    ASSUME NEW b, NEW w, Work(w, b), NEW c \in 1..Len(w.cursors),
           NEW p \in Places(w.lines), NEW i \in Cuts(w.lines[p.line + 1]),
           NEW bytes \in Line, bytes # <<>>
    PROVE  Work(EnterAt(w, c, p, i, bytes), b)
<1> DEFINE numbers == [n \in DOMAIN bytes |-> n]
           u == Overwritten(w, c, p, i)
           v == AddBytes(u, p.line, i, bytes, numbers)
           q == At(p.line, GetCharacterColumn(v.lines, p.line, i + Len(bytes)))
<1>1. IsSeq(numbers) /\ Len(numbers) = Len(bytes) /\ \A k \in 1..Len(numbers) : numbers[k] = k
  <2>1. numbers = [n \in 1..Len(bytes) |-> numbers[n]] /\ Len(bytes) \in Nat
    BY LineParts DEF IsSeq
  <2>2. \A n \in 1..Len(bytes) : numbers[n] = n
    BY LineParts DEF IsSeq
  <2> HIDE DEF numbers
  <2> QED BY <2>1, <2>2, ListIsSeq
<1>2. EnterAt(w, c, p, i, bytes) = NoteTyped(v, c, bytes, p, q)
  BY DEF EnterAt, AddBytes, NoteBytes
<1> HIDE DEF numbers
<1>3. Even(u, b, w) /\ i \in Cuts(u.lines[p.line + 1])
  BY OverwrittenWork
<1> HIDE DEF u
<1>4. Work(u, b) /\ p.line \in 0..(Len(u.lines) - 1)
  BY <1>3 DEF Even, Places
<1>5. Even(v, b, u)
  BY <1>1, <1>3, <1>4, AddBytesWork
<1> HIDE DEF v
<1>6. p.line \in 0..(Len(v.lines) - 1) /\ IsText(v.lines) /\ Work(v, b)
  BY <1>4, <1>5 DEF Even, Work, Sound, Shaped
<1>a. i + Len(bytes) \in Int
  BY LineParts DEF Cuts
<1>7. q \in Places(v.lines)
  BY <1>6, <1>a, ColumnIsPlace
<1> HIDE DEF q
<1>8. bytes \in Passage
  BY LineIsPassage
<1>9. p.line \in Nat
  BY DEF Places
<1> QED BY <1>2, <1>6, <1>7, <1>8, <1>9, NoteTypedWork

LEMMA BrokenAtWork ==
    ASSUME NEW b, NEW w, Work(w, b), NEW p \in Places(w.lines), NEW i \in Cuts(w.lines[p.line + 1]),
           NEW blanks \in Nat, SubSeq(w.lines[p.line + 1], 1, blanks) \in Line,
           Len(SubSeq(w.lines[p.line + 1], 1, blanks)) = blanks
    PROVE  LET v == BrokenAt(w, p, i, blanks)
           IN  Work(v, b) /\ Len(v.lines) = Len(w.lines) + 1
<1> DEFINE n == Len(w.lines)
           line == w.lines[p.line + 1]
           start == SubSeq(line, 1, blanks)
           rest == SubSeq(line, i + 1, Len(line))
           x == InsertLine(w, p.line + 1)
           opened == [x EXCEPT !.lines[p.line + 2] = start, !.fresh[p.line + 2] = (blanks = 0)]
           filled == AddGlyphsToLine(opened, p.line + 1, blanks, rest)
<1>1. IsText(w.lines) /\ p.line \in 0..(n - 1) /\ n \in Nat
  BY DomainOfWork DEF Work, Sound, Shaped, Places
<1>2. line \in Line /\ rest \in Line /\ start \in Line /\ Len(start) = blanks
  <2>1. line \in Line
    BY <1>1, LineOfWork DEF Work
  <2>2. i \in 0..Len(line)
    BY DEF Cuts
  <2> QED BY <2>1, <2>2, LineParts
<1>3. IsSeq(start)
  BY <1>2, LineParts
<1>4. BrokenAt(w, p, i, blanks) = RemoveRestOfLine(filled, p.line, i)
  BY DEF BrokenAt
<1> HIDE DEF start, rest
<1>5. p.line + 1 \in 0..n
  BY <1>1
<1>6. /\ Work(x, b) /\ Len(x.lines) = n + 1
      /\ x.lines[p.line + 1] = line
  <2> DEFINE m == p.line + 1
  <2>1. m \in 0..Len(w.lines) /\ m \in 1..m
    BY <1>1
  <2> HIDE DEF m
  <2>2. Work(InsertLine(w, m), b) /\ Len(InsertLine(w, m).lines) = Len(w.lines) + 1
    BY <2>1, InsertLineWork
  <2>3. InsertLine(w, m).lines[m] = w.lines[m]
    BY <2>1, InsertedLine DEF Work, Sound
  <2> QED BY <2>2, <2>3 DEF m
<1> HIDE DEF x, n
<1>7. /\ Sound(x) /\ WorkFields \subseteq DOMAIN x /\ IsText(x.lines)
      /\ AreCursors(x.cursors, x.lines) /\ x.lines \in Seq(Line)
  BY <1>6 DEF Work, Sound, Shaped
<1>8. /\ Work(opened, b) /\ Len(opened.lines) = n + 1
      /\ opened.lines[p.line + 2] = start /\ opened.lines[p.line + 1] = line
  <2> DEFINE l == p.line + 1
             new == [x.lines EXCEPT ![l + 1] = start]
             marks == [x.fresh EXCEPT ![p.line + 2] = (blanks = 0)]
  <2>1. opened.lines = [x.lines EXCEPT ![p.line + 2] = start] /\ opened.cursors = x.cursors
        /\ Beside(opened, x) /\ opened.changed = x.changed
    BY <1>7 DEF Beside, WorkFields
  <2>2. l + 1 = p.line + 2 /\ l \in 0..(Len(x.lines) - 1) /\ l + 1 \in 1..Len(x.lines)
        /\ p.line + 1 \in 1..Len(x.lines) /\ l + 1 # p.line + 1
    BY <1>1, <1>6
  <2>f. Flagged(x) => Flagged(opened)
    <3> SUFFICES ASSUME Flagged(x) PROVE Flagged(opened)
      OBVIOUS
    <3>1. marks \in Seq(BOOLEAN) /\ Len(marks) = Len(x.fresh)
      <4>1. x.fresh \in Seq(BOOLEAN) /\ IsSeq(x.fresh)
        BY InSeq DEF Flagged
      <4>2. (blanks = 0) \in BOOLEAN
        OBVIOUS
      <4> DEFINE g == (blanks = 0)
                 k == p.line + 2
      <4>3. marks = [x.fresh EXCEPT ![k] = g]
        OBVIOUS
      <4>4. g \in BOOLEAN
        BY <4>2
      <4> HIDE DEF g, k, marks
      <4>5. marks \in Seq(BOOLEAN)
        BY <4>1, <4>3, <4>4, ExceptInSeq
      <4>6. Len(marks) = Len(x.fresh)
        BY <4>1, <4>3, ExceptIsSeq
      <4> QED BY <4>5, <4>6
    <3>2. opened.fresh = marks
      BY <1>7 DEF WorkFields
    <3>3. Len(opened.lines) = Len(x.lines)
      <4>1. IsSeq(x.lines)
        BY <1>7 DEF IsText
      <4> QED BY <2>1, <4>1, ExceptIsSeq
    <3>4. /\ opened.colorMin = x.colorMin /\ opened.colorMax = x.colorMax /\ opened.scan = x.scan
          /\ opened.changed = x.changed /\ opened.dragging = x.dragging
          /\ opened.overwrite = x.overwrite /\ opened.aborted = x.aborted
      BY <1>7 DEF WorkFields
    <3> HIDE DEF opened, marks
    <3> QED BY <3>1, <3>2, <3>3, <3>4 DEF Flagged
  <2> HIDE DEF l
  <2>3. opened.lines = new
    BY <2>1, <2>2
  <2> HIDE DEF opened
  <2>4. IsText(new) /\ Len(new) = Len(x.lines)
    BY <1>3, <1>7, <2>2, TextWithLine
  <2>b. new \in Seq(Line)
    BY <1>2, <1>7, ExceptInSeq
  <2>c. new[l + 1] = start /\ new[p.line + 1] = line
    <3>1. IsSeq(x.lines)
      BY <1>7 DEF IsText
    <3>2. \A k \in 1..Len(x.lines) : new[k] = IF k = l + 1 THEN start ELSE x.lines[k]
      BY <3>1, ExceptIsSeq
    <3> HIDE DEF new
    <3> QED BY <1>6, <2>2, <3>2
  <2> HIDE DEF new
  <2>5. Places(new) = Places(x.lines)
    BY <2>4, SamePlaces
  <2>6. AreCursors(opened.cursors, opened.lines)
    BY <1>7, <2>1, <2>3, <2>5 DEF AreCursors
  <2>a. Steady(opened, x)
    BY <2>1 DEF Steady
  <2>7. Work(opened, b)
    BY <1>6, <2>1, <2>3, <2>4, <2>6, <2>a, <2>b, <2>f, ChangedWork
  <2> QED BY <1>6, <2>2, <2>3, <2>4, <2>7, <2>c
<1> HIDE DEF opened
<1>9. /\ p.line + 1 \in 0..(Len(opened.lines) - 1)
      /\ blanks \in Cuts(opened.lines[(p.line + 1) + 1])
  <2>1. (p.line + 1) + 1 = p.line + 2
    BY <1>1
  <2>2. blanks \in Cuts(start)
    BY <1>2, EndsAreCuts
  <2>3. p.line + 1 \in 0..(Len(opened.lines) - 1)
    BY <1>1, <1>8
  <2> QED BY <1>8, <2>1, <2>2, <2>3
<1>10. /\ Work(filled, b) /\ Len(filled.lines) = n + 1
       /\ filled.lines[p.line + 1] = line
  <2> DEFINE m == p.line + 1
  <2>1. m \in 0..(Len(opened.lines) - 1) /\ blanks \in Cuts(opened.lines[m + 1])
        /\ m \in 1..Len(opened.lines) /\ m # m + 1
    BY <1>1, <1>8, <1>9
  <2> HIDE DEF m
  <2>a. Work(opened, b) /\ rest \in Line
    BY <1>2, <1>8
  <2>2. LET v == AddGlyphsToLine(opened, m, blanks, rest)
        IN  Work(v, b) /\ Len(v.lines) = Len(opened.lines) /\ OnlyLine(v, opened, m)
    BY ONLY <2>a, <2>1, AddGlyphsWork
  <2>3. filled = AddGlyphsToLine(opened, m, blanks, rest)
    BY DEF m
  <2> HIDE DEF filled
  <2>4. filled.lines[m] = opened.lines[m]
    BY <2>1, <2>2, <2>3 DEF OnlyLine
  <2> QED BY <1>8, <2>2, <2>3, <2>4 DEF m
<1> HIDE DEF filled
<1>11. p.line \in 0..(Len(filled.lines) - 1) /\ i \in Cuts(filled.lines[p.line + 1])
  BY <1>1, <1>10
<1> QED BY <1>4, <1>10, <1>11, RemoveRestWork DEF n

(* The blanks that a line starts with end before a character.              *)
LEMMA BlanksOfLine ==
    ASSUME NEW line \in Line
    PROVE  /\ FirstCharacter(line) \in Nat
           /\ SubSeq(line, 1, FirstCharacter(line)) \in Line
           /\ Len(SubSeq(line, 1, FirstCharacter(line))) = FirstCharacter(line)
<1> DEFINE blanks == FirstCharacter(line)
<1>1. IsSeq(line)
  BY LineParts
<1>2. blanks \in 0..Len(line) /\ blanks \in Nat /\ \A m \in 1..blanks : line[m] \in Blank
  BY <1>1, FirstCharacterIsIndex
<1> HIDE DEF blanks
<1>3. blanks \in Cuts(line)
  <2> SUFFICES ASSUME blanks # 0 PROVE line[blanks] # LeadByte
    BY <1>2 DEF Cuts
  <2>1. blanks \in 1..blanks
    BY <1>2
  <2> QED BY <1>2, <2>1, KeysArePassages DEF Blank
<1>4. Len(SubSeq(line, 1, blanks)) = blanks
  <2>1. Len(SubSeq(line, 1, blanks)) = IF 1 <= blanks THEN 1 + blanks - 1 ELSE 0
    BY <1>2, SubSeqIsSeq
  <2> DEFINE y == Len(SubSeq(line, 1, blanks))
  <2>2. y = IF 1 <= blanks THEN 1 + blanks - 1 ELSE 0
    BY <2>1
  <2> HIDE DEF y
  <2>3. y = blanks
    BY <1>2, <2>2
  <2> QED BY <2>3 DEF y
<1> QED BY <1>2, <1>3, <1>4, LineParts DEF blanks

LEMMA BreakLineAtWork ==
    ASSUME NEW b, NEW w, Work(w, b), NEW c, NEW p \in Places(w.lines)
    PROVE  Work(BreakLineAt(w, c, p), b)
<1> DEFINE line == w.lines[p.line + 1]
           blanks == FirstCharacter(line)
           indent == SubSeq(line, 1, blanks)
           i == GetCharacterIndexR(w.lines, p)
           v == BrokenAt(w, p, i, blanks)
           q == At(p.line + 1, GetCharacterColumn(v.lines, p.line + 1, Len(indent)))
           text == <<NewLine>> \o indent
<1>1. IsText(w.lines) /\ p.line \in 0..(Len(w.lines) - 1) /\ Len(w.lines) \in Nat
  BY DomainOfWork DEF Work, Sound, Shaped, Places
<1>2. line \in Line
  BY <1>1, LineOfWork DEF Work
<1>3. blanks \in Nat /\ indent \in Line /\ Len(indent) = blanks
  BY <1>2, BlanksOfLine
<1>4. BreakLineAt(w, c, p) = NoteTyped(v, c, text, p, q)
  BY DEF BreakLineAt, NoteBreak
<1>5. i \in Cuts(line)
  BY <1>1, IndexIsCut DEF Work, Sound
<1> HIDE DEF i, blanks
<1>6. Work(v, b) /\ Len(v.lines) = Len(w.lines) + 1
  BY <1>3, <1>5, BrokenAtWork
<1> HIDE DEF v, line, indent
<1>7. text \in Passage /\ Len(indent) \in Int
  BY <1>3, KeysArePassages, LineIsPassage, PassagesJoin
<1>8. p.line + 1 \in 0..(Len(v.lines) - 1) /\ IsText(v.lines)
  BY <1>1, <1>6 DEF Work, Sound, Shaped
<1>9. q \in Places(v.lines)
  BY <1>7, <1>8, ColumnIsPlace
<1> HIDE DEF q, text
<1>10. p.line \in Nat
  BY <1>1
<1> QED BY <1>4, <1>6, <1>7, <1>9, <1>10, NoteTypedWork

EntryStep(w, c, ch) ==
    IF w.aborted THEN w ELSE EnterAtPlace(w, c, ch, GetActualCursorCoordinates(w, c))

LEMMA BytesOfGlyph ==
    ASSUME NEW ch \in Glyph
    PROVE  Im_TextCharToUtf8(ch) \in Line /\ Im_TextCharToUtf8(ch) # <<>>
<1>1. CASE ch # LeadByte
  <2>1. <<ch>> \in Line /\ <<ch>> # <<>>
    BY <1>1, SmallLines
  <2> QED BY <1>1, <2>1 DEF Im_TextCharToUtf8
<1>2. CASE ch = LeadByte
  <2> DEFINE s == <<LeadByte, NextByte>>
  <2>1. s \in Seq(Glyph) /\ DOMAIN s = 1..2 /\ s[1] = LeadByte /\ s[2] = NextByte /\ s # <<>>
    BY <1>2, GlyphAssumption
  <2> HIDE DEF s
  <2>2. \A k \in DOMAIN s : k = 1 \/ k = 2
    BY <2>1
  <2>3. Whole(s)
    <3>1. 2 \in DOMAIN s /\ 1 + 1 = 2
      BY <2>1
    <3> QED BY <2>1, <2>2, <3>1, KeysArePassages DEF Whole
  <2>4. s \in Line /\ s # <<>>
    BY <2>1, <2>3 DEF Line
  <2> QED BY <1>2, <2>4 DEF Im_TextCharToUtf8, s
<1> QED BY <1>1, <1>2

LEMMA EntryStepWork ==
    ASSUME NEW b, NEW w, Work(w, b), NEW c \in 1..Len(w.cursors),
           NEW ch \in Glyph \cup {NewLine}
    PROVE  Work(EntryStep(w, c, ch), b)
<1> DEFINE p == GetActualCursorCoordinates(w, c)
           bytes == Im_TextCharToUtf8(ch)
<1>1. p \in Places(w.lines) /\ IsText(w.lines)
  BY ActualCursorIsPlace DEF Work, Sound, Shaped
<1> HIDE DEF p
<1>2. ch # NewLine => bytes \in Line /\ bytes # <<>>
  BY BytesOfGlyph
<1> HIDE DEF bytes
<1>3. GetCharacterIndexR(w.lines, p) \in Cuts(w.lines[p.line + 1])
  BY <1>1, IndexIsCut DEF Work, Sound
<1>4. Work(EnterAtPlace(w, c, ch, p), b)
  BY <1>1, <1>2, <1>3, BreakLineAtWork, EnterAtWork DEF EnterAtPlace, bytes
<1> QED BY <1>4 DEF EntryStep, p

LEMMA EnterAtCursorsWork ==
    ASSUME NEW w,
           Sound(w),
           NEW ch \in Glyph \cup {NewLine}
    PROVE  Work(EnterAtCursors(w, ch), w)
<1> DEFINE N == Len(Downward(DOMAIN w.cursors))
           Run(n, f) ==
               /\ f[0] = w
               /\ \A k \in 1..n : f[k] = EntryStep(f[k - 1], Downward(DOMAIN w.cursors)[k], ch)
           Fine(n) ==
               /\ \E f : Run(n, f)
               /\ \A f : Run(n, f) => Work(f[n], w)
           S == {n \in Nat : n \in 0..N => Fine(n)}
<1>0. N \in Nat
  BY CursorNumbers
<1>1. 0 \in S
  <2>1. Run(0, [k \in 0..0 |-> w])
    OBVIOUS
  <2>2. ASSUME NEW f, Run(0, f) PROVE Work(f[0], w)
    BY <2>2, WorkSucceeds
  <2> QED BY <2>1, <2>2
<1>2. ASSUME NEW n \in Nat, n \in S PROVE n + 1 \in S
  <2> SUFFICES ASSUME n + 1 \in 0..N PROVE Fine(n + 1)
    OBVIOUS
  <2>1. PICK f : Run(n, f)
    BY <1>0, <1>2
  <2>2. ASSUME NEW g, \A k \in 0..n : g[k] = f[k],
               g[n + 1] = EntryStep(f[n], Downward(DOMAIN w.cursors)[n + 1], ch)
        PROVE  Run(n + 1, g)
    <3> SUFFICES ASSUME NEW k \in 1..(n + 1)
                 PROVE g[k] = EntryStep(g[k - 1], Downward(DOMAIN w.cursors)[k], ch)
      BY <2>1, <2>2
    <3>1. CASE k \in 1..n
      <4>1. k \in 0..n /\ k - 1 \in 0..n
        BY <3>1
      <4> QED BY <2>1, <2>2, <3>1, <4>1
    <3>2. CASE k = n + 1
      <4>1. k - 1 = n /\ n \in 0..n
        BY <3>2
      <4>2. g[k - 1] = f[n]
        BY <2>2, <4>1
      <4> QED BY <2>2, <3>2, <4>2
    <3> QED BY <3>1, <3>2
  <2>3. \E g : Run(n + 1, g)
    <3>1. PICK x : x = EntryStep(f[n], Downward(DOMAIN w.cursors)[n + 1], ch)
      OBVIOUS
    <3> DEFINE g == [k \in 0..(n + 1) |-> IF k <= n THEN f[k] ELSE x]
    <3>2. (\A k \in 0..n : g[k] = f[k]) /\ g[n + 1] = x
      OBVIOUS
    <3> HIDE DEF g
    <3> QED BY <2>2, <3>1, <3>2
  <2>4. ASSUME NEW f1, Run(n + 1, f1) PROVE Work(f1[n + 1], w)
    <3>1. Run(n, f1) /\ n + 1 \in 1..N /\ f1[n + 1] = EntryStep(f1[n], Downward(DOMAIN w.cursors)[n + 1], ch)
      BY <2>4
    <3>2. Work(f1[n], w)
      BY <1>0, <1>2, <3>1
    <3> HIDE DEF Run
    <3>3. Downward(DOMAIN w.cursors)[n + 1] \in 1..Len(f1[n].cursors)
      BY <3>1, <3>2, CursorNumbers DEF Work, Continues, Retains
    <3> QED BY <3>1, <3>2, <3>3, EntryStepWork
  <2> QED BY <2>3, <2>4
<1>3. Nat \subseteq S
  BY <1>1, <1>2, SetInduction
<1>4. Fine(N)
  <2> HIDE DEF Fine
  <2> QED BY <1>0, <1>3
<1> DEFINE Pass(f) == [k \in 0..N |-> IF k = 0 THEN w
                                      ELSE EntryStep(f[k - 1], Downward(DOMAIN w.cursors)[k], ch)]
           after == CHOOSE f : f = Pass(f)
<1>5. EnterAtCursors(w, ch) = after[N]
  BY DEF EnterAtCursors, BottomUp, Sweep, EntryStep
<1>6. \E f : f = Pass(f)
  <2>1. PICK f : Run(N, f)
    BY <1>4
  <2> DEFINE g == [k \in 0..N |-> f[k]]
  <2>2. g = Pass(g)
    BY <1>0, <2>1
  <2> QED BY <2>2
<1>7. after = Pass(after)
  BY <1>6
<1> HIDE DEF after
<1>8. Run(N, after)
  BY <1>0, <1>7
<1> QED BY <1>4, <1>5, <1>8

-----------------------------------------------------------------------------
(* The commands that type and delete, as a whole.                          *)
SameText(v, w) ==
    Work(v, w) /\ v.lines = w.lines /\ v.aborted = w.aborted /\ v.ops = w.ops

ColorizeStep(w, l) == Colorize(w, l - 1, 3)

ColorizeLines(w, lines) == Sweep(w, LAMBDA v, l : Colorize(v, l - 1, 3), lines)

LEMMA ColorizeKeepsNotes ==
    ASSUME NEW w, WorkFields \subseteq DOMAIN w, NEW from, NEW count
    PROVE  Colorize(w, from, count).ops = w.ops
BY DEF Colorize, WorkFields

LEMMA ColorizeLinesWork ==
    ASSUME NEW w,
           Sound(w),
           NEW lines,
           Len(lines) \in Nat,
           \A n \in 1..Len(lines) : lines[n] \in Int
    PROVE  SameText(ColorizeLines(w, lines), w)
<1> DEFINE N == Len(lines)
           Run(n, f) ==
               /\ f[0] = w
               /\ \A k \in 1..n : f[k] = ColorizeStep(f[k - 1], lines[k])
           Fine(n) ==
               /\ \E f : Run(n, f)
               /\ \A f : Run(n, f) => SameText(f[n], w)
           S == {n \in Nat : n \in 0..N => Fine(n)}
<1>0. N \in Nat
  OBVIOUS
<1>1. 0 \in S
  <2>1. Run(0, [k \in 0..0 |-> w])
    OBVIOUS
  <2>2. ASSUME NEW f, Run(0, f) PROVE SameText(f[0], w)
    BY <2>2, WorkSucceeds DEF SameText
  <2> QED BY <2>1, <2>2
<1>2. ASSUME NEW n \in Nat, n \in S PROVE n + 1 \in S
  <2> SUFFICES ASSUME n + 1 \in 0..N PROVE Fine(n + 1)
    OBVIOUS
  <2>a. n \in 0..N
    BY <1>0
  <2>1. PICK f : Run(n, f)
    BY <1>2, <2>a
  <2>2. ASSUME NEW g, \A k \in 0..n : g[k] = f[k], g[n + 1] = ColorizeStep(f[n], lines[n + 1])
        PROVE  Run(n + 1, g)
    <3> SUFFICES ASSUME NEW k \in 1..(n + 1) PROVE g[k] = ColorizeStep(g[k - 1], lines[k])
      BY <2>1, <2>2
    <3>1. CASE k \in 1..n
      <4>1. k \in 0..n /\ k - 1 \in 0..n
        BY <3>1
      <4> QED BY <2>1, <2>2, <3>1, <4>1
    <3>2. CASE k = n + 1
      <4>1. k - 1 = n /\ n \in 0..n
        BY <3>2
      <4>2. g[k - 1] = f[n]
        BY <2>2, <4>1
      <4> QED BY <2>2, <3>2, <4>2
    <3> QED BY <3>1, <3>2
  <2>3. \E g : Run(n + 1, g)
    <3>1. PICK x : x = ColorizeStep(f[n], lines[n + 1])
      OBVIOUS
    <3> DEFINE g == [k \in 0..(n + 1) |-> IF k <= n THEN f[k] ELSE x]
    <3>2. (\A k \in 0..n : g[k] = f[k]) /\ g[n + 1] = x
      OBVIOUS
    <3> HIDE DEF g
    <3> QED BY <2>2, <3>1, <3>2
  <2>4. ASSUME NEW f1, Run(n + 1, f1) PROVE SameText(f1[n + 1], w)
    <3>1. Run(n, f1) /\ n + 1 \in 1..N /\ f1[n + 1] = ColorizeStep(f1[n], lines[n + 1])
      BY <2>4
    <3>2. SameText(f1[n], w)
      BY <1>0, <1>2, <3>1
    <3> HIDE DEF Run
    <3>3. Work(f1[n], w)
      BY <3>2 DEF SameText
    <3> DEFINE l == lines[n + 1] - 1
    <3>5. l \in Int /\ 3 \in Int
      BY <3>1
    <3> HIDE DEF l
    <3>7. Colorize(f1[n], l, 3).ops = f1[n].ops
      BY <3>3, ColorizeKeepsNotes DEF Work, Sound, Shaped
    <3>6. SameText(Colorize(f1[n], l, 3), w)
      <4> DEFINE v == Colorize(f1[n], l, 3)
      <4>1. Work(v, w) /\ v.lines = f1[n].lines /\ v.aborted = f1[n].aborted
        BY <3>3, <3>5, ColorizeWork
      <4>2. v.ops = f1[n].ops
        BY <3>7
      <4> HIDE DEF v
      <4>3. SameText(v, w)
        BY <3>2, <4>1, <4>2 DEF SameText
      <4> QED BY <4>3 DEF v
    <3>4. SameText(ColorizeStep(f1[n], lines[n + 1]), w)
      BY <3>6 DEF ColorizeStep, l
    <3> QED BY <3>1, <3>4
  <2> QED BY <2>3, <2>4
<1>3. Nat \subseteq S
  BY <1>1, <1>2, SetInduction
<1>4. Fine(N)
  <2> HIDE DEF Fine
  <2> QED BY <1>0, <1>3
<1> DEFINE Pass(f) == [k \in 0..N |-> IF k = 0 THEN w ELSE ColorizeStep(f[k - 1], lines[k])]
           after == CHOOSE f : f = Pass(f)
<1>5. ColorizeLines(w, lines) = after[N]
  BY DEF ColorizeLines, Sweep, ColorizeStep
<1>6. \E f : f = Pass(f)
  <2>1. PICK f : Run(N, f)
    BY <1>4
  <2> DEFINE g == [k \in 0..N |-> f[k]]
  <2>2. g = Pass(g)
    BY <1>0, <2>1
  <2> QED BY <2>2
<1>7. after = Pass(after)
  BY <1>6
<1> HIDE DEF after
<1>8. Run(N, after)
  BY <1>0, <1>7
<1> QED BY <1>4, <1>5, <1>8

LEMMA ColorizeEnteredWork ==
    ASSUME NEW w, Sound(w), NEW ops, AreOperations(ops)
    PROVE  SameText(ColorizeEntered(w, ops), w)
<1> DEFINE M == {m \in DOMAIN ops : ops[m].type = "Add"}
           entered == {ops[n].start.line : n \in M}
           f == [n \in M |-> ops[n].start.line]
<1>1. ColorizeEntered(w, ops) = ColorizeLines(w, Upward(entered))
  BY DEF ColorizeEntered, ColorizeLines
<1>2. IsFiniteSet(M)
  <2>1. DOMAIN ops = 1..Len(ops) /\ Len(ops) \in Nat
    BY DEF AreOperations, IsSeq
  <2>2. IsFiniteSet(1..Len(ops))
    BY <2>1, FS_Interval
  <2>3. M \in SUBSET (1..Len(ops))
    BY <2>1
  <2> QED BY <2>2, <2>3, FS_Subset
<1>3. f \in Surjection(M, entered)
  BY DEF Surjection
<1>6. entered \subseteq Nat
  BY DEF AreOperations, IsSeq
<1> HIDE DEF M, f
<1>4. IsFiniteSet(entered)
  BY <1>2, <1>3, FS_Surjection
<1> HIDE DEF entered
<1>5. IsSeq(Upward(entered)) /\ \A n \in 1..Len(Upward(entered)) : Upward(entered)[n] \in entered
  BY <1>4, <1>6, UpwardIsSeq
<1> DEFINE lines == Upward(entered)
<1> HIDE DEF lines
<1>7. Len(lines) \in Nat /\ \A n \in 1..Len(lines) : lines[n] \in Int
  BY <1>5, <1>6 DEF lines, IsSeq
<1> QED BY <1>1, <1>7, ColorizeLinesWork DEF lines

LEMMA EditedStays ==
    ASSUME NEW u, NEW v, NEW w, Edited(u, w), SameText(v, u), Steady(u, w)
    PROVE  Smooth(v, w)
<1>1. Edited(v, w)
  BY DEF Edited, SameText, Work, Continues, Retains
<1>2. Carried(v, w)
  BY CarryingOn DEF SameText
<1> QED BY <1>1, <1>2 DEF Smooth

LEMMA EnterCharacterOutcome ==
    ASSUME NEW w, Sound(w), NEW ch \in Glyph \cup {NewLine}, NEW shift,
           NEW v \in EnterCharacter(w, ch, shift)
    PROVE  Outcome(v, w) /\ (SelectTogether(w) => Smooth(v, w))
<1> DEFINE many == ch = Tab /\ \E c \in DOMAIN w.cursors : w.cursors[c].s.line # w.cursors[c].e.line
           u == IF AnyCursorHasSelection(w) THEN DeleteEverySelection(w) ELSE w
           x == EnterAtCursors(u, ch)
           y == Recorded(x, w)
           z == RecordedEntry(x, w)
<1>1. PICK increase : increase = ~shift
  OBVIOUS
<1>2. v \in ChangeCurrentLinesIndentation(w, increase) \/ v = z
  BY <1>1 DEF EnterCharacter
<1>3. Tried(u, w) /\ (SelectTogether(w) => Work(u, w))
  BY DeleteEverySelectionWork, DeleteTogetherWork, WorkSucceeds, TriedOrFailed
<1> HIDE DEF u
<1>4. Work(x, u) /\ Tried(x, w) /\ (SelectTogether(w) => Work(x, w))
  <2>1. Sound(u) /\ Work(u, u)
    BY <1>3, TriedOrFailed DEF Tried
  <2>2. Work(x, u)
    BY <2>1, EnterAtCursorsWork
  <2> HIDE DEF x
  <2>3. Work(u, w) => Work(x, w)
    BY <2>2 DEF Work, Continues, Retains, Steady
  <2> QED BY <1>3, <2>2, <2>3, TriedOrFailed
<1> HIDE DEF x
<1>5. Sound(x) /\ AreOperations(x.ops) /\ (Failed(x) \/ Work(x, w))
  BY <1>4, TriedOrFailed DEF Tried, Sound, Shaped
<1>6. SameText(z, y) /\ y.aborted = x.aborted
  <2>1. Sound(y) /\ y.aborted = x.aborted
    BY <1>5, AddUndoSound
  <2> QED BY <1>5, <2>1, ColorizeEnteredWork DEF RecordedEntry
<1>7. ASSUME Work(x, w) PROVE Smooth(z, w)
  <2>1. Succeeds(x, w) /\ Steady(x, w)
    BY <1>7, WorkSucceeds, CarryingOn
  <2>2. Edited(y, w) /\ Steady(y, w)
    BY <2>1, RecordedEdits DEF Steady
  <2> HIDE DEF y, z
  <2> QED BY <1>6, <2>2, EditedStays
<1>8. ASSUME Failed(x) PROVE Failed(z)
  <2> HIDE DEF y, z
  <2> QED BY <1>6, <1>8 DEF Failed, SameText, Work, Sound, Shaped, WorkFields
<1> HIDE DEF y, z
<1> QED BY <1>2, <1>4, <1>5, <1>7, <1>8, IndentationOutcome DEF Outcome

LEMMA DeleteSelectedOutcome ==
    ASSUME NEW w, Sound(w), NEW u, Succeeds(u, w), Steady(u, w)
    PROVE  Smooth(DeleteSelected(u, w), w)
<1>1. Work(DeleteRealSelections(u), u)
  BY DeleteRealSelectionsWork DEF Succeeds
<1>2. Succeeds(DeleteRealSelections(u), w)
  BY <1>1, WorkSucceeds
<1>3. Carried(DeleteRealSelections(u), w)
  BY <1>1, CarryingOn
<1> QED BY <1>2, <1>3, RecordedEdits DEF DeleteSelected

LEMMA DeleteMovedOutcome ==
    ASSUME NEW w, Sound(w), NEW moved, Work(moved, w), moved.changed, NEW back, Work(back, w),
           moved.ops = w.ops, back.ops = w.ops, NEW v \in DeleteMoved(w, moved, back)
    PROVE  Smooth(v, w)
<1>1. Succeeds(moved, w) /\ Succeeds(back, w) /\ Sound(moved)
  BY WorkSucceeds DEF Work
<1>2. \/ \E u \in OnCursorPositionChanged(moved) : v = DeleteSelected(u, w)
      \/ v \in {moved, back}
  BY DEF DeleteMoved
<1>3. ASSUME NEW u \in OnCursorPositionChanged(moved)
      PROVE  Smooth(DeleteSelected(u, w), w)
  <2>1. Succeeds(u, w)
    BY <1>1, CursorsStaySound, WorkSucceeds
  <2>2. Steady(u, w)
    BY <1>1, SortingKeepsMarks DEF Steady
  <2> QED BY <2>1, <2>2, DeleteSelectedOutcome
<1>4. Carried(moved, w) /\ Carried(back, w)
  BY CarryingOn
<1> QED BY <1>1, <1>2, <1>3, <1>4 DEF Smooth, Written

LEMMA DeleteOutcome ==
    ASSUME NEW w, Sound(w), NEW word \in BOOLEAN, NEW v \in Delete(w, word) \cup Backspace(w, word)
    PROVE  Smooth(v, w)
<1>1. PICK yes \in BOOLEAN : yes
  OBVIOUS
<1>2. PICK no \in BOOLEAN : ~no
  OBVIOUS
<1>3. yes = TRUE /\ no = FALSE
  BY <1>1, <1>2
<1>4. Work(w, w) /\ 0 \in Nat
  BY WorkSucceeds
<1> DEFINE right == MoveRight(w, yes, word)
           left == MoveLeft(w, yes, word)
           returned == MoveLeft(right, no, no)
           advanced == MoveRight(left, no, no)
<1>5. Work(right, w) /\ Work(left, w) /\ right.changed /\ left.changed
  BY <1>4, MovementsStayInText
<1>6. Work(returned, w) /\ Work(advanced, w)
  <2> HIDE DEF right, left
  <2> QED BY <1>4, <1>5, MovementsStayInText
<1>7. \/ v = DeleteSelected(w, w)
      \/ v \in DeleteMoved(w, right, returned)
      \/ v \in DeleteMoved(w, left, advanced)
  BY <1>3 DEF Delete, Backspace
<1>9. right.ops = w.ops /\ left.ops = w.ops /\ returned.ops = w.ops /\ advanced.ops = w.ops
  <2>1. WorkFields \subseteq DOMAIN w
    BY DEF Sound, Shaped
  <2>2. KeepsNotes(right, w) /\ KeepsNotes(left, w)
    BY <2>1, MovementsKeepNotes
  <2> HIDE DEF right, left
  <2>3. WorkFields \subseteq DOMAIN right /\ WorkFields \subseteq DOMAIN left
    BY <2>1, <2>2 DEF KeepsNotes
  <2>4. KeepsNotes(returned, right) /\ KeepsNotes(advanced, left)
    BY <2>3, MovementsKeepNotes
  <2> QED BY <2>2, <2>4 DEF KeepsNotes
<1> HIDE DEF right, left, returned, advanced
<1>8. Succeeds(w, w) /\ Steady(w, w)
  BY WorkSucceeds, CarryingOn
<1> QED BY <1>5, <1>6, <1>7, <1>8, <1>9, DeleteSelectedOutcome, DeleteMovedOutcome

-----------------------------------------------------------------------------
(* MoveUpCurrentLines and MoveDownCurrentLines.                            *)
SwapStep(w, l) == SwapLines(w, l - 1, l)

SwapUp(w, lines) == Sweep(w, LAMBDA v, l : SwapLines(v, l - 1, l), lines)

SwapDownStep(w, l) == SwapLines(w, l + 1, l)

SwapDown(w, lines) == Sweep(w, LAMBDA v, l : SwapLines(v, l + 1, l), lines)

Rearranged(v, w) ==
    /\ {"lines", "fresh"} \subseteq DOMAIN v
    /\ IsText(v.lines) /\ Len(v.lines) = Len(w.lines) /\ v.lines \in Seq(Line)
    /\ Flagged(w) => v.fresh \in Seq(BOOLEAN) /\ Len(v.fresh) = Len(w.lines)

LEMMA SwappedInSeq ==
    ASSUME NEW S, NEW s \in Seq(S), NEW i \in 1..Len(s), NEW k \in 1..Len(s)
    PROVE  LET t == [s EXCEPT ![i] = s[k], ![k] = s[i]]
           IN  t \in Seq(S) /\ Len(t) = Len(s)
<1> DEFINE a == s[i]
           b == s[k]
           once == [s EXCEPT ![i] = b]
           twice == [once EXCEPT ![k] = a]
<1>1. a \in S /\ b \in S /\ IsSeq(s)
  BY InSeq
<1>2. [s EXCEPT ![i] = s[k], ![k] = s[i]] = twice
  OBVIOUS
<1> HIDE DEF a, b
<1>3. once \in Seq(S) /\ IsSeq(once) /\ Len(once) = Len(s)
  <2>1. once \in Seq(S)
    BY <1>1, ExceptInSeq
  <2> QED BY <1>1, <2>1, ExceptIsSeq
<1> HIDE DEF once
<1>4. twice \in Seq(S) /\ Len(twice) = Len(once)
  <2>1. twice \in Seq(S)
    BY <1>1, <1>3, ExceptInSeq
  <2> QED BY <1>3, <2>1, ExceptIsSeq
<1> QED BY <1>2, <1>3, <1>4

LEMMA SwapRearranges ==
    ASSUME NEW w, NEW v, Rearranged(v, w), NEW l \in 0..(Len(w.lines) - 1),
           NEW m \in 0..(Len(w.lines) - 1)
    PROVE  Rearranged(SwapLines(v, l, m), w)
<1> DEFINE x == SwapLines(v, l, m)
           i == l + 1
           k == m + 1
           lines == [v.lines EXCEPT ![i] = v.lines[k], ![k] = v.lines[i]]
           marks == [v.fresh EXCEPT ![i] = v.fresh[k], ![k] = v.fresh[i]]
<1>1. /\ v.lines \in Seq(Line) /\ Len(v.lines) = Len(w.lines) /\ Len(v.lines) \in Nat
      /\ {"lines", "fresh"} \subseteq DOMAIN v
  BY DEF Rearranged
<1>2. i \in 1..Len(v.lines) /\ k \in 1..Len(v.lines)
  BY <1>1
<1>3. x.lines = lines /\ x.fresh = marks /\ DOMAIN x = DOMAIN v
  BY <1>1 DEF SwapLines
<1> HIDE DEF x, i, k
<1>4. lines \in Seq(Line) /\ Len(lines) = Len(v.lines)
  BY <1>1, <1>2, SwappedInSeq
<1> HIDE DEF lines
<1>5. IsText(lines)
  <2>1. Len(v.lines) >= 1
    BY DEF Rearranged, IsText
  <2>2. IsSeq(lines) /\ \A n \in 1..Len(lines) : lines[n] \in Line
    BY <1>4, InSeq
  <2>3. \A n \in 1..Len(lines) : IsSeq(lines[n])
    BY <2>2, LineParts
  <2> QED BY <1>4, <2>1, <2>2, <2>3 DEF IsText
<1>6. ASSUME Flagged(w) PROVE marks \in Seq(BOOLEAN) /\ Len(marks) = Len(w.lines)
  <2>1. v.fresh \in Seq(BOOLEAN) /\ Len(v.fresh) = Len(v.lines)
    BY <1>1, <1>6 DEF Rearranged
  <2>2. i \in 1..Len(v.fresh) /\ k \in 1..Len(v.fresh)
    BY <1>2, <2>1
  <2>3. marks \in Seq(BOOLEAN) /\ Len(marks) = Len(v.fresh)
    BY <2>1, <2>2, SwappedInSeq
  <2> QED BY <1>1, <2>1, <2>3
<1> HIDE DEF marks
<1>7. Rearranged(x, w)
  BY <1>1, <1>3, <1>4, <1>5, <1>6 DEF Rearranged
<1> QED BY <1>7 DEF x

LEMMA SoundIsRearranged ==
    ASSUME NEW w, Sound(w) PROVE Rearranged(w, w)
BY DEF Rearranged, Sound, Shaped, WorkFields, Flagged

(* The cursors follow the lines that changed places.                       *)
Followed(noted, swapped, cursors) ==
    [noted EXCEPT !.lines = swapped.lines, !.fresh = swapped.fresh, !.cursors = cursors]

LEMMA RearrangedLoosely ==
    ASSUME NEW w, NEW noted, Work(noted, w), NEW swapped, Rearranged(swapped, w),
           NEW cursors, AreCursors(cursors, swapped.lines), Len(cursors) = Len(w.cursors)
    PROVE  LET v == Followed(noted, swapped, cursors)
           IN  /\ Loose(v, w) /\ v.lines = swapped.lines
               /\ v.changed = noted.changed /\ v.cursors = cursors
<1> DEFINE v == Followed(noted, swapped, cursors)
<1>1. WorkFields \subseteq DOMAIN noted
  BY DEF Work, Sound, Shaped
<1>2. /\ v.lines = swapped.lines /\ v.cursors = cursors /\ v.fresh = swapped.fresh
      /\ Beside(v, noted) /\ v.changed = noted.changed
  BY <1>1 DEF Followed, Beside, WorkFields
<1>3. /\ v.colorMin = noted.colorMin /\ v.colorMax = noted.colorMax /\ v.scan = noted.scan
      /\ v.overwrite = noted.overwrite /\ v.aborted = noted.aborted
      /\ v.dragging = noted.dragging
  BY <1>1 DEF Followed, WorkFields
<1> HIDE DEF v
<1>4. Flagged(w) => Flagged(v)
  BY <1>2, <1>3 DEF Work, Continues, Retains, Rearranged, Flagged
<1>5. Sound(v)
  BY <1>2 DEF Work, Sound, Shaped, Rearranged, Beside
<1>6. Continues(v, w)
  BY <1>2, <1>4 DEF Work, Continues, Retains, Beside
<1> QED BY <1>2, <1>5, <1>6 DEF Loose, v

LEMMA SwapUpRearranges ==
    ASSUME NEW w,
           Sound(w),
           NEW lines,
           IsSeq(lines),
           \A n \in 1..Len(lines) : lines[n] \in 1..(Len(w.lines) - 1)
    PROVE  Rearranged(SwapUp(w, lines), w)
<1> DEFINE N == Len(lines)
           Run(n, f) ==
               /\ f[0] = w
               /\ \A k \in 1..n : f[k] = SwapStep(f[k - 1], lines[k])
           Fine(n) ==
               /\ \E f : Run(n, f)
               /\ \A f : Run(n, f) => Rearranged(f[n], w)
           S == {n \in Nat : n \in 0..N => Fine(n)}
<1>0. N \in Nat
  BY DEF IsSeq
<1>1. 0 \in S
  <2>1. Run(0, [k \in 0..0 |-> w])
    OBVIOUS
  <2>2. ASSUME NEW f, Run(0, f) PROVE Rearranged(f[0], w)
    BY <2>2, SoundIsRearranged
  <2> QED BY <2>1, <2>2
<1>2. ASSUME NEW n \in Nat, n \in S PROVE n + 1 \in S
  <2> SUFFICES ASSUME n + 1 \in 0..N PROVE Fine(n + 1)
    OBVIOUS
  <2>1. PICK f : Run(n, f)
    BY <1>0, <1>2
  <2>2. ASSUME NEW g, \A k \in 0..n : g[k] = f[k], g[n + 1] = SwapStep(f[n], lines[n + 1])
        PROVE  Run(n + 1, g)
    <3> SUFFICES ASSUME NEW k \in 1..(n + 1) PROVE g[k] = SwapStep(g[k - 1], lines[k])
      BY <2>1, <2>2
    <3>1. CASE k \in 1..n
      <4>1. k \in 0..n /\ k - 1 \in 0..n
        BY <3>1
      <4> QED BY <2>1, <2>2, <3>1, <4>1
    <3>2. CASE k = n + 1
      <4>1. k - 1 = n /\ n \in 0..n
        BY <3>2
      <4>2. g[k - 1] = f[n]
        BY <2>2, <4>1
      <4> QED BY <2>2, <3>2, <4>2
    <3> QED BY <3>1, <3>2
  <2>3. \E g : Run(n + 1, g)
    <3>1. PICK x : x = SwapStep(f[n], lines[n + 1])
      OBVIOUS
    <3> DEFINE g == [k \in 0..(n + 1) |-> IF k <= n THEN f[k] ELSE x]
    <3>2. (\A k \in 0..n : g[k] = f[k]) /\ g[n + 1] = x
      OBVIOUS
    <3> HIDE DEF g
    <3> QED BY <2>2, <3>1, <3>2
  <2>4. ASSUME NEW f1, Run(n + 1, f1) PROVE Rearranged(f1[n + 1], w)
    <3>1. Run(n, f1) /\ n + 1 \in 1..N /\ f1[n + 1] = SwapStep(f1[n], lines[n + 1])
      BY <2>4
    <3>2. Rearranged(f1[n], w)
      BY <1>0, <1>2, <3>1
    <3> HIDE DEF Run
    <3>3. Len(w.lines) \in Nat /\ lines[n + 1] \in 1..(Len(w.lines) - 1)
      BY <3>1, DomainOfWork
    <3> DEFINE l == lines[n + 1]
    <3>5. l - 1 \in 0..(Len(w.lines) - 1) /\ l \in 0..(Len(w.lines) - 1)
      BY <3>3
    <3> HIDE DEF l
    <3>6. Rearranged(SwapStep(f1[n], l), w)
      BY <3>2, <3>5, SwapRearranges DEF SwapStep
    <3>4. Rearranged(SwapStep(f1[n], lines[n + 1]), w)
      BY <3>6 DEF l
    <3> QED BY <3>1, <3>4
  <2> QED BY <2>3, <2>4
<1>3. Nat \subseteq S
  BY <1>1, <1>2, SetInduction
<1>4. Fine(N)
  <2> HIDE DEF Fine
  <2> QED BY <1>0, <1>3
<1> DEFINE Pass(f) == [k \in 0..N |-> IF k = 0 THEN w ELSE SwapStep(f[k - 1], lines[k])]
           after == CHOOSE f : f = Pass(f)
<1>5. SwapUp(w, lines) = after[N]
  BY DEF SwapUp, Sweep, SwapStep
<1>6. \E f : f = Pass(f)
  <2>1. PICK f : Run(N, f)
    BY <1>4
  <2> DEFINE g == [k \in 0..N |-> f[k]]
  <2>2. g = Pass(g)
    BY <1>0, <2>1
  <2> QED BY <2>2
<1>7. after = Pass(after)
  BY <1>6
<1> HIDE DEF after
<1>8. Run(N, after)
  BY <1>0, <1>7
<1> QED BY <1>4, <1>5, <1>8

LEMMA SwapDownRearranges ==
    ASSUME NEW w,
           Sound(w),
           NEW lines,
           IsSeq(lines),
           \A n \in 1..Len(lines) : lines[n] \in 0..(Len(w.lines) - 2)
    PROVE  Rearranged(SwapDown(w, lines), w)
<1> DEFINE N == Len(lines)
           Run(n, f) ==
               /\ f[0] = w
               /\ \A k \in 1..n : f[k] = SwapDownStep(f[k - 1], lines[k])
           Fine(n) ==
               /\ \E f : Run(n, f)
               /\ \A f : Run(n, f) => Rearranged(f[n], w)
           S == {n \in Nat : n \in 0..N => Fine(n)}
<1>0. N \in Nat
  BY DEF IsSeq
<1>1. 0 \in S
  <2>1. Run(0, [k \in 0..0 |-> w])
    OBVIOUS
  <2>2. ASSUME NEW f, Run(0, f) PROVE Rearranged(f[0], w)
    BY <2>2, SoundIsRearranged
  <2> QED BY <2>1, <2>2
<1>2. ASSUME NEW n \in Nat, n \in S PROVE n + 1 \in S
  <2> SUFFICES ASSUME n + 1 \in 0..N PROVE Fine(n + 1)
    OBVIOUS
  <2>1. PICK f : Run(n, f)
    BY <1>0, <1>2
  <2>2. ASSUME NEW g, \A k \in 0..n : g[k] = f[k], g[n + 1] = SwapDownStep(f[n], lines[n + 1])
        PROVE  Run(n + 1, g)
    <3> SUFFICES ASSUME NEW k \in 1..(n + 1) PROVE g[k] = SwapDownStep(g[k - 1], lines[k])
      BY <2>1, <2>2
    <3>1. CASE k \in 1..n
      <4>1. k \in 0..n /\ k - 1 \in 0..n
        BY <3>1
      <4> QED BY <2>1, <2>2, <3>1, <4>1
    <3>2. CASE k = n + 1
      <4>1. k - 1 = n /\ n \in 0..n
        BY <3>2
      <4>2. g[k - 1] = f[n]
        BY <2>2, <4>1
      <4> QED BY <2>2, <3>2, <4>2
    <3> QED BY <3>1, <3>2
  <2>3. \E g : Run(n + 1, g)
    <3>1. PICK x : x = SwapDownStep(f[n], lines[n + 1])
      OBVIOUS
    <3> DEFINE g == [k \in 0..(n + 1) |-> IF k <= n THEN f[k] ELSE x]
    <3>2. (\A k \in 0..n : g[k] = f[k]) /\ g[n + 1] = x
      OBVIOUS
    <3> HIDE DEF g
    <3> QED BY <2>2, <3>1, <3>2
  <2>4. ASSUME NEW f1, Run(n + 1, f1) PROVE Rearranged(f1[n + 1], w)
    <3>1. Run(n, f1) /\ n + 1 \in 1..N /\ f1[n + 1] = SwapDownStep(f1[n], lines[n + 1])
      BY <2>4
    <3>2. Rearranged(f1[n], w)
      BY <1>0, <1>2, <3>1
    <3> HIDE DEF Run
    <3>3. Len(w.lines) \in Nat /\ lines[n + 1] \in 0..(Len(w.lines) - 2)
      BY <3>1, DomainOfWork
    <3> DEFINE l == lines[n + 1]
    <3>5. l + 1 \in 0..(Len(w.lines) - 1) /\ l \in 0..(Len(w.lines) - 1)
      BY <3>3
    <3> HIDE DEF l
    <3>6. Rearranged(SwapDownStep(f1[n], l), w)
      BY <3>2, <3>5, SwapRearranges DEF SwapDownStep
    <3>4. Rearranged(SwapDownStep(f1[n], lines[n + 1]), w)
      BY <3>6 DEF l
    <3> QED BY <3>1, <3>4
  <2> QED BY <2>3, <2>4
<1>3. Nat \subseteq S
  BY <1>1, <1>2, SetInduction
<1>4. Fine(N)
  <2> HIDE DEF Fine
  <2> QED BY <1>0, <1>3
<1> DEFINE Pass(f) == [k \in 0..N |-> IF k = 0 THEN w ELSE SwapDownStep(f[k - 1], lines[k])]
           after == CHOOSE f : f = Pass(f)
<1>5. SwapDown(w, lines) = after[N]
  BY DEF SwapDown, Sweep, SwapDownStep
<1>6. \E f : f = Pass(f)
  <2>1. PICK f : Run(N, f)
    BY <1>4
  <2> DEFINE g == [k \in 0..N |-> f[k]]
  <2>2. g = Pass(g)
    BY <1>0, <2>1
  <2> QED BY <2>2
<1>7. after = Pass(after)
  BY <1>6
<1> HIDE DEF after
<1>8. Run(N, after)
  BY <1>0, <1>7
<1> QED BY <1>4, <1>5, <1>8

LEMMA NoteLinesWork ==
    ASSUME NEW b, NEW w, Work(w, b), NEW type,
           NEW first \in 0..(Len(w.lines) - 1), NEW last \in 0..(Len(w.lines) - 1)
    PROVE  LET v == NoteLines(w, type, first, last)
           IN  Work(v, b) /\ v.lines = w.lines /\ v.cursors = w.cursors
<1> DEFINE p == At(first, 0)
           q == At(last, GetLineMaxColumn(w.lines, last))
           o == Operation(type, GetText(w.lines, p, q), p, q)
<1>1. IsText(w.lines) /\ 0 \in Int
  BY DEF Work, Sound, Shaped
<1>2. p \in Places(w.lines) /\ q \in Places(w.lines)
  BY <1>1, ColumnIsPlace
<1>3. NoteLines(w, type, first, last) = Noted(w, o)
  BY DEF NoteLines, NoteStretch
<1> HIDE DEF p, q
<1>4. o.text \in Passage /\ o.start.line \in Nat
  BY <1>1, <1>2, TextOfPlacesIsPassage DEF Operation, Work, Sound, Shaped, Places
<1> HIDE DEF o
<1> QED BY <1>3, <1>4, NotedWork

(* The cursors go up with their lines: none of them is on the first.       *)
LEMMA CursorsGoUp ==
    ASSUME NEW w, Sound(w), NEW lines, Len(lines) = Len(w.lines),
           \A c \in 1..Len(w.cursors) : 1 <= w.cursors[c].s.line /\ 1 <= w.cursors[c].e.line
    PROVE  AreCursors(CursorsShifted(w, -1), lines) /\ Len(CursorsShifted(w, -1)) = Len(w.cursors)
<1> DEFINE shifted(p) == [p EXCEPT !.line = @ + -1]
           f == [c \in DOMAIN w.cursors |->
                    [s |-> shifted(w.cursors[c].s), e |-> shifted(w.cursors[c].e)]]
<1>1. Len(w.lines) \in Nat /\ DOMAIN w.cursors = 1..Len(w.cursors) /\ IsSeq(w.cursors) /\ Len(w.cursors) >= 1
  BY DomainOfWork DEF Sound, Shaped, AreCursors
<1>2. CursorsShifted(w, -1) = f
  BY DEF CursorsShifted
<1>3. ASSUME NEW p \in Places(w.lines), 1 <= p.line PROVE shifted(p) \in Places(lines)
  BY <1>1, <1>3 DEF Places
<1>4. \A c \in 1..Len(w.cursors) : w.cursors[c].s \in Places(w.lines) /\ w.cursors[c].e \in Places(w.lines)
  BY CursorOfWork
<1> HIDE DEF shifted
<1>5. \A c \in 1..Len(w.cursors) : f[c] \in [s : Places(lines), e : Places(lines)]
  BY <1>1, <1>3, <1>4
<1>6. f = [c \in DOMAIN w.cursors |-> f[c]]
  OBVIOUS
<1> HIDE DEF f
<1>7. AreCursors(f, lines) /\ Len(f) = Len(w.cursors)
  BY <1>1, <1>5, <1>6, MappedCursors
<1> QED BY <1>2, <1>7

LEMMA MoveUpCurrentLinesOutcome ==
    ASSUME NEW w, Sound(w), NEW v \in MoveUpCurrentLines(w)
    PROVE  Smooth(v, w)
<1> DEFINE A == AffectedLines(w)
           swapped == SwapUp(w, Upward(A))
           first == Min(A) - 1
           last == Max(A)
           noted == NoteLines(w, "Delete", first, last)
           moved == [noted EXCEPT !.lines = swapped.lines, !.fresh = swapped.fresh,
                                  !.cursors = CursorsShifted(w, -1)]
           again == NoteLines(moved, "Add", first, last)
<1>1. v = IF Min(A) = 0 THEN w ELSE Recorded(again, w)
  BY DEF MoveUpCurrentLines, MoveStretch, SwapUp
<1>2. CASE Min(A) = 0
  <2>1. Carried(w, w)
    BY CarryingOn
  <2> QED BY <1>1, <1>2, <2>1, WorkSucceeds DEF Smooth, Written
<1>3. CASE Min(A) # 0
  <2>1. /\ A \subseteq 0..(Len(w.lines) - 1) /\ A \subseteq Nat /\ IsFiniteSet(A)
        /\ Min(A) \in A /\ Max(A) \in A
        /\ \A l \in A : Min(A) <= l /\ l <= Max(A)
        /\ \A c \in 1..Len(w.cursors) :
               Min(A) <= w.cursors[c].s.line /\ Min(A) <= w.cursors[c].e.line
    BY LinesAffected
  <2>0. Len(w.lines) \in Nat
    BY DomainOfWork
  <2>2. IsSeq(Upward(A)) /\ \A n \in 1..Len(Upward(A)) : Upward(A)[n] \in A
    BY <2>1, UpwardIsSeq
  <2> HIDE DEF A
  <2>3. Min(A) \in Nat /\ Min(A) >= 1 /\ Max(A) \in Nat /\ Max(A) <= Len(w.lines) - 1
    <3>1. Min(A) \in 0..(Len(w.lines) - 1) /\ Max(A) \in 0..(Len(w.lines) - 1)
      BY <2>1
    <3> QED BY <1>3, <2>0, <3>1
  <2>4. \A l \in A : l \in 1..(Len(w.lines) - 1)
    BY <2>0, <2>1, <2>3
  <2>5. \A n \in 1..Len(Upward(A)) : Upward(A)[n] \in 1..(Len(w.lines) - 1)
    BY <2>2, <2>4
  <2>6. Rearranged(swapped, w)
    BY <2>2, <2>5, SwapUpRearranges
  <2>7. first \in 0..(Len(w.lines) - 1) /\ last \in 0..(Len(w.lines) - 1)
    BY <2>0, <2>3, <2>1
  <2>8. \A c \in 1..Len(w.cursors) : 1 <= w.cursors[c].s.line /\ 1 <= w.cursors[c].e.line
    <3> SUFFICES ASSUME NEW c \in 1..Len(w.cursors)
                 PROVE  1 <= w.cursors[c].s.line /\ 1 <= w.cursors[c].e.line
      OBVIOUS
    <3>1. w.cursors[c].s.line \in Nat /\ w.cursors[c].e.line \in Nat
      <4>1. w.cursors[c].s \in Places(w.lines) /\ w.cursors[c].e \in Places(w.lines)
        BY CursorOfWork
      <4>2. /\ w.cursors[c].s.line \in 0..(Len(w.lines) - 1)
            /\ w.cursors[c].e.line \in 0..(Len(w.lines) - 1)
        BY <4>1 DEF Places
      <4> DEFINE i == w.cursors[c].s.line
                 j == w.cursors[c].e.line
                 n == Len(w.lines)
      <4>3. i \in 0..(n - 1) /\ j \in 0..(n - 1) /\ n \in Nat
        BY <2>0, <4>2
      <4> HIDE DEF i, j, n
      <4>4. i \in Nat /\ j \in Nat
        BY <4>3
      <4> QED BY <4>4 DEF i, j
    <3> DEFINE m == Min(A)
               i == w.cursors[c].s.line
               j == w.cursors[c].e.line
    <3>2. m \in Nat /\ m >= 1 /\ m <= i /\ m <= j /\ i \in Nat /\ j \in Nat
      BY <2>1, <2>3, <3>1
    <3> HIDE DEF m, i, j
    <3>3. 1 <= i /\ 1 <= j
      BY <3>2
    <3> QED BY <3>3 DEF i, j
  <2> HIDE DEF swapped, first, last
  <2>9. Work(noted, w)
    BY <2>7, NoteLinesWork, WorkSucceeds
  <2> HIDE DEF noted
  <2>10. AreCursors(CursorsShifted(w, -1), swapped.lines)
         /\ Len(CursorsShifted(w, -1)) = Len(w.cursors)
    BY <2>6, <2>8, CursorsGoUp DEF Rearranged
  <2>11. /\ Loose(moved, w) /\ moved.lines = swapped.lines
         /\ moved.changed = noted.changed /\ moved.cursors = CursorsShifted(w, -1)
    <3> DEFINE cursors == CursorsShifted(w, -1)
    <3> HIDE DEF cursors
    <3>1. AreCursors(cursors, swapped.lines) /\ Len(cursors) = Len(w.cursors)
      BY <2>10 DEF cursors
    <3>2. moved = Followed(noted, swapped, cursors)
      BY DEF Followed, cursors
    <3> HIDE DEF moved
    <3> QED BY <2>6, <2>9, <3>1, <3>2, RearrangedLoosely DEF cursors
  <2> HIDE DEF moved
  <2>12. first \in 0..(Len(moved.lines) - 1) /\ last \in 0..(Len(moved.lines) - 1)
    BY <2>6, <2>7, <2>11 DEF Rearranged
  <2>13. Work(again, moved)
    BY <2>11, <2>12, NoteLinesWork, WorkSucceeds DEF Loose
  <2> HIDE DEF again
  <2>14. Succeeds(again, w)
    BY <2>11, <2>13, WorkSucceeds
  <2>15. Carried(again, w)
    <3>1. Steady(noted, w) /\ Steady(again, moved)
      BY <2>9, <2>13, WorkIsLoose
    <3>2. (moved.changed <=> noted.changed) /\ -1 \in Int
      BY <2>11
    <3> QED BY <2>11, <3>1, <3>2, ShiftCarries
  <2>16. Smooth(Recorded(again, w), w)
    BY <2>14, <2>15, RecordedEdits
  <2> QED BY <1>1, <1>3, <2>16
<1> QED BY <1>2, <1>3

(* They go down with their lines if none of them is on the last: MoveDown- *)
(* CurrentLines looks at the lines, and a selection that ends at the start *)
(* of a line ends below them.                                              *)
WholeLines(w) ==
    \A c \in 1..Len(w.cursors) :
        HasSelection(w.cursors[c]) => SelectionEnd(w.cursors[c]).column # 0

LEMMA CursorsReach ==
    ASSUME NEW w, Sound(w), WholeLines(w)
    PROVE  \A c \in 1..Len(w.cursors) :
               /\ w.cursors[c].s.line <= Max(AffectedLines(w))
               /\ w.cursors[c].e.line <= Max(AffectedLines(w))
<1> SUFFICES ASSUME NEW c \in 1..Len(w.cursors)
             PROVE  /\ w.cursors[c].s.line <= Max(AffectedLines(w))
                    /\ w.cursors[c].e.line <= Max(AffectedLines(w))
  OBVIOUS
<1> DEFINE k == w.cursors[c]
           A == AffectedLines(w)
           n == Len(w.lines)
<1>1. n \in Nat /\ DOMAIN w.cursors = 1..Len(w.cursors)
  BY DomainOfWork
<1>2. k.s \in Places(w.lines) /\ k.e \in Places(w.lines)
  BY CursorOfWork
<1>3. k.s.line \in 0..(n - 1) /\ k.e.line \in 0..(n - 1)
  BY <1>2 DEF Places
<1>4. /\ SelectionEnd(k).line \in 0..(n - 1) /\ SelectionStart(k).line \in 0..(n - 1)
      /\ SelectionStart(k).line <= SelectionEnd(k).line
      /\ k.s.line <= SelectionEnd(k).line /\ k.e.line <= SelectionEnd(k).line
  BY <1>1, <1>3 DEF SelectionEnd, SelectionStart, Before
<1>5. HasSelection(k) => SelectionEnd(k).column # 0
  BY DEF WholeLines
<1> DEFINE l == SelectionEnd(k).line
<1>6. ~(HasSelection(k) /\ At(l, 0) = SelectionEnd(k))
  <2>1. At(l, 0).column = 0
    BY DEF At
  <2> QED BY <1>5, <2>1
<1>7. l \in SelectionStart(k).line..SelectionEnd(k).line
  BY <1>1, <1>4
<1>8. l \in LinesOf(k)
  BY <1>6, <1>7 DEF LinesOf
<1>9. l \in A
  BY <1>1, <1>8 DEF AffectedLines
<1>10. A \subseteq 0..(n - 1) /\ Max(A) \in A /\ \A x \in A : x <= Max(A)
  BY LinesAffected
<1>11. k.s.line <= l /\ k.e.line <= l /\ {k.s.line, k.e.line, l} \subseteq Int
  BY <1>1, <1>3, <1>4
<1> HIDE DEF A, l, k
<1>12. l <= Max(A) /\ Max(A) \in 0..(n - 1)
  BY <1>9, <1>10
<1>13. k.s.line <= Max(A) /\ k.e.line <= Max(A)
  BY <1>11, <1>12
<1> QED BY <1>13 DEF k, A

LEMMA CursorsGoDown ==
    ASSUME NEW w, Sound(w), NEW lines, Len(lines) = Len(w.lines),
           \A c \in 1..Len(w.cursors) : w.cursors[c].s.line <= Len(w.lines) - 2
               /\ w.cursors[c].e.line <= Len(w.lines) - 2
    PROVE  AreCursors(CursorsShifted(w, 1), lines) /\ Len(CursorsShifted(w, 1)) = Len(w.cursors)
<1> DEFINE shifted(p) == [p EXCEPT !.line = @ + 1]
           f == [c \in DOMAIN w.cursors |->
                    [s |-> shifted(w.cursors[c].s), e |-> shifted(w.cursors[c].e)]]
<1>1. Len(w.lines) \in Nat /\ DOMAIN w.cursors = 1..Len(w.cursors) /\ IsSeq(w.cursors) /\ Len(w.cursors) >= 1
  BY DomainOfWork DEF Sound, Shaped, AreCursors
<1>2. CursorsShifted(w, 1) = f
  BY DEF CursorsShifted
<1>3. ASSUME NEW p \in Places(w.lines), p.line <= Len(w.lines) - 2 PROVE shifted(p) \in Places(lines)
  BY <1>1, <1>3 DEF Places
<1>4. \A c \in 1..Len(w.cursors) : w.cursors[c].s \in Places(w.lines) /\ w.cursors[c].e \in Places(w.lines)
  BY CursorOfWork
<1> HIDE DEF shifted
<1>5. \A c \in 1..Len(w.cursors) : f[c] \in [s : Places(lines), e : Places(lines)]
  BY <1>1, <1>3, <1>4
<1>6. f = [c \in DOMAIN w.cursors |-> f[c]]
  OBVIOUS
<1> HIDE DEF f
<1>7. AreCursors(f, lines) /\ Len(f) = Len(w.cursors)
  BY <1>1, <1>5, <1>6, MappedCursors
<1> QED BY <1>2, <1>7

LEMMA MoveDownCurrentLinesOutcome ==
    ASSUME NEW w, Sound(w), WholeLines(w), NEW v \in MoveDownCurrentLines(w)
    PROVE  Smooth(v, w)
<1> DEFINE A == AffectedLines(w)
           swapped == SwapDown(w, Downward(A))
           first == Min(A)
           last == Max(A) + 1
           noted == NoteLines(w, "Delete", first, last)
           moved == [noted EXCEPT !.lines = swapped.lines, !.fresh = swapped.fresh,
                                  !.cursors = CursorsShifted(w, 1)]
           again == NoteLines(moved, "Add", first, last)
<1>1. v = IF Max(A) = Len(w.lines) - 1 THEN w ELSE Recorded(again, w)
  BY DEF MoveDownCurrentLines, MoveStretch, SwapDown
<1>2. CASE Max(A) = Len(w.lines) - 1
  <2>1. Carried(w, w)
    BY CarryingOn
  <2> QED BY <1>1, <1>2, <2>1, WorkSucceeds DEF Smooth, Written
<1>3. CASE Max(A) # Len(w.lines) - 1
  <2>1. /\ A \subseteq 0..(Len(w.lines) - 1) /\ A \subseteq Nat /\ IsFiniteSet(A)
        /\ Min(A) \in A /\ Max(A) \in A
        /\ \A l \in A : Min(A) <= l /\ l <= Max(A)
        /\ \A c \in 1..Len(w.cursors) :
               w.cursors[c].s.line <= Max(A) /\ w.cursors[c].e.line <= Max(A)
    BY LinesAffected, CursorsReach
  <2>0. Len(w.lines) \in Nat
    BY DomainOfWork
  <2>2. IsSeq(Downward(A)) /\ \A n \in 1..Len(Downward(A)) : Downward(A)[n] \in A
    BY <2>1, DownwardIsSeq
  <2> HIDE DEF A
  <2>3. Min(A) \in Nat /\ Max(A) \in Nat /\ Max(A) <= Len(w.lines) - 2 /\ Min(A) <= Len(w.lines) - 1
    <3>1. Min(A) \in 0..(Len(w.lines) - 1) /\ Max(A) \in 0..(Len(w.lines) - 1)
      BY <2>1
    <3> QED BY <1>3, <2>0, <3>1
  <2>4. \A l \in A : l \in 0..(Len(w.lines) - 2)
    BY <2>0, <2>1, <2>3
  <2>5. \A n \in 1..Len(Downward(A)) : Downward(A)[n] \in 0..(Len(w.lines) - 2)
    BY <2>2, <2>4
  <2>6. Rearranged(swapped, w)
    BY <2>2, <2>5, SwapDownRearranges
  <2>7. first \in 0..(Len(w.lines) - 1) /\ last \in 0..(Len(w.lines) - 1)
    BY <2>0, <2>3, <2>1
  <2>8. \A c \in 1..Len(w.cursors) : w.cursors[c].s.line <= Len(w.lines) - 2
            /\ w.cursors[c].e.line <= Len(w.lines) - 2
    <3> SUFFICES ASSUME NEW c \in 1..Len(w.cursors)
                 PROVE  w.cursors[c].s.line <= Len(w.lines) - 2 /\ w.cursors[c].e.line <= Len(w.lines) - 2
      OBVIOUS
    <3>1. w.cursors[c].s.line \in Nat /\ w.cursors[c].e.line \in Nat
      <4>1. w.cursors[c].s \in Places(w.lines) /\ w.cursors[c].e \in Places(w.lines)
        BY CursorOfWork
      <4> QED BY <2>0, <4>1 DEF Places
    <3> DEFINE x == w.cursors[c].s.line
               y == w.cursors[c].e.line
               m == Max(A)
    <3>2. x <= m /\ y <= m /\ m \in Nat /\ m <= Len(w.lines) - 2 /\ x \in Nat /\ y \in Nat
      BY <2>1, <2>3, <3>1
    <3> HIDE DEF x, y, m
    <3>3. x <= Len(w.lines) - 2 /\ y <= Len(w.lines) - 2
      BY <2>0, <3>2
    <3> QED BY <3>3 DEF x, y
  <2> HIDE DEF swapped, first, last
  <2>9. Work(noted, w)
    BY <2>7, NoteLinesWork, WorkSucceeds
  <2> HIDE DEF noted
  <2>10. AreCursors(CursorsShifted(w, 1), swapped.lines)
         /\ Len(CursorsShifted(w, 1)) = Len(w.cursors)
    BY <2>6, <2>8, CursorsGoDown DEF Rearranged
  <2>11. /\ Loose(moved, w) /\ moved.lines = swapped.lines
         /\ moved.changed = noted.changed /\ moved.cursors = CursorsShifted(w, 1)
    <3> DEFINE cursors == CursorsShifted(w, 1)
    <3> HIDE DEF cursors
    <3>1. AreCursors(cursors, swapped.lines) /\ Len(cursors) = Len(w.cursors)
      BY <2>10 DEF cursors
    <3>2. moved = Followed(noted, swapped, cursors)
      BY DEF Followed, cursors
    <3> HIDE DEF moved
    <3> QED BY <2>6, <2>9, <3>1, <3>2, RearrangedLoosely DEF cursors
  <2> HIDE DEF moved
  <2>12. first \in 0..(Len(moved.lines) - 1) /\ last \in 0..(Len(moved.lines) - 1)
    BY <2>6, <2>7, <2>11 DEF Rearranged
  <2>13. Work(again, moved)
    BY <2>11, <2>12, NoteLinesWork, WorkSucceeds DEF Loose
  <2> HIDE DEF again
  <2>14. Succeeds(again, w)
    BY <2>11, <2>13, WorkSucceeds
  <2>15. Carried(again, w)
    <3>1. Steady(noted, w) /\ Steady(again, moved)
      BY <2>9, <2>13, WorkIsLoose
    <3>2. (moved.changed <=> noted.changed) /\ 1 \in Int
      BY <2>11
    <3> QED BY <2>11, <3>1, <3>2, ShiftCarries
  <2>16. Smooth(Recorded(again, w), w)
    BY <2>14, <2>15, RecordedEdits
  <2> QED BY <1>1, <1>3, <2>16
<1> QED BY <1>2, <1>3

-----------------------------------------------------------------------------
(* ToggleLineComment.                                                      *)
LEMMA CommentLineWork ==
    ASSUME NEW b, NEW w, Work(w, b), NEW l \in 0..(Len(w.lines) - 1)
    PROVE  Longer(CommentLine(w, l), b, w)
<1> DEFINE text == Append(SingleLineComment, Space)
<1>2. text \in Passage
  <2> DEFINE dashes == SingleLineComment
  <2>1. IsSeq(dashes) /\ Len(dashes) = 2 /\ dashes[1] = "-" /\ dashes[2] = "-"
    <3>1. IsSeq(dashes)
      BY SmallSeqs DEF SingleLineComment
    <3> QED BY <3>1 DEF SingleLineComment
  <2>6. text = Append(dashes, Space)
    OBVIOUS
  <2> HIDE DEF dashes
  <2>2. /\ IsSeq(text) /\ Len(text) = 3
        /\ \A n \in 1..3 : text[n] = IF n <= 2 THEN dashes[n] ELSE Space
    <3>1. IsSeq(Append(dashes, Space)) /\ Len(Append(dashes, Space)) = Len(dashes) + 1
          /\ \A n \in 1..(Len(dashes) + 1) :
                 Append(dashes, Space)[n] = IF n <= Len(dashes) THEN dashes[n] ELSE Space
      BY <2>1, AppendIsSeq
    <3> HIDE DEF text
    <3> QED BY <2>1, <2>6, <3>1
  <2> HIDE DEF text
  <2>3. \A n \in 1..3 : text[n] \in Glyph /\ text[n] # LeadByte
    BY <2>1, <2>2, GlyphAssumption DEF Space, LeadByte
  <2>4. text \in Seq(Glyph) /\ DOMAIN text = 1..3
    BY <2>2, <2>3, InSeq DEF IsSeq
  <2>5. text \in Line
    BY <2>3, <2>4 DEF Line, Whole
  <2> QED BY <2>5, LineIsPassage
<1>3. CommentLine(w, l) =
          Colorize(NoteInsertion(InsertTextAt(w, At(l, 0), text), text, At(l, 0)), l, 1)
  BY DEF CommentLine
<1> HIDE DEF text
<1> QED BY <1>2, <1>3, InsertAtLineWork

LEMMA UncommentLineWork ==
    ASSUME NEW b, NEW w, Work(w, b), NEW l \in 0..(Len(w.lines) - 1)
    PROVE  Longer(UncommentLine(w, l), b, w)
<1> DEFINE line == w.lines[l + 1]
           i == FirstCharacter(line)
           j == i + Len(SingleLineComment)
           n == IF j < Len(line) /\ line[j + 1] = Space THEN j + 1 ELSE j
           p == At(l, GetCharacterColumn(w.lines, l, i))
           q == At(l, GetCharacterColumn(w.lines, l, n))
<1>1. IsText(w.lines)
  BY DEF Work, Sound, Shaped
<1>2. IsSeq(line)
  BY <1>1, LineIsSeq
<1>3. i \in Nat /\ i \in 0..Len(line) /\ \A m \in 1..i : line[m] \in Blank
  BY <1>2, FirstCharacterIsIndex
<1>4. Len(SingleLineComment) = 2
  BY SmallSeqs DEF SingleLineComment
<1>5. UncommentLine(w, l) =
          IF IsBlankLine(line) THEN w
          ELSE Colorize(DeleteRange(NoteDeletion(w, p, q), p, q), l, 1)
  BY DEF UncommentLine
<1>a. IsBlankLine(line) <=> i = Len(line)
  BY DEF IsBlankLine
<1> HIDE DEF i
<1>6. i \in Int /\ n \in Int /\ n > i
  BY <1>3, <1>4
<1> HIDE DEF n
<1>b. Len(line) \in Nat
  BY <1>2 DEF IsSeq
<1>c. ASSUME ~IsBlankLine(line) PROVE Before(p, q)
  <2>0. \E x \in Stops(line) : x.index = i
    <3> HIDE DEF line
    <3> QED BY <1>3, <1>b, BlanksAreStops
  <2>1. PICK x \in Stops(line) : x.index = i
    BY <2>0
  <2>2. i < Len(line)
    BY <1>3, <1>a, <1>b, <1>c
  <2>3. GetCharacterColumn(w.lines, l, i) < GetCharacterColumn(w.lines, l, n)
    BY <1>1, <1>6, <2>1, <2>2, ColumnsRise
  <2> QED BY <2>3 DEF At, Before
<1> HIDE DEF line
<1>7. p \in Places(w.lines) /\ q \in Places(w.lines)
  BY <1>1, <1>6, ColumnIsPlace
<1>8. p.line = q.line
  BY DEF At
<1> HIDE DEF p, q
<1>9. ~IsBlankLine(line) => Longer(Colorize(DeleteRange(NoteDeletion(w, p, q), p, q), l, 1), b, w)
  BY <1>7, <1>8, <1>c, DeleteInLineWork
<1> QED BY <1>5, <1>9, LongerIsReflexive

CommentLines(w, lines) == Sweep(w, CommentLine, lines)

UncommentLines(w, lines) == Sweep(w, UncommentLine, lines)

LEMMA CommentLinesWork ==
    ASSUME NEW b,
           NEW w,
           Work(w, b),
           NEW lines,
           IsSeq(lines),
           \A n \in 1..Len(lines) : lines[n] \in 0..(Len(w.lines) - 1)
    PROVE  Longer(CommentLines(w, lines), b, w)
<1> DEFINE N == Len(lines)
           Run(n, f) ==
               /\ f[0] = w
               /\ \A k \in 1..n : f[k] = CommentLine(f[k - 1], lines[k])
           Fine(n) ==
               /\ \E f : Run(n, f)
               /\ \A f : Run(n, f) => Longer(f[n], b, w)
           S == {n \in Nat : n \in 0..N => Fine(n)}
<1>0. N \in Nat
  BY DEF IsSeq
<1>a. Len(w.lines) \in Nat
  BY DomainOfWork DEF Work
<1>1. 0 \in S
  <2>1. Run(0, [k \in 0..0 |-> w])
    OBVIOUS
  <2>2. ASSUME NEW f, Run(0, f) PROVE Longer(f[0], b, w)
    BY <2>2, LongerIsReflexive
  <2> QED BY <2>1, <2>2
<1>2. ASSUME NEW n \in Nat, n \in S PROVE n + 1 \in S
  <2> SUFFICES ASSUME n + 1 \in 0..N PROVE Fine(n + 1)
    OBVIOUS
  <2>1. PICK f : Run(n, f)
    BY <1>0, <1>2
  <2>2. ASSUME NEW g, \A k \in 0..n : g[k] = f[k], g[n + 1] = CommentLine(f[n], lines[n + 1])
        PROVE  Run(n + 1, g)
    <3> SUFFICES ASSUME NEW k \in 1..(n + 1) PROVE g[k] = CommentLine(g[k - 1], lines[k])
      BY <2>1, <2>2
    <3>1. CASE k \in 1..n
      <4>1. k \in 0..n /\ k - 1 \in 0..n
        BY <3>1
      <4> QED BY <2>1, <2>2, <3>1, <4>1
    <3>2. CASE k = n + 1
      <4>1. k - 1 = n /\ n \in 0..n
        BY <3>2
      <4>2. g[k - 1] = f[n]
        BY <2>2, <4>1
      <4> QED BY <2>2, <3>2, <4>2
    <3> QED BY <3>1, <3>2
  <2>3. \E g : Run(n + 1, g)
    <3>1. PICK x : x = CommentLine(f[n], lines[n + 1])
      OBVIOUS
    <3> DEFINE g == [k \in 0..(n + 1) |-> IF k <= n THEN f[k] ELSE x]
    <3>2. (\A k \in 0..n : g[k] = f[k]) /\ g[n + 1] = x
      OBVIOUS
    <3> HIDE DEF g
    <3> QED BY <2>2, <3>1, <3>2
  <2>4. ASSUME NEW f1, Run(n + 1, f1) PROVE Longer(f1[n + 1], b, w)
    <3>1. Run(n, f1) /\ n + 1 \in 1..N /\ f1[n + 1] = CommentLine(f1[n], lines[n + 1])
      BY <2>4
    <3>2. Longer(f1[n], b, w)
      BY <1>0, <1>2, <3>1
    <3> HIDE DEF Run
    <3>3. Work(f1[n], b) /\ lines[n + 1] \in 0..(Len(f1[n].lines) - 1)
      BY <1>a, <3>1, <3>2, LongerKeepsLines DEF Longer
    <3>4. Longer(CommentLine(f1[n], lines[n + 1]), b, f1[n])
      BY <3>3, CommentLineWork
    <3>5. Longer(CommentLine(f1[n], lines[n + 1]), b, w)
      BY <1>a, <3>2, <3>3, <3>4, LongerIsTransitive
    <3> QED BY <3>1, <3>5
  <2> QED BY <2>3, <2>4
<1>3. Nat \subseteq S
  BY <1>1, <1>2, SetInduction
<1>4. Fine(N)
  <2> HIDE DEF Fine
  <2> QED BY <1>0, <1>3
<1> DEFINE Pass(f) == [k \in 0..N |-> IF k = 0 THEN w ELSE CommentLine(f[k - 1], lines[k])]
           after == CHOOSE f : f = Pass(f)
<1>5. CommentLines(w, lines) = after[N]
  BY DEF CommentLines, Sweep
<1>6. \E f : f = Pass(f)
  <2>1. PICK f : Run(N, f)
    BY <1>4
  <2> DEFINE g == [k \in 0..N |-> f[k]]
  <2>2. g = Pass(g)
    BY <1>0, <2>1
  <2> QED BY <2>2
<1>7. after = Pass(after)
  BY <1>6
<1> HIDE DEF after
<1>8. Run(N, after)
  BY <1>0, <1>7
<1> QED BY <1>4, <1>5, <1>8

LEMMA UncommentLinesWork ==
    ASSUME NEW b,
           NEW w,
           Work(w, b),
           NEW lines,
           IsSeq(lines),
           \A n \in 1..Len(lines) : lines[n] \in 0..(Len(w.lines) - 1)
    PROVE  Longer(UncommentLines(w, lines), b, w)
<1> DEFINE N == Len(lines)
           Run(n, f) ==
               /\ f[0] = w
               /\ \A k \in 1..n : f[k] = UncommentLine(f[k - 1], lines[k])
           Fine(n) ==
               /\ \E f : Run(n, f)
               /\ \A f : Run(n, f) => Longer(f[n], b, w)
           S == {n \in Nat : n \in 0..N => Fine(n)}
<1>0. N \in Nat
  BY DEF IsSeq
<1>a. Len(w.lines) \in Nat
  BY DomainOfWork DEF Work
<1>1. 0 \in S
  <2>1. Run(0, [k \in 0..0 |-> w])
    OBVIOUS
  <2>2. ASSUME NEW f, Run(0, f) PROVE Longer(f[0], b, w)
    BY <2>2, LongerIsReflexive
  <2> QED BY <2>1, <2>2
<1>2. ASSUME NEW n \in Nat, n \in S PROVE n + 1 \in S
  <2> SUFFICES ASSUME n + 1 \in 0..N PROVE Fine(n + 1)
    OBVIOUS
  <2>1. PICK f : Run(n, f)
    BY <1>0, <1>2
  <2>2. ASSUME NEW g, \A k \in 0..n : g[k] = f[k], g[n + 1] = UncommentLine(f[n], lines[n + 1])
        PROVE  Run(n + 1, g)
    <3> SUFFICES ASSUME NEW k \in 1..(n + 1) PROVE g[k] = UncommentLine(g[k - 1], lines[k])
      BY <2>1, <2>2
    <3>1. CASE k \in 1..n
      <4>1. k \in 0..n /\ k - 1 \in 0..n
        BY <3>1
      <4> QED BY <2>1, <2>2, <3>1, <4>1
    <3>2. CASE k = n + 1
      <4>1. k - 1 = n /\ n \in 0..n
        BY <3>2
      <4>2. g[k - 1] = f[n]
        BY <2>2, <4>1
      <4> QED BY <2>2, <3>2, <4>2
    <3> QED BY <3>1, <3>2
  <2>3. \E g : Run(n + 1, g)
    <3>1. PICK x : x = UncommentLine(f[n], lines[n + 1])
      OBVIOUS
    <3> DEFINE g == [k \in 0..(n + 1) |-> IF k <= n THEN f[k] ELSE x]
    <3>2. (\A k \in 0..n : g[k] = f[k]) /\ g[n + 1] = x
      OBVIOUS
    <3> HIDE DEF g
    <3> QED BY <2>2, <3>1, <3>2
  <2>4. ASSUME NEW f1, Run(n + 1, f1) PROVE Longer(f1[n + 1], b, w)
    <3>1. Run(n, f1) /\ n + 1 \in 1..N /\ f1[n + 1] = UncommentLine(f1[n], lines[n + 1])
      BY <2>4
    <3>2. Longer(f1[n], b, w)
      BY <1>0, <1>2, <3>1
    <3> HIDE DEF Run
    <3>3. Work(f1[n], b) /\ lines[n + 1] \in 0..(Len(f1[n].lines) - 1)
      BY <1>a, <3>1, <3>2, LongerKeepsLines DEF Longer
    <3>4. Longer(UncommentLine(f1[n], lines[n + 1]), b, f1[n])
      BY <3>3, UncommentLineWork
    <3>5. Longer(UncommentLine(f1[n], lines[n + 1]), b, w)
      BY <1>a, <3>2, <3>3, <3>4, LongerIsTransitive
    <3> QED BY <3>1, <3>5
  <2> QED BY <2>3, <2>4
<1>3. Nat \subseteq S
  BY <1>1, <1>2, SetInduction
<1>4. Fine(N)
  <2> HIDE DEF Fine
  <2> QED BY <1>0, <1>3
<1> DEFINE Pass(f) == [k \in 0..N |-> IF k = 0 THEN w ELSE UncommentLine(f[k - 1], lines[k])]
           after == CHOOSE f : f = Pass(f)
<1>5. UncommentLines(w, lines) = after[N]
  BY DEF UncommentLines, Sweep
<1>6. \E f : f = Pass(f)
  <2>1. PICK f : Run(N, f)
    BY <1>4
  <2> DEFINE g == [k \in 0..N |-> f[k]]
  <2>2. g = Pass(g)
    BY <1>0, <2>1
  <2> QED BY <2>2
<1>7. after = Pass(after)
  BY <1>6
<1> HIDE DEF after
<1>8. Run(N, after)
  BY <1>0, <1>7
<1> QED BY <1>4, <1>5, <1>8

LEMMA ToggleLineCommentOutcome ==
    ASSUME NEW w, Sound(w), NEW v \in ToggleLineComment(w)
    PROVE  Smooth(v, w)
<1> DEFINE A == AffectedLines(w)
           commented == CommentLines(w, Upward(A))
           uncommented == UncommentLines(w, Upward(A))
<1>1. v \in {Recorded(commented, w), Recorded(uncommented, w)}
  BY DEF ToggleLineComment, CommentLines, UncommentLines
<1>2. A \subseteq 0..(Len(w.lines) - 1) /\ A \subseteq Nat /\ IsFiniteSet(A)
  BY LinesAffected
<1> HIDE DEF A
<1>3. IsSeq(Upward(A)) /\ \A n \in 1..Len(Upward(A)) : Upward(A)[n] \in 0..(Len(w.lines) - 1)
  BY <1>2, UpwardIsSeq
<1>4. Work(w, w)
  BY WorkSucceeds
<1>5. Longer(commented, w, w) /\ Longer(uncommented, w, w)
  BY <1>3, <1>4, CommentLinesWork, UncommentLinesWork
<1> HIDE DEF commented, uncommented
<1>6. Succeeds(commented, w) /\ Succeeds(uncommented, w)
  BY <1>5, WorkSucceeds DEF Longer
<1>7. Carried(commented, w) /\ Carried(uncommented, w)
  BY <1>5, CarryingOn DEF Longer
<1> QED BY <1>1, <1>6, <1>7, RecordedEdits

-----------------------------------------------------------------------------
(* RemoveCurrentLines: no cursor has a selection when the lines go, and    *)
(* the cursor of the last line has been sent to the line above.            *)
LEMMA HomeLeavesCarets ==
    ASSUME NEW b, NEW w, Work(w, b)
    PROVE  LET v == MoveHome(w, FALSE)
           IN  Work(v, b) /\ AllCarets(v) /\ v.changed /\ v.lines = w.lines
<1> DEFINE g == [c \in DOMAIN w.cursors |-> At(w.cursors[c].e.line, 0)]
<1>1. PICK clear \in BOOLEAN : clear
  OBVIOUS
<1>2. /\ IsText(w.lines) /\ DOMAIN w.cursors = 1..Len(w.cursors) /\ 0 \in Int
      /\ \A c \in 1..Len(w.cursors) : w.cursors[c].e.line \in 0..(Len(w.lines) - 1)
  <2>1. \A c \in 1..Len(w.cursors) : w.cursors[c].e \in Places(w.lines)
    BY CursorOfWork DEF Work
  <2> QED BY <2>1, DomainOfWork DEF Work, Sound, Shaped, Places
<1>3. \A c \in 1..Len(w.cursors) : g[c] \in Places(w.lines)
  BY <1>2, ColumnIsPlace
<1>4. MoveHome(w, FALSE) = Setting(w, g, clear)
  BY <1>1 DEF MoveHome, SetEachCursor, Setting
<1> DEFINE v == Setting(w, g, clear)
<1> HIDE DEF g
<1>5. Work(v, b) /\ v.lines = w.lines /\ v.changed /\ (clear => AllCarets(v))
  BY <1>3, SettingWork
<1> HIDE DEF v
<1>6. AllCarets(v)
  BY <1>1, <1>5
<1> QED BY <1>4, <1>5, <1>6 DEF v

LEMMA LineRangeInText ==
    ASSUME NEW lines, IsText(lines), NEW l \in 0..(Len(lines) - 1)
    PROVE  LET r == LineRange(lines, l)
           IN  /\ r.start \in Places(lines) /\ r.end \in Places(lines)
               /\ At(r.goesTo, 0) \in Places(lines) /\ At(r.goesTo, 0).line = r.goesTo
               /\ r.start.line # r.end.line => Len(lines) >= 2 /\ r.goesTo <= Len(lines) - 2
               /\ Len(lines) >= 2 =>
                      /\ r.start.line # r.end.line
                      /\ r.goesTo = IF l < Len(lines) - 1 THEN l ELSE Len(lines) - 2
               /\ Len(lines) >= 2 \/ lines[1] # <<>> => Before(r.start, r.end)
<1> DEFINE r == LineRange(lines, l)
           n == Len(lines)
<1>1. n \in Nat /\ n >= 1 /\ 0 \in Int
  BY DEF IsText, IsSeq
<1>2. CASE n > l + 1
  <2>1. r = [goesTo |-> l, start |-> At(l, 0), end |-> At(l + 1, 0)]
    BY <1>2 DEF LineRange
  <2>2. l + 1 \in 0..(n - 1) /\ n >= 2 /\ l <= n - 2
    BY <1>1, <1>2
  <2>3. At(l, 0) \in Places(lines) /\ At(l + 1, 0) \in Places(lines)
    BY <1>1, <2>2, ColumnIsPlace
  <2>4. At(l, 0).line = l /\ At(l + 1, 0).line = l + 1 /\ l # l + 1 /\ l < n - 1
    BY <1>1, <1>2 DEF At
  <2>5. Before(At(l, 0), At(l + 1, 0))
    BY <2>4 DEF Before
  <2> QED BY <2>1, <2>2, <2>3, <2>4, <2>5
<1>3. CASE ~(n > l + 1) /\ l > 0
  <2>1. r = [goesTo |-> l - 1, start |-> EndOfLine(lines, l - 1), end |-> EndOfLine(lines, l)]
    BY <1>3 DEF LineRange
  <2>2. l - 1 \in 0..(n - 1) /\ n >= 2 /\ l - 1 <= n - 2
    BY <1>1, <1>3
  <2>3. EndOfLine(lines, l) \in Places(lines) /\ EndOfLine(lines, l - 1) \in Places(lines)
    BY <1>1, <2>2, ColumnIsPlace DEF EndOfLine
  <2>4. At(l - 1, 0) \in Places(lines) /\ At(l - 1, 0).line = l - 1
    BY <1>1, <2>2, AtIsPlace
  <2>5. EndOfLine(lines, l - 1).line = l - 1 /\ EndOfLine(lines, l).line = l
    BY DEF EndOfLine, At
  <2>6. l - 1 < l /\ l - 1 # l /\ l - 1 = n - 2 /\ ~(l < n - 1)
    BY <1>1, <1>3
  <2>7. Before(EndOfLine(lines, l - 1), EndOfLine(lines, l))
    BY <2>5, <2>6 DEF Before
  <2>8. r.goesTo = n - 2 /\ r.start.line = l - 1 /\ r.end.line = l /\ Before(r.start, r.end)
    BY <2>1, <2>5, <2>6, <2>7
  <2> QED BY <2>1, <2>2, <2>3, <2>4, <2>6, <2>8
<1>4. CASE ~(n > l + 1) /\ ~(l > 0)
  <2>1. r = [goesTo |-> l, start |-> At(l, 0), end |-> EndOfLine(lines, l)]
    BY <1>4 DEF LineRange
  <2>2. EndOfLine(lines, l) \in Places(lines) /\ At(l, 0) \in Places(lines)
    BY <1>1, ColumnIsPlace DEF EndOfLine
  <2>3. EndOfLine(lines, l).line = l /\ At(l, 0).line = l
    BY DEF EndOfLine, At
  <2>4. l = 0 /\ n = 1 /\ ~(n >= 2)
    <3>1. l \in 0..(n - 1) /\ ~(n > l + 1) /\ ~(l > 0)
      BY <1>4
    <3> HIDE DEF n
    <3>2. l = 0
      BY <1>1, <3>1
    <3> QED BY <1>1, <3>1, <3>2
  <2>5. lines[1] # <<>> => Before(At(l, 0), EndOfLine(lines, l))
    <3> SUFFICES ASSUME lines[1] # <<>> PROVE Before(At(l, 0), EndOfLine(lines, l))
      OBVIOUS
    <3>1. IsSeq(lines[1])
      BY <2>4, LineIsSeq
    <3>2. Len(lines[1]) \in Nat /\ Len(lines[1]) # 0
      BY <3>1, EmptySeq DEF IsSeq
    <3>3. PICK x \in Stops(lines[1]) : x.index = 0
      BY <3>2, BlanksAreStops
    <3>4. x \in Stops(lines[l + 1]) /\ x.index < Len(lines[l + 1]) /\ l \in 0..(Len(lines) - 1)
      <4>1. l + 1 = 1
        BY <2>4
      <4>2. x.index < Len(lines[1])
        BY <3>2, <3>3
      <4> QED BY <3>3, <4>1, <4>2
    <3>5. GetLineMaxColumn(lines, l) > 0
      BY <3>4, ColumnsRise
    <3> QED BY <3>5 DEF EndOfLine, At, Before
  <2> QED BY <2>1, <2>2, <2>3, <2>4, <2>5
<1> QED BY <1>2, <1>3, <1>4

Removing(v, b) == Failed(v) \/ (Work(v, b) /\ AllCarets(v))

RemovalStep(w, c) == IF w.aborted THEN w ELSE RemoveLineOf(w, c)

RangeOf(w, c) == LineRange(w.lines, w.cursors[c].e.line)

ToRemove(w, c) ==
    NoteDeletion(SetCursorPosition(w, At(RangeOf(w, c).goesTo, 0), c, TRUE),
                 RangeOf(w, c).start, RangeOf(w, c).end)

LEMMA ToRemoveWork ==
    ASSUME NEW b, NEW w, Work(w, b), AllCarets(w), NEW c \in 1..Len(w.cursors)
    PROVE  LET r == RangeOf(w, c)
               v == ToRemove(w, c)
           IN  /\ Tried(v, b) /\ AllCarets(v) /\ v.lines = w.lines
               /\ Len(v.cursors) = Len(w.cursors) /\ v.cursors[c].e = At(r.goesTo, 0)
               /\ \A d \in 1..Len(w.cursors) : d # c => v.cursors[d] = w.cursors[d]
               /\ Before(r.start, r.end) => Work(v, b)
<1> DEFINE l == w.cursors[c].e.line
           r == LineRange(w.lines, l)
           sent == SetCursorPosition(w, At(r.goesTo, 0), c, TRUE)
           noted == NoteDeletion(sent, r.start, r.end)
<1>1. IsText(w.lines) /\ l \in 0..(Len(w.lines) - 1)
  BY CursorOfWork DEF Work, Sound, Shaped, Places
<1>2. RangeOf(w, c) = r /\ ToRemove(w, c) = noted
  BY DEF RangeOf, ToRemove
<1> HIDE DEF l
<1>3. r.start \in Places(w.lines) /\ r.end \in Places(w.lines) /\ At(r.goesTo, 0) \in Places(w.lines)
  BY <1>1, LineRangeInText
<1> HIDE DEF r
<1>4. PICK clear \in BOOLEAN : clear = TRUE
  OBVIOUS
<1>5. /\ Work(sent, b) /\ sent.lines = w.lines /\ AllCarets(sent)
      /\ sent.cursors[c].e = At(r.goesTo, 0)
      /\ \A d \in 1..Len(w.cursors) : d # c => sent.cursors[d] = w.cursors[d]
      /\ Len(sent.cursors) = Len(w.cursors)
  <2> DEFINE q == At(r.goesTo, 0)
             set == SetCursorPosition(w, q, c, clear)
  <2>1. sent = set
    BY <1>4
  <2>2. q \in Places(w.lines)
    BY <1>3
  <2>4. \A d \in 1..Len(w.cursors) : d # c => set.cursors[d] = w.cursors[d]
    <3>1. WorkFields \subseteq DOMAIN w /\ DOMAIN w.cursors = 1..Len(w.cursors)
      BY DomainOfWork DEF Work, Sound, Shaped
    <3> HIDE DEF q
    <3> QED BY <3>1 DEF SetCursorPosition, WorkFields
  <2>5. DOMAIN set.cursors = DOMAIN w.cursors
    <3>1. WorkFields \subseteq DOMAIN w
      BY DEF Work, Sound, Shaped
    <3> HIDE DEF q
    <3> QED BY <3>1 DEF SetCursorPosition, WorkFields
  <2> HIDE DEF q, sent
  <2>3. /\ Work(set, b) /\ set.lines = w.lines
        /\ clear /\ AllCarets(w) => AllCarets(set)
        /\ clear /\ c \in 1..Len(w.cursors) => set.cursors[c].e = q
    BY <2>2, WorkIsLoose, SetCursorPositionWork
  <2> HIDE DEF set
  <2>6. Len(set.cursors) = Len(w.cursors)
    <3>1. Sound(set) /\ Sound(w)
      BY <2>3 DEF Work
    <3>2. 1..Len(set.cursors) = 1..Len(w.cursors) /\ Len(set.cursors) \in Nat /\ Len(w.cursors) \in Nat
      BY <2>5, <3>1, DomainOfWork
    <3> QED BY <3>2
  <2> QED BY <1>4, <2>1, <2>3, <2>4, <2>6 DEF q
<1> HIDE DEF sent
<1>6. /\ Tried(noted, b) /\ noted.lines = w.lines /\ noted.cursors = sent.cursors
      /\ Before(r.start, r.end) => Work(noted, b)
  BY <1>3, <1>5, NoteDeletionWork
<1> HIDE DEF noted
<1>7. AllCarets(noted)
  BY <1>5, <1>6 DEF AllCarets
<1> QED BY <1>2, <1>5, <1>6, <1>7

LEMMA RemovalStepWork ==
    ASSUME NEW b, NEW w, Work(w, b), AllCarets(w), NEW c \in 1..Len(w.cursors)
    PROVE  Removing(RemovalStep(w, c), b)
<1> DEFINE l == w.cursors[c].e.line
           r == RangeOf(w, c)
           noted == ToRemove(w, c)
           v == IF r.start.line = r.end.line THEN DeleteRange(noted, r.start, r.end)
                ELSE RemoveLine(noted, l, c)
<1>1. IsText(w.lines) /\ l \in 0..(Len(w.lines) - 1)
  BY CursorOfWork DEF Work, Sound, Shaped, Places
<1>2. RemovalStep(w, c) = IF w.aborted THEN w ELSE v
  BY DEF RemovalStep, RemoveLineOf, RemoveLineRange, RemoveNoted, ToRemove, RangeOf
<1>3. /\ r.start \in Places(w.lines) /\ r.end \in Places(w.lines)
      /\ At(r.goesTo, 0).line = r.goesTo
      /\ r.start.line # r.end.line => Len(w.lines) >= 2 /\ r.goesTo <= Len(w.lines) - 2
  BY <1>1, LineRangeInText DEF RangeOf
<1>4. /\ Tried(noted, b) /\ AllCarets(noted) /\ noted.lines = w.lines
      /\ noted.cursors[c].e = At(r.goesTo, 0)
  BY ToRemoveWork
<1> HIDE DEF l, r, noted
<1>5. Work(noted, noted)
  BY <1>4, TriedOrFailed
<1>6. Removing(v, noted)
  <2>1. CASE r.start.line = r.end.line
    <3>2. r.start.line <= r.end.line
      BY <1>3, <2>1 DEF Places
    <3>1. Work(v, noted) /\ AllCarets(v)
      BY <1>3, <1>4, <1>5, <2>1, <3>2, DeleteRangeWork
    <3> QED BY <3>1 DEF Removing
  <2>2. CASE r.start.line # r.end.line
    <3>1. /\ Len(noted.lines) >= 2 /\ l \in 0..(Len(noted.lines) - 1)
          /\ noted.cursors[c].e.line <= Len(noted.lines) - 2
      BY <1>1, <1>3, <1>4, <2>2
    <3>2. v = RemoveLine(noted, l, c)
      BY <2>2
    <3> HIDE DEF v
    <3> QED BY <1>4, <1>5, <3>1, <3>2, RemoveLineWork DEF Removing
  <2> QED BY <2>1, <2>2
<1> HIDE DEF v
<1>7. Removing(v, b)
  BY <1>4, <1>6, TriedOrFailed DEF Removing
<1> QED BY <1>2, <1>7 DEF Removing

\* What RemoveLine does to the cursors, and when it fails its assertion.
LowerCursor(k, l) == IF k.e.line >= l THEN Caret(At(k.e.line - 1, k.e.column)) ELSE k

LEMMA RemoveLineCursors ==
    ASSUME NEW w, Sound(w), NEW l, NEW handled
    PROVE  LET v == RemoveLine(w, l, handled)
           IN  /\ \A d \in 1..Len(w.cursors) :
                      v.cursors[d] = IF d = handled THEN w.cursors[d] ELSE LowerCursor(w.cursors[d], l)
               /\ v.aborted => w.aborted \/ \E d \in 1..Len(w.cursors) :
                                   d # handled /\ w.cursors[d].e.line >= l /\ w.cursors[d].e.line = 0
<1>1. WorkFields \subseteq DOMAIN w /\ DOMAIN w.cursors = 1..Len(w.cursors)
  BY DomainOfWork DEF Sound, Shaped
<1> DEFINE raised(c) == w.cursors[c].e.line >= l /\ c # handled
           v == RemoveLine(w, l, handled)
<1>2. v.cursors = [c \in DOMAIN w.cursors |->
                       IF raised(c) THEN Caret(At(w.cursors[c].e.line - 1, w.cursors[c].e.column))
                       ELSE w.cursors[c]]
  BY <1>1 DEF RemoveLine, WorkFields
<1>3. v.aborted = (w.aborted \/ \E c \in DOMAIN w.cursors : raised(c) /\ w.cursors[c].e.line = 0)
  BY <1>1 DEF RemoveLine, WorkFields
<1> HIDE DEF v
<1>4. \A d \in 1..Len(w.cursors) :
          v.cursors[d] = IF d = handled THEN w.cursors[d] ELSE LowerCursor(w.cursors[d], l)
  BY <1>1, <1>2 DEF LowerCursor
<1>5. v.aborted => w.aborted \/ \E d \in 1..Len(w.cursors) : raised(d) /\ w.cursors[d].e.line = 0
  BY <1>1, <1>3
<1> QED BY <1>4, <1>5 DEF v

\* A step that removes one line of several, or empties the only one, goes well.
LEMMA RemovalStepGoesWell ==
    ASSUME NEW w, Sound(w), AllCarets(w), ~w.aborted, NEW c \in 1..Len(w.cursors),
           Len(w.lines) >= 2 \/ w.lines[1] # <<>>,
           Len(w.lines) >= 2 /\ w.cursors[c].e.line = 0 =>
               \A d \in 1..Len(w.cursors) : d # c => w.cursors[d].e.line # 0
    PROVE  LET l == w.cursors[c].e.line
               x == RemovalStep(w, c)
           IN  /\ ~x.aborted
               /\ Len(w.lines) >= 2 =>
                      /\ Len(x.lines) = Len(w.lines) - 1 /\ (l >= 1 => x.lines[1] = w.lines[1])
                      /\ x.cursors[c].e.line = IF l < Len(w.lines) - 1 THEN l ELSE Len(w.lines) - 2
                      /\ \A d \in 1..Len(w.cursors) :
                             d # c => x.cursors[d] = LowerCursor(w.cursors[d], l)
<1> DEFINE l == w.cursors[c].e.line
           r == RangeOf(w, c)
           noted == ToRemove(w, c)
           x == RemovalStep(w, c)
<1>1. IsText(w.lines) /\ l \in 0..(Len(w.lines) - 1) /\ Len(w.lines) \in Nat /\ Work(w, w)
  BY CursorOfWork, DomainOfWork, WorkSucceeds DEF Sound, Shaped, Places
<1>2. x = IF r.start.line = r.end.line THEN DeleteRange(noted, r.start, r.end)
          ELSE RemoveLine(noted, l, c)
  BY DEF RemovalStep, RemoveLineOf, RemoveLineRange, RemoveNoted, ToRemove, RangeOf
<1>3. /\ r.start \in Places(w.lines) /\ r.end \in Places(w.lines)
      /\ At(r.goesTo, 0).line = r.goesTo
      /\ r.start.line # r.end.line => Len(w.lines) >= 2 /\ r.goesTo <= Len(w.lines) - 2
      /\ Len(w.lines) >= 2 => /\ r.start.line # r.end.line
                              /\ r.goesTo = IF l < Len(w.lines) - 1 THEN l ELSE Len(w.lines) - 2
      /\ Before(r.start, r.end)
  BY <1>1, LineRangeInText DEF RangeOf
<1>4. /\ Work(noted, w) /\ AllCarets(noted) /\ noted.lines = w.lines
      /\ Len(noted.cursors) = Len(w.cursors) /\ noted.cursors[c].e = At(r.goesTo, 0)
      /\ \A d \in 1..Len(w.cursors) : d # c => noted.cursors[d] = w.cursors[d]
  BY <1>1, <1>3, ToRemoveWork
<1> HIDE DEF l, r, noted, x
<1>5. ~noted.aborted /\ Sound(noted)
  BY <1>4 DEF Work, Continues
<1>6. CASE r.start.line = r.end.line
  <2>3. r.start.line <= r.end.line
    BY <1>3, <1>6 DEF Places
  <2>1. Work(x, w)
    BY <1>2, <1>3, <1>4, <1>6, <2>3, DeleteRangeWork
  <2>2. ~x.aborted
    BY <2>1 DEF Work, Continues
  <2> QED BY <1>3, <1>6, <2>2 DEF x, l
<1>7. CASE r.start.line # r.end.line
  <2>1. x = RemoveLine(noted, l, c) /\ Len(w.lines) >= 2
    BY <1>2, <1>3, <1>7
  <2>2. /\ \A d \in 1..Len(w.cursors) :
               x.cursors[d] = IF d = c THEN noted.cursors[d] ELSE LowerCursor(noted.cursors[d], l)
        /\ x.aborted => \E d \in 1..Len(w.cursors) :
               d # c /\ noted.cursors[d].e.line >= l /\ noted.cursors[d].e.line = 0
    BY <1>4, <1>5, <2>1, RemoveLineCursors
  <2>3. ~x.aborted
    <3>1. \A d \in 1..Len(w.cursors) : d # c /\ 0 >= l => w.cursors[d].e.line # 0
      <4>1. 0 >= l => l = 0
        BY <1>1
      <4> QED BY <2>1, <4>1 DEF l
    <3> QED BY <1>4, <2>2, <3>1
  <2>4. x.cursors[c].e.line = IF l < Len(w.lines) - 1 THEN l ELSE Len(w.lines) - 2
    BY <1>3, <1>4, <2>1, <2>2
  <2>5. \A d \in 1..Len(w.cursors) : d # c => x.cursors[d] = LowerCursor(w.cursors[d], l)
    BY <1>4, <2>2
  <2>6. Len(x.lines) = Len(w.lines) - 1 /\ (l >= 1 => x.lines[1] = w.lines[1])
    <3>1. noted.cursors[c].e.line <= Len(noted.lines) - 2
      BY <1>3, <1>4, <1>7
    <3>2. l \in 0..(Len(noted.lines) - 1) /\ Len(noted.lines) >= 2
      BY <1>1, <1>4, <2>1
    <3>3. /\ Len(x.lines) = Len(noted.lines) - 1
          /\ l >= 1 => x.lines[1] = noted.lines[1]
      <4>1. Work(noted, w) /\ AllCarets(noted) /\ x = RemoveLine(noted, l, c)
        BY <1>4, <2>1
      <4> QED BY <3>1, <3>2, <4>1, RemoveLineWork
    <3> QED BY <1>4, <3>3
  <2> QED BY <2>3, <2>4, <2>5, <2>6 DEF x, l
<1> QED BY <1>6, <1>7

RemoveEachLine(w) == BottomUp(w, RemoveLineOf)

LEMMA RemoveEachLineWork ==
    ASSUME NEW w,
           Sound(w),
           AllCarets(w)
    PROVE  Removing(RemoveEachLine(w), w)
<1> DEFINE N == Len(Downward(DOMAIN w.cursors))
           Run(n, f) ==
               /\ f[0] = w
               /\ \A k \in 1..n : f[k] = RemovalStep(f[k - 1], Downward(DOMAIN w.cursors)[k])
           Fine(n) ==
               /\ \E f : Run(n, f)
               /\ \A f : Run(n, f) => Removing(f[n], w)
           S == {n \in Nat : n \in 0..N => Fine(n)}
<1>0. N \in Nat
  BY CursorNumbers
<1>1. 0 \in S
  <2>1. Run(0, [k \in 0..0 |-> w])
    OBVIOUS
  <2>2. ASSUME NEW f, Run(0, f) PROVE Removing(f[0], w)
    BY <2>2, WorkSucceeds DEF Removing
  <2> QED BY <2>1, <2>2
<1>2. ASSUME NEW n \in Nat, n \in S PROVE n + 1 \in S
  <2> SUFFICES ASSUME n + 1 \in 0..N PROVE Fine(n + 1)
    OBVIOUS
  <2>1. PICK f : Run(n, f)
    BY <1>0, <1>2
  <2>2. ASSUME NEW g, \A k \in 0..n : g[k] = f[k],
               g[n + 1] = RemovalStep(f[n], Downward(DOMAIN w.cursors)[n + 1])
        PROVE  Run(n + 1, g)
    <3> SUFFICES ASSUME NEW k \in 1..(n + 1) PROVE g[k] = RemovalStep(g[k - 1], Downward(DOMAIN w.cursors)[k])
      BY <2>1, <2>2
    <3>1. CASE k \in 1..n
      <4>1. k \in 0..n /\ k - 1 \in 0..n
        BY <3>1
      <4> QED BY <2>1, <2>2, <3>1, <4>1
    <3>2. CASE k = n + 1
      <4>1. k - 1 = n /\ n \in 0..n
        BY <3>2
      <4>2. g[k - 1] = f[n]
        BY <2>2, <4>1
      <4> QED BY <2>2, <3>2, <4>2
    <3> QED BY <3>1, <3>2
  <2>3. \E g : Run(n + 1, g)
    <3>1. PICK x : x = RemovalStep(f[n], Downward(DOMAIN w.cursors)[n + 1])
      OBVIOUS
    <3> DEFINE g == [k \in 0..(n + 1) |-> IF k <= n THEN f[k] ELSE x]
    <3>2. (\A k \in 0..n : g[k] = f[k]) /\ g[n + 1] = x
      OBVIOUS
    <3> HIDE DEF g
    <3> QED BY <2>2, <3>1, <3>2
  <2>4. ASSUME NEW f1, Run(n + 1, f1) PROVE Removing(f1[n + 1], w)
    <3>1. Run(n, f1) /\ n + 1 \in 1..N /\ f1[n + 1] = RemovalStep(f1[n], Downward(DOMAIN w.cursors)[n + 1])
      BY <2>4
    <3>2. Removing(f1[n], w)
      BY <1>0, <1>2, <3>1
    <3> HIDE DEF Run
    <3>3. CASE Failed(f1[n])
      <4>1. f1[n + 1] = f1[n]
        BY <3>1, <3>3 DEF RemovalStep, Failed
      <4> QED BY <3>2, <4>1
    <3>4. CASE Work(f1[n], w) /\ AllCarets(f1[n])
      <4>1. Downward(DOMAIN w.cursors)[n + 1] \in 1..Len(f1[n].cursors)
        BY <3>1, <3>4, CursorNumbers DEF Work, Continues, Retains
      <4> QED BY <3>1, <3>4, <4>1, RemovalStepWork
    <3> QED BY <3>2, <3>3, <3>4 DEF Removing
  <2> QED BY <2>3, <2>4
<1>3. Nat \subseteq S
  BY <1>1, <1>2, SetInduction
<1>4. Fine(N)
  <2> HIDE DEF Fine
  <2> QED BY <1>0, <1>3
<1> DEFINE Pass(f) == [k \in 0..N |-> IF k = 0 THEN w
                                      ELSE RemovalStep(f[k - 1], Downward(DOMAIN w.cursors)[k])]
           after == CHOOSE f : f = Pass(f)
<1>5. RemoveEachLine(w) = after[N]
  BY DEF RemoveEachLine, BottomUp, Sweep, RemovalStep
<1>6. \E f : f = Pass(f)
  <2>1. PICK f : Run(N, f)
    BY <1>4
  <2> DEFINE g == [k \in 0..N |-> f[k]]
  <2>2. g = Pass(g)
    BY <1>0, <2>1
  <2> QED BY <2>2
<1>7. after = Pass(after)
  BY <1>6
<1> HIDE DEF after
<1>8. Run(N, after)
  BY <1>0, <1>7
<1> QED BY <1>4, <1>5, <1>8

\* One cursor to a line, from top to bottom.
Rising(w) ==
    /\ AllCarets(w)
    /\ \A c \in 1..(Len(w.cursors) - 1) : w.cursors[c].e.line < w.cursors[c + 1].e.line

LEMMA RisingLines ==
    ASSUME NEW w, Sound(w), Rising(w), LeavesLine(w)
    PROVE  LET N == Len(w.cursors)
           IN  /\ \A c \in 1..N : /\ w.cursors[c].e.line \in 0..(Len(w.lines) - 1)
                                  /\ w.cursors[c].e.line >= c - 1
               /\ \A c, d \in 1..N : d < c => w.cursors[d].e.line < w.cursors[c].e.line
               /\ N <= Len(w.lines) /\ (N = Len(w.lines) => w.lines[1] # <<>>)
<1> DEFINE N == Len(w.cursors)
           L == Len(w.lines)
           line(c) == w.cursors[c].e.line
<1>1. N \in Nat /\ N >= 1 /\ L \in Nat /\ DOMAIN w.cursors = 1..N
  BY DomainOfWork
<1>2. \A c \in 1..N : line(c) \in 0..(L - 1)
  BY CursorOfWork DEF Places
<1>3. \A c \in 1..(N - 1) : line(c) < line(c + 1)
  BY DEF Rising
<1>4. w.lines[1] # <<>> \/ \E l \in 0..(L - 1) : \A c \in 1..N : line(c) # l
  BY <1>1 DEF LeavesLine
<1> HIDE DEF N, L, line
<1>5. \A c \in 1..N : line(c) >= c - 1
  <2> DEFINE S == {n \in Nat : n + 1 <= N => line(n + 1) >= n}
  <2>1. 0 \in S
    <3>1. 0 + 1 \in 1..N
      BY <1>1
    <3>2. line(0 + 1) \in 0..(L - 1)
      BY <1>2, <3>1
    <3> QED BY <1>1, <3>2
  <2>2. ASSUME NEW n \in Nat, n \in S PROVE n + 1 \in S
    <3> SUFFICES ASSUME n + 1 + 1 <= N PROVE line(n + 1 + 1) >= n + 1
      OBVIOUS
    <3>1. n + 1 \in 1..(N - 1) /\ n + 1 \in 1..N /\ n + 1 + 1 \in 1..N
      BY <1>1
    <3>2. line(n + 1) >= n
      BY <1>1, <2>2
    <3>3. line(n + 1) < line(n + 1 + 1) /\ line(n + 1) \in Int /\ line(n + 1 + 1) \in Int
      BY <1>1, <1>2, <1>3, <3>1
    <3> QED BY <3>2, <3>3
  <2>3. Nat \subseteq S
    <3> HIDE DEF S
    <3> QED BY <2>1, <2>2, SetInduction
  <2> TAKE c \in 1..N
  <2>4. c - 1 \in Nat /\ c - 1 + 1 = c /\ c <= N
    BY <1>1
  <2>5. c - 1 \in S
    BY <2>3, <2>4
  <2> QED BY <2>4, <2>5
<1>6. \A c, d \in 1..N : d < c => line(d) < line(c)
  <2> TAKE c, d \in 1..N
  <2> HAVE d < c
  <2> DEFINE S == {n \in Nat : d + 1 + n <= N => line(d) < line(d + 1 + n)}
  <2>1. 0 \in S
    <3> SUFFICES ASSUME d + 1 + 0 <= N PROVE line(d) < line(d + 1 + 0)
      OBVIOUS
    <3>1. d \in 1..(N - 1) /\ d + 1 + 0 = d + 1
      BY <1>1
    <3> QED BY <1>3, <3>1
  <2>2. ASSUME NEW n \in Nat, n \in S PROVE n + 1 \in S
    <3> SUFFICES ASSUME d + 1 + (n + 1) <= N PROVE line(d) < line(d + 1 + (n + 1))
      OBVIOUS
    <3> DEFINE k == d + 1 + n
    <3>1. k \in 1..(N - 1) /\ k \in 1..N /\ k + 1 \in 1..N /\ d + 1 + (n + 1) = k + 1 /\ k <= N
      BY <1>1
    <3>2. line(d) < line(k)
      BY <2>2, <3>1
    <3> HIDE DEF k
    <3>3. line(k) < line(k + 1) /\ line(k) \in Int /\ line(k + 1) \in Int /\ line(d) \in Int
      BY <1>1, <1>2, <1>3, <3>1
    <3>4. line(d) < line(k + 1)
      BY <3>2, <3>3
    <3> QED BY <3>1, <3>4
  <2>3. Nat \subseteq S
    <3> HIDE DEF S
    <3> QED BY <2>1, <2>2, SetInduction
  <2> DEFINE n == c - d - 1
  <2>4. n \in Nat /\ d + 1 + n = c /\ c <= N
    BY <1>1
  <2> HIDE DEF n
  <2>5. n \in S
    BY <2>3, <2>4
  <2> QED BY <2>4, <2>5
<1>7. N <= L
  <2>1. N \in 1..N
    BY <1>1
  <2>2. line(N) \in 0..(L - 1) /\ line(N) >= N - 1
    BY <1>2, <1>5, <2>1
  <2> QED BY <1>1, <2>2
<1>8. ASSUME N = L PROVE w.lines[1] # <<>>
  <2>1. ASSUME NEW l \in 0..(L - 1) PROVE line(l + 1) = l
    <3> DEFINE T == {n \in Nat : n < N => line(N - n) <= N - n - 1}
    <3>1. 0 \in T
      <4>1. N - 0 = N /\ N \in 1..N
        BY <1>1
      <4>2. line(N) \in 0..(L - 1)
        BY <1>2, <4>1
      <4>3. line(N) <= N - 0 - 1
        BY <1>1, <1>8, <4>2
      <4> QED BY <4>1, <4>3
    <3>2. ASSUME NEW n \in Nat, n \in T PROVE n + 1 \in T
      <4> SUFFICES ASSUME n + 1 < N PROVE line(N - (n + 1)) <= N - (n + 1) - 1
        OBVIOUS
      <4> DEFINE k == N - (n + 1)
      <4>1. k \in 1..(N - 1) /\ k \in 1..N /\ k + 1 \in 1..N /\ N - n = k + 1 /\ n < N
        BY <1>1
      <4>2. line(k + 1) <= k + 1 - 1
        BY <3>2, <4>1
      <4> HIDE DEF k
      <4>3. line(k) < line(k + 1) /\ line(k) \in Int /\ line(k + 1) \in Int
        BY <1>1, <1>2, <1>3, <4>1
      <4>4. line(k) <= k - 1
        BY <4>1, <4>2, <4>3
      <4> QED BY <4>4 DEF k
    <3>3. Nat \subseteq T
      <4> HIDE DEF T
      <4> QED BY <3>1, <3>2, SetInduction
    <3> DEFINE n == N - (l + 1)
    <3>4. n \in Nat /\ n < N /\ N - n = l + 1 /\ l + 1 \in 1..N /\ l + 1 - 1 = l
      BY <1>1, <1>8
    <3> HIDE DEF n
    <3>5. n \in T
      BY <3>3, <3>4
    <3>6. line(l + 1) <= l /\ line(l + 1) >= l /\ line(l + 1) \in Int
      BY <1>1, <1>2, <1>5, <3>4, <3>5
    <3> QED BY <3>6
  <2>2. \A l \in 0..(L - 1) : l + 1 \in 1..N
    BY <1>1, <1>8
  <2> QED BY <1>4, <2>1, <2>2
<1> QED BY <1>2, <1>5, <1>6, <1>7, <1>8 DEF N, L, line

(* After n lines are gone: the other cursors are where they were, as many  *)
(* lines are left as there can be, and the cursors whose lines are gone    *)
(* are not above those to go.                                              *)
Cleared(v, w, n) ==
    LET N == Len(w.cursors)
    IN  /\ Work(v, w) /\ AllCarets(v)
        /\ \A d \in 1..(N - n) : v.cursors[d] = w.cursors[d]
        /\ n < N => /\ Len(v.lines) = Len(w.lines) - n /\ v.lines[1] = w.lines[1]
                    /\ \A d \in (N - n + 1)..N :
                           \/ v.cursors[d].e.line >= w.cursors[N - n + 1].e.line
                           \/ v.cursors[d].e.line >= Len(v.lines) - 1

LEMMA LowerCursorLine ==
    ASSUME NEW k, NEW l
    PROVE  LowerCursor(k, l).e.line = IF k.e.line >= l THEN k.e.line - 1 ELSE k.e.line
BY DEF LowerCursor, Caret, At

LEMMA ClearedStep ==
    ASSUME NEW w, Sound(w), Rising(w), LeavesLine(w), ~w.aborted,
           NEW n \in Nat, n + 1 <= Len(w.cursors), NEW v, Cleared(v, w, n)
    PROVE  Cleared(RemovalStep(v, Downward(DOMAIN w.cursors)[n + 1]), w, n + 1)
<1> DEFINE N == Len(w.cursors)
           L == Len(w.lines)
           line(d) == w.cursors[d].e.line
           c == N - n
           l == line(c)
           x == RemovalStep(v, c)
           M == Len(v.lines)
<1>1. N \in Nat /\ L \in Nat /\ DOMAIN w.cursors = 1..N /\ n + 1 <= N
  BY DomainOfWork
<1>2. c \in 1..N /\ Downward(DOMAIN w.cursors)[n + 1] = c
  <2>1. n + 1 \in 1..N /\ N + 1 - (n + 1) = N - n /\ N - n \in 1..N
    <3> HIDE DEF N
    <3> QED BY <1>1
  <2> QED BY <1>1, <2>1, DownFromLast
<1>3. /\ \A d \in 1..N : line(d) \in 0..(L - 1) /\ line(d) >= d - 1
      /\ \A d, e \in 1..N : d < e => line(d) < line(e)
      /\ N <= L /\ (N = L => w.lines[1] # <<>>)
  BY RisingLines
<1>4. /\ Work(v, w) /\ Sound(v) /\ AllCarets(v) /\ ~v.aborted
      /\ \A d \in 1..c : v.cursors[d] = w.cursors[d]
      /\ M = L - n /\ v.lines[1] = w.lines[1]
      /\ \A d \in (c + 1)..N : \/ v.cursors[d].e.line >= line(c + 1)
                               \/ v.cursors[d].e.line >= M - 1
  BY <1>1 DEF Cleared, Work, Continues
<1>5. Len(v.cursors) = N /\ M \in Nat /\ \A d \in 1..N : v.cursors[d].e.line \in 0..(M - 1)
  <2>1. DOMAIN v.cursors = 1..Len(v.cursors) /\ Len(v.cursors) \in Nat /\ M \in Nat
    BY <1>4, DomainOfWork
  <2>2. DOMAIN v.cursors = DOMAIN w.cursors
    BY <1>4 DEF Work, Continues, Retains
  <2>3. Len(v.cursors) = N
    BY <1>1, <2>1, <2>2
  <2>4. \A d \in 1..N : v.cursors[d].e \in Places(v.lines)
    BY <1>4, <2>3, CursorOfWork
  <2> QED BY <2>1, <2>3, <2>4 DEF Places
<1>6. v.cursors[c].e.line = l /\ l \in 0..(M - 1) /\ l >= c - 1 /\ M >= c
  <2>1. c \in 1..c
    <3> HIDE DEF N
    <3> QED BY <1>1, <1>2
  <2> HIDE DEF c
  <2>2. v.cursors[c] = w.cursors[c]
    BY <1>4, <2>1
  <2>3. v.cursors[c].e.line = l /\ l \in 0..(M - 1) /\ l >= c - 1
    <3>1. c \in 1..N /\ line(c) >= c - 1
      BY <1>2, <1>3
    <3> QED BY <1>5, <2>2, <3>1
  <2>4. M >= c
    <3>1. M = L - n /\ N <= L /\ c = N - n
      BY <1>3, <1>4 DEF c
    <3> HIDE DEF N, L, M
    <3> QED BY <1>1, <3>1
  <2> QED BY <2>3, <2>4
<1> HIDE DEF line, l, x, N, L, M
<1>7. M >= 2 \/ v.lines[1] # <<>>
  <2>1. ASSUME ~(M >= 2) PROVE N = L
    <3>1. M = L - n /\ M >= c /\ c = N - n /\ N <= L /\ c >= 1
      <4>1. c \in 1..N
        BY <1>2
      <4> HIDE DEF c
      <4>2. c >= 1
        BY <1>1, <4>1
      <4> QED BY <1>3, <1>4, <1>6, <4>2 DEF c, N, L, M
    <3>2. N \in Nat /\ L \in Nat /\ n \in Nat
      BY <1>1
    <3> QED BY <2>1, <3>1, <3>2
  <2> QED BY <1>3, <1>4, <2>1
<1>8. ASSUME M >= 2, l = 0, NEW d \in 1..N, d # c PROVE v.cursors[d].e.line # 0
  <2>1. c = 1 /\ d \in (c + 1)..N /\ c + 1 \in 1..N
    BY <1>1, <1>2, <1>6, <1>8
  <2>2. line(c + 1) >= 1 /\ line(c + 1) \in Int
    <3>1. line(c + 1) >= c + 1 - 1 /\ line(c + 1) \in 0..(L - 1)
      BY <1>3, <2>1
    <3> QED BY <1>1, <2>1, <3>1
  <2>3. v.cursors[d].e.line >= line(c + 1) \/ v.cursors[d].e.line >= M - 1
    BY <1>4, <2>1
  <2> DEFINE i == v.cursors[d].e.line
  <2>4. i \in Int /\ (i >= line(c + 1) \/ i >= M - 1)
    BY <1>5, <2>3
  <2> HIDE DEF i
  <2>5. i # 0
    BY <1>5, <1>8, <2>2, <2>4
  <2> QED BY <2>5 DEF i
<1>9. /\ ~x.aborted
      /\ M >= 2 =>
             /\ Len(x.lines) = M - 1 /\ (l >= 1 => x.lines[1] = v.lines[1])
             /\ x.cursors[c].e.line = IF l < M - 1 THEN l ELSE M - 2
             /\ \A d \in 1..N : d # c => x.cursors[d] = LowerCursor(v.cursors[d], l)
  <2>1. /\ c \in 1..Len(v.cursors)
        /\ Len(v.lines) >= 2 \/ v.lines[1] # <<>>
        /\ Len(v.lines) >= 2 /\ v.cursors[c].e.line = 0 =>
               \A d \in 1..Len(v.cursors) : d # c => v.cursors[d].e.line # 0
    BY <1>2, <1>5, <1>6, <1>7, <1>8 DEF M
  <2> HIDE DEF c
  <2>2. LET k == v.cursors[c].e.line
            y == RemovalStep(v, c)
        IN  /\ ~y.aborted
            /\ Len(v.lines) >= 2 =>
                   /\ Len(y.lines) = Len(v.lines) - 1 /\ (k >= 1 => y.lines[1] = v.lines[1])
                   /\ y.cursors[c].e.line = IF k < Len(v.lines) - 1 THEN k ELSE Len(v.lines) - 2
                   /\ \A d \in 1..Len(v.cursors) :
                          d # c => y.cursors[d] = LowerCursor(v.cursors[d], k)
    BY <1>4, <2>1, RemovalStepGoesWell
  <2> QED BY <1>5, <1>6, <2>2 DEF x, M
<1>10. Work(x, w) /\ AllCarets(x)
  <2>1. c \in 1..Len(v.cursors)
    BY <1>2, <1>5
  <2> HIDE DEF c
  <2>2. Removing(x, w)
    BY <1>4, <2>1, RemovalStepWork DEF x
  <2> QED BY <1>9, <2>2 DEF Removing, Failed
<1>11. CASE n + 1 = N
  <2>1. N - (n + 1) = 0 /\ ~(n + 1 < N)
    BY <1>1, <1>11
  <2>2. 1..(N - (n + 1)) = {}
    <3> HIDE DEF N
    <3> QED BY <2>1
  <2> QED BY <1>2, <1>10, <2>1, <2>2 DEF Cleared, N, x
<1>12. CASE n + 1 < N
  <2>1. c >= 2 /\ l >= 1 /\ M >= 2 /\ N - (n + 1) = c - 1 /\ N - (n + 1) + 1 = c
        /\ l \in Nat
    BY <1>1, <1>2, <1>5, <1>6, <1>12
  <2>2. Len(x.lines) = L - (n + 1) /\ x.lines[1] = w.lines[1] /\ Len(x.lines) = M - 1
    BY <1>1, <1>4, <1>9, <2>1
  <2>3. ASSUME NEW d \in 1..(c - 1) PROVE x.cursors[d] = w.cursors[d]
    <3>1. d \in 1..N /\ d \in 1..c /\ d # c /\ d < c
      BY <1>1, <1>2
    <3>2. line(d) < l /\ line(d) \in Int
      <4>1. c \in 1..N
        BY <1>2
      <4> HIDE DEF c, N
      <4>2. line(d) < line(c) /\ line(d) \in 0..(L - 1)
        BY <1>3, <3>1, <4>1
      <4> QED BY <1>1, <4>2 DEF l
    <3>3. ~(line(d) >= l)
      BY <2>1, <3>2
    <3>4. LowerCursor(w.cursors[d], l) = w.cursors[d]
      BY <3>3 DEF LowerCursor, line
    <3>5. v.cursors[d] = w.cursors[d] /\ x.cursors[d] = LowerCursor(v.cursors[d], l)
      BY <1>4, <1>9, <2>1, <3>1
    <3> QED BY <3>4, <3>5
  <2>4. ASSUME NEW d \in c..N PROVE x.cursors[d].e.line >= l \/ x.cursors[d].e.line >= Len(x.lines) - 1
    <3>1. CASE d = c
      <4>1. x.cursors[d].e.line = IF l < M - 1 THEN l ELSE M - 2
        BY <1>9, <2>1, <3>1
      <4> DEFINE i == x.cursors[d].e.line
      <4>2. i = IF l < M - 1 THEN l ELSE M - 2
        BY <4>1
      <4> HIDE DEF i
      <4>3. i >= l \/ i >= M - 1 - 1
        BY <1>5, <2>1, <4>2
      <4> QED BY <2>2, <4>3 DEF i
    <3>2. CASE d # c
      <4>1. d \in 1..N /\ d \in (c + 1)..N /\ c + 1 \in 1..N
        <5>1. c \in 1..N /\ N \in Nat
          BY <1>1, <1>2
        <5> HIDE DEF c
        <5> QED BY <3>2, <5>1
      <4> DEFINE i == v.cursors[d].e.line
                 k == x.cursors[d].e.line
      <4>2. x.cursors[d] = LowerCursor(v.cursors[d], l)
        BY <1>9, <2>1, <3>2, <4>1
      <4>3. k = IF i >= l THEN i - 1 ELSE i
        BY <4>2, LowerCursorLine
      <4>4. i \in Int /\ (i >= line(c + 1) \/ i >= M - 1)
        BY <1>4, <1>5, <4>1
      <4>5. line(c + 1) > l /\ line(c + 1) \in Int
        <5>1. c < c + 1 /\ c \in 1..N /\ c + 1 \in 1..N
          BY <1>1, <1>2, <4>1
        <5> HIDE DEF c, N
        <5>2. line(c) < line(c + 1) /\ line(c) \in 0..(L - 1) /\ line(c + 1) \in 0..(L - 1)
          BY <1>3, <5>1
        <5> HIDE DEF line, L
        <5> QED BY <5>2 DEF l
      <4> HIDE DEF i, k
      <4>6. k >= l \/ k >= M - 1 - 1
        BY <1>5, <1>6, <2>1, <4>3, <4>4, <4>5
      <4> QED BY <2>2, <4>6 DEF k
    <3> QED BY <3>1, <3>2
  <2>5. Cleared(x, w, n + 1)
    <3>1. \A d \in 1..(N - (n + 1)) : x.cursors[d] = w.cursors[d]
      BY <2>1, <2>3
    <3>2. \A d \in (N - (n + 1) + 1)..N :
              \/ x.cursors[d].e.line >= w.cursors[N - (n + 1) + 1].e.line
              \/ x.cursors[d].e.line >= Len(x.lines) - 1
      BY <2>1, <2>4 DEF l, line
    <3> QED BY <1>10, <2>2, <3>1, <3>2 DEF Cleared, N, L
  <2> QED BY <1>2, <2>5 DEF x
<1> QED BY <1>1, <1>11, <1>12

LEMMA ClearedAtFirst ==
    ASSUME NEW w, Sound(w), Rising(w)
    PROVE  Cleared(w, w, 0)
<1>1. Len(w.cursors) \in Nat /\ Len(w.lines) \in Nat
  BY DomainOfWork
<1>2. /\ Len(w.cursors) - 0 = Len(w.cursors) /\ Len(w.lines) - 0 = Len(w.lines)
      /\ (Len(w.cursors) - 0 + 1)..Len(w.cursors) = {}
  BY <1>1
<1> QED BY <1>2, WorkSucceeds DEF Cleared, Rising

LEMMA RemoveEachLineGoesWell ==
    ASSUME NEW w, Sound(w), Rising(w), LeavesLine(w), ~w.aborted
    PROVE  Work(RemoveEachLine(w), w)
<1> DEFINE N == Len(Downward(DOMAIN w.cursors))
           Run(n, f) ==
               /\ f[0] = w
               /\ \A k \in 1..n : f[k] = RemovalStep(f[k - 1], Downward(DOMAIN w.cursors)[k])
           Fine(n) ==
               /\ \E f : Run(n, f)
               /\ \A f : Run(n, f) => Cleared(f[n], w, n)
           S == {n \in Nat : n \in 0..N => Fine(n)}
<1>0. N \in Nat
  BY CursorNumbers
<1>z. N = Len(w.cursors)
  BY DomainOfWork, DownFromLast
<1>1. 0 \in S
  <2>1. Run(0, [k \in 0..0 |-> w])
    OBVIOUS
  <2>2. ASSUME NEW f, Run(0, f) PROVE Cleared(f[0], w, 0)
    BY <2>2, ClearedAtFirst
  <2> QED BY <2>1, <2>2
<1>2. ASSUME NEW n \in Nat, n \in S PROVE n + 1 \in S
  <2> SUFFICES ASSUME n + 1 \in 0..N PROVE Fine(n + 1)
    OBVIOUS
  <2>1. PICK f : Run(n, f)
    BY <1>0, <1>2
  <2>2. ASSUME NEW g, \A k \in 0..n : g[k] = f[k],
               g[n + 1] = RemovalStep(f[n], Downward(DOMAIN w.cursors)[n + 1])
        PROVE  Run(n + 1, g)
    <3> SUFFICES ASSUME NEW k \in 1..(n + 1) PROVE g[k] = RemovalStep(g[k - 1], Downward(DOMAIN w.cursors)[k])
      BY <2>1, <2>2
    <3>1. CASE k \in 1..n
      <4>1. k \in 0..n /\ k - 1 \in 0..n
        BY <3>1
      <4> QED BY <2>1, <2>2, <3>1, <4>1
    <3>2. CASE k = n + 1
      <4>1. k - 1 = n /\ n \in 0..n
        BY <3>2
      <4>2. g[k - 1] = f[n]
        BY <2>2, <4>1
      <4> QED BY <2>2, <3>2, <4>2
    <3> QED BY <3>1, <3>2
  <2>3. \E g : Run(n + 1, g)
    <3>1. PICK x : x = RemovalStep(f[n], Downward(DOMAIN w.cursors)[n + 1])
      OBVIOUS
    <3> DEFINE g == [k \in 0..(n + 1) |-> IF k <= n THEN f[k] ELSE x]
    <3>2. (\A k \in 0..n : g[k] = f[k]) /\ g[n + 1] = x
      OBVIOUS
    <3> HIDE DEF g
    <3> QED BY <2>2, <3>1, <3>2
  <2>4. ASSUME NEW f1, Run(n + 1, f1) PROVE Cleared(f1[n + 1], w, n + 1)
    <3>1. Run(n, f1) /\ n + 1 <= N /\ f1[n + 1] = RemovalStep(f1[n], Downward(DOMAIN w.cursors)[n + 1])
      BY <2>4
    <3>2. Cleared(f1[n], w, n)
      BY <1>0, <1>2, <3>1
    <3>3. n + 1 <= Len(w.cursors)
      BY <1>z, <3>1
    <3> HIDE DEF Run
    <3> QED BY <3>1, <3>2, <3>3, ClearedStep
  <2> QED BY <2>3, <2>4
<1>3. Nat \subseteq S
  BY <1>1, <1>2, SetInduction
<1>4. Fine(N)
  <2> HIDE DEF Fine
  <2> QED BY <1>0, <1>3
<1> DEFINE Pass(f) == [k \in 0..N |-> IF k = 0 THEN w
                                      ELSE RemovalStep(f[k - 1], Downward(DOMAIN w.cursors)[k])]
           after == CHOOSE f : f = Pass(f)
<1>5. RemoveEachLine(w) = after[N]
  BY DEF RemoveEachLine, BottomUp, Sweep, RemovalStep
<1>6. \E f : f = Pass(f)
  <2>1. PICK f : Run(N, f)
    BY <1>4
  <2> DEFINE g == [k \in 0..N |-> f[k]]
  <2>2. g = Pass(g)
    BY <1>0, <2>1
  <2> QED BY <2>2
<1>7. after = Pass(after)
  BY <1>6
<1> HIDE DEF after
<1>8. Run(N, after)
  BY <1>0, <1>7
<1> QED BY <1>4, <1>5, <1>8 DEF Cleared

LEMMA SortedHome ==
    ASSUME NEW w, Sound(w), ~w.dragging, LeavesLine(w),
           NEW u \in OnCursorPositionChanged(MoveHome(w, FALSE))
    PROVE  Sound(u) /\ Rising(u) /\ LeavesLine(u)
<1> DEFINE home == MoveHome(w, FALSE)
<1>1. WorkFields \subseteq DOMAIN w /\ DOMAIN w.cursors = 1..Len(w.cursors) /\ Work(w, w)
  BY DomainOfWork, WorkSucceeds DEF Sound, Shaped
<1>2. Sound(home) /\ AllCarets(home) /\ home.lines = w.lines
  BY <1>1, HomeLeavesCarets DEF Work
<1>3. ~home.dragging
  BY <1>1 DEF MoveHome, SetEachCursor, WorkFields
<1>4. /\ DOMAIN home.cursors = DOMAIN w.cursors
      /\ \A c \in DOMAIN w.cursors : home.cursors[c] = Caret(At(w.cursors[c].e.line, 0))
  BY <1>1 DEF MoveHome, SetEachCursor, WorkFields, Caret
<1>5. u \in SortAndMerge(home)
  BY <1>3 DEF OnCursorPositionChanged
<1> HIDE DEF home
<1>6. Sound(u) /\ AllCarets(u) /\ u.lines = w.lines
  BY <1>2, <1>5, CursorsStaySound DEF Succeeds
<1>7. Apart(u.cursors) /\ TakenFrom(u, home)
  BY <1>2, <1>5, SortingSetsApart, CaretsAreTaken DEF FewCursorsOf
<1>8. DOMAIN u.cursors = 1..Len(u.cursors) /\ Len(u.cursors) \in Nat
  BY <1>6, DomainOfWork
<1>9. DOMAIN home.cursors = 1..Len(home.cursors)
  BY <1>2, DomainOfWork
<1>10. \A c \in DOMAIN u.cursors : \E d \in DOMAIN w.cursors :
           u.cursors[c] = Caret(At(w.cursors[d].e.line, 0))
  BY <1>4, <1>7, <1>8, <1>9 DEF TakenFrom
<1>11. \A c \in 1..(Len(u.cursors) - 1) : u.cursors[c].e.line < u.cursors[c + 1].e.line
  <2> TAKE c \in 1..(Len(u.cursors) - 1)
  <2>1. c \in DOMAIN u.cursors /\ c + 1 \in DOMAIN u.cursors
    BY <1>8
  <2>2. PICK m, n : u.cursors[c] = Caret(At(m, 0)) /\ u.cursors[c + 1] = Caret(At(n, 0))
    BY <1>10, <2>1
  <2>3. InOrder(Caret(At(m, 0)), Caret(At(n, 0)))
    BY <1>7, <2>2 DEF Apart
  <2>4. \A p : SelectionEnd(Caret(p)) = p /\ SelectionStart(Caret(p)) = p /\ Caret(p).e = p
    BY DEF SelectionEnd, SelectionStart, Caret
  <2>5. At(m, 0) # At(n, 0) /\ AtOrBefore(At(m, 0), At(n, 0))
    BY <2>3, <2>4 DEF InOrder
  <2>6. m < n
    BY <2>5 DEF AtOrBefore, Before, At
  <2>7. u.cursors[c].e.line = m /\ u.cursors[c + 1].e.line = n
    BY <2>2, <2>4 DEF At
  <2> QED BY <2>6, <2>7
<1>12. LeavesLine(u)
  <2>1. CASE w.lines[1] # <<>>
    BY <1>6, <2>1 DEF LeavesLine
  <2>2. CASE \E l \in 0..(Len(w.lines) - 1) : \A c \in DOMAIN w.cursors : w.cursors[c].e.line # l
    <3>1. PICK l \in 0..(Len(w.lines) - 1) : \A c \in DOMAIN w.cursors : w.cursors[c].e.line # l
      BY <2>2
    <3>2. \A m : Caret(At(m, 0)).e.line = m
      BY DEF Caret, At
    <3>3. \A c \in DOMAIN u.cursors : u.cursors[c].e.line # l
      BY <1>10, <3>1, <3>2
    <3> QED BY <1>6, <3>3 DEF LeavesLine
  <2> QED BY <2>1, <2>2 DEF LeavesLine
<1> QED BY <1>6, <1>11, <1>12 DEF Rising

LEMMA RecordedFails ==
    ASSUME NEW v, NEW w, Failed(v)
    PROVE  Failed(Recorded(v, w))
BY DEF Failed, Recorded, AddUndo

LEMMA RemoveCurrentLinesOutcome ==
    ASSUME NEW w, Sound(w), NEW v \in RemoveCurrentLines(w)
    PROVE  Outcome(v, w) /\ (~w.aborted /\ RemovesText(w) => Smooth(v, w))
<1> DEFINE cleared == IF AnyCursorHasSelection(w) THEN DeleteRealSelections(w) ELSE w
           home == MoveHome(cleared, FALSE)
<1>1. PICK u \in OnCursorPositionChanged(home) : v = Recorded(RemoveEachLine(u), w)
  BY DEF RemoveCurrentLines, RemoveEachLine
<1>2. Work(cleared, w)
  BY DeleteRealSelectionsWork, WorkSucceeds
<1>b. RemovesText(w) <=> ~w.dragging /\ LeavesLine(cleared)
  BY DEF RemovesText
<1> HIDE DEF cleared
<1>c. ASSUME RemovesText(w) PROVE Sound(u) /\ Rising(u) /\ LeavesLine(u)
  <2>1. Sound(cleared) /\ ~cleared.dragging
    BY <1>2, <1>b, <1>c DEF Work, Continues, Retains
  <2> QED BY <1>b, <1>c, <2>1, SortedHome
<1>3. Work(home, w) /\ AllCarets(home) /\ home.changed
  BY <1>2, HomeLeavesCarets
<1> HIDE DEF home
<1>4. Sound(home) /\ Succeeds(home, w)
  BY <1>3, WorkSucceeds DEF Work
<1>5. Succeeds(u, home) /\ AllCarets(u)
  BY <1>3, <1>4, CursorsStaySound
<1>6. Removing(RemoveEachLine(u), u)
  BY <1>5, RemoveEachLineWork DEF Succeeds
<1>a. Steady(u, w)
  BY <1>1, <1>3, <1>4, SortingKeepsMarks DEF Steady
<1>7. Failed(RemoveEachLine(u)) => Outcome(v, w)
  BY <1>1, RecordedFails DEF Outcome
<1>8. Work(RemoveEachLine(u), u) => Smooth(v, w)
  <2> SUFFICES ASSUME Work(RemoveEachLine(u), u) PROVE Smooth(v, w)
    OBVIOUS
  <2>1. Succeeds(RemoveEachLine(u), w)
    BY <1>4, <1>5, WorkSucceeds
  <2>2. Carried(RemoveEachLine(u), w)
    BY <1>a, CarryingOn
  <2> QED BY <1>1, <2>1, <2>2, RecordedEdits
<1>9. ~w.aborted /\ RemovesText(w) => Work(RemoveEachLine(u), u)
  <2>1. u.aborted <=> w.aborted
    BY <1>4, <1>5 DEF Succeeds
  <2> QED BY <1>c, <2>1, RemoveEachLineGoesWell
<1>10. Outcome(v, w)
  BY <1>6, <1>7, <1>8 DEF Removing, Outcome
<1> QED BY <1>8, <1>9, <1>10

-----------------------------------------------------------------------------
(* Copy, Cut and Paste.                                                    *)
ClipboardStep(w, text, c) ==
    LET k == w.cursors[c]
        selected == GetText(w.lines, SelectionStart(k), SelectionEnd(k))
    IN  IF ~HasSelection(k) THEN text
        ELSE IF text = <<>> THEN selected
        ELSE text \o <<NewLine>> \o selected

LEMMA ClipboardStepIsPassage ==
    ASSUME NEW w, Sound(w), NEW text \in Passage, NEW c \in 1..Len(w.cursors)
    PROVE  ClipboardStep(w, text, c) \in Passage
<1> DEFINE k == w.cursors[c]
           selected == GetText(w.lines, SelectionStart(k), SelectionEnd(k))
           joined == text \o <<NewLine>> \o selected
<1>1. SelectionStart(k) \in Places(w.lines) /\ SelectionEnd(k) \in Places(w.lines) /\ IsText(w.lines)
      /\ w.lines \in Seq(Line)
  BY CursorOfWork DEF Sound, Shaped
<1>2. selected \in Passage
  BY <1>1, TextOfPlacesIsPassage
<1>3. ClipboardStep(w, text, c) \in {text, selected, joined}
  BY DEF ClipboardStep
<1> HIDE DEF selected
<1>4. joined \in Passage
  BY <1>2, PassagesJoin
<1> HIDE DEF joined
<1> QED BY <1>2, <1>3, <1>4

LEMMA ClipboardTextIsPassage ==
    ASSUME NEW w,
           Sound(w)
    PROVE  GetClipboardText(w) \in Passage
<1> DEFINE N == Len(Upward(DOMAIN w.cursors))
           Run(n, f) ==
               /\ f[0] = <<>>
               /\ \A k \in 1..n : f[k] = ClipboardStep(w, f[k - 1], Upward(DOMAIN w.cursors)[k])
           Fine(n) ==
               /\ \E f : Run(n, f)
               /\ \A f : Run(n, f) => f[n] \in Passage
           S == {n \in Nat : n \in 0..N => Fine(n)}
<1>0. N \in Nat
  BY CursorNumbers
<1>1. 0 \in S
  <2>1. Run(0, [k \in 0..0 |-> <<>>])
    OBVIOUS
  <2>2. ASSUME NEW f, Run(0, f) PROVE f[0] \in Passage
    BY <2>2, KeysArePassages
  <2> QED BY <2>1, <2>2
<1>2. ASSUME NEW n \in Nat, n \in S PROVE n + 1 \in S
  <2> SUFFICES ASSUME n + 1 \in 0..N PROVE Fine(n + 1)
    OBVIOUS
  <2>1. PICK f : Run(n, f)
    BY <1>0, <1>2
  <2>2. ASSUME NEW g, \A k \in 0..n : g[k] = f[k],
               g[n + 1] = ClipboardStep(w, f[n], Upward(DOMAIN w.cursors)[n + 1])
        PROVE  Run(n + 1, g)
    <3> SUFFICES ASSUME NEW k \in 1..(n + 1)
                 PROVE g[k] = ClipboardStep(w, g[k - 1], Upward(DOMAIN w.cursors)[k])
      BY <2>1, <2>2
    <3>1. CASE k \in 1..n
      <4>1. k \in 0..n /\ k - 1 \in 0..n
        BY <3>1
      <4> QED BY <2>1, <2>2, <3>1, <4>1
    <3>2. CASE k = n + 1
      <4>1. k - 1 = n /\ n \in 0..n
        BY <3>2
      <4>2. g[k - 1] = f[n]
        BY <2>2, <4>1
      <4> QED BY <2>2, <3>2, <4>2
    <3> QED BY <3>1, <3>2
  <2>3. \E g : Run(n + 1, g)
    <3>1. PICK x : x = ClipboardStep(w, f[n], Upward(DOMAIN w.cursors)[n + 1])
      OBVIOUS
    <3> DEFINE g == [k \in 0..(n + 1) |-> IF k <= n THEN f[k] ELSE x]
    <3>2. (\A k \in 0..n : g[k] = f[k]) /\ g[n + 1] = x
      OBVIOUS
    <3> HIDE DEF g
    <3> QED BY <2>2, <3>1, <3>2
  <2>4. ASSUME NEW f1, Run(n + 1, f1) PROVE f1[n + 1] \in Passage
    <3>1. Run(n, f1) /\ n + 1 \in 1..N /\ f1[n + 1] = ClipboardStep(w, f1[n], Upward(DOMAIN w.cursors)[n + 1])
      BY <2>4
    <3>2. f1[n] \in Passage
      BY <1>0, <1>2, <3>1
    <3> HIDE DEF Run
    <3>3. Upward(DOMAIN w.cursors)[n + 1] \in 1..Len(w.cursors)
      BY <3>1, CursorNumbers
    <3> QED BY <3>1, <3>2, <3>3, ClipboardStepIsPassage
  <2> QED BY <2>3, <2>4
<1>3. Nat \subseteq S
  BY <1>1, <1>2, SetInduction
<1>4. Fine(N)
  <2> HIDE DEF Fine
  <2> QED BY <1>0, <1>3
<1> DEFINE Pass(f) == [k \in 0..N |-> IF k = 0 THEN <<>>
                                      ELSE ClipboardStep(w, f[k - 1], Upward(DOMAIN w.cursors)[k])]
           after == CHOOSE f : f = Pass(f)
<1>5. GetClipboardText(w) = after[N]
  BY DEF GetClipboardText, Sweep, ClipboardStep
<1>6. \E f : f = Pass(f)
  <2>1. PICK f : Run(N, f)
    BY <1>4
  <2> DEFINE g == [k \in 0..N |-> f[k]]
  <2>2. g = Pass(g)
    BY <1>0, <2>1
  <2> QED BY <2>2
<1>7. after = Pass(after)
  BY <1>6
<1> HIDE DEF after
<1>8. Run(N, after)
  BY <1>0, <1>7
<1> QED BY <1>4, <1>5, <1>8

LEMMA CopySucceeds ==
    ASSUME NEW w, Sound(w), NEW v \in Copy(w)
    PROVE  /\ Succeeds(v, w) /\ v.lines = w.lines /\ v.cursors = w.cursors
           /\ Steady(v, w) /\ Smooth(v, w)
<1> DEFINE l == GetActualCursorCoordinates(w, Len(w.cursors)).line
           new == IF AnyCursorHasSelection(w) THEN GetClipboardText(w) ELSE w.lines[l + 1]
<1>1. v = [w EXCEPT !.clipboard = new]
  BY DEF Copy
<1>2. Len(w.cursors) \in 1..Len(w.cursors)
  BY DomainOfWork
<1>3. l \in 0..(Len(w.lines) - 1)
  BY <1>2, ActualCursorIsPlace DEF Places
<1> HIDE DEF l
<1>4. new \in Passage
  <2>1. w.lines[l + 1] \in Line
    BY <1>3, LineOfWork
  <2> QED BY <2>1, LineIsPassage, ClipboardTextIsPassage
<1> HIDE DEF new
<1>5. WorkFields \subseteq DOMAIN w
  BY DEF Sound, Shaped
<1>6. /\ v.clipboard = new /\ DOMAIN v = DOMAIN w /\ v.lines = w.lines /\ v.cursors = w.cursors
      /\ v.lastAdded = w.lastAdded /\ v.ops = w.ops
      /\ v.undoBuffer = w.undoBuffer /\ v.undoIndex = w.undoIndex /\ v.dragging = w.dragging
      /\ v.changed = w.changed /\ v.aborted = w.aborted
  BY <1>1, <1>5 DEF WorkFields
<1>f. Flagged(w) => Flagged(v)
  BY <1>1, <1>5 DEF Flagged, WorkFields
<1> HIDE DEF new
<1>7. Sound(v)
  BY <1>4, <1>6 DEF Sound, Shaped
<1>8. Steady(v, w)
  BY <1>6 DEF Steady
<1>9. Carried(v, w)
  BY <1>8, CarryingOn
<1> QED BY <1>6, <1>7, <1>8, <1>9, <1>f DEF Succeeds, Smooth, Written

LEMMA SelectTogetherStays ==
    ASSUME NEW v, NEW w, v.cursors = w.cursors
    PROVE  /\ SelectTogether(v) <=> SelectTogether(w)
           /\ AnyCursorHasSelection(v) <=> AnyCursorHasSelection(w)
BY DEF SelectTogether, AnyCursorHasSelection, AllCursorsHaveSelection

LEMMA CutOutcome ==
    ASSUME NEW w, Sound(w), NEW v \in Cut(w)
    PROVE  Outcome(v, w) /\ (SelectTogether(w) => Smooth(v, w))
<1>1. \/ v = w
      \/ AnyCursorHasSelection(w) /\ \E u \in Copy(w) : v = Recorded(DeleteEverySelection(u), w)
  BY DEF Cut
<1>2. CASE v = w
  BY <1>2, WorkSucceeds, CarryingOn DEF Outcome, Smooth, Written
<1>3. ASSUME NEW u \in Copy(w), AnyCursorHasSelection(w), v = Recorded(DeleteEverySelection(u), w)
      PROVE  Outcome(v, w) /\ (SelectTogether(w) => Smooth(v, w))
  <2> DEFINE x == DeleteEverySelection(u)
  <2>1. Succeeds(u, w) /\ Steady(u, w) /\ Sound(u) /\ u.cursors = w.cursors
    BY CopySucceeds DEF Succeeds
  <2>2. Failed(x) \/ Work(x, u)
    BY <2>1, DeleteEverySelectionWork, TriedOrFailed
  <2>3. SelectTogether(w) => Work(x, u)
    BY <1>3, <2>1, SelectTogetherStays, DeleteTogetherWork
  <2> HIDE DEF x
  <2>4. Failed(x) => Failed(v)
    BY <1>3, RecordedFails DEF x
  <2>5. ASSUME Work(x, u) PROVE Smooth(v, w)
    <3>1. Succeeds(x, w)
      BY <2>1, <2>5, WorkSucceeds
    <3>2. Carried(x, w)
      BY <2>1, <2>5, CarryingOn
    <3> QED BY <1>3, <3>1, <3>2, RecordedEdits DEF x
  <2> QED BY <2>2, <2>3, <2>4, <2>5 DEF Outcome
<1> QED BY <1>1, <1>2, <1>3

LEMMA ClipboardLineIsPassage ==
    ASSUME NEW text \in Passage, NEW n \in 1..ClipboardLineCount(text)
    PROVE  ClipboardLine(text, n) \in Passage
<1> DEFINE breaks == {i \in DOMAIN text : text[i] = NewLine}
           up == Upward(breaks)
           first == IF n = 1 THEN 0 ELSE up[n - 1]
           last == IF n > Cardinality(breaks) THEN Len(text) + 1 ELSE up[n]
<1>1. DOMAIN text = 1..Len(text) /\ Len(text) \in Nat /\ Whole(text)
      /\ text \in Seq(Glyph \cup {NewLine}) /\ IsSeq(text)
  BY InSeq DEF Passage, IsSeq
<1>2. /\ breaks \subseteq 1..Len(text) /\ breaks \subseteq Nat
      /\ \A i \in breaks : text[i] = NewLine
  BY <1>1
<1>3. ClipboardLineCount(text) = Cardinality(breaks) + 1
  BY DEF ClipboardLineCount
<1>4. ClipboardLine(text, n) = SubSeq(text, first + 1, last - 1)
  BY DEF ClipboardLine
<1> HIDE DEF breaks
<1>5. IsFiniteSet(breaks)
  <2>1. IsFiniteSet(1..Len(text))
    BY <1>1, FS_Interval
  <2> QED BY <1>2, <2>1, FS_Subset, breaks \in SUBSET (1..Len(text))
<1>6. \A i \in 1..Cardinality(breaks) : up[i] \in breaks
  BY <1>2, <1>5, UpwardIsSeq
<1>7. Cardinality(breaks) \in Nat
  BY <1>5, FS_CardinalityType
<1> HIDE DEF up
<1>8. n \in Nat /\ n >= 1 /\ n <= Cardinality(breaks) + 1
  BY <1>3, <1>7
<1>9. n # 1 => n - 1 \in 1..Cardinality(breaks)
  BY <1>7, <1>8
<1>10. ~(n > Cardinality(breaks)) => n \in 1..Cardinality(breaks)
  BY <1>7, <1>8
<1>11. first \in Nat /\ last \in 1..(Len(text) + 1)
       /\ (last = Len(text) + 1 \/ text[last] = NewLine)
  <2>1. n # 1 => up[n - 1] \in Nat
    BY <1>2, <1>6, <1>9
  <2>2. ~(n > Cardinality(breaks)) => up[n] \in 1..Len(text) /\ text[up[n]] = NewLine
    BY <1>2, <1>6, <1>10
  <2>3. Len(text) + 1 \in 1..(Len(text) + 1)
    BY <1>1
  <2> QED BY <1>1, <2>1, <2>2, <2>3
<1> HIDE DEF first, last
<1> DEFINE h == first + 1
           m == last - 1
<1>12. h \in Int /\ m \in Int /\ 1 <= h /\ m <= Len(text)
  BY <1>1, <1>11
<1>13. h <= m => m = Len(text) \/ text[m] # LeadByte
  <2> SUFFICES ASSUME h <= m, m # Len(text), text[m] = LeadByte PROVE FALSE
    OBVIOUS
  <2>1. m \in DOMAIN text /\ m + 1 = last /\ last # Len(text) + 1
    BY <1>1, <1>11, <1>12
  <2>2. text[last] = NextByte
    BY <1>1, <2>1 DEF Whole
  <2> QED BY <1>11, <2>1, <2>2 DEF NextByte, NewLine
<1> HIDE DEF h, m
<1>14. SubSeq(text, h, m) \in Passage
  BY <1>1, <1>12, <1>13, SubSeqInSeq, SubSeqWhole DEF Passage
<1> QED BY <1>4, <1>14 DEF h, m

LEMMA PasteAtWork ==
    ASSUME NEW b, NEW w, Work(w, b), NEW c \in 1..Len(w.cursors), NEW text \in Passage
    PROVE  Work(PasteAt(w, c, text), b)
<1> DEFINE x == InsertTextAtCursor(w, text, c)
           o == Operation("Add", text, GetActualCursorCoordinates(w, c),
                          GetActualCursorCoordinates(x, c))
<1>1. Work(x, b)
  BY InsertTextAtCursorWork
<1>2. PasteAt(w, c, text) = Noted(x, o)
  BY DEF PasteAt, NotePasted
<1>3. o.text \in Passage /\ o.start.line \in Nat
  <2>1. GetActualCursorCoordinates(w, c) \in Places(w.lines)
    BY ActualCursorIsPlace DEF Work
  <2> QED BY <2>1 DEF Operation, Places
<1> HIDE DEF x, o
<1> QED BY <1>1, <1>2, <1>3, NotedWork

TextFor(clipboard, several, c) == IF several THEN ClipboardLine(clipboard, c) ELSE clipboard

PasteStep(w, c, clipboard, several) ==
    IF w.aborted THEN w ELSE PasteAt(w, c, TextFor(clipboard, several, c))

PasteEach(w, clipboard, several) ==
    BottomUp(w, LAMBDA v, c : PasteAt(v, c, TextFor(clipboard, several, c)))

LEMMA PasteEachWork ==
    ASSUME NEW w,
           Sound(w),
           NEW clipboard,
           NEW several,
           \A c \in 1..Len(w.cursors) : TextFor(clipboard, several, c) \in Passage
    PROVE  Work(PasteEach(w, clipboard, several), w)
<1> DEFINE N == Len(Downward(DOMAIN w.cursors))
           Run(n, f) ==
               /\ f[0] = w
               /\ \A k \in 1..n : f[k] = PasteStep(f[k - 1], Downward(DOMAIN w.cursors)[k], clipboard, several)
           Fine(n) ==
               /\ \E f : Run(n, f)
               /\ \A f : Run(n, f) => Work(f[n], w)
           S == {n \in Nat : n \in 0..N => Fine(n)}
<1>0. N \in Nat
  BY CursorNumbers
<1>1. 0 \in S
  <2>1. Run(0, [k \in 0..0 |-> w])
    OBVIOUS
  <2>2. ASSUME NEW f, Run(0, f) PROVE Work(f[0], w)
    BY <2>2, WorkSucceeds
  <2> QED BY <2>1, <2>2
<1>2. ASSUME NEW n \in Nat, n \in S PROVE n + 1 \in S
  <2> SUFFICES ASSUME n + 1 \in 0..N PROVE Fine(n + 1)
    OBVIOUS
  <2>1. PICK f : Run(n, f)
    BY <1>0, <1>2
  <2>2. ASSUME NEW g, \A k \in 0..n : g[k] = f[k],
               g[n + 1] = PasteStep(f[n], Downward(DOMAIN w.cursors)[n + 1], clipboard, several)
        PROVE  Run(n + 1, g)
    <3> SUFFICES ASSUME NEW k \in 1..(n + 1)
                 PROVE g[k] = PasteStep(g[k - 1], Downward(DOMAIN w.cursors)[k], clipboard, several)
      BY <2>1, <2>2
    <3>1. CASE k \in 1..n
      <4>1. k \in 0..n /\ k - 1 \in 0..n
        BY <3>1
      <4> QED BY <2>1, <2>2, <3>1, <4>1
    <3>2. CASE k = n + 1
      <4>1. k - 1 = n /\ n \in 0..n
        BY <3>2
      <4>2. g[k - 1] = f[n]
        BY <2>2, <4>1
      <4> QED BY <2>2, <3>2, <4>2
    <3> QED BY <3>1, <3>2
  <2>3. \E g : Run(n + 1, g)
    <3>1. PICK x : x = PasteStep(f[n], Downward(DOMAIN w.cursors)[n + 1], clipboard, several)
      OBVIOUS
    <3> DEFINE g == [k \in 0..(n + 1) |-> IF k <= n THEN f[k] ELSE x]
    <3>2. (\A k \in 0..n : g[k] = f[k]) /\ g[n + 1] = x
      OBVIOUS
    <3> HIDE DEF g
    <3> QED BY <2>2, <3>1, <3>2
  <2>4. ASSUME NEW f1, Run(n + 1, f1) PROVE Work(f1[n + 1], w)
    <3>1. Run(n, f1) /\ n + 1 \in 1..N /\ f1[n + 1] = PasteStep(f1[n], Downward(DOMAIN w.cursors)[n + 1], clipboard, several)
      BY <2>4
    <3>2. Work(f1[n], w)
      BY <1>0, <1>2, <3>1
    <3> HIDE DEF Run
    <3>3. Downward(DOMAIN w.cursors)[n + 1] \in 1..Len(f1[n].cursors)
      BY <3>1, <3>2, CursorNumbers DEF Work, Continues, Retains
    <3>4. TextFor(clipboard, several, Downward(DOMAIN w.cursors)[n + 1]) \in Passage
      BY <3>1, CursorNumbers
    <3> QED BY <3>1, <3>2, <3>3, <3>4, PasteAtWork DEF PasteStep
  <2> QED BY <2>3, <2>4
<1>3. Nat \subseteq S
  BY <1>1, <1>2, SetInduction
<1>4. Fine(N)
  <2> HIDE DEF Fine
  <2> QED BY <1>0, <1>3
<1> DEFINE Pass(f) == [k \in 0..N |-> IF k = 0 THEN w
                                      ELSE PasteStep(f[k - 1], Downward(DOMAIN w.cursors)[k], clipboard, several)]
           after == CHOOSE f : f = Pass(f)
<1>5. PasteEach(w, clipboard, several) = after[N]
  BY DEF PasteEach, BottomUp, Sweep, PasteStep
<1>6. \E f : f = Pass(f)
  <2>1. PICK f : Run(N, f)
    BY <1>4
  <2> DEFINE g == [k \in 0..N |-> f[k]]
  <2>2. g = Pass(g)
    BY <1>0, <2>1
  <2> QED BY <2>2
<1>7. after = Pass(after)
  BY <1>6
<1> HIDE DEF after
<1>8. Run(N, after)
  BY <1>0, <1>7
<1> QED BY <1>4, <1>5, <1>8

LEMMA PasteOutcome ==
    ASSUME NEW w, Sound(w), NEW v \in Paste(w)
    PROVE  Outcome(v, w) /\ (SelectTogether(w) => Smooth(v, w))
<1> DEFINE n == Len(w.cursors)
           several == n > 1 /\ ClipboardLineCount(w.clipboard) = n
           cleared == IF AnyCursorHasSelection(w) THEN DeleteEverySelection(w) ELSE w
           pasted == PasteEach(cleared, w.clipboard, several)
<1>1. v = w \/ v = Recorded(pasted, w)
  BY DEF Paste, PasteEach, TextFor
<1>2. Tried(cleared, w) /\ (SelectTogether(w) => Work(cleared, w))
  BY DeleteEverySelectionWork, DeleteTogetherWork, WorkSucceeds, TriedOrFailed
<1> HIDE DEF cleared
<1>3. Sound(cleared) /\ Len(cleared.cursors) = n
  BY <1>2 DEF Tried, Retains
<1>4. several => ClipboardLineCount(w.clipboard) = n
  OBVIOUS
<1> HIDE DEF n, several
<1>5. ASSUME NEW c \in 1..n PROVE TextFor(w.clipboard, several, c) \in Passage
  <2>1. w.clipboard \in Passage
    BY DEF Sound, Shaped
  <2>2. several => ClipboardLine(w.clipboard, c) \in Passage
    BY <1>4, <2>1, ClipboardLineIsPassage
  <2> QED BY <2>1, <2>2 DEF TextFor
<1>6. Work(pasted, cleared)
  BY <1>3, <1>5, PasteEachWork
<1> HIDE DEF pasted
<1>7. Tried(pasted, w)
  BY <1>2, <1>6, TriedOrFailed
<1>8. Work(cleared, w) => Work(pasted, w)
  BY <1>6 DEF Work, Continues, Retains, Steady
<1>9. Smooth(w, w)
  BY WorkSucceeds, CarryingOn DEF Smooth, Written
<1> QED BY <1>1, <1>2, <1>7, <1>8, <1>9, RecordedOutcome DEF Outcome

-----------------------------------------------------------------------------
(* Undo and redo apply operations to whatever text is there; what they     *)
(* make of it is for UndoRestoresText.  They leave all else of the editor  *)
(* as it is, and put back the cursors of the record.                       *)
Complete(w) == WorkFields \subseteq DOMAIN w

LEMMA BesideIsTransitive ==
    ASSUME NEW u, NEW v, NEW w, Beside(u, v), Beside(v, w)
    PROVE  Beside(u, w)
BY DEF Beside

LEMMA ChangeLineBeside ==
    ASSUME NEW w, Complete(w), NEW l, NEW glyphs, NEW column, NEW count
    PROVE  Beside(ChangeLine(w, l, glyphs, column, count), w)
BY DEF ChangeLine, Beside, Complete, WorkFields

LEMMA ChangesBeside ==
    ASSUME NEW w, Complete(w), NEW l, NEW m, NEW i, NEW j, NEW glyphs, NEW g, NEW p, NEW q
    PROVE  /\ Beside(AddGlyphsToLine(w, l, i, glyphs), w)
           /\ Beside(AddGlyphToLine(w, l, i, g), w)
           /\ Beside(RemoveGlyphsFromLine(w, l, i, j), w)
           /\ Beside(RemoveRestOfLine(w, l, i), w)
           /\ Beside(InsertLine(w, l), w)
           /\ Beside(JoinLines(w, l, m), w)
           /\ Beside(RemoveLines(w, l, m), w)
           /\ Beside(MoveUpFromLastLine(w, p, q), w)
           /\ Beside(Colorize(w, l, i), w)
<1>1. Beside(AddGlyphsToLine(w, l, i, glyphs), w)
  BY ChangeLineBeside DEF AddGlyphsToLine
<1>2. Beside(AddGlyphToLine(w, l, i, g), w)
  BY ChangeLineBeside DEF AddGlyphsToLine, AddGlyphToLine
<1>3. Beside(RemoveGlyphsFromLine(w, l, i, j), w)
  BY ChangeLineBeside DEF RemoveGlyphsFromLine
<1>4. Beside(RemoveRestOfLine(w, l, i), w)
  BY ChangeLineBeside DEF RemoveRestOfLine
<1>5. Beside(InsertLine(w, l), w)
  BY DEF InsertLine, Beside, Complete, WorkFields
<1>6. Beside(JoinLines(w, l, m), w)
  BY ChangeLineBeside DEF AddGlyphsToLine, JoinLines
<1>7. Beside(RemoveLines(w, l, m), w)
  BY DEF RemoveLines, Beside, Complete, WorkFields
<1>8. Beside(MoveUpFromLastLine(w, p, q), w)
  BY DEF MoveUpFromLastLine, Beside, Complete, WorkFields
<1>9. Beside(Colorize(w, l, i), w)
  BY DEF Colorize, Beside, Complete, WorkFields
<1> QED BY <1>1, <1>2, <1>3, <1>4, <1>5, <1>6, <1>7, <1>8, <1>9

LEMMA CompleteStays ==
    ASSUME NEW w, Complete(w), NEW v, Beside(v, w)
    PROVE  Complete(v)
BY DEF Complete, Beside

LEMMA DeleteRangeBeside ==
    ASSUME NEW w, Complete(w), NEW p, NEW q
    PROVE  Beside(DeleteRange(w, p, q), w)
<1> DEFINE i == GetCharacterIndexL(w.lines, p)
           j == GetCharacterIndexR(w.lines, q)
           rest == RemoveRestOfLine(w, p.line, i)
           cut == RemoveGlyphsFromLine(rest, q.line, 0, j)
           joined == JoinLines(cut, p.line, q.line)
           moved == MoveUpFromLastLine(joined, p, q)
           removed == RemoveLines(moved, p.line + 1, q.line + 1)
           glyphs == RemoveGlyphsFromLine(w, p.line, i, j)
<1>1. DeleteRange(w, p, q) \in {w, removed, rest, glyphs}
  BY DEF DeleteRange
<1> HIDE DEF i, j
<1>2. Beside(rest, w) /\ Beside(glyphs, w) /\ Beside(w, w)
  BY ChangesBeside DEF Beside
<1> HIDE DEF rest, glyphs
<1>3. Complete(rest) /\ Beside(cut, rest)
  BY <1>2, CompleteStays, ChangesBeside
<1> HIDE DEF cut
<1>4. Complete(cut) /\ Beside(joined, cut)
  BY <1>3, CompleteStays, ChangesBeside
<1> HIDE DEF joined
<1>5. Complete(joined) /\ Beside(moved, joined)
  BY <1>4, CompleteStays, ChangesBeside
<1> HIDE DEF moved
<1>6. Beside(removed, moved)
  BY <1>5, CompleteStays, ChangesBeside
<1> HIDE DEF removed
<1>7. Beside(removed, w)
  BY <1>2, <1>3, <1>4, <1>5, <1>6, BesideIsTransitive
<1> QED BY <1>1, <1>2, <1>7

LEMMA InsertByteBeside ==
    ASSUME NEW a, Complete(a.w), NEW g
    PROVE  Beside(InsertByte(a, g).w, a.w)
<1> DEFINE w == a.w
           l == a.line
           i == a.index
           rest == SubSeq(w.lines[l + 1], i + 1, Len(w.lines[l + 1]))
           opened == InsertLine(w, l + 1)
           added == AddGlyphsToLine(opened, l + 1, 0, rest)
           cut == RemoveRestOfLine(added, l, i)
           typed == AddGlyphToLine(w, l, i, g)
<1>1. InsertByte(a, g).w \in {cut, opened, typed}
  BY DEF InsertByte, BreakLine
<1> HIDE DEF w, l, i, rest
<1>2. Beside(opened, w) /\ Beside(typed, w)
  BY ChangesBeside DEF w
<1> HIDE DEF opened, typed
<1>3. Complete(opened) /\ Beside(added, opened)
  BY <1>2, CompleteStays, ChangesBeside DEF w
<1> HIDE DEF added
<1>4. Beside(cut, added)
  BY <1>3, CompleteStays, ChangesBeside
<1> HIDE DEF cut
<1>5. Beside(cut, w)
  BY <1>2, <1>3, <1>4, BesideIsTransitive
<1> QED BY <1>1, <1>2, <1>5 DEF w

LEMMA InsertBytesBeside ==
    ASSUME NEW a,
           Complete(a.w),
           NEW text,
           Len(text) \in Nat
    PROVE  Beside(Sweep(a, InsertByte, text).w, a.w)
<1> DEFINE N == Len(text)
           Run(n, f) ==
               /\ f[0] = a
               /\ \A k \in 1..n : f[k] = InsertByte(f[k - 1], text[k])
           Fine(n) ==
               /\ \E f : Run(n, f)
               /\ \A f : Run(n, f) => Beside(f[n].w, a.w)
           S == {n \in Nat : n \in 0..N => Fine(n)}
<1>0. N \in Nat
  OBVIOUS
<1>1. 0 \in S
  <2>1. Run(0, [k \in 0..0 |-> a])
    OBVIOUS
  <2>2. ASSUME NEW f, Run(0, f) PROVE Beside(f[0].w, a.w)
    BY <2>2 DEF Beside
  <2> QED BY <2>1, <2>2
<1>2. ASSUME NEW n \in Nat, n \in S PROVE n + 1 \in S
  <2> SUFFICES ASSUME n + 1 \in 0..N PROVE Fine(n + 1)
    OBVIOUS
  <2>1. PICK f : Run(n, f)
    BY <1>0, <1>2
  <2>2. ASSUME NEW g, \A k \in 0..n : g[k] = f[k], g[n + 1] = InsertByte(f[n], text[n + 1])
        PROVE  Run(n + 1, g)
    <3> SUFFICES ASSUME NEW k \in 1..(n + 1) PROVE g[k] = InsertByte(g[k - 1], text[k])
      BY <2>1, <2>2
    <3>1. CASE k \in 1..n
      <4>1. k \in 0..n /\ k - 1 \in 0..n
        BY <3>1
      <4> QED BY <2>1, <2>2, <3>1, <4>1
    <3>2. CASE k = n + 1
      <4>1. k - 1 = n /\ n \in 0..n
        BY <3>2
      <4>2. g[k - 1] = f[n]
        BY <2>2, <4>1
      <4> QED BY <2>2, <3>2, <4>2
    <3> QED BY <3>1, <3>2
  <2>3. \E g : Run(n + 1, g)
    <3>1. PICK x : x = InsertByte(f[n], text[n + 1])
      OBVIOUS
    <3> DEFINE g == [k \in 0..(n + 1) |-> IF k <= n THEN f[k] ELSE x]
    <3>2. (\A k \in 0..n : g[k] = f[k]) /\ g[n + 1] = x
      OBVIOUS
    <3> HIDE DEF g
    <3> QED BY <2>2, <3>1, <3>2
  <2>4. ASSUME NEW f1, Run(n + 1, f1) PROVE Beside(f1[n + 1].w, a.w)
    <3>1. Run(n, f1) /\ n + 1 \in 1..N /\ f1[n + 1] = InsertByte(f1[n], text[n + 1])
      BY <2>4
    <3>2. Beside(f1[n].w, a.w)
      BY <1>0, <1>2, <3>1
    <3> HIDE DEF Run
    <3>3. Complete(f1[n].w)
      BY <3>2, CompleteStays
    <3>4. Beside(InsertByte(f1[n], text[n + 1]).w, f1[n].w)
      BY <3>3, InsertByteBeside
    <3>5. Beside(InsertByte(f1[n], text[n + 1]).w, a.w)
      BY <3>2, <3>4, BesideIsTransitive
    <3> QED BY <3>1, <3>5
  <2> QED BY <2>3, <2>4
<1>3. Nat \subseteq S
  BY <1>1, <1>2, SetInduction
<1>4. Fine(N)
  <2> HIDE DEF Fine
  <2> QED BY <1>0, <1>3
<1> DEFINE Pass(f) == [k \in 0..N |-> IF k = 0 THEN a ELSE InsertByte(f[k - 1], text[k])]
           after == CHOOSE f : f = Pass(f)
<1>5. Sweep(a, InsertByte, text) = after[N]
  BY DEF Sweep
<1>6. \E f : f = Pass(f)
  <2>1. PICK f : Run(N, f)
    BY <1>4
  <2> DEFINE g == [k \in 0..N |-> f[k]]
  <2>2. g = Pass(g)
    BY <1>0, <2>1
  <2> QED BY <2>2
<1>7. after = Pass(after)
  BY <1>6
<1> HIDE DEF after
<1>8. Run(N, after)
  BY <1>0, <1>7
<1> QED BY <1>4, <1>5, <1>8

LEMMA InsertTextAtBeside ==
    ASSUME NEW w, Complete(w), NEW p, NEW text, Len(text) \in Nat
    PROVE  Beside(InsertTextAt(w, p, text).w, w)
<1> DEFINE a == [w |-> w, line |-> p.line, index |-> GetCharacterIndexR(w.lines, p)]
           all == Sweep(a, InsertByte, text)
<1>1. InsertTextAt(w, p, text).w \in {w, all.w}
  BY DEF InsertTextAt, Inserted
<1>2. a.w = w
  OBVIOUS
<1> HIDE DEF a
<1>3. Beside(all.w, w)
  BY <1>2, InsertBytesBeside
<1> QED BY <1>1, <1>3 DEF Beside

LEMMA OperationsBeside ==
    ASSUME NEW w, Complete(w), NEW o, Len(o.text) \in Nat
    PROVE  Beside(UndoOperation(w, o), w) /\ Beside(RedoOperation(w, o), w)
<1> DEFINE in == Reinserted(w, o)
           out == Deleted(w, o)
<1>1. Beside(in, w) /\ Beside(out, w)
  BY InsertTextAtBeside, DeleteRangeBeside DEF Reinserted, Deleted
<1>2. /\ \/ UndoOperation(w, o) = w
         \/ UndoOperation(w, o) = ColorizeOperation(in, o, 2)
         \/ UndoOperation(w, o) = ColorizeOperation(out, o, 2)
      /\ \/ RedoOperation(w, o) = w
         \/ RedoOperation(w, o) = ColorizeOperation(in, o, 1)
         \/ RedoOperation(w, o) = ColorizeOperation(out, o, 1)
  BY DEF UndoOperation, RedoOperation
<1> HIDE DEF in, out
<1>3. Complete(in) /\ Complete(out)
  BY <1>1, CompleteStays
<1>4. ASSUME NEW more
      PROVE  /\ Beside(ColorizeOperation(in, o, more), in)
             /\ Beside(ColorizeOperation(out, o, more), out)
  BY <1>3, ChangesBeside DEF ColorizeOperation
<1>5. ASSUME NEW more
      PROVE  /\ Beside(ColorizeOperation(in, o, more), w)
             /\ Beside(ColorizeOperation(out, o, more), w)
  BY <1>1, <1>4, BesideIsTransitive
<1>6. Beside(w, w)
  BY DEF Beside
<1> QED BY <1>2, <1>5, <1>6

LEMMA UndoEachBeside ==
    ASSUME NEW w,
           Complete(w),
           NEW ops,
           AreOperations(ops)
    PROVE  Beside(Sweep(w, UndoOperation, ops), w)
<1> DEFINE N == Len(ops)
           Run(n, f) ==
               /\ f[0] = w
               /\ \A k \in 1..n : f[k] = UndoOperation(f[k - 1], ops[k])
           Fine(n) ==
               /\ \E f : Run(n, f)
               /\ \A f : Run(n, f) => Beside(f[n], w)
           S == {n \in Nat : n \in 0..N => Fine(n)}
<1>0. N \in Nat
  BY DEF AreOperations, IsSeq
<1>1. 0 \in S
  <2>1. Run(0, [k \in 0..0 |-> w])
    OBVIOUS
  <2>2. ASSUME NEW f, Run(0, f) PROVE Beside(f[0], w)
    BY <2>2 DEF Beside
  <2> QED BY <2>1, <2>2
<1>2. ASSUME NEW n \in Nat, n \in S PROVE n + 1 \in S
  <2> SUFFICES ASSUME n + 1 \in 0..N PROVE Fine(n + 1)
    OBVIOUS
  <2>1. PICK f : Run(n, f)
    BY <1>0, <1>2
  <2>2. ASSUME NEW g, \A k \in 0..n : g[k] = f[k], g[n + 1] = UndoOperation(f[n], ops[n + 1])
        PROVE  Run(n + 1, g)
    <3> SUFFICES ASSUME NEW k \in 1..(n + 1) PROVE g[k] = UndoOperation(g[k - 1], ops[k])
      BY <2>1, <2>2
    <3>1. CASE k \in 1..n
      <4>1. k \in 0..n /\ k - 1 \in 0..n
        BY <3>1
      <4> QED BY <2>1, <2>2, <3>1, <4>1
    <3>2. CASE k = n + 1
      <4>1. k - 1 = n /\ n \in 0..n
        BY <3>2
      <4>2. g[k - 1] = f[n]
        BY <2>2, <4>1
      <4> QED BY <2>2, <3>2, <4>2
    <3> QED BY <3>1, <3>2
  <2>3. \E g : Run(n + 1, g)
    <3>1. PICK x : x = UndoOperation(f[n], ops[n + 1])
      OBVIOUS
    <3> DEFINE g == [k \in 0..(n + 1) |-> IF k <= n THEN f[k] ELSE x]
    <3>2. (\A k \in 0..n : g[k] = f[k]) /\ g[n + 1] = x
      OBVIOUS
    <3> HIDE DEF g
    <3> QED BY <2>2, <3>1, <3>2
  <2>4. ASSUME NEW f1, Run(n + 1, f1) PROVE Beside(f1[n + 1], w)
    <3>1. Run(n, f1) /\ n + 1 \in 1..N /\ f1[n + 1] = UndoOperation(f1[n], ops[n + 1])
      BY <2>4
    <3>2. Beside(f1[n], w)
      BY <1>0, <1>2, <3>1
    <3> HIDE DEF Run
    <3>3. Complete(f1[n])
      BY <3>2, CompleteStays
    <3>4. Len(ops[n + 1].text) \in Nat
      BY <3>1 DEF AreOperations, IsSeq
    <3>5. Beside(UndoOperation(f1[n], ops[n + 1]), f1[n])
      BY <3>3, <3>4, OperationsBeside
    <3>6. Beside(UndoOperation(f1[n], ops[n + 1]), w)
      BY <3>2, <3>5, BesideIsTransitive
    <3> QED BY <3>1, <3>6
  <2> QED BY <2>3, <2>4
<1>3. Nat \subseteq S
  BY <1>1, <1>2, SetInduction
<1>4. Fine(N)
  <2> HIDE DEF Fine
  <2> QED BY <1>0, <1>3
<1> DEFINE Pass(f) == [k \in 0..N |-> IF k = 0 THEN w ELSE UndoOperation(f[k - 1], ops[k])]
           after == CHOOSE f : f = Pass(f)
<1>5. Sweep(w, UndoOperation, ops) = after[N]
  BY DEF Sweep
<1>6. \E f : f = Pass(f)
  <2>1. PICK f : Run(N, f)
    BY <1>4
  <2> DEFINE g == [k \in 0..N |-> f[k]]
  <2>2. g = Pass(g)
    BY <1>0, <2>1
  <2> QED BY <2>2
<1>7. after = Pass(after)
  BY <1>6
<1> HIDE DEF after
<1>8. Run(N, after)
  BY <1>0, <1>7
<1> QED BY <1>4, <1>5, <1>8

LEMMA RedoEachBeside ==
    ASSUME NEW w,
           Complete(w),
           NEW ops,
           AreOperations(ops)
    PROVE  Beside(Sweep(w, RedoOperation, ops), w)
<1> DEFINE N == Len(ops)
           Run(n, f) ==
               /\ f[0] = w
               /\ \A k \in 1..n : f[k] = RedoOperation(f[k - 1], ops[k])
           Fine(n) ==
               /\ \E f : Run(n, f)
               /\ \A f : Run(n, f) => Beside(f[n], w)
           S == {n \in Nat : n \in 0..N => Fine(n)}
<1>0. N \in Nat
  BY DEF AreOperations, IsSeq
<1>1. 0 \in S
  <2>1. Run(0, [k \in 0..0 |-> w])
    OBVIOUS
  <2>2. ASSUME NEW f, Run(0, f) PROVE Beside(f[0], w)
    BY <2>2 DEF Beside
  <2> QED BY <2>1, <2>2
<1>2. ASSUME NEW n \in Nat, n \in S PROVE n + 1 \in S
  <2> SUFFICES ASSUME n + 1 \in 0..N PROVE Fine(n + 1)
    OBVIOUS
  <2>1. PICK f : Run(n, f)
    BY <1>0, <1>2
  <2>2. ASSUME NEW g, \A k \in 0..n : g[k] = f[k], g[n + 1] = RedoOperation(f[n], ops[n + 1])
        PROVE  Run(n + 1, g)
    <3> SUFFICES ASSUME NEW k \in 1..(n + 1) PROVE g[k] = RedoOperation(g[k - 1], ops[k])
      BY <2>1, <2>2
    <3>1. CASE k \in 1..n
      <4>1. k \in 0..n /\ k - 1 \in 0..n
        BY <3>1
      <4> QED BY <2>1, <2>2, <3>1, <4>1
    <3>2. CASE k = n + 1
      <4>1. k - 1 = n /\ n \in 0..n
        BY <3>2
      <4>2. g[k - 1] = f[n]
        BY <2>2, <4>1
      <4> QED BY <2>2, <3>2, <4>2
    <3> QED BY <3>1, <3>2
  <2>3. \E g : Run(n + 1, g)
    <3>1. PICK x : x = RedoOperation(f[n], ops[n + 1])
      OBVIOUS
    <3> DEFINE g == [k \in 0..(n + 1) |-> IF k <= n THEN f[k] ELSE x]
    <3>2. (\A k \in 0..n : g[k] = f[k]) /\ g[n + 1] = x
      OBVIOUS
    <3> HIDE DEF g
    <3> QED BY <2>2, <3>1, <3>2
  <2>4. ASSUME NEW f1, Run(n + 1, f1) PROVE Beside(f1[n + 1], w)
    <3>1. Run(n, f1) /\ n + 1 \in 1..N /\ f1[n + 1] = RedoOperation(f1[n], ops[n + 1])
      BY <2>4
    <3>2. Beside(f1[n], w)
      BY <1>0, <1>2, <3>1
    <3> HIDE DEF Run
    <3>3. Complete(f1[n])
      BY <3>2, CompleteStays
    <3>4. Len(ops[n + 1].text) \in Nat
      BY <3>1 DEF AreOperations, IsSeq
    <3>5. Beside(RedoOperation(f1[n], ops[n + 1]), f1[n])
      BY <3>3, <3>4, OperationsBeside
    <3>6. Beside(RedoOperation(f1[n], ops[n + 1]), w)
      BY <3>2, <3>5, BesideIsTransitive
    <3> QED BY <3>1, <3>6
  <2> QED BY <2>3, <2>4
<1>3. Nat \subseteq S
  BY <1>1, <1>2, SetInduction
<1>4. Fine(N)
  <2> HIDE DEF Fine
  <2> QED BY <1>0, <1>3
<1> DEFINE Pass(f) == [k \in 0..N |-> IF k = 0 THEN w ELSE RedoOperation(f[k - 1], ops[k])]
           after == CHOOSE f : f = Pass(f)
<1>5. Sweep(w, RedoOperation, ops) = after[N]
  BY DEF Sweep
<1>6. \E f : f = Pass(f)
  <2>1. PICK f : Run(N, f)
    BY <1>4
  <2> DEFINE g == [k \in 0..N |-> f[k]]
  <2>2. g = Pass(g)
    BY <1>0, <2>1
  <2> QED BY <2>2
<1>7. after = Pass(after)
  BY <1>6
<1> HIDE DEF after
<1>8. Run(N, after)
  BY <1>0, <1>7
<1> QED BY <1>4, <1>5, <1>8

LEMMA ReversedOperations ==
    ASSUME NEW ops, AreOperations(ops)
    PROVE  AreOperations(Reverse(ops))
<1> DEFINE s == Reverse(ops)
<1>1. /\ IsSeq(ops) /\ Len(ops) \in Nat
      /\ \A n \in 1..Len(ops) : ops[n].text \in Passage /\ ops[n].start.line \in Nat
  BY DEF AreOperations, IsSeq
<1>2. IsSeq(s) /\ Len(s) = Len(ops) /\ \A n \in 1..Len(ops) : s[n] = ops[Len(ops) + 1 - n]
  BY <1>1, ReverseIsSeq
<1> HIDE DEF s
<1>3. \A n \in 1..Len(ops) : Len(ops) + 1 - n \in 1..Len(ops)
  BY <1>1
<1>4. AreOperations(s)
  BY <1>1, <1>2, <1>3 DEF AreOperations
<1> QED BY <1>4 DEF s

(* The editor v has walked in w's history to index n, with these cursors.  *)
Walked(v, w, n, state) ==
    /\ Complete(v)
    /\ v.undoBuffer = w.undoBuffer /\ v.undoIndex = n
    /\ v.cursors = state.cursors /\ v.lastAdded = state.lastAdded
    /\ v.ops = w.ops /\ v.clipboard = w.clipboard /\ v.dragging = w.dragging
    /\ v.aborted <=> w.aborted

LEMMA WithStateWalks ==
    ASSUME NEW w, Complete(w), NEW u, Beside(u, w), NEW n, NEW state
    PROVE  Walked(WithState([u EXCEPT !.undoIndex = n], state), w, n, state)
<1>1. Complete(u) /\ WorkFields \subseteq DOMAIN u
  BY CompleteStays DEF Complete
<1> QED BY <1>1 DEF WithState, Walked, Complete, Beside, WorkFields

LEMMA UndoWalks ==
    ASSUME NEW w, Complete(w), NEW v \in Undo(w), w.undoIndex # 0,
           AreOperations(w.undoBuffer[w.undoIndex].ops)
    PROVE  Walked(v, w, w.undoIndex - 1, w.undoBuffer[w.undoIndex].before)
<1> DEFINE r == w.undoBuffer[w.undoIndex]
           back == Reverse(r.ops)
           u == Sweep(w, UndoOperation, back)
<1>1. v = WithState([u EXCEPT !.undoIndex = @ - 1], r.before)
  BY DEF Undo
<1> HIDE DEF r
<1>2. AreOperations(back)
  BY ReversedOperations DEF r
<1> HIDE DEF back
<1>3. Beside(u, w)
  BY <1>2, UndoEachBeside
<1> HIDE DEF u
<1>4. [u EXCEPT !.undoIndex = @ - 1] = [u EXCEPT !.undoIndex = w.undoIndex - 1]
  BY <1>3 DEF Beside
<1> QED BY <1>1, <1>3, <1>4, WithStateWalks DEF r

LEMMA RedoWalks ==
    ASSUME NEW w, Complete(w), NEW v \in Redo(w), w.undoIndex # Len(w.undoBuffer),
           AreOperations(w.undoBuffer[w.undoIndex + 1].ops)
    PROVE  Walked(v, w, w.undoIndex + 1, w.undoBuffer[w.undoIndex + 1].after)
<1> DEFINE r == w.undoBuffer[w.undoIndex + 1]
           u == Sweep(w, RedoOperation, r.ops)
<1>1. v = WithState([u EXCEPT !.undoIndex = @ + 1], r.after)
  BY DEF Redo
<1> HIDE DEF r
<1>2. AreOperations(r.ops)
  BY DEF r
<1>3. Beside(u, w)
  BY <1>2, RedoEachBeside
<1> HIDE DEF u
<1>4. [u EXCEPT !.undoIndex = @ + 1] = [u EXCEPT !.undoIndex = w.undoIndex + 1]
  BY <1>3 DEF Beside
<1> QED BY <1>1, <1>3, <1>4, WithStateWalks DEF r

-----------------------------------------------------------------------------
(* The editor between two steps: sound, and with a history whose records   *)
(* are typed.                                                              *)
Past(w) ==
    /\ IsSeq(w.undoBuffer) /\ w.undoIndex \in 0..Len(w.undoBuffer)
    /\ \A n \in 1..Len(w.undoBuffer) : Entry(w.undoBuffer[n])

Sane(w) == Sound(w) /\ Past(w)

(* What a step makes of the editor.                                        *)
Goes(v, w) == v = [w EXCEPT !.aborted = TRUE] \/ Succeeds(v, w) \/ Edited(v, w)

Follows(v, w) ==
    \/ v = [w EXCEPT !.aborted = TRUE]
    \/ Smooth(v, w)

LEMMA FollowsGoes ==
    ASSUME NEW v, NEW w, Follows(v, w)
    PROVE  Goes(v, w)
BY DEF Follows, Goes, Smooth

(* The history after an edit: the records in force, and the new one.       *)
LEMMA EditedPast ==
    ASSUME NEW w, Past(w), NEW r
    PROVE  LET buffer == Append(SubSeq(w.undoBuffer, 1, w.undoIndex), r)
           IN  /\ IsSeq(buffer) /\ Len(buffer) = w.undoIndex + 1
               /\ \A n \in 1..(w.undoIndex + 1) :
                      buffer[n] = IF n <= w.undoIndex THEN w.undoBuffer[n] ELSE r
<1> DEFINE kept == SubSeq(w.undoBuffer, 1, w.undoIndex)
           buffer == Append(kept, r)
<1>1. w.undoIndex \in Nat /\ w.undoIndex <= Len(w.undoBuffer) /\ 1 \in Int /\ w.undoIndex \in Int
  BY DEF Past, IsSeq
<1>2. /\ IsSeq(kept) /\ Len(kept) = IF 1 <= w.undoIndex THEN (1 + w.undoIndex) - 1 ELSE 0
      /\ \A i \in 1..Len(kept) : kept[i] = w.undoBuffer[(i + 1) - 1]
  BY <1>1, SubSeqIsSeq
<1> HIDE DEF kept
<1>3. Len(kept) = w.undoIndex
  BY <1>1, <1>2
<1>4. \A i \in 1..w.undoIndex : kept[i] = w.undoBuffer[i]
  BY <1>1, <1>2, <1>3
<1>5. IsSeq(buffer) /\ Len(buffer) = Len(kept) + 1
  BY <1>2, AppendIsSeq
<1>6. \A i \in 1..(Len(kept) + 1) : buffer[i] = IF i <= Len(kept) THEN kept[i] ELSE r
  BY <1>2, AppendIsSeq
<1> HIDE DEF buffer
<1>7. \A n \in 1..(w.undoIndex + 1) : n <= w.undoIndex => n \in 1..w.undoIndex
  BY <1>1
<1>8. \A n \in 1..(w.undoIndex + 1) : buffer[n] = IF n <= w.undoIndex THEN w.undoBuffer[n] ELSE r
  BY <1>3, <1>4, <1>6, <1>7
<1> QED BY <1>3, <1>5, <1>8 DEF buffer, kept

LEMMA GoesIsSane ==
    ASSUME NEW w, Sane(w), NEW v, Goes(v, w)
    PROVE  Sane(v) /\ v.dragging = w.dragging
<1>1. CASE v = [w EXCEPT !.aborted = TRUE]
  <2>1. WorkFields \subseteq DOMAIN w
    BY DEF Sane, Sound, Shaped
  <2>2. /\ DOMAIN v = DOMAIN w /\ v.lines = w.lines /\ v.cursors = w.cursors
        /\ v.lastAdded = w.lastAdded /\ v.ops = w.ops /\ v.clipboard = w.clipboard
        /\ v.undoBuffer = w.undoBuffer /\ v.undoIndex = w.undoIndex /\ v.dragging = w.dragging
    BY <1>1, <2>1 DEF WorkFields
  <2> QED BY <2>2 DEF Sane, Sound, Shaped, Past
<1>2. CASE Succeeds(v, w)
  BY <1>2 DEF Succeeds, Sane, Past
<1>3. CASE Edited(v, w)
  <2>1. Sound(v) /\ v.undoIndex = w.undoIndex + 1 /\ v.dragging = w.dragging
    BY <1>3 DEF Edited
  <2>2. PICK r : Entry(r) /\ v.undoBuffer = Append(SubSeq(w.undoBuffer, 1, w.undoIndex), r)
    BY <1>3 DEF Edited
  <2>3. /\ IsSeq(v.undoBuffer) /\ Len(v.undoBuffer) = w.undoIndex + 1
        /\ \A n \in 1..(w.undoIndex + 1) :
               v.undoBuffer[n] = IF n <= w.undoIndex THEN w.undoBuffer[n] ELSE r
    <3> DEFINE buffer == Append(SubSeq(w.undoBuffer, 1, w.undoIndex), r)
    <3>1. Past(w)
      BY DEF Sane
    <3>2. /\ IsSeq(buffer) /\ Len(buffer) = w.undoIndex + 1
          /\ \A n \in 1..(w.undoIndex + 1) :
                 buffer[n] = IF n <= w.undoIndex THEN w.undoBuffer[n] ELSE r
      BY <3>1, EditedPast
    <3>3. v.undoBuffer = buffer
      BY <2>2
    <3> HIDE DEF buffer
    <3> QED BY <3>2, <3>3
  <2>4. w.undoIndex \in Nat /\ Len(w.undoBuffer) \in Nat /\ w.undoIndex <= Len(w.undoBuffer)
    BY DEF Sane, Past, IsSeq
  <2>5. ASSUME NEW n \in 1..(w.undoIndex + 1) PROVE Entry(v.undoBuffer[n])
    <3>1. CASE n <= w.undoIndex
      <4>1. n \in 1..Len(w.undoBuffer)
        BY <2>4, <3>1
      <4>2. v.undoBuffer[n] = w.undoBuffer[n]
        BY <2>3, <3>1
      <4> QED BY <4>1, <4>2 DEF Sane, Past
    <3>2. CASE ~(n <= w.undoIndex)
      BY <2>2, <2>3, <3>2
    <3> QED BY <3>1, <3>2
  <2>6. v.undoIndex \in 0..Len(v.undoBuffer)
    BY <2>1, <2>3, <2>4
  <2> QED BY <2>1, <2>3, <2>5, <2>6 DEF Sane, Past
<1> QED BY <1>1, <1>2, <1>3 DEF Goes

LEMMA BecomesFollows ==
    ASSUME NEW W, \A v \in W : Outcome(v, editor), Becomes(W)
    PROVE  /\ Follows(editor', editor)
           /\ ~editor.aborted /\ (\A v \in W : Smooth(v, editor)) => ~editor'.aborted
<1>1. PICK v \in W : IF v.aborted THEN editor' = [editor EXCEPT !.aborted = TRUE]
                     ELSE WithinBounds(v) /\ editor' = v
  BY DEF Becomes
<1>2. Follows(editor', editor)
  BY <1>1 DEF Outcome, Failed, Follows
<1>3. ~editor.aborted /\ Smooth(v, editor) => ~v.aborted
  BY DEF Smooth, Succeeds, Edited
<1>4. ~v.aborted => editor' = v
  BY <1>1
<1> QED BY <1>2, <1>3, <1>4

LEMMA CommandFollows ==
    ASSUME NEW name, NEW W, Key(name, W) \/ Button(name, W), \A v \in W : Outcome(v, editor)
    PROVE  /\ Follows(editor', editor)
           /\ (\A v \in W : Smooth(v, editor)) => ~editor'.aborted
<1>1. Becomes(W) /\ ~editor.aborted
  BY DEF Key, Button, KeysServed, Running
<1> QED BY <1>1, BecomesFollows

LEMMA SmoothCommand ==
    ASSUME NEW name, NEW W, Key(name, W) \/ Button(name, W), \A v \in W : Smooth(v, editor)
    PROVE  Follows(editor', editor) /\ ~editor'.aborted
<1>1. \A v \in W : Outcome(v, editor)
  BY DEF Outcome
<1> QED BY <1>1, CommandFollows

-----------------------------------------------------------------------------
(* The movements.                                                          *)
LEMMA MovementOutcomes ==
    ASSUME NEW w, Sound(w), NEW n \in Nat, NEW select \in BOOLEAN, NEW word \in BOOLEAN
    PROVE  /\ Smooth(MoveUp(w, n, select), w) /\ Smooth(MoveDown(w, n, select), w)
           /\ Smooth(MoveLeft(w, select, word), w) /\ Smooth(MoveRight(w, select, word), w)
           /\ Smooth(MoveHome(w, select), w) /\ Smooth(MoveEnd(w, select), w)
           /\ Smooth(MoveTop(w, select), w) /\ Smooth(MoveBottom(w, select), w)
<1>1. Work(w, w)
  BY WorkSucceeds
<1>2. \A v : Work(v, w) /\ KeepsNotes(v, w) => Smooth(v, w)
  BY WorkSucceeds, CarryingOn DEF Smooth, Written, KeepsNotes
<1>3. WorkFields \subseteq DOMAIN w
  BY DEF Sound, Shaped
<1>4. /\ KeepsNotes(MoveUp(w, n, select), w) /\ KeepsNotes(MoveDown(w, n, select), w)
      /\ KeepsNotes(MoveLeft(w, select, word), w) /\ KeepsNotes(MoveRight(w, select, word), w)
      /\ KeepsNotes(MoveHome(w, select), w) /\ KeepsNotes(MoveEnd(w, select), w)
      /\ KeepsNotes(MoveTop(w, select), w) /\ KeepsNotes(MoveBottom(w, select), w)
  BY <1>3, MovementsKeepNotes
<1> QED BY <1>1, <1>2, <1>4, MovementsStayInText, TopAndBottomWork

LEMMA SelectAllSmooth ==
    ASSUME NEW w, Sound(w)
    PROVE  Smooth(SelectAll(w), w)
<1>1. Succeeds(SelectAll(w), w) /\ SelectAll(w).changed
  BY SelectAllSucceeds
<1>2. KeepsNotes(SelectAll(w), w)
  BY SelectingKeepsNotes DEF Sound, Shaped
<1> QED BY <1>1, <1>2, CarryingOn DEF Smooth, Written, KeepsNotes

LEMMA NextOccurrenceOutcome ==
    ASSUME NEW w, Sound(w), NEW v \in AddCursorForNextOccurrence(w)
    PROVE  Outcome(v, w) /\ (SelectsText(w) => Smooth(v, w))
<1>1. \/ Failed(v) /\ ~SelectsText(w)
      \/ Succeeds(v, w) /\ (v = w \/ v.changed)
  BY AddCursorForNextOccurrenceSucceeds
<1>2. KeepsNotes(v, w)
  BY SelectingKeepsNotes DEF Sound, Shaped
<1> QED BY <1>1, <1>2, CarryingOn DEF Outcome, Smooth, Written, KeepsNotes

LEMMA MovementKeyFollows ==
    ASSUME Sound(editor), VisibleLineCount >= 2, MovementKey
    PROVE  Follows(editor', editor) /\ (Asserted => ~editor'.aborted)
<1>1. VisibleLineCount - 2 \in Nat /\ 1 \in Nat
  BY TextEditorAssumption
<1>2. ShiftKeys \subseteq BOOLEAN
  BY DEF ShiftKeys
<1>3. TRUE \in BOOLEAN /\ FALSE \in BOOLEAN
  OBVIOUS
<1>4. CASE PressUp
  <2>1. PICK shift \in ShiftKeys : Key("Up", {MoveUp(editor, 1, shift)})
    BY <1>4 DEF PressUp
  <2>2. Smooth(MoveUp(editor, 1, shift), editor)
    BY <1>1, <1>2, <1>3, MovementOutcomes
  <2> QED BY <2>1, <2>2, SmoothCommand
<1>5. CASE PressDown
  <2>1. PICK shift \in ShiftKeys : Key("Down", {MoveDown(editor, 1, shift)})
    BY <1>5 DEF PressDown
  <2>2. Smooth(MoveDown(editor, 1, shift), editor)
    BY <1>1, <1>2, <1>3, MovementOutcomes
  <2> QED BY <2>1, <2>2, SmoothCommand
<1>6. CASE PressLeft
  <2>1. PICK shift \in ShiftKeys : Key("Left", {MoveLeft(editor, shift, FALSE)})
    BY <1>6 DEF PressLeft
  <2>2. Smooth(MoveLeft(editor, shift, FALSE), editor)
    BY <1>1, <1>2, <1>3, MovementOutcomes
  <2> QED BY <2>1, <2>2, SmoothCommand
<1>7. CASE PressRight
  <2>1. PICK shift \in ShiftKeys : Key("Right", {MoveRight(editor, shift, FALSE)})
    BY <1>7 DEF PressRight
  <2>2. Smooth(MoveRight(editor, shift, FALSE), editor)
    BY <1>1, <1>2, <1>3, MovementOutcomes
  <2> QED BY <2>1, <2>2, SmoothCommand
<1>8. CASE PressWordLeft
  <2>1. PICK shift \in ShiftKeys : Key("WordLeft", {MoveLeft(editor, shift, TRUE)})
    BY <1>8 DEF PressWordLeft
  <2>2. Smooth(MoveLeft(editor, shift, TRUE), editor)
    BY <1>1, <1>2, <1>3, MovementOutcomes
  <2> QED BY <2>1, <2>2, SmoothCommand
<1>9. CASE PressWordRight
  <2>1. PICK shift \in ShiftKeys : Key("WordRight", {MoveRight(editor, shift, TRUE)})
    BY <1>9 DEF PressWordRight
  <2>2. Smooth(MoveRight(editor, shift, TRUE), editor)
    BY <1>1, <1>2, <1>3, MovementOutcomes
  <2> QED BY <2>1, <2>2, SmoothCommand
<1>10. CASE PressPageUp
  <2>1. PICK shift \in ShiftKeys : Key("PageUp", {MoveUp(editor, VisibleLineCount - 2, shift)})
    BY <1>10 DEF PressPageUp
  <2>2. Smooth(MoveUp(editor, VisibleLineCount - 2, shift), editor)
    BY <1>1, <1>2, <1>3, MovementOutcomes
  <2> QED BY <2>1, <2>2, SmoothCommand
<1>11. CASE PressPageDown
  <2>1. PICK shift \in ShiftKeys : Key("PageDown", {MoveDown(editor, VisibleLineCount - 2, shift)})
    BY <1>11 DEF PressPageDown
  <2>2. Smooth(MoveDown(editor, VisibleLineCount - 2, shift), editor)
    BY <1>1, <1>2, <1>3, MovementOutcomes
  <2> QED BY <2>1, <2>2, SmoothCommand
<1>12. CASE PressTop
  <2>1. PICK shift \in ShiftKeys : Key("Top", {MoveTop(editor, shift)})
    BY <1>12 DEF PressTop
  <2>2. Smooth(MoveTop(editor, shift), editor)
    BY <1>1, <1>2, <1>3, MovementOutcomes
  <2> QED BY <2>1, <2>2, SmoothCommand
<1>13. CASE PressBottom
  <2>1. PICK shift \in ShiftKeys : Key("Bottom", {MoveBottom(editor, shift)})
    BY <1>13 DEF PressBottom
  <2>2. Smooth(MoveBottom(editor, shift), editor)
    BY <1>1, <1>2, <1>3, MovementOutcomes
  <2> QED BY <2>1, <2>2, SmoothCommand
<1>14. CASE PressHome
  <2>1. PICK shift \in ShiftKeys : Key("Home", {MoveHome(editor, shift)})
    BY <1>14 DEF PressHome
  <2>2. Smooth(MoveHome(editor, shift), editor)
    BY <1>1, <1>2, <1>3, MovementOutcomes
  <2> QED BY <2>1, <2>2, SmoothCommand
<1>15. CASE PressEnd
  <2>1. PICK shift \in ShiftKeys : Key("End", {MoveEnd(editor, shift)})
    BY <1>15 DEF PressEnd
  <2>2. Smooth(MoveEnd(editor, shift), editor)
    BY <1>1, <1>2, <1>3, MovementOutcomes
  <2> QED BY <2>1, <2>2, SmoothCommand
<1>16. CASE PressSelectAll
  <2>1. Smooth(SelectAll(editor), editor)
    BY SelectAllSmooth
  <2> QED BY <1>16, <2>1, SmoothCommand DEF PressSelectAll
<1>17. CASE PressNextOccurrence
  <2>1. ASSUME NEW v \in AddCursorForNextOccurrence(editor)
        PROVE  Outcome(v, editor) /\ (SelectsText(editor) => Smooth(v, editor))
    BY NextOccurrenceOutcome
  <2>2. Asserted => SelectsText(editor)
    BY <1>17 DEF Asserted
  <2> QED BY <1>17, <2>1, <2>2, CommandFollows DEF PressNextOccurrence
<1> QED BY <1>4, <1>5, <1>6, <1>7, <1>8, <1>9, <1>10, <1>11, <1>12, <1>13, <1>14, <1>15, <1>16,
           <1>17 DEF MovementKey

(* The keys that edit, all but Undo and Redo.                              *)
LEMMA EditingKeyFollows ==
    ASSUME Sound(editor), EditingKey, ~PressUndo, ~PressRedo, PressLinesDown => WholeLines(editor)
    PROVE  Follows(editor', editor) /\ (Asserted => ~editor'.aborted)
<1>0. TRUE \in BOOLEAN /\ FALSE \in BOOLEAN
  OBVIOUS
<1>1. CASE PressDelete
  BY <1>0, <1>1, DeleteOutcome, SmoothCommand DEF PressDelete
<1>2. CASE PressWordDelete
  BY <1>0, <1>2, DeleteOutcome, SmoothCommand DEF PressWordDelete
<1>3. CASE PressBackspace
  BY <1>0, <1>3, DeleteOutcome, SmoothCommand DEF PressBackspace
<1>4. CASE PressWordBackspace
  BY <1>0, <1>4, DeleteOutcome, SmoothCommand DEF PressWordBackspace
<1>5. CASE PressRemoveLines
  <2>1. (Asserted => RemovesText(editor)) /\ Key("RemoveLines", RemoveCurrentLines(editor))
    BY <1>5 DEF Asserted, PressRemoveLines
  <2>2. ~editor.aborted
    BY <2>1 DEF Key, KeysServed, Running
  <2> QED BY <2>1, <2>2, RemoveCurrentLinesOutcome, CommandFollows
<1>6. CASE PressUnindent
  BY <1>0, <1>6, IndentationOutcome, SmoothCommand DEF PressUnindent
<1>7. CASE PressIndent
  BY <1>0, <1>7, IndentationOutcome, SmoothCommand DEF PressIndent
<1>8. CASE PressLinesUp
  BY <1>0, <1>8, MoveUpCurrentLinesOutcome, SmoothCommand DEF PressLinesUp
<1>9. CASE PressLinesDown
  BY <1>0, <1>9, MoveDownCurrentLinesOutcome, SmoothCommand DEF PressLinesDown
<1>10. CASE PressComment
  BY <1>0, <1>10, ToggleLineCommentOutcome, SmoothCommand DEF PressComment
<1>11. CASE PressPaste
  <2>1. Asserted => SelectTogether(editor)
    BY <1>11 DEF Asserted, Deleting
  <2> QED BY <1>0, <1>11, <2>1, PasteOutcome, CommandFollows DEF PressPaste
<1>12. CASE PressCut
  <2>1. Asserted => SelectTogether(editor)
    BY <1>12 DEF Asserted, Deleting
  <2> QED BY <1>0, <1>12, <2>1, CutOutcome, CommandFollows DEF PressCut
<1>13. CASE PressEnter
  <2>1. Asserted => SelectTogether(editor)
    BY <1>13 DEF Asserted, Deleting
  <2> QED BY <1>0, <1>13, <2>1, EnterCharacterOutcome, CommandFollows DEF PressEnter
<1>14. CASE PressCopy
  BY <1>14, CopySucceeds, SmoothCommand DEF PressCopy
<1>15. CASE PressTab
  <2>1. PICK shift \in ShiftKeys : Key("Tab", EnterCharacter(editor, Tab, shift))
    BY <1>15 DEF PressTab
  <2>2. Asserted => SelectTogether(editor)
    BY <1>15 DEF Asserted, Deleting
  <2>3. Tab \in Glyph \cup {NewLine}
    BY GlyphAssumption
  <2> QED BY <2>1, <2>2, <2>3, EnterCharacterOutcome, CommandFollows
<1>16. CASE PressInsert
  <2> DEFINE v == [editor EXCEPT !.overwrite = ~@]
  <2>1. WorkFields \subseteq DOMAIN editor
    BY DEF Sound, Shaped
  <2>2. Succeeds(v, editor)
    <3>1. /\ DOMAIN v = DOMAIN editor /\ v.lines = editor.lines /\ v.cursors = editor.cursors
          /\ v.lastAdded = editor.lastAdded /\ v.ops = editor.ops
          /\ v.clipboard = editor.clipboard /\ v.undoBuffer = editor.undoBuffer
          /\ v.undoIndex = editor.undoIndex /\ v.dragging = editor.dragging
          /\ v.aborted = editor.aborted
      BY <2>1 DEF WorkFields
    <3>f. Flagged(editor) => Flagged(v)
      BY <2>1 DEF Flagged, WorkFields
    <3> HIDE DEF v
    <3> QED BY <3>1, <3>f DEF Sound, Shaped, Succeeds
  <2>5. Steady(v, editor)
    BY <2>1 DEF WorkFields, Steady
  <2>6. v.ops = editor.ops
    BY <2>1 DEF WorkFields
  <2>3. Smooth(v, editor)
    BY <2>2, <2>5, <2>6, CarryingOn DEF Smooth, Written
  <2>4. Key("Insert", {v})
    BY <1>16 DEF PressInsert
  <2> HIDE DEF v
  <2> QED BY <2>3, <2>4, SmoothCommand
<1> QED BY <1>1, <1>2, <1>3, <1>4, <1>5, <1>6, <1>7, <1>8, <1>9, <1>10, <1>11, <1>12, <1>13, <1>14,
           <1>15, <1>16 DEF EditingKey

LEMMA ToolbarFollows ==
    ASSUME Sound(editor), ToolbarStep, ~ToolbarUndo, ~ToolbarRedo
    PROVE  Follows(editor', editor) /\ (Asserted => ~editor'.aborted)
<1>1. CASE ToolbarCut
  <2>1. Asserted => SelectTogether(editor)
    BY <1>1 DEF Asserted, Deleting
  <2> QED BY <1>1, <2>1, CutOutcome, CommandFollows DEF ToolbarCut
<1>2. CASE ToolbarCopy
  BY <1>2, CopySucceeds, SmoothCommand DEF ToolbarCopy
<1>3. CASE ToolbarPaste
  <2>1. Asserted => SelectTogether(editor)
    BY <1>3 DEF Asserted, Deleting
  <2> QED BY <1>3, <2>1, PasteOutcome, CommandFollows DEF ToolbarPaste
<1>4. CASE ToolbarSelectAll
  <2>1. Smooth(SelectAll(editor), editor)
    BY SelectAllSmooth
  <2> QED BY <1>4, <2>1, SmoothCommand DEF ToolbarSelectAll
<1> QED BY <1>1, <1>2, <1>3, <1>4 DEF ToolbarStep

LEMMA TypeFollows ==
    ASSUME Sound(editor), NEW ch \in Characters, Type(ch)
    PROVE  Follows(editor', editor) /\ (Asserted => ~editor'.aborted)
<1>1. Becomes(EnterCharacter(editor, ch, FALSE)) /\ ~editor.aborted
  BY DEF Type, KeysServed, Running
<1>2. \A v \in EnterCharacter(editor, ch, FALSE) :
          Outcome(v, editor) /\ (SelectTogether(editor) => Smooth(v, editor))
  BY TextEditorAssumption, EnterCharacterOutcome
<1>3. Asserted => SelectTogether(editor)
  BY DEF Asserted, Deleting
<1> QED BY <1>1, <1>2, <1>3, BecomesFollows

LEMMA ColorizedIsFlagged ==
    ASSUME NEW w, Sound(w), Flagged(w)
    PROVE  Flagged(ColorizeInternal(w))
<1> DEFINE v == ColorizeInternal(w)
           to == Min({w.colorMin + ColorIncrement, w.colorMax})
           marks == ColorizeRange(w.fresh, w.colorMin, to)
<1>1. WorkFields \subseteq DOMAIN w
  BY DEF Sound, Shaped
<1>2. to \in Nat
  <2>1. w.colorMin + ColorIncrement \in Int /\ w.colorMin + ColorIncrement \in Nat
        /\ w.colorMax \in Int /\ w.colorMax \in Nat
    BY ColorIncrementAssumption DEF Flagged
  <2> QED BY <2>1, MinOfTwo
<1>3. marks \in Seq(BOOLEAN) /\ Len(marks) = Len(w.fresh)
  <2> DEFINE n == Len(w.fresh)
  <2>1. n \in Nat /\ DOMAIN w.fresh = 1..n /\ w.fresh \in Seq(BOOLEAN)
    BY DEF Flagged
  <2> HIDE DEF n, to
  <2>2. marks = [l \in 1..n |-> w.fresh[l] \/ l - 1 \in w.colorMin..(to - 1)]
    BY <2>1 DEF ColorizeRange
  <2>3. \A l \in 1..n : (w.fresh[l] \/ l - 1 \in w.colorMin..(to - 1)) \in BOOLEAN
    OBVIOUS
  <2> DEFINE f == [l \in 1..n |-> w.fresh[l] \/ l - 1 \in w.colorMin..(to - 1)]
  <2>4. f = [l \in 1..n |-> f[l]] /\ \A l \in 1..n : f[l] \in BOOLEAN
    OBVIOUS
  <2> HIDE DEF f, marks
  <2>5. IsSeq(f) /\ Len(f) = n
    BY <2>1, <2>4, ListIsSeq
  <2>6. f \in Seq(BOOLEAN)
    BY <2>4, <2>5, InSeq
  <2> QED BY <2>2, <2>5, <2>6 DEF f, n
<1>4. \/ v = [w EXCEPT !.scan = FALSE]
      \/ v = [w EXCEPT !.scan = FALSE, !.fresh = marks, !.colorMin = MaxInt, !.colorMax = 0]
      \/ v = [w EXCEPT !.scan = FALSE, !.fresh = marks, !.colorMin = to]
  BY <1>1 DEF ColorizeInternal, WorkFields
<1> HIDE DEF marks, to, v
<1>5. MaxInt \in Nat
  BY DEF MaxInt
<1>6. CASE v = [w EXCEPT !.scan = FALSE]
  BY <1>1, <1>6 DEF Flagged, WorkFields, v
<1>7. CASE v = [w EXCEPT !.scan = FALSE, !.fresh = marks, !.colorMin = MaxInt, !.colorMax = 0]
  BY <1>1, <1>3, <1>5, <1>7 DEF Flagged, WorkFields, v
<1>8. CASE v = [w EXCEPT !.scan = FALSE, !.fresh = marks, !.colorMin = to]
  BY <1>1, <1>2, <1>3, <1>8 DEF Flagged, WorkFields, v
<1> QED BY <1>4, <1>6, <1>7, <1>8 DEF v

LEMMA ColorizeInternalSucceeds ==
    ASSUME NEW w, Sound(w)
    PROVE  LET v == ColorizeInternal(w)
           IN  /\ Succeeds(v, w) /\ v.lines = w.lines /\ v.cursors = w.cursors
               /\ v.lastAdded = w.lastAdded
<1> DEFINE v == ColorizeInternal(w)
<1>1. WorkFields \subseteq DOMAIN w
  BY DEF Sound, Shaped
<1>2. /\ DOMAIN v = DOMAIN w /\ v.lines = w.lines /\ v.cursors = w.cursors
      /\ v.lastAdded = w.lastAdded /\ v.ops = w.ops /\ v.clipboard = w.clipboard
      /\ v.undoBuffer = w.undoBuffer /\ v.undoIndex = w.undoIndex /\ v.dragging = w.dragging
      /\ v.aborted = w.aborted
  BY <1>1 DEF ColorizeInternal, WorkFields
<1> HIDE DEF v
<1>f. Flagged(w) => Flagged(v)
  BY ColorizedIsFlagged DEF v
<1>3. Succeeds(v, w)
  BY <1>2, <1>f DEF Sound, Shaped, Succeeds
<1> QED BY <1>2, <1>3 DEF v

LEMMA FrameSucceeds ==
    ASSUME Sound(editor), BeginRender \/ EndFrame
    PROVE  Succeeds(editor', editor) /\ ~editor'.aborted
<1>0. ~editor.aborted
  BY DEF BeginRender, EndFrame, Running
<1>1. CASE BeginRender
  <2>1. PICK w \in (IF editor.changed THEN OnCursorPositionChanged(editor) ELSE {editor}) :
            editor' = [w EXCEPT !.changed = FALSE]
    BY <1>1 DEF BeginRender
  <2>2. Succeeds(w, editor)
    BY <2>1, CursorsStaySound, WorkSucceeds
  <2>3. WorkFields \subseteq DOMAIN w
    BY <2>2 DEF Succeeds, Sound, Shaped
  <2> DEFINE v == [w EXCEPT !.changed = FALSE]
  <2>4. /\ DOMAIN v = DOMAIN w /\ v.lines = w.lines /\ v.cursors = w.cursors
        /\ v.lastAdded = w.lastAdded /\ v.ops = w.ops /\ v.clipboard = w.clipboard
        /\ v.undoBuffer = w.undoBuffer /\ v.undoIndex = w.undoIndex /\ v.dragging = w.dragging
        /\ v.aborted = w.aborted
    BY <2>3 DEF WorkFields
  <2>f. Flagged(w) => Flagged(v)
    BY <2>3 DEF Flagged, WorkFields
  <2>5. editor' = v
    BY <2>1
  <2> HIDE DEF v
  <2>6. Succeeds(v, editor)
    BY <2>2, <2>4, <2>f DEF Sound, Shaped, Succeeds
  <2> QED BY <1>0, <2>5, <2>6 DEF Succeeds
<1>2. CASE EndFrame
  BY <1>0, <1>2, ColorizeInternalSucceeds DEF EndFrame, Succeeds
<1> QED BY <1>1, <1>2

-----------------------------------------------------------------------------
(* The mouse.                                                              *)
DraggedAs(d) == [editor EXCEPT !.dragging = d]

LEMMA DraggedAsIsSane ==
    ASSUME Sane(editor), NEW d
    PROVE  LET b == DraggedAs(d)
           IN  /\ Sane(b) /\ b.dragging = d /\ b.lines = editor.lines
               /\ b.cursors = editor.cursors /\ b.lastAdded = editor.lastAdded
               /\ b.undoBuffer = editor.undoBuffer /\ b.undoIndex = editor.undoIndex
               /\ (b.aborted <=> editor.aborted) /\ (Flagged(b) <=> Flagged(editor))
<1> DEFINE b == DraggedAs(d)
<1>1. WorkFields \subseteq DOMAIN editor
  BY DEF Sane, Sound, Shaped
<1>2. /\ DOMAIN b = DOMAIN editor /\ b.lines = editor.lines /\ b.cursors = editor.cursors
      /\ b.lastAdded = editor.lastAdded /\ b.ops = editor.ops /\ b.clipboard = editor.clipboard
      /\ b.undoBuffer = editor.undoBuffer /\ b.undoIndex = editor.undoIndex /\ b.dragging = d
      /\ b.aborted = editor.aborted
  BY <1>1 DEF DraggedAs, WorkFields
<1>f. Flagged(b) <=> Flagged(editor)
  BY <1>1 DEF DraggedAs, Flagged, WorkFields
<1> HIDE DEF b
<1>3. Sane(b)
  BY <1>2 DEF Sane, Sound, Shaped, Past
<1> QED BY <1>2, <1>3, <1>f DEF b

(* What a mouse step makes of the editor, if it sets dragging to d.        *)
MouseMakes(w, d) ==
    /\ Succeeds(editor', DraggedAs(d))
    /\ editor'.lines = w.lines /\ editor'.cursors = w.cursors
    /\ editor'.lastAdded = w.lastAdded

Aborts == editor' = [editor EXCEPT !.aborted = TRUE]

LEMMA MouseStepMakes ==
    ASSUME Sane(editor), NEW name, NEW down, NEW W, Mouse(name, down, W), NEW d,
           \A w \in W : Succeeds(w, DraggedAs(d))
    PROVE  mouseDown' = down /\ ~editor'.aborted /\ \E w \in W : MouseMakes(w, d)
<1>1. mouseDown' = down /\ ~editor.aborted /\ Becomes({ColorizeInternal(w) : w \in W})
  BY DEF Mouse, Running
<1>2. PICK w \in W : IF ColorizeInternal(w).aborted THEN Aborts
                     ELSE editor' = ColorizeInternal(w)
  BY <1>1 DEF Becomes, Aborts
<1> DEFINE v == ColorizeInternal(w)
<1>3. Sound(w) /\ Succeeds(w, DraggedAs(d))
  BY DEF Succeeds
<1>4. Succeeds(v, w) /\ v.lines = w.lines /\ v.cursors = w.cursors /\ v.lastAdded = w.lastAdded
  BY <1>3, ColorizeInternalSucceeds
<1> HIDE DEF v
<1>5. Succeeds(v, DraggedAs(d))
  BY <1>3, <1>4, WorkSucceeds
<1>6. ~v.aborted
  BY <1>1, <1>5, DraggedAsIsSane DEF Succeeds
<1>7. editor' = v
  BY <1>2, <1>6 DEF v
<1> QED BY <1>1, <1>4, <1>5, <1>6, <1>7 DEF MouseMakes

(* A click works on the cursor it has just added, or the only one left.    *)
LEMMA ClickedSucceeds ==
    ASSUME Sane(editor), NEW ctrl \in BOOLEAN
    PROVE  LET w == Clicked(ctrl)
           IN  /\ Succeeds(w, DraggedAs(TRUE)) /\ w.lines = editor.lines
               /\ GetLastAddedCursorIndex(w) = Len(w.cursors)
<1> DEFINE u == IF ctrl THEN AddCursor(editor) ELSE ClearExtraCursors(editor)
           w == Clicked(ctrl)
<1>1. Sound(editor)
  BY DEF Sane
<1>2. Succeeds(u, editor) /\ u.lines = editor.lines
  BY <1>1, AddCursorSucceeds, ClearExtraCursorsSucceeds
<1>3. GetLastAddedCursorIndex(u) = Len(u.cursors)
  <2>1. WorkFields \subseteq DOMAIN editor /\ editor.lastAdded \in Nat \ {0}
    BY <1>1 DEF Sound, Shaped
  <2>2. CASE ctrl
    <3>1. u = AddCursor(editor) /\ Len(u.cursors) = Len(editor.cursors) + 1
      BY <1>1, <2>2, AddCursorSucceeds
    <3>2. u.lastAdded = Len(editor.cursors) + 1
      BY <2>1, <3>1 DEF AddCursor, WorkFields
    <3>3. Len(editor.cursors) \in Nat
      BY <1>1 DEF Sound, Shaped, AreCursors, IsSeq
    <3> HIDE DEF u
    <3> QED BY <3>1, <3>2, <3>3 DEF GetLastAddedCursorIndex
  <2>3. CASE ~ctrl
    <3>1. u = ClearExtraCursors(editor)
      BY <2>3
    <3>2. u.cursors = <<editor.cursors[1]>> /\ u.lastAdded = editor.lastAdded
      BY <2>1, <3>1 DEF ClearExtraCursors, WorkFields
    <3>3. Len(u.cursors) = 1
      BY <3>2, SmallSeqs
    <3> HIDE DEF u
    <3> QED BY <2>1, <3>2, <3>3 DEF GetLastAddedCursorIndex
  <2> QED BY <2>2, <2>3
<1>4. w = [u EXCEPT !.dragging = TRUE]
  BY DEF Clicked
<1> HIDE DEF u
<1>5. WorkFields \subseteq DOMAIN u
  BY <1>2 DEF Succeeds, Sound, Shaped
<1>6. /\ DOMAIN w = DOMAIN u /\ w.lines = u.lines /\ w.cursors = u.cursors
      /\ w.lastAdded = u.lastAdded /\ w.ops = u.ops /\ w.clipboard = u.clipboard
      /\ w.undoBuffer = u.undoBuffer /\ w.undoIndex = u.undoIndex /\ w.dragging = TRUE
      /\ w.aborted = u.aborted
  BY <1>4, <1>5 DEF WorkFields
<1> DEFINE b == DraggedAs(TRUE)
<1>7. /\ b.dragging = TRUE /\ b.undoBuffer = editor.undoBuffer /\ b.undoIndex = editor.undoIndex
      /\ (b.aborted <=> editor.aborted) /\ (Flagged(b) <=> Flagged(editor))
  BY DraggedAsIsSane
<1>f. Flagged(u) => Flagged(w)
  BY <1>4, <1>5 DEF Flagged, WorkFields
<1> HIDE DEF w, b
<1>8. Succeeds(w, b)
  BY <1>2, <1>6, <1>7, <1>f DEF Succeeds, Sound, Shaped
<1>9. GetLastAddedCursorIndex(w) = Len(w.cursors)
  BY <1>3, <1>6 DEF GetLastAddedCursorIndex
<1> QED BY <1>2, <1>6, <1>8, <1>9 DEF w, b

(* What the actions with the mouse do to the newest cursor.                *)
EndsOnNewest == GetLastAddedCursorIndex(editor)' = Len(editor.cursors)'

LEMMA PositionSucceeds ==
    ASSUME NEW b, NEW w, Succeeds(w, b), NEW p \in Places(w.lines), NEW c, NEW clear \in BOOLEAN
    PROVE  LET v == SetCursorPosition(w, p, c, clear)
           IN  Succeeds(v, b) /\ v.lastAdded = w.lastAdded /\ Len(v.cursors) = Len(w.cursors)
<1> DEFINE v == SetCursorPosition(w, p, c, clear)
<1>1. Sound(w) /\ Work(w, w) /\ WorkFields \subseteq DOMAIN w
  BY WorkSucceeds DEF Succeeds, Sound, Shaped
<1>2. v.lastAdded = w.lastAdded
  BY <1>1 DEF SetCursorPosition, WorkFields
<1>3. Work(v, w)
  BY <1>1, WorkIsLoose, SetCursorPositionWork
<1> HIDE DEF v
<1>4. Succeeds(v, b)
  BY <1>3, WorkSucceeds
<1>5. Len(v.cursors) = Len(w.cursors)
  BY <1>3 DEF Work, Continues, Retains
<1> QED BY <1>2, <1>4, <1>5 DEF v

LEMMA SelectionSucceeds ==
    ASSUME NEW b, NEW w, Succeeds(w, b), NEW p \in Places(w.lines), NEW q \in Places(w.lines), NEW c
    PROVE  LET v == SetSelection(w, p, q, c)
           IN  Succeeds(v, b) /\ v.lastAdded = w.lastAdded /\ Len(v.cursors) = Len(w.cursors)
<1> DEFINE v == SetSelection(w, p, q, c)
<1>1. Sound(w) /\ Work(w, w) /\ WorkFields \subseteq DOMAIN w
  BY WorkSucceeds DEF Succeeds, Sound, Shaped
<1>2. v.lastAdded = w.lastAdded
  BY <1>1 DEF SetSelection, WorkFields
<1>3. Work(v, w)
  BY <1>1, SetSelectionWork
<1> HIDE DEF v
<1>4. Succeeds(v, b)
  BY <1>3, WorkSucceeds
<1>5. Len(v.cursors) = Len(w.cursors)
  BY <1>3 DEF Work, Continues, Retains
<1> QED BY <1>2, <1>4, <1>5 DEF v

(* What a button of the mouse that goes down makes of the editor.          *)
LEMMA PressMakes ==
    ASSUME Sane(editor), NEW name, NEW w, NEW d, NEW W, Mouse(name, TRUE, W),
           NEW v, W = {v}, Succeeds(v, DraggedAs(d)),
           GetLastAddedCursorIndex(w) = Len(w.cursors),
           v.lastAdded = w.lastAdded, Len(v.cursors) = Len(w.cursors)
    PROVE  mouseDown' = TRUE /\ ~editor'.aborted /\ Succeeds(editor', DraggedAs(d)) /\ EndsOnNewest
<1>1. \A u \in W : u = v /\ Succeeds(u, DraggedAs(d))
  OBVIOUS
<1>2. mouseDown' = TRUE /\ ~editor'.aborted /\ MouseMakes(v, d)
  BY <1>1, MouseStepMakes
<1> QED BY <1>2 DEF MouseMakes, EndsOnNewest, GetLastAddedCursorIndex

LineClickEnd(w, l) ==
    IF l < Len(w.lines) - 1 THEN At(l + 1, 0) ELSE At(l, GetLineMaxColumn(w.lines, l))

LEMMA ClicksMake ==
    ASSUME Sane(editor), Click \/ DoubleClick \/ LineClick
    PROVE  /\ ~mouseDown /\ mouseDown' = TRUE /\ ~editor'.aborted
           /\ Succeeds(editor', DraggedAs(TRUE)) /\ EndsOnNewest
<1>0. /\ TRUE \in BOOLEAN /\ FALSE \in BOOLEAN
      /\ \A w : Succeeds(w, DraggedAs(TRUE)) => IsText(w.lines)
  BY DEF Succeeds, Sound, Shaped
<1>1. CASE Click
  <2>1. PICK ctrl \in BOOLEAN, p \in ScreenCoordinates(editor.lines) :
            LET w == Clicked(ctrl)
            IN  ~mouseDown /\ Mouse(IF ctrl THEN "CtrlClick" ELSE "Click", TRUE,
                                    {SetCursorPosition(w, p, GetLastAddedCursorIndex(w), TRUE)})
    BY <1>1 DEF Click
  <2> DEFINE w == Clicked(ctrl)
             v == SetCursorPosition(w, p, GetLastAddedCursorIndex(w), TRUE)
             act == IF ctrl THEN "CtrlClick" ELSE "Click"
  <2>2. /\ Succeeds(w, DraggedAs(TRUE)) /\ w.lines = editor.lines
        /\ GetLastAddedCursorIndex(w) = Len(w.cursors)
    BY ClickedSucceeds
  <2>3. IsText(w.lines)
    BY <1>0, <2>2
  <2>4. ~mouseDown /\ Mouse(act, TRUE, {v})
    BY <2>1
  <2> HIDE DEF w, act
  <2>5. p \in Places(w.lines)
    BY <2>2, <2>3, ClicksArePlaces
  <2>6. /\ Succeeds(v, DraggedAs(TRUE))
        /\ v.lastAdded = w.lastAdded /\ Len(v.cursors) = Len(w.cursors)
    <3> DEFINE c == GetLastAddedCursorIndex(w)
    <3> HIDE DEF c
    <3>1. PICK clear \in BOOLEAN : clear = TRUE
      OBVIOUS
    <3>2. v = SetCursorPosition(w, p, c, clear)
      BY <3>1 DEF c
    <3> HIDE DEF v
    <3>3. PICK b : b = DraggedAs(TRUE)
      OBVIOUS
    <3>4. Succeeds(w, b)
      BY <2>2, <3>3
    <3>5. Succeeds(v, b) /\ v.lastAdded = w.lastAdded /\ Len(v.cursors) = Len(w.cursors)
      BY <2>5, <3>2, <3>4, PositionSucceeds
    <3> QED BY <3>3, <3>5
  <2> HIDE DEF v
  <2> QED BY <2>2, <2>4, <2>6, PressMakes
<1>2. CASE DoubleClick
  <2>1. PICK ctrl \in BOOLEAN, p \in ScreenCoordinates(editor.lines) :
            LET w == Clicked(ctrl)
            IN  ~mouseDown /\ Mouse("DoubleClick", TRUE,
                                    {SetSelection(w, FindWordStart(w.lines, p), FindWordEnd(w.lines, p), Len(w.cursors))})
    BY <1>2 DEF DoubleClick
  <2> DEFINE w == Clicked(ctrl)
             v == SetSelection(w, FindWordStart(w.lines, p), FindWordEnd(w.lines, p), Len(w.cursors))
             act == "DoubleClick"
  <2>2. /\ Succeeds(w, DraggedAs(TRUE)) /\ w.lines = editor.lines
        /\ GetLastAddedCursorIndex(w) = Len(w.cursors)
    BY ClickedSucceeds
  <2>3. IsText(w.lines)
    BY <1>0, <2>2
  <2>4. ~mouseDown /\ Mouse(act, TRUE, {v})
    BY <2>1
  <2> HIDE DEF w, act
  <2>5. FindWordStart(w.lines, p) \in Places(w.lines) /\ FindWordEnd(w.lines, p) \in Places(w.lines)
    BY <2>2, <2>3, ClicksArePlaces, WordsArePlaces
  <2>6. /\ Succeeds(v, DraggedAs(TRUE))
        /\ v.lastAdded = w.lastAdded /\ Len(v.cursors) = Len(w.cursors)
    <3> DEFINE from == FindWordStart(w.lines, p)
               to == FindWordEnd(w.lines, p)
               c == Len(w.cursors)
    <3>1. v = SetSelection(w, from, to, c) /\ from \in Places(w.lines) /\ to \in Places(w.lines)
      BY <2>5
    <3> HIDE DEF v, from, to, c
    <3> QED BY <2>2, <3>1, SelectionSucceeds
  <2> HIDE DEF v
  <2> QED BY <2>2, <2>4, <2>6, PressMakes
<1>3. CASE LineClick
  <2>1. PICK ctrl \in BOOLEAN, l \in 0..(Len(editor.lines) - 1) :
            LET w == Clicked(ctrl)
            IN  ~mouseDown /\ Mouse("LineClick", TRUE,
                                    {SetSelection(w, At(l, 0), LineClickEnd(w, l), Len(w.cursors))})
    BY <1>3 DEF LineClick, LineClickEnd
  <2> DEFINE w == Clicked(ctrl)
             v == SetSelection(w, At(l, 0), LineClickEnd(w, l), Len(w.cursors))
             act == "LineClick"
  <2>2. /\ Succeeds(w, DraggedAs(TRUE)) /\ w.lines = editor.lines
        /\ GetLastAddedCursorIndex(w) = Len(w.cursors)
    BY ClickedSucceeds
  <2>3. IsText(w.lines)
    BY <1>0, <2>2
  <2>4. ~mouseDown /\ Mouse(act, TRUE, {v})
    BY <2>1
  <2> HIDE DEF w, act
  <2>5. At(l, 0) \in Places(w.lines) /\ LineClickEnd(w, l) \in Places(w.lines)
    <3>1. l \in 0..(Len(w.lines) - 1) /\ Len(w.lines) \in Nat
      BY <2>2, <2>3 DEF IsText, IsSeq
    <3>2. CASE l < Len(w.lines) - 1
      <4>1. l + 1 \in 0..(Len(w.lines) - 1) /\ 0 \in Int
        BY <3>1, <3>2
      <4>2. At(l + 1, 0) \in Places(w.lines) /\ At(l, 0) \in Places(w.lines)
        BY <2>3, <3>1, <4>1, ColumnIsPlace
      <4> QED BY <3>2, <4>2 DEF LineClickEnd
    <3>3. CASE ~(l < Len(w.lines) - 1)
      <4>1. At(l, GetLineMaxColumn(w.lines, l)) \in Places(w.lines) /\ At(l, 0) \in Places(w.lines)
        BY <2>3, <3>1, ColumnIsPlace, 0 \in Int
      <4> QED BY <3>3, <4>1 DEF LineClickEnd
    <3> QED BY <3>2, <3>3
  <2>6. /\ Succeeds(v, DraggedAs(TRUE))
        /\ v.lastAdded = w.lastAdded /\ Len(v.cursors) = Len(w.cursors)
    <3> DEFINE from == At(l, 0)
               to == LineClickEnd(w, l)
               c == Len(w.cursors)
    <3>1. v = SetSelection(w, from, to, c) /\ from \in Places(w.lines) /\ to \in Places(w.lines)
      BY <2>5
    <3> HIDE DEF v, from, to, c
    <3> QED BY <2>2, <3>1, SelectionSucceeds
  <2> HIDE DEF v
  <2> QED BY <2>2, <2>4, <2>6, PressMakes
<1> QED BY <1>1, <1>2, <1>3

(* A drag moves the free end of the newest cursor.                         *)
WithFreeEnd(w, c, p) == [w.cursors EXCEPT ![c] = [s |-> w.cursors[c].s, e |-> p]]

MovesFreeEnd ==
    \E p : editor'.cursors = WithFreeEnd(editor, GetLastAddedCursorIndex(editor), p)

LEMMA DragsMake ==
    ASSUME Sane(editor)
    PROVE  /\ ShiftClick => /\ ~mouseDown /\ mouseDown' = TRUE /\ ~editor'.aborted
                            /\ Succeeds(editor', editor)
           /\ Drag => /\ mouseDown' = TRUE /\ ~editor'.aborted
                      /\ Succeeds(editor', editor)
                      /\ editor'.lastAdded = editor.lastAdded
                      /\ MovesFreeEnd
<1>1. /\ Succeeds(editor, editor) /\ IsText(editor.lines) /\ WorkFields \subseteq DOMAIN editor
      /\ FALSE \in BOOLEAN
  BY WorkSucceeds DEF Sane, Sound, Shaped
<1>2. ASSUME NEW c, NEW p \in ScreenCoordinates(editor.lines)
      PROVE  LET v == SetCursorPosition(editor, p, c, FALSE)
             IN  /\ Succeeds(v, editor) /\ v.lastAdded = editor.lastAdded
                 /\ v.cursors = [editor.cursors EXCEPT ![c] = [s |-> editor.cursors[c].s, e |-> p]]
  <2> DEFINE v == SetCursorPosition(editor, p, c, FALSE)
  <2>1. p \in Places(editor.lines)
    BY <1>1, ClicksArePlaces
  <2>2. Succeeds(v, editor) /\ v.lastAdded = editor.lastAdded
    <3>1. PICK clear \in BOOLEAN : clear = FALSE
      OBVIOUS
    <3>2. v = SetCursorPosition(editor, p, c, clear)
      BY <3>1
    <3> HIDE DEF v
    <3> QED BY <1>1, <2>1, <3>2, PositionSucceeds
  <2>3. v.cursors = [editor.cursors EXCEPT ![c] = [s |-> editor.cursors[c].s, e |-> p]]
    BY <1>1 DEF SetCursorPosition, WorkFields
  <2> QED BY <2>2, <2>3
<1>3. ASSUME NEW v, NEW name, Succeeds(v, editor), Mouse(name, TRUE, {v})
      PROVE  /\ mouseDown' = TRUE /\ ~editor'.aborted
             /\ Succeeds(editor', editor) /\ editor'.cursors = v.cursors
             /\ editor'.lastAdded = v.lastAdded
  <2> DEFINE d == editor.dragging
  <2>1. /\ DraggedAs(d).undoBuffer = editor.undoBuffer /\ DraggedAs(d).undoIndex = editor.undoIndex
        /\ DraggedAs(d).dragging = editor.dragging
        /\ (DraggedAs(d).aborted <=> editor.aborted)
        /\ (Flagged(DraggedAs(d)) <=> Flagged(editor))
    BY DraggedAsIsSane
  <2> HIDE DEF d
  <2>2. \A u \in {v} : u = v /\ Succeeds(u, DraggedAs(d))
    BY <1>3, <2>1 DEF Succeeds
  <2> DEFINE W == {v}
  <2>5. Mouse(name, TRUE, W) /\ \A u \in W : u = v /\ Succeeds(u, DraggedAs(d))
    BY <1>3, <2>2
  <2> HIDE DEF W
  <2>6. mouseDown' = TRUE /\ ~editor'.aborted /\ \E u \in W : MouseMakes(u, d)
    BY <2>5, MouseStepMakes
  <2>3. mouseDown' = TRUE /\ ~editor'.aborted /\ MouseMakes(v, d)
    BY <2>5, <2>6
  <2>4. Succeeds(editor', editor)
    BY <2>1, <2>3 DEF MouseMakes, Succeeds
  <2> QED BY <2>3, <2>4 DEF MouseMakes
<1>4. ASSUME ShiftClick
      PROVE  ~mouseDown /\ mouseDown' = TRUE /\ ~editor'.aborted /\ Succeeds(editor', editor)
  <2>1. PICK p \in ScreenCoordinates(editor.lines) :
            ~mouseDown /\ Mouse("ShiftClick", TRUE,
                                {SetCursorPosition(editor, p, Len(editor.cursors), FALSE)})
    BY <1>4 DEF ShiftClick
  <2> DEFINE v == SetCursorPosition(editor, p, Len(editor.cursors), FALSE)
  <2>2. Succeeds(v, editor) /\ ~mouseDown /\ Mouse("ShiftClick", TRUE, {v})
    BY <1>2, <2>1
  <2> HIDE DEF v
  <2>4. /\ mouseDown' = TRUE /\ ~editor'.aborted
        /\ Succeeds(editor', editor) /\ editor'.cursors = v.cursors
        /\ editor'.lastAdded = v.lastAdded
    BY <1>3, <2>2
  <2> QED BY <2>2, <2>4
<1>5. ASSUME Drag
      PROVE  /\ mouseDown' = TRUE /\ ~editor'.aborted
             /\ Succeeds(editor', editor)
             /\ editor'.lastAdded = editor.lastAdded
             /\ MovesFreeEnd
  <2> DEFINE c == GetLastAddedCursorIndex(editor)
  <2>1. PICK p \in ScreenCoordinates(editor.lines) :
            Mouse("Drag", TRUE, {SetCursorPosition(editor, p, c, FALSE)})
    BY <1>5 DEF Drag
  <2> DEFINE v == SetCursorPosition(editor, p, c, FALSE)
  <2>2. /\ Succeeds(v, editor) /\ v.lastAdded = editor.lastAdded
        /\ v.cursors = [editor.cursors EXCEPT ![c] = [s |-> editor.cursors[c].s, e |-> p]]
    BY <1>2
  <2>3. Mouse("Drag", TRUE, {v})
    BY <2>1
  <2> HIDE DEF v
  <2>4. /\ mouseDown' = TRUE /\ ~editor'.aborted
        /\ Succeeds(editor', editor) /\ editor'.cursors = v.cursors
        /\ editor'.lastAdded = v.lastAdded
    BY <1>3, <2>2, <2>3
  <2>5. ASSUME editor'.cursors = v.cursors PROVE MovesFreeEnd
    <3>1. editor'.cursors = WithFreeEnd(editor, GetLastAddedCursorIndex(editor), p)
      BY <2>2, <2>5 DEF WithFreeEnd
    <3> QED BY <3>1 DEF MovesFreeEnd
  <2> QED BY <2>2, <2>4, <2>5
<1> QED
  <2>1. ShiftClick => /\ ~mouseDown /\ mouseDown' = TRUE /\ ~editor'.aborted /\ Succeeds(editor', editor)
    BY <1>4
  <2>2. Drag => /\ mouseDown' = TRUE /\ ~editor'.aborted
                /\ Succeeds(editor', editor)
                /\ editor'.lastAdded = editor.lastAdded
                /\ MovesFreeEnd
    BY <1>5
  <2> QED BY <2>1, <2>2

LEMMA ReleaseMakes ==
    ASSUME Sane(editor), Release
    PROVE  mouseDown' = FALSE /\ ~editor'.aborted /\ Succeeds(editor', DraggedAs(FALSE))
<1> DEFINE b == DraggedAs(FALSE)
<1>1. PICK hovered \in BOOLEAN :
          Mouse(IF hovered THEN "Release" ELSE "ReleaseOutside", FALSE,
                IF hovered THEN SortAndMerge(b) ELSE {b})
  BY DEF Release, DraggedAs
<1>2. Sound(b)
  BY DraggedAsIsSane DEF Sane
<1> DEFINE W == IF hovered THEN SortAndMerge(b) ELSE {b}
           act == IF hovered THEN "Release" ELSE "ReleaseOutside"
<1>3. \A w \in W : Succeeds(w, b)
  BY <1>2, CursorsStaySound, WorkSucceeds
<1>4. Mouse(act, FALSE, W)
  BY <1>1
<1> HIDE DEF W, act
<1>5. mouseDown' = FALSE /\ ~editor'.aborted /\ \E w \in W : MouseMakes(w, FALSE)
  BY <1>3, <1>4, MouseStepMakes
<1> QED BY <1>5 DEF MouseMakes

-----------------------------------------------------------------------------
(* The editor when the window opens.                                       *)
LEMMA InitIsSane ==
    ASSUME Init
    PROVE  /\ Sane(editor) /\ ~editor.dragging /\ ~editor.aborted
           /\ editor.undoBuffer = <<>> /\ editor.undoIndex = 0
<1>1. PICK text \in Texts, clipboard \in Clipboards :
          editor = [lines |-> text,
                     cursors |-> DefaultState.cursors,
                     lastAdded |-> DefaultState.lastAdded,
                     changed |-> FALSE, dragging |-> FALSE, overwrite |-> FALSE,
                     clipboard |-> clipboard,
                     undoBuffer |-> <<>>, undoIndex |-> 0,
                     ops |-> <<>>, aborted |-> FALSE,
                     fresh |-> [l \in DOMAIN text |-> text[l] = <<>>],
                     colorMin |-> 0, colorMax |-> Len(text), scan |-> TRUE]
  BY DEF Init
<1>2. /\ WorkFields \subseteq DOMAIN editor /\ editor.lines = text
      /\ editor.cursors = <<Caret(At(0, 0))>> /\ editor.lastAdded = 1
      /\ editor.dragging = FALSE /\ editor.clipboard = clipboard
      /\ editor.undoBuffer = <<>> /\ editor.undoIndex = 0 /\ editor.ops = <<>>
      /\ ~editor.aborted
  BY <1>1 DEF WorkFields, DefaultState
<1>3. text \in Seq(Line) /\ text # <<>> /\ clipboard \in Passage
  BY TextEditorAssumption
<1>4. IsText(text) /\ Len(text) \in Nat
  <2>1. IsSeq(text) /\ Len(text) \in Nat /\ \A l \in 1..Len(text) : text[l] \in Line
    BY <1>3 DEF IsSeq
  <2>2. \A s \in Line : IsSeq(s)
    BY LineParts
  <2>3. Len(text) >= 1
    BY <1>3
  <2> QED BY <2>1, <2>2, <2>3 DEF IsText
<1>6. Caret(At(0, 0)) \in [s : Places(text), e : Places(text)]
  BY <1>4 DEF Caret, At, Places, IsText
<1> DEFINE k == Caret(At(0, 0))
<1> HIDE DEF k
<1>7. AreCursors(<<k>>, text)
  <2>1. IsSeq(<<k>>) /\ Len(<<k>>) = 1 /\ <<k>>[1] = k
    BY SmallSeqs
  <2> DEFINE one == <<k>>
  <2> HIDE DEF one
  <2>2. \A c \in 1..Len(one) : one[c] \in [s : Places(text), e : Places(text)]
    BY <1>6, <2>1 DEF one, k
  <2> QED BY <2>1, <2>2 DEF AreCursors, one
<1>8. AreOperations(<<>>) /\ IsSeq(<<>>) /\ Len(<<>>) = 0
  <2>1. IsSeq(<<>>) /\ Len(<<>>) = 0
    BY SmallSeqs
  <2>2. ~(\E n : n \in 1..0)
    OBVIOUS
  <2> DEFINE none == <<>>
  <2> HIDE DEF none
  <2>3. AreOperations(none)
    BY <2>1, <2>2 DEF AreOperations, none
  <2> QED BY <2>1, <2>3 DEF none
<1>9. Sound(editor)
  BY <1>2, <1>3, <1>4, <1>7, <1>8 DEF Sound, Shaped, k
<1>10. Past(editor)
  BY <1>2, <1>8 DEF Past
<1> QED BY <1>2, <1>9, <1>10 DEF Sane

-----------------------------------------------------------------------------
(* A step that is neither an undo nor a redo.                              *)
UndoOrRedo == PressUndo \/ PressRedo \/ ToolbarUndo \/ ToolbarRedo

Makes(d) == Aborts \/ Succeeds(editor', DraggedAs(d)) \/ Edited(editor', editor)

LEMMA GoesMakes ==
    ASSUME Sane(editor), Goes(editor', editor)
    PROVE  Makes(editor.dragging)
<1>1. /\ DraggedAs(editor.dragging).undoBuffer = editor.undoBuffer
      /\ DraggedAs(editor.dragging).undoIndex = editor.undoIndex
      /\ DraggedAs(editor.dragging).dragging = editor.dragging
      /\ (DraggedAs(editor.dragging).aborted <=> editor.aborted)
      /\ (Flagged(DraggedAs(editor.dragging)) <=> Flagged(editor))
  BY DraggedAsIsSane
<1> QED BY <1>1 DEF Goes, Makes, Aborts, Succeeds

LEMMA StepMakes ==
    ASSUME Sane(editor), Next, ~UndoOrRedo, VisibleLineCount >= 2, PressLinesDown => WholeLines(editor)
    PROVE  (\E d \in BOOLEAN \cup {editor.dragging} : Makes(d)) /\ (Asserted => ~editor'.aborted)
<1>1. Sound(editor) /\ ~PressUndo /\ ~PressRedo /\ ~ToolbarUndo /\ ~ToolbarRedo
  BY DEF Sane, UndoOrRedo
<1>2. CASE ToolbarStep
  BY <1>1, <1>2, ToolbarFollows, FollowsGoes, GoesMakes
<1>3. CASE BeginRender \/ EndFrame
  BY <1>1, <1>3, FrameSucceeds, GoesMakes DEF Goes
<1>4. CASE MovementKey
  BY <1>1, <1>4, MovementKeyFollows, FollowsGoes, GoesMakes
<1>5. CASE EditingKey
  BY <1>1, <1>5, EditingKeyFollows, FollowsGoes, GoesMakes
<1>6. CASE \E ch \in Characters : Type(ch)
  BY <1>1, <1>6, TypeFollows, FollowsGoes, GoesMakes
<1>7. CASE Click \/ DoubleClick \/ LineClick
  BY <1>7, ClicksMake DEF Makes
<1>8. CASE ShiftClick \/ Drag
  <2>1. Succeeds(editor', editor) /\ ~editor'.aborted
    BY <1>8, DragsMake
  <2>2. Goes(editor', editor)
    BY <2>1 DEF Goes
  <2> QED BY <2>1, <2>2, GoesMakes
<1>9. CASE Release
  BY <1>9, ReleaseMakes DEF Makes
<1> QED BY <1>2, <1>3, <1>4, <1>5, <1>6, <1>7, <1>8, <1>9 DEF Next, MouseStep

LEMMA MakesSane ==
    ASSUME Sane(editor), NEW d, Makes(d)
    PROVE  Sane(editor')
<1>1. CASE Aborts \/ Edited(editor', editor)
  <2>1. Goes(editor', editor)
    BY <1>1 DEF Goes, Aborts
  <2> QED BY <2>1, GoesIsSane
<1>2. CASE Succeeds(editor', DraggedAs(d))
  <2> DEFINE b == DraggedAs(d)
  <2>1. Sane(b)
    BY DraggedAsIsSane
  <2> HIDE DEF b
  <2>2. Goes(editor', b)
    BY <1>2 DEF Goes, b
  <2> QED BY <2>1, <2>2, GoesIsSane
<1> QED BY <1>1, <1>2 DEF Makes

-----------------------------------------------------------------------------
(* Undo and redo, when the text shown is the version the index names and   *)
(* every record starts from the text at which the one before it ended.     *)
Chain(w) == \A n \in 1..(Len(w.undoBuffer) - 1) : w.undoBuffer[n + 1].from = w.undoBuffer[n].to

Shows == editor.lines = Versions[editor.undoIndex + 1]

LEMMA VersionsAre ==
    ASSUME Past(editor)
    PROVE  /\ IsSeq(Versions) /\ Len(Versions) = Len(editor.undoBuffer) + 1
           /\ Len(editor.undoBuffer) >= 1 => Versions[1] = editor.undoBuffer[1].from
           /\ \A n \in 1..Len(editor.undoBuffer) : Versions[n + 1] = editor.undoBuffer[n].to
<1> DEFINE buffer == editor.undoBuffer
           first == <<buffer[1].from>>
           later == [n \in DOMAIN buffer |-> buffer[n].to]
<1>1. IsSeq(buffer) /\ Len(buffer) \in Nat /\ DOMAIN buffer = 1..Len(buffer)
  BY DEF Past, IsSeq
<1>2. CASE buffer = <<>>
  <2>1. Versions = <<editor.lines>>
    BY <1>2 DEF Versions
  <2>2. Len(buffer) = 0 /\ IsSeq(<<editor.lines>>) /\ Len(<<editor.lines>>) = 1
    BY <1>2, SmallSeqs
  <2> QED BY <2>1, <2>2
<1>3. CASE buffer # <<>>
  <2>1. Versions = first \o later
    BY <1>3 DEF Versions
  <2>2. IsSeq(first) /\ Len(first) = 1 /\ first[1] = buffer[1].from
    BY SmallSeqs
  <2>3. later = [n \in 1..Len(buffer) |-> buffer[n].to] /\ later = [n \in 1..Len(buffer) |-> later[n]]
    BY <1>1
  <2>4. \A n \in 1..Len(buffer) : later[n] = buffer[n].to
    BY <1>1
  <2> HIDE DEF first, later
  <2>5. IsSeq(later) /\ Len(later) = Len(buffer)
    BY <1>1, <2>3, ListIsSeq
  <2> DEFINE all == first \o later
  <2>6. /\ IsSeq(all) /\ Len(all) = Len(first) + Len(later)
        /\ \A i \in 1..(Len(first) + Len(later)) :
               all[i] = IF i <= Len(first) THEN first[i] ELSE later[i - Len(first)]
    BY <2>2, <2>5, ConcatIsSeq
  <2> HIDE DEF all, buffer
  <2>7. all[1] = first[1]
    BY <1>1, <2>2, <2>5, <2>6
  <2>8. ASSUME NEW n \in 1..Len(buffer) PROVE all[n + 1] = later[n]
    <3>1. /\ n + 1 \in 1..(Len(first) + Len(later)) /\ ~(n + 1 <= Len(first))
          /\ (n + 1) - Len(first) = n
      BY <1>1, <2>2, <2>5
    <3> QED BY <2>6, <3>1
  <2>9. Len(all) = Len(buffer) + 1
    BY <1>1, <2>2, <2>5, <2>6
  <2> QED BY <2>1, <2>2, <2>4, <2>6, <2>7, <2>8, <2>9 DEF all, buffer
<1> QED BY <1>2, <1>3

(* Shows is kept by the steps UndoHistory allows.                          *)
LEMMA HistoryKeepsShows ==
    ASSUME Past(editor), Shows, [History!Next]_History!vars
    PROVE  Shows'
<1> DEFINE i == editor.undoIndex
<1>1. /\ i \in Nat /\ i <= Len(editor.undoBuffer) /\ Len(editor.undoBuffer) \in Nat
      /\ IsSeq(Versions) /\ Len(Versions) = Len(editor.undoBuffer) + 1
  BY VersionsAre DEF Past, IsSeq
<1>2. CASE History!Edit
  <2>1. /\ Versions' = Append(SubSeq(Versions, 1, i + 1), editor'.lines)
        /\ editor'.undoIndex = i + 1
    BY <1>2 DEF History!Edit
  <2> DEFINE kept == SubSeq(Versions, 1, i + 1)
  <2>2. IsSeq(kept) /\ Len(kept) = IF 1 <= i + 1 THEN 1 + (i + 1) - 1 ELSE 0
    <3>1. 1 \in Int /\ i + 1 \in Int
      BY <1>1
    <3> QED BY <3>1, SubSeqIsSeq
  <2>3. Len(kept) = i + 1
    BY <1>1, <2>2
  <2> HIDE DEF kept, i
  <2>4. Append(kept, editor'.lines)[Len(kept) + 1] = editor'.lines
    <3>1. \A n \in 1..(Len(kept) + 1) :
              Append(kept, editor'.lines)[n] = IF n <= Len(kept) THEN kept[n] ELSE editor'.lines
      BY <2>2, AppendIsSeq
    <3>2. Len(kept) + 1 \in 1..(Len(kept) + 1) /\ ~(Len(kept) + 1 <= Len(kept))
      BY <1>1, <2>3
    <3> QED BY <3>1, <3>2
  <2> QED BY <2>1, <2>3, <2>4 DEF Shows, kept
<1>3. CASE History!Undo
  <2>1. /\ editor'.lines = Versions[i] /\ editor'.undoIndex = i - 1 /\ Versions' = Versions
    BY <1>3 DEF History!Undo
  <2>2. (i - 1) + 1 = i
    BY <1>1
  <2> QED BY <2>1, <2>2 DEF Shows
<1>4. CASE History!Redo
  <2>1. /\ editor'.lines = Versions[i + 2] /\ editor'.undoIndex = i + 1 /\ Versions' = Versions
    BY <1>4 DEF History!Redo
  <2>2. (i + 1) + 1 = i + 2
    BY <1>1
  <2> QED BY <2>1, <2>2 DEF Shows
<1>5. CASE UNCHANGED History!vars
  BY <1>5 DEF History!vars, Shows
<1> QED BY <1>2, <1>3, <1>4, <1>5 DEF History!Next

LEMMA InitShows ==
    ASSUME Init
    PROVE  Chain(editor) /\ Shows
<1>1. editor.undoBuffer = <<>> /\ editor.undoIndex = 0
  BY InitIsSane
<1>2. Len(editor.undoBuffer) = 0
  BY <1>1, SmallSeqs
<1>3. Chain(editor)
  BY <1>2 DEF Chain
<1>4. Versions = <<editor.lines>> /\ <<editor.lines>>[1] = editor.lines
  BY <1>1, SmallSeqs DEF Versions
<1> QED BY <1>1, <1>3, <1>4 DEF Shows

(* What an edit makes of the records: a chain that ends in the new text.   *)
LEMMA EditKeepsChain ==
    ASSUME Sane(editor), Chain(editor), Shows, Edited(editor', editor)
    PROVE  Chain(editor')
<1> DEFINE i == editor.undoIndex
           old == editor.undoBuffer
           new == editor'.undoBuffer
<1>1. Past(editor) /\ i \in Nat /\ i <= Len(old) /\ Len(old) \in Nat
  BY DEF Sane, Past, IsSeq
<1>2. PICK r : r.from = editor.lines /\ new = Append(SubSeq(old, 1, i), r)
  BY DEF Edited
<1>3. /\ IsSeq(new) /\ Len(new) = i + 1
      /\ \A n \in 1..(i + 1) : new[n] = IF n <= i THEN old[n] ELSE r
  <2> DEFINE buffer == Append(SubSeq(old, 1, i), r)
  <2>1. /\ IsSeq(buffer) /\ Len(buffer) = i + 1
        /\ \A n \in 1..(i + 1) : buffer[n] = IF n <= i THEN old[n] ELSE r
    BY <1>1, EditedPast
  <2>2. new = buffer
    BY <1>2
  <2> HIDE DEF buffer, new
  <2> QED BY <2>1, <2>2
<1>4. i >= 1 => r.from = old[i].to
  <2>1. i >= 1 => Versions[i + 1] = old[i].to
    BY <1>1, VersionsAre
  <2> QED BY <1>2, <2>1 DEF Shows
<1>5. \A n \in 1..(Len(old) - 1) : old[n + 1].from = old[n].to
  BY DEF Chain
<1> HIDE DEF i, old, new
<1>6. ASSUME NEW n \in 1..(Len(new) - 1) PROVE new[n + 1].from = new[n].to
  <2>1. n \in 1..i /\ n + 1 \in 1..(i + 1) /\ n \in 1..(i + 1) /\ n <= i
    BY <1>1, <1>3
  <2>2. new[n] = old[n]
    BY <1>3, <2>1
  <2>3. CASE n + 1 <= i
    <3>1. n \in 1..(Len(old) - 1)
      BY <1>1, <2>1, <2>3
    <3>2. new[n + 1] = old[n + 1]
      BY <1>3, <2>1, <2>3
    <3> QED BY <1>5, <2>2, <3>1, <3>2
  <2>4. CASE ~(n + 1 <= i)
    <3>1. n = i /\ i >= 1
      BY <1>1, <2>1, <2>4
    <3>2. new[n + 1] = r
      BY <1>3, <2>1, <2>4
    <3> QED BY <1>4, <2>2, <3>1, <3>2
  <2> QED BY <2>3, <2>4
<1> QED BY <1>6 DEF Chain, new

(* An editor that has walked to a state, and shows the text of that state. *)
LEMMA WalkedIsSane ==
    ASSUME NEW w, Sane(w), NEW v, NEW n \in 0..Len(w.undoBuffer), NEW state, Walked(v, w, n, state),
           IsText(v.lines), v.lines \in Seq(Line),
           AreCursors(state.cursors, v.lines), state.lastAdded \in Nat \ {0}
    PROVE  Sane(v)
<1>1. Sound(v)
  BY DEF Walked, Complete, Sane, Sound, Shaped
<1>2. Past(v)
  BY DEF Walked, Sane, Past
<1> QED BY <1>1, <1>2 DEF Sane

LEMMA UndoIsSane ==
    ASSUME Sane(editor), Chain(editor), Shows, [History!Next]_History!vars, Becomes(Undo(editor))
    PROVE  Aborts \/ (Sane(editor') /\ editor'.undoBuffer = editor.undoBuffer)
<1> DEFINE i == editor.undoIndex
           buffer == editor.undoBuffer
           r == buffer[i]
<1>1. Aborts \/ editor' \in Undo(editor)
  BY DEF Becomes, Aborts
<1>2. CASE i = 0
  <2>1. Undo(editor) = {editor}
    BY <1>2 DEF Undo
  <2> QED BY <1>1, <2>1
<1>3. CASE i # 0 /\ editor' \in Undo(editor)
  <2>1. Past(editor) /\ Sound(editor) /\ Complete(editor) /\ i \in 0..Len(buffer) /\ Len(buffer) \in Nat
    BY DEF Sane, Sound, Shaped, Past, Complete, IsSeq
  <2>2. i \in 1..Len(buffer) /\ i - 1 \in 0..Len(buffer) /\ Len(buffer) >= 1
    BY <1>3, <2>1
  <2>3. Entry(r)
    BY <2>2 DEF Sane, Past
  <2>4. AreOperations(r.ops)
    BY <2>3 DEF Entry
  <2>5. Walked(editor', editor, i - 1, r.before)
    BY <1>3, <2>1, <2>4, UndoWalks
  <2>6. editor'.undoBuffer = buffer /\ editor'.undoIndex = i - 1
    BY <2>5 DEF Walked
  <2>7. editor'.lines = Versions[i]
    <3>1. Shows'
      BY <2>1, HistoryKeepsShows
    <3>2. buffer # <<>>
      BY <2>2, SmallSeqs
    <3>3. Versions' = Versions
      BY <2>6, <3>2 DEF Versions
    <3>4. (i - 1) + 1 = i
      BY <2>1
    <3> QED BY <2>6, <3>1, <3>3, <3>4 DEF Shows
  <2>8. Versions[i] = r.from
    <3>1. CASE i = 1
      BY <2>1, <2>2, <3>1, VersionsAre
    <3>2. CASE i # 1
      <4>1. /\ i - 1 \in 1..Len(buffer) /\ i - 1 \in 1..(Len(buffer) - 1) /\ (i - 1) + 1 = i
        BY <2>1, <2>2, <3>2
      <4>2. Versions[(i - 1) + 1] = buffer[i - 1].to
        BY <2>1, <4>1, VersionsAre
      <4>3. buffer[(i - 1) + 1].from = buffer[i - 1].to
        BY <4>1 DEF Chain
      <4> QED BY <4>1, <4>2, <4>3
    <3> QED BY <3>1, <3>2
  <2> HIDE DEF i, buffer, r
  <2>9. /\ IsText(editor'.lines) /\ editor'.lines \in Seq(Line)
        /\ AreCursors(r.before.cursors, editor'.lines)
        /\ r.before.lastAdded \in Nat \ {0}
    BY <2>3, <2>7, <2>8 DEF Entry
  <2>10. Sane(editor')
    BY <2>2, <2>5, <2>9, WalkedIsSane DEF buffer
  <2> QED BY <2>6, <2>10 DEF buffer
<1> QED BY <1>1, <1>2, <1>3

LEMMA RedoIsSane ==
    ASSUME Sane(editor), Chain(editor), Shows, [History!Next]_History!vars, Becomes(Redo(editor))
    PROVE  Aborts \/ (Sane(editor') /\ editor'.undoBuffer = editor.undoBuffer)
<1> DEFINE i == editor.undoIndex
           buffer == editor.undoBuffer
           r == buffer[i + 1]
<1>1. Aborts \/ editor' \in Redo(editor)
  BY DEF Becomes, Aborts
<1>2. CASE i = Len(buffer)
  <2>1. Redo(editor) = {editor}
    BY <1>2 DEF Redo
  <2> QED BY <1>1, <2>1
<1>3. CASE i # Len(buffer) /\ editor' \in Redo(editor)
  <2>1. Past(editor) /\ Sound(editor) /\ Complete(editor) /\ i \in 0..Len(buffer) /\ Len(buffer) \in Nat
    BY DEF Sane, Sound, Shaped, Past, Complete, IsSeq
  <2>2. i + 1 \in 1..Len(buffer) /\ i + 1 \in 0..Len(buffer) /\ Len(buffer) >= 1
    BY <1>3, <2>1
  <2>3. Entry(r)
    BY <2>2 DEF Sane, Past
  <2>4. AreOperations(r.ops)
    BY <2>3 DEF Entry
  <2>5. Walked(editor', editor, i + 1, r.after)
    BY <1>3, <2>1, <2>4, RedoWalks
  <2>6. editor'.undoBuffer = buffer /\ editor'.undoIndex = i + 1
    BY <2>5 DEF Walked
  <2>7. editor'.lines = Versions[(i + 1) + 1]
    <3>1. Shows'
      BY <2>1, HistoryKeepsShows
    <3>2. buffer # <<>>
      BY <2>2, SmallSeqs
    <3>3. Versions' = Versions
      BY <2>6, <3>2 DEF Versions
    <3> QED BY <2>6, <3>1, <3>3 DEF Shows
  <2>8. Versions[(i + 1) + 1] = r.to
    BY <2>1, <2>2, VersionsAre
  <2> HIDE DEF i, buffer, r
  <2>9. /\ IsText(editor'.lines) /\ editor'.lines \in Seq(Line)
        /\ AreCursors(r.after.cursors, editor'.lines)
        /\ r.after.lastAdded \in Nat \ {0}
    BY <2>3, <2>7, <2>8 DEF Entry
  <2>10. Sane(editor')
    BY <2>2, <2>5, <2>9, WalkedIsSane DEF buffer
  <2> QED BY <2>6, <2>10 DEF buffer
<1> QED BY <1>1, <1>2, <1>3

-----------------------------------------------------------------------------
(* The inductive invariants.                                               *)
LEMMA OtherStepsKeepSane ==
    ASSUME VisibleLineCount >= 2, [PressLinesDown => WholeLines(editor)]_vars,
           Sane(editor), [Next]_vars, ~UndoOrRedo
    PROVE  Sane(editor)'
<1>1. CASE UNCHANGED vars
  BY <1>1 DEF vars
<1>2. CASE Next /\ (PressLinesDown => WholeLines(editor))
  BY <1>2, StepMakes, MakesSane
<1> QED BY <1>1, <1>2

(* Lines are moved down with no selection that ends at the start of a      *)
(* line.                                                                   *)
LinesGoDownWhole == [][PressLinesDown => WholeLines(editor)]_vars

UndoKeys == {"Undo", "Redo", "ToolbarUndo", "ToolbarRedo"}

LEMMA SaneWithoutUndo ==
    ASSUME VisibleLineCount >= 2, UndoKeys \cap Commands = {}
    PROVE  Spec /\ LinesGoDownWhole => []Sane(editor)
<1>1. Init => Sane(editor)
  BY InitIsSane
<1>2. ~UndoOrRedo
  BY DEF UndoOrRedo, PressUndo, PressRedo, ToolbarUndo, ToolbarRedo, Key, Button, UndoKeys
<1>3. Sane(editor) /\ [Next]_vars /\ [PressLinesDown => WholeLines(editor)]_vars => Sane(editor)'
  BY <1>2, OtherStepsKeepSane
<1> QED BY <1>1, <1>3, PTL DEF Spec, LinesGoDownWhole

Chained == Sane(editor) /\ Chain(editor) /\ Shows

LEMMA StepsKeepChained ==
    ASSUME VisibleLineCount >= 2, [PressLinesDown => WholeLines(editor)]_vars,
           Chained, [Next]_vars, [History!Next]_History!vars
    PROVE  Chained'
<1>0. Sane(editor) /\ Chain(editor) /\ Shows /\ Past(editor)
  BY DEF Chained, Sane
<1>1. Shows'
  BY <1>0, HistoryKeepsShows
<1>2. Sane(editor') /\ Chain(editor')
  <2>1. CASE UndoOrRedo
    <3>1. Becomes(Undo(editor)) \/ Becomes(Redo(editor))
      BY <2>1 DEF UndoOrRedo, PressUndo, PressRedo, ToolbarUndo, ToolbarRedo, Key, Button
    <3>2. Aborts \/ (Sane(editor') /\ editor'.undoBuffer = editor.undoBuffer)
      BY <1>0, <3>1, UndoIsSane, RedoIsSane
    <3>3. Aborts => Sane(editor') /\ editor'.undoBuffer = editor.undoBuffer
      <4>1. WorkFields \subseteq DOMAIN editor
        BY <1>0 DEF Sane, Sound, Shaped
      <4>2. Aborts => Makes(TRUE)
        BY DEF Makes
      <4>3. Aborts => editor'.undoBuffer = editor.undoBuffer
        BY <4>1 DEF Aborts, WorkFields
      <4> QED BY <1>0, <4>2, <4>3, MakesSane
    <3> QED BY <1>0, <3>2, <3>3 DEF Chain
  <2>2. CASE Next /\ ~UndoOrRedo /\ (PressLinesDown => WholeLines(editor))
    <3>1. PICK d : Makes(d)
      BY <1>0, <2>2, StepMakes
    <3>2. Sane(editor')
      BY <1>0, <3>1, MakesSane
    <3>3. CASE Edited(editor', editor)
      BY <1>0, <3>2, <3>3, EditKeepsChain
    <3>4. CASE Aborts \/ Succeeds(editor', DraggedAs(d))
      <4>1. WorkFields \subseteq DOMAIN editor
        BY <1>0 DEF Sane, Sound, Shaped
      <4>2. Aborts => editor'.undoBuffer = editor.undoBuffer
        BY <4>1 DEF Aborts, WorkFields
      <4>3. DraggedAs(d).undoBuffer = editor.undoBuffer
        BY <1>0, DraggedAsIsSane
      <4>4. editor'.undoBuffer = editor.undoBuffer
        BY <3>4, <4>2, <4>3 DEF Succeeds
      <4> QED BY <1>0, <3>2, <4>4 DEF Chain
    <3> QED BY <3>1, <3>3, <3>4 DEF Makes
  <2>3. CASE UNCHANGED vars
    BY <1>0, <2>3 DEF vars
  <2> QED BY <2>1, <2>2, <2>3
<1> QED BY <1>1, <1>2 DEF Chained

LEMMA SaneWithHistory ==
    ASSUME VisibleLineCount >= 2
    PROVE  Spec /\ LinesGoDownWhole /\ UndoRestoresText => []Sane(editor)
<1>1. Init => Chained
  BY InitIsSane, InitShows DEF Chained
<1>2. Chained /\ [Next]_vars /\ [History!Next]_History!vars
          /\ [PressLinesDown => WholeLines(editor)]_vars => Chained'
  BY StepsKeepChained
<1>3. Chained => Sane(editor)
  BY DEF Chained
<1> QED BY <1>1, <1>2, <1>3, PTL DEF Spec, UndoRestoresText, History!Spec, LinesGoDownWhole

-----------------------------------------------------------------------------
(* What a sane editor shows of the properties.                             *)
LEMMA SaneIsInText ==
    ASSUME Sane(editor)
    PROVE  CursorsInText
<1>1. ASSUME NEW k, NEW lines, IsText(lines), AreCursors(k, lines)
      PROVE  /\ DOMAIN k = 1..Len(k)
             /\ \A c \in 1..Len(k) : {k[c].s.line, k[c].e.line} \subseteq 0..(Len(lines) - 1)
             /\ \A x \in ToSet(k) : x.e.line < Len(lines) /\ x.s.line < Len(lines)
  <2>1. DOMAIN k = 1..Len(k) /\ Len(lines) \in Nat
    BY <1>1 DEF AreCursors, IsText, IsSeq
  <2>2. \A c \in 1..Len(k) : k[c].s \in Places(lines) /\ k[c].e \in Places(lines)
    BY <1>1 DEF AreCursors
  <2>3. \A p \in Places(lines) : p.line \in 0..(Len(lines) - 1) /\ p.line < Len(lines)
    BY <2>1 DEF Places
  <2>4. \A c \in 1..Len(k) : {k[c].s.line, k[c].e.line} \subseteq 0..(Len(lines) - 1)
    BY <2>2, <2>3
  <2>5. ASSUME NEW x \in ToSet(k) PROVE x.e.line < Len(lines) /\ x.s.line < Len(lines)
    <3>1. PICK c \in 1..Len(k) : x = k[c]
      BY <2>1 DEF ToSet
    <3> QED BY <2>2, <2>3, <3>1
  <2> QED BY <2>1, <2>4, <2>5
<1>2. \A c \in DOMAIN editor.cursors :
          {editor.cursors[c].s.line, editor.cursors[c].e.line} \subseteq 0..(Len(editor.lines) - 1)
  <2>1. IsText(editor.lines) /\ AreCursors(editor.cursors, editor.lines)
    BY DEF Sane, Sound, Shaped
  <2> QED BY <1>1, <2>1
<1>3. ASSUME NEW n \in DOMAIN editor.undoBuffer
      PROVE  LET r == editor.undoBuffer[n]
             IN  /\ \A k \in ToSet(r.before.cursors) : k.e.line < Len(r.from) /\ k.s.line < Len(r.from)
                 /\ \A k \in ToSet(r.after.cursors) : k.e.line < Len(r.to) /\ k.s.line < Len(r.to)
  <2> DEFINE r == editor.undoBuffer[n]
  <2>1. Entry(r)
    BY DEF Sane, Past, IsSeq
  <2>2. /\ IsText(r.from) /\ AreCursors(r.before.cursors, r.from)
        /\ IsText(r.to) /\ AreCursors(r.after.cursors, r.to)
    BY <2>1 DEF Entry
  <2> HIDE DEF r
  <2>3. \A k \in ToSet(r.before.cursors) : k.e.line < Len(r.from) /\ k.s.line < Len(r.from)
    BY <1>1, <2>2
  <2>4. \A k \in ToSet(r.after.cursors) : k.e.line < Len(r.to) /\ k.s.line < Len(r.to)
    BY <1>1, <2>2
  <2> QED BY <2>3, <2>4 DEF r
<1> QED BY <1>2, <1>3 DEF CursorsInText

LEMMA SaneRoundTrips ==
    ASSUME Sane(editor)
    PROVE  ColumnsRoundTrip
<1>1. IsText(editor.lines) /\ Len(editor.lines) \in Nat
  BY DEF Sane, Sound, Shaped, IsText, IsSeq
<1> SUFFICES ASSUME NEW l \in 0..(Len(editor.lines) - 1)
    PROVE  /\ \A s \in Stops(editor.lines[l + 1]) :
                  /\ GetCharacterIndexR(editor.lines, At(l, s.column)) = s.index
                  /\ GetCharacterIndexL(editor.lines, At(l, s.column)) = s.index
           /\ \A c \in 0..(GetLineMaxColumn(editor.lines, l) + 1) :
                  GetCharacterIndexL(editor.lines, At(l, c)) <= GetCharacterIndexR(editor.lines, At(l, c))
  BY DEF ColumnsRoundTrip
<1>2. l \in Nat
  BY <1>1
<1>3. GetLineMaxColumn(editor.lines, l) \in Nat
  BY <1>1, <1>2, MaxColumnIsNat
<1>4. \A c \in 0..(GetLineMaxColumn(editor.lines, l) + 1) : c \in Nat
  BY <1>3
<1> QED BY <1>1, <1>4, IndexRoundTrips

-----------------------------------------------------------------------------
(* While a selection is dragged the button is down, and the cursor added   *)
(* last is the last of the cursors.                                        *)
HoldsNewest ==
    \/ editor.aborted
    \/ editor.dragging => mouseDown /\ GetLastAddedCursorIndex(editor) = Len(editor.cursors)

OneCursorMoves ==
    editor.dragging /\ mouseDown /\ mouseDown' =>
           LET n == Len(editor.cursors)
           IN  /\ Len(editor'.cursors) = n
               /\ \A c \in 1..(n - 1) : editor'.cursors[c] = editor.cursors[c]
               /\ editor'.cursors[n].s = editor.cursors[n].s

LEMMA UndoLeavesRest ==
    ASSUME Sane(editor), Becomes(Undo(editor)) \/ Becomes(Redo(editor))
    PROVE  Aborts \/ (editor'.dragging = editor.dragging /\ editor'.undoBuffer = editor.undoBuffer)
<1> DEFINE i == editor.undoIndex
           buffer == editor.undoBuffer
<1>1. Complete(editor) /\ i \in 0..Len(buffer) /\ Len(buffer) \in Nat
  BY DEF Sane, Sound, Shaped, Past, Complete, IsSeq
<1>2. \A n \in 1..Len(buffer) : AreOperations(buffer[n].ops)
  BY DEF Sane, Past, Entry
<1>3. CASE Becomes(Undo(editor))
  <2>1. Aborts \/ editor' \in Undo(editor)
    BY <1>3 DEF Becomes, Aborts
  <2>2. CASE i = 0
    BY <2>1, <2>2 DEF Undo
  <2>3. CASE i # 0
    <3>1. i \in 1..Len(buffer)
      BY <1>1, <2>3
    <3> QED BY <1>1, <1>2, <2>1, <2>3, <3>1, UndoWalks DEF Walked
  <2> QED BY <2>2, <2>3
<1>4. CASE Becomes(Redo(editor))
  <2>1. Aborts \/ editor' \in Redo(editor)
    BY <1>4 DEF Becomes, Aborts
  <2>2. CASE i = Len(buffer)
    BY <2>1, <2>2 DEF Redo
  <2>3. CASE i # Len(buffer)
    <3>1. i + 1 \in 1..Len(buffer)
      BY <1>1, <2>3
    <3> QED BY <1>1, <1>2, <2>1, <2>3, <3>1, RedoWalks DEF Walked
  <2> QED BY <2>2, <2>3
<1> QED BY <1>3, <1>4

LEMMA UndoDoesNotFail ==
    ASSUME Sane(editor), ~editor.aborted, Becomes(Undo(editor)) \/ Becomes(Redo(editor))
    PROVE  ~editor'.aborted
<1> DEFINE i == editor.undoIndex
           buffer == editor.undoBuffer
<1>1. Complete(editor) /\ i \in 0..Len(buffer) /\ Len(buffer) \in Nat
  BY DEF Sane, Sound, Shaped, Past, Complete, IsSeq
<1>2. \A n \in 1..Len(buffer) : AreOperations(buffer[n].ops)
  BY DEF Sane, Past, Entry
<1>3. ASSUME NEW v \in Undo(editor) PROVE ~v.aborted
  <2>1. CASE i = 0
    BY <1>3, <2>1 DEF Undo
  <2>2. CASE i # 0
    <3>1. i \in 1..Len(buffer)
      BY <1>1, <2>2
    <3> QED BY <1>1, <1>2, <1>3, <2>2, <3>1, UndoWalks DEF Walked
  <2> QED BY <2>1, <2>2
<1>4. ASSUME NEW v \in Redo(editor) PROVE ~v.aborted
  <2>1. CASE i = Len(buffer)
    BY <1>4, <2>1 DEF Redo
  <2>2. CASE i # Len(buffer)
    <3>1. i + 1 \in 1..Len(buffer)
      BY <1>1, <2>2
    <3> QED BY <1>1, <1>2, <1>4, <2>2, <3>1, RedoWalks DEF Walked
  <2> QED BY <2>1, <2>2
<1> QED BY <1>3, <1>4 DEF Becomes

(* No step fails an assertion whose conditions are met.                    *)
LEMMA StepsDoNotFail ==
    ASSUME VisibleLineCount >= 2, [PressLinesDown => WholeLines(editor)]_vars, [Asserted]_vars,
           Sane(editor), NoAssertFails, [Next]_vars
    PROVE  NoAssertFails'
<1>1. CASE UNCHANGED vars
  BY <1>1 DEF vars, NoAssertFails
<1>2. CASE UndoOrRedo
  <2>1. Becomes(Undo(editor)) \/ Becomes(Redo(editor))
    BY <1>2 DEF UndoOrRedo, PressUndo, PressRedo, ToolbarUndo, ToolbarRedo, Key, Button
  <2> QED BY <2>1, UndoDoesNotFail DEF NoAssertFails
<1>3. CASE Next /\ ~UndoOrRedo /\ (PressLinesDown => WholeLines(editor)) /\ Asserted
  BY <1>3, StepMakes DEF NoAssertFails
<1> QED BY <1>1, <1>2, <1>3

(* The program runs when a step is taken.                                  *)
LEMMA StepsNeedRunning ==
    ASSUME Next PROVE NoAssertFails
<1>1. \A name, W : Button(name, W) => ~editor.aborted
  BY DEF Button, Running
<1>2. \A name, W : Key(name, W) => ~editor.aborted
  BY DEF Key, KeysServed, Running
<1>3. \A name, down, W : Mouse(name, down, W) => ~editor.aborted
  BY DEF Mouse, Running
<1>4. CASE ToolbarStep
  BY <1>1, <1>4 DEF ToolbarStep, ToolbarUndo, ToolbarRedo, ToolbarCut, ToolbarCopy, ToolbarPaste,
     ToolbarSelectAll, NoAssertFails
<1>5. CASE MovementKey
  BY <1>2, <1>5 DEF MovementKey, PressUp, PressDown, PressLeft, PressRight, PressWordLeft, PressWordRight,
      PressPageUp, PressPageDown, PressTop, PressBottom, PressHome, PressEnd, PressSelectAll,
      PressNextOccurrence, NoAssertFails
<1>6. CASE EditingKey
  BY <1>2, <1>6 DEF EditingKey, PressUndo, PressRedo, PressDelete, PressWordDelete, PressBackspace,
      PressWordBackspace, PressRemoveLines, PressUnindent, PressIndent, PressLinesUp, PressLinesDown,
      PressComment, PressInsert, PressCopy, PressPaste, PressCut, PressEnter, PressTab, NoAssertFails
<1>7. CASE MouseStep
  BY <1>3, <1>7 DEF MouseStep, Click, DoubleClick, LineClick, ShiftClick, Drag, Release, NoAssertFails
<1>8. CASE BeginRender \/ EndFrame \/ \E ch \in Characters : Type(ch)
  BY <1>8 DEF BeginRender, EndFrame, Type, KeysServed, Running, NoAssertFails
<1> QED BY <1>4, <1>5, <1>6, <1>7, <1>8 DEF Next

LEMMA SaneDoesNotFail ==
    ASSUME VisibleLineCount >= 2
    PROVE  Spec /\ LinesGoDownWhole /\ []Sane(editor) => FailsOnlyUnasserted
<1>1. Sane(editor) /\ [Next]_vars /\ [PressLinesDown => WholeLines(editor)]_vars
          => [editor'.aborted => ~Asserted]_vars
  <2> SUFFICES ASSUME Sane(editor), Next, [PressLinesDown => WholeLines(editor)]_vars, Asserted
               PROVE  ~editor'.aborted \/ UNCHANGED vars
    OBVIOUS
  <2> QED BY StepsNeedRunning, StepsDoNotFail DEF NoAssertFails
<1> QED BY <1>1, PTL DEF Spec, LinesGoDownWhole, FailsOnlyUnasserted

(* A command is not served while the button is down, and leaves dragging   *)
(* as it is.                                                               *)
CommandStep ==
    ToolbarStep \/ MovementKey \/ EditingKey \/ \E ch \in Characters : Type(ch)

LEMMA CommandsNeedMouseUp ==
    ASSUME "KeysWhileMouseDown" \notin Commands, CommandStep
    PROVE  ~mouseDown /\ mouseDown' = mouseDown /\ ~editor.aborted
<1>1. \A name, W : Button(name, W) => ~mouseDown /\ mouseDown' = mouseDown /\ ~editor.aborted
  BY DEF Button, Running
<1>2. \A name, W : Key(name, W) => ~mouseDown /\ mouseDown' = mouseDown /\ ~editor.aborted
  BY DEF Key, KeysServed, Running
<1>3. \A ch : Type(ch) => ~mouseDown /\ mouseDown' = mouseDown /\ ~editor.aborted
  BY DEF Type, KeysServed, Running
<1>4. CASE ToolbarStep
  BY <1>1, <1>4 DEF ToolbarStep, ToolbarUndo, ToolbarRedo, ToolbarCut, ToolbarCopy, ToolbarPaste,
     ToolbarSelectAll
<1>5. CASE MovementKey
  BY <1>2, <1>5 DEF MovementKey, PressUp, PressDown, PressLeft, PressRight, PressWordLeft, PressWordRight,
      PressPageUp, PressPageDown, PressTop, PressBottom, PressHome, PressEnd, PressSelectAll,
      PressNextOccurrence
<1>6. CASE EditingKey
  BY <1>2, <1>6 DEF EditingKey, PressUndo, PressRedo, PressDelete, PressWordDelete, PressBackspace,
      PressWordBackspace, PressRemoveLines, PressUnindent, PressIndent, PressLinesUp, PressLinesDown,
      PressComment, PressInsert, PressCopy, PressPaste, PressCut, PressEnter, PressTab
<1> QED BY <1>3, <1>4, <1>5, <1>6 DEF CommandStep

LEMMA CommandsLeaveDragging ==
    ASSUME VisibleLineCount >= 2, PressLinesDown => WholeLines(editor), Sane(editor), CommandStep
    PROVE  Aborts \/ editor'.dragging = editor.dragging
<1>1. CASE UndoOrRedo
  BY <1>1, UndoLeavesRest DEF UndoOrRedo, PressUndo, PressRedo, ToolbarUndo, ToolbarRedo, Key, Button
<1>2. CASE ~UndoOrRedo
  <2>1. Sound(editor) /\ ~PressUndo /\ ~PressRedo /\ ~ToolbarUndo /\ ~ToolbarRedo
    BY <1>2 DEF Sane, UndoOrRedo
  <2>2. Goes(editor', editor)
    BY <2>1, ToolbarFollows, MovementKeyFollows, EditingKeyFollows, TypeFollows, FollowsGoes
       DEF CommandStep
  <2> QED BY <2>2, GoesIsSane
<1> QED BY <1>1, <1>2

LEMMA AbortsIsAborted ==
    ASSUME Sane(editor), Aborts
    PROVE  editor'.aborted /\ editor'.cursors = editor.cursors
BY DEF Aborts, Sane, Sound, Shaped, WorkFields

(* The frame does not move a cursor while a selection is dragged.          *)
LEMMA FrameLeavesCursors ==
    ASSUME Sane(editor), BeginRender \/ EndFrame
    PROVE  /\ mouseDown' = mouseDown /\ editor'.dragging = editor.dragging
           /\ editor.dragging => editor'.cursors = editor.cursors /\ editor'.lastAdded = editor.lastAdded
<1>1. Goes(editor', editor) /\ editor'.dragging = editor.dragging
  BY FrameSucceeds, GoesIsSane DEF Goes, Sane
<1>2. CASE BeginRender
  <2>1. PICK w \in (IF editor.changed THEN OnCursorPositionChanged(editor) ELSE {editor}) :
            editor' = [w EXCEPT !.changed = FALSE]
    BY <1>2 DEF BeginRender
  <2>2. editor.dragging => w = editor
    BY <2>1 DEF OnCursorPositionChanged
  <2>3. WorkFields \subseteq DOMAIN editor
    BY DEF Sane, Sound, Shaped
  <2>4. editor.dragging => editor'.cursors = editor.cursors /\ editor'.lastAdded = editor.lastAdded
    BY <2>1, <2>2, <2>3 DEF WorkFields
  <2> QED BY <1>1, <1>2, <2>4 DEF BeginRender
<1>3. CASE EndFrame
  <2>1. editor' = ColorizeInternal(editor) /\ mouseDown' = mouseDown
    BY <1>3 DEF EndFrame
  <2>2. editor'.cursors = editor.cursors /\ editor'.lastAdded = editor.lastAdded
    BY <2>1, ColorizeInternalSucceeds DEF Sane
  <2> QED BY <1>1, <2>1, <2>2
<1> QED BY <1>2, <1>3

LEMMA DragStaysOnNewest ==
    ASSUME Sane(editor), MovesFreeEnd, GetLastAddedCursorIndex(editor) = Len(editor.cursors)
    PROVE  /\ Len(editor'.cursors) = Len(editor.cursors)
           /\ \A c \in 1..(Len(editor.cursors) - 1) : editor'.cursors[c] = editor.cursors[c]
           /\ editor'.cursors[Len(editor.cursors)].s = editor.cursors[Len(editor.cursors)].s
<1> DEFINE n == Len(editor.cursors)
<1>1. IsSeq(editor.cursors) /\ n \in Nat /\ n >= 1
  BY DEF Sane, Sound, Shaped, AreCursors, IsSeq
<1>2. PICK p : editor'.cursors = WithFreeEnd(editor, n, p)
  BY DEF MovesFreeEnd
<1> DEFINE k == [s |-> editor.cursors[n].s, e |-> p]
<1>3. editor'.cursors = [editor.cursors EXCEPT ![n] = k]
  BY <1>2 DEF WithFreeEnd
<1>4. k.s = editor.cursors[n].s
  OBVIOUS
<1> HIDE DEF k
<1> DEFINE new == [editor.cursors EXCEPT ![n] = k]
<1>5. Len(new) = n /\ \A i \in 1..n : new[i] = IF i = n THEN k ELSE editor.cursors[i]
  BY <1>1, ExceptIsSeq
<1> HIDE DEF new
<1>6. \A c \in 1..(n - 1) : c \in 1..n /\ c # n
  BY <1>1
<1>7. n \in 1..n
  BY <1>1
<1>8. \A c \in 1..(n - 1) : new[c] = editor.cursors[c]
  BY <1>5, <1>6
<1>9. new[n].s = editor.cursors[n].s
  BY <1>4, <1>5, <1>7
<1> QED BY <1>3, <1>5, <1>8, <1>9 DEF new

LEMMA NextMovesOneCursor ==
    ASSUME VisibleLineCount >= 2, "KeysWhileMouseDown" \notin Commands,
           PressLinesDown => WholeLines(editor), Sane(editor), HoldsNewest, Next
    PROVE  HoldsNewest' /\ OneCursorMoves
<1>1. Aborts => HoldsNewest' /\ OneCursorMoves
  BY AbortsIsAborted DEF HoldsNewest, OneCursorMoves
<1>2. CASE editor.aborted
  <2>1. CommandStep => ~editor.aborted
    BY CommandsNeedMouseUp
  <2>2. \A name, down, W : Mouse(name, down, W) => ~editor.aborted
    BY DEF Mouse, Running
  <2>3. MouseStep => ~editor.aborted
    BY <2>2 DEF MouseStep, Click, DoubleClick, LineClick, ShiftClick, Drag, Release
  <2>4. BeginRender \/ EndFrame => ~editor.aborted
    BY DEF BeginRender, EndFrame, Running
  <2> QED BY <1>2, <2>1, <2>3, <2>4 DEF Next, CommandStep
<1>3. CASE ~editor.aborted
  <2>0. editor.dragging => mouseDown /\ GetLastAddedCursorIndex(editor) = Len(editor.cursors)
    BY <1>3 DEF HoldsNewest
  <2>1. CASE CommandStep
    <3>1. ~mouseDown /\ mouseDown' = mouseDown
      BY <2>1, CommandsNeedMouseUp
    <3>2. Aborts \/ editor'.dragging = editor.dragging
      BY <2>1, CommandsLeaveDragging
    <3>3. ~editor.dragging
      BY <2>0, <3>1
    <3> QED BY <1>1, <3>2, <3>3 DEF HoldsNewest, OneCursorMoves
  <2>2. CASE BeginRender \/ EndFrame
    <3>1. /\ mouseDown' = mouseDown /\ editor'.dragging = editor.dragging
          /\ editor.dragging => editor'.cursors = editor.cursors /\ editor'.lastAdded = editor.lastAdded
      BY <2>2, FrameLeavesCursors
    <3>2. HoldsNewest'
      BY <2>0, <3>1 DEF HoldsNewest, GetLastAddedCursorIndex
    <3>3. OneCursorMoves
      BY <3>1 DEF OneCursorMoves
    <3> QED BY <3>2, <3>3
  <2>3. CASE Click \/ DoubleClick \/ LineClick
    <3>1. /\ ~mouseDown /\ mouseDown' = TRUE
          /\ Aborts \/ EndsOnNewest
      BY <2>3, ClicksMake
    <3> QED BY <1>1, <3>1 DEF HoldsNewest, OneCursorMoves, EndsOnNewest
  <2>4. CASE ShiftClick
    <3>1. /\ ~mouseDown /\ mouseDown' = TRUE
          /\ Aborts \/ Succeeds(editor', editor)
      BY <2>4, DragsMake
    <3>2. Succeeds(editor', editor) => editor'.dragging = editor.dragging
      BY DEF Succeeds
    <3> QED BY <1>1, <2>0, <3>1, <3>2 DEF HoldsNewest, OneCursorMoves
  <2>5. CASE Drag
    <3>1. mouseDown /\ editor.dragging
      BY <2>5 DEF Drag
    <3>2. /\ mouseDown' = TRUE
          /\ Aborts \/ (editor'.lastAdded = editor.lastAdded /\ MovesFreeEnd)
      BY <2>5, DragsMake
    <3>3. CASE editor'.lastAdded = editor.lastAdded /\ MovesFreeEnd
      <4>1. /\ Len(editor'.cursors) = Len(editor.cursors)
            /\ \A c \in 1..(Len(editor.cursors) - 1) : editor'.cursors[c] = editor.cursors[c]
            /\ editor'.cursors[Len(editor.cursors)].s = editor.cursors[Len(editor.cursors)].s
        BY <2>0, <3>1, <3>3, DragStaysOnNewest
      <4>2. HoldsNewest'
        BY <2>0, <3>1, <3>2, <3>3, <4>1 DEF HoldsNewest, GetLastAddedCursorIndex
      <4> QED BY <4>1, <4>2 DEF OneCursorMoves
    <3> QED BY <1>1, <3>2, <3>3
  <2>6. CASE Release
    <3>1. mouseDown' = FALSE /\ (Aborts \/ Succeeds(editor', DraggedAs(FALSE)))
      BY <2>6, ReleaseMakes
    <3>2. Succeeds(editor', DraggedAs(FALSE)) => ~editor'.dragging
      BY DraggedAsIsSane DEF Succeeds
    <3> QED BY <1>1, <3>1, <3>2 DEF HoldsNewest, OneCursorMoves
  <2> QED BY <2>1, <2>2, <2>3, <2>4, <2>5, <2>6 DEF Next, MouseStep, CommandStep
<1> QED BY <1>2, <1>3

LEMMA SaneDrags ==
    ASSUME VisibleLineCount >= 2, "KeysWhileMouseDown" \notin Commands
    PROVE  Spec /\ LinesGoDownWhole /\ []Sane(editor) => DragMovesOneCursor
<1>1. Init => HoldsNewest
  BY InitIsSane DEF HoldsNewest
<1>2. Sane(editor) /\ HoldsNewest /\ [Next]_vars /\ [PressLinesDown => WholeLines(editor)]_vars
          => HoldsNewest'
  <2>1. HoldsNewest /\ UNCHANGED vars => HoldsNewest'
    BY DEF HoldsNewest, vars, GetLastAddedCursorIndex
  <2> QED BY <2>1, NextMovesOneCursor
<1>3. Sane(editor) /\ HoldsNewest /\ [Next]_vars /\ [PressLinesDown => WholeLines(editor)]_vars
          => [OneCursorMoves]_vars
  BY NextMovesOneCursor
<1>4. Spec /\ LinesGoDownWhole /\ []Sane(editor) => [][OneCursorMoves]_vars
  BY <1>1, <1>2, <1>3, PTL DEF Spec, LinesGoDownWhole
<1> QED BY <1>4 DEF DragMovesOneCursor, OneCursorMoves

-----------------------------------------------------------------------------
(* The cursors are in order and apart, unless they have changed since they  *)
(* were sorted or a selection is being dragged; and no change waits when    *)
(* the keys are served.                                                    *)
InOrderUnlessChanged ==
    /\ ~editor.changed /\ ~editor.dragging => Apart(editor.cursors)
    /\ phase = "keys" => ~editor.changed

(* Merging looks at pairs of cursors only, so that three selections may be  *)
(* left overlapping.                                                       *)
FewCursors == FewCursorsOf(editor)

LEMMA MouseReturnsToToolbar ==
    ASSUME MouseStep
    PROVE  phase' = "toolbar"
<1>1. \A name, down, W : Mouse(name, down, W) => phase' = "toolbar"
  BY DEF Mouse
<1> QED BY <1>1 DEF MouseStep, Click, DoubleClick, LineClick, ShiftClick, Drag, Release

LEMMA CommandsLeaveKeys ==
    ASSUME CommandStep
    PROVE  phase' # "keys"
<1>1. \A name, W : Button(name, W) => phase' = "toolbar"
  BY DEF Button
<1>2. \A name, W : Key(name, W) => phase' = "typing"
  BY DEF Key
<1>3. \A ch : Type(ch) => phase' = "typing"
  BY DEF Type
<1>4. CASE ToolbarStep
  BY <1>1, <1>4 DEF ToolbarStep, ToolbarUndo, ToolbarRedo, ToolbarCut, ToolbarCopy, ToolbarPaste,
     ToolbarSelectAll
<1>5. CASE MovementKey
  BY <1>2, <1>5 DEF MovementKey, PressUp, PressDown, PressLeft, PressRight, PressWordLeft, PressWordRight,
      PressPageUp, PressPageDown, PressTop, PressBottom, PressHome, PressEnd, PressSelectAll,
      PressNextOccurrence
<1>6. CASE EditingKey
  BY <1>2, <1>6 DEF EditingKey, PressUndo, PressRedo, PressDelete, PressWordDelete, PressBackspace,
      PressWordBackspace, PressRemoveLines, PressUnindent, PressIndent, PressLinesUp, PressLinesDown,
      PressComment, PressInsert, PressCopy, PressPaste, PressCut, PressEnter, PressTab
<1> QED BY <1>3, <1>4, <1>5, <1>6 DEF CommandStep

(* A command leaves the cursors as they were, moves them all by as many     *)
(* lines, or marks them as changed.                                        *)
LEMMA CommandsKeepOrder ==
    ASSUME VisibleLineCount >= 2, PressLinesDown => WholeLines(editor), Sane(editor),
           InOrderUnlessChanged, CommandStep, ~UndoOrRedo
    PROVE  Aborts \/ InOrderUnlessChanged'
<1>1. Sound(editor) /\ ~PressUndo /\ ~PressRedo /\ ~ToolbarUndo /\ ~ToolbarRedo
  BY DEF Sane, UndoOrRedo
<1>2. Follows(editor', editor)
  BY <1>1, ToolbarFollows, MovementKeyFollows, EditingKeyFollows, TypeFollows DEF CommandStep
<1>3. Aborts \/ Carried(editor', editor)
  BY <1>2 DEF Follows, Smooth, Aborts
<1>4. editor'.dragging = editor.dragging
  BY <1>2, FollowsGoes, GoesIsSane
<1>5. phase' # "keys"
  BY CommandsLeaveKeys
<1>6. ASSUME Carried(editor', editor), ~editor'.changed, ~editor'.dragging
      PROVE  Apart(editor'.cursors)
  <2>1. Apart(editor.cursors)
    BY <1>4, <1>6 DEF Carried, InOrderUnlessChanged
  <2>2. \A d \in Int : Apart(CursorsShifted(editor, d))
    BY <1>1, <2>1, ShiftedStayApart
  <2> QED BY <1>6, <2>1, <2>2 DEF Carried
<1> QED BY <1>3, <1>5, <1>6 DEF InOrderUnlessChanged

LEMMA BeginRenderOrders ==
    ASSUME Sane(editor), InOrderUnlessChanged, FewCursors, BeginRender
    PROVE  InOrderUnlessChanged'
<1>1. PICK w \in (IF editor.changed THEN OnCursorPositionChanged(editor) ELSE {editor}) :
          editor' = [w EXCEPT !.changed = FALSE]
  BY DEF BeginRender
<1>2. Sound(editor)
  BY DEF Sane
<1>3. Succeeds(w, editor)
  BY <1>1, <1>2, CursorsStaySound, WorkSucceeds
<1>4. WorkFields \subseteq DOMAIN w /\ w.dragging = editor.dragging
  BY <1>3 DEF Succeeds, Sound, Shaped
<1>5. editor'.cursors = w.cursors /\ editor'.changed = FALSE /\ editor'.dragging = w.dragging
  BY <1>1, <1>4 DEF WorkFields
<1>6. ASSUME ~editor.dragging PROVE Apart(w.cursors)
  <2>1. CASE editor.changed
    <3>1. w \in SortAndMerge(editor)
      BY <1>1, <1>6, <2>1 DEF OnCursorPositionChanged
    <3> QED BY <1>2, <3>1, SortingSetsApart DEF FewCursors
  <2>2. CASE ~editor.changed
    BY <1>1, <1>6, <2>2 DEF InOrderUnlessChanged
  <2> QED BY <2>1, <2>2
<1> QED BY <1>4, <1>5, <1>6 DEF InOrderUnlessChanged

(* A button that goes down, and a drag, mark the cursors as changed.       *)
LEMMA PressesMarkChange ==
    ASSUME Sane(editor), Click \/ DoubleClick \/ LineClick \/ ShiftClick \/ Drag
    PROVE  Aborts \/ editor'.changed
<1>1. ASSUME NEW w, WorkFields \subseteq DOMAIN w
      PROVE  /\ \A p, c, clear : ColorizeInternal(SetCursorPosition(w, p, c, clear)).changed
             /\ \A p, q, c : ColorizeInternal(SetSelection(w, p, q, c)).changed
  BY <1>1 DEF ColorizeInternal, SetCursorPosition, SetSelection, WorkFields
<1>2. WorkFields \subseteq DOMAIN editor
  BY DEF Sane, Sound, Shaped
<1>3. ASSUME NEW ctrl \in BOOLEAN PROVE WorkFields \subseteq DOMAIN Clicked(ctrl)
  BY ClickedSucceeds DEF Succeeds, Sound, Shaped
<1>4. ASSUME NEW name, NEW down, NEW v, Mouse(name, down, {v}), ColorizeInternal(v).changed
      PROVE  Aborts \/ editor'.changed
  BY <1>4 DEF Mouse, Becomes, Aborts
<1>5. CASE Click
  BY <1>1, <1>3, <1>4, <1>5 DEF Click
<1>6. CASE DoubleClick
  BY <1>1, <1>3, <1>4, <1>6 DEF DoubleClick
<1>7. CASE LineClick
  BY <1>1, <1>3, <1>4, <1>7 DEF LineClick
<1>8. CASE ShiftClick
  BY <1>1, <1>2, <1>4, <1>8 DEF ShiftClick
<1>9. CASE Drag
  BY <1>1, <1>2, <1>4, <1>9 DEF Drag
<1> QED BY <1>5, <1>6, <1>7, <1>8, <1>9

(* The release over the window sorts and merges the cursors.               *)
LEMMA ReleaseOrders ==
    ASSUME Sane(editor), FewCursors, Release, "ReleaseOutside" \notin Commands
    PROVE  Aborts \/ Apart(editor'.cursors)
<1> DEFINE b == DraggedAs(FALSE)
<1>1. Mouse("Release", FALSE, SortAndMerge(b))
  <2>1. PICK hovered \in BOOLEAN :
            Mouse(IF hovered THEN "Release" ELSE "ReleaseOutside", FALSE,
                  IF hovered THEN SortAndMerge(b) ELSE {b})
    BY DEF Release, DraggedAs
  <2>2. (IF hovered THEN "Release" ELSE "ReleaseOutside") \in Commands
    BY <2>1 DEF Mouse
  <2>3. hovered
    BY <2>2
  <2> HIDE DEF b
  <2> QED BY <2>1, <2>3
<1>2. Sound(b) /\ FewCursorsOf(b)
  <2>1. Sane(b) /\ b.cursors = editor.cursors
    BY DraggedAsIsSane
  <2> HIDE DEF b
  <2> QED BY <2>1 DEF Sane, FewCursors, FewCursorsOf, AllCarets
<1> HIDE DEF b
<1>3. \A w \in SortAndMerge(b) : Sound(w) /\ Apart(w.cursors)
  BY <1>2, CursorsStaySound, SortingSetsApart DEF Succeeds
<1>4. PICK w \in SortAndMerge(b) : Aborts \/ editor' = ColorizeInternal(w)
  BY <1>1 DEF Mouse, Becomes, Aborts
<1>5. ColorizeInternal(w).cursors = w.cursors
  BY <1>3, ColorizeInternalSucceeds
<1> QED BY <1>3, <1>4, <1>5

LEMMA NextKeepsOrder ==
    ASSUME VisibleLineCount >= 2, "ReleaseOutside" \notin Commands,
           PressLinesDown => WholeLines(editor), Sane(editor), FewCursors,
           InOrderUnlessChanged, Next, ~UndoOrRedo
    PROVE  InOrderUnlessChanged'
<1>1. CASE CommandStep
  <2>1. ASSUME Aborts PROVE InOrderUnlessChanged'
    <3>1. WorkFields \subseteq DOMAIN editor
      BY DEF Sane, Sound, Shaped
    <3>2. /\ editor'.cursors = editor.cursors /\ editor'.changed = editor.changed
          /\ editor'.dragging = editor.dragging
      BY <2>1, <3>1 DEF Aborts, WorkFields
    <3> QED BY <1>1, <3>2, CommandsLeaveKeys DEF InOrderUnlessChanged
  <2> QED BY <1>1, <2>1, CommandsKeepOrder
<1>2. CASE BeginRender
  BY <1>2, BeginRenderOrders
<1>3. CASE EndFrame
  <2>1. editor' = ColorizeInternal(editor) /\ phase' = "toolbar"
    BY <1>3 DEF EndFrame
  <2>2. WorkFields \subseteq DOMAIN editor
    BY DEF Sane, Sound, Shaped
  <2>3. /\ editor'.cursors = editor.cursors /\ editor'.changed = editor.changed
        /\ editor'.dragging = editor.dragging
    BY <2>1, <2>2 DEF ColorizeInternal, WorkFields
  <2> QED BY <2>1, <2>3 DEF InOrderUnlessChanged
<1>4. CASE MouseStep
  <2>1. phase' = "toolbar"
    BY <1>4, MouseReturnsToToolbar
  <2>2. Aborts \/ editor'.changed \/ Apart(editor'.cursors)
    BY <1>4, PressesMarkChange, ReleaseOrders DEF MouseStep
  <2>3. ASSUME Aborts PROVE InOrderUnlessChanged'
    <3>1. WorkFields \subseteq DOMAIN editor
      BY DEF Sane, Sound, Shaped
    <3>2. /\ editor'.cursors = editor.cursors /\ editor'.changed = editor.changed
          /\ editor'.dragging = editor.dragging
      BY <2>3, <3>1 DEF Aborts, WorkFields
    <3> QED BY <2>1, <3>2 DEF InOrderUnlessChanged
  <2> QED BY <2>1, <2>2, <2>3 DEF InOrderUnlessChanged
<1> QED BY <1>1, <1>2, <1>3, <1>4 DEF Next, CommandStep

LEMMA InitInOrder ==
    ASSUME Init
    PROVE  InOrderUnlessChanged
<1>1. editor.cursors = <<Caret(At(0, 0))>> /\ phase = "toolbar"
  BY DEF Init, DefaultState
<1>2. Len(editor.cursors) = 1
  BY <1>1, SmallSeqs
<1> QED BY <1>1, <1>2 DEF InOrderUnlessChanged, Apart

-----------------------------------------------------------------------------
(* An undo brings the cursors back as the command of its record found them.  *)
(* They were in order if it was a key's, found pressed before anything else *)
(* in its frame.  A button of the tool bar comes before the frame has sorted *)
(* the cursors, a character after the key; and a redo brings back cursors   *)
(* that no frame has sorted.                                               *)
UnsortedKeys ==
    {"Redo", "ToolbarRedo", "ToolbarCut", "ToolbarPaste", "KeysWhileMouseDown", "ReleaseOutside"}

FoundInOrder ==
    \A n \in 1..Len(editor.undoBuffer) : Apart(editor.undoBuffer[n].before.cursors)

LEMMA KeysFindOrder ==
    ASSUME "KeysWhileMouseDown" \notin Commands, HoldsNewest, InOrderUnlessChanged,
           MovementKey \/ EditingKey
    PROVE  Apart(editor.cursors)
<1>1. ~mouseDown /\ ~editor.aborted
  BY CommandsNeedMouseUp DEF CommandStep
<1>2. phase = "keys"
  <2>1. \A name, W : Key(name, W) => phase = "keys"
    BY DEF Key
  <2>2. CASE MovementKey
    BY <2>1, <2>2 DEF MovementKey, PressUp, PressDown, PressLeft, PressRight, PressWordLeft,
        PressWordRight, PressPageUp, PressPageDown, PressTop, PressBottom, PressHome, PressEnd,
        PressSelectAll, PressNextOccurrence
  <2>3. CASE EditingKey
    BY <2>1, <2>3 DEF EditingKey, PressUndo, PressRedo, PressDelete, PressWordDelete, PressBackspace,
        PressWordBackspace, PressRemoveLines, PressUnindent, PressIndent, PressLinesUp, PressLinesDown,
        PressComment, PressInsert, PressCopy, PressPaste, PressCut, PressEnter, PressTab
  <2> QED BY <2>2, <2>3
<1> QED BY <1>1, <1>2 DEF HoldsNewest, InOrderUnlessChanged

LEMMA EditFindsOrder ==
    ASSUME Sane(editor), FoundInOrder, Edited(editor', editor), Apart(editor.cursors)
    PROVE  FoundInOrder'
<1> DEFINE i == editor.undoIndex
           old == editor.undoBuffer
           new == editor'.undoBuffer
<1>1. Past(editor) /\ i \in Nat /\ i <= Len(old) /\ Len(old) \in Nat
  BY DEF Sane, Past, IsSeq
<1>2. PICK r : r.before.cursors = editor.cursors /\ new = Append(SubSeq(old, 1, i), r)
  BY DEF Edited
<1>3. /\ Len(new) = i + 1
      /\ \A n \in 1..(i + 1) : new[n] = IF n <= i THEN old[n] ELSE r
  <2> DEFINE buffer == Append(SubSeq(old, 1, i), r)
  <2>1. /\ Len(buffer) = i + 1
        /\ \A n \in 1..(i + 1) : buffer[n] = IF n <= i THEN old[n] ELSE r
    BY <1>1, EditedPast
  <2>2. new = buffer
    BY <1>2
  <2> HIDE DEF buffer, new
  <2> QED BY <2>1, <2>2
<1>4. \A n \in 1..Len(old) : Apart(old[n].before.cursors)
  BY DEF FoundInOrder
<1>5. Apart(r.before.cursors)
  BY <1>2
<1> HIDE DEF i, old, new
<1>6. \A n \in 1..Len(new) : Apart(new[n].before.cursors)
  <2> SUFFICES ASSUME NEW n \in 1..Len(new) PROVE Apart(new[n].before.cursors)
    OBVIOUS
  <2>1. CASE n <= i
    <3>1. n \in 1..Len(old) /\ new[n] = old[n]
      BY <1>1, <1>3, <2>1
    <3> QED BY <1>4, <3>1
  <2>2. CASE ~(n <= i)
    <3>1. new[n] = r
      BY <1>3, <2>2
    <3> QED BY <1>5, <3>1
  <2> QED BY <2>1, <2>2
<1> QED BY <1>6 DEF FoundInOrder, new

LEMMA StepsFindOrder ==
    ASSUME VisibleLineCount >= 2, UnsortedKeys \cap Commands = {}, Characters = {},
           PressLinesDown => WholeLines(editor), Sane(editor), HoldsNewest,
           InOrderUnlessChanged, FoundInOrder, Next
    PROVE  FoundInOrder'
<1>1. /\ "KeysWhileMouseDown" \notin Commands /\ "ToolbarCut" \notin Commands
      /\ "ToolbarPaste" \notin Commands
  BY DEF UnsortedKeys
<1>2. ASSUME editor'.undoBuffer = editor.undoBuffer PROVE FoundInOrder'
  BY <1>2 DEF FoundInOrder
<1>3. ASSUME Aborts PROVE editor'.undoBuffer = editor.undoBuffer
  <2>1. WorkFields \subseteq DOMAIN editor
    BY DEF Sane, Sound, Shaped
  <2> QED BY <1>3, <2>1 DEF Aborts, WorkFields
<1>4. \A d : Succeeds(editor', DraggedAs(d)) => editor'.undoBuffer = editor.undoBuffer
  BY DraggedAsIsSane DEF Succeeds
<1>5. Succeeds(editor', editor) => editor'.undoBuffer = editor.undoBuffer
  BY DEF Succeeds
<1>6. CASE UndoOrRedo
  <2>1. Becomes(Undo(editor)) \/ Becomes(Redo(editor))
    BY <1>6 DEF UndoOrRedo, PressUndo, PressRedo, ToolbarUndo, ToolbarRedo, Key, Button
  <2>2. Aborts \/ editor'.undoBuffer = editor.undoBuffer
    BY <2>1, UndoLeavesRest
  <2> QED BY <1>2, <1>3, <2>2
<1>7. CASE ToolbarStep /\ ~UndoOrRedo
  <2>1. ToolbarCopy \/ ToolbarSelectAll
    BY <1>1, <1>7 DEF ToolbarStep, UndoOrRedo, ToolbarCut, ToolbarPaste, Button
  <2>2. Becomes(Copy(editor)) \/ Becomes({SelectAll(editor)})
    BY <2>1 DEF ToolbarCopy, ToolbarSelectAll, Button
  <2>3. \A v \in Copy(editor) \cup {SelectAll(editor)} : Succeeds(v, editor)
    BY CopySucceeds, SelectAllSucceeds DEF Sane
  <2>4. Aborts \/ Succeeds(editor', editor)
    BY <2>2, <2>3 DEF Becomes, Aborts
  <2> QED BY <1>2, <1>3, <1>5, <2>4
<1>8. CASE (MovementKey \/ EditingKey) /\ ~UndoOrRedo
  <2>1. Follows(editor', editor)
    BY <1>8, MovementKeyFollows, EditingKeyFollows DEF Sane, UndoOrRedo
  <2>2. Apart(editor.cursors)
    BY <1>1, <1>8, KeysFindOrder
  <2>3. Edited(editor', editor) => FoundInOrder'
    BY <2>2, EditFindsOrder
  <2> QED BY <1>2, <1>3, <1>5, <2>1, <2>3 DEF Follows, Smooth, Aborts
<1>9. CASE BeginRender \/ EndFrame
  BY <1>2, <1>5, <1>9, FrameSucceeds DEF Sane
<1>10. CASE MouseStep
  BY <1>2, <1>3, <1>4, <1>5, <1>10, ClicksMake, DragsMake, ReleaseMakes DEF MouseStep
<1>11. ~(\E ch \in Characters : Type(ch))
  OBVIOUS
<1> QED BY <1>6, <1>7, <1>8, <1>9, <1>10, <1>11 DEF Next

LEMMA UndoKeepsOrder ==
    ASSUME UnsortedKeys \cap Commands = {}, Sane(editor), FoundInOrder, InOrderUnlessChanged,
           UndoOrRedo
    PROVE  InOrderUnlessChanged'
<1>1. PressUndo \/ ToolbarUndo
  BY DEF UndoOrRedo, PressRedo, ToolbarRedo, Key, Button, UnsortedKeys
<1>2. phase' # "keys"
  BY <1>1 DEF PressUndo, ToolbarUndo, Key, Button
<1>3. Becomes(Undo(editor))
  BY <1>1 DEF PressUndo, ToolbarUndo, Key, Button
<1>4. Aborts \/ editor' \in Undo(editor)
  BY <1>3 DEF Becomes, Aborts
<1>5. CASE Aborts
  <2>1. WorkFields \subseteq DOMAIN editor
    BY DEF Sane, Sound, Shaped
  <2>2. /\ editor'.cursors = editor.cursors /\ editor'.changed = editor.changed
        /\ editor'.dragging = editor.dragging
    BY <1>5, <2>1 DEF Aborts, WorkFields
  <2> QED BY <1>2, <2>2 DEF InOrderUnlessChanged
<1>6. CASE editor' \in Undo(editor)
  <2> DEFINE i == editor.undoIndex
             buffer == editor.undoBuffer
  <2>1. Complete(editor) /\ i \in 0..Len(buffer) /\ Len(buffer) \in Nat
    BY DEF Sane, Sound, Shaped, Past, Complete, IsSeq
  <2>2. CASE i = 0
    <3>1. editor' = editor
      BY <1>6, <2>2 DEF Undo
    <3> QED BY <1>2, <3>1 DEF InOrderUnlessChanged
  <2>3. CASE i # 0
    <3>1. i \in 1..Len(buffer)
      BY <2>1, <2>3
    <3>2. AreOperations(buffer[i].ops)
      BY <3>1 DEF Sane, Past, Entry
    <3>3. editor'.cursors = buffer[i].before.cursors
      BY <1>6, <2>1, <2>3, <3>2, UndoWalks DEF Walked
    <3> QED BY <1>2, <3>1, <3>3 DEF FoundInOrder, InOrderUnlessChanged
  <2> QED BY <2>2, <2>3
<1> QED BY <1>4, <1>5, <1>6

LEMMA InitFindsOrder ==
    ASSUME Init
    PROVE  FoundInOrder
<1>1. Len(editor.undoBuffer) = 0
  BY InitIsSane, SmallSeqs
<1> QED BY <1>1 DEF FoundInOrder

OrderHolds == HoldsNewest /\ InOrderUnlessChanged /\ FoundInOrder

LEMMA StepsKeepOrder ==
    ASSUME VisibleLineCount >= 2, UnsortedKeys \cap Commands = {}, Characters = {},
           [PressLinesDown => WholeLines(editor)]_vars, Sane(editor), FewCursors, OrderHolds,
           [Next]_vars
    PROVE  OrderHolds'
<1>1. CASE UNCHANGED vars
  BY <1>1 DEF vars, OrderHolds, HoldsNewest, InOrderUnlessChanged, FoundInOrder,
      GetLastAddedCursorIndex
<1>2. CASE Next /\ (PressLinesDown => WholeLines(editor))
  <2>1. "KeysWhileMouseDown" \notin Commands /\ "ReleaseOutside" \notin Commands
    BY DEF UnsortedKeys
  <2>2. HoldsNewest'
    BY <1>2, <2>1, NextMovesOneCursor DEF OrderHolds
  <2>3. InOrderUnlessChanged'
    BY <1>2, <2>1, NextKeepsOrder, UndoKeepsOrder DEF OrderHolds
  <2>4. FoundInOrder'
    BY <1>2, StepsFindOrder DEF OrderHolds
  <2> QED BY <2>2, <2>3, <2>4 DEF OrderHolds
<1> QED BY <1>1, <1>2

-----------------------------------------------------------------------------
(* The shape of the editor: its flags, and no operation that a command has *)
(* noted and not yet recorded.                                             *)
AreTyped(w) == Sane(w) /\ Flagged(w) /\ w.dragging \in BOOLEAN /\ w.ops = <<>>

LEMMA CommandWritesNotes ==
    ASSUME Follows(editor', editor), WorkFields \subseteq DOMAIN editor, editor.ops = <<>>
    PROVE  editor'.ops = <<>>
BY DEF Follows, Smooth, Written, Edited, WorkFields

LEMMA FrameKeepsNotes ==
    ASSUME WorkFields \subseteq DOMAIN editor, BeginRender \/ EndFrame
    PROVE  editor'.ops = editor.ops
<1>1. CASE BeginRender
  <2>1. PICK w \in (IF editor.changed THEN OnCursorPositionChanged(editor) ELSE {editor}) :
            editor' = [w EXCEPT !.changed = FALSE]
    BY <1>1 DEF BeginRender
  <2>2. KeepsNotes(w, editor)
    BY <2>1, CursorsKeepNotes DEF KeepsNotes
  <2> QED BY <2>1, <2>2 DEF KeepsNotes, WorkFields
<1>2. CASE EndFrame
  BY <1>2 DEF EndFrame, ColorizeInternal, WorkFields
<1> QED BY <1>1, <1>2

LEMMA MouseKeepsNotes ==
    ASSUME WorkFields \subseteq DOMAIN editor, NEW name, NEW down, NEW W, Mouse(name, down, W),
           \A w \in W : KeepsNotes(w, editor)
    PROVE  editor'.ops = editor.ops
<1>1. PICK w \in W : \/ editor' = [editor EXCEPT !.aborted = TRUE]
                     \/ editor' = ColorizeInternal(w)
  BY DEF Mouse, Becomes
<1>2. KeepsNotes(w, editor)
  OBVIOUS
<1>3. ColorizeInternal(w).ops = w.ops
  BY <1>2 DEF ColorizeInternal, KeepsNotes, WorkFields
<1> QED BY <1>1, <1>2, <1>3 DEF KeepsNotes, WorkFields

LEMMA ClickedKeepsNotes ==
    ASSUME WorkFields \subseteq DOMAIN editor, NEW ctrl
    PROVE  LET w == Clicked(ctrl)
           IN  /\ WorkFields \subseteq DOMAIN w
               /\ \A p, c, clear : KeepsNotes(SetCursorPosition(w, p, c, clear), editor)
               /\ \A p, q, c : KeepsNotes(SetSelection(w, p, q, c), editor)
<1> DEFINE u == IF ctrl THEN AddCursor(editor) ELSE ClearExtraCursors(editor)
           w == Clicked(ctrl)
<1>1. KeepsNotes(u, editor)
  BY CursorsKeepNotes
<1>2. w = [u EXCEPT !.dragging = TRUE]
  BY DEF Clicked
<1> HIDE DEF u, w
<1>3. KeepsNotes(w, editor)
  BY <1>1, <1>2 DEF KeepsNotes, WorkFields
<1>4. WorkFields \subseteq DOMAIN w
  BY <1>3 DEF KeepsNotes
<1>5. /\ \A p, c, clear : KeepsNotes(SetCursorPosition(w, p, c, clear), w)
      /\ \A p, q, c : KeepsNotes(SetSelection(w, p, q, c), w)
  BY <1>4, CursorsKeepNotes
<1> QED BY <1>3, <1>4, <1>5 DEF KeepsNotes, w

LEMMA MouseStepKeepsNotes ==
    ASSUME WorkFields \subseteq DOMAIN editor, MouseStep
    PROVE  editor'.ops = editor.ops
<1>1. CASE Click
  <2>1. PICK ctrl, p :
            Mouse(IF ctrl THEN "CtrlClick" ELSE "Click", TRUE,
                  {SetCursorPosition(Clicked(ctrl), p, GetLastAddedCursorIndex(Clicked(ctrl)), TRUE)})
    BY <1>1 DEF Click
  <2>2. \A c, clear : KeepsNotes(SetCursorPosition(Clicked(ctrl), p, c, clear), editor)
    BY ClickedKeepsNotes
  <2> QED BY <2>1, <2>2, MouseKeepsNotes
<1>2. CASE DoubleClick
  <2>1. PICK ctrl, p, q, c : Mouse("DoubleClick", TRUE, {SetSelection(Clicked(ctrl), p, q, c)})
    BY <1>2 DEF DoubleClick
  <2>2. KeepsNotes(SetSelection(Clicked(ctrl), p, q, c), editor)
    BY ClickedKeepsNotes
  <2> QED BY <2>1, <2>2, MouseKeepsNotes
<1>3. CASE LineClick
  <2>1. PICK ctrl, p, q, c : Mouse("LineClick", TRUE, {SetSelection(Clicked(ctrl), p, q, c)})
    BY <1>3 DEF LineClick
  <2>2. KeepsNotes(SetSelection(Clicked(ctrl), p, q, c), editor)
    BY ClickedKeepsNotes
  <2> QED BY <2>1, <2>2, MouseKeepsNotes
<1>4. CASE ShiftClick \/ Drag
  <2>1. PICK name, p, c : Mouse(name, TRUE, {SetCursorPosition(editor, p, c, FALSE)})
    BY <1>4 DEF ShiftClick, Drag
  <2>2. KeepsNotes(SetCursorPosition(editor, p, c, FALSE), editor)
    BY CursorsKeepNotes
  <2> QED BY <2>1, <2>2, MouseKeepsNotes
<1>5. CASE Release
  <2> DEFINE w == [editor EXCEPT !.dragging = FALSE]
  <2>1. PICK hovered \in BOOLEAN : Mouse(IF hovered THEN "Release" ELSE "ReleaseOutside", FALSE,
                                         IF hovered THEN SortAndMerge(w) ELSE {w})
    BY <1>5 DEF Release
  <2>2. KeepsNotes(w, editor) /\ WorkFields \subseteq DOMAIN w
    BY DEF KeepsNotes, WorkFields
  <2> HIDE DEF w
  <2>3. \A v \in SortAndMerge(w) : KeepsNotes(v, w)
    BY <2>2, CursorsKeepNotes
  <2>4. \A v \in (IF hovered THEN SortAndMerge(w) ELSE {w}) : KeepsNotes(v, editor)
    BY <2>2, <2>3 DEF KeepsNotes
  <2> QED BY <2>1, <2>4, MouseKeepsNotes
<1> QED BY <1>1, <1>2, <1>3, <1>4, <1>5 DEF MouseStep

(* A step that is neither an undo nor a redo leaves no operation noted.    *)
LEMMA StepWritesNotes ==
    ASSUME Sane(editor), editor.ops = <<>>, Next, ~UndoOrRedo, VisibleLineCount >= 2,
           PressLinesDown => WholeLines(editor)
    PROVE  editor'.ops = <<>>
<1>1. /\ Sound(editor) /\ WorkFields \subseteq DOMAIN editor
      /\ ~PressUndo /\ ~PressRedo /\ ~ToolbarUndo /\ ~ToolbarRedo
  BY DEF Sane, Sound, Shaped, UndoOrRedo
<1>2. CASE ToolbarStep
  BY <1>1, <1>2, ToolbarFollows, CommandWritesNotes
<1>3. CASE BeginRender \/ EndFrame
  BY <1>1, <1>3, FrameKeepsNotes
<1>4. CASE MovementKey
  BY <1>1, <1>4, MovementKeyFollows, CommandWritesNotes
<1>5. CASE EditingKey
  BY <1>1, <1>5, EditingKeyFollows, CommandWritesNotes
<1>6. CASE \E ch \in Characters : Type(ch)
  BY <1>1, <1>6, TypeFollows, CommandWritesNotes
<1>7. CASE MouseStep
  BY <1>1, <1>7, MouseStepKeepsNotes
<1> QED BY <1>2, <1>3, <1>4, <1>5, <1>6, <1>7 DEF Next

LEMMA MakesTyped ==
    ASSUME Sane(editor), Flagged(editor), editor.dragging \in BOOLEAN, NEW d \in BOOLEAN, Makes(d)
    PROVE  Flagged(editor') /\ editor'.dragging \in BOOLEAN
<1>1. CASE Aborts
  <2>1. WorkFields \subseteq DOMAIN editor
    BY DEF Sane, Sound, Shaped
  <2> QED BY <1>1, <2>1 DEF Aborts, Flagged, WorkFields
<1>2. CASE Edited(editor', editor)
  BY <1>2 DEF Edited
<1>3. CASE Succeeds(editor', DraggedAs(d))
  <2>1. DraggedAs(d).dragging = d /\ Flagged(DraggedAs(d))
    BY DraggedAsIsSane
  <2> QED BY <1>3, <2>1 DEF Succeeds
<1> QED BY <1>1, <1>2, <1>3 DEF Makes

Phases == {"toolbar", "keys", "typing"}

LEMMA StepsKeepPhase ==
    ASSUME phase \in Phases, mouseDown \in BOOLEAN, Next
    PROVE  phase' \in Phases /\ mouseDown' \in BOOLEAN
<1>1. ASSUME NEW name, NEW W, Button(name, W) \/ Key(name, W)
      PROVE  phase' \in Phases /\ mouseDown' \in BOOLEAN
  BY <1>1 DEF Button, Key, Phases
<1>2. ASSUME NEW name, NEW down \in BOOLEAN, NEW W, Mouse(name, down, W)
      PROVE  phase' \in Phases /\ mouseDown' \in BOOLEAN
  BY <1>2 DEF Mouse, Phases
<1>3. ToolbarStep => phase' \in Phases /\ mouseDown' \in BOOLEAN
  BY <1>1 DEF ToolbarStep, ToolbarUndo, ToolbarRedo, ToolbarCut, ToolbarCopy, ToolbarPaste,
      ToolbarSelectAll
<1>4. MovementKey => phase' \in Phases /\ mouseDown' \in BOOLEAN
  BY <1>1 DEF MovementKey, PressUp, PressDown, PressLeft, PressRight, PressWordLeft,
      PressWordRight, PressPageUp, PressPageDown, PressTop, PressBottom, PressHome, PressEnd,
      PressSelectAll, PressNextOccurrence
<1>5. EditingKey => phase' \in Phases /\ mouseDown' \in BOOLEAN
  BY <1>1 DEF EditingKey, PressUndo, PressRedo, PressDelete, PressWordDelete, PressBackspace,
      PressWordBackspace, PressRemoveLines, PressUnindent, PressIndent, PressLinesUp,
      PressLinesDown, PressComment, PressInsert, PressCopy, PressPaste, PressCut, PressEnter,
      PressTab
<1>6. BeginRender \/ EndFrame \/ (\E ch \in Characters : Type(ch))
          => phase' \in Phases /\ mouseDown' \in BOOLEAN
  BY DEF BeginRender, EndFrame, Type, Phases
<1>7. MouseStep => \E name, W : Mouse(name, TRUE, W) \/ Mouse(name, FALSE, W)
  BY DEF MouseStep, Click, DoubleClick, LineClick, ShiftClick, Drag, Release
<1> QED BY <1>2, <1>3, <1>4, <1>5, <1>6, <1>7 DEF Next

Typing == AreTyped(editor) /\ phase \in Phases /\ mouseDown \in BOOLEAN

LEMMA InitIsTyped ==
    ASSUME Init
    PROVE  Typing
<1>1. PICK text \in Texts, clipboard \in Clipboards :
          editor = [lines |-> text,
                     cursors |-> DefaultState.cursors,
                     lastAdded |-> DefaultState.lastAdded,
                     changed |-> FALSE, dragging |-> FALSE, overwrite |-> FALSE,
                     clipboard |-> clipboard,
                     undoBuffer |-> <<>>, undoIndex |-> 0,
                     ops |-> <<>>, aborted |-> FALSE,
                     fresh |-> [l \in DOMAIN text |-> text[l] = <<>>],
                     colorMin |-> 0, colorMax |-> Len(text), scan |-> TRUE]
  BY DEF Init
<1> DEFINE fresh == [l \in DOMAIN text |-> text[l] = <<>>]
<1>2. Len(text) \in Nat /\ DOMAIN text = 1..Len(text)
  BY TextEditorAssumption
<1>3. fresh = [l \in 1..Len(text) |-> fresh[l]] /\ \A l \in 1..Len(text) : fresh[l] \in BOOLEAN
  BY <1>2
<1> HIDE DEF fresh
<1>4. fresh \in Seq(BOOLEAN) /\ Len(fresh) = Len(text)
  BY <1>2, <1>3
<1>5. /\ editor.fresh = fresh /\ editor.lines = text /\ editor.colorMin = 0
      /\ editor.colorMax = Len(text) /\ editor.scan = TRUE /\ editor.changed = FALSE
      /\ editor.overwrite = FALSE /\ editor.aborted = FALSE /\ editor.dragging = FALSE
      /\ editor.ops = <<>>
  BY <1>1 DEF fresh
<1> DEFINE e == editor
<1> HIDE DEF e, fresh
<1>6. Flagged(e)
  <2>1. e.fresh \in Seq(BOOLEAN) /\ Len(e.fresh) = Len(e.lines)
    BY <1>4, <1>5 DEF e
  <2>2. e.colorMin \in Nat /\ e.colorMax \in Nat
    BY <1>2, <1>5 DEF e
  <2>3. /\ e.scan \in BOOLEAN /\ e.changed \in BOOLEAN
        /\ e.overwrite \in BOOLEAN /\ e.aborted \in BOOLEAN
    BY <1>5 DEF e
  <2> QED BY <2>1, <2>2, <2>3 DEF Flagged
<1>7. phase \in Phases /\ mouseDown \in BOOLEAN
  BY DEF Init, Phases
<1> QED BY <1>5, <1>6, <1>7, InitIsSane DEF Typing, AreTyped, e

LEMMA StepsStayTyped ==
    ASSUME VisibleLineCount >= 2, [PressLinesDown => WholeLines(editor)]_vars,
           Typing, [Next]_vars, ~UndoOrRedo
    PROVE  Typing'
<1>1. CASE UNCHANGED vars
  BY <1>1 DEF vars, Typing
<1>2. CASE Next /\ (PressLinesDown => WholeLines(editor))
  <2>1. /\ Sane(editor) /\ Flagged(editor) /\ editor.dragging \in BOOLEAN /\ editor.ops = <<>>
        /\ phase \in Phases /\ mouseDown \in BOOLEAN
    BY DEF Typing, AreTyped
  <2>2. PICK d \in BOOLEAN : Makes(d)
    BY <1>2, <2>1, StepMakes
  <2>3. Sane(editor')
    BY <2>1, <2>2, MakesSane
  <2>4. Flagged(editor') /\ editor'.dragging \in BOOLEAN
    BY <2>1, <2>2, MakesTyped
  <2>5. editor'.ops = <<>>
    BY <1>2, <2>1, StepWritesNotes
  <2>6. phase' \in Phases /\ mouseDown' \in BOOLEAN
    BY <1>2, <2>1, StepsKeepPhase
  <2> QED BY <2>3, <2>4, <2>5, <2>6 DEF Typing, AreTyped
<1> QED BY <1>1, <1>2

LEMMA TypedIsTypeOK ==
    ASSUME Typing
    PROVE  TypeOK
<1>1. Sound(editor) /\ Past(editor) /\ Flagged(editor)
  BY DEF Typing, AreTyped, Sane
<1>2. editor.lines \in Seq(Seq(Glyph)) /\ editor.lines # <<>>
  <2>1. editor.lines \in Seq(Line) /\ Line \subseteq Seq(Glyph)
    BY <1>1 DEF Sound, Line
  <2>2. Len(editor.lines) >= 1
    BY <1>1 DEF Sound, Shaped, IsText
  <2> QED BY <2>1, <2>2
<1>3. editor.cursors # <<>> /\ IsCursors(editor.cursors)
  <2>1. AreCursors(editor.cursors, editor.lines) /\ DOMAIN editor.cursors = 1..Len(editor.cursors)
    BY <1>1 DEF Sound, Shaped, AreCursors, IsSeq
  <2>2. editor.cursors # <<>>
    BY <2>1, SmallSeqs DEF AreCursors
  <2>3. \A p \in Places(editor.lines) : p.column >= 0 /\ p.line >= 0
    BY DEF Places
  <2> QED BY <2>1, <2>2, <2>3 DEF AreCursors, IsCursors
<1>4. editor.lastAdded \in Nat \ {0} /\ editor.undoIndex \in 0..Len(editor.undoBuffer)
  BY <1>1 DEF Sound, Shaped, Past
<1> QED BY <1>1, <1>2, <1>3, <1>4 DEF TypeOK, Typing, AreTyped, Flagged, Phases

LEMMA SaneIsWhole ==
    ASSUME Sane(editor)
    PROVE  CharactersWhole
<1>1. ASSUME NEW l \in DOMAIN editor.lines PROVE Whole(editor.lines[l])
  BY DEF Sane, Sound, Line
<1>2. Whole(editor.clipboard)
  BY DEF Sane, Sound, Shaped, Passage
<1>3. ASSUME NEW n \in DOMAIN editor.undoBuffer, NEW o \in ToSet(editor.undoBuffer[n].ops)
      PROVE  Whole(o.text)
  <2>1. AreOperations(editor.undoBuffer[n].ops)
    BY DEF Sane, Past, Entry, IsSeq
  <2>2. PICK i \in 1..Len(editor.undoBuffer[n].ops) : o = editor.undoBuffer[n].ops[i]
    BY <2>1 DEF ToSet, AreOperations, IsSeq
  <2> QED BY <2>1, <2>2 DEF AreOperations, Passage
<1> QED BY <1>1, <1>2, <1>3 DEF CharactersWhole

-----------------------------------------------------------------------------
(* Without undo and redo, whatever is typed, pressed and clicked, the      *)
(* cursors stay in the text, and those a record keeps in the text that     *)
(* goes with it: the commands can index m_Lines with them unchecked.  Not  *)
(* if MoveDownCurrentLines takes a selection that ends at a line's start,  *)
(* or the window shows fewer than two lines, which makes PageUp go down.   *)
THEOREM CursorsStayInText ==
    ASSUME VisibleLineCount >= 2, UndoKeys \cap Commands = {}
    PROVE  Spec /\ LinesGoDownWhole => []CursorsInText
<1>1. Spec /\ LinesGoDownWhole => []Sane(editor)
  BY SaneWithoutUndo
<1> QED BY <1>1, SaneIsInText, PTL

(* With undo and redo as well, provided that they restore the text: then   *)
(* they bring back cursors that fit it.                                    *)
THEOREM CursorsStayInRestoredText ==
    ASSUME VisibleLineCount >= 2
    PROVE  Spec /\ LinesGoDownWhole /\ UndoRestoresText => []CursorsInText
<1>1. Spec /\ LinesGoDownWhole /\ UndoRestoresText => []Sane(editor)
  BY SaneWithHistory
<1> QED BY <1>1, SaneIsInText, PTL

(* No command cuts a character in half, in the lines, in the clipboard or  *)
(* in a record, whatever is selected, typed over, cut and pasted: the      *)
(* indices that are found by walking along a line stay inside it.  With    *)
(* undo and redo as well, provided that they restore the text.             *)
THEOREM CharactersStayWhole ==
    ASSUME VisibleLineCount >= 2
    PROVE  /\ Spec /\ LinesGoDownWhole /\ UndoRestoresText => []CharactersWhole
           /\ UndoKeys \cap Commands = {} => (Spec /\ LinesGoDownWhole => []CharactersWhole)
<1>1. Spec /\ LinesGoDownWhole /\ UndoRestoresText => []Sane(editor)
  BY SaneWithHistory
<1>2. Spec /\ LinesGoDownWhole /\ UndoRestoresText => []CharactersWhole
  BY <1>1, SaneIsWhole, PTL
<1>3. ASSUME UndoKeys \cap Commands = {}
      PROVE  Spec /\ LinesGoDownWhole => []CharactersWhole
  <2>1. Spec /\ LinesGoDownWhole => []Sane(editor)
    BY <1>3, SaneWithoutUndo
  <2> QED BY <2>1, SaneIsWhole, PTL
<1> QED BY <1>2, <1>3

(* Without undo and redo the editor keeps its shape: in particular, each   *)
(* line has its colouring mark, the lines to be coloured are a range, and  *)
(* every change that a command has noted is in the record it has stored.   *)
THEOREM EditorKeepsShape ==
    ASSUME VisibleLineCount >= 2, UndoKeys \cap Commands = {}
    PROVE  Spec /\ LinesGoDownWhole => []TypeOK
<1>1. Init => Typing
  BY InitIsTyped
<1>2. ~UndoOrRedo
  BY DEF UndoOrRedo, PressUndo, PressRedo, ToolbarUndo, ToolbarRedo, Key, Button, UndoKeys
<1>3. Typing /\ [Next]_vars /\ [PressLinesDown => WholeLines(editor)]_vars => Typing'
  BY <1>2, StepsStayTyped
<1>4. Typing => TypeOK
  BY TypedIsTypeOK
<1> QED BY <1>1, <1>3, <1>4, PTL DEF Spec, LinesGoDownWhole

(* In every text that is reached, glyph indices and columns lead to each   *)
(* other and back.                                                         *)
THEOREM ColumnsAlwaysRoundTrip ==
    ASSUME VisibleLineCount >= 2
    PROVE  /\ Spec /\ LinesGoDownWhole /\ UndoRestoresText => []ColumnsRoundTrip
           /\ UndoKeys \cap Commands = {} => (Spec /\ LinesGoDownWhole => []ColumnsRoundTrip)
<1>1. Spec /\ LinesGoDownWhole /\ UndoRestoresText => []Sane(editor)
  BY SaneWithHistory
<1>2. Spec /\ LinesGoDownWhole /\ UndoRestoresText => []ColumnsRoundTrip
  BY <1>1, SaneRoundTrips, PTL
<1>3. ASSUME UndoKeys \cap Commands = {}
      PROVE  Spec /\ LinesGoDownWhole => []ColumnsRoundTrip
  <2>1. Spec /\ LinesGoDownWhole => []Sane(editor)
    BY <1>3, SaneWithoutUndo
  <2> QED BY <2>1, SaneRoundTrips, PTL
<1> QED BY <1>2, <1>3

(* A drag moves the free end of one cursor and nothing else, unless the    *)
(* keys are served while the button is down.                               *)
THEOREM DragsMoveOneCursor ==
    ASSUME VisibleLineCount >= 2, "KeysWhileMouseDown" \notin Commands
    PROVE  /\ Spec /\ LinesGoDownWhole /\ UndoRestoresText => DragMovesOneCursor
           /\ UndoKeys \cap Commands = {} => (Spec /\ LinesGoDownWhole => DragMovesOneCursor)
<1>1. Spec /\ LinesGoDownWhole /\ UndoRestoresText => []Sane(editor)
  BY SaneWithHistory
<1>2. Spec /\ LinesGoDownWhole /\ UndoRestoresText => DragMovesOneCursor
  BY <1>1, SaneDrags, PTL
<1>3. ASSUME UndoKeys \cap Commands = {}
      PROVE  Spec /\ LinesGoDownWhole => DragMovesOneCursor
  <2>1. Spec /\ LinesGoDownWhole => []Sane(editor)
    BY <1>3, SaneWithoutUndo
  <2> QED BY <2>1, SaneDrags, PTL
<1> QED BY <1>2, <1>3

(* Without undo and redo, the keys are served with the cursors in order    *)
(* and apart, however they were moved, clicked and merged: no command      *)
(* handles a stretch of text twice.  Not with three selections, which      *)
(* MergeCursorsIfPossible may leave overlapping, nor after a drag released *)
(* outside the window, where nothing is merged.                            *)
THEOREM CursorsStayApart ==
    ASSUME VisibleLineCount >= 2, "ReleaseOutside" \notin Commands, UndoKeys \cap Commands = {}
    PROVE  Spec /\ LinesGoDownWhole /\ []FewCursors => []CursorsApart
<1>1. Spec /\ LinesGoDownWhole => []Sane(editor)
  BY SaneWithoutUndo
<1>2. Init => InOrderUnlessChanged
  BY InitInOrder
<1>3. Sane(editor) /\ FewCursors /\ InOrderUnlessChanged /\ [Next]_vars
          /\ [PressLinesDown => WholeLines(editor)]_vars => InOrderUnlessChanged'
  <2>1. ~UndoOrRedo
    BY DEF UndoOrRedo, PressUndo, PressRedo, ToolbarUndo, ToolbarRedo, Key, Button, UndoKeys
  <2>2. InOrderUnlessChanged /\ UNCHANGED vars => InOrderUnlessChanged'
    BY DEF InOrderUnlessChanged, vars
  <2> QED BY <2>1, <2>2, NextKeepsOrder
<1>4. InOrderUnlessChanged => CursorsApart
  BY DEF InOrderUnlessChanged, CursorsApart, Apart, InOrder
<1> QED BY <1>1, <1>2, <1>3, <1>4, PTL DEF Spec, LinesGoDownWhole

(* With undo as well, for keys that are each the first input of their      *)
(* frame, provided that an undo restores the text.                         *)
THEOREM CursorsStayApartWithUndo ==
    ASSUME VisibleLineCount >= 2, UnsortedKeys \cap Commands = {}, Characters = {}
    PROVE  Spec /\ LinesGoDownWhole /\ UndoRestoresText /\ []FewCursors => []CursorsApart
<1>1. Spec /\ LinesGoDownWhole /\ UndoRestoresText => []Sane(editor)
  BY SaneWithHistory
<1>2. Init => OrderHolds
  BY InitIsSane, InitInOrder, InitFindsOrder DEF OrderHolds, HoldsNewest
<1>3. Sane(editor) /\ FewCursors /\ OrderHolds /\ [Next]_vars
          /\ [PressLinesDown => WholeLines(editor)]_vars => OrderHolds'
  BY StepsKeepOrder
<1>4. OrderHolds => CursorsApart
  BY DEF OrderHolds, InOrderUnlessChanged, CursorsApart, Apart, InOrder
<1> QED BY <1>1, <1>2, <1>3, <1>4, PTL DEF Spec, LinesGoDownWhole

(* No assertion of the editor fails, in any order of commands, clicks and  *)
(* drags, but for those of three cases: a selection is cut, pasted over or *)
(* typed over while another cursor selects nothing or two selections       *)
(* overlap; the next occurrence is looked for of a selection without text; *)
(* or lines are removed during a drag, or all of them with the first one   *)
(* empty.  A user who stays clear of these meets no failed assertion.      *)
THEOREM AssertionsHold ==
    ASSUME VisibleLineCount >= 2
    PROVE  /\ Spec /\ LinesGoDownWhole /\ UndoRestoresText => FailsOnlyUnasserted
           /\ UndoKeys \cap Commands = {} => (Spec /\ LinesGoDownWhole => FailsOnlyUnasserted)
           /\ Spec /\ FailsOnlyUnasserted /\ [][Asserted]_vars => []NoAssertFails
<1>1. Spec /\ LinesGoDownWhole /\ UndoRestoresText => FailsOnlyUnasserted
  <2>1. Spec /\ LinesGoDownWhole /\ UndoRestoresText => []Sane(editor)
    BY SaneWithHistory
  <2> QED BY <2>1, SaneDoesNotFail, PTL
<1>2. ASSUME UndoKeys \cap Commands = {}
      PROVE  Spec /\ LinesGoDownWhole => FailsOnlyUnasserted
  <2>1. Spec /\ LinesGoDownWhole => []Sane(editor)
    BY <1>2, SaneWithoutUndo
  <2> QED BY <2>1, SaneDoesNotFail, PTL
<1>3. Spec /\ FailsOnlyUnasserted /\ [][Asserted]_vars => []NoAssertFails
  <2>1. Init => NoAssertFails
    BY InitIsSane DEF NoAssertFails
  <2>2. NoAssertFails /\ [editor'.aborted => ~Asserted]_vars /\ [Asserted]_vars => NoAssertFails'
    BY DEF NoAssertFails, vars
  <2> QED BY <2>1, <2>2, PTL DEF Spec, FailsOnlyUnasserted
<1> QED BY <1>1, <1>2, <1>3
=============================================================================
