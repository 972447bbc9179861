-------------------------- MODULE SingletonProofs ---------------------------
(***************************************************************************)
(* For any number of threads, OneInstance and FastPathLive.  The invariant *)
(* says who is inside the mutex and what the pointer, the owner and the    *)
(* set of live objects are at each place of the critical sections.         *)
(***************************************************************************)
EXTENDS Singleton, TLAPS

GetPlaces == {"recheck", "new", "publish", "own"}
DestroyPlaces == {"probe", "delete", "clear"}

(* The owned object, and only it, is live and is what instance_ points to. *)
Settled == instance = owner /\ live = {owner} \ {Nil}

(* A thread is inside the mutex exactly when it owns it, and at places of  *)
(* its own function.                                                       *)
Exclusion ==
    /\ \A t \in Threads : pc[t] \in InMutex <=> mutex = t
    /\ \A t \in Threads : pc[t] \in GetPlaces => t \in Getters
    /\ \A t \in Threads : pc[t] \in DestroyPlaces => t \in Destroyers

(* The shared state, place by place. *)
Shape ==
    /\ mutex = Nil => Settled
    /\ \A t \in Threads :
        /\ pc[t] \in {"recheck", "probe", "unlock", "delete"} => Settled
        /\ pc[t] = "new" => instance = Nil /\ owner = Nil /\ live = {}
        /\ pc[t] = "publish" =>
             instance = Nil /\ owner = Nil /\ tmp[t] # Nil /\ live = {tmp[t]}
        /\ pc[t] = "own" =>
             instance = tmp[t] /\ owner = Nil /\ tmp[t] # Nil /\ live = {tmp[t]}
        /\ pc[t] = "clear" => owner = Nil /\ live = {}

IInv == TypeOK /\ Exclusion /\ Shape

(* The constructor state satisfies the invariant. *)
LEMMA InitIInv == Init => IInv
BY SingletonAssumption
   DEF Init, IInv, TypeOK, Exclusion, Shape, Settled, InMutex, GetPlaces,
       DestroyPlaces, Threads

(* Every step preserves the types. *)
LEMMA NextTypeOK == TypeOK /\ [Next]_vars => TypeOK'
<1> SUFFICES ASSUME TypeOK, [Next]_vars PROVE TypeOK'
    OBVIOUS
<1> USE DEF TypeOK, InMutex, Goto
<1>1. CASE UNCHANGED vars
    BY <1>1 DEF vars
<1>2. ASSUME NEW g \in Getters, GetStep(g) PROVE TypeOK'
    BY <1>2 DEF GetStep, FirstCheck, SecondCheck, Construct, PublishInstance,
                TakeOwnership, Threads
<1>3. ASSUME NEW d \in Destroyers, DestroyStep(d) PROVE TypeOK'
    BY <1>3 DEF DestroyStep, CallDestroy, Probe, Delete, Clear, Threads
<1>4. ASSUME NEW t \in Threads, Lock(t) \/ Unlock(t) \/ Return(t) PROVE TypeOK'
    BY <1>4 DEF Lock, Unlock, Return
<1>5. QED
    BY <1>1, <1>2, <1>3, <1>4 DEF Next

(* Every step preserves mutual exclusion and the shape of the state. *)
LEMMA NextIInv == IInv /\ [Next]_vars => IInv'
<1> SUFFICES ASSUME IInv, [Next]_vars PROVE IInv'
    OBVIOUS
<1>0. TypeOK'
    BY NextTypeOK DEF IInv
<1>a. TypeOK /\ Exclusion /\ Shape
    BY DEF IInv
<1> SUFFICES Exclusion' /\ Shape'
    BY <1>0 DEF IInv
<1> USE SingletonAssumption, <1>0, <1>a
    DEF TypeOK, Exclusion, Shape, Settled, InMutex, GetPlaces, DestroyPlaces,
        Goto, Threads
<1>1. CASE UNCHANGED vars
    BY <1>1 DEF vars
<1>2. ASSUME NEW g \in Getters, FirstCheck(g) PROVE Exclusion' /\ Shape'
    BY <1>2 DEF FirstCheck
<1>3. ASSUME NEW g \in Getters, SecondCheck(g) PROVE Exclusion' /\ Shape'
    BY <1>3 DEF SecondCheck
<1>4. ASSUME NEW g \in Getters, Construct(g) PROVE Exclusion' /\ Shape'
    BY <1>4 DEF Construct
<1>5. ASSUME NEW g \in Getters, PublishInstance(g) PROVE Exclusion' /\ Shape'
    BY <1>5 DEF PublishInstance
<1>6. ASSUME NEW g \in Getters, TakeOwnership(g) PROVE Exclusion' /\ Shape'
    BY <1>6 DEF TakeOwnership
<1>7. ASSUME NEW d \in Destroyers, CallDestroy(d) PROVE Exclusion' /\ Shape'
    BY <1>7 DEF CallDestroy
<1>8. ASSUME NEW d \in Destroyers, Probe(d) PROVE Exclusion' /\ Shape'
    BY <1>8 DEF Probe
<1>9. ASSUME NEW d \in Destroyers, Delete(d) PROVE Exclusion' /\ Shape'
    BY <1>9 DEF Delete
<1>10. ASSUME NEW d \in Destroyers, Clear(d) PROVE Exclusion' /\ Shape'
    BY <1>10 DEF Clear
<1>11. ASSUME NEW t \in Threads, Lock(t) PROVE Exclusion' /\ Shape'
    BY <1>11 DEF Lock
<1>12. ASSUME NEW t \in Threads, Unlock(t) PROVE Exclusion' /\ Shape'
    BY <1>12 DEF Unlock
<1>13. ASSUME NEW t \in Threads, Return(t) PROVE Exclusion' /\ Shape'
    BY <1>13 DEF Return
<1>14. QED
    BY <1>1, <1>2, <1>3, <1>4, <1>5, <1>6, <1>7, <1>8, <1>9, <1>10, <1>11,
       <1>12, <1>13 DEF Next, GetStep, DestroyStep

(* The invariant holds in every reachable state.                           *)
THEOREM Invariance == Spec => []IInv
BY InitIInv, NextIInv, PTL DEF Spec

(* At most one instance exists, and nothing is leaked or left dangling     *)
(* once the mutex is free.                                                 *)
THEOREM OneInstanceHolds == Spec => []OneInstance
<1>1. IInv => OneInstance
    <2> SUFFICES ASSUME IInv PROVE OneInstance
        OBVIOUS
    <2>1. mutex = Nil => Settled
        BY DEF IInv, Shape
    <2>2. \A a, b \in live : a = b
        <3>1. CASE mutex = Nil
            BY <3>1, <2>1 DEF Settled
        <3>2. ASSUME NEW t \in Threads, mutex = t PROVE \A a, b \in live : a = b
            BY <3>2 DEF IInv, Exclusion, Shape, Settled, InMutex
        <3>3. QED
            BY <3>1, <3>2 DEF IInv, TypeOK
    <2>3. QED
        BY <2>1, <2>2 DEF OneInstance, Settled
<1>2. QED
    BY <1>1, Invariance, PTL

(* The pointer the first check reads is nil, live, or about to be cleared. *)
LEMMA PointerLive ==
    IInv => \/ instance = Nil
            \/ instance \in live
            \/ \E d \in Destroyers : pc[d] = "clear"
<1> SUFFICES ASSUME IInv, instance # Nil, instance \notin live
             PROVE \E d \in Destroyers : pc[d] = "clear"
    OBVIOUS
<1>1. mutex # Nil
    BY DEF IInv, Shape, Settled
<1>2. PICK t \in Threads : mutex = t
    BY <1>1 DEF IInv, TypeOK
<1>3. pc[t] \in InMutex
    BY <1>2 DEF IInv, Exclusion
<1>4. pc[t] = "clear"
    BY <1>3 DEF IInv, Shape, Settled, InMutex
<1>5. QED
    BY <1>4 DEF IInv, Exclusion, DestroyPlaces

(* A reference from the fast path is live unless the object is being       *)
(* destroyed at that moment.                                               *)
THEOREM FastPathLiveHolds == Spec => FastPathLive
<1>1. IInv /\ [Next]_vars =>
        [\A g \in Getters : pc[g] = "call" /\ pc'[g] = "return" =>
            instance \in live \/ \E d \in Destroyers : pc[d] = "clear"]_vars
    <2> SUFFICES ASSUME IInv, [Next]_vars,
                        NEW g \in Getters, pc[g] = "call", pc'[g] = "return"
                 PROVE instance \in live \/ \E d \in Destroyers : pc[d] = "clear"
        OBVIOUS
    <2>1. instance # Nil
        BY DEF IInv, TypeOK, Next, GetStep, DestroyStep, FirstCheck, SecondCheck,
               Construct, PublishInstance, TakeOwnership, CallDestroy, Probe,
               Delete, Clear, Lock, Unlock, Return, Goto, vars, Threads
    <2>2. QED
        BY <2>1, PointerLive
<1>2. QED
    BY <1>1, Invariance, PTL DEF Spec, FastPathLive
=============================================================================
