----------------------------- MODULE Singleton ------------------------------
(***************************************************************************)
(* SingletonDestroyProbe<T> (Utilities/Singleton.hpp), the base of         *)
(* FontRanges: GetInstance is double-checked locking over an atomic        *)
(* pointer, DestroyInstance deletes the object under the same mutex.       *)
(* Each access to the pointer, to the owner and to the mutex is a step.    *)
(***************************************************************************)
CONSTANTS
    Getters,        \* threads that call GetInstance, again and again
    Destroyers,     \* threads that call DestroyInstance, again and again
    Objects,        \* addresses an object can have; freed ones are reused
    Nil

Threads == Getters \cup Destroyers

ASSUME SingletonAssumption ==
    /\ Getters \cap Destroyers = {}
    /\ Nil \notin Threads \cup Objects

VARIABLES
    instance,       \* atomic instance_
    owner,          \* instanceOwner_
    mutex,          \* owner of instanceMutex_, Nil when free
    live,           \* objects constructed and not deleted
    pc,
    tmp             \* the local tmp of GetInstance

vars == <<instance, owner, mutex, live, pc, tmp>>

Init ==
    /\ instance = Nil
    /\ owner = Nil
    /\ mutex = Nil
    /\ live = {}
    /\ pc = [t \in Threads |-> "call"]
    /\ tmp = [t \in Threads |-> Nil]

Goto(t, place) == pc' = [pc EXCEPT ![t] = place]

-----------------------------------------------------------------------------
(* GetInstance.                                                            *)

(* The first check, with acquire order and without the mutex. *)
FirstCheck(g) ==
    /\ pc[g] = "call"
    /\ tmp' = [tmp EXCEPT ![g] = instance]
    /\ Goto(g, IF instance = Nil THEN "lock" ELSE "return")
    /\ UNCHANGED <<instance, owner, mutex, live>>

Lock(t) ==
    /\ pc[t] = "lock"
    /\ mutex = Nil
    /\ mutex' = t
    /\ Goto(t, IF t \in Getters THEN "recheck" ELSE "probe")
    /\ UNCHANGED <<instance, owner, live, tmp>>

(* Mutant of SecondCheck: the pointer is not read again under the mutex. *)
SecondCheckNot(g) ==
    /\ pc[g] = "recheck"
    /\ Goto(g, "new")
    /\ UNCHANGED <<instance, owner, mutex, live, tmp>>

(* The second check, under the mutex. *)
SecondCheck(g) ==
    /\ pc[g] = "recheck"
    /\ tmp' = [tmp EXCEPT ![g] = instance]
    /\ Goto(g, IF instance = Nil THEN "new" ELSE "unlock")
    /\ UNCHANGED <<instance, owner, mutex, live>>

(* newInstance(new T()). *)
Construct(g) ==
    /\ pc[g] = "new"
    /\ \E o \in Objects \ live :
        /\ live' = live \cup {o}
        /\ tmp' = [tmp EXCEPT ![g] = o]
    /\ Goto(g, "publish")
    /\ UNCHANGED <<instance, owner, mutex>>

(* instance_.store(tmp, release): visible to the first check from here on. *)
PublishInstance(g) ==
    /\ pc[g] = "publish"
    /\ instance' = tmp[g]
    /\ Goto(g, "own")
    /\ UNCHANGED <<owner, mutex, live, tmp>>

(* instanceOwner_.reset(...) deletes what it owned before. *)
TakeOwnership(g) ==
    /\ pc[g] = "own"
    /\ live' = live \ {owner}
    /\ owner' = tmp[g]
    /\ Goto(g, "unlock")
    /\ UNCHANGED <<instance, mutex, tmp>>

Unlock(t) ==
    /\ pc[t] = "unlock"
    /\ mutex' = Nil
    /\ Goto(t, "return")
    /\ UNCHANGED <<instance, owner, live, tmp>>

(* The caller drops the reference and may call again. *)
Return(t) ==
    /\ pc[t] = "return"
    /\ Goto(t, "call")
    /\ tmp' = [tmp EXCEPT ![t] = Nil]
    /\ UNCHANGED <<instance, owner, mutex, live>>

-----------------------------------------------------------------------------
(* DestroyInstance.                                                        *)

CallDestroy(d) ==
    /\ pc[d] = "call"
    /\ Goto(d, "lock")
    /\ UNCHANGED <<instance, owner, mutex, live, tmp>>

Probe(d) ==
    /\ pc[d] = "probe"
    /\ Goto(d, IF owner = Nil THEN "unlock" ELSE "delete")
    /\ UNCHANGED <<instance, owner, mutex, live, tmp>>

(* instanceOwner_.reset(): the object goes, the pointer to it stays. *)
Delete(d) ==
    /\ pc[d] = "delete"
    /\ live' = live \ {owner}
    /\ owner' = Nil
    /\ Goto(d, "clear")
    /\ UNCHANGED <<instance, mutex, tmp>>

(* Mutant of Clear: the pointer is left dangling. *)
ClearNot(d) ==
    /\ pc[d] = "clear"
    /\ Goto(d, "unlock")
    /\ UNCHANGED <<instance, owner, mutex, live, tmp>>

(* instance_.store(nullptr, release). *)
Clear(d) ==
    /\ pc[d] = "clear"
    /\ instance' = Nil
    /\ Goto(d, "unlock")
    /\ UNCHANGED <<owner, mutex, live, tmp>>

-----------------------------------------------------------------------------
GetStep(g) ==
    \/ FirstCheck(g) \/ SecondCheck(g) \/ Construct(g)
    \/ PublishInstance(g) \/ TakeOwnership(g)

DestroyStep(d) == CallDestroy(d) \/ Probe(d) \/ Delete(d) \/ Clear(d)

Next ==
    \/ \E g \in Getters : GetStep(g)
    \/ \E d \in Destroyers : DestroyStep(d)
    \/ \E t \in Threads : Lock(t) \/ Unlock(t) \/ Return(t)

Spec == Init /\ [][Next]_vars

-----------------------------------------------------------------------------
InMutex == {"recheck", "new", "publish", "own", "unlock", "probe", "delete", "clear"}

TypeOK ==
    /\ instance \in Objects \cup {Nil}
    /\ owner \in Objects \cup {Nil}
    /\ mutex \in Threads \cup {Nil}
    /\ live \subseteq Objects
    /\ pc \in [Threads -> {"call", "lock", "return"} \cup InMutex]
    /\ tmp \in [Threads -> Objects \cup {Nil}]

(* There is never more than one T, nor one that nobody would delete: with  *)
(* the mutex free, exactly the owned object is live, and the fast path     *)
(* finds that object.                                                      *)
OneInstance ==
    /\ \A a, b \in live : a = b
    /\ mutex = Nil => instance = owner /\ live = {owner} \ {Nil}

(* The fast path hands out a live object except while DestroyInstance is   *)
(* between deleting the object and clearing the pointer.                   *)
FastPathLive ==
    [][\A g \in Getters : pc[g] = "call" /\ pc'[g] = "return" =>
         instance \in live \/ \E d \in Destroyers : pc[d] = "clear"]_vars
=============================================================================
