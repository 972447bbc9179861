-------------------------- MODULE DBManagerProofs ---------------------------
(***************************************************************************)
(* For every number of threads, clients and servers, and every user: the   *)
(* query protocol of DBManager is correct and implements QueryConsole.     *)
(* The inductive invariant IInv relates the flags, the published result    *)
(* and the counter of launched queries to the places of the UI thread and  *)
(* of the query threads.  QueryMutex plays no part in it: the flags alone  *)
(* keep the writer and the reader of the result apart.  The second half    *)
(* is about a user who waits for background work: PatientInv.              *)
(***************************************************************************)
EXTENDS DBManager, TLAPS

(* A thread that has received a client, or reads rows from one, has one. *)
Holding ==
    \A t \in Threads :
        pc[t] \in {"ConnectRetain", "Connecting", "Displaced", "QueryRetain",
                  "Querying", "Fetching"} => holds[t] \in Clients

(* ClickRun has checked the bound for Launch, and no query is in progress. *)
LaunchReady == ui = "Launch" => launched < MaxQueries /\ ~queryInProgress

(* Before its result is published, a query thread's QueryFinished is FALSE. *)
Unpublished == ConnectPlaces \cup (QueryPlaces \ {"ClearProgress"})

(* A query thread runs only while QueryInProgress is set, executes the     *)
(* query launched last, and does not overlap with a launch.                *)
Running ==
    \A q \in QueryThreads : pc[q] # "idle" =>
        /\ queryInProgress
        /\ ui \notin {"Launch", "ClearFinished"}
        /\ job[q] = launched
        /\ pc[q] \in Unpublished \cup {"ClearProgress"}
        /\ queryFinished <=> pc[q] = "ClearProgress"
        /\ pc[q] = "WriteRows" => queryColumns = Answer(q)

(* While a launch is under way the spinner is on, and the old result, if   *)
(* it is still there, belongs to an earlier query.                         *)
Launching ==
    ui = "ClearFinished" =>
        queryInProgress /\ (queryFinished => queryRows.query # launched)

(* A finished result is in one piece. *)
Finished == queryFinished => queryRows = queryColumns

(* The UI thread copies a result that is finished. *)
Copying ==
    ui = "CopyRows" => queryFinished /\ view.columns = queryColumns

Protocol ==
    /\ LaunchReady
    /\ OneQueryThread
    /\ Running
    /\ Launching
    /\ Finished
    /\ FinishedIsLatest
    /\ Copying
    /\ ViewIsOneResult

IInv == TypeOK /\ Holding /\ Protocol

(* The empty result, and the answer a query thread publishes, are results. *)
LEMMA NoResultType == NoResult \in Results
BY ConstantsAssumption DEF NoResult, Results

LEMMA AnswerType ==
    ASSUME TypeOK, NEW q \in QueryThreads PROVE Answer(q) \in Results
<1>1. job[q] \in 0 .. MaxQueries /\ got[q] \in Credentials \cup {Nil}
    BY DEF TypeOK, Threads
<1>2. QED
    BY <1>1 DEF Answer, Results

(* The constructor's state satisfies the invariant. *)
LEMMA InitIInv == Init => IInv
<1> SUFFICES ASSUME Init PROVE IInv
    OBVIOUS
<1>0. 0 \in 0 .. MaxQueries
    BY ConstantsAssumption
<1>1. TypeOK
    BY <1>0, NoResultType
       DEF Init, InitFlags, TypeOK, Statuses, UiPlaces, Places
<1>2. QED
    BY <1>1 DEF Init, InitFlags, IInv, Holding, Protocol, LaunchReady, OneQueryThread, Running,
                Launching, Finished, FinishedIsLatest, Copying, ViewIsOneResult,
                Threads

-----------------------------------------------------------------------------
(* Types.                                                                  *)

(* A counter below its bound stays within it when it is incremented. *)
LEMMA NextInRange ==
    ASSUME NEW m \in Nat, NEW n \in 0 .. m, n < m PROVE n + 1 \in 0 .. m
OBVIOUS

(* A step of the UI thread preserves the types. *)
LEMMA UiTypeOK ==
    ASSUME TypeOK, LaunchReady, UserStep \/ FrameStep
    PROVE  TypeOK'
<1> USE DEF TypeOK, conn, flags, published, query, frame, locals, shared,
            threads, UiPlaces, Statuses, UiAt, UserAt, UiMove
<1>1. CASE UserStep
    BY <1>1 DEF UserStep, Edit, ClickConnectAgain, ClickConnect, AfterConnect,
                ClickDisconnect, ClickRunDisconnected, ClickRun, RunButton
<1>2. CASE PassButtons \/ PassRun
    BY <1>2 DEF PassButtons, PassRun
<1>3. CASE ReleaseClient \/ ClearConnected \/ SayDisconnected
    BY <1>3 DEF ReleaseClient, ClearConnected, SayDisconnected
<1>4. CASE Dispatch
    BY <1>4 DEF Dispatch, Remember, Goto, Places, ConnectPlaces
<1>5. CASE ClearFinished
    <2>1. PICK q \in QueryThreads :
            Goto(q, "ReadForm") /\ job' = [job EXCEPT ![q] = launched]
        BY <1>5 DEF ClearFinished
    <2>2. pc' \in [Threads -> Places] /\ job' \in [Threads -> 0 .. MaxQueries]
        BY <2>1 DEF Goto, Places, ConnectPlaces
    <2>3. QED
        BY <1>5, <2>2 DEF ClearFinished, ResetFinished
<1>6. CASE EmptyPane
    BY <1>6, NoResultType DEF EmptyPane
<1>7. CASE OpenPane \/ CopyRows
    BY <1>7 DEF OpenPane, CopyRows
<1>8. CASE Launch
    <2>1. launched < MaxQueries /\ launched' = launched + 1
        BY <1>8 DEF Launch, LaunchReady
    <2>2. launched' \in 0 .. MaxQueries
        BY <2>1, NextInRange, ConstantsAssumption
    <2>3. QED
        BY <1>8, <2>2 DEF Launch
<1>9. QED
    BY <1>1, <1>2, <1>3, <1>4, <1>5, <1>6, <1>7, <1>8 DEF FrameStep

(* A step of a background thread preserves the types. *)
LEMMA ThreadTypeOK ==
    ASSUME TypeOK, Holding,
           \/ \E w \in Workers : WorkerThread(w)
           \/ \E q \in QueryThreads : QueryThread(q)
    PROVE  TypeOK'
<1> USE DEF TypeOK, conn, flags, published, query, frame, locals, shared,
            uiThread, threads, At, Goto, Forget, Places, ConnectPlaces, QueryPlaces
<1>1. ASSUME NEW t \in Threads, ConnectStep(t) PROVE TypeOK'
    <2>0. cred[t] \in Credentials \cup {Nil} /\ Torn \in Credentials
        BY DEF Credentials
    <2>1. CASE ReadForm(t) \/ ReadRest(t)
        BY <2>1 DEF ReadForm, ReadRest, Credentials
    <2>2. CASE CheckConnected(t) \/ CheckClient(t)
        BY <2>2 DEF CheckConnected, CheckClient
    <2>3. CASE CreateClient(t)
        BY <2>3 DEF CreateClient
    <2>4. CASE ConnectReceiver(t)
        BY <2>4 DEF ConnectReceiver
    <2>5. CASE ConnectRetain(t)
        BY <2>5 DEF ConnectRetain
    <2>6. CASE ConnectReturns(t)
        <3>1. session' \in [Clients -> Credentials \cup {Nil}]
            BY <2>6, <2>0 DEF ConnectReturns
        <3>2. ok' \in [Threads -> BOOLEAN]
            BY <2>6 DEF ConnectReturns
        <3>3. QED
            BY <2>6, <3>1, <3>2 DEF ConnectReturns
    <2>7. CASE DisplacedReturns(t)
        <3>1. session' \in [Clients -> Credentials \cup {Nil}]
            BY <2>7, <2>0 DEF DisplacedReturns
        <3>2. ok' \in [Threads -> BOOLEAN]
            BY <2>7 DEF DisplacedReturns
        <3>3. QED
            BY <2>7, <3>1, <3>2 DEF DisplacedReturns
    <2>8. CASE StoreConnected(t)
        BY <2>8 DEF StoreConnected
    <2>9. CASE Crash(t)
        BY <2>9 DEF Crash
    <2>10. QED
        BY <1>1, <2>1, <2>2, <2>3, <2>4, <2>5, <2>6, <2>7, <2>8, <2>9
           DEF ConnectStep
<1>2. ASSUME NEW w \in Workers, Report(w) PROVE TypeOK'
    BY <1>2 DEF Report, Verdict, Statuses, Threads
<1>3. ASSUME NEW q \in QueryThreads, QueryStep(q) PROVE TypeOK'
    <2>0. q \in Threads
        BY DEF Threads
    <2>1. CASE QueryReceiver(q) \/ QueryRetain(q)
        BY <2>0, <2>1 DEF QueryReceiver, QueryRetain
    <2>2. CASE QueryFails(q) \/ FetchRows(q)
        BY <2>0, <2>2 DEF QueryFails, OnError, FetchRows
    <2>3. CASE QueryAnswered(q)
        <3>1. holds[q] \in Clients
            BY <2>0, <2>3 DEF QueryAnswered, Holding
        <3>2. QED
            BY <2>0, <2>3, <3>1 DEF QueryAnswered, KeepClient
    <2>5. CASE Publish(q) \/ WriteRows(q)
        BY <2>0, <2>5, AnswerType DEF Publish, WriteRows, SetFinished
    <2>6. CASE ClearProgress(q)
        <3>0. 0 \in 0 .. MaxQueries
            BY ConstantsAssumption
        <3>1. job' \in [Threads -> 0 .. MaxQueries]
            BY <2>6, <3>0 DEF ClearProgress
        <3>2. QED
            BY <2>0, <2>6, <3>1 DEF ClearProgress
    <2>7. QED
        BY <1>3, <2>1, <2>2, <2>3, <2>5, <2>6 DEF QueryStep
<1>4. QED
    BY <1>1, <1>2, <1>3 DEF WorkerThread, QueryThread, Threads

-----------------------------------------------------------------------------
(* Clients in hand.                                                        *)

(* No step takes the client from a thread that needs it. *)
LEMMA NextHolding == TypeOK /\ Holding /\ [Next]_vars => Holding'
<1> SUFFICES ASSUME TypeOK, Holding, [Next]_vars PROVE Holding'
    OBVIOUS
<1> USE DEF Holding, Goto, Forget, locals, threads, Threads
<1>1. CASE UNCHANGED vars
    BY <1>1 DEF vars
<1>2. CASE UserStep
    BY <1>2 DEF UserStep, Edit, ClickConnectAgain, ClickConnect, ClickDisconnect,
                ClickRunDisconnected, ClickRun, UiMove
<1>3. CASE FrameStep
    BY <1>3 DEF FrameStep, TypeOK, PassButtons, EmptyPane, OpenPane, CopyRows,
                PassRun, ReleaseClient, ClearConnected, SayDisconnected, Dispatch,
                Launch, ClearFinished, UiMove
<1>4. ASSUME NEW t \in Threads, ConnectStep(t) PROVE Holding'
    BY <1>4 DEF TypeOK, ConnectStep, ReadForm, ReadRest, CheckConnected,
                CheckClient, CreateClient, ConnectReceiver, ConnectRetain,
                ConnectReturns, DisplacedReturns, StoreConnected, Crash, At
<1>5. ASSUME NEW w \in Workers, Report(w) PROVE Holding'
    BY <1>5 DEF TypeOK, Report
<1>6. ASSUME NEW q \in QueryThreads, QueryStep(q) PROVE Holding'
    BY <1>6 DEF TypeOK, QueryStep, QueryReceiver, QueryRetain, QueryFails, OnError,
                QueryAnswered, FetchRows, Publish, WriteRows, ClearProgress, At
<1>7. QED
    BY <1>1, <1>2, <1>3, <1>4, <1>5, <1>6
       DEF Next, SystemStep, WorkerThread, QueryThread

-----------------------------------------------------------------------------
(* The protocol.                                                           *)

(* The places of a query thread up to the publication of its result. *)
Early == ConnectPlaces \cup (QueryPlaces \ {"WriteRows", "ClearProgress"})

(* What the steps of a background thread up to there have in common: query *)
(* threads neither come nor go, and nothing the protocol is about changes. *)
Advance ==
    /\ UNCHANGED <<queryInProgress, queryFinished, queryColumns, queryRows>>
    /\ UNCHANGED <<ui, view, launched, job>>
    /\ \A q \in QueryThreads :
        \/ pc'[q] = pc[q] /\ got'[q] = got[q]
        \/ pc[q] \in Early /\ pc'[q] \in Early

(* Connecting is advancing, for a worker as for a query thread. *)
LEMMA ConnectAdvances ==
    ASSUME TypeOK, NEW t \in Threads, ConnectStep(t) PROVE Advance
<1> USE ConstantsAssumption
    DEF Advance, Early, ConnectPlaces, QueryPlaces, TypeOK, Threads, At, Goto,
        query, flags, published, shared, uiThread, frame, threads, locals
<1>1. CASE ReadForm(t) \/ ReadRest(t) \/ CheckConnected(t) \/ CheckClient(t)
    BY <1>1 DEF ReadForm, ReadRest, CheckConnected, CheckClient
<1>2. CASE CreateClient(t) \/ ConnectReceiver(t)
    BY <1>2 DEF CreateClient, ConnectReceiver
<1>3. CASE ConnectRetain(t)
    BY <1>3 DEF ConnectRetain
<1>4. CASE ConnectReturns(t) \/ DisplacedReturns(t)
    BY <1>4 DEF ConnectReturns, DisplacedReturns
<1>5. CASE StoreConnected(t) \/ Crash(t)
    BY <1>5 DEF StoreConnected, Crash
<1>6. QED
    BY <1>1, <1>2, <1>3, <1>4, <1>5 DEF ConnectStep

LEMMA ReportAdvances ==
    ASSUME TypeOK, NEW w \in Workers, Report(w) PROVE Advance
BY ConstantsAssumption
   DEF Report, Advance, TypeOK, Threads, Goto, query, flags, published, uiThread,
       frame

(* So is querying, until the result is there. *)
LEMMA QueryAdvances ==
    ASSUME TypeOK, NEW q \in QueryThreads,
           \/ QueryReceiver(q) \/ QueryRetain(q) \/ QueryFails(q)
           \/ QueryAnswered(q) \/ FetchRows(q)
    PROVE  Advance
BY DEF QueryReceiver, QueryRetain, QueryFails, OnError, QueryAnswered, KeepClient,
       FetchRows, Advance, Early, ConnectPlaces, QueryPlaces, TypeOK, Threads, At,
       Goto, query, flags, published, shared, uiThread, frame, locals

(* Advancing preserves the protocol. *)
LEMMA AdvanceProtocol == ASSUME Protocol, Advance PROVE Protocol'
<1> USE DEF Protocol, Advance, Early, Unpublished, ConnectPlaces, QueryPlaces
<1>1. \A q \in QueryThreads : pc'[q] # "idle" => pc[q] # "idle"
    OBVIOUS
<1>2. LaunchReady' /\ OneQueryThread'
    BY <1>1 DEF LaunchReady, OneQueryThread
<1>3. Running'
    BY <1>1 DEF Running, Answer
<1>4. Launching' /\ Finished' /\ FinishedIsLatest' /\ Copying' /\ ViewIsOneResult'
    BY DEF Launching, Finished, FinishedIsLatest, Copying, ViewIsOneResult
<1>5. QED
    BY <1>2, <1>3, <1>4

(* Publishing a result: no other query thread is there to be disturbed. *)
LEMMA PublishProtocol ==
    ASSUME TypeOK, Protocol, NEW q \in QueryThreads,
           Publish(q) \/ WriteRows(q) \/ ClearProgress(q)
    PROVE  Protocol'
<1>1. \A p \in QueryThreads : pc[p] # "idle" => p = q
    BY DEF Protocol, OneQueryThread, Publish, WriteRows, ClearProgress, At
<1>2. \A p \in QueryThreads : p # q => pc'[p] = "idle"
    BY <1>1 DEF Publish, WriteRows, ClearProgress, Goto, TypeOK, Threads
<1>3. /\ pc[q] # "idle" /\ queryInProgress /\ job[q] = launched
      /\ ui \notin {"Launch", "ClearFinished"}
      /\ queryFinished <=> pc[q] = "ClearProgress"
    BY DEF Protocol, Running, Publish, WriteRows, ClearProgress, At
<1>4. UNCHANGED <<ui, view, launched>>
    BY DEF Publish, WriteRows, ClearProgress, uiThread, frame
<1>5. CASE Publish(q)
    <2>1. pc'[q] = "WriteRows" /\ queryColumns' = Answer(q) /\ Answer(q)' = Answer(q)
        BY <1>5 DEF Publish, Goto, TypeOK, Threads, Answer, locals
    <2>2. UNCHANGED <<queryInProgress, queryFinished, queryRows, job>> /\ ~queryFinished
        BY <1>3, <1>5 DEF Publish, At, flags, locals
    <2>3. QED
        BY <1>2, <1>3, <1>4, <2>1, <2>2
           DEF Protocol, LaunchReady, OneQueryThread, Running, Unpublished,
               QueryPlaces, Launching, Finished, FinishedIsLatest, Copying,
               ViewIsOneResult
<1>6. CASE WriteRows(q)
    <2>1. queryColumns = Answer(q) /\ ~queryFinished
        BY <1>3, <1>6 DEF Protocol, Running, WriteRows, At
    <2>2. /\ pc'[q] = "ClearProgress"
          /\ queryRows' = Answer(q) /\ queryFinished' = TRUE
          /\ UNCHANGED <<queryInProgress, queryColumns, job>>
        BY <1>6 DEF WriteRows, SetFinished, Goto, TypeOK, Threads, locals
    <2>3. Answer(q).query = launched
        BY <1>3 DEF Answer
    <2>4. QED
        BY <1>2, <1>3, <1>4, <2>1, <2>2, <2>3
           DEF Protocol, LaunchReady, OneQueryThread, Running, Launching, Finished,
               FinishedIsLatest, Copying, ViewIsOneResult
<1>7. CASE ClearProgress(q)
    <2>1. /\ pc'[q] = "idle"
          /\ queryInProgress' = FALSE
          /\ UNCHANGED <<queryFinished, queryColumns, queryRows>>
        BY <1>7 DEF ClearProgress, Goto, TypeOK, Threads, published
    <2>2. QED
        BY <1>2, <1>3, <1>4, <2>1
           DEF Protocol, LaunchReady, OneQueryThread, Running, Launching, Finished,
               FinishedIsLatest, Copying, ViewIsOneResult
<1>8. QED
    BY <1>5, <1>6, <1>7

(* The user edits and clicks. *)
LEMMA UserProtocol == ASSUME TypeOK, Protocol, UserStep PROVE Protocol'
<1>1. /\ UNCHANGED <<queryInProgress, queryFinished, queryColumns, queryRows>>
      /\ UNCHANGED <<view, launched, pc, job, got>>
      /\ ui # "CopyRows" /\ ui # "ClearFinished"
    BY DEF UserStep, Edit, ClickConnectAgain, ClickConnect, ClickDisconnect,
           ClickRunDisconnected, ClickRun, RunButton, UiAt, UserAt, UiMove, query, flags,
           published, shared, frame, threads, locals
<1>2. /\ ui' \in {"Form", "Results", "ReleaseClient", "Dispatch", "Launch"}
      /\ ui' = "Launch" => ~queryInProgress /\ launched < MaxQueries
    BY DEF UserStep, Edit, ClickConnectAgain, ClickConnect, AfterConnect,
           ClickDisconnect, ClickRunDisconnected, ClickRun, RunButton, UiAt, UserAt, UiMove
<1>3. QED
    BY <1>1, <1>2
       DEF Protocol, LaunchReady, OneQueryThread, Running, Answer, Launching,
           Finished, FinishedIsLatest, Copying, ViewIsOneResult

(* The UI thread draws the frame and launches queries. *)
LEMMA FrameProtocol == ASSUME TypeOK, Protocol, FrameStep PROVE Protocol'
<1> USE DEF UiAt, UserAt, UiMove, conn, query, flags, published, shared, frame, threads, locals
<1> DEFINE Parts == /\ LaunchReady' /\ OneQueryThread' /\ Running'
                    /\ Launching' /\ Finished' /\ FinishedIsLatest'
                    /\ Copying' /\ ViewIsOneResult'
<1> SUFFICES Parts
    BY DEF Protocol
<1> USE DEF Protocol, LaunchReady, OneQueryThread, Running, Answer, Launching,
            Finished, FinishedIsLatest, Copying, ViewIsOneResult
<1>1. CASE PassButtons \/ PassRun
    BY <1>1 DEF PassButtons, PassRun
<1>2. CASE ReleaseClient \/ ClearConnected
    BY <1>2 DEF ReleaseClient, ClearConnected
<1>3. CASE SayDisconnected
    BY <1>3 DEF SayDisconnected, TypeOK
<1>4. CASE Dispatch
    <2>1. \A q \in QueryThreads : pc'[q] = pc[q]
        BY <1>4, ConstantsAssumption DEF Dispatch, Goto, TypeOK, Threads
    <2>2. QED
        BY <1>4, <2>1 DEF Dispatch
<1>5. CASE EmptyPane
    BY <1>5 DEF EmptyPane
<1>6. CASE OpenPane
    BY <1>6 DEF OpenPane, TypeOK
<1>7. CASE CopyRows
    BY <1>7 DEF CopyRows, TypeOK
<1>8. CASE Launch
    BY <1>8 DEF Launch, TypeOK
<1>9. CASE ClearFinished
    BY <1>9 DEF ClearFinished, ResetFinished, Goto, TypeOK, Threads, Unpublished,
                ConnectPlaces
<1>10. QED
    BY <1>1, <1>2, <1>3, <1>4, <1>5, <1>6, <1>7, <1>8, <1>9 DEF FrameStep

(* Every step preserves the invariant. *)
LEMMA NextIInv == IInv /\ [Next]_vars => IInv'
<1> SUFFICES ASSUME IInv, [Next]_vars PROVE IInv'
    OBVIOUS
<1>0. TypeOK /\ Holding /\ LaunchReady /\ Protocol
    BY DEF IInv, Protocol
<1>1. Holding'
    BY <1>0, NextHolding
<1>2. CASE UNCHANGED vars
    BY <1>0, <1>1, <1>2
       DEF vars, shared, uiThread, threads, conn, query, flags, published, frame,
           locals, IInv, TypeOK, Protocol, LaunchReady, OneQueryThread, Running,
           Answer, Launching, Finished, FinishedIsLatest, Copying, ViewIsOneResult
<1>3. CASE UserStep
    BY <1>0, <1>1, <1>3, UiTypeOK, UserProtocol DEF IInv
<1>4. CASE FrameStep
    BY <1>0, <1>1, <1>4, UiTypeOK, FrameProtocol DEF IInv
<1>5. ASSUME NEW w \in Workers, WorkerThread(w) PROVE IInv'
    <2>1. TypeOK'
        BY <1>0, <1>5, ThreadTypeOK
    <2>2. Advance
        BY <1>0, <1>5, ConnectAdvances, ReportAdvances DEF WorkerThread, Threads
    <2>3. QED
        BY <1>0, <1>1, <2>1, <2>2, AdvanceProtocol DEF IInv
<1>6. ASSUME NEW q \in QueryThreads, QueryThread(q) PROVE IInv'
    <2>1. TypeOK'
        BY <1>0, <1>6, ThreadTypeOK
    <2>2. Advance \/ Publish(q) \/ WriteRows(q) \/ ClearProgress(q)
        BY <1>0, <1>6, ConnectAdvances, QueryAdvances
           DEF QueryThread, QueryStep, Threads
    <2>3. Protocol'
        BY <1>0, <2>2, AdvanceProtocol, PublishProtocol
    <2>4. QED
        BY <1>1, <2>1, <2>3 DEF IInv
<1>7. QED
    BY <1>2, <1>3, <1>4, <1>5, <1>6 DEF Next, SystemStep

(* The invariant holds in every reachable state. *)
THEOREM Invariance == Spec => []IInv
BY InitIInv, NextIInv, PTL DEF Spec

(* Every variable keeps its type. *)
THEOREM TypesHold == Spec => []TypeOK
BY Invariance, PTL DEF IInv

(* There is never a second query thread. *)
THEOREM OneQueryThreadHolds == Spec => []OneQueryThread
<1>1. IInv => OneQueryThread
    BY DEF IInv, Protocol
<1>2. QED
    BY <1>1, Invariance, PTL

(* A finished result answers the latest query, in one piece. *)
THEOREM FinishedIsLatestHolds == Spec => []FinishedIsLatest
<1>1. IInv => FinishedIsLatest
    BY DEF IInv, Protocol
<1>2. QED
    BY <1>1, Invariance, PTL

(* The table on display has columns and rows of one result. *)
THEOREM ViewIsOneResultHolds == Spec => []ViewIsOneResult
<1>1. IInv => ViewIsOneResult
    BY DEF IInv, Protocol
<1>2. QED
    BY <1>1, Invariance, PTL

-----------------------------------------------------------------------------
(* Steps.                                                                  *)

(* The published result changes only while QueryFinished is FALSE or just  *)
(* before it is cleared: no step that keeps the flag set touches it.       *)
LEMMA StepStable ==
    ASSUME IInv, [Next]_vars, queryFinished, queryFinished'
    PROVE  UNCHANGED <<queryColumns, queryRows>>
<1> USE DEF conn, query, flags, published, shared, uiThread, frame, threads, locals
<1>1. CASE UNCHANGED vars
    BY <1>1 DEF vars
<1>2. CASE UserStep
    BY <1>2 DEF UserStep, Edit, ClickConnectAgain, ClickConnect, ClickDisconnect,
                ClickRunDisconnected, ClickRun, UiMove
<1>3. CASE FrameStep
    BY <1>3 DEF FrameStep, PassButtons, EmptyPane, OpenPane, CopyRows, PassRun,
                ReleaseClient, ClearConnected, SayDisconnected, Dispatch, Launch,
                ClearFinished, UiMove
<1>4. ASSUME NEW t \in Threads, ConnectStep(t) PROVE UNCHANGED <<queryColumns, queryRows>>
    BY <1>4, ConnectAdvances DEF IInv, Advance
<1>5. ASSUME NEW w \in Workers, Report(w) PROVE UNCHANGED <<queryColumns, queryRows>>
    BY <1>5, ReportAdvances DEF IInv, Advance
<1>6. ASSUME NEW q \in QueryThreads, QueryStep(q)
      PROVE  UNCHANGED <<queryColumns, queryRows>>
    <2>1. pc[q] \notin {"Publish", "WriteRows"}
        BY DEF IInv, Protocol, Running
    <2>2. QED
        BY <1>6, <2>1, QueryAdvances
           DEF IInv, Advance, QueryStep, Publish, WriteRows, At, ClearProgress
<1>7. QED
    BY <1>1, <1>2, <1>3, <1>4, <1>5, <1>6
       DEF Next, SystemStep, WorkerThread, QueryThread, Threads

(* A published result stays as it is until the next launch. *)
THEOREM ResultStableHolds == Spec => ResultStable
<1>1. IInv /\ [Next]_vars =>
        [queryFinished /\ queryFinished' => UNCHANGED <<queryColumns, queryRows>>]_vars
    BY StepStable
<1>2. QED
    BY <1>1, Invariance, PTL DEF Spec, ResultStable

-----------------------------------------------------------------------------
(* Refinement.                                                             *)

(* What the console's user sees does not change. *)
Stutter == UNCHANGED <<queryInProgress, launched, queryFinished, queryRows, view>>

(* The initial state is one of the console's. *)
LEMMA InitImplements == Init => Console!Init
<1> SUFFICES ASSUME Init PROVE Console!Init
    OBVIOUS
<1>1. view.rows = NoResult /\ NoResult.query = 0
    BY DEF Init, NoResult
<1>2. QED
    BY <1>1 DEF Init, InitFlags, Console!Init

(* A stuttering step is one of the console's. *)
LEMMA StutterImplements == Stutter => [Console!Next]_(Console!vars)
BY DEF Stutter, Console!vars

(* A step of the UI thread is a Launch, a Withdraw, a Draw or a stutter. *)
LEMMA UiImplements ==
    ASSUME IInv, UserStep \/ FrameStep PROVE [Console!Next]_(Console!vars)
<1> USE DEF conn, query, flags, published, shared, uiThread, frame, threads, locals,
            UiAt, UserAt, UiMove
<1>0. queryFinished \in BOOLEAN /\ launched \in Nat /\ queryRows.query \in Nat
    BY ConstantsAssumption DEF IInv, TypeOK, Results
<1>1. CASE UserStep
    BY <1>1, StutterImplements
       DEF Stutter, UserStep, Edit, ClickConnectAgain, ClickConnect,
           ClickDisconnect, ClickRunDisconnected, ClickRun
<1>2. CASE PassButtons \/ PassRun \/ ReleaseClient \/ ClearConnected
           \/ SayDisconnected \/ Dispatch
    BY <1>2, StutterImplements
       DEF Stutter, PassButtons, PassRun, ReleaseClient, ClearConnected,
           SayDisconnected, Dispatch
<1>3. CASE EmptyPane
    <2>1. view'.rows.query = 0 /\ ~queryFinished
        BY <1>3 DEF EmptyPane, NoResult
    <2>2. Console!Draw
        BY <1>3, <2>1 DEF EmptyPane, Console!Draw
    <2>3. QED
        BY <2>2 DEF Console!Next
<1>4. CASE OpenPane
    <2>1. view'.rows = view.rows
        BY <1>4 DEF OpenPane, IInv, TypeOK
    <2>2. QED
        BY <1>4, <2>1 DEF OpenPane, Console!vars
<1>5. CASE CopyRows
    <2>1. queryFinished /\ view'.rows = queryRows
        BY <1>5 DEF CopyRows, IInv, TypeOK, Protocol, Copying
    <2>2. Console!Draw
        BY <1>5, <2>1 DEF CopyRows, Console!Draw
    <2>3. QED
        BY <2>2 DEF Console!Next
<1>6. CASE Launch
    <2>1. ~queryInProgress
        BY <1>6 DEF Launch, IInv, Protocol, LaunchReady
    <2>2. Console!Launch
        BY <1>6, <2>1 DEF Launch, Console!Launch
    <2>3. QED
        BY <2>2 DEF Console!Next
<1>7. CASE ClearFinished
    <2>1. queryInProgress /\ (queryFinished => queryRows.query # launched)
        BY <1>7 DEF ClearFinished, IInv, Protocol, Launching
    <2>2. CASE queryFinished
        <3>1. Console!Withdraw
            BY <1>7, <2>1, <2>2 DEF ClearFinished, ResetFinished, Console!Withdraw
        <3>2. QED
            BY <3>1 DEF Console!Next
    <2>3. CASE ~queryFinished
        BY <1>7, <2>3 DEF ClearFinished, ResetFinished, Console!vars
    <2>4. QED
        BY <2>2, <2>3
<1>8. QED
    BY <1>1, <1>2, <1>3, <1>4, <1>5, <1>6, <1>7 DEF FrameStep

(* A step of a query thread that publishes is an Answer, a Finish or a     *)
(* stutter.                                                                *)
LEMMA PublishImplements ==
    ASSUME IInv, NEW q \in QueryThreads,
           Publish(q) \/ WriteRows(q) \/ ClearProgress(q)
    PROVE  [Console!Next]_(Console!vars)
<1>1. /\ queryInProgress /\ job[q] = launched
      /\ ui \notin {"Launch", "ClearFinished"}
      /\ queryFinished <=> pc[q] = "ClearProgress"
    BY DEF IInv, Protocol, Running, Publish, WriteRows, ClearProgress, At
<1>2. CASE Publish(q)
    <2>1. ~queryFinished
        BY <1>1, <1>2 DEF Publish, At
    <2>2. QED
        BY <1>2, <2>1, StutterImplements DEF Stutter, Publish, flags, uiThread, frame
<1>3. CASE WriteRows(q)
    <2>1. ~queryFinished
        BY <1>1, <1>3 DEF WriteRows, At
    <2>2. queryRows'.query = launched /\ queryFinished'
        BY <1>1, <1>3 DEF WriteRows, SetFinished, Answer
    <2>3. Console!Answer
        BY <1>1, <1>3, <2>1, <2>2 DEF WriteRows, Console!Answer, uiThread, frame
    <2>4. QED
        BY <2>3 DEF Console!Next
<1>4. CASE ClearProgress(q)
    <2>1. queryFinished
        BY <1>1, <1>4 DEF ClearProgress, At
    <2>2. queryRows.query = launched
        BY <1>1, <2>1 DEF IInv, Protocol, FinishedIsLatest
    <2>3. Console!Finish
        BY <1>1, <1>4, <2>1, <2>2
           DEF ClearProgress, Console!Finish, published, uiThread, frame
    <2>4. QED
        BY <2>3 DEF Console!Next
<1>5. QED
    BY <1>2, <1>3, <1>4

(* Every step of the manager is a step of the console or a stutter. *)
LEMMA NextImplements == IInv /\ [Next]_vars => [Console!Next]_(Console!vars)
<1> SUFFICES ASSUME IInv, [Next]_vars PROVE [Console!Next]_(Console!vars)
    OBVIOUS
<1>0. TypeOK
    BY DEF IInv
<1>1. Advance => Stutter
    BY DEF Advance, Stutter
<1>2. CASE UNCHANGED vars
    BY <1>2, StutterImplements
       DEF Stutter, vars, shared, uiThread, query, flags, published, frame
<1>3. CASE UserStep \/ FrameStep
    BY <1>3, UiImplements
<1>4. ASSUME NEW w \in Workers, WorkerThread(w) PROVE [Console!Next]_(Console!vars)
    BY <1>0, <1>1, <1>4, ConnectAdvances, ReportAdvances, StutterImplements
       DEF WorkerThread, Threads
<1>5. ASSUME NEW q \in QueryThreads, QueryThread(q) PROVE [Console!Next]_(Console!vars)
    <2>1. Advance \/ Publish(q) \/ WriteRows(q) \/ ClearProgress(q)
        BY <1>0, <1>5, ConnectAdvances, QueryAdvances
           DEF QueryThread, QueryStep, Threads
    <2>2. QED
        BY <1>1, <2>1, PublishImplements, StutterImplements
<1>6. QED
    BY <1>2, <1>3, <1>4, <1>5 DEF Next, SystemStep

(* DBManager implements the console: for every interleaving, what the user *)
(* sees of running, answered and displayed queries is what QueryConsole    *)
(* allows.                                                                 *)
THEOREM ImplementsConsoleHolds == Spec => ImplementsConsole
BY InitImplements, NextImplements, Invariance, PTL
   DEF Spec, ImplementsConsole, Console!Spec

-----------------------------------------------------------------------------
(* A patient user: one who waits for background work to end before acting. *)
(* Then at most one background thread is at work, and none while the UI    *)
(* thread carries out a click; PatientInv says what each place of that one *)
(* thread knows of the form, the client and its session.                   *)

(* The places at which the UI thread is carrying out a click.              *)
Acts == {"ReleaseClient", "ClearConnected", "SayDisconnected", "Dispatch",
         "Launch", "ClearFinished"}

ActsQuietly == ui \in Acts => Quiet

Solo == \A t, u \in Threads : pc[t] # "idle" /\ pc[u] # "idle" => t = u

(* A worker is dispatched when nothing is connected, a query launched when *)
(* something is.                                                           *)
ActsOnConnection ==
    /\ ui \in {"SayDisconnected", "Dispatch"} => ~isConnected
    /\ ui \in {"Launch", "ClearFinished"} => isConnected

(* A worker connects to the form that is remembered, on the one client.    *)
WorkerKnows(w) ==
    /\ status = "Connecting" /\ form = old
    /\ pc[w] \in {"Report"} \cup (ConnectPlaces \ {"Displaced"})
    /\ pc[w] # "Report" => ~isConnected
    /\ pc[w] \notin {"ReadForm", "Report"} => cred[w] = old
    /\ pc[w] = "ConnectReceiver" => client # Nil
    /\ pc[w] \in {"ConnectRetain", "Connecting"} => client # Nil /\ holds[w] = client
    /\ pc[w] = "StoreConnected" /\ ok[w] => client # Nil /\ session[client] = old
    /\ pc[w] = "Report" => (ok[w] <=> isConnected)

(* A query thread finds the manager connected, and reads from that client. *)
QueryKnows(q) ==
    /\ isConnected
    /\ pc[q] \in {"ReadForm", "ReadRest", "CheckConnected"} \cup QueryPlaces
    /\ pc[q] \in {"QueryRetain", "Querying", "Fetching"} => holds[q] = client
    /\ got[q] \in {Nil, old}

(* Unless a click or a worker is changing it, the connection is as the     *)
(* status line says.                                                       *)
StatusKnown ==
    ui \notin Acts \ {"Launch", "ClearFinished"} /\ (\A w \in Workers : pc[w] = "idle") =>
        /\ status \in {"Connected", "AlreadyConnected"} => isConnected
        /\ status \in {"", "ConnectError", "Disconnected", "NotConnected"} => ~isConnected

PatientInv ==
    /\ Patient
    /\ TypeOK
    /\ NoCrash
    /\ ActsQuietly
    /\ Solo
    /\ ActsOnConnection
    /\ ConnectedToOld
    /\ \A w \in Workers : pc[w] # "idle" => WorkerKnows(w)
    /\ \A q \in QueryThreads : IF pc[q] = "idle" THEN got[q] = Nil ELSE QueryKnows(q)
    /\ StatusKnown

-----------------------------------------------------------------------------
(* Nothing is at work in the constructor's state.                          *)
LEMMA InitPatientInv == Patient /\ Init => PatientInv
<1> SUFFICES ASSUME Patient, Init PROVE PatientInv
    OBVIOUS
<1>1. TypeOK
    BY InitIInv DEF IInv
<1>2. QED
    BY <1>1 DEF Init, InitFlags, PatientInv, NoCrash, ActsQuietly, Acts, Solo,
                ActsOnConnection, ConnectedToOld, StatusKnown, Threads

(* A thread at work is alone, and no click is being carried out.           *)
LEMMA Alone ==
    ASSUME PatientInv, NEW t \in Threads, pc[t] # "idle"
    PROVE  /\ \A u \in Threads : u # t => pc[u] = "idle"
           /\ ui \notin Acts
BY DEF PatientInv, Solo, ActsQuietly, Quiet

(* What every step of a background thread leaves as it is.                 *)
StepsAlone(t) ==
    /\ UNCHANGED <<form, ui, old>>
    /\ \A u \in Threads : u # t => pc'[u] = "idle" /\ got'[u] = got[u]

(* It is enough to look at the thread itself.                              *)
LEMMA AloneKeeps ==
    ASSUME PatientInv, TypeOK', NEW t \in Threads, pc[t] # "idle", StepsAlone(t),
           ~crashed', ConnectedToOld', StatusKnown',
           t \in Workers /\ pc'[t] # "idle" => WorkerKnows(t)',
           t \in QueryThreads => IF pc'[t] = "idle" THEN got'[t] = Nil ELSE QueryKnows(t)'
    PROVE  PatientInv'
<1>1. (\A u \in Threads : u # t => pc[u] = "idle") /\ ui \notin Acts
    BY Alone
<1>2. ActsQuietly' /\ ActsOnConnection' /\ Solo'
    BY <1>1 DEF StepsAlone, ActsQuietly, ActsOnConnection, Solo, Acts
<1>3. \A w \in Workers : pc'[w] # "idle" => WorkerKnows(w)'
    BY DEF StepsAlone, Threads
<1>4. \A q \in QueryThreads :
        IF pc'[q] = "idle" THEN got'[q] = Nil ELSE QueryKnows(q)'
    BY <1>1 DEF StepsAlone, Threads, PatientInv
<1>5. QED
    BY <1>2, <1>3, <1>4 DEF PatientInv, NoCrash

-----------------------------------------------------------------------------
(* The user acts when nothing is at work.                                  *)
LEMMA UserKeeps == ASSUME PatientInv, TypeOK', UserStep PROVE PatientInv'
<1> USE DEF PatientInv, UiAt, UserAt, UiMove, conn, query, shared, frame, threads, locals
<1>1. /\ Quiet /\ ui \in {"Form", "Run"}
      /\ UNCHANGED <<client, session, isConnected, old, pc, got, crashed>>
      /\ Quiet'
    BY DEF UserStep, Edit, ClickConnectAgain, ClickConnect, ClickDisconnect,
           ClickRunDisconnected, ClickRun, RunButton, Quiet
<1>2. NoCrash' /\ ActsQuietly' /\ Solo'
    BY <1>1 DEF NoCrash, ActsQuietly, Solo, Quiet
<1>3. ConnectedToOld'
    BY <1>1 DEF ConnectedToOld
<1>4. /\ ui' \notin {"ClearConnected", "SayDisconnected", "ClearFinished"}
      /\ ui' = "Dispatch" => ~isConnected
      /\ ui' = "Launch" => isConnected
    BY DEF UserStep, Edit, ClickConnectAgain, ClickConnect, AfterConnect,
           ClickDisconnect, ClickRunDisconnected, ClickRun, RunButton
<1>5. ActsOnConnection'
    BY <1>1, <1>4 DEF ActsOnConnection
<1>6. \/ status' = status
      \/ status' = "AlreadyConnected" /\ isConnected
      \/ status' = "NotConnected" /\ ~isConnected
    BY DEF UserStep, Edit, ClickConnectAgain, ClickConnect, ClickDisconnect,
           ClickRunDisconnected, ClickRun, RunButton
<1>7. StatusKnown'
    <2>1. /\ status \in {"Connected", "AlreadyConnected"} => isConnected
          /\ status \in {"", "ConnectError", "Disconnected", "NotConnected"} => ~isConnected
        BY <1>1 DEF StatusKnown, Acts, Quiet, Threads
    <2>2. QED
        BY <1>1, <1>6, <2>1 DEF StatusKnown
<1>8. /\ \A w \in Workers : pc'[w] = "idle"
      /\ \A q \in QueryThreads : pc'[q] = "idle" /\ got'[q] = Nil
    BY <1>1 DEF Quiet, Threads
<1>9. QED
    BY <1>2, <1>3, <1>5, <1>7, <1>8

(* The frame draws, and carries out the clicks.                            *)
LEMMA FrameKeeps == ASSUME PatientInv, TypeOK', FrameStep PROVE PatientInv'
<1> USE DEF PatientInv, UiAt, UiMove, conn, flags, published, query, shared, frame,
            threads, locals
<1>1. ASSUME PassButtons \/ EmptyPane \/ OpenPane \/ CopyRows \/ PassRun
      PROVE  PatientInv'
    <2>1. /\ ui \notin Acts /\ ui' \notin Acts
          /\ UNCHANGED <<form, client, session, isConnected, status, old, pc, cred,
                         holds, ok, got, crashed>>
        BY <1>1 DEF PassButtons, EmptyPane, OpenPane, CopyRows, PassRun, Acts
    <2>2. ActsQuietly' /\ ActsOnConnection' /\ ConnectedToOld' /\ StatusKnown'
        BY <2>1 DEF ActsQuietly, ActsOnConnection, ConnectedToOld, StatusKnown, Acts
    <2>3. NoCrash' /\ Solo'
        BY <2>1 DEF NoCrash, Solo
    <2>4. QED
        BY <2>1, <2>2, <2>3 DEF WorkerKnows, QueryKnows
<1>2. ASSUME ReleaseClient \/ ClearConnected \/ SayDisconnected \/ Launch
      PROVE  PatientInv'
    <2>1. /\ Quiet /\ Quiet'
          /\ UNCHANGED <<old, pc, got, crashed>>
        BY <1>2 DEF ActsQuietly, Acts, Quiet, ReleaseClient, ClearConnected,
                    SayDisconnected, Launch
    <2>2. NoCrash' /\ ActsQuietly' /\ Solo'
        BY <2>1 DEF NoCrash, ActsQuietly, Solo, Quiet
    <2>3. ActsOnConnection' /\ ConnectedToOld' /\ StatusKnown'
        <3>1. CASE ReleaseClient
            BY <3>1 DEF ReleaseClient, ActsOnConnection, ConnectedToOld, StatusKnown, Acts
        <3>2. CASE ClearConnected
            BY <3>2 DEF ClearConnected, ActsOnConnection, ConnectedToOld, StatusKnown, Acts
        <3>3. CASE SayDisconnected
            BY <3>3 DEF SayDisconnected, TypeOK, ActsOnConnection, ConnectedToOld,
                        StatusKnown, Acts
        <3>4. CASE Launch
            BY <2>1, <3>4 DEF Launch, ActsOnConnection, ConnectedToOld, StatusKnown, Acts
        <3>5. QED
            BY <1>2, <3>1, <3>2, <3>3, <3>4
    <2>4. /\ \A w \in Workers : pc'[w] = "idle"
          /\ \A q \in QueryThreads : pc'[q] = "idle" /\ got'[q] = Nil
        BY <2>1 DEF Quiet, Threads
    <2>5. QED
        BY <2>2, <2>3, <2>4
<1>3. ASSUME Dispatch PROVE PatientInv'
    <2>1. Quiet /\ ~isConnected
        BY <1>3 DEF Dispatch, ActsQuietly, ActsOnConnection, Acts
    <2>2. PICK w \in Workers : Goto(w, "ReadForm")
        BY <1>3 DEF Dispatch
    <2>3. /\ pc'[w] = "ReadForm" /\ \A t \in Threads : t # w => pc'[t] = "idle"
          /\ ui' = "Results" /\ status' = "Connecting" /\ old' = form
          /\ UNCHANGED <<form, client, session, isConnected, got, crashed>>
        BY <1>3, <2>1, <2>2 DEF Dispatch, Remember, Goto, Quiet, TypeOK, Threads
    <2>4. NoCrash' /\ ActsQuietly' /\ ActsOnConnection' /\ ConnectedToOld' /\ StatusKnown'
        BY <2>1, <2>3
           DEF NoCrash, ActsQuietly, ActsOnConnection, ConnectedToOld, StatusKnown, Acts
    <2>5. Solo'
        BY <2>3 DEF Solo
    <2>6. \A v \in Workers : pc'[v] # "idle" => WorkerKnows(v)'
        <3>1. WorkerKnows(w)'
            BY <2>1, <2>3 DEF WorkerKnows, ConnectPlaces
        <3>2. QED
            BY <2>3, <3>1 DEF Threads
    <2>7. \A q \in QueryThreads : pc'[q] = "idle" /\ got'[q] = Nil
        BY <2>1, <2>3, ConstantsAssumption DEF Quiet, Threads
    <2>8. QED
        BY <2>4, <2>5, <2>6, <2>7
<1>4. ASSUME ClearFinished PROVE PatientInv'
    <2>1. Quiet /\ isConnected /\ ui = "ClearFinished"
        BY <1>4 DEF ClearFinished, ActsQuietly, ActsOnConnection, Acts
    <2>2. PICK q \in QueryThreads : Goto(q, "ReadForm")
        BY <1>4 DEF ClearFinished
    <2>3. /\ pc'[q] = "ReadForm" /\ \A t \in Threads : t # q => pc'[t] = "idle"
          /\ ui' = "Form"
          /\ UNCHANGED <<client, session, isConnected, old, status, got, crashed>>
        BY <1>4, <2>1, <2>2 DEF ClearFinished, Goto, Quiet, TypeOK, Threads
    <2>4. NoCrash' /\ ActsQuietly' /\ ActsOnConnection' /\ ConnectedToOld'
        BY <2>1, <2>3
           DEF NoCrash, ActsQuietly, ActsOnConnection, ConnectedToOld, Acts
    <2>5. StatusKnown' /\ Solo'
        BY <2>1, <2>3 DEF StatusKnown, Acts, Quiet, Threads, Solo
    <2>6. \A w \in Workers : pc'[w] = "idle"
        BY <2>3, ConstantsAssumption DEF Threads
    <2>7. \A p \in QueryThreads : IF pc'[p] = "idle" THEN got'[p] = Nil ELSE QueryKnows(p)'
        <3>1. \A p \in QueryThreads : got'[p] = Nil
            BY <2>1, <2>3 DEF Quiet, Threads
        <3>2. QueryKnows(q)'
            BY <2>1, <2>3, <3>1 DEF QueryKnows, QueryPlaces
        <3>3. QED
            BY <2>3, <3>1, <3>2 DEF Threads
    <2>8. QED
        BY <2>4, <2>5, <2>6, <2>7
<1>5. QED
    BY <1>1, <1>2, <1>3, <1>4 DEF FrameStep

-----------------------------------------------------------------------------
(* A worker connects, alone.                                               *)
LEMMA WorkerKeeps ==
    ASSUME PatientInv, TypeOK', NEW w \in Workers, WorkerThread(w)
    PROVE  PatientInv'
<1> USE DEF At, Goto, Forget, conn, query, frame, shared, uiThread, threads, locals
<1>0. w \in Threads /\ w \notin QueryThreads /\ Patient /\ ~crashed /\ TypeOK
    BY ConstantsAssumption DEF Threads, PatientInv, NoCrash
<1>1. pc[w] # "idle"
    BY DEF WorkerThread, ConnectStep, ReadForm, ReadRest, CheckConnected, CheckClient,
           CreateClient, ConnectReceiver, ConnectRetain, ConnectReturns,
           DisplacedReturns, StoreConnected, Crash, Report
<1>2. /\ \A u \in Threads : u # w => pc[u] = "idle"
      /\ ui \notin Acts /\ WorkerKnows(w)
    BY <1>0, <1>1, Alone DEF PatientInv
<1>3. ASSUME NEW place, pc' = [pc EXCEPT ![w] = place], place # "idle",
             UNCHANGED <<form, ui, old, got, status, crashed>>,
             ~isConnected', WorkerKnows(w)'
      PROVE  PatientInv'
    <2>1. pc'[w] = place /\ \A u \in Threads : u # w => pc'[u] = "idle"
        BY <1>0, <1>2, <1>3 DEF TypeOK
    <2>2. StepsAlone(w)
        BY <1>3, <2>1 DEF StepsAlone
    <2>3. ConnectedToOld' /\ StatusKnown'
        BY <1>0, <1>3, <2>1 DEF ConnectedToOld, StatusKnown
    <2>4. QED
        BY <1>0, <1>1, <1>3, <2>2, <2>3, AloneKeeps
<1>4. CASE pc[w] \notin {"StoreConnected", "Report"}
    <2> USE DEF WorkerKnows, ConnectPlaces
    <2>1. ~isConnected
        BY <1>2, <1>4
    <2>2. CASE ReadForm(w)
        BY <1>0, <1>2, <1>3, <2>1, <2>2 DEF ReadForm, TypeOK
    <2>3. CASE ReadRest(w)
        BY <1>0, <1>2, <1>3, <2>1, <2>3 DEF ReadRest, TypeOK
    <2>4. CASE CheckConnected(w)
        <3>1. pc' = [pc EXCEPT ![w] = "CheckClient"] /\ pc'[w] = "CheckClient"
            BY <1>0, <2>1, <2>4 DEF CheckConnected, TypeOK
        <3>2. cred'[w] = cred[w]
            BY <1>0, <2>1, <2>4 DEF CheckConnected, TypeOK
        <3>3. UNCHANGED <<form, isConnected, status, ui, old, got, crashed>>
            BY <2>4 DEF CheckConnected
        <3>4. WorkerKnows(w)'
            BY <1>2, <2>1, <2>4, <3>1, <3>2, <3>3 DEF CheckConnected
        <3>5. QED
            BY <1>3, <2>1, <3>1, <3>3, <3>4
    <2>5. CASE CheckClient(w)
        BY <1>0, <1>2, <1>3, <2>1, <2>5 DEF CheckClient, TypeOK
    <2>6. CASE CreateClient(w)
        <3>1. pc' = [pc EXCEPT ![w] = "ConnectReceiver"] /\ pc'[w] = "ConnectReceiver"
            BY <1>0, <2>6 DEF CreateClient, TypeOK
        <3>2. client' # Nil
            BY <2>6, ConstantsAssumption DEF CreateClient
        <3>3. UNCHANGED <<form, isConnected, status, ui, old, cred, holds, ok, got, crashed>>
            BY <2>6 DEF CreateClient
        <3>4. WorkerKnows(w)'
            BY <1>2, <2>1, <2>6, <3>1, <3>2, <3>3 DEF CreateClient
        <3>5. QED
            BY <1>3, <2>1, <3>1, <3>3, <3>4
    <2>7. CASE ConnectReceiver(w)
        BY <1>0, <1>2, <1>3, <2>1, <2>7 DEF ConnectReceiver, TypeOK
    <2>8. CASE ConnectRetain(w)
        <3>1. pc' = [pc EXCEPT ![w] = "Connecting"]
            BY <1>0, <1>2, <2>8 DEF ConnectRetain, TypeOK
        <3>2. QED
            BY <1>0, <1>2, <1>3, <2>1, <2>8, <3>1 DEF ConnectRetain, TypeOK
    <2>9. CASE ConnectReturns(w)
        <3>1. PICK accepted, selected \in BOOLEAN :
                /\ ok' = [ok EXCEPT ![w] = accepted /\ selected]
                /\ session' = [session EXCEPT ![holds[w]] = IF accepted THEN cred[w] ELSE @]
            BY <2>9 DEF ConnectReturns
        <3>2. pc[w] = "Connecting" /\ client \in Clients /\ holds[w] = client /\ cred[w] = old
            BY <1>0, <1>2, <2>9 DEF ConnectReturns, TypeOK
        <3>3. ok'[w] => session'[client] = old
            <4>1. ok'[w] => accepted
                BY <1>0, <3>1 DEF TypeOK
            <4>2. accepted => session'[client] = old
                BY <1>0, <3>1, <3>2 DEF TypeOK
            <4>3. QED
                BY <4>1, <4>2
        <3>4. pc' = [pc EXCEPT ![w] = "StoreConnected"] /\ pc'[w] = "StoreConnected"
            BY <1>0, <2>9 DEF ConnectReturns, TypeOK
        <3>5. UNCHANGED <<form, client, isConnected, status, ui, old, cred, got, crashed>>
            BY <2>9 DEF ConnectReturns
        <3>6. client # Nil
            BY <1>2, <3>2
        <3>7. WorkerKnows(w)'
            BY <1>2, <2>1, <3>2, <3>3, <3>4, <3>5, <3>6
        <3>8. QED
            BY <1>3, <2>1, <3>4, <3>5, <3>7
    <2>10. CASE DisplacedReturns(w)
        BY <1>2, <2>10 DEF DisplacedReturns
    <2>11. CASE Crash(w)
        <3>1. pc[w] = "ConnectRetain" /\ ~Alive(holds[w]) /\ holds[w] = client
            BY <1>2, <2>11 DEF Crash
        <3>2. QED
            BY <3>1 DEF Alive
    <2>12. QED
        BY <1>4, <2>2, <2>3, <2>4, <2>5, <2>6, <2>7, <2>8, <2>9, <2>10, <2>11
           DEF WorkerThread, ConnectStep, StoreConnected, Report
<1>5. CASE StoreConnected(w)
    <2>1. /\ pc'[w] = "Report" /\ \A u \in Threads : u # w => pc'[u] = "idle"
          /\ isConnected' = ok[w] /\ ok'[w] = ok[w]
          /\ UNCHANGED <<form, client, session, status, ui, old, got, crashed>>
        BY <1>0, <1>2, <1>5 DEF StoreConnected, TypeOK
    <2>2. ok[w] => client # Nil /\ session[client] = old
        BY <1>2, <1>5 DEF StoreConnected, WorkerKnows
    <2>3. StepsAlone(w) /\ ConnectedToOld' /\ WorkerKnows(w)'
        BY <1>2, <2>1, <2>2 DEF StepsAlone, ConnectedToOld, WorkerKnows
    <2>4. StatusKnown'
        BY <2>1 DEF StatusKnown
    <2>5. QED
        BY <1>0, <1>1, <2>1, <2>3, <2>4, AloneKeeps
<1>6. CASE Report(w)
    <2>1. /\ \A u \in Threads : pc'[u] = "idle"
          /\ status' = IF ok[w] THEN "Connected" ELSE "ConnectError"
          /\ UNCHANGED <<form, client, session, isConnected, ui, old, got, crashed>>
        BY <1>0, <1>2, <1>6 DEF Report, Verdict, TypeOK
    <2>2. ok[w] <=> isConnected
        BY <1>2, <1>6 DEF Report, WorkerKnows
    <2>3. StepsAlone(w) /\ ConnectedToOld'
        BY <2>1 DEF StepsAlone, ConnectedToOld, PatientInv
    <2>4. StatusKnown'
        BY <2>1, <2>2 DEF StatusKnown
    <2>5. QED
        BY <1>0, <1>1, <2>1, <2>3, <2>4, AloneKeeps
<1>7. CASE pc[w] = "StoreConnected"
    BY <1>5, <1>7
       DEF WorkerThread, ConnectStep, ReadForm, ReadRest, CheckConnected, CheckClient,
           CreateClient, ConnectReceiver, ConnectRetain, ConnectReturns,
           DisplacedReturns, Crash, Report
<1>8. CASE pc[w] = "Report"
    BY <1>6, <1>8
       DEF WorkerThread, ConnectStep, ReadForm, ReadRest, CheckConnected, CheckClient,
           CreateClient, ConnectReceiver, ConnectRetain, ConnectReturns,
           DisplacedReturns, Crash, StoreConnected
<1>9. QED
    BY <1>4, <1>7, <1>8

(* A query thread queries, alone, on a connection that exists.             *)
LEMMA QueryKeeps ==
    ASSUME PatientInv, TypeOK', NEW q \in QueryThreads, QueryThread(q)
    PROVE  PatientInv'
<1> USE DEF At, Goto, Forget, conn, flags, published, query, frame, shared, uiThread,
            threads, locals
<1>0. q \in Threads /\ q \notin Workers /\ Patient /\ ~crashed /\ TypeOK
    BY ConstantsAssumption DEF Threads, PatientInv, NoCrash
<1>1. pc[q] # "idle"
    BY DEF QueryThread, ConnectStep, QueryStep, ReadForm, ReadRest, CheckConnected,
           CheckClient, CreateClient, ConnectReceiver, ConnectRetain, ConnectReturns,
           DisplacedReturns, StoreConnected, Crash, QueryReceiver, QueryRetain,
           QueryFails, QueryAnswered, FetchRows, Publish, WriteRows, ClearProgress
<1>2. /\ \A u \in Threads : u # q => pc[u] = "idle"
      /\ ui \notin Acts /\ QueryKnows(q)
    BY <1>0, <1>1, Alone DEF PatientInv
<1>3. client \in Clients /\ client # Nil /\ session[client] = old /\ isConnected
    BY <1>0, <1>2 DEF PatientInv, ConnectedToOld, QueryKnows, Acts, TypeOK
<1>4. ASSUME NEW place, pc' = [pc EXCEPT ![q] = place],
             UNCHANGED <<form, client, session, isConnected, status, ui, old, crashed>>,
             \A u \in Threads : u # q => got'[u] = got[u],
             IF place = "idle" THEN got'[q] = Nil ELSE QueryKnows(q)'
      PROVE  PatientInv'
    <2>1. pc'[q] = place /\ \A u \in Threads : u # q => pc'[u] = "idle"
        BY <1>0, <1>2, <1>4 DEF TypeOK
    <2>2. StepsAlone(q)
        BY <1>4, <2>1 DEF StepsAlone
    <2>3. ConnectedToOld'
        BY <1>4 DEF ConnectedToOld, PatientInv
    <2>4. \A w \in Workers : pc[w] = "idle"
        BY <1>0, <1>2 DEF Threads
    <2>5. StatusKnown'
        BY <1>2, <1>4, <2>4 DEF StatusKnown, PatientInv
    <2>6. QED
        BY <1>0, <1>1, <1>4, <2>1, <2>2, <2>3, <2>5, AloneKeeps
<1>5. CASE ConnectStep(q)
    <2> USE DEF QueryKnows, QueryPlaces
    <2>1. CASE ReadForm(q)
        BY <1>0, <1>2, <1>4, <2>1 DEF ReadForm, TypeOK
    <2>2. CASE ReadRest(q)
        BY <1>0, <1>2, <1>4, <2>2 DEF ReadRest, TypeOK
    <2>3. CASE CheckConnected(q)
        BY <1>0, <1>2, <1>3, <1>4, <2>3 DEF CheckConnected, TypeOK
    <2>4. CASE Crash(q)
        <3>1. \A u \in Threads \ {q} : pc[u] # "Connecting"
            BY <1>2
        <3>2. Alive(holds[q])
            BY <1>2, <2>4, <3>1 DEF Crash, Alive, ConnectingOn
        <3>3. QED
            BY <1>2, <2>4, <3>1, <3>2 DEF Crash, ConnectingOn
    <2>5. QED
        BY <1>2, <1>5, <2>1, <2>2, <2>3, <2>4
           DEF ConnectStep, CheckClient, CreateClient, ConnectReceiver, ConnectRetain,
               ConnectReturns, DisplacedReturns, StoreConnected
<1>6. CASE QueryStep(q)
    <2> USE DEF QueryKnows, QueryPlaces
    <2>1. CASE QueryReceiver(q)
        BY <1>0, <1>2, <1>3, <1>4, <2>1 DEF QueryReceiver, TypeOK
    <2>2. CASE QueryRetain(q)
        BY <1>0, <1>2, <1>4, <2>2 DEF QueryRetain, TypeOK
    <2>3. CASE QueryFails(q)
        BY <1>0, <1>2, <1>4, <2>3 DEF QueryFails, OnError, TypeOK
    <2>4. CASE QueryAnswered(q)
        <3>1. got'[q] = old /\ \A u \in Threads : u # q => got'[u] = got[u]
            BY <1>0, <1>2, <1>3, <2>4 DEF QueryAnswered, TypeOK
        <3>2. QED
            BY <1>0, <1>2, <1>4, <2>4, <3>1 DEF QueryAnswered, KeepClient, TypeOK
    <2>5. CASE FetchRows(q)
        BY <1>0, <1>2, <1>4, <2>5 DEF FetchRows, TypeOK
    <2>6. CASE Publish(q) \/ WriteRows(q)
        BY <1>0, <1>2, <1>4, <2>6 DEF Publish, WriteRows, TypeOK
    <2>7. CASE ClearProgress(q)
        BY <1>0, <1>2, <1>4, <2>7 DEF ClearProgress, TypeOK
    <2>8. QED
        BY <1>6, <2>1, <2>2, <2>3, <2>4, <2>5, <2>6, <2>7 DEF QueryStep
<1>7. QED
    BY <1>5, <1>6 DEF QueryThread

-----------------------------------------------------------------------------
(* Every step preserves the invariant; the types are DBManagerProofs's.    *)
LEMMA NextPatientInv == PatientInv /\ TypeOK' /\ [Next]_vars => PatientInv'
<1> SUFFICES ASSUME PatientInv, TypeOK', [Next]_vars PROVE PatientInv'
    OBVIOUS
<1>1. CASE UNCHANGED vars
    BY <1>1 DEF vars, shared, uiThread, threads, conn, frame, locals, PatientInv, NoCrash,
                ActsQuietly, Quiet, Solo, ActsOnConnection, ConnectedToOld, WorkerKnows,
                QueryKnows, StatusKnown
<1>2. QED
    BY <1>1, UserKeeps, FrameKeeps, WorkerKeeps, QueryKeeps DEF Next, SystemStep

(* The invariant of a patient user holds in every reachable state.         *)
THEOREM PatientInvariance == Patient /\ Spec => []PatientInv
BY InitPatientInv, NextPatientInv, TypesHold, PTL DEF Spec

(* No object is used after its last release, no handle by two threads.     *)
THEOREM NoCrashHolds == Patient /\ Spec => []NoCrash
<1>1. PatientInv => NoCrash
    BY DEF PatientInv
<1>2. QED
    BY <1>1, PatientInvariance, PTL

(* Connected means a live client, logged in to the form remembered.        *)
THEOREM ConnectedToOldHolds == Patient /\ Spec => []ConnectedToOld
<1>1. PatientInv => ConnectedToOld
    BY DEF PatientInv
<1>2. QED
    BY <1>1, PatientInvariance, PTL

(* While nothing is going on, the status line tells the truth.             *)
THEOREM StatusTellsHolds == Patient /\ Spec => []StatusTells
<1>1. PatientInv => StatusTells
    BY DEF PatientInv, StatusKnown, StatusTells, Quiet, Threads, Acts
<1>2. QED
    BY <1>1, PatientInvariance, PTL

(* The rows on show come from the server the user connected to.            *)
THEOREM RowsFromOldHolds == Patient /\ Spec => RowsFromOld
<1>1. PatientInv /\ [Next]_vars =>
        [queryRows' # queryRows /\ queryRows'.from # Nil => queryRows'.from = old]_vars
    <2> SUFFICES ASSUME PatientInv, [Next]_vars, queryRows' # queryRows,
                        queryRows'.from # Nil
                 PROVE  queryRows'.from = old
        OBVIOUS
    <2>0. TypeOK
        BY DEF PatientInv
    <2>1. ~Advance
        BY DEF Advance
    <2>2. PICK q \in QueryThreads : WriteRows(q)
        <3>1. ~UNCHANGED vars
            BY DEF vars, shared, query, published
        <3>2. ~UserStep
            BY DEF UserStep, Edit, ClickConnectAgain, ClickConnect, ClickDisconnect,
                   ClickRunDisconnected, ClickRun, UiMove, shared, query, published
        <3>3. ~FrameStep
            BY DEF FrameStep, PassButtons, EmptyPane, OpenPane, CopyRows, PassRun,
                   ReleaseClient, ClearConnected, SayDisconnected, Dispatch, Launch,
                   ClearFinished, UiMove, shared, query, published
        <3>4. ASSUME NEW w \in Workers PROVE ~WorkerThread(w)
            BY <2>0, <2>1, ConnectAdvances, ReportAdvances DEF WorkerThread, Threads
        <3>5. ASSUME NEW q \in QueryThreads, QueryThread(q) PROVE WriteRows(q)
            BY <2>0, <2>1, <3>5, ConnectAdvances, QueryAdvances
               DEF QueryThread, QueryStep, Threads, Publish, ClearProgress, published
        <3>6. QED
            BY <3>1, <3>2, <3>3, <3>4, <3>5 DEF Next, SystemStep
    <2>3. pc[q] # "idle" /\ queryRows'.from = got[q]
        BY <2>2 DEF WriteRows, At, Answer
    <2>4. QED
        BY <2>3 DEF PatientInv, QueryKnows
<1>2. QED
    BY <1>1, PatientInvariance, PTL DEF Spec, RowsFromOld
=============================================================================
