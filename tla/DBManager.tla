----------------------------- MODULE DBManager ------------------------------
(***************************************************************************)
(* The connection and query manager of the editor (UserWindow/DBManager.h  *)
(* and the parts of DBManager.mm that drive it).                           *)
(*                                                                         *)
(* Three kinds of threads share one DBManager object:                      *)
(*   - the UI thread draws frames; within a frame it lets the user edit    *)
(*     the form, click Connect or Disconnect, copies the query result      *)
(*     under QueryMutex, and lets the user click Run;                      *)
(*   - connect workers are the blocks ConnectToDatabase dispatches to a    *)
(*     global GCD queue;                                                   *)
(*   - query threads are the detached threads of ExecuteSqlQueryAsync.     *)
(* An access to a variable two threads share is a step of its own, except  *)
(* that taking QueryMutex and the first access under it are one step.      *)
(***************************************************************************)
EXTENDS Naturals, FiniteSets

CONSTANTS
    Servers,        \* values of the form fields Connect compares (host, user, database, port)
    Torn,           \* a mixture of two of them
    Workers,        \* identities of connect workers: a bound on concurrent ones
    QueryThreads,   \* identities of query threads
    Clients,        \* identities of MariaDBClient objects, reused once unreachable
    Nil,            \* nil, no owner, no session, an error row
    MaxQueries,     \* bound on the queries launched in a behaviour
    Patient         \* the user waits for background work to end before acting

Threads == Workers \cup QueryThreads
UI == "UI"

(* The constants are distinct kinds of things. *)
ASSUME ConstantsAssumption ==
    /\ Workers \cap QueryThreads = {}
    /\ UI \notin Threads
    /\ Nil \notin Threads \cup Clients \cup Servers \cup {Torn, UI}
    /\ Torn \notin Servers
    /\ MaxQueries \in Nat
    /\ Patient \in BOOLEAN

Credentials == Servers \cup {Torn}

(* A published result: the query it answers and the server whose rows it   *)
(* shows, Nil for the "Error" column with the error text as its one row.   *)
Results == [query: 0 .. MaxQueries, from: Credentials \cup {Nil}]
NoResult == [query |-> 0, from |-> Nil]

VARIABLES
    (* shared between the threads *)
    form,           \* the five InputText buffers, as one value
    client,         \* the strong pointer Client
    session,        \* per client object: the server its handle is logged in to
    isConnected,    \* atomic IsConnected
    queryInProgress,\* atomic QueryInProgress
    queryFinished,  \* atomic QueryFinished
    queryColumns,   \* QueryColumns, as the result it belongs to
    queryRows,      \* QueryRows, as the result it belongs to
    queryMutex,     \* owner of QueryMutex, Nil when it is free
    status,         \* ConnectionStatus
    (* the UI thread *)
    ui,             \* where the UI thread is in its frame
    resume,         \* where it goes after DisconnectFromDatabase
    old,            \* OldHost, OldUsername, OldDatabase and OldPort
    view,           \* the columns and rows of the table on display
    launched,       \* number of queries launched
    (* the background threads *)
    pc,             \* where each is, "idle" when it does not exist
    cred,           \* the credentials it has read
    holds,          \* the client object it has loaded from Client
    ok,             \* the BOOL its connect returned
    job,            \* the number of the query it executes
    got,            \* the server whose rows it has fetched, Nil for an error
    (* the process *)
    crashed         \* a thread has used an object after its last release

conn == <<client, session, isConnected>>
flags == <<queryInProgress, queryFinished>>
published == <<queryColumns, queryRows, queryMutex>>
query == <<flags, published>>
frame == <<resume, old, view, launched>>
locals == <<cred, holds, ok, job, got>>
shared == <<form, conn, query, status>>
uiThread == <<ui, frame>>
threads == <<pc, locals>>
vars == <<shared, uiThread, threads, crashed>>

Statuses == {"", "Connecting", "Connected", "ConnectError", "AlreadyConnected",
             "Disconnected", "NotConnected"}
UiPlaces == {"Form", "Dispatch", "ReleaseClient", "ClearConnected",
             "SayDisconnected", "Results", "CopyRows", "Run", "Launch",
             "ClearFinished"}
ConnectPlaces == {"ReadForm", "ReadRest", "CheckConnected", "CheckClient",
                  "CreateClient", "ConnectReceiver", "ConnectRetain",
                  "Connecting", "Displaced", "StoreConnected"}
QueryPlaces == {"QueryReceiver", "QueryRetain", "Querying", "Fetching",
                "Publish", "WriteRows", "ClearProgress"}
Places == {"idle", "Report"} \cup ConnectPlaces \cup QueryPlaces

-----------------------------------------------------------------------------
(* Mutant of InitFlags: the constructor does not store to QueryInProgress. *)
InitFlagsMissing ==
    queryInProgress = Nil /\ queryFinished = FALSE /\ isConnected = FALSE

(* The constructor: no client, no flags, an empty status. *)
InitFlags ==
    queryInProgress = FALSE /\ queryFinished = FALSE /\ isConnected = FALSE

Init ==
    /\ InitFlags
    /\ form \in Servers
    /\ client = Nil /\ session = [c \in Clients |-> Nil]
    /\ queryColumns = NoResult /\ queryRows = NoResult /\ queryMutex = Nil
    /\ status = ""
    /\ ui = "Form" /\ resume = "Results" /\ old = Nil /\ launched = 0
    /\ view = [columns |-> NoResult, rows |-> NoResult]
    /\ pc = [t \in Threads |-> "idle"]
    /\ cred = [t \in Threads |-> Nil]
    /\ holds = [t \in Threads |-> Nil]
    /\ ok = [t \in Threads |-> FALSE]
    /\ job = [t \in Threads |-> 0]
    /\ got = [t \in Threads |-> Nil]
    /\ crashed = FALSE

-----------------------------------------------------------------------------
(* Object lifetimes.  A thread retains the receiver of a message while the *)
(* call lasts; between loading Client and retaining what it loaded, and    *)
(* while it fetches rows from the client's handle, it keeps nothing alive. *)
Retains(t) == pc[t] \in {"Connecting", "Displaced", "Querying"}
Alive(c) == client = c \/ \E t \in Threads : holds[t] = c /\ Retains(t)
Reachable(c) == client = c \/ \E t \in Threads : holds[t] = c

(* Some other thread is inside mysql_real_connect on the same object. *)
ConnectingOn(c, t) ==
    \E u \in Threads \ {t} : pc[u] = "Connecting" /\ holds[u] = c

(* Where a thread is; a process that has crashed has no threads. *)
UiAt(place) == ~crashed /\ ui = place
At(t, place) == ~crashed /\ pc[t] = place
Goto(t, place) == pc' = [pc EXCEPT ![t] = place]
Forget(t) == holds' = [holds EXCEPT ![t] = Nil]

(* The user may act.  A patient one does so only while no background       *)
(* thread is at work: none has the chance to see a half-made change.       *)
Quiet == \A t \in Threads : pc[t] = "idle"
UserAt(place) == UiAt(place) /\ (Patient => Quiet)

-----------------------------------------------------------------------------
(* The UI thread: one frame is Form -> Results -> Run.  A step that only   *)
(* moves it on, or that writes shared variables alone:                     *)
UiMove(place) == ui' = place /\ UNCHANGED <<frame, threads, crashed>>

(* InputText writes the user's keystrokes into the buffers. *)
Edit ==
    /\ UserAt("Form")
    /\ form' \in Servers \ {form}
    /\ UiMove("Form")
    /\ UNCHANGED <<conn, query, status>>

(* No click on Connect or Disconnect in this frame. *)
PassButtons == UiAt("Form") /\ UiMove("Results") /\ UNCHANGED shared

(* ConnectToDatabase while connected to what the form says. *)
ClickConnectAgain ==
    /\ UserAt("Form")
    /\ isConnected /\ form = old
    /\ status' = "AlreadyConnected"
    /\ UiMove("Results")
    /\ UNCHANGED <<form, conn, query>>

(* Mutant of AfterConnect: no disconnect when the form has changed. *)
AfterConnectDirect == "Dispatch"

(* ConnectToDatabase disconnects first if it is connected elsewhere. *)
AfterConnect == IF isConnected THEN "ReleaseClient" ELSE "Dispatch"

(* A worker must be free: the bound on concurrent workers. *)
ClickConnect ==
    /\ UserAt("Form")
    /\ ~(isConnected /\ form = old)
    /\ \E w \in Workers : pc[w] = "idle"
    /\ ui' = AfterConnect
    /\ resume' = "Dispatch"
    /\ UNCHANGED <<shared, old, view, launched, threads, crashed>>

ClickDisconnect == UserAt("Form") /\ UiMove("ReleaseClient") /\ UNCHANGED shared

(* DisconnectFromDatabase: Client = nil ... *)
ReleaseClient ==
    /\ UiAt("ReleaseClient")
    /\ client' = Nil
    /\ UiMove("ClearConnected")
    /\ UNCHANGED <<form, session, isConnected, query, status>>

(* ... IsConnected.store(false) ... *)
ClearConnected ==
    /\ UiAt("ClearConnected")
    /\ isConnected' = FALSE
    /\ UiMove("SayDisconnected")
    /\ UNCHANGED <<form, client, session, query, status>>

(* ... and the status line. *)
SayDisconnected ==
    /\ UiAt("SayDisconnected")
    /\ status' = "Disconnected"
    /\ ui' = resume
    /\ resume' = "Results"
    /\ UNCHANGED <<form, conn, query, old, view, launched, threads, crashed>>

(* Mutant of Remember: the form is not remembered. *)
RememberNot == old' = old

(* OldHost = HostBuffer, and so on. *)
Remember == old' = form

(* The rest of ConnectToDatabase: remember the form, dispatch a worker. *)
Dispatch ==
    /\ UiAt("Dispatch")
    /\ Remember
    /\ status' = "Connecting"
    /\ \E w \in Workers : pc[w] = "idle" /\ Goto(w, "ReadForm")
    /\ ui' = "Results"
    /\ resume' = "Results"
    /\ UNCHANGED <<form, conn, query, view, launched, locals, crashed>>

(* The result pane is empty until a query has finished ... *)
EmptyPane ==
    /\ UiAt("Results")
    /\ ~queryFinished
    /\ view' = [columns |-> NoResult, rows |-> NoResult]
    /\ ui' = "Run"
    /\ UNCHANGED <<shared, resume, old, launched, threads, crashed>>

(* ... then it takes QueryMutex and copies the columns ... *)
OpenPane ==
    /\ UiAt("Results")
    /\ queryFinished
    /\ queryMutex = Nil
    /\ queryMutex' = UI
    /\ view' = [view EXCEPT !.columns = queryColumns]
    /\ ui' = "CopyRows"
    /\ UNCHANGED <<form, conn, flags, queryColumns, queryRows, status, resume,
                   old, launched, threads, crashed>>

(* ... and the rows, releases the mutex and draws the table. *)
CopyRows ==
    /\ UiAt("CopyRows")
    /\ view' = [view EXCEPT !.rows = queryRows]
    /\ queryMutex' = Nil
    /\ ui' = "Run"
    /\ UNCHANGED <<form, conn, flags, queryColumns, queryRows, status, resume,
                   old, launched, threads, crashed>>

(* The spinner instead of the Run button, or the button without a click. *)
PassRun == UiAt("Run") /\ UiMove("Form") /\ UNCHANGED shared

(* Mutant of RunButton: drawn whether or not a query is in progress. *)
RunButtonAlways == UserAt("Run")

(* The Run button, drawn only when no query is in progress. *)
RunButton == UserAt("Run") /\ ~queryInProgress

ClickRunDisconnected ==
    /\ RunButton
    /\ ~isConnected
    /\ status' = "NotConnected"
    /\ UiMove("Form")
    /\ UNCHANGED <<form, conn, query>>

ClickRun ==
    /\ RunButton
    /\ isConnected
    /\ launched < MaxQueries
    /\ UiMove("Launch")
    /\ UNCHANGED shared

(* ExecuteSqlQueryAsync: QueryInProgress.store(true) ... *)
Launch ==
    /\ UiAt("Launch")
    /\ queryInProgress' = TRUE
    /\ launched' = launched + 1
    /\ ui' = "ClearFinished"
    /\ UNCHANGED <<form, conn, queryFinished, published, status, resume, old,
                   view, threads, crashed>>

(* Mutant of ResetFinished: the flag is left as it is. *)
ResetFinishedNot == queryFinished' = queryFinished

ResetFinished == queryFinished' = FALSE

(* ... QueryFinished.store(false), and the thread is started. *)
ClearFinished ==
    /\ UiAt("ClearFinished")
    /\ ResetFinished
    /\ \E q \in QueryThreads :
        /\ pc[q] = "idle"
        /\ Goto(q, "ReadForm")
        /\ job' = [job EXCEPT ![q] = launched]
    /\ ui' = "Form"
    /\ UNCHANGED <<form, conn, queryInProgress, published, status, frame, cred,
                   holds, ok, got, crashed>>

-----------------------------------------------------------------------------
(* Connecting, as both a worker and a query thread do it.                  *)

(* The buffers are read one after the other, at the time the thread runs:  *)
(* an edit between the first read and the last leaves torn credentials.    *)
ReadForm(t) ==
    /\ At(t, "ReadForm")
    /\ cred' = [cred EXCEPT ![t] = form]
    /\ Goto(t, "ReadRest")
    /\ UNCHANGED <<shared, uiThread, holds, ok, job, got, crashed>>

ReadRest(t) ==
    /\ At(t, "ReadRest")
    /\ cred' = [cred EXCEPT ![t] = IF form = @ THEN @ ELSE Torn]
    /\ Goto(t, "CheckConnected")
    /\ UNCHANGED <<shared, uiThread, holds, ok, job, got, crashed>>

(* When IsConnected is already set a worker has nothing left to do and a   *)
(* query thread goes on to its query.                                      *)
CheckConnected(t) ==
    /\ At(t, "CheckConnected")
    /\ Goto(t, IF ~isConnected THEN "CheckClient"
               ELSE IF t \in Workers THEN "idle" ELSE "QueryReceiver")
    /\ cred' = [cred EXCEPT ![t] = IF isConnected THEN Nil ELSE @]
    /\ UNCHANGED <<shared, uiThread, holds, ok, job, got, crashed>>

CheckClient(t) ==
    /\ At(t, "CheckClient")
    /\ Goto(t, IF client = Nil THEN "CreateClient" ELSE "ConnectReceiver")
    /\ UNCHANGED <<shared, uiThread, locals, crashed>>

(* A new object: its handle is NULL. *)
CreateClient(t) ==
    /\ At(t, "CreateClient")
    /\ \E c \in Clients :
        /\ ~Reachable(c)
        /\ client' = c
        /\ session' = [session EXCEPT ![c] = Nil]
    /\ Goto(t, "ConnectReceiver")
    /\ UNCHANGED <<form, isConnected, query, status, uiThread, locals, crashed>>

(* [Client connect: ...]: the pointer is loaded; a message to nil is NO. *)
ConnectReceiver(t) ==
    /\ At(t, "ConnectReceiver")
    /\ holds' = [holds EXCEPT ![t] = client]
    /\ Goto(t, IF client = Nil THEN "StoreConnected" ELSE "ConnectRetain")
    /\ UNCHANGED <<shared, uiThread, cred, ok, job, got, crashed>>

(* The object is retained and mysql = mysql_init(NULL) gives it a new      *)
(* handle.  A connect already under way on this object goes on with a      *)
(* handle the object no longer knows.                                      *)
ConnectRetain(t) ==
    /\ At(t, "ConnectRetain")
    /\ Alive(holds[t])
    /\ session' = [session EXCEPT ![holds[t]] = Nil]
    /\ pc' = [u \in Threads |->
                IF u = t THEN "Connecting"
                ELSE IF pc[u] = "Connecting" /\ holds[u] = holds[t] THEN "Displaced"
                ELSE pc[u]]
    /\ UNCHANGED <<form, client, isConnected, query, status, uiThread, locals, crashed>>

(* connect returns.  mysql_real_connect is refused, and the handle is not  *)
(* logged in, or it is accepted, and mysql_select_db decides what connect  *)
(* returns with the handle logged in either way.                           *)
ConnectReturns(t) ==
    /\ At(t, "Connecting")
    /\ \E accepted, selected \in BOOLEAN :
        /\ ok' = [ok EXCEPT ![t] = accepted /\ selected]
        /\ session' = [session EXCEPT ![holds[t]] = IF accepted THEN cred[t] ELSE @]
    /\ Forget(t)
    /\ Goto(t, "StoreConnected")
    /\ UNCHANGED <<form, client, isConnected, query, status, uiThread, cred, job,
                   got, crashed>>

(* connect returns on a displaced handle.  If that was accepted,           *)
(* mysql_select_db works on the newer handle: it fails unless that one is  *)
(* logged in, and otherwise moves it to this thread's database.            *)
DisplacedReturns(t) ==
    /\ At(t, "Displaced")
    /\ \E selected \in BOOLEAN :
        LET there == session[holds[t]] IN
        /\ selected => there # Nil
        /\ ok' = [ok EXCEPT ![t] = selected]
        /\ session' = [session EXCEPT
                ![holds[t]] = IF selected /\ @ # cred[t] THEN Torn ELSE @]
    /\ Forget(t)
    /\ Goto(t, "StoreConnected")
    /\ UNCHANGED <<form, client, isConnected, query, status, uiThread, cred, job,
                   got, crashed>>

(* IsConnected.store(Connected). *)
StoreConnected(t) ==
    /\ At(t, "StoreConnected")
    /\ isConnected' = ok[t]
    /\ cred' = [cred EXCEPT ![t] = Nil]
    /\ ok' = [ok EXCEPT ![t] = @ /\ t \in Workers]
    /\ Goto(t, IF t \in Workers THEN "Report" ELSE "QueryReceiver")
    /\ UNCHANGED <<form, client, session, query, status, uiThread, holds, job,
                   got, crashed>>

(* Mutant of Verdict: success is reported whatever connect returned. *)
VerdictSuccess(connected) == "Connected"

Verdict(connected) == IF connected THEN "Connected" ELSE "ConnectError"

(* The worker's last act; a query thread leaves the status line alone. *)
Report(w) ==
    /\ At(w, "Report")
    /\ status' = Verdict(ok[w])
    /\ ok' = [ok EXCEPT ![w] = FALSE]
    /\ Goto(w, "idle")
    /\ UNCHANGED <<form, conn, query, uiThread, cred, holds, job, got, crashed>>

-----------------------------------------------------------------------------
(* The query, after connecting: connected or not, it is sent.              *)

(* [Client executeQuery: ...]: a message to nil gives no result set. *)
QueryReceiver(q) ==
    /\ At(q, "QueryReceiver")
    /\ holds' = [holds EXCEPT ![q] = client]
    /\ Goto(q, IF client = Nil THEN "Publish" ELSE "QueryRetain")
    /\ UNCHANGED <<shared, uiThread, cred, ok, job, got, crashed>>

QueryRetain(q) ==
    /\ At(q, "QueryRetain")
    /\ Alive(holds[q])
    /\ Goto(q, "Querying")
    /\ UNCHANGED <<shared, uiThread, locals, crashed>>

(* Mutant of OnError: the error path returns from the thread at once. *)
OnErrorReturn(q) == Goto(q, "idle")

(* No result set: the error is published as if it were one. *)
OnError(q) == Goto(q, "Publish")

(* mysql_real_query fails: always so on a handle that is not logged in. *)
QueryFails(q) ==
    /\ At(q, "Querying")
    /\ Forget(q)
    /\ OnError(q)
    /\ UNCHANGED <<shared, uiThread, cred, ok, job, got, crashed>>

(* Mutant of KeepClient: the client is dropped before the rows are read. *)
KeepClientNot == client' = Nil /\ UNCHANGED <<session, isConnected>>

(* Client stays where it is while the rows are read. *)
KeepClient == UNCHANGED conn

(* A result set: its rows will be read from the client's handle, which the *)
(* result set does not retain.                                             *)
QueryAnswered(q) ==
    /\ At(q, "Querying")
    /\ session[holds[q]] # Nil
    /\ got' = [got EXCEPT ![q] = session[holds[q]]]
    /\ Goto(q, "Fetching")
    /\ KeepClient
    /\ UNCHANGED <<form, query, status, uiThread, cred, holds, ok, job, crashed>>

(* next: until there are no more rows. *)
FetchRows(q) ==
    /\ At(q, "Fetching")
    /\ Alive(holds[q])
    /\ Forget(q)
    /\ Goto(q, "Publish")
    /\ UNCHANGED <<shared, uiThread, cred, ok, job, got, crashed>>

(* An object is used after its last release (between the load and the      *)
(* retain, or by a result set whose client is gone), or its handle by two  *)
(* threads at once.                                                        *)
Crash(t) ==
    /\ \/ At(t, "ConnectRetain") /\ ~Alive(holds[t])
       \/ At(t, "QueryRetain") /\ ~Alive(holds[t])
       \/ At(t, "Fetching") /\ ~Alive(holds[t])
       \/ At(t, "Displaced") /\ ConnectingOn(holds[t], t)
       \/ At(t, "Querying") /\ ConnectingOn(holds[t], t)
    /\ crashed' = TRUE
    /\ UNCHANGED <<shared, uiThread, threads>>

Answer(q) == [query |-> job[q], from |-> got[q]]

(* Mutant of Publish: QueryInProgress is cleared before publishing. *)
PublishIdle(q) ==
    /\ At(q, "Publish")
    /\ queryMutex = Nil
    /\ queryMutex' = q
    /\ queryColumns' = Answer(q)
    /\ queryInProgress' = FALSE
    /\ Goto(q, "WriteRows")
    /\ UNCHANGED <<form, conn, queryFinished, queryRows, status, uiThread, locals, crashed>>

(* Mutant of Publish: QueryFinished is set before the rows are written. *)
PublishEarly(q) ==
    /\ At(q, "Publish")
    /\ queryMutex = Nil
    /\ queryMutex' = q
    /\ queryColumns' = Answer(q)
    /\ queryFinished' = TRUE
    /\ Goto(q, "WriteRows")
    /\ UNCHANGED <<form, conn, queryInProgress, queryRows, status, uiThread, locals, crashed>>

(* Mutant of Publish: its lock scope ends with the columns, flag included. *)
PublishUnlocked(q) ==
    /\ At(q, "Publish")
    /\ queryMutex = Nil
    /\ queryColumns' = Answer(q)
    /\ queryFinished' = TRUE
    /\ Goto(q, "WriteRows")
    /\ UNCHANGED <<form, conn, queryInProgress, queryMutex, queryRows, status,
                   uiThread, locals, crashed>>

(* Publishing the result: QueryMutex is taken, the columns are written ... *)
Publish(q) ==
    /\ At(q, "Publish")
    /\ queryMutex = Nil
    /\ queryMutex' = q
    /\ queryColumns' = Answer(q)
    /\ Goto(q, "WriteRows")
    /\ UNCHANGED <<form, conn, flags, queryRows, status, uiThread, locals, crashed>>

(* Mutant of SetFinished: QueryFinished is not set. *)
SetFinishedNot == queryFinished' = queryFinished

SetFinished == queryFinished' = TRUE

(* ... then the rows, QueryFinished.store(true), and the lock's scope ends. *)
WriteRows(q) ==
    /\ At(q, "WriteRows")
    /\ queryRows' = Answer(q)
    /\ SetFinished
    /\ queryMutex' = Nil
    /\ Goto(q, "ClearProgress")
    /\ UNCHANGED <<form, conn, queryInProgress, queryColumns, status, uiThread,
                   locals, crashed>>

(* QueryInProgress.store(false), and the thread ends. *)
ClearProgress(q) ==
    /\ At(q, "ClearProgress")
    /\ queryInProgress' = FALSE
    /\ Goto(q, "idle")
    /\ job' = [job EXCEPT ![q] = 0]
    /\ got' = [got EXCEPT ![q] = Nil]
    /\ UNCHANGED <<form, conn, queryFinished, published, status, uiThread, cred,
                   holds, ok, crashed>>

-----------------------------------------------------------------------------
(* What the user may do, what the UI thread does of its own accord, and    *)
(* what a background thread does.                                          *)
UserStep ==
    \/ Edit
    \/ ClickConnectAgain \/ ClickConnect \/ ClickDisconnect
    \/ ClickRunDisconnected \/ ClickRun

FrameStep ==
    \/ PassButtons \/ EmptyPane \/ OpenPane \/ CopyRows \/ PassRun
    \/ ReleaseClient \/ ClearConnected \/ SayDisconnected \/ Dispatch
    \/ Launch \/ ClearFinished

ConnectStep(t) ==
    \/ ReadForm(t) \/ ReadRest(t) \/ CheckConnected(t) \/ CheckClient(t)
    \/ CreateClient(t) \/ ConnectReceiver(t) \/ ConnectRetain(t)
    \/ ConnectReturns(t) \/ DisplacedReturns(t) \/ StoreConnected(t)
    \/ Crash(t)

QueryStep(q) ==
    \/ QueryReceiver(q) \/ QueryRetain(q) \/ QueryFails(q) \/ QueryAnswered(q)
    \/ FetchRows(q) \/ Publish(q) \/ WriteRows(q) \/ ClearProgress(q)

WorkerThread(w) == ConnectStep(w) \/ Report(w)
QueryThread(q) == ConnectStep(q) \/ QueryStep(q)

SystemStep ==
    \/ FrameStep
    \/ \E w \in Workers : WorkerThread(w)
    \/ \E q \in QueryThreads : QueryThread(q)

Next == UserStep \/ SystemStep

(* Frames are drawn at the display's rate, threads are scheduled, a        *)
(* connection attempt and a query each come to an end.  Nothing makes the  *)
(* user act.                                                               *)
Fairness ==
    /\ WF_vars(FrameStep)
    /\ \A w \in Workers : WF_vars(WorkerThread(w))
    /\ \A q \in QueryThreads : WF_vars(QueryThread(q))

Spec == Init /\ [][Next]_vars /\ Fairness

-----------------------------------------------------------------------------
(* Every variable holds a value of its kind (the declarations of           *)
(* DBManager.h).                                                           *)
TypeOK ==
    /\ form \in Servers
    /\ client \in Clients \cup {Nil}
    /\ session \in [Clients -> Credentials \cup {Nil}]
    /\ isConnected \in BOOLEAN
    /\ queryInProgress \in BOOLEAN
    /\ queryFinished \in BOOLEAN
    /\ queryColumns \in Results
    /\ queryRows \in Results
    /\ queryMutex \in QueryThreads \cup {UI, Nil}
    /\ status \in Statuses
    /\ ui \in UiPlaces
    /\ resume \in {"Results", "Dispatch"}
    /\ old \in Servers \cup {Nil}
    /\ view \in [columns: Results, rows: Results]
    /\ launched \in 0 .. MaxQueries
    /\ pc \in [Threads -> Places]
    /\ cred \in [Threads -> Credentials \cup {Nil}]
    /\ holds \in [Threads -> Clients \cup {Nil}]
    /\ ok \in [Threads -> BOOLEAN]
    /\ job \in [Threads -> 0 .. MaxQueries]
    /\ got \in [Threads -> Credentials \cup {Nil}]
    /\ crashed \in BOOLEAN

(* Whatever the interleaving, two query threads never run at once: the     *)
(* spinner replaces the Run button until the last act of the thread.       *)
OneQueryThread ==
    \A p, q \in QueryThreads : pc[p] # "idle" /\ pc[q] # "idle" => p = q

(* QueryFinished means that the published columns and rows are both the    *)
(* answer to the query launched last, or that the UI thread is on its way  *)
(* to clear the flag.                                                      *)
FinishedIsLatest ==
    queryFinished /\ ui # "ClearFinished" =>
        queryColumns.query = launched /\ queryRows = queryColumns

(* Outside the copy itself, the table on display has the columns and the   *)
(* rows of one and the same query: Rows[r][c] stays in bounds.             *)
ViewIsOneResult == ui # "CopyRows" => view.columns = view.rows

(* A published result stays as it is until the user's next launch.         *)
ResultStable ==
    [][queryFinished /\ queryFinished' => UNCHANGED <<queryColumns, queryRows>>]_vars

(* The console of QueryConsole, seen in the flags and the published result. *)
Console == INSTANCE QueryConsole WITH
    running <- queryInProgress,
    latest <- launched,
    answer <- IF queryFinished THEN queryRows.query ELSE 0,
    table <- view.rows.query

(* DBManager is an implementation of the abstract console.                 *)
ImplementsConsole == Console!Spec

(* Every query comes to an end: the spinner never stays for good, unless   *)
(* the process does not survive.                                           *)
SpinnerStops == queryInProgress ~> (~queryInProgress \/ crashed)

(* Every query's answer is shown, or a later one's in its place.           *)
AnswerShown ==
    \A n \in 1 .. MaxQueries :
        launched = n ~> (crashed \/ view.rows.query >= n)

(* What the status line says, taken at its word: "Disconnected from        *)
(* database." is shown, nothing is under way, and so nothing is connected. *)
DisconnectedIsDisconnected ==
    Quiet /\ ui = "Form" /\ status = "Disconnected" => ~isConnected

(* "Already connected." has just been said, with nothing under way: there  *)
(* is a client to be connected with.                                       *)
AlreadyConnectedHasClient ==
    Quiet /\ ui = "Results" /\ status = "AlreadyConnected" => client # Nil

-----------------------------------------------------------------------------
(* With a patient user (Patient = TRUE).                                   *)

(* Connected means connected to what the user asked for: IsConnected       *)
(* implies a live client logged in to the remembered form, except while    *)
(* DisconnectFromDatabase is between dropping the client and clearing the  *)
(* flag.                                                                   *)
ConnectedToOld ==
    isConnected /\ ui # "ClearConnected" =>
        client # Nil /\ session[client] = old

(* The status line tells the truth while nothing is going on.              *)
StatusTells ==
    Quiet /\ ui = "Form" =>
        /\ status \in {"Connected", "AlreadyConnected"} => isConnected
        /\ status \in {"", "ConnectError", "Disconnected", "NotConnected"} =>
             ~isConnected

(* No object is used after its last release, no handle by two threads.     *)
NoCrash == ~crashed

(* The rows a query shows come from the server the user connected to.      *)
RowsFromOld ==
    [][queryRows' # queryRows /\ queryRows'.from # Nil => queryRows'.from = old]_vars
=============================================================================
