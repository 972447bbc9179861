---------------------------- MODULE QueryConsole ----------------------------
(***************************************************************************)
(* What the SQL console promises its user, without threads, locks or       *)
(* sockets.  At most one query runs at a time; the table on display is     *)
(* either empty or the answer to the query launched last, and an answer    *)
(* stays put until the user launches another query.                        *)
(*                                                                         *)
(* Queries are numbered in the order they are launched; 0 is "none".       *)
(* DBManager implements this specification (see DBManager!Console).        *)
(***************************************************************************)
EXTENDS Naturals

VARIABLES
    running,    \* the spinner is on: a query is being executed
    latest,     \* the number of queries launched so far
    answer,     \* the query whose answer is ready, 0 if none
    table       \* the query whose answer the result pane shows, 0 if none

vars == <<running, latest, answer, table>>

Init ==
    /\ running = FALSE
    /\ latest = 0
    /\ answer = 0
    /\ table = 0

(* The user launches a query: possible only when none is running. *)
Launch ==
    /\ ~running
    /\ running' = TRUE
    /\ latest' = latest + 1
    /\ UNCHANGED <<answer, table>>

(* The answer to an earlier query is withdrawn once a new one is running. *)
Withdraw ==
    /\ running
    /\ answer # latest
    /\ answer' = 0
    /\ UNCHANGED <<running, latest, table>>

(* The answer to the running query becomes available, once. *)
Answer ==
    /\ running
    /\ answer = 0
    /\ answer' = latest
    /\ UNCHANGED <<running, latest, table>>

(* The console is ready for another query: only after it has answered. *)
Finish ==
    /\ running
    /\ answer = latest
    /\ running' = FALSE
    /\ UNCHANGED <<latest, answer, table>>

(* A frame draws the answer that is available, or an empty pane. *)
Draw ==
    /\ table' = answer
    /\ UNCHANGED <<running, latest, answer>>

Next == Launch \/ Withdraw \/ Answer \/ Finish \/ Draw

Spec == Init /\ [][Next]_vars
=============================================================================
