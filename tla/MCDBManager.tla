---------------------------- MODULE MCDBManager -----------------------------
(* Small instances of DBManager for TLC.                                   *)
EXTENDS DBManager, TLC

(* Nothing in DBManager tells one server, thread or object from another.   *)
Symmetry == Permutations(Servers) \cup Permutations(QueryThreads)
              \cup Permutations(Clients)
=============================================================================
