------------------------- MODULE AtomicTransactions -------------------------
(***************************************************************************)
(* What a transaction handed to CommitTransaction promises the game: all   *)
(* its statements reach the database at once and in the order in which     *)
(* they were appended, or none does.  The promise ends with the first      *)
(* connection that is lost, or START TRANSACTION or ROLLBACK that is       *)
(* refused.                                                                *)
(***************************************************************************)
EXTENDS Integers, Sequences

CONSTANTS
    Transaction,
    Size            \* Size[t]: the number of statements appended to t

VARIABLES
    outcome,        \* what became of each transaction
    log,            \* the statements in the database, in order
    intact          \* no session was lost, or left as it should not be

vars == <<outcome, log, intact>>

(* The statements of a transaction, each with its number.                  *)
Statements(t) == [k \in 1..Size[t] |-> <<t, k>>]

Init ==
    /\ outcome = [t \in Transaction |-> "pending"]
    /\ log = << >>
    /\ intact = TRUE

Commit(t) ==
    /\ outcome[t] = "pending"
    /\ outcome' = [outcome EXCEPT ![t] = "committed"]
    /\ log' = log \o Statements(t)
    /\ UNCHANGED intact

Abort(t) ==
    /\ outcome[t] = "pending"
    /\ outcome' = [outcome EXCEPT ![t] = "aborted"]
    /\ UNCHANGED <<log, intact>>

LoseSession == intact' = FALSE

Next ==
    \/ intact /\ \E t \in Transaction : Commit(t) \/ Abort(t)
    \/ LoseSession

Spec == Init /\ [][Next]_vars
=============================================================================
