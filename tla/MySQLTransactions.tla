-------------------------- MODULE MySQLTransactions --------------------------
(***************************************************************************)
(* How a transaction is executed: MySQLConnection::ExecuteTransaction and  *)
(* the error handling under it, TransactionTask::Execute (a worker of the  *)
(* asynchronous pool, which retries a deadlocked transaction under a lock  *)
(* shared by all workers) and DirectCommitTransaction (the caller's        *)
(* thread, which retries a few times).                                     *)
(*                                                                         *)
(*   src/src/server/database/Database/MySQLConnection.cpp                  *)
(*   src/src/server/database/Database/Transaction.cpp                      *)
(*   src/src/server/database/Database/DatabaseWorkerPool.cpp               *)
(*                                                                         *)
(* The MySQL server is external: a session per connection that collects    *)
(* statements between START TRANSACTION and COMMIT, applies a statement    *)
(* outside a transaction at once (the connections are opened with          *)
(* autocommit), may break a deadlock between two open transactions by      *)
(* rolling one of them back, may refuse a command (a COMMIT that it        *)
(* refuses it has rolled back), and forgets an open transaction when its   *)
(* connection is lost.                                                     *)
(***************************************************************************)
EXTENDS Integers, Sequences, SequencesExt, FiniteSets

CONSTANTS
    Transaction, Size,
    Worker,         \* threads that run TransactionTask::Execute
    Caller,         \* threads that run DirectCommitTransaction
    LoopBreaker,    \* retries of DirectCommitTransaction (5 in the code)
    MaxRetries,     \* bound on the retries within DEADLOCK_MAX_RETRY_TIME_MS
    MaxAttempts,    \* attempts to reconnect (5 in the code)
    MaxLosses,      \* bound on the connections that are lost
    MaxRefusals,    \* bound on the commands in ignored
    MayRefuse,      \* whether reconnecting may report an unhandled error
    nobody          \* _deadlockLock is free

Thread == Worker \union Caller

ASSUME TransactionsAssumption ==
    /\ Size \in [Transaction -> Nat]
    /\ Worker \intersect Caller = {}
    /\ nobody \notin Thread /\ nobody \notin Transaction
    /\ LoopBreaker \in Nat \ {0} /\ MaxRetries \in Nat \ {0}
    /\ MaxAttempts \in Nat \ {0} /\ MaxLosses \in Nat /\ MaxRefusals \in Nat
    /\ MayRefuse \in BOOLEAN

VARIABLES
    pc,             \* what the thread does next
    current,        \* the transaction it executes
    next,           \* the statement it executes next
    errorCode,      \* what ExecuteTransaction is about to return
    retries,        \* executions of the transaction so far
    connected,      \* m_Mysql # nullptr
    resume,         \* the command that is repeated after reconnecting
    attempts,       \* _HandleMySQLErrno's parameter
    _deadlockLock,  \* the worker that holds TransactionTask::_deadlockLock
    result,         \* what became of each transaction, for the game
    open,           \* server: is a transaction open in the session
    pending,        \* server: its statements
    log,            \* server: the statements in the database
    losses,         \* how many connections were lost
    ignored         \* the refused commands whose result nobody looked at

client == <<pc, current, next, errorCode, retries>>
link == <<connected, resume, attempts, losses, ignored>>
server == <<open, pending, log>>
vars == <<client, link, server, _deadlockLock, result>>

Command == {"begin", "statement", "rollback", "commit"}
Unwatched == Command \ {"statement"}

TypeOK ==
    /\ pc \in [Thread -> Command \union {"idle", "return", "reconnect", "dead"}]
    /\ current \in [Thread -> Transaction \union {nobody}]
    /\ next \in [Thread -> Nat]
    /\ errorCode \in [Thread -> {"none", "deadlock", "other"}]
    /\ retries \in [Thread -> Nat]
    /\ connected \in [Thread -> BOOLEAN]
    /\ resume \in [Thread -> Command]
    /\ attempts \in [Thread -> 1..MaxAttempts]
    /\ _deadlockLock \in Worker \union {nobody}
    /\ result \in [Transaction -> {"new", "running", "done", "failed"}]
    /\ open \in [Thread -> BOOLEAN]
    /\ pending \in [Thread -> Seq(Transaction \X Nat)]
    /\ log \in Seq(Transaction \X Nat)
    /\ losses \in 0..MaxLosses
    /\ ignored \subseteq Transaction \X Unwatched

Init ==
    /\ pc = [c \in Thread |-> "idle"]
    /\ current = [c \in Thread |-> nobody]
    /\ next = [c \in Thread |-> 1]
    /\ errorCode = [c \in Thread |-> "none"]
    /\ retries = [c \in Thread |-> 0]
    /\ connected = [c \in Thread |-> TRUE]
    /\ resume = [c \in Thread |-> "begin"]
    /\ attempts = [c \in Thread |-> MaxAttempts]
    /\ _deadlockLock = nobody
    /\ result = [t \in Transaction |-> "new"]
    /\ open = [c \in Thread |-> FALSE]
    /\ pending = [c \in Thread |-> << >>]
    /\ log = << >>
    /\ losses = 0
    /\ ignored = {}

-----------------------------------------------------------------------------
(* The server.  A definition whose name ends in _Wrong is the definition   *)
(* that follows it with a plausible mistake.                               *)

EndSession(c) ==
    /\ open' = [open EXCEPT ![c] = FALSE]
    /\ pending' = [pending EXCEPT ![c] = << >>]

(* The server carries out the command p for thread c.  START TRANSACTION   *)
(* commits a transaction that is still open.                               *)
Apply(c, p) ==
    \/ /\ p = "begin"
       /\ open' = [open EXCEPT ![c] = TRUE]
       /\ pending' = [pending EXCEPT ![c] = << >>]
       /\ log' = log \o pending[c]
    \/ /\ p = "statement" /\ open[c]
       /\ pending' = [pending EXCEPT ![c] = Append(@, <<current[c], next[c]>>)]
       /\ UNCHANGED <<open, log>>
    \/ /\ p = "statement" /\ ~open[c]
       /\ log' = Append(log, <<current[c], next[c]>>)
       /\ UNCHANGED <<open, pending>>
    \/ /\ p = "rollback"
       /\ EndSession(c)
       /\ UNCHANGED log
    \/ /\ p = "commit"
       /\ EndSession(c)
       /\ log' = log \o pending[c]

-----------------------------------------------------------------------------
(* MySQLConnection.                                                        *)

(* The queries are executed one after the other, and COMMIT after the last.*)
AfterStatement(c) == IF next[c] = Size[current[c]] THEN "commit" ELSE "statement"

(* A command succeeds.                                                     *)
CommandSucceeds(c) ==
    /\ pc[c] \in Command
    /\ connected[c]
    /\ Apply(c, pc[c])
    /\ pc' = [pc EXCEPT ![c] = CASE pc[c] = "begin" -> "statement"
                                 [] pc[c] = "statement" -> AfterStatement(c)
                                 [] OTHER -> "return"]
    /\ next' = [next EXCEPT ![c] = IF pc[c] = "statement" THEN @ + 1 ELSE 1]
    /\ UNCHANGED <<current, errorCode, retries, link, _deadlockLock, result>>

(* START TRANSACTION, ROLLBACK or COMMIT is refused: Execute returns false *)
(* and nothing looks at that, so the transaction goes on as if it had      *)
(* succeeded.                                                              *)
CommandIsRefused(c) ==
    /\ pc[c] \in Unwatched
    /\ connected[c]
    /\ ignored' = ignored \union {<<current[c], pc[c]>>}
    /\ Cardinality(ignored') <= MaxRefusals
    /\ EndSession(c) \/ (pc[c] # "commit" /\ UNCHANGED <<open, pending>>)
    /\ pc' = [pc EXCEPT ![c] = IF pc[c] = "begin" THEN "statement" ELSE "return"]
    /\ next' = [next EXCEPT ![c] = 1]
    /\ UNCHANGED <<current, errorCode, retries, connected, resume, attempts, losses, log,
                   _deadlockLock, result>>

AfterRefusal_Wrong == "return"      \* no ROLLBACK
AfterRefusal == "rollback"

RefusalCode_Wrong(error) == "none"  \* GetLastError after the ROLLBACK
RefusalCode(error) == error

(* A statement is refused: the error is remembered and ROLLBACK follows.   *)
(* To break a deadlock the server has rolled the transaction back.         *)
StatementFails(c, error) ==
    /\ pc[c] = "statement"
    /\ connected[c]
    /\ error = "deadlock" => \E d \in Thread \ {c} : open[d]
    /\ errorCode' = [errorCode EXCEPT ![c] = RefusalCode(error)]
    /\ pc' = [pc EXCEPT ![c] = AfterRefusal]
    /\ IF error = "deadlock" THEN EndSession(c) ELSE UNCHANGED <<open, pending>>
    /\ UNCHANGED <<log, current, next, retries, link, _deadlockLock, result>>

(* The connection is lost before the server sees the command, or after     *)
(* that but before its answer arrives; the session ends.                   *)
ConnectionIsLost(c) ==
    /\ pc[c] \in Command
    /\ connected[c]
    /\ losses < MaxLosses
    /\ losses' = losses + 1
    /\ connected' = [connected EXCEPT ![c] = FALSE]
    /\ resume' = [resume EXCEPT ![c] = pc[c]]
    /\ attempts' = [attempts EXCEPT ![c] = MaxAttempts]
    /\ pc' = [pc EXCEPT ![c] = "reconnect"]
    /\ EndSession(c)
    /\ \/ UNCHANGED log
       \/ pc[c] = "commit" /\ log' = log \o pending[c]
       \/ pc[c] = "statement" /\ ~open[c] /\ log' = Append(log, <<current[c], next[c]>>)
    /\ UNCHANGED <<current, next, errorCode, retries, ignored, _deadlockLock, result>>

(* _HandleMySQLErrno returns, and its parameter and locals are gone.       *)
ReconnectReturns(c) ==
    /\ resume' = [resume EXCEPT ![c] = "begin"]
    /\ attempts' = [attempts EXCEPT ![c] = MaxAttempts]

(* _HandleMySQLErrno has reconnected: the command is repeated.             *)
Reconnect(c) ==
    /\ pc[c] = "reconnect"
    /\ connected' = [connected EXCEPT ![c] = TRUE]
    /\ pc' = [pc EXCEPT ![c] = resume[c]]
    /\ ReconnectReturns(c)
    /\ UNCHANGED <<current, next, errorCode, retries, losses, ignored, server, _deadlockLock,
                   result>>

HasAttempts_Wrong(c) == TRUE
HasAttempts(c) == attempts[c] > 1

(* The attempt failed with one of the errors the function handles: another *)
(* attempt, or the server process is aborted.                              *)
ReconnectFails(c) ==
    /\ pc[c] = "reconnect"
    /\ HasAttempts(c)
    /\ attempts' = [attempts EXCEPT ![c] = @ - 1]
    /\ UNCHANGED <<client, connected, resume, losses, ignored, server, _deadlockLock, result>>

(* The end of the process: std::abort, or a crash at any other moment.     *)
Crash ==
    /\ \E c \in Thread : pc[c] # "dead"
    /\ pc' = [c \in Thread |-> "dead"]
    /\ open' = [c \in Thread |-> FALSE]
    /\ pending' = [c \in Thread |-> << >>]
    /\ UNCHANGED <<current, next, errorCode, retries, link, log, _deadlockLock, result>>

(* Execute returns false for want of a connection, either because the      *)
(* attempt failed with an error the function does not handle, or because   *)
(* m_Mysql is null since then.  Only a statement's result is looked at; the*)
(* error code is mysql_errno(nullptr), which need not be an error.         *)
ExecuteReturnsFalse(c) ==
    LET command == IF pc[c] = "reconnect" THEN resume[c] ELSE pc[c]
    IN  /\ ~connected[c] /\ MayRefuse
        /\ command \in Command
        /\ pc' = [pc EXCEPT ![c] = CASE command = "begin" -> "statement"
                                     [] command = "statement" -> "rollback"
                                     [] OTHER -> "return"]
        /\ next' = [next EXCEPT ![c] = 1]
        /\ IF command = "statement"
           THEN \E error \in {"none", "other"} : errorCode' = [errorCode EXCEPT ![c] = error]
           ELSE UNCHANGED errorCode
        /\ ReconnectReturns(c)
        /\ UNCHANGED <<current, retries, connected, losses, ignored, server, _deadlockLock,
                       result>>

-----------------------------------------------------------------------------
(* TransactionTask::Execute and DirectCommitTransaction.                   *)

(* ExecuteTransaction is called.  Without queries it returns -1.           *)
CallExecuteTransaction(c, t) ==
    /\ pc' = [pc EXCEPT ![c] = IF Size[t] = 0 THEN "return" ELSE "begin"]
    /\ errorCode' = [errorCode EXCEPT ![c] = IF Size[t] = 0 THEN "other" ELSE "none"]
    /\ next' = [next EXCEPT ![c] = 1]

(* A worker takes a TransactionTask; a caller has a free connection.       *)
StartTransaction(c, t) ==
    /\ pc[c] = "idle"
    /\ result[t] = "new"
    /\ result' = [result EXCEPT ![t] = "running"]
    /\ current' = [current EXCEPT ![c] = t]
    /\ CallExecuteTransaction(c, t)
    /\ UNCHANGED <<retries, link, server, _deadlockLock>>

(* The lock_guard of a worker that retried is destroyed on the way out.    *)
LockAfter(c) == IF _deadlockLock = c THEN nobody ELSE _deadlockLock

Leave(c, r) ==
    /\ pc' = [pc EXCEPT ![c] = "idle"]
    /\ result' = [result EXCEPT ![current[c]] = r]
    /\ current' = [current EXCEPT ![c] = nobody]
    /\ next' = [next EXCEPT ![c] = 1]
    /\ errorCode' = [errorCode EXCEPT ![c] = "none"]
    /\ retries' = [retries EXCEPT ![c] = 0]
    /\ _deadlockLock' = LockAfter(c)
    /\ UNCHANGED <<link, server>>

(* ExecuteTransaction returned 0.                                          *)
TransactionSucceeds(c) ==
    /\ pc[c] = "return" /\ errorCode[c] = "none"
    /\ Leave(c, "done")

(* A first deadlock is retried, and so is any error of a retry: by a       *)
(* worker while there is time, by a caller LoopBreaker times.              *)
MayRetry(c) ==
    /\ pc[c] = "return"
    /\ errorCode[c] # "none"
    /\ retries[c] = 0 => errorCode[c] = "deadlock"
    /\ retries[c] < IF c \in Worker THEN MaxRetries ELSE LoopBreaker

(* The time of a worker that has retried may be over.                      *)
TransactionFails(c) ==
    /\ pc[c] = "return" /\ errorCode[c] # "none"
    /\ MayRetry(c) => c \in Worker /\ retries[c] > 0
    /\ Leave(c, "failed")

LockIsFree_Wrong == TRUE
LockIsFree == _deadlockLock = nobody

(* A worker waits for _deadlockLock before its first retry.                *)
LockAndRetry(c) ==
    /\ c \in Worker /\ retries[c] = 0
    /\ MayRetry(c)
    /\ LockIsFree
    /\ _deadlockLock' = c
    /\ retries' = [retries EXCEPT ![c] = 1]
    /\ CallExecuteTransaction(c, current[c])
    /\ UNCHANGED <<current, link, server, result>>

RetriesAfter_Wrong(c) == retries[c] \* the loop's time or counter does not advance
RetriesAfter(c) == retries[c] + 1

Retry(c) ==
    /\ c \in Caller \/ retries[c] > 0
    /\ MayRetry(c)
    /\ retries' = [retries EXCEPT ![c] = RetriesAfter(c)]
    /\ CallExecuteTransaction(c, current[c])
    /\ UNCHANGED <<current, link, server, _deadlockLock, result>>

(* The last attempt to reconnect failed: std::abort.                       *)
Abort(c) ==
    /\ pc[c] = "reconnect" /\ ~HasAttempts(c)
    /\ Crash

(* Nothing is left to do, or the process is gone.                          *)
Rest ==
    /\ \/ \A c \in Thread : pc[c] = "dead"
       \/ /\ \A c \in Thread : pc[c] = "idle"
          /\ \A t \in Transaction : result[t] # "new"
    /\ UNCHANGED vars

Run(c) ==
    \/ CommandSucceeds(c)
    \/ Reconnect(c) \/ ReconnectFails(c) \/ Abort(c) \/ ExecuteReturnsFalse(c)
    \/ TransactionSucceeds(c) \/ TransactionFails(c)
    \/ LockAndRetry(c) \/ Retry(c)

Next ==
    \/ \E c \in Thread :
          \/ Run(c)
          \/ ConnectionIsLost(c) \/ CommandIsRefused(c)
          \/ \E error \in {"deadlock", "other"} : StatementFails(c, error)
          \/ \E t \in Transaction : StartTransaction(c, t)
    \/ Crash
    \/ Rest

Spec == Init /\ [][Next]_vars

(* The operating system lets every thread run, and the mutex lets a waiting*)
(* worker in.  Nothing obliges the server to refuse a command, to lose a   *)
(* connection, or the game to start a transaction.                         *)
FairSpec == Spec /\ \A c \in Thread : WF_vars(Run(c)) /\ SF_vars(LockAndRetry(c))

-----------------------------------------------------------------------------
(* What must hold.                                                         *)

(* No session has ended, and the server has begun and rolled back what it  *)
(* was told to: only a COMMIT may have been refused.                       *)
Intact == losses = 0 /\ ignored \subseteq Transaction \X {"commit"}

CommitIsRefused(t) == <<t, "commit">> \in ignored

Abstract == INSTANCE AtomicTransactions WITH
    outcome <- [t \in Transaction |->
        IF Size[t] > 0 /\ \E i \in DOMAIN log : log[i][1] = t THEN "committed"
        ELSE IF result[t] = "failed" \/ CommitIsRefused(t) THEN "aborted"
        ELSE "pending"],
    intact <- Intact

(* ExecuteTransaction with its retries makes a transaction's statements    *)
(* appear in the database at once and in order, or not at all, whatever    *)
(* deadlocks, is refused or crashes between its steps, as long as no       *)
(* connection is lost and no START TRANSACTION or ROLLBACK is refused.     *)
IsAtomic == Abstract!Spec

(* The statements of a transaction among those of a log, in their order.   *)
StatementsOf(l, t) ==
    LET upTo[i \in 0..Len(l)] ==
            IF i = 0 THEN << >>
            ELSE IF l[i][1] = t THEN Append(upTo[i - 1], l[i]) ELSE upTo[i - 1]
    IN  upTo[Len(l)]

Logged(t) == StatementsOf(log, t)

(* The same of a single state, as the documentation of BeginTransaction    *)
(* promises it: no transaction is in the database in part.                 *)
AllOrNothing == \A t \in Transaction : Logged(t) \in {<< >>, Abstract!Statements(t)}

(* As long as that is so, TransactionTask::Execute returns true for the    *)
(* transactions that are in the database, and gives up only those that are *)
(* not; but it also returns true for those whose COMMIT was refused, and   *)
(* they are not there, and never will be.                                  *)
ResultIsTrue ==
    Intact => \A t \in Transaction :
        /\ result[t] = "done" =>
              Logged(t) = IF CommitIsRefused(t) THEN << >> ELSE Abstract!Statements(t)
        /\ result[t] \in {"new", "failed"} => Logged(t) = << >>

(* "Make sure only 1 async thread retries a transaction": of the workers,  *)
(* at most one retries at any time, and it holds the lock.                 *)
OneRetrier == \A w \in Worker : retries[w] > 0 => _deadlockLock = w

(* Every transaction that was begun ends, committed or given up, unless    *)
(* the process does: no thread waits for _deadlockLock or retries forever. *)
TransactionsEnd ==
    \A t \in Transaction : result[t] = "running" ~>
        (result[t] \in {"done", "failed"} \/ \A c \in Thread : pc[c] = "dead")
=============================================================================
