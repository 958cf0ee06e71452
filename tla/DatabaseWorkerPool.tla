------------------------- MODULE DatabaseWorkerPool -------------------------
(***************************************************************************)
(* The asynchronous half of a DatabaseWorkerPool: one queue of SQL         *)
(* operations (ProducerConsumerQueue), one thread per asynchronous         *)
(* connection (DatabaseWorker), the thread that opens and closes the pool  *)
(* (DatabaseLoader, StopDB), and the threads that enqueue operations.      *)
(*                                                                         *)
(*   src/src/common/Threading/ProducerConsumerQueue.h                      *)
(*   src/src/server/database/Database/DatabaseWorker.cpp                   *)
(*   src/src/server/database/Database/DatabaseWorkerPool.cpp               *)
(*   src/src/server/database/Database/DatabaseLoader.cpp                   *)
(*                                                                         *)
(* Whatever happens under _queueLock is one step.  What lies between two   *)
(* critical sections, or between two statements of a destructor, is not.   *)
(***************************************************************************)
EXTENDS Integers, Sequences, SequencesExt

CONSTANTS
    AsyncThreads,   \* _async_threads, the connections one Open creates
    Operation,      \* the SQL operations other threads enqueue, each once
    MaySpuriouslyWake,  \* whether a condition variable may wake by itself
    MayFailToOpen,  \* the errors a connection attempt may report
    MayClose,       \* whether the server stops
    none            \* no operation: nullptr

ASSUME PoolAssumption ==
    /\ AsyncThreads \in 1..32
    /\ none \notin Operation
    /\ MaySpuriouslyWake \in BOOLEAN /\ MayClose \in BOOLEAN
    /\ MayFailToOpen \subseteq {"noDatabase", "tooOld", "other"}

(* DatabaseLoader opens a pool at most twice; every attempt makes new      *)
(* connections, and every connection makes its own worker.                 *)
MaxOpens == 2
Worker == 1..AsyncThreads * MaxOpens

VARIABLES
    _queue,         \* ProducerConsumerQueue::_queue
    _shutdown,      \* ProducerConsumerQueue::_shutdown
    pc,             \* pc[w]: where DatabaseWorker w is in WorkerThread
    operation,      \* operation[w]: its local variable
    _cancelationToken,
    _connections,   \* _connections[IDX_ASYNC], by worker
    pool,           \* where the thread that owns the pool is
    dying,          \* the connections that thread is about to destroy
    afterwards,     \* where it goes once they are destroyed
    opens,          \* how many times Open was called
    nextWorker,     \* the worker of the next connection
    pushed,         \* operations in the order they were enqueued
    taken,          \* operations in the order the workers took them
    executed,       \* operations in the order their execution ended
    dropped         \* operations deleted or forgotten without execution

queueVars == <<_queue, _shutdown>>
workerVars == <<pc, operation, _cancelationToken>>
poolVars == <<_connections, pool, dying, afterwards, opens, nextWorker>>
history == <<pushed, taken, executed, dropped>>
vars == <<queueVars, workerVars, poolVars, history>>

TypeOK ==
    /\ _queue \in Seq(Operation)
    /\ _shutdown \in BOOLEAN
    /\ pc \in [Worker -> {"unborn", "check", "waiting", "popped", "executing", "exited"}]
    /\ operation \in [Worker -> Operation \union {none}]
    /\ _cancelationToken \in [Worker -> BOOLEAN]
    /\ _connections \in Seq(Worker)
    /\ pool \in {"closed", "connect", "connecting", "synch", "open", "failed",
                 "token", "cancel", "join", "ended"}
    /\ dying \in Seq(Worker)
    /\ afterwards \in {"closed", "connect", "failed", "ended"}
    /\ opens \in 0..MaxOpens
    /\ nextWorker \in 1..AsyncThreads * MaxOpens + 1
    /\ pushed \in Seq(Operation) /\ taken \in Seq(Operation)
    /\ executed \in Seq(Operation)
    /\ dropped \subseteq Operation

Init ==
    /\ _queue = << >>
    /\ _shutdown = FALSE
    /\ pc = [w \in Worker |-> "unborn"]
    /\ operation = [w \in Worker |-> none]
    /\ _cancelationToken = [w \in Worker |-> FALSE]
    /\ _connections = << >>
    /\ pool = "closed"
    /\ dying = << >>
    /\ afterwards = "failed"
    /\ opens = 0
    /\ nextWorker = 1
    /\ pushed = << >> /\ taken = << >> /\ executed = << >>
    /\ dropped = {}

-----------------------------------------------------------------------------
(* A definition whose name ends in _Wrong is the definition that follows   *)
(* it with a plausible mistake; the properties are tried against it.       *)

Waiting == {w \in Worker : pc[w] = "waiting"}

(* notify_one wakes some thread that waits, if there is one.               *)
NotifyOne_Wrong == UNCHANGED pc
NotifyOne ==
    IF Waiting = {} THEN UNCHANGED pc
    ELSE \E w \in Waiting : pc' = [pc EXCEPT ![w] = "check"]

NotifyAll_Wrong == IF Waiting = {} THEN UNCHANGED pc
                   ELSE \E w \in Waiting : pc' = [pc EXCEPT ![w] = "check"]
NotifyAll == pc' = [w \in Worker |-> IF pc[w] = "waiting" THEN "check" ELSE pc[w]]

QueueWith_Wrong(op) == <<op>> \o _queue
QueueWith(op) == Append(_queue, op)

QueueAfterPop_Wrong == _queue
QueueAfterPop == Tail(_queue)

(* ProducerConsumerQueue::Push                                             *)
Push(op) ==
    /\ _queue' = QueueWith(op)
    /\ NotifyOne
    /\ UNCHANGED _shutdown

(* ProducerConsumerQueue::Cancel: queued operations are deleted, and the   *)
(* queue stays shut down for good.                                         *)
Cancel ==
    /\ dropped' = dropped \union ToSet(_queue)
    /\ _queue' = << >>
    /\ _shutdown' = TRUE
    /\ NotifyAll

(* One turn of the loop in ProducerConsumerQueue::WaitAndPop: the lock is  *)
(* held, and given up to wait or to return.                                *)
WaitAndPop(w) ==
    /\ pc[w] = "check"
    /\ \/ /\ _queue = << >> /\ ~_shutdown
          /\ pc' = [pc EXCEPT ![w] = "waiting"]
          /\ UNCHANGED <<queueVars, operation, taken>>
       \/ /\ _shutdown
          /\ pc' = [pc EXCEPT ![w] = "popped"]
          /\ operation' = [operation EXCEPT ![w] = none]
          /\ UNCHANGED <<queueVars, taken>>
       \/ /\ _queue # << >> /\ ~_shutdown
          /\ pc' = [pc EXCEPT ![w] = "popped"]
          /\ operation' = [operation EXCEPT ![w] = Head(_queue)]
          /\ _queue' = QueueAfterPop
          /\ taken' = Append(taken, Head(_queue))
          /\ UNCHANGED _shutdown
    /\ UNCHANGED <<_cancelationToken, poolVars, pushed, executed, dropped>>

SpuriousWakeup(w) ==
    /\ MaySpuriouslyWake
    /\ pc[w] = "waiting"
    /\ pc' = [pc EXCEPT ![w] = "check"]
    /\ UNCHANGED <<queueVars, operation, _cancelationToken, poolVars, history>>

(* WorkerThread after WaitAndPop: a worker that is being destroyed returns *)
(* and forgets the operation it has just taken.                            *)
WorkerReturns(w) ==
    /\ pc[w] = "popped"
    /\ _cancelationToken[w] \/ operation[w] = none
    /\ pc' = [pc EXCEPT ![w] = "exited"]
    /\ operation' = [operation EXCEPT ![w] = none]
    /\ dropped' = dropped \union ({operation[w]} \ {none})
    /\ UNCHANGED <<queueVars, _cancelationToken, poolVars, pushed, taken, executed>>

BeginOperation(w) ==
    /\ pc[w] = "popped"
    /\ ~_cancelationToken[w] /\ operation[w] # none
    /\ pc' = [pc EXCEPT ![w] = "executing"]
    /\ UNCHANGED <<queueVars, operation, _cancelationToken, poolVars, history>>

(* operation->call() returns and the operation is deleted.                 *)
EndOperation(w) ==
    /\ pc[w] = "executing"
    /\ pc' = [pc EXCEPT ![w] = "check"]
    /\ operation' = [operation EXCEPT ![w] = none]
    /\ executed' = Append(executed, operation[w])
    /\ UNCHANGED <<queueVars, _cancelationToken, poolVars, pushed, taken, dropped>>

WorkerStep(w) ==
    \/ WaitAndPop(w)
    \/ WorkerReturns(w)
    \/ BeginOperation(w)
    \/ EndOperation(w)

-----------------------------------------------------------------------------
(* DatabaseWorkerPool::Enqueue, by any thread that uses an open pool.      *)
Enqueue(op) ==
    /\ pool = "open"
    /\ op \notin ToSet(pushed)
    /\ Push(op)
    /\ pushed' = Append(pushed, op)
    /\ UNCHANGED <<operation, _cancelationToken, poolVars, taken, executed, dropped>>

-----------------------------------------------------------------------------
(* The thread that owns the pool.                                          *)

Open ==
    /\ pool = "closed" /\ opens = 0
    /\ pool' = "connect"
    /\ opens' = opens + 1
    /\ UNCHANGED <<queueVars, workerVars, _connections, dying, afterwards, nextWorker, history>>

(* OpenConnections(IDX_ASYNC) makes a connection: its worker runs before   *)
(* it is connected.                                                        *)
CreateConnection ==
    /\ pool = "connect"
    /\ nextWorker <= AsyncThreads * opens
    /\ pc' = [pc EXCEPT ![nextWorker] = "check"]
    /\ nextWorker' = nextWorker + 1
    /\ pool' = "connecting"
    /\ UNCHANGED <<queueVars, operation, _cancelationToken, _connections, dying,
                   afterwards, opens, history>>

ConnectionOpens ==
    /\ pool = "connecting"
    /\ _connections' = Append(_connections, nextWorker - 1)
    /\ pool' = IF nextWorker > AsyncThreads * opens THEN "synch" ELSE "connect"
    /\ UNCHANGED <<queueVars, workerVars, dying, afterwards, opens, nextWorker, history>>

MayRetry_Wrong(error) == error = "noDatabase"
MayRetry(error) == error = "noDatabase" /\ opens < MaxOpens

(* MySQLConnection::Open reports an error: all connections of this kind    *)
(* are destroyed and then the one that failed, or that one alone if it is  *)
(* the server's version.  A missing database is created and opened again,  *)
(* once (DatabaseLoader.cpp:54).                                           *)
ConnectionFails(error) ==
    /\ pool = "connecting"
    /\ dying' = IF error = "tooOld" THEN <<nextWorker - 1>>
                ELSE Append(_connections, nextWorker - 1)
    /\ _connections' = IF error = "tooOld" THEN _connections ELSE << >>
    /\ pool' = "token"
    /\ \/ /\ MayRetry(error)
          /\ afterwards' = "connect"
          /\ opens' = opens + 1
          /\ nextWorker' = AsyncThreads * opens + 1
       \/ /\ afterwards' = "failed"
          /\ UNCHANGED <<opens, nextWorker>>
    /\ UNCHANGED <<queueVars, workerVars, history>>

(* OpenConnections(IDX_SYNCH): a failure leaves the asynchronous           *)
(* connections as they are.                                                *)
SynchConnectionsOpen ==
    /\ pool = "synch"
    /\ pool' = "open"
    /\ UNCHANGED <<queueVars, workerVars, _connections, dying, afterwards, opens,
                   nextWorker, history>>

SynchConnectionsFail ==
    /\ pool = "synch"
    /\ MayFailToOpen # {}
    /\ pool' = "failed"
    /\ UNCHANGED <<queueVars, workerVars, _connections, dying, afterwards, opens,
                   nextWorker, history>>

(* DatabaseWorkerPool::Close, at the end of the server.                    *)
Close ==
    /\ pool = "open" /\ MayClose
    /\ dying' = _connections
    /\ _connections' = << >>
    /\ pool' = "token"
    /\ afterwards' = "closed"
    /\ UNCHANGED <<queueVars, workerVars, opens, nextWorker, history>>

(* ~DatabaseWorkerPool, when the process returns from main.                *)
DestroyPool ==
    /\ pool = "failed" \/ (pool = "closed" /\ opens > 0)
    /\ Cancel
    /\ dying' = _connections
    /\ _connections' = << >>
    /\ pool' = IF _connections = << >> THEN "ended" ELSE "token"
    /\ afterwards' = "ended"
    /\ UNCHANGED <<operation, _cancelationToken, opens, nextWorker, pushed, taken, executed>>

(* ~DatabaseWorker, for the connections that are to be destroyed in turn:  *)
(* set the token, cancel the queue, join the thread.                       *)
SetToken ==
    /\ pool = "token"
    /\ _cancelationToken' = [_cancelationToken EXCEPT ![Head(dying)] = TRUE]
    /\ pool' = "cancel"
    /\ UNCHANGED <<queueVars, pc, operation, _connections, dying, afterwards, opens,
                   nextWorker, history>>

CancelQueue ==
    /\ pool = "cancel"
    /\ Cancel
    /\ pool' = "join"
    /\ UNCHANGED <<operation, _cancelationToken, _connections, dying, afterwards, opens,
                   nextWorker, pushed, taken, executed>>

MayJoin_Wrong(w) == TRUE
MayJoin(w) == pc[w] = "exited"

Join ==
    /\ pool = "join"
    /\ MayJoin(Head(dying))
    /\ dying' = Tail(dying)
    /\ pool' = IF Len(dying) = 1 THEN afterwards ELSE "token"
    /\ UNCHANGED <<queueVars, workerVars, _connections, afterwards, opens, nextWorker, history>>

OwnerStep ==
    \/ Open
    \/ CreateConnection
    \/ ConnectionOpens
    \/ \E error \in MayFailToOpen : ConnectionFails(error)
    \/ SynchConnectionsOpen
    \/ SynchConnectionsFail
    \/ DestroyPool
    \/ SetToken
    \/ CancelQueue
    \/ Join

(* An open pool may serve forever, and a destroyed one is gone.            *)
Resting == pool \in {"open", "ended"} /\ UNCHANGED vars

Next ==
    \/ \E op \in Operation : Enqueue(op)
    \/ \E w \in Worker : WorkerStep(w) \/ SpuriousWakeup(w)
    \/ OwnerStep
    \/ Close
    \/ Resting

(* Every thread runs.  Nobody is forced to enqueue or to close.            *)
Fairness ==
    /\ \A w \in Worker : WF_vars(WorkerStep(w))
    /\ WF_vars(OwnerStep)

Spec == Init /\ [][Next]_vars
FairSpec == Spec /\ Fairness

-----------------------------------------------------------------------------
(* Properties.                                                             *)

(* The workers whose connection object exists: those of the pool, the one  *)
(* being connected and those being destroyed but not joined yet.           *)
Connected ==
    ToSet(_connections) \union ToSet(dying)
        \union (IF pool = "connecting" THEN {nextWorker - 1} ELSE {})

(* WorkerThread uses the members of its DatabaseWorker and the connection  *)
(* given to it: no thread runs once they are destroyed.                    *)
ThreadsUseLiveConnections ==
    \A w \in Worker : pc[w] \notin {"unborn", "exited"} => w \in Connected

(* Every enqueued operation is in one place: the queue, one worker's hand, *)
(* executed once, or dropped.                                              *)
OneHolder ==
    \A op \in ToSet(pushed) :
        LET places == {<<"queue", i>> : i \in {j \in DOMAIN _queue : _queue[j] = op}}
                      \union {<<"worker", w>> : w \in {v \in Worker : operation[v] = op}}
                      \union {<<"done", i>> : i \in {j \in DOMAIN executed : executed[j] = op}}
                      \union (IF op \in dropped THEN {<<"dropped", 0>>} ELSE {})
        IN  \E p \in places : places = {p}

(* An operation that waits in an open queue is not left to sleeping        *)
(* workers: while the queue is not shut down, somebody is on the way to    *)
(* it.  (A worker that is told to stop may leave just before the queue is  *)
(* cancelled.)                                                             *)
NoLostWakeup ==
    _queue # << >> /\ ~_shutdown /\ pool # "cancel" =>
        \E w \in Worker : pc[w] \in {"check", "popped", "executing"}

(* Workers take operations in the order in which they were enqueued, so    *)
(* that the default single worker executes dependent ones in order.        *)
TakenInOrder == IsPrefix(taken, pushed)

(* What callers rely on when they enqueue and forget: no operation is lost,*)
(* forgotten by a sleeping pool, executed twice or out of turn, or given to*)
(* a connection that is gone.                                              *)
WorkersAreSound ==
    /\ ThreadsUseLiveConnections
    /\ OneHolder
    /\ NoLostWakeup
    /\ TakenInOrder

(* Whoever destroys connections gets it done.                              *)
DestructionEnds == pool \in {"token", "cancel", "join"} ~> pool \in {"connect", "failed", "closed", "ended"}

(* Every operation is executed as long as the queue has not been cancelled.*)
OperationsProceed ==
    \A op \in Operation : op \in ToSet(pushed) ~> op \in ToSet(executed) \/ _shutdown

(* DatabaseWorkerPool.h:69 on Execute: "Enqueues a one-way SQL operation   *)
(* in string format that will be executed asynchronously".                 *)
EnqueuedIsExecuted ==
    \A op \in Operation : op \in ToSet(pushed) ~> op \in ToSet(executed)
=============================================================================
