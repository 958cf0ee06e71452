----------------------- MODULE DatabaseWorkerPool_proofs ----------------------
(***************************************************************************)
(* Theorems about DatabaseWorkerPool, for any number of connections and    *)
(* operations and every way of failing to open: no thread runs on a        *)
(* connection that is gone, and no operation is lost, taken twice, taken   *)
(* out of order or left to workers that sleep.                             *)
(***************************************************************************)
EXTENDS DatabaseWorkerPool, DataFacts

(* The owner's side: which connections are being destroyed, and how far    *)
(* the workers have been created.                                          *)
OwnerInv ==
    /\ pool \in {"token", "cancel", "join"} <=> dying # << >>
    /\ pool = "connecting" => nextWorker - 1 \in Worker
    /\ pool \notin {"closed", "ended"} => opens > 0
    /\ nextWorker <= AsyncThreads * opens + 1
    /\ pool = "synch" \/ pool = "open" => _connections # << >>
    /\ \A w \in Worker : w >= nextWorker => pc[w] = "unborn"
    /\ \A w \in Worker : w = nextWorker - 1 /\ pool = "connecting" => pc[w] # "unborn"
    /\ \A w \in ToSet(_connections) : pc[w] # "unborn"

(* While the queue is not shut down nobody is told to stop, except just    *)
(* before it is cancelled.                                                 *)
RunningInv ==
    /\ pool = "join" => _shutdown
    /\ ~_shutdown =>
        /\ \A w \in Worker : pc[w] = "popped" => operation[w] # none
        /\ pool # "cancel" => \A w \in Worker : ~_cancelationToken[w] /\ pc[w] # "exited"

(* Where the operations are.                                               *)
Holds(w) == operation[w] # none
Held == {operation[w] : w \in {v \in Worker : Holds(v)}}

PlacesInv ==
    /\ IsInjective(_queue) /\ IsInjective(executed)
    /\ \A v, w \in Worker : Holds(v) /\ operation[v] = operation[w] => v = w
    /\ \A w \in Worker : pc[w] \in {"unborn", "check", "waiting", "exited"} => ~Holds(w)
    /\ \A w \in Worker : pc[w] = "executing" => Holds(w)
    /\ ToSet(_queue) \intersect (Held \union ToSet(executed) \union dropped) = {}
    /\ Held \intersect (ToSet(executed) \union dropped) = {}
    /\ ToSet(executed) \intersect dropped = {}
    /\ ToSet(pushed) = ToSet(_queue) \union Held \union ToSet(executed) \union dropped

(* In which order they were taken.                                         *)
OrderInv ==
    /\ Len(taken) <= Len(pushed)
    /\ \A i \in 1..Len(taken) : taken[i] = pushed[i]
    /\ ~_shutdown =>
        /\ Len(pushed) = Len(taken) + Len(_queue)
        /\ \A i \in 1..Len(_queue) : pushed[Len(taken) + i] = _queue[i]

PoolInv ==
    /\ TypeOK /\ OwnerInv /\ RunningInv /\ PlacesInv /\ OrderInv
    /\ ThreadsUseLiveConnections /\ NoLostWakeup

-----------------------------------------------------------------------------
(* Facts about the parts.                                                  *)

(* The workers of one attempt to open and the next.                        *)
LEMMA WorkerRange ==
    /\ AsyncThreads \in Nat \ {0}
    /\ Worker = 1..2 * AsyncThreads
    /\ \A n \in 0..2 : /\ AsyncThreads * n \in Nat
                       /\ AsyncThreads * n <= 2 * AsyncThreads
                       /\ n < 2 => AsyncThreads * n + 1 <= 2 * AsyncThreads
<1>1. AsyncThreads \in Nat \ {0}
  BY PoolAssumption
<1>2. AsyncThreads * MaxOpens = 2 * AsyncThreads
  BY <1>1 DEF MaxOpens
<1>3. AsyncThreads * 0 = 0 /\ AsyncThreads * 1 = AsyncThreads /\ AsyncThreads * 2 = 2 * AsyncThreads
  BY <1>1
<1>4. ASSUME NEW n \in 0..2
      PROVE  /\ AsyncThreads * n \in Nat
             /\ AsyncThreads * n <= 2 * AsyncThreads
             /\ n < 2 => AsyncThreads * n + 1 <= 2 * AsyncThreads
  <2>1. n = 0 \/ n = 1 \/ n = 2
    OBVIOUS
  <2>2. QED
    BY <1>1, <1>3, <2>1
<1>5. QED
  BY <1>1, <1>2, <1>4 DEF Worker

(* The pool's types, in the parts that an action touches.                  *)
QueueTypes == /\ _queue \in Seq(Operation) /\ _shutdown \in BOOLEAN
              /\ pushed \in Seq(Operation) /\ taken \in Seq(Operation)
              /\ executed \in Seq(Operation) /\ dropped \subseteq Operation
WorkerTypes ==
    /\ pc \in [Worker -> {"unborn", "check", "waiting", "popped", "executing", "exited"}]
    /\ operation \in [Worker -> Operation \union {none}]
    /\ _cancelationToken \in [Worker -> BOOLEAN]
OwnerTypes ==
    /\ _connections \in Seq(Worker)
    /\ pool \in {"closed", "connect", "connecting", "synch", "open", "failed",
                 "token", "cancel", "join", "ended"}
    /\ dying \in Seq(Worker)
    /\ afterwards \in {"closed", "connect", "failed", "ended"}
    /\ opens \in 0..2
    /\ nextWorker \in 1..2 * AsyncThreads + 1

(* The type invariant in three parts.                                      *)
LEMMA PoolTypes == /\ TypeOK <=> QueueTypes /\ WorkerTypes /\ OwnerTypes
                   /\ TypeOK' <=> QueueTypes' /\ WorkerTypes' /\ OwnerTypes'
<1>1. AsyncThreads * MaxOpens = 2 * AsyncThreads /\ MaxOpens = 2
  BY PoolAssumption DEF MaxOpens
<1>2. QED
  BY <1>1 DEF TypeOK, QueueTypes, WorkerTypes, OwnerTypes

(* A worker that holds an operation has popped it or executes it.          *)
LEMMA HeldLemma ==
    ASSUME NEW op
    PROVE  op \in Held <=> \E w \in Worker : Holds(w) /\ operation[w] = op
BY DEF Held

(* A prefix, element by element.                                           *)
LEMMA PrefixLemma ==
    ASSUME NEW S, NEW s \in Seq(S), NEW t \in Seq(S), Len(s) <= Len(t),
           \A i \in 1..Len(s) : s[i] = t[i]
    PROVE  IsPrefix(s, t)
<1> DEFINE u == SubSeq(t, 1, Len(s))
<1>1. Len(s) \in Nat /\ Len(t) \in Nat /\ \A i \in 1..Len(t) : t[i] \in S
  BY LenProperties, ElementOfSeq
<1>2. \A i \in 1..Len(s) : t[i] \in S
  BY <1>1
<1>3. /\ u \in Seq(S) /\ Len(u) = Len(s)
      /\ \A i \in 1..Len(s) : u[i] = t[i]
  <2>1. /\ u \in Seq(S) /\ Len(u) = IF 1 <= Len(s) THEN Len(s) - 1 + 1 ELSE 0
        /\ \A i \in 1..Len(s) - 1 + 1 : u[i] = t[1 + i - 1]
    BY <1>1, <1>2, SubSeqProperties
  <2>2. QED
    BY <1>1, <2>1
<1> HIDE DEF u
<1>4. s = u
  BY <1>1, <1>3, SeqEqual
<1>5. SubSeq(s, 1, Len(s)) = s
  BY SubSeqFull
<1>6. QED
  BY <1>4, <1>5 DEF IsPrefix, u

(* What Cancel leaves.                                                     *)
LEMMA CancelLemma ==
    ASSUME WorkerTypes, QueueTypes, Cancel
    PROVE  /\ _queue' = << >> /\ _shutdown' /\ dropped' = dropped \union ToSet(_queue)
           /\ dropped' \subseteq Operation
           /\ pc' \in [Worker -> {"unborn", "check", "waiting", "popped", "executing", "exited"}]
           /\ \A w \in Worker : pc'[w] # pc[w] => pc[w] = "waiting" /\ pc'[w] = "check"
<1>1. ToSet(_queue) \subseteq Operation
  BY ElementOfSeq, LenProperties DEF QueueTypes, ToSet
<1>2. pc' = [w \in Worker |-> IF pc[w] = "waiting" THEN "check" ELSE pc[w]]
  BY DEF Cancel, NotifyAll
<1>3. QED
  BY <1>1, <1>2 DEF Cancel, QueueTypes, WorkerTypes

(* What Push leaves.                                                       *)
LEMMA PushLemma ==
    ASSUME WorkerTypes, QueueTypes, NEW op \in Operation, Push(op)
    PROVE  /\ _queue' = Append(_queue, op) /\ UNCHANGED _shutdown
           /\ pc' \in [Worker -> {"unborn", "check", "waiting", "popped", "executing", "exited"}]
           /\ \A w \in Worker : pc'[w] # pc[w] => pc[w] = "waiting" /\ pc'[w] = "check"
           /\ (\A w \in Worker : pc[w] # "waiting") \/ \E w \in Worker : pc'[w] = "check"
<1>1. NotifyOne
  BY DEF Push
<1>2. CASE Waiting = {}
  BY <1>1, <1>2 DEF NotifyOne, Waiting, Push, QueueWith, WorkerTypes
<1>3. CASE Waiting # {}
  <2>1. PICK w \in Waiting : pc' = [pc EXCEPT ![w] = "check"]
    BY <1>1, <1>3 DEF NotifyOne
  <2>2. w \in Worker /\ pc[w] = "waiting"
    BY DEF Waiting
  <2>3. QED
    BY <2>1, <2>2 DEF Push, QueueWith, WorkerTypes
<1>4. QED
  BY <1>2, <1>3

-----------------------------------------------------------------------------
(* Types.                                                                  *)

(* The actions that leave the queue and the history alone.                 *)
OwnerOnly ==
    \/ Open \/ CreateConnection \/ ConnectionOpens
    \/ \E error \in MayFailToOpen : ConnectionFails(error)
    \/ SynchConnectionsOpen \/ SynchConnectionsFail
    \/ SetToken \/ Join \/ Close

(* A step of the pool is one of these.                                     *)
LEMMA StepCases ==
    ASSUME [Next]_vars
    PROVE  \/ UNCHANGED vars
           \/ OwnerOnly
           \/ DestroyPool \/ CancelQueue
           \/ \E op \in Operation : Enqueue(op)
           \/ \E w \in Worker : \/ WaitAndPop(w) \/ WorkerReturns(w) \/ BeginOperation(w)
                                 \/ EndOperation(w) \/ SpuriousWakeup(w)
BY DEF Next, WorkerStep, OwnerStep, OwnerOnly, Resting

(* Every step keeps the types.                                             *)
LEMMA TypesNext ==
    ASSUME TypeOK, OwnerInv, PlacesInv, [Next]_vars
    PROVE  TypeOK'
<1> USE PoolTypes, WorkerRange
<1>0. QueueTypes /\ WorkerTypes /\ OwnerTypes
  OBVIOUS
<1>1. CASE UNCHANGED vars
  BY <1>1 DEF vars, queueVars, workerVars, poolVars, history, QueueTypes, WorkerTypes, OwnerTypes
<1>2. CASE Open
  BY <1>2 DEF Open, queueVars, workerVars, history, QueueTypes, WorkerTypes, OwnerTypes
<1>3. CASE CreateConnection
  <2>1. nextWorker \in Worker /\ nextWorker <= 2 * AsyncThreads
    BY <1>3 DEF CreateConnection, OwnerTypes
  <2>2. QED
    BY <1>3, <2>1 DEF CreateConnection, queueVars, history, QueueTypes, WorkerTypes, OwnerTypes
<1>4. CASE ConnectionOpens
  <2>1. Append(_connections, nextWorker - 1) \in Seq(Worker)
    BY <1>4, AppendLemma DEF ConnectionOpens, OwnerInv, OwnerTypes
  <2>2. QED
    BY <1>4, <2>1 DEF ConnectionOpens, queueVars, workerVars, history, QueueTypes, WorkerTypes,
                      OwnerTypes
<1>5. ASSUME NEW error \in MayFailToOpen, ConnectionFails(error) PROVE TypeOK'
  <2>1. /\ Append(_connections, nextWorker - 1) \in Seq(Worker)
        /\ <<nextWorker - 1>> \in Seq(Worker) /\ << >> \in Seq(Worker)
    <3>1. nextWorker - 1 \in Worker /\ _connections \in Seq(Worker)
      BY <1>5 DEF ConnectionFails, OwnerInv, OwnerTypes
    <3> DEFINE n == nextWorker - 1
    <3> HIDE DEF n
    <3>2. n \in Worker
      BY <3>1 DEF n
    <3>3. Append(_connections, n) \in Seq(Worker) /\ <<n>> \in Seq(Worker)
      BY <3>1, <3>2, AppendLemma
    <3>4. QED
      BY <3>3 DEF n
  <2>2. dying' \in Seq(Worker) /\ _connections' \in Seq(Worker)
    BY <1>5, <2>1 DEF ConnectionFails, OwnerTypes
  <2>3. opens' \in 0..2 /\ nextWorker' \in 1..2 * AsyncThreads + 1
    <3>1. CASE MayRetry(error) /\ opens' = opens + 1 /\ nextWorker' = AsyncThreads * opens + 1
      <4>1. opens < 2
        BY <3>1 DEF MayRetry, MaxOpens
      <4>2. QED
        BY <3>1, <4>1 DEF OwnerTypes
    <3>2. CASE UNCHANGED <<opens, nextWorker>>
      BY <3>2 DEF OwnerTypes
    <3>3. QED
      BY <1>5, <3>1, <3>2 DEF ConnectionFails
  <2>4. QED
    BY <1>5, <2>2, <2>3 DEF ConnectionFails, queueVars, workerVars, history, QueueTypes,
                            WorkerTypes, OwnerTypes
<1>6. CASE SynchConnectionsOpen \/ SynchConnectionsFail
  BY <1>6 DEF SynchConnectionsOpen, SynchConnectionsFail, queueVars, workerVars, history,
              QueueTypes, WorkerTypes, OwnerTypes
<1>7. CASE SetToken
  BY <1>7 DEF SetToken, queueVars, history, QueueTypes, WorkerTypes, OwnerTypes
<1>8. CASE Join
  <2>1. dying # << >> /\ Tail(dying) \in Seq(Worker)
    BY <1>8, TailLemma DEF Join, OwnerInv, OwnerTypes
  <2>2. QED
    BY <1>8, <2>1 DEF Join, queueVars, workerVars, history, QueueTypes, WorkerTypes, OwnerTypes
<1>9. CASE Close
  BY <1>9 DEF Close, queueVars, workerVars, history, QueueTypes, WorkerTypes, OwnerTypes
<1>10. CASE DestroyPool \/ CancelQueue
  <2>1. Cancel /\ UNCHANGED <<operation, _cancelationToken, opens, nextWorker, pushed, taken, executed>>
    BY <1>10 DEF DestroyPool, CancelQueue
  <2>2. /\ _queue' = << >> /\ _shutdown' = TRUE /\ dropped' \subseteq Operation
        /\ pc' \in [Worker -> {"unborn", "check", "waiting", "popped", "executing", "exited"}]
    BY <1>0, <2>1, CancelLemma DEF Cancel
  <2>3. QueueTypes' /\ WorkerTypes'
    BY <1>0, <2>1, <2>2 DEF QueueTypes, WorkerTypes
  <2>4. /\ _connections' \in Seq(Worker) /\ dying' \in Seq(Worker)
        /\ pool' \in {"ended", "token", "join"} /\ afterwards' \in {"ended", afterwards}
    <3>1. << >> \in Seq(Worker)
      BY EmptySeq
    <3>2. CASE DestroyPool
      BY <1>0, <3>1, <3>2 DEF DestroyPool, OwnerTypes
    <3>3. CASE CancelQueue
      BY <1>0, <3>3 DEF CancelQueue, OwnerTypes
    <3>4. QED
      BY <1>10, <3>2, <3>3
  <2>5. OwnerTypes'
    BY <1>0, <2>1, <2>4 DEF OwnerTypes
  <2>6. QED
    BY <2>3, <2>5
<1>11. ASSUME NEW op \in Operation, Enqueue(op) PROVE TypeOK'
  <2>1. Push(op) /\ pushed' = Append(pushed, op)
        /\ UNCHANGED <<operation, _cancelationToken, poolVars, taken, executed, dropped>>
    BY <1>11 DEF Enqueue
  <2>2. /\ _queue' = Append(_queue, op) /\ UNCHANGED _shutdown
        /\ pc' \in [Worker -> {"unborn", "check", "waiting", "popped", "executing", "exited"}]
    BY <1>0, <2>1, PushLemma
  <2>3. Append(_queue, op) \in Seq(Operation) /\ Append(pushed, op) \in Seq(Operation)
    BY <1>0, AppendLemma DEF QueueTypes
  <2>4. QueueTypes' /\ WorkerTypes'
    BY <1>0, <2>1, <2>2, <2>3 DEF QueueTypes, WorkerTypes
  <2>5. OwnerTypes'
    BY <2>1 DEF OwnerTypes, poolVars
  <2>6. QED
    BY <2>4, <2>5
<1>12. ASSUME NEW w \in Worker, WaitAndPop(w) PROVE TypeOK'
  <2>1. _queue # << >> => /\ Head(_queue) \in Operation /\ Tail(_queue) \in Seq(Operation)
                          /\ Append(taken, Head(_queue)) \in Seq(Operation)
    BY TailLemma, AppendLemma DEF QueueTypes
  <2>2. QueueTypes' /\ WorkerTypes'
    <3>1. QueueTypes'
      BY <1>12, <2>1 DEF WaitAndPop, QueueAfterPop, queueVars, QueueTypes
    <3>2. WorkerTypes'
      BY <1>12, <2>1 DEF WaitAndPop, QueueAfterPop, queueVars, QueueTypes, WorkerTypes
    <3>3. QED
      BY <3>1, <3>2
  <2>3. OwnerTypes'
    BY <1>12 DEF WaitAndPop, OwnerTypes, poolVars
  <2>4. QED
    BY <2>2, <2>3
<1>13. ASSUME NEW w \in Worker, WorkerReturns(w) \/ BeginOperation(w) \/ SpuriousWakeup(w)
       PROVE  TypeOK'
  <2>1. OwnerTypes'
    BY <1>13 DEF WorkerReturns, BeginOperation, SpuriousWakeup, poolVars, OwnerTypes
  <2>2. WorkerTypes'
    BY <1>0, <1>13 DEF WorkerReturns, BeginOperation, SpuriousWakeup, WorkerTypes
  <2>3. dropped' \in {dropped, dropped \union ({operation[w]} \ {none})}
        /\ UNCHANGED <<_queue, _shutdown, pushed, taken, executed>>
    BY <1>13 DEF WorkerReturns, BeginOperation, SpuriousWakeup, queueVars, history
  <2>4. QueueTypes'
    BY <1>0, <2>3 DEF QueueTypes, WorkerTypes
  <2>5. QED
    BY <2>1, <2>2, <2>4
<1>14. ASSUME NEW w \in Worker, EndOperation(w) PROVE TypeOK'
  <2>1. executed' \in Seq(Operation)
    BY <1>14, AppendLemma DEF EndOperation, PlacesInv, Holds, QueueTypes, WorkerTypes
  <2>2. QED
    BY <1>14, <2>1 DEF EndOperation, queueVars, poolVars, QueueTypes, WorkerTypes, OwnerTypes
<1>15. QED
  BY StepCases, <1>1, <1>2, <1>3, <1>4, <1>5, <1>6, <1>7, <1>8, <1>9, <1>10, <1>11, <1>12, <1>13, <1>14
  DEF OwnerOnly

-----------------------------------------------------------------------------
(* The owner and the connections.                                          *)

(* The workers go on and the owner stands still: nobody is created and the *)
(* connections stay.                                                       *)
LEMMA OwnerStands ==
    ASSUME TypeOK, OwnerInv, UNCHANGED poolVars,
           \A w \in Worker : pc'[w] = "unborn" <=> pc[w] = "unborn"
    PROVE  OwnerInv'
<1>1. ToSet(_connections) \subseteq Worker
  BY LenProperties, ElementOfSeq, PoolTypes DEF ToSet, OwnerTypes
<1>2. QED
  BY <1>1 DEF OwnerInv, poolVars

(* Every step keeps the owner's invariant.                                 *)
LEMMA OwnerNext ==
    ASSUME TypeOK, OwnerInv, [Next]_vars
    PROVE  OwnerInv'
<1> USE PoolTypes, WorkerRange
<1>0. /\ QueueTypes /\ WorkerTypes /\ OwnerTypes
      /\ ToSet(_connections) \subseteq Worker /\ nextWorker \in Nat
  BY LenProperties, ElementOfSeq DEF ToSet, OwnerTypes
<1>1. CASE UNCHANGED vars
  BY <1>1, OwnerStands DEF vars, workerVars
<1>2. CASE Open
  <2>1. opens = 0 /\ opens' = 1 /\ nextWorker <= 1 /\ AsyncThreads * 1 = AsyncThreads
    BY <1>0, <1>2 DEF Open, OwnerInv
  <2>2. nextWorker' <= AsyncThreads * opens' + 1
    BY <1>0, <1>2, <2>1 DEF Open
  <2>3. QED
    BY <1>2, <2>1, <2>2 DEF Open, workerVars, OwnerInv
<1>3. CASE CreateConnection
  <2>1. nextWorker \in Worker /\ nextWorker <= AsyncThreads * opens /\ AsyncThreads * opens \in Nat
    BY <1>0, <1>3 DEF CreateConnection, OwnerTypes
  <2>2. /\ pc'[nextWorker] = "check" /\ nextWorker' = nextWorker + 1 /\ pool' = "connecting"
        /\ \A w \in Worker \ {nextWorker} : pc'[w] = pc[w]
        /\ UNCHANGED <<_connections, dying, opens>> /\ pool = "connect"
    BY <1>0, <1>3, <2>1 DEF CreateConnection, WorkerTypes
  <2>3. /\ \A w \in Worker : w >= nextWorker' => pc'[w] = "unborn"
        /\ \A w \in Worker : w = nextWorker' - 1 => pc'[w] # "unborn"
        /\ \A w \in ToSet(_connections) : pc'[w] # "unborn"
        /\ nextWorker' - 1 \in Worker
        /\ nextWorker' <= AsyncThreads * opens + 1
    BY <1>0, <2>1, <2>2 DEF OwnerInv
  <2>4. QED
    BY <2>2, <2>3 DEF OwnerInv
<1>4. CASE ConnectionOpens
  <2>1. /\ nextWorker - 1 \in Worker
        /\ ToSet(_connections') = ToSet(_connections) \union {nextWorker - 1}
        /\ Len(_connections') = Len(_connections) + 1
    BY <1>0, <1>4, AppendLemma DEF ConnectionOpens, OwnerInv, OwnerTypes
  <2>2. _connections' # << >>
    BY <1>0, <2>1, EmptySeq, LenProperties DEF OwnerTypes
  <2>3. QED
    BY <1>0, <1>4, <2>1, <2>2 DEF ConnectionOpens, workerVars, OwnerInv
<1>5. ASSUME NEW error \in MayFailToOpen, ConnectionFails(error) PROVE OwnerInv'
  <2>1. /\ pool = "connecting" /\ pool' = "token" /\ UNCHANGED pc
        /\ dying' # << >>
    <3>1. /\ Len(Append(_connections, nextWorker - 1)) = Len(_connections) + 1
          /\ Len(_connections) \in Nat
      BY <1>0, <1>5, AppendLemma, LenProperties DEF ConnectionFails, OwnerInv, OwnerTypes
    <3>2. Append(_connections, nextWorker - 1) # << >> /\ <<nextWorker - 1>> # << >>
      <4> DEFINE a == Append(_connections, nextWorker - 1)
                 b == <<nextWorker - 1>>
      <4>1. Len(a) # 0 /\ Len(b) = 1 /\ Len(<< >>) = 0
        BY <3>1
      <4> HIDE DEF a, b
      <4>2. a # << >> /\ b # << >>
        BY <4>1
      <4>3. QED
        BY <4>2 DEF a, b
    <3>3. QED
      BY <1>5, <3>2 DEF ConnectionFails, workerVars
  <2>2. ToSet(_connections') \subseteq ToSet(_connections)
    BY <1>5 DEF ConnectionFails, ToSet
  <2>3. /\ opens' > 0 /\ nextWorker' >= nextWorker
        /\ nextWorker' <= AsyncThreads * opens' + 1
    <3>1. opens \in 1..2 /\ nextWorker <= AsyncThreads * opens + 1
      BY <1>0, <2>1 DEF OwnerInv, OwnerTypes
    <3>2. CASE MayRetry(error) /\ opens' = opens + 1 /\ nextWorker' = AsyncThreads * opens + 1
      <4>1. opens = 1 /\ AsyncThreads * 1 = AsyncThreads /\ AsyncThreads * 2 = 2 * AsyncThreads
        BY <3>1, <3>2 DEF MayRetry, MaxOpens
      <4>2. QED
        BY <1>0, <3>1, <3>2, <4>1
    <3>3. CASE UNCHANGED <<opens, nextWorker>>
      BY <1>0, <3>1, <3>3
    <3>4. QED
      BY <1>5, <3>2, <3>3 DEF ConnectionFails
  <2>4. nextWorker' \in Int
    BY <1>0, <1>5 DEF ConnectionFails, OwnerTypes
  <2>5. \A w \in Worker : w >= nextWorker' => pc[w] = "unborn"
    BY <1>0, <2>3, <2>4 DEF OwnerInv
  <2>6. QED
    BY <2>1, <2>2, <2>3, <2>5 DEF OwnerInv
<1>6. CASE SynchConnectionsOpen \/ SynchConnectionsFail
  BY <1>6 DEF SynchConnectionsOpen, SynchConnectionsFail, workerVars, OwnerInv
<1>7. CASE SetToken
  BY <1>7 DEF SetToken, OwnerInv
<1>8. CASE Join
  <2>1. /\ dying # << >> /\ Len(dying) \in Nat \ {0} /\ Len(Tail(dying)) = Len(dying) - 1
        /\ Tail(dying) \in Seq(Worker)
    BY <1>0, <1>8, TailLemma, EmptySeq DEF Join, OwnerInv, OwnerTypes
  <2>2. dying' = << >> <=> Len(dying) = 1
    <3> DEFINE rest == Tail(dying)
    <3>1. rest \in Seq(Worker) /\ Len(rest) = Len(dying) - 1 /\ dying' = rest
      BY <1>8, <2>1 DEF Join
    <3> HIDE DEF rest
    <3>2. rest = << >> <=> Len(rest) = 0
      BY <3>1, EmptySeq
    <3>3. QED
      BY <2>1, <3>1, <3>2
  <2>3. /\ pool' \in {"token", "closed", "connect", "failed", "ended"}
        /\ pool' = "token" <=> dying' # << >>
    BY <1>0, <1>8, <2>2 DEF Join, OwnerTypes
  <2>4. QED
    BY <1>8, <2>3 DEF Join, workerVars, OwnerInv
<1>9. CASE Close
  BY <1>9 DEF Close, workerVars, OwnerInv, ToSet
<1>10. CASE DestroyPool \/ CancelQueue
  <2>1. \A w \in Worker : pc'[w] = "unborn" <=> pc[w] = "unborn"
    BY <1>0, <1>10, CancelLemma DEF DestroyPool, CancelQueue
  <2>2. CASE DestroyPool
    BY <1>0, <2>1, <2>2 DEF DestroyPool, OwnerInv, ToSet
  <2>3. CASE CancelQueue
    BY <1>0, <2>1, <2>3 DEF CancelQueue, OwnerInv
  <2>4. QED
    BY <1>10, <2>2, <2>3
<1>11. ASSUME NEW op \in Operation, Enqueue(op) PROVE OwnerInv'
  <2>1. \A w \in Worker : pc'[w] = "unborn" <=> pc[w] = "unborn"
    BY <1>0, <1>11, PushLemma DEF Enqueue
  <2>2. QED
    BY <1>11, <2>1, OwnerStands DEF Enqueue
<1>12. ASSUME NEW w \in Worker, \/ WaitAndPop(w) \/ WorkerReturns(w) \/ BeginOperation(w)
                                \/ EndOperation(w) \/ SpuriousWakeup(w)
       PROVE  OwnerInv'
  <2>1. /\ UNCHANGED poolVars
        /\ \A v \in Worker : pc'[v] = "unborn" <=> pc[v] = "unborn"
    BY <1>0, <1>12 DEF WaitAndPop, WorkerReturns, BeginOperation, EndOperation, SpuriousWakeup,
                       WorkerTypes
  <2>2. QED
    BY <2>1, OwnerStands
<1>13. QED
  BY StepCases, <1>1, <1>2, <1>3, <1>4, <1>5, <1>6, <1>7, <1>8, <1>9, <1>10, <1>11, <1>12
  DEF OwnerOnly

(* Every step keeps threads away from connections that are gone.           *)
LEMMA LiveNext ==
    ASSUME TypeOK, OwnerInv, ThreadsUseLiveConnections, [Next]_vars
    PROVE  ThreadsUseLiveConnections'
<1> USE PoolTypes, WorkerRange
<1>0. /\ QueueTypes /\ WorkerTypes /\ OwnerTypes /\ nextWorker \in Nat
  BY DEF OwnerTypes
<1>1. ASSUME UNCHANGED poolVars,
             \A w \in Worker : pc'[w] \notin {"unborn", "exited"} => pc[w] \notin {"unborn", "exited"}
      PROVE  ThreadsUseLiveConnections'
  BY <1>1 DEF ThreadsUseLiveConnections, Connected, poolVars
<1>2. ASSUME UNCHANGED pc, Connected \subseteq Connected'
      PROVE  ThreadsUseLiveConnections'
  BY <1>2 DEF ThreadsUseLiveConnections
<1>3. CASE UNCHANGED vars
  BY <1>1, <1>3 DEF vars, workerVars
<1>4. CASE Open \/ SynchConnectionsOpen \/ SynchConnectionsFail \/ SetToken
  BY <1>2, <1>4 DEF Open, SynchConnectionsOpen, SynchConnectionsFail, SetToken, Connected, workerVars
<1>5. CASE CreateConnection
  <2>1. nextWorker \in Worker
    BY <1>0, <1>5 DEF CreateConnection, OwnerTypes
  <2>2. /\ \A w \in Worker \ {nextWorker} : pc'[w] = pc[w]
        /\ Connected' = Connected \union {nextWorker}
    BY <1>0, <1>5, <2>1 DEF CreateConnection, Connected, WorkerTypes
  <2>3. QED
    BY <2>2 DEF ThreadsUseLiveConnections
<1>6. CASE ConnectionOpens
  <2>1. ToSet(_connections') = ToSet(_connections) \union {nextWorker - 1}
    BY <1>0, <1>6, AppendLemma DEF ConnectionOpens, OwnerInv, OwnerTypes
  <2>2. QED
    BY <1>2, <1>6, <2>1 DEF ConnectionOpens, Connected, workerVars
<1>7. ASSUME NEW error \in MayFailToOpen, ConnectionFails(error)
      PROVE  ThreadsUseLiveConnections'
  <2>1. /\ pool = "connecting" /\ dying = << >> /\ nextWorker - 1 \in Worker
        /\ UNCHANGED pc
    BY <1>7 DEF ConnectionFails, OwnerInv, workerVars
  <2>2. /\ ToSet(Append(_connections, nextWorker - 1)) = ToSet(_connections) \union {nextWorker - 1}
        /\ ToSet(<<nextWorker - 1>>) = {nextWorker - 1} /\ ToSet(<< >>) = {}
    <3>1. ToSet(<<nextWorker - 1>>) = {nextWorker - 1} /\ ToSet(<< >>) = {}
      BY DEF ToSet
    <3>2. QED
      BY <1>0, <2>1, <3>1, AppendLemma DEF OwnerTypes
  <2>3. Connected \subseteq Connected'
    <3>1. CASE error = "tooOld"
      BY <1>7, <2>1, <2>2, <3>1 DEF ConnectionFails, Connected
    <3>2. CASE error # "tooOld"
      BY <1>7, <2>1, <2>2, <3>2 DEF ConnectionFails, Connected
    <3>3. QED
      BY <3>1, <3>2
  <2>4. QED
    BY <1>2, <2>1, <2>3
<1>8. CASE Join
  <2>1. dying # << >> /\ ToSet(dying) = ToSet(Tail(dying)) \union {Head(dying)}
    BY <1>0, <1>8, TailLemma DEF Join, OwnerInv, OwnerTypes
  <2>2. /\ pool = "join" /\ pool' # "connecting" /\ pc[Head(dying)] = "exited" /\ UNCHANGED pc
        /\ dying' = Tail(dying) /\ UNCHANGED _connections
    BY <1>0, <1>8 DEF Join, MayJoin, workerVars, OwnerTypes
  <2>3. Connected \subseteq Connected' \union {Head(dying)}
    BY <2>1, <2>2 DEF Connected
  <2>4. QED
    BY <2>2, <2>3 DEF ThreadsUseLiveConnections
<1>9. CASE Close
  <2>1. dying = << >> /\ ToSet(<< >>) = {}
    BY <1>9 DEF Close, OwnerInv, ToSet
  <2>2. Connected \subseteq Connected'
    BY <1>9, <2>1 DEF Close, Connected
  <2>3. QED
    BY <1>2, <1>9, <2>2 DEF Close, workerVars
<1>10. CASE DestroyPool \/ CancelQueue
  <2>1. \A w \in Worker : pc'[w] \notin {"unborn", "exited"} => pc[w] \notin {"unborn", "exited"}
    BY <1>0, <1>10, CancelLemma DEF DestroyPool, CancelQueue
  <2>2. Connected \subseteq Connected'
    <3>1. CASE DestroyPool
      <4>1. dying = << >> /\ ToSet(<< >>) = {}
        BY <3>1 DEF DestroyPool, OwnerInv, ToSet
      <4>2. QED
        BY <3>1, <4>1 DEF DestroyPool, Connected
    <3>2. CASE CancelQueue
      BY <3>2 DEF CancelQueue, Connected
    <3>3. QED
      BY <1>10, <3>1, <3>2
  <2>3. QED
    BY <2>1, <2>2 DEF ThreadsUseLiveConnections
<1>11. ASSUME NEW op \in Operation, Enqueue(op) PROVE ThreadsUseLiveConnections'
  <2>1. \A w \in Worker : pc'[w] \notin {"unborn", "exited"} => pc[w] \notin {"unborn", "exited"}
    BY <1>0, <1>11, PushLemma DEF Enqueue
  <2>2. QED
    BY <1>1, <1>11, <2>1 DEF Enqueue
<1>12. ASSUME NEW w \in Worker, \/ WaitAndPop(w) \/ WorkerReturns(w) \/ BeginOperation(w)
                                \/ EndOperation(w) \/ SpuriousWakeup(w)
       PROVE  ThreadsUseLiveConnections'
  <2>1. /\ UNCHANGED poolVars
        /\ \A v \in Worker :
              pc'[v] \notin {"unborn", "exited"} => pc[v] \notin {"unborn", "exited"}
    BY <1>0, <1>12 DEF WaitAndPop, WorkerReturns, BeginOperation, EndOperation, SpuriousWakeup,
                       WorkerTypes
  <2>2. QED
    BY <1>1, <2>1
<1>13. QED
  BY StepCases, <1>3, <1>4, <1>5, <1>6, <1>7, <1>8, <1>9, <1>10, <1>11, <1>12 DEF OwnerOnly

-----------------------------------------------------------------------------
(* The shutdown of the queue and the waiting workers.                      *)

(* Every step keeps the workers at work until the queue is cancelled.      *)
LEMMA RunningNext ==
    ASSUME TypeOK, RunningInv, [Next]_vars
    PROVE  RunningInv'
<1> USE PoolTypes
<1>0. QueueTypes /\ WorkerTypes /\ OwnerTypes
  OBVIOUS
<1>1. CASE UNCHANGED vars
  BY <1>1 DEF vars, queueVars, workerVars, poolVars, RunningInv
<1>2. CASE OwnerOnly
  <2>1. /\ UNCHANGED <<_shutdown, operation>>
        /\ \A w \in Worker : pc'[w] # pc[w] => pc'[w] = "check"
    BY <1>0, <1>2
    DEF OwnerOnly, Open, CreateConnection, ConnectionOpens, ConnectionFails, SynchConnectionsOpen,
        SynchConnectionsFail, SetToken, Join, Close, queueVars, workerVars, WorkerTypes
  <2>2. CASE SetToken
    BY <2>1, <2>2 DEF SetToken, RunningInv
  <2>3. CASE Join
    BY <2>1, <2>3 DEF Join, RunningInv
  <2>4. CASE ~SetToken /\ ~Join
    <3>1. pool # "cancel" /\ pool' # "join" /\ UNCHANGED _cancelationToken
      BY <1>2, <2>4
      DEF OwnerOnly, Open, CreateConnection, ConnectionOpens, ConnectionFails,
          SynchConnectionsOpen, SynchConnectionsFail, Close, workerVars
    <3>2. QED
      BY <2>1, <3>1 DEF RunningInv
  <2>5. QED
    BY <2>2, <2>3, <2>4
<1>3. CASE DestroyPool \/ CancelQueue
  BY <1>3 DEF DestroyPool, CancelQueue, Cancel, RunningInv
<1>4. ASSUME NEW op \in Operation, Enqueue(op) PROVE RunningInv'
  <2>1. /\ UNCHANGED <<_shutdown, operation, _cancelationToken, pool>>
        /\ \A w \in Worker : pc'[w] # pc[w] => pc'[w] = "check"
    BY <1>0, <1>4, PushLemma DEF Enqueue, poolVars
  <2>2. QED
    BY <2>1 DEF RunningInv
<1>5. ASSUME NEW w \in Worker, WaitAndPop(w) PROVE RunningInv'
  <2>1. /\ UNCHANGED <<_shutdown, _cancelationToken, pool>>
        /\ \A v \in Worker \ {w} : pc'[v] = pc[v] /\ operation'[v] = operation[v]
        /\ pc'[w] \in {"waiting", "popped"}
        /\ pc'[w] = "popped" /\ ~_shutdown => operation'[w] = Head(_queue) /\ _queue # << >>
    BY <1>0, <1>5 DEF WaitAndPop, queueVars, poolVars, WorkerTypes
  <2>2. _queue # << >> => Head(_queue) \in Operation
    BY <1>0, TailLemma DEF QueueTypes
  <2>3. none \notin Operation
    BY PoolAssumption
  <2>4. QED
    BY <2>1, <2>2, <2>3 DEF RunningInv
<1>6. ASSUME NEW w \in Worker, WorkerReturns(w) PROVE RunningInv'
  <2>1. /\ UNCHANGED <<_shutdown, _cancelationToken, pool>> /\ pc[w] = "popped"
        /\ \A v \in Worker \ {w} : pc'[v] = pc[v] /\ operation'[v] = operation[v]
        /\ _cancelationToken[w] \/ operation[w] = none
    BY <1>0, <1>6 DEF WorkerReturns, queueVars, poolVars, WorkerTypes
  <2>2. pc'[w] = "exited"
    BY <1>0, <1>6 DEF WorkerReturns, WorkerTypes
  <2>3. QED
    BY <2>1, <2>2 DEF RunningInv
<1>7. ASSUME NEW w \in Worker, BeginOperation(w) \/ EndOperation(w) \/ SpuriousWakeup(w)
      PROVE  RunningInv'
  <2>1. /\ UNCHANGED <<_shutdown, _cancelationToken, pool>>
        /\ \A v \in Worker \ {w} : pc'[v] = pc[v] /\ operation'[v] = operation[v]
        /\ pc'[w] \in {"executing", "check"}
    BY <1>0, <1>7 DEF BeginOperation, EndOperation, SpuriousWakeup, queueVars, poolVars, WorkerTypes
  <2>2. QED
    BY <2>1 DEF RunningInv
<1>8. QED
  BY StepCases, <1>1, <1>2, <1>3, <1>4, <1>5, <1>6, <1>7

(* Every step leaves a worker on the way to an operation that waits.       *)
LEMMA WakeNext ==
    ASSUME TypeOK, OwnerInv, RunningInv, NoLostWakeup, [Next]_vars
    PROVE  NoLostWakeup'
<1> USE PoolTypes
<1> DEFINE Awake(w) == pc[w] \in {"check", "popped", "executing"}
<1>0. QueueTypes /\ WorkerTypes /\ OwnerTypes
  OBVIOUS
<1>1. ASSUME UNCHANGED <<_queue, _shutdown>>, pool # "cancel" \/ pool' = "cancel",
             \A w \in Worker : Awake(w) => Awake(w)'
      PROVE  NoLostWakeup'
  BY <1>1 DEF NoLostWakeup
<1>2. CASE UNCHANGED vars
  BY <1>1, <1>2 DEF vars, queueVars, workerVars, poolVars
<1>3. CASE OwnerOnly
  <2>1. UNCHANGED <<_queue, _shutdown>> /\ pool # "cancel"
    BY <1>3
    DEF OwnerOnly, Open, CreateConnection, ConnectionOpens, ConnectionFails, SynchConnectionsOpen,
        SynchConnectionsFail, SetToken, Join, Close, queueVars
  <2>2. \A w \in Worker : pc'[w] # pc[w] => pc'[w] = "check"
    BY <1>0, <1>3
    DEF OwnerOnly, Open, CreateConnection, ConnectionOpens, ConnectionFails, SynchConnectionsOpen,
        SynchConnectionsFail, SetToken, Join, Close, workerVars, WorkerTypes
  <2>3. QED
    BY <1>1, <2>1, <2>2
<1>4. CASE DestroyPool \/ CancelQueue
  BY <1>4 DEF DestroyPool, CancelQueue, Cancel, NoLostWakeup
<1>5. ASSUME NEW op \in Operation, Enqueue(op) PROVE NoLostWakeup'
  <2>1. /\ UNCHANGED _shutdown /\ pool = "open"
        /\ \A w \in Worker : pc'[w] # pc[w] => pc'[w] = "check"
        /\ (\A w \in Worker : pc[w] # "waiting") \/ \E w \in Worker : pc'[w] = "check"
    BY <1>0, <1>5, PushLemma DEF Enqueue, poolVars
  <2>2. PICK w \in Worker : pc[w] # "unborn"
    <3>1. _connections # << >> /\ _connections \in Seq(Worker)
      BY <1>0, <2>1 DEF OwnerInv, OwnerTypes
    <3>2. Head(_connections) \in Worker /\ Head(_connections) \in ToSet(_connections)
      BY <3>1, TailLemma
    <3>3. QED
      BY <3>2 DEF OwnerInv
  <2>3. ~_shutdown => pc[w] # "exited"
    BY <2>1 DEF RunningInv
  <2>4. ~_shutdown => \E v \in Worker : Awake(v)'
    BY <1>0, <2>1, <2>2, <2>3 DEF WorkerTypes
  <2>5. QED
    BY <2>1, <2>4 DEF NoLostWakeup
<1>6. ASSUME NEW w \in Worker, WaitAndPop(w) PROVE NoLostWakeup'
  <2>1. /\ UNCHANGED _shutdown
        /\ \/ _queue' = << >>
           \/ pc'[w] = "popped"
    BY <1>0, <1>6 DEF WaitAndPop, queueVars, WorkerTypes
  <2>2. QED
    BY <2>1 DEF NoLostWakeup
<1>7. ASSUME NEW w \in Worker, WorkerReturns(w) PROVE NoLostWakeup'
  <2>1. /\ UNCHANGED <<_queue, _shutdown, pool>> /\ pc[w] = "popped"
        /\ _cancelationToken[w] \/ operation[w] = none
    BY <1>7 DEF WorkerReturns, queueVars, poolVars
  <2>2. _shutdown \/ pool = "cancel"
    BY <2>1 DEF RunningInv
  <2>3. QED
    BY <2>1, <2>2 DEF NoLostWakeup
<1>8. ASSUME NEW w \in Worker, BeginOperation(w) \/ EndOperation(w) \/ SpuriousWakeup(w)
      PROVE  NoLostWakeup'
  <2>1. /\ UNCHANGED <<_queue, _shutdown, pool>>
        /\ \A v \in Worker : pc'[v] = pc[v] \/ pc'[v] \in {"executing", "check"}
    BY <1>0, <1>8 DEF BeginOperation, EndOperation, SpuriousWakeup, queueVars, poolVars, history,
                      WorkerTypes
  <2>2. \A v \in Worker : Awake(v) => Awake(v)'
    BY <2>1
  <2>3. QED
    BY <1>1, <2>1, <2>2
<1>9. QED
  BY StepCases, <1>2, <1>3, <1>4, <1>5, <1>6, <1>7, <1>8

-----------------------------------------------------------------------------
(* The order of the operations.                                            *)

(* Every step keeps taken a prefix of pushed, and the queue what is left.  *)
LEMMA OrderNext ==
    ASSUME TypeOK, OrderInv, [Next]_vars
    PROVE  OrderInv'
<1> USE PoolTypes
<1>0. /\ QueueTypes /\ WorkerTypes /\ OwnerTypes
      /\ Len(pushed) \in Nat /\ Len(taken) \in Nat /\ Len(_queue) \in Nat
  BY LenProperties DEF QueueTypes
<1>1. ASSUME UNCHANGED <<_queue, _shutdown, pushed, taken>> PROVE OrderInv'
  BY <1>1 DEF OrderInv
<1>2. CASE UNCHANGED vars \/ OwnerOnly
  BY <1>1, <1>2
  DEF OwnerOnly, Open, CreateConnection, ConnectionOpens, ConnectionFails, SynchConnectionsOpen,
      SynchConnectionsFail, SetToken, Join, Close, vars, queueVars, history
<1>3. CASE DestroyPool \/ CancelQueue
  BY <1>3 DEF DestroyPool, CancelQueue, Cancel, OrderInv
<1>4. ASSUME NEW op \in Operation, Enqueue(op) PROVE OrderInv'
  <2> DEFINE more == Append(pushed, op)
             waits == Append(_queue, op)
  <2>1. /\ UNCHANGED <<_shutdown, taken>> /\ pushed' = more /\ _queue' = waits
    BY <1>0, <1>4, PushLemma DEF Enqueue
  <2>2. /\ Len(more) = Len(pushed) + 1
        /\ \A i \in 1..Len(pushed) : more[i] = pushed[i]
        /\ more[Len(pushed) + 1] = op
        /\ Len(waits) = Len(_queue) + 1
        /\ \A i \in 1..Len(_queue) : waits[i] = _queue[i]
        /\ waits[Len(_queue) + 1] = op
    BY <1>0 DEF QueueTypes
  <2> HIDE DEF more, waits
  <2>3. Len(taken) <= Len(more) /\ \A i \in 1..Len(taken) : taken[i] = more[i]
    BY <1>0, <2>2 DEF OrderInv
  <2>4. ASSUME ~_shutdown
        PROVE  /\ Len(more) = Len(taken) + Len(waits)
               /\ \A i \in 1..Len(waits) : more[Len(taken) + i] = waits[i]
    <3>1. Len(pushed) = Len(taken) + Len(_queue)
      BY <2>4 DEF OrderInv
    <3>2. ASSUME NEW i \in 1..Len(waits) PROVE more[Len(taken) + i] = waits[i]
      <4>1. CASE i = Len(_queue) + 1
        <5>1. Len(taken) + i = Len(pushed) + 1
          BY <1>0, <3>1, <4>1
        <5>2. QED
          BY <2>2, <4>1, <5>1
      <4>2. CASE i \in 1..Len(_queue)
        BY <1>0, <2>2, <2>4, <3>1, <4>2, Len(taken) + i \in 1..Len(pushed) DEF OrderInv
      <4>3. QED
        BY <1>0, <2>2, <4>1, <4>2
    <3>3. QED
      BY <1>0, <2>2, <3>1, <3>2
  <2>5. QED
    BY <2>1, <2>3, <2>4 DEF OrderInv
<1>5. ASSUME NEW w \in Worker, WaitAndPop(w) PROVE OrderInv'
  <2>1. CASE UNCHANGED <<_queue, _shutdown, pushed, taken>>
    BY <1>1, <2>1
  <2>2. CASE /\ _queue # << >> /\ ~_shutdown /\ UNCHANGED <<_shutdown, pushed>>
             /\ _queue' = Tail(_queue) /\ taken' = Append(taken, Head(_queue))
    <3> DEFINE rest == Tail(_queue)
               more == Append(taken, Head(_queue))
    <3>1. /\ Head(_queue) = _queue[1] /\ Len(_queue) \in Nat \ {0} /\ Head(_queue) \in Operation
          /\ Len(rest) = Len(_queue) - 1 /\ \A i \in 1..Len(rest) : rest[i] = _queue[i + 1]
      BY <1>0, <2>2, HeadTailProperties, EmptySeq DEF QueueTypes
    <3>2. /\ Len(more) = Len(taken) + 1
          /\ \A i \in 1..Len(taken) : more[i] = taken[i]
          /\ more[Len(taken) + 1] = Head(_queue)
      BY <1>0, <3>1 DEF QueueTypes
    <3>3. rest = _queue' /\ more = taken'
      BY <2>2
    <3> HIDE DEF rest, more
    <3>4. /\ Len(pushed) = Len(taken) + Len(_queue)
          /\ \A i \in 1..Len(_queue) : pushed[Len(taken) + i] = _queue[i]
      BY <2>2 DEF OrderInv
    <3>5. pushed[Len(taken) + 1] = _queue[1]
      BY <3>1, <3>4
    <3>6. ASSUME NEW i \in 1..Len(more) PROVE more[i] = pushed[i]
      <4>1. CASE i = Len(taken) + 1
        BY <3>1, <3>2, <3>5, <4>1
      <4>2. CASE i \in 1..Len(taken)
        BY <3>2, <4>2 DEF OrderInv
      <4>3. QED
        BY <1>0, <3>2, <4>1, <4>2
    <3>7. ASSUME NEW i \in 1..Len(rest) PROVE pushed[Len(more) + i] = rest[i]
      <4>1. i + 1 \in 1..Len(_queue) /\ Len(more) + i = Len(taken) + (i + 1)
        BY <1>0, <3>1, <3>2
      <4>2. QED
        BY <3>1, <3>4, <4>1
    <3>8. Len(more) <= Len(pushed) /\ Len(pushed) = Len(more) + Len(rest)
      BY <1>0, <3>1, <3>2, <3>4
    <3>9. QED
      BY <2>2, <3>3, <3>6, <3>7, <3>8 DEF OrderInv
  <2>3. QED
    BY <1>5, <2>1, <2>2 DEF WaitAndPop, QueueAfterPop, queueVars
<1>6. ASSUME NEW w \in Worker, \/ WorkerReturns(w) \/ BeginOperation(w)
                               \/ EndOperation(w) \/ SpuriousWakeup(w)
      PROVE  OrderInv'
  BY <1>1, <1>6 DEF WorkerReturns, BeginOperation, EndOperation, SpuriousWakeup, queueVars, history
<1>7. QED
  BY StepCases, <1>2, <1>3, <1>4, <1>5, <1>6

-----------------------------------------------------------------------------
(* The places of the operations.                                           *)

(* A step that moves no operation leaves each where it is.                 *)
LEMMA PlacesStand ==
    ASSUME PlacesInv, UNCHANGED <<_queue, operation, executed, dropped, pushed>>,
           \A w \in Worker : pc'[w] # pc[w] =>
              \/ pc[w] \in {"unborn", "check", "waiting"} /\ pc'[w] \in {"check", "waiting"}
              \/ pc[w] \in {"unborn", "check", "waiting"} /\ pc'[w] = "popped"
              \/ Holds(w) /\ pc'[w] = "executing"
    PROVE  PlacesInv'
<1>1. \A w \in Worker : Holds(w)' <=> Holds(w)
  BY DEF Holds
<1>2. Held' = Held
  BY <1>1 DEF Held
<1>3. /\ \A w \in Worker : pc'[w] \in {"unborn", "check", "waiting", "exited"} => ~Holds(w)'
      /\ \A w \in Worker : pc'[w] = "executing" => Holds(w)'
      /\ \A v, w \in Worker : Holds(v)' /\ operation'[v] = operation'[w] => v = w
  BY <1>1 DEF PlacesInv
<1>4. QED
  BY <1>2, <1>3 DEF PlacesInv

(* Every step moves at most one operation, to one place.                   *)
LEMMA PlacesNext ==
    ASSUME TypeOK, OwnerInv, PlacesInv, [Next]_vars
    PROVE  PlacesInv'
<1> USE PoolTypes
<1>0. /\ QueueTypes /\ WorkerTypes /\ none \notin Operation
      /\ Held \subseteq Operation
  BY PoolAssumption DEF Held, Holds, WorkerTypes
<1>1. CASE UNCHANGED vars \/ OwnerOnly
  <2>1. UNCHANGED <<_queue, operation, executed, dropped, pushed>>
    BY <1>1
    DEF OwnerOnly, Open, CreateConnection, ConnectionOpens, ConnectionFails, SynchConnectionsOpen,
        SynchConnectionsFail, SetToken, Join, Close, vars, queueVars, workerVars, history
  <2>2. CASE UNCHANGED pc
    BY <2>1, <2>2, PlacesStand
  <2>3. CASE CreateConnection
    <3>1. nextWorker \in Worker /\ pc[nextWorker] = "unborn"
      BY <2>3, WorkerRange DEF CreateConnection, OwnerInv, OwnerTypes
    <3>2. \A w \in Worker : pc'[w] # pc[w] => pc[w] = "unborn" /\ pc'[w] = "check"
      BY <1>0, <2>3, <3>1 DEF CreateConnection, WorkerTypes
    <3>3. QED
      BY <2>1, <3>2, PlacesStand
  <2>4. QED
    BY <1>1, <2>2, <2>3
    DEF OwnerOnly, Open, ConnectionOpens, ConnectionFails, SynchConnectionsOpen,
        SynchConnectionsFail, SetToken, Join, Close, vars, workerVars
<1>2. CASE DestroyPool \/ CancelQueue
  <2>1. /\ _queue' = << >> /\ dropped' = dropped \union ToSet(_queue)
        /\ \A w \in Worker : pc'[w] # pc[w] => pc[w] = "waiting" /\ pc'[w] = "check"
        /\ UNCHANGED <<operation, executed, pushed>>
    BY <1>0, <1>2, CancelLemma DEF DestroyPool, CancelQueue
  <2>2. /\ \A w \in Worker : Holds(w)' <=> Holds(w)
        /\ ToSet(<< >>) = {} /\ IsInjective(<< >>)
    BY <2>1 DEF Holds, ToSet, IsInjective
  <2>3. Held' = Held
    BY <2>1, <2>2 DEF Held
  <2>4. /\ \A w \in Worker : pc'[w] \in {"unborn", "check", "waiting", "exited"} => ~Holds(w)'
        /\ \A w \in Worker : pc'[w] = "executing" => Holds(w)'
        /\ \A v, w \in Worker : Holds(v)' /\ operation'[v] = operation'[w] => v = w
    BY <2>1, <2>2 DEF PlacesInv
  <2>5. /\ ToSet(_queue') \intersect (Held' \union ToSet(executed') \union dropped') = {}
        /\ Held' \intersect (ToSet(executed') \union dropped') = {}
        /\ ToSet(executed') \intersect dropped' = {}
        /\ ToSet(pushed') = ToSet(_queue') \union Held' \union ToSet(executed') \union dropped'
    BY <2>1, <2>2, <2>3 DEF PlacesInv
  <2>6. IsInjective(_queue') /\ IsInjective(executed')
    BY <2>1, <2>2 DEF PlacesInv
  <2>7. QED
    BY <2>4, <2>5, <2>6 DEF PlacesInv
<1>3. ASSUME NEW op \in Operation, Enqueue(op) PROVE PlacesInv'
  <2>1. /\ _queue' = Append(_queue, op) /\ pushed' = Append(pushed, op) /\ op \notin ToSet(pushed)
        /\ \A w \in Worker : pc'[w] # pc[w] => pc[w] = "waiting" /\ pc'[w] = "check"
        /\ UNCHANGED <<operation, executed, dropped>>
    BY <1>0, <1>3, PushLemma DEF Enqueue
  <2>2. /\ ToSet(_queue') = ToSet(_queue) \union {op}
        /\ ToSet(pushed') = ToSet(pushed) \union {op}
        /\ IsInjective(_queue')
    BY <1>0, <2>1, AppendLemma DEF QueueTypes, PlacesInv
  <2>3. \A w \in Worker : Holds(w)' <=> Holds(w)
    BY <2>1 DEF Holds
  <2>4. Held' = Held
    BY <2>1, <2>3 DEF Held
  <2>5. /\ \A w \in Worker : pc'[w] \in {"unborn", "check", "waiting", "exited"} => ~Holds(w)'
        /\ \A w \in Worker : pc'[w] = "executing" => Holds(w)'
        /\ \A v, w \in Worker : Holds(v)' /\ operation'[v] = operation'[w] => v = w
    BY <2>1, <2>3 DEF PlacesInv
  <2>6. op \notin ToSet(_queue) \union Held \union ToSet(executed) \union dropped
    BY <2>1 DEF PlacesInv
  <2>7. /\ ToSet(_queue') \intersect (Held' \union ToSet(executed') \union dropped') = {}
        /\ Held' \intersect (ToSet(executed') \union dropped') = {}
        /\ ToSet(executed') \intersect dropped' = {}
        /\ ToSet(pushed') = ToSet(_queue') \union Held' \union ToSet(executed') \union dropped'
    BY <2>1, <2>2, <2>4, <2>6 DEF PlacesInv
  <2>8. QED
    BY <2>1, <2>2, <2>5, <2>7 DEF PlacesInv
<1>4. ASSUME NEW w \in Worker, WaitAndPop(w) PROVE PlacesInv'
  <2>1. pc[w] = "check" /\ ~Holds(w) /\ UNCHANGED <<pushed, executed, dropped>>
    BY <1>4 DEF WaitAndPop, PlacesInv
  <2>2. CASE UNCHANGED <<_queue, operation>>
    BY <1>0, <1>4, <2>1, <2>2, PlacesStand DEF WaitAndPop, WorkerTypes
  <2>3. CASE _shutdown /\ operation' = [operation EXCEPT ![w] = none]
    <3>1. operation' = operation /\ UNCHANGED _queue
      BY <1>0, <1>4, <2>1, <2>3 DEF WaitAndPop, Holds, WorkerTypes, queueVars
    <3>2. QED
      BY <2>2, <3>1
  <2>4. CASE /\ _queue # << >> /\ _queue' = Tail(_queue)
             /\ operation' = [operation EXCEPT ![w] = Head(_queue)]
             /\ pc' = [pc EXCEPT ![w] = "popped"]
    <3> DEFINE h == Head(_queue)
    <3>1. /\ h \in Operation /\ ToSet(_queue) = ToSet(_queue') \union {h}
          /\ IsInjective(_queue') /\ h \notin ToSet(_queue')
      BY <1>0, <2>4, TailLemma DEF QueueTypes, PlacesInv
    <3>2. /\ operation'[w] = h /\ pc'[w] = "popped"
          /\ \A v \in Worker \ {w} : operation'[v] = operation[v] /\ pc'[v] = pc[v]
      BY <1>0, <2>4 DEF WorkerTypes
    <3> HIDE DEF h
    <3>3. /\ Holds(w)' /\ \A v \in Worker \ {w} : Holds(v)' <=> Holds(v)
      BY <1>0, <3>1, <3>2 DEF Holds
    <3>4. Held' = Held \union {h}
      BY <2>1, <3>2, <3>3 DEF Held
    <3>5. h \notin Held \union ToSet(executed) \union dropped
      BY <3>1 DEF PlacesInv
    <3>6. \A v \in Worker \ {w} : Holds(v) => operation[v] # h
      BY <3>5 DEF Held
    <3>7. /\ \A v \in Worker : pc'[v] \in {"unborn", "check", "waiting", "exited"} => ~Holds(v)'
          /\ \A v \in Worker : pc'[v] = "executing" => Holds(v)'
      BY <3>2, <3>3 DEF PlacesInv
    <3>8. \A u, v \in Worker : Holds(u)' /\ operation'[u] = operation'[v] => u = v
      BY <3>1, <3>2, <3>3, <3>6 DEF PlacesInv, Holds
    <3>9. /\ ToSet(_queue') \intersect (Held' \union ToSet(executed') \union dropped') = {}
          /\ Held' \intersect (ToSet(executed') \union dropped') = {}
          /\ ToSet(executed') \intersect dropped' = {}
          /\ ToSet(pushed') = ToSet(_queue') \union Held' \union ToSet(executed') \union dropped'
      BY <2>1, <3>1, <3>4, <3>5 DEF PlacesInv
    <3>10. QED
      BY <2>1, <3>1, <3>7, <3>8, <3>9 DEF PlacesInv
  <2>5. QED
    BY <1>4, <2>2, <2>3, <2>4 DEF WaitAndPop, QueueAfterPop, queueVars
<1>5. ASSUME NEW w \in Worker, BeginOperation(w) \/ SpuriousWakeup(w) PROVE PlacesInv'
  <2>1. UNCHANGED <<_queue, operation, executed, dropped, pushed>>
    BY <1>5 DEF BeginOperation, SpuriousWakeup, queueVars, history
  <2>2. CASE BeginOperation(w)
    BY <1>0, <2>1, <2>2, PlacesStand DEF BeginOperation, Holds, WorkerTypes
  <2>3. CASE SpuriousWakeup(w)
    BY <1>0, <2>1, <2>3, PlacesStand DEF SpuriousWakeup, WorkerTypes
  <2>4. QED
    BY <1>5, <2>2, <2>3
<1>6. ASSUME NEW w \in Worker, WorkerReturns(w) \/ EndOperation(w) PROVE PlacesInv'
  <2> DEFINE op == operation[w]
  <2>1. /\ UNCHANGED <<_queue, pushed>>
        /\ operation'[w] = none /\ pc'[w] \in {"exited", "check"}
        /\ \A v \in Worker \ {w} : operation'[v] = operation[v] /\ pc'[v] = pc[v]
    BY <1>0, <1>6 DEF WorkerReturns, EndOperation, queueVars, WorkerTypes
  <2>2. ~Holds(w)' /\ \A v \in Worker \ {w} : Holds(v)' <=> Holds(v)
    BY <2>1 DEF Holds
  <2>3. Held' = Held \ {op}
    <3>1. \A v \in Worker \ {w} : Holds(v) => operation[v] # op
      BY DEF PlacesInv
    <3>2. QED
      BY <2>1, <2>2, <3>1 DEF Held
  <2>4. /\ \A v \in Worker : pc'[v] \in {"unborn", "check", "waiting", "exited"} => ~Holds(v)'
        /\ \A v \in Worker : pc'[v] = "executing" => Holds(v)'
        /\ \A u, v \in Worker : Holds(u)' /\ operation'[u] = operation'[v] => u = v
    BY <2>1, <2>2 DEF PlacesInv, Holds
  <2>5. /\ Holds(w) => op \in Held /\ op \in Operation
        /\ ~Holds(w) => op = none /\ none \notin Held
    BY <1>0 DEF Held, Holds, WorkerTypes
  <2>6. CASE WorkerReturns(w)
    <3>1. UNCHANGED executed /\ dropped' = dropped \union ({op} \ {none})
      BY <2>6 DEF WorkerReturns
    <3> HIDE DEF op
    <3>2. dropped' = dropped \union (Held \ Held')
      BY <1>0, <2>3, <2>5, <3>1
    <3>3. /\ ToSet(_queue') \intersect (Held' \union ToSet(executed') \union dropped') = {}
          /\ Held' \intersect (ToSet(executed') \union dropped') = {}
          /\ ToSet(executed') \intersect dropped' = {}
          /\ ToSet(pushed') = ToSet(_queue') \union Held' \union ToSet(executed') \union dropped'
      BY <2>1, <2>3, <3>1, <3>2 DEF PlacesInv
    <3>4. QED
      BY <2>1, <2>4, <3>1, <3>3 DEF PlacesInv
  <2>7. CASE EndOperation(w)
    <3>1. UNCHANGED dropped /\ executed' = Append(executed, op) /\ Holds(w)
      BY <2>7 DEF EndOperation, PlacesInv
    <3>2. op \in Held /\ op \in Operation /\ op \notin ToSet(executed)
      BY <2>5, <3>1 DEF PlacesInv
    <3>3. ToSet(executed') = ToSet(executed) \union {op} /\ IsInjective(executed')
      BY <1>0, <3>1, <3>2, AppendLemma DEF QueueTypes, PlacesInv
    <3> HIDE DEF op
    <3>4. /\ ToSet(_queue') \intersect (Held' \union ToSet(executed') \union dropped') = {}
          /\ Held' \intersect (ToSet(executed') \union dropped') = {}
          /\ ToSet(executed') \intersect dropped' = {}
          /\ ToSet(pushed') = ToSet(_queue') \union Held' \union ToSet(executed') \union dropped'
      BY <2>1, <2>3, <3>1, <3>2, <3>3 DEF PlacesInv
    <3>5. QED
      BY <2>1, <2>4, <3>3, <3>4 DEF PlacesInv
  <2>8. QED
    BY <1>6, <2>6, <2>7
<1>7. QED
  BY StepCases, <1>1, <1>2, <1>3, <1>4, <1>5, <1>6

-----------------------------------------------------------------------------
(* The theorems.                                                           *)

(* The invariant holds when nothing is open.                               *)
LEMMA InitPool == Init => PoolInv
<1> SUFFICES ASSUME Init PROVE PoolInv
  OBVIOUS
<1> USE WorkerRange
<1>1. /\ << >> \in Seq(Operation) /\ << >> \in Seq(Worker)
      /\ Len(<< >>) = 0 /\ ToSet(<< >>) = {} /\ IsInjective(<< >>)
  BY EmptySeq DEF ToSet, IsInjective
<1>2. QueueTypes /\ WorkerTypes /\ OwnerTypes
  <2>1. QueueTypes
    BY <1>1 DEF Init, QueueTypes
  <2>2. WorkerTypes
    BY DEF Init, WorkerTypes
  <2>3. 0 \in 0..2 /\ 1 \in 1..2 * AsyncThreads + 1
    OBVIOUS
  <2>4. OwnerTypes
    BY <1>1, <2>3 DEF Init, OwnerTypes
  <2>5. QED
    BY <2>1, <2>2, <2>4
<1>3. Held = {}
  BY DEF Init, Held, Holds
<1>4. PlacesInv
  BY <1>1, <1>3 DEF Init, PlacesInv, Holds
<1>5. OwnerInv /\ RunningInv
  <2>1. AsyncThreads * opens \in Nat
    BY DEF Init
  <2>2. QED
    BY <1>1, <2>1 DEF Init, OwnerInv, RunningInv
<1>6. OrderInv
  BY <1>1 DEF Init, OrderInv
<1>7. ThreadsUseLiveConnections /\ NoLostWakeup
  BY DEF Init, ThreadsUseLiveConnections, NoLostWakeup
<1>8. QED
  BY <1>2, <1>4, <1>5, <1>6, <1>7, PoolTypes DEF PoolInv

(* Every step keeps it.                                                    *)
LEMMA PoolNext == PoolInv /\ [Next]_vars => PoolInv'
BY TypesNext, OwnerNext, RunningNext, PlacesNext, OrderNext, LiveNext, WakeNext DEF PoolInv

(* An operation in one place only is held once.                            *)
LEMMA HeldOnce ==
    ASSUME TypeOK, PlacesInv
    PROVE  OneHolder
<1> SUFFICES ASSUME NEW op \in ToSet(pushed)
             PROVE  LET places == {<<"queue", i>> : i \in {j \in DOMAIN _queue : _queue[j] = op}}
                          \union {<<"worker", w>> : w \in {v \in Worker : operation[v] = op}}
                          \union {<<"done", i>> : i \in {j \in DOMAIN executed : executed[j] = op}}
                          \union (IF op \in dropped THEN {<<"dropped", 0>>} ELSE {})
                    IN  \E p \in places : places = {p}
  BY DEF OneHolder
<1> DEFINE Queued == {j \in DOMAIN _queue : _queue[j] = op}
           With == {v \in Worker : operation[v] = op}
           Done == {j \in DOMAIN executed : executed[j] = op}
           Gone == IF op \in dropped THEN {<<"dropped", 0>>} ELSE {}
           places == {<<"queue", i>> : i \in Queued} \union {<<"worker", w>> : w \in With}
                     \union {<<"done", i>> : i \in Done} \union Gone
<1>1. /\ DOMAIN _queue = 1..Len(_queue) /\ DOMAIN executed = 1..Len(executed)
      /\ op # none
  <2>1. /\ pushed \in Seq(Operation) /\ _queue \in Seq(Operation) /\ executed \in Seq(Operation)
    BY DEF TypeOK
  <2>2. op \in Operation
    BY <2>1, LenProperties, ElementOfSeq DEF ToSet
  <2>3. QED
    BY <2>1, <2>2, LenProperties, PoolAssumption
<1>2. /\ Queued # {} <=> op \in ToSet(_queue)
      /\ Done # {} <=> op \in ToSet(executed)
      /\ With # {} <=> op \in Held
  BY <1>1, HeldLemma DEF ToSet, Holds
<1>3. /\ \A i, j \in Queued : i = j
      /\ \A i, j \in Done : i = j
      /\ \A v, w \in With : v = w
  BY <1>1 DEF PlacesInv, IsInjective, Holds
<1>4. \/ Queued # {} /\ With = {} /\ Done = {} /\ op \notin dropped
      \/ Queued = {} /\ With # {} /\ Done = {} /\ op \notin dropped
      \/ Queued = {} /\ With = {} /\ Done # {} /\ op \notin dropped
      \/ Queued = {} /\ With = {} /\ Done = {} /\ op \in dropped
  <2> HIDE DEF Queued, With, Done
  <2>1. QED
    BY <1>2 DEF PlacesInv
<1> HIDE DEF Queued, With, Done
<1>5. \E p \in places : places = {p}
  <2>1. CASE Queued # {} /\ With = {} /\ Done = {} /\ op \notin dropped
    <3>1. PICK i \in Queued : Queued = {i}
      BY <1>3, <2>1
    <3>2. places = {<<"queue", i>>}
      BY <2>1, <3>1
    <3>3. QED
      BY <3>2
  <2>2. CASE Queued = {} /\ With # {} /\ Done = {} /\ op \notin dropped
    <3>1. PICK w \in With : With = {w}
      BY <1>3, <2>2
    <3>2. places = {<<"worker", w>>}
      BY <2>2, <3>1
    <3>3. QED
      BY <3>2
  <2>3. CASE Queued = {} /\ With = {} /\ Done # {} /\ op \notin dropped
    <3>1. PICK i \in Done : Done = {i}
      BY <1>3, <2>3
    <3>2. places = {<<"done", i>>}
      BY <2>3, <3>1
    <3>3. QED
      BY <3>2
  <2>4. CASE Queued = {} /\ With = {} /\ Done = {} /\ op \in dropped
    <3>1. places = {<<"dropped", 0>>}
      BY <2>4
    <3>2. QED
      BY <3>1
  <2>5. QED
    BY <1>4, <2>1, <2>2, <2>3, <2>4
<1>6. QED
  BY <1>5 DEF Queued, With, Done

(* What was taken so far is where the pushed operations begin.             *)
LEMMA TakenFirst ==
    ASSUME TypeOK, OrderInv
    PROVE  TakenInOrder
BY PrefixLemma DEF TypeOK, OrderInv, TakenInOrder

(* The queue, the workers and the connections keep their types: no pool    *)
(* opens more than twice, and there are no connections and no workers      *)
(* beyond those of two attempts.                                           *)
THEOREM PoolIsTyped == Spec => []TypeOK
<1>1. PoolInv => TypeOK
  BY DEF PoolInv
<1>2. QED
  BY <1>1, InitPool, PoolNext, PTL DEF Spec

(* Whatever fails to open and whenever the pool is closed: no worker runs  *)
(* on a connection that is gone, every enqueued operation is queued, with  *)
(* one worker, executed once or dropped, none waits for workers that       *)
(* sleep, and operations are taken in the order they were enqueued.        *)
THEOREM WorkersStaySound == Spec => []WorkersAreSound
<1>1. PoolInv => WorkersAreSound
  BY HeldOnce, TakenFirst DEF PoolInv, WorkersAreSound
<1>2. QED
  BY <1>1, InitPool, PoolNext, PTL DEF Spec

=============================================================================
