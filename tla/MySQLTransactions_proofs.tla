---------------------- MODULE MySQLTransactions_proofs -----------------------
(***************************************************************************)
(* Theorems about MySQLTransactions, for any number of threads,            *)
(* transactions, statements, retries, losses and refusals: a transaction   *)
(* is atomic as long as the sessions are intact (the module implements     *)
(* AtomicTransactions), what the game is told of it is true but for a      *)
(* refused COMMIT, and one worker at a time retries.                       *)
(***************************************************************************)
EXTENDS MySQLTransactions, DataFacts

ThreadStates == Command \union {"idle", "return", "reconnect", "dead"}

(* Which thread executes which transaction: a thread has one exactly while *)
(* it works, the transaction is running, and no two threads have the same. *)
OwnersWork == \A c \in Thread : /\ pc[c] = "idle" => current[c] = nobody
                                /\ pc[c] \notin {"idle", "dead"} => current[c] # nobody
OwnedRun == \A c \in Thread : current[c] # nobody => result[current[c]] = "running"
OneEach == \A c, d \in Thread : c # d /\ current[c] # nobody => current[c] # current[d]
Owners == OwnersWork /\ OwnedRun /\ OneEach

(* What the server's session holds at each command of an execution.        *)
SessionOf(c) ==
    /\ connected[c] /\ pc[c] # "reconnect"
    /\ pc[c] \in {"idle", "begin", "return", "dead"} => ~open[c] /\ pending[c] = << >>
    /\ pc[c] \in {"begin", "statement", "commit"} =>
          Size[current[c]] > 0 /\ errorCode[c] = "none"
    /\ pc[c] = "begin" => next[c] = 1
    /\ pc[c] = "statement" =>
          /\ open[c] /\ next[c] \in 1..Size[current[c]]
          /\ pending[c] = [k \in 1..next[c] - 1 |-> <<current[c], k>>]
    /\ pc[c] = "commit" => pending[c] = Abstract!Statements(current[c])
    /\ pc[c] = "rollback" => errorCode[c] # "none"

(* The transactions the database has statements of, and those it may have  *)
(* statements of: their COMMIT has been answered.                          *)
Present(l, t) == \E i \in DOMAIN l : l[i][1] = t

Executed(t) ==
    \/ result[t] = "done"
    \/ \E c \in Thread : /\ current[c] = t
                         /\ pc[c] = "dead" \/ (pc[c] = "return" /\ errorCode[c] = "none")

(* What a lost connection or a refusal may spoil, and the inductive        *)
(* invariant.                                                              *)
CommitsAnswered == \A t \in Transaction :
    /\ Present(log, t) \/ CommitIsRefused(t) => Executed(t)
    /\ ~(Present(log, t) /\ CommitIsRefused(t))

Faithful ==
    Intact => CommitsAnswered /\ \A c \in Thread : SessionOf(c)

TxInv == TypeOK /\ Owners /\ Faithful

-----------------------------------------------------------------------------
(* The log.                                                                *)
LEMMA PresentInConcat ==
    ASSUME NEW p \in Seq(Transaction \X Nat), NEW q \in Seq(Transaction \X Nat), NEW t
    PROVE  /\ p \o q \in Seq(Transaction \X Nat)
           /\ Present(p \o q, t) <=> Present(p, t) \/ Present(q, t)
<1> DEFINE r == p \o q
<1>1. /\ r \in Seq(Transaction \X Nat) /\ Len(r) = Len(p) + Len(q)
      /\ \A i \in 1..Len(p) + Len(q) : r[i] = IF i <= Len(p) THEN p[i] ELSE q[i - Len(p)]
  BY ConcatProperties
<1>2. /\ Len(p) \in Nat /\ Len(q) \in Nat /\ DOMAIN p = 1..Len(p) /\ DOMAIN q = 1..Len(q)
      /\ DOMAIN r = 1..Len(r)
  BY <1>1, LenProperties
<1> HIDE DEF r
<1>3. ASSUME NEW i \in DOMAIN p PROVE i \in DOMAIN r /\ r[i] = p[i]
  BY <1>1, <1>2
<1>4. ASSUME NEW i \in DOMAIN q
      PROVE  Len(p) + i \in DOMAIN r /\ r[Len(p) + i] = q[i]
  <2>1. /\ i \in Int /\ i >= 1 /\ i <= Len(q)
        /\ Len(p) + i \in 1..Len(p) + Len(q) /\ ~(Len(p) + i <= Len(p))
    BY <1>2
  <2>2. (Len(p) + i) - Len(p) = i
    BY <2>1, <1>2
  <2>3. QED
    BY <1>1, <1>2, <2>1, <2>2
<1>5. ASSUME NEW i \in DOMAIN r
      PROVE  \/ i \in DOMAIN p /\ r[i] = p[i]
             \/ i - Len(p) \in DOMAIN q /\ r[i] = q[i - Len(p)]
  <2>1. i \in 1..Len(p) + Len(q) /\ r[i] = IF i <= Len(p) THEN p[i] ELSE q[i - Len(p)]
    BY <1>1, <1>2
  <2>2. i \in 1..Len(p) \/ (~(i <= Len(p)) /\ i - Len(p) \in 1..Len(q))
    BY <1>2, <2>1
  <2>3. QED
    BY <1>2, <2>1, <2>2
<1>6. Present(r, t) <=> Present(p, t) \/ Present(q, t)
  BY <1>3, <1>4, <1>5 DEF Present
<1>7. QED
  BY <1>1, <1>6 DEF r

(* The statements of a transaction are statements of no other.             *)
LEMMA StatementsLemma ==
    ASSUME NEW t \in Transaction
    PROVE  /\ Abstract!Statements(t) \in Seq(Transaction \X Nat)
           /\ \A s : Present(Abstract!Statements(t), s) <=> s = t /\ Size[t] > 0
<1>1. Size[t] \in Nat
  BY TransactionsAssumption
<1>2. Abstract!Statements(t) = [k \in 1..Size[t] |-> <<t, k>>]
  BY DEF Abstract!Statements
<1>3. Abstract!Statements(t) \in Seq(Transaction \X Nat)
  BY <1>1, <1>2, IsASeq
<1>4. \A s : Present(Abstract!Statements(t), s) <=> s = t /\ Size[t] > 0
  <2>1. ASSUME Size[t] > 0 PROVE 1 \in 1..Size[t] /\ [k \in 1..Size[t] |-> <<t, k>>][1][1] = t
    BY <1>1, <2>1
  <2>2. \A i \in 1..Size[t] : Size[t] > 0 /\ [k \in 1..Size[t] |-> <<t, k>>][i][1] = t
    BY <1>1
  <2>3. QED
    BY <1>2, <2>1, <2>2 DEF Present
<1>5. QED
  BY <1>3, <1>4

-----------------------------------------------------------------------------
(* Types.                                                                  *)
LEMMA InitTx == Init => TxInv
<1> SUFFICES ASSUME Init PROVE TxInv
  OBVIOUS
<1>1. TypeOK
  <2>1. /\ pending \in [Thread -> Seq(Transaction \X Nat)] /\ log \in Seq(Transaction \X Nat)
        /\ attempts \in [Thread -> 1..MaxAttempts] /\ losses \in 0..MaxLosses
    BY TransactionsAssumption DEF Init
  <2>2. /\ pc \in [Thread -> Command \union {"idle", "return", "reconnect", "dead"}]
        /\ current \in [Thread -> Transaction \union {nobody}]
        /\ next \in [Thread -> Nat]
        /\ errorCode \in [Thread -> {"none", "deadlock", "other"}]
        /\ retries \in [Thread -> Nat]
    BY DEF Init
  <2>3. /\ connected \in [Thread -> BOOLEAN]
        /\ resume \in [Thread -> Command]
        /\ _deadlockLock \in Worker \union {nobody}
        /\ result \in [Transaction -> {"new", "running", "done", "failed"}]
        /\ open \in [Thread -> BOOLEAN]
        /\ ignored \subseteq Transaction \X Unwatched
    BY DEF Init, Command
  <2>4. QED
    BY <2>1, <2>2, <2>3 DEF TypeOK
<1>2. Owners /\ Faithful
  BY DEF Init, Owners, OwnersWork, OwnedRun, OneEach, Faithful, SessionOf, Present,
         CommitsAnswered, CommitIsRefused
<1>3. QED
  BY <1>1, <1>2 DEF TxInv

(* What a step may do to the server's data.                                *)
LEMMA ApplyType ==
    ASSUME TypeOK, NEW c \in Thread, NEW p \in Command, current[c] \in Transaction, Apply(c, p)
    PROVE  /\ open' \in [Thread -> BOOLEAN]
           /\ pending' \in [Thread -> Seq(Transaction \X Nat)]
           /\ log' \in Seq(Transaction \X Nat)
<1>1. /\ open \in [Thread -> BOOLEAN] /\ pending \in [Thread -> Seq(Transaction \X Nat)]
      /\ log \in Seq(Transaction \X Nat)
      /\ <<current[c], next[c]>> \in Transaction \X Nat
  BY DEF TypeOK
<1>2. log \o pending[c] \in Seq(Transaction \X Nat)
  BY <1>1, PresentInConcat
<1>3. /\ Append(pending[c], <<current[c], next[c]>>) \in Seq(Transaction \X Nat)
      /\ Append(log, <<current[c], next[c]>>) \in Seq(Transaction \X Nat)
  <2> DEFINE e == <<current[c], next[c]>>
  <2> HIDE DEF e
  <2>1. e \in Transaction \X Nat
    BY <1>1 DEF e
  <2>2. Append(pending[c], e) \in Seq(Transaction \X Nat) /\ Append(log, e) \in Seq(Transaction \X Nat)
    BY <1>1, <2>1
  <2>3. QED
    BY <2>2 DEF e
<1> DEFINE one == Append(pending[c], <<current[c], next[c]>>)
           oneMore == Append(log, <<current[c], next[c]>>)
           all == log \o pending[c]
           none == << >>
<1>4. /\ open' = open \/ open' = [open EXCEPT ![c] = TRUE] \/ open' = [open EXCEPT ![c] = FALSE]
      /\ \/ pending' = pending
         \/ pending' = [pending EXCEPT ![c] = none]
         \/ pending' = [pending EXCEPT ![c] = one]
      /\ log' = log \/ log' = all \/ log' = oneMore
  BY DEF Apply, EndSession
<1>5. none \in Seq(Transaction \X Nat)
  OBVIOUS
<1> HIDE DEF one, oneMore, all, none
<1>6. QED
  BY <1>1, <1>2, <1>3, <1>4, <1>5 DEF one, oneMore, all

-----------------------------------------------------------------------------
(* Threads and transactions.                                               *)

(* A step of one thread inside the execution of its transaction.           *)
LEMMA OwnersInside ==
    ASSUME TypeOK, Owners, NEW c \in Thread, NEW x \in ThreadStates, x # "idle",
           pc[c] \notin {"idle", "dead"}, pc' = [pc EXCEPT ![c] = x], UNCHANGED <<current, result>>
    PROVE  Owners'
<1>1. pc \in [Thread -> ThreadStates] /\ pc'[c] = x /\ \A d \in Thread \ {c} : pc'[d] = pc[d]
  BY DEF TypeOK, ThreadStates
<1>2. QED
  BY <1>1 DEF Owners, OwnersWork, OwnedRun, OneEach

(* A thread inside ExecuteTransaction or between its retries has a         *)
(* transaction that is running.                                            *)
LEMMA OwnsIt ==
    ASSUME TypeOK, Owners, NEW c \in Thread, pc[c] \notin {"idle", "dead"}
    PROVE  current[c] \in Transaction /\ current[c] # nobody /\ result[current[c]] = "running"
<1>1. current[c] \in Transaction \union {nobody}
  BY DEF TypeOK
<1>2. current[c] # nobody
  BY DEF Owners, OwnersWork
<1>3. QED
  BY <1>1, <1>2 DEF Owners, OwnedRun

(* A thread that returns the result of its transaction gives the           *)
(* transaction up.                                                         *)
LEMMA OwnersLeave ==
    ASSUME TypeOK, Owners, NEW c \in Thread, NEW r \in {"done", "failed"}, pc[c] = "return", Leave(c, r)
    PROVE  Owners'
<1>0. current[c] \in Transaction
  BY OwnsIt
<1>1. /\ pc'[c] = "idle" /\ \A d \in Thread \ {c} : pc'[d] = pc[d]
      /\ current'[c] = nobody /\ \A d \in Thread \ {c} : current'[d] = current[d]
      /\ current[c] \in Transaction
      /\ \A t \in Transaction : t # current[c] => result'[t] = result[t]
  BY <1>0 DEF TypeOK, Leave
<1>2. \A d \in Thread \ {c} : current[d] # nobody => current[d] \in Transaction \ {current[c]}
  BY <1>1, TransactionsAssumption DEF TypeOK, Owners, OwnersWork, OwnedRun, OneEach
<1>3. OwnersWork'
  BY <1>1 DEF Owners, OwnersWork, OwnedRun, OneEach
<1>4. OwnedRun'
  BY <1>1, <1>2 DEF Owners, OwnersWork, OwnedRun, OneEach
<1>5. OneEach'
  BY <1>1, <1>2 DEF Owners, OwnersWork, OwnedRun, OneEach
<1>6. QED
  BY <1>3, <1>4, <1>5 DEF Owners

(* A thread that starts a transaction is the only one that executes it.    *)
LEMMA OwnersStart ==
    ASSUME TypeOK, Owners, NEW c \in Thread, NEW t \in Transaction, StartTransaction(c, t)
    PROVE  Owners'
<1>1. /\ pc'[c] \in {"begin", "return"} /\ \A d \in Thread \ {c} : pc'[d] = pc[d]
      /\ current'[c] = t /\ \A d \in Thread \ {c} : current'[d] = current[d]
      /\ result'[t] = "running" /\ \A s \in Transaction \ {t} : result'[s] = result[s]
  BY DEF TypeOK, StartTransaction, CallExecuteTransaction
<1>2. \A d \in Thread : current[d] # nobody => current[d] \in Transaction \ {t}
  BY DEF TypeOK, Owners, OwnersWork, OwnedRun, OneEach, StartTransaction
<1>3. t # nobody
  BY TransactionsAssumption
<1>4. OwnersWork'
  BY <1>1, <1>3 DEF Owners, OwnersWork, OwnedRun, OneEach
<1>5. OwnedRun'
  BY <1>1, <1>2 DEF Owners, OwnersWork, OwnedRun, OneEach
<1>6. OneEach'
  BY <1>1, <1>2, <1>3 DEF Owners, OwnersWork, OwnedRun, OneEach
<1>7. QED
  BY <1>4, <1>5, <1>6 DEF Owners

(* No step hands a transaction to two threads.                             *)
LEMMA OwnersNext ==
    ASSUME TypeOK, Owners, [Next]_vars
    PROVE  Owners'
<1>1. CASE UNCHANGED vars
  BY <1>1 DEF Owners, OwnersWork, OwnedRun, OneEach, vars, client, link, server
<1>2. CASE Crash
  BY <1>2 DEF Crash, Owners, OwnersWork, OwnedRun, OneEach, TypeOK
<1>3. CASE Rest
  BY <1>3 DEF Rest, Owners, OwnersWork, OwnedRun, OneEach, vars, client, link, server
<1>4. ASSUME NEW c \in Thread, CommandSucceeds(c) PROVE Owners'
  <2>1. pc[c] \notin {"idle", "dead"} /\ UNCHANGED <<current, result>>
    BY <1>4 DEF CommandSucceeds, Command
  <2>2. PICK x \in {"statement", "commit", "return"} : pc' = [pc EXCEPT ![c] = x]
    BY <1>4 DEF CommandSucceeds, AfterStatement
  <2>3. QED
    BY <2>1, <2>2, OwnersInside DEF ThreadStates, Command
<1>5. ASSUME NEW c \in Thread, Reconnect(c) PROVE Owners'
  <2>1. resume[c] \in Command
    BY DEF TypeOK
  <2>2. QED
    BY <1>5, <2>1, OwnersInside DEF Reconnect, ThreadStates, Command
<1>6. ASSUME NEW c \in Thread, ReconnectFails(c) PROVE Owners'
  BY <1>6 DEF ReconnectFails, client, Owners, OwnersWork, OwnedRun, OneEach
<1>7. ASSUME NEW c \in Thread, ExecuteReturnsFalse(c) PROVE Owners'
  <2>1. pc[c] \notin {"idle", "dead"} /\ UNCHANGED <<current, result>>
    BY <1>7 DEF ExecuteReturnsFalse, Command
  <2>2. PICK x \in {"statement", "rollback", "return"} : pc' = [pc EXCEPT ![c] = x]
    BY <1>7 DEF ExecuteReturnsFalse
  <2>3. QED
    BY <2>1, <2>2, OwnersInside DEF ThreadStates, Command
<1>8. ASSUME NEW c \in Thread, TransactionSucceeds(c) \/ TransactionFails(c) PROVE Owners'
  BY <1>8, OwnersLeave DEF TransactionSucceeds, TransactionFails
<1>9. ASSUME NEW c \in Thread, LockAndRetry(c) \/ Retry(c) PROVE Owners'
  <2>1. pc[c] = "return" /\ UNCHANGED <<current, result>>
    BY <1>9 DEF LockAndRetry, Retry, MayRetry
  <2>2. PICK x \in {"begin", "return"} : pc' = [pc EXCEPT ![c] = x]
    BY <1>9 DEF LockAndRetry, Retry, CallExecuteTransaction
  <2>3. QED
    BY <2>1, <2>2, OwnersInside DEF ThreadStates, Command
<1>10. ASSUME NEW c \in Thread, ConnectionIsLost(c) PROVE Owners'
  BY <1>10, OwnersInside DEF ConnectionIsLost, ThreadStates, Command
<1>11. ASSUME NEW c \in Thread, NEW error \in {"deadlock", "other"}, StatementFails(c, error)
       PROVE  Owners'
  BY <1>11, OwnersInside DEF StatementFails, AfterRefusal, ThreadStates, Command
<1>12. ASSUME NEW c \in Thread, NEW t \in Transaction, StartTransaction(c, t) PROVE Owners'
  BY <1>12, OwnersStart
<1>13. ASSUME NEW c \in Thread, CommandIsRefused(c) PROVE Owners'
  <2>1. pc[c] \notin {"idle", "dead"} /\ UNCHANGED <<current, result>>
    BY <1>13 DEF CommandIsRefused, Unwatched, Command
  <2>2. PICK x \in {"statement", "return"} : pc' = [pc EXCEPT ![c] = x]
    BY <1>13 DEF CommandIsRefused
  <2>3. QED
    BY <2>1, <2>2, OwnersInside DEF ThreadStates, Command
<1>14. QED
  BY <1>1, <1>2, <1>3, <1>4, <1>5, <1>6, <1>7, <1>8, <1>9, <1>10, <1>11, <1>12, <1>13
  DEF Next, Run, Abort

-----------------------------------------------------------------------------
(* Types.                                                                  *)
ClientType ==
    /\ pc \in [Thread -> Command \union {"idle", "return", "reconnect", "dead"}]
    /\ current \in [Thread -> Transaction \union {nobody}]
    /\ next \in [Thread -> Nat]
    /\ errorCode \in [Thread -> {"none", "deadlock", "other"}]
    /\ retries \in [Thread -> Nat]
    /\ _deadlockLock \in Worker \union {nobody}
    /\ result \in [Transaction -> {"new", "running", "done", "failed"}]

ServerType ==
    /\ connected \in [Thread -> BOOLEAN]
    /\ resume \in [Thread -> Command]
    /\ attempts \in [Thread -> 1..MaxAttempts]
    /\ open \in [Thread -> BOOLEAN]
    /\ pending \in [Thread -> Seq(Transaction \X Nat)]
    /\ log \in Seq(Transaction \X Nat)
    /\ losses \in 0..MaxLosses
    /\ ignored \subseteq Transaction \X Unwatched

(* The type invariant in two parts: the client's state and the server's.   *)
LEMMA TypeParts == /\ TypeOK <=> ClientType /\ ServerType
                   /\ TypeOK' <=> ClientType' /\ ServerType'
BY DEF TypeOK, ClientType, ServerType

(* Every step keeps the types of the client's state.                       *)
LEMMA ClientTypeNext ==
    ASSUME TypeOK, [Next]_vars
    PROVE  ClientType'
<1> USE TypeParts
<1>1. CASE UNCHANGED vars
  BY <1>1 DEF ClientType, vars, client, link, server
<1>2. CASE Crash
  BY <1>2 DEF Crash, ClientType
<1>3. CASE Rest
  BY <1>3 DEF Rest, ClientType, vars, client, link, server
<1>4. ASSUME NEW c \in Thread, CommandSucceeds(c) PROVE ClientType'
  BY <1>4 DEF CommandSucceeds, AfterStatement, ClientType, Command
<1>5. ASSUME NEW c \in Thread, Reconnect(c) PROVE ClientType'
  BY <1>5 DEF Reconnect, ClientType, ServerType
<1>6. ASSUME NEW c \in Thread, ReconnectFails(c) PROVE ClientType'
  BY <1>6 DEF ReconnectFails, client, ClientType
<1>7. ASSUME NEW c \in Thread, ExecuteReturnsFalse(c) PROVE ClientType'
  BY <1>7 DEF ExecuteReturnsFalse, ClientType, Command
<1>8. ASSUME NEW c \in Thread, NEW r \in {"done", "failed"}, Leave(c, r) PROVE ClientType'
  BY <1>8 DEF Leave, LockAfter, ClientType
<1>9. ASSUME NEW c \in Thread, LockAndRetry(c) \/ Retry(c) PROVE ClientType'
  BY <1>9 DEF LockAndRetry, Retry, RetriesAfter, CallExecuteTransaction, ClientType, Command
<1>10. ASSUME NEW c \in Thread, ConnectionIsLost(c) PROVE ClientType'
  BY <1>10 DEF ConnectionIsLost, ClientType
<1>11. ASSUME NEW c \in Thread, NEW error \in {"deadlock", "other"}, StatementFails(c, error)
       PROVE  ClientType'
  BY <1>11 DEF StatementFails, AfterRefusal, RefusalCode, ClientType, Command
<1>12. ASSUME NEW c \in Thread, NEW t \in Transaction, StartTransaction(c, t) PROVE ClientType'
  BY <1>12 DEF StartTransaction, CallExecuteTransaction, ClientType, Command
<1>13. ASSUME NEW c \in Thread, CommandIsRefused(c) PROVE ClientType'
  BY <1>13 DEF CommandIsRefused, ClientType, Command
<1>14. QED
  BY <1>1, <1>2, <1>3, <1>4, <1>5, <1>6, <1>7, <1>8, <1>9, <1>10, <1>11, <1>12, <1>13
  DEF Next, Run, Abort, TransactionSucceeds, TransactionFails

(* What is left of an attempt to reconnect is typed.                       *)
LEMMA ReconnectReturnsTypes ==
    ASSUME TypeOK, NEW c \in Thread, ReconnectReturns(c)
    PROVE  resume' \in [Thread -> Command] /\ attempts' \in [Thread -> 1..MaxAttempts]
<1>1. MaxAttempts \in 1..MaxAttempts /\ "begin" \in Command
  BY TransactionsAssumption DEF Command
<1>2. QED
  BY <1>1 DEF TypeOK, ReconnectReturns

(* Besides, a lost connection stays counted, and a refusal recorded.       *)
LEMMA ServerTypeNext ==
    ASSUME TypeOK, Owners, [Next]_vars
    PROVE  ServerType' /\ losses' \in Nat /\ losses' >= losses /\ ignored \subseteq ignored'
<1> DEFINE Goal == /\ ServerType' /\ losses' \in Nat /\ losses' >= losses
                   /\ ignored \subseteq ignored'
<1> USE TypeParts
<1>0. losses \in Nat /\ MaxLosses \in Nat /\ MaxAttempts \in Nat \ {0}
  BY TransactionsAssumption DEF ServerType
<1>1. ASSUME UNCHANGED <<link, server>> PROVE Goal
  BY <1>0, <1>1 DEF ServerType, link, server
<1>2. CASE Crash
  <2>1. /\ open' \in [Thread -> BOOLEAN]
        /\ pending' \in [Thread -> Seq(Transaction \X Nat)]
        /\ UNCHANGED <<connected, resume, attempts, losses, ignored, log>>
    BY <1>2 DEF Crash, link
  <2>2. QED
    BY <1>0, <2>1 DEF ServerType
<1>3. ASSUME NEW c \in Thread, CommandSucceeds(c) PROVE Goal
  <2>1. pc[c] \in Command /\ Apply(c, pc[c]) /\ UNCHANGED link
    BY <1>3 DEF CommandSucceeds
  <2>2. current[c] \in Transaction
    BY <2>1, OwnsIt DEF Command
  <2>3. /\ open' \in [Thread -> BOOLEAN]
        /\ pending' \in [Thread -> Seq(Transaction \X Nat)]
        /\ log' \in Seq(Transaction \X Nat)
    BY <2>1, <2>2, ApplyType
  <2>4. QED
    BY <1>0, <2>1, <2>3 DEF ServerType, link
<1>4. ASSUME NEW c \in Thread, Reconnect(c) PROVE Goal
  <2>1. /\ connected' \in [Thread -> BOOLEAN] /\ UNCHANGED <<losses, ignored, open, pending, log>>
    BY <1>4 DEF Reconnect, server, ServerType
  <2>2. resume' \in [Thread -> Command] /\ attempts' \in [Thread -> 1..MaxAttempts]
    BY <1>4, ReconnectReturnsTypes DEF Reconnect
  <2>3. QED
    BY <1>0, <2>1, <2>2 DEF ServerType
<1>5. ASSUME NEW c \in Thread, ReconnectFails(c) PROVE Goal
  <2>1. attempts' \in [Thread -> 1..MaxAttempts]
    BY <1>0, <1>5 DEF ReconnectFails, HasAttempts, ServerType
  <2>2. UNCHANGED <<connected, resume, losses, ignored, open, pending, log>>
    BY <1>5 DEF ReconnectFails, server
  <2>3. QED
    BY <1>0, <2>1, <2>2 DEF ServerType
<1>6. ASSUME NEW c \in Thread, ConnectionIsLost(c) PROVE Goal
  <2>1. pc[c] \in Command /\ current[c] \in Transaction
    BY <1>6, OwnsIt DEF ConnectionIsLost, Command
  <2>2. \E p \in {"rollback", "commit", "statement"} :
           \/ log' = log
           \/ log' = log \o pending[c]
           \/ log' = Append(log, <<current[c], next[c]>>)
    BY <1>6 DEF ConnectionIsLost
  <2>3. /\ log \in Seq(Transaction \X Nat) /\ pending[c] \in Seq(Transaction \X Nat)
        /\ <<current[c], next[c]>> \in Transaction \X Nat
    BY <2>1 DEF ClientType, ServerType
  <2>4. log' \in Seq(Transaction \X Nat)
    <3> DEFINE e == <<current[c], next[c]>>
               q == pending[c]
    <3> HIDE DEF e, q
    <3>1. log \o q \in Seq(Transaction \X Nat)
      BY <2>3, PresentInConcat DEF q
    <3>2. Append(log, e) \in Seq(Transaction \X Nat)
      BY <2>3 DEF e
    <3>3. QED
      BY <2>2, <2>3, <3>1, <3>2 DEF e, q
  <2>5. pending' \in [Thread -> Seq(Transaction \X Nat)] /\ open' \in [Thread -> BOOLEAN]
    <3>1. EndSession(c)
      BY <1>6 DEF ConnectionIsLost
    <3>2. QED
      BY <3>1 DEF EndSession, ServerType
  <2>6. /\ connected' \in [Thread -> BOOLEAN]
        /\ resume' \in [Thread -> Command]
        /\ attempts' \in [Thread -> 1..MaxAttempts]
    BY <1>0, <1>6, <2>1 DEF ConnectionIsLost, ServerType
  <2>7. losses' \in 0..MaxLosses /\ losses' \in Nat /\ losses' >= losses /\ ignored' = ignored
    BY <1>0, <1>6 DEF ConnectionIsLost
  <2>8. QED
    BY <2>4, <2>5, <2>6, <2>7 DEF ServerType
<1>7. ASSUME NEW c \in Thread, NEW error \in {"deadlock", "other"}, StatementFails(c, error)
       PROVE Goal
  <2>1. pending' \in [Thread -> Seq(Transaction \X Nat)] /\ open' \in [Thread -> BOOLEAN]
    <3>1. CASE error = "deadlock"
      <4>1. EndSession(c)
        BY <1>7, <3>1 DEF StatementFails
      <4>2. QED
        BY <4>1 DEF EndSession, ServerType
    <3>2. CASE error # "deadlock"
      BY <1>7, <3>2 DEF StatementFails, ServerType
    <3>3. QED
      BY <3>1, <3>2
  <2>2. UNCHANGED <<connected, losses, ignored, resume, attempts, log>>
    BY <1>7 DEF StatementFails, link
  <2>3. QED
    BY <1>0, <2>1, <2>2 DEF ServerType
<1>8. ASSUME NEW c \in Thread, CommandIsRefused(c) PROVE Goal
  <2>1. pending' \in [Thread -> Seq(Transaction \X Nat)] /\ open' \in [Thread -> BOOLEAN]
    <3>1. CASE EndSession(c)
      BY <3>1 DEF EndSession, ServerType
    <3>2. CASE UNCHANGED <<open, pending>>
      BY <3>2 DEF ServerType
    <3>3. QED
      BY <1>8, <3>1, <3>2 DEF CommandIsRefused
  <2>2. /\ UNCHANGED <<connected, losses, resume, attempts, log>>
        /\ pc[c] \in Unwatched /\ ignored' = ignored \union {<<current[c], pc[c]>>}
    BY <1>8 DEF CommandIsRefused
  <2>3. current[c] \in Transaction
    BY <2>2, OwnsIt DEF Unwatched, Command
  <2>4. QED
    BY <1>0, <2>1, <2>2, <2>3 DEF ServerType
<1>9. QED
  <2>1. CASE UNCHANGED vars
    BY <1>1, <2>1 DEF vars
  <2>2. CASE Rest
    BY <1>1, <2>2 DEF Rest, vars
  <2>3. ASSUME NEW c \in Thread,
               \/ TransactionSucceeds(c) \/ TransactionFails(c)
               \/ LockAndRetry(c) \/ Retry(c) \/ \E t \in Transaction : StartTransaction(c, t)
        PROVE  Goal
    BY <1>1, <2>3 DEF TransactionSucceeds, TransactionFails, Leave, LockAndRetry, Retry,
                      StartTransaction
  <2>4. ASSUME NEW c \in Thread, ExecuteReturnsFalse(c) PROVE Goal
    <3>1. UNCHANGED <<connected, losses, ignored, open, pending, log>>
      BY <2>4 DEF ExecuteReturnsFalse, server
    <3>2. resume' \in [Thread -> Command] /\ attempts' \in [Thread -> 1..MaxAttempts]
      BY <2>4, ReconnectReturnsTypes DEF ExecuteReturnsFalse
    <3>3. QED
      BY <1>0, <3>1, <3>2 DEF ServerType
  <2>5. QED
    BY <1>2, <1>3, <1>4, <1>5, <1>6, <1>7, <1>8, <2>1, <2>2, <2>3, <2>4 DEF Next, Run, Abort

(* What is intact after a step was intact before it.                       *)
LEMMA IntactBefore ==
    ASSUME TypeOK, Owners, [Next]_vars, Intact'
    PROVE  Intact
<1>1. losses \in Nat /\ losses' >= losses /\ ignored \subseteq ignored'
  BY ServerTypeNext, TransactionsAssumption DEF TypeOK
<1>2. QED
  BY <1>1 DEF Intact

-----------------------------------------------------------------------------
(* What the session holds and what the database has statements of.         *)

(* A step of one thread leaves the sessions of the others alone.           *)
OthersAsTheyWere(c) ==
    \A d \in Thread \ {c} :
        /\ pc'[d] = pc[d] /\ current'[d] = current[d] /\ next'[d] = next[d]
        /\ errorCode'[d] = errorCode[d] /\ connected'[d] = connected[d]
        /\ open'[d] = open[d] /\ pending'[d] = pending[d]

(* What a thread leaves alone stays as it should be.                       *)
LEMMA SessionFrame ==
    ASSUME NEW c \in Thread, OthersAsTheyWere(c), NEW d \in Thread \ {c}, SessionOf(d)
    PROVE  SessionOf(d)'
<1>1. /\ pc'[d] = pc[d] /\ current'[d] = current[d] /\ next'[d] = next[d]
      /\ errorCode'[d] = errorCode[d] /\ connected'[d] = connected[d]
      /\ open'[d] = open[d] /\ pending'[d] = pending[d]
  BY DEF OthersAsTheyWere
<1>2. QED
  BY <1>1 DEF SessionOf, Abstract!Statements

(* A step of one thread touches the state of no other thread and no other  *)
(* session.                                                                *)
LEMMA NextChangesOne ==
    ASSUME TypeOK, NEW c \in Thread,
           \/ (Run(c) /\ ~Crash)
           \/ ConnectionIsLost(c)
           \/ CommandIsRefused(c)
           \/ \E error \in {"deadlock", "other"} : StatementFails(c, error)
           \/ \E t \in Transaction : StartTransaction(c, t)
    PROVE  OthersAsTheyWere(c)
<1> USE DEF OthersAsTheyWere
<1> USE TypeParts
<1>1. CASE CommandSucceeds(c)
  <2>1. /\ \A d \in Thread \ {c} : pc'[d] = pc[d] /\ next'[d] = next[d]
        /\ UNCHANGED <<current, errorCode, connected>>
    BY <1>1 DEF CommandSucceeds, link, ClientType
  <2>2. \A d \in Thread \ {c} : open'[d] = open[d] /\ pending'[d] = pending[d]
    BY <1>1 DEF CommandSucceeds, Apply, EndSession, ServerType
  <2>3. QED
    BY <2>1, <2>2
<1>2. CASE Reconnect(c)
  BY <1>2 DEF Reconnect, server, ClientType, ServerType
<1>3. CASE ReconnectFails(c)
  BY <1>3 DEF ReconnectFails, client, server
<1>4. CASE ExecuteReturnsFalse(c)
  BY <1>4 DEF ExecuteReturnsFalse, link, server, ClientType
<1>5. CASE TransactionSucceeds(c) \/ TransactionFails(c)
  BY <1>5 DEF TransactionSucceeds, TransactionFails, Leave, link, server, ClientType
<1>6. CASE LockAndRetry(c) \/ Retry(c)
  BY <1>6 DEF LockAndRetry, Retry, CallExecuteTransaction, link, server, ClientType
<1>7. CASE ConnectionIsLost(c)
  BY <1>7 DEF ConnectionIsLost, EndSession, ClientType, ServerType
<1>8. ASSUME NEW error \in {"deadlock", "other"}, StatementFails(c, error)
      PROVE  OthersAsTheyWere(c)
  <2>1. /\ \A d \in Thread \ {c} : pc'[d] = pc[d] /\ errorCode'[d] = errorCode[d]
        /\ UNCHANGED <<current, next, connected>>
    BY <1>8 DEF StatementFails, link, ClientType
  <2>2. \A d \in Thread \ {c} : open'[d] = open[d] /\ pending'[d] = pending[d]
    <3>1. CASE error = "deadlock"
      BY <1>8, <3>1 DEF StatementFails, EndSession, ServerType
    <3>2. CASE error # "deadlock"
      BY <1>8, <3>2 DEF StatementFails
    <3>3. QED
      BY <3>1, <3>2
  <2>3. QED
    BY <2>1, <2>2
<1>9. ASSUME NEW t \in Transaction, StartTransaction(c, t) PROVE OthersAsTheyWere(c)
  BY <1>9 DEF StartTransaction, CallExecuteTransaction, link, server, ClientType
<1>10. CASE CommandIsRefused(c)
  BY <1>10 DEF CommandIsRefused, EndSession, ClientType, ServerType
<1>11. QED
  BY <1>1, <1>2, <1>3, <1>4, <1>5, <1>6, <1>7, <1>8, <1>9, <1>10 DEF Run, Abort

(* The statements so far and the next one.                                 *)
LEMMA OneMoreStatement ==
    ASSUME NEW t, NEW n \in Nat \ {0}
    PROVE  Append([k \in 1..n - 1 |-> <<t, k>>], <<t, n>>) = [k \in 1..n |-> <<t, k>>]
<1> DEFINE q == [k \in 1..n - 1 |-> <<t, k>>]
           r == [k \in 1..n |-> <<t, k>>]
           S == {t} \X Nat
<1>1. q \in Seq(S) /\ r \in Seq(S) /\ Len(q) = n - 1 /\ Len(r) = n
  <2>1. n - 1 \in Nat
    OBVIOUS
  <2>2. QED
    BY <2>1, IsASeq
<1>2. <<t, n>> \in S
  OBVIOUS
<1>3. /\ \A k \in 1..n - 1 : q[k] = <<t, k>>
      /\ \A k \in 1..n : r[k] = <<t, k>>
  OBVIOUS
<1> DEFINE e == <<t, n>>
           a == Append(q, e)
<1>4. e \in S /\ r[n] = e /\ \A k \in 1..n - 1 : r[k] = q[k]
  BY <1>2, <1>3
<1> HIDE DEF q, r, S, e
<1>5. /\ a \in Seq(S) /\ Len(a) = n
      /\ \A k \in 1..n : a[k] = IF k = n THEN e ELSE q[k]
  BY <1>1, <1>4
<1> HIDE DEF a
<1>6. \A k \in 1..n : a[k] = r[k]
  BY <1>4, <1>5
<1>7. a = r
  BY <1>1, <1>5, <1>6, SeqEqual
<1>8. QED
  BY <1>7 DEF a, q, r, e

(* The conclusion of every step of one thread: its own session is as it    *)
(* should be, and no transaction enters the log that was not executed.     *)
LEMMA FaithfulStep ==
    ASSUME TypeOK, Faithful, Intact, NEW c \in Thread, OthersAsTheyWere(c),
           SessionOf(c)', CommitsAnswered'
    PROVE  Faithful'
<1>1. \A d \in Thread \ {c} : SessionOf(d)'
  BY SessionFrame DEF Faithful
<1>2. \A d \in Thread : SessionOf(d)'
  BY <1>1
<1>3. QED
  BY <1>2 DEF Faithful

(* A transaction whose COMMIT is yet to come, or is not to come, has not   *)
(* been executed.                                                          *)
LEMMA NotYetExecuted ==
    ASSUME TypeOK, Owners, Faithful, Intact, NEW c \in Thread,
           pc[c] = "commit" \/ (pc[c] = "return" /\ errorCode[c] # "none")
    PROVE  /\ current[c] \in Transaction /\ result[current[c]] = "running"
           /\ ~Present(log, current[c]) /\ ~CommitIsRefused(current[c])
<1>1. /\ current[c] \in Transaction /\ current[c] # nobody
      /\ result[current[c]] = "running"
  BY OwnsIt
<1>2. ~Executed(current[c])
  <2>1. \A d \in Thread : current[d] = current[c] => d = c
    BY <1>1 DEF Owners, OneEach
  <2>2. QED
    BY <1>1, <2>1 DEF Executed
<1>3. QED
  BY <1>1, <1>2 DEF Faithful, CommitsAnswered

(* A step that leaves the log alone and refuses no COMMIT.                 *)
LEMMA AnswersStay ==
    ASSUME CommitsAnswered, log' = log, ignored' = ignored,
           \A t \in Transaction : Executed(t) => Executed(t)'
    PROVE  CommitsAnswered'
BY DEF CommitsAnswered, CommitIsRefused, Present

(* A command that succeeds moves the session to what the next command      *)
(* expects; only COMMIT changes the log.                                   *)
LEMMA FaithfulCommand ==
    ASSUME TypeOK, Owners, Faithful, Intact, NEW c \in Thread, CommandSucceeds(c)
    PROVE  /\ SessionOf(c)' /\ CommitsAnswered'
           /\ pc[c] # "commit" => log' = log
           /\ pc[c] = "commit" => log' = log \o Abstract!Statements(current[c])
<1> USE TypeParts
<1> DEFINE t == current[c]
           n == next[c]
<1>1. /\ t \in Transaction /\ Size[t] \in Nat
      /\ n \in Nat /\ log \in Seq(Transaction \X Nat) /\ SessionOf(c)
  <2>1. pc[c] \notin {"idle", "dead"}
    BY DEF CommandSucceeds, Command
  <2>2. QED
    BY <2>1, OwnsIt, TransactionsAssumption DEF ClientType, ServerType, Faithful
<1>2. /\ pc[c] \in Command /\ connected[c] /\ Apply(c, pc[c])
      /\ UNCHANGED <<current, errorCode, connected, result, ignored>>
      /\ next'[c] = IF pc[c] = "statement" THEN n + 1 ELSE 1
      /\ pc'[c] = CASE pc[c] = "begin" -> "statement"
                    [] pc[c] = "statement" -> AfterStatement(c)
                    [] OTHER -> "return"
      /\ \A d \in Thread \ {c} : pc'[d] = pc[d]
  BY DEF CommandSucceeds, link, ClientType
<1>3. CASE pc[c] = "begin"
  <2>1. ~open[c] /\ pending[c] = << >> /\ Size[t] > 0 /\ errorCode[c] = "none"
    BY <1>1, <1>3 DEF SessionOf
  <2>2. open'[c] /\ pending'[c] = << >> /\ log' = log \o pending[c]
    BY <1>2, <1>3 DEF Apply, ServerType
  <2>3. log' = log
    BY <1>1, <2>1, <2>2, ConcatEmptySeq
  <2>4. pc'[c] = "statement" /\ next'[c] = 1
    BY <1>2, <1>3
  <2>5. << >> = [k \in 1..0 |-> <<t, k>>]
    <3> DEFINE f == [k \in 1..0 |-> <<t, k>>]
    <3>1. f \in Seq({t} \X Nat) /\ Len(f) = 0
      BY IsASeq
    <3>2. QED
      BY <3>1, EmptySeq
  <2>6. 1 \in 1..Size[t] /\ 1 - 1 = 0
    BY <1>1, <2>1
  <2>7. SessionOf(c)'
    BY <1>2, <2>1, <2>2, <2>4, <2>5, <2>6 DEF SessionOf
  <2>8. \A s \in Transaction : Executed(s) => Executed(s)'
    BY <1>2, <1>3 DEF Executed
  <2>9. QED
    BY <1>2, <1>3, <2>3, <2>7, <2>8, AnswersStay DEF Faithful
<1>4. CASE pc[c] = "statement"
  <2>1. /\ open[c] /\ Size[t] > 0 /\ errorCode[c] = "none" /\ n \in 1..Size[t]
        /\ pending[c] = [k \in 1..n - 1 |-> <<t, k>>]
    BY <1>1, <1>4 DEF SessionOf
  <2>2. open'[c] /\ pending'[c] = Append(pending[c], <<t, n>>) /\ log' = log
    BY <1>2, <1>4, <2>1 DEF Apply, ServerType
  <2>3. pending'[c] = [k \in 1..n |-> <<t, k>>]
    BY <1>1, <2>1, <2>2, OneMoreStatement, n \in Nat \ {0}
  <2>4. pc'[c] = (IF n = Size[t] THEN "commit" ELSE "statement") /\ next'[c] = n + 1
    <3>1. pc'[c] = AfterStatement(c) /\ next'[c] = n + 1
      BY <1>2, <1>4
    <3>2. QED
      BY <3>1, Zenon DEF AfterStatement
  <2>5. /\ n # Size[t] => n + 1 \in 1..Size[t]
        /\ (n + 1) - 1 = n
    <3>1. n \in 1..Size[t] /\ Size[t] \in Nat
      BY <1>1, <2>1
    <3> HIDE DEF n, t
    <3>2. QED
      BY <3>1
  <2>6. n = Size[t] => pending'[c] = Abstract!Statements(t)
    BY <2>3 DEF Abstract!Statements
  <2>7. SessionOf(c)'
    <3>1. CASE n = Size[t]
      BY <1>2, <2>1, <2>2, <2>4, <2>6, <3>1 DEF SessionOf, Abstract!Statements
    <3>2. CASE n # Size[t]
      <4>1. /\ connected'[c] /\ errorCode'[c] = "none" /\ current'[c] = t
            /\ pc'[c] = "statement" /\ next'[c] = n + 1 /\ open'[c]
        BY <1>2, <2>1, <2>2, <2>4, <3>2
      <4>2. next'[c] \in 1..Size[t] /\ pending'[c] = [k \in 1..next'[c] - 1 |-> <<t, k>>]
        BY <2>3, <2>5, <3>2, <4>1
      <4>3. Size[t] > 0
        BY <2>1
      <4> HIDE DEF n, t
      <4>4. QED
        BY <4>1, <4>2, <4>3 DEF SessionOf
    <3>3. QED
      BY <3>1, <3>2
  <2>8. \A s \in Transaction : Executed(s) => Executed(s)'
    BY <1>2, <1>4 DEF Executed
  <2>9. QED
    BY <1>2, <1>4, <2>2, <2>7, <2>8, AnswersStay DEF Faithful
<1>5. CASE pc[c] = "rollback"
  <2>1. errorCode[c] # "none"
    BY <1>1, <1>5 DEF SessionOf
  <2>2. ~open'[c] /\ pending'[c] = << >> /\ log' = log /\ pc'[c] = "return"
    BY <1>2, <1>5 DEF Apply, EndSession, ServerType
  <2>3. SessionOf(c)'
    BY <1>2, <2>2 DEF SessionOf
  <2>4. \A s \in Transaction : Executed(s) => Executed(s)'
    BY <1>2, <1>5 DEF Executed
  <2>5. QED
    BY <1>2, <1>5, <2>2, <2>3, <2>4, AnswersStay DEF Faithful
<1>6. CASE pc[c] = "commit"
  <2>1. pending[c] = Abstract!Statements(t) /\ errorCode[c] = "none"
    BY <1>1, <1>6 DEF SessionOf
  <2>2. ~open'[c] /\ pending'[c] = << >> /\ log' = log \o pending[c] /\ pc'[c] = "return"
    BY <1>2, <1>6 DEF Apply, EndSession, ServerType
  <2>3. SessionOf(c)'
    BY <1>2, <2>2 DEF SessionOf
  <2>4. \A s \in Transaction : Executed(s) => Executed(s)'
    BY <1>2, <1>6 DEF Executed
  <2>5. /\ pending[c] \in Seq(Transaction \X Nat)
        /\ \A s : Present(pending[c], s) => s = t
    BY <1>1, <2>1, StatementsLemma
  <2>6. \A s \in Transaction : Present(log', s) => Present(log, s) \/ s = t
    BY <1>1, <2>2, <2>5, PresentInConcat
  <2>7. CommitsAnswered'
    <3>1. ~CommitIsRefused(t) /\ \A u \in Transaction : CommitIsRefused(u)' <=> CommitIsRefused(u)
      BY <1>2, <1>6, NotYetExecuted DEF CommitIsRefused
    <3>2. ASSUME NEW s \in Transaction, s = t
          PROVE  Executed(s)'
      BY <1>2, <2>1, <2>2, <3>2 DEF Executed
    <3>3. CommitsAnswered
      BY DEF Faithful
    <3>4. ASSUME NEW s \in Transaction
          PROVE  /\ Present(log', s) \/ CommitIsRefused(s)' => Executed(s)'
                 /\ ~(Present(log', s) /\ CommitIsRefused(s)')
      <4>1. /\ Present(log, s) \/ CommitIsRefused(s) => Executed(s)
            /\ ~(Present(log, s) /\ CommitIsRefused(s))
        BY <3>3, Zenon DEF CommitsAnswered
      <4>2. CommitIsRefused(s)' <=> CommitIsRefused(s)
        BY <3>1, Zenon
      <4>3. CASE s = t
        <5>1. ~CommitIsRefused(s)
          BY <3>1, <4>3
        <5>2. QED
          BY <3>2, <4>2, <4>3, <5>1, Zenon
      <4>4. CASE s # t
        <5>1. Present(log', s) => Present(log, s)
          BY <2>6, <4>4, Zenon
        <5>2. Executed(s) => Executed(s)'
          BY <2>4, Zenon
        <5>3. QED
          BY <4>1, <4>2, <5>1, <5>2, Zenon
      <4>5. QED
        BY <4>3, <4>4
    <3>5. QED
      BY <3>4 DEF CommitsAnswered, Present
  <2>8. log' = log \o Abstract!Statements(t)
    BY <2>1, <2>2
  <2>9. QED
    BY <1>6, <2>3, <2>7, <2>8
<1>7. QED
  BY <1>2, <1>3, <1>4, <1>5, <1>6 DEF Command

(* The steps that leave the log alone: what was executed stays executed.   *)
LEMMA FaithfulQuietly ==
    ASSUME TypeOK, Owners, Faithful, Intact, NEW c \in Thread,
           \/ TransactionSucceeds(c) \/ TransactionFails(c)
           \/ LockAndRetry(c) \/ Retry(c)
           \/ \E error \in {"deadlock", "other"} : StatementFails(c, error)
           \/ \E t \in Transaction : StartTransaction(c, t)
    PROVE  /\ SessionOf(c)' /\ log' = log
           /\ \A t \in Transaction : Executed(t) => Executed(t)'
<1> USE TypeParts
<1>1. SessionOf(c)
  BY DEF Faithful
<1>2. ASSUME NEW r \in {"done", "failed"}, pc[c] = "return", Leave(c, r),
             r = "failed" => errorCode[c] # "none"
      PROVE  /\ SessionOf(c)' /\ log' = log
             /\ \A t \in Transaction : Executed(t) => Executed(t)'
  <2>1. /\ pc'[c] = "idle" /\ UNCHANGED <<connected, open, pending, log>>
        /\ \A d \in Thread \ {c} :
              pc'[d] = pc[d] /\ current'[d] = current[d] /\ errorCode'[d] = errorCode[d]
    BY <1>2 DEF Leave, link, server, ClientType
  <2>2. SessionOf(c)'
    BY <1>1, <1>2, <2>1 DEF SessionOf
  <2>3. /\ current[c] \in Transaction /\ current[c] # nobody
        /\ result[current[c]] = "running"
    BY <1>2, OwnsIt
  <2>4. /\ result'[current[c]] = r
        /\ \A t \in Transaction \ {current[c]} : result'[t] = result[t]
    BY <1>2, <2>3 DEF Leave, ClientType
  <2>5. ASSUME NEW t \in Transaction, Executed(t) PROVE Executed(t)'
    <3>1. CASE t = current[c]
      <4>1. r = "done"
        <5>1. PICK d \in Thread :
                 /\ current[d] = t
                 /\ pc[d] = "dead" \/ (pc[d] = "return" /\ errorCode[d] = "none")
          BY <2>3, <2>5, <3>1 DEF Executed
        <5>2. d = c
          BY <2>3, <3>1, <5>1 DEF Owners, OneEach
        <5>3. QED
          BY <1>2, <5>1, <5>2
      <4>2. QED
        BY <2>4, <3>1, <4>1 DEF Executed
    <3>2. CASE t # current[c]
      BY <2>1, <2>4, <2>5, <3>2 DEF Executed
    <3>3. QED
      BY <3>1, <3>2
  <2>6. QED
    BY <2>1, <2>2, <2>5
<1>3. CASE TransactionSucceeds(c)
  BY <1>2, <1>3 DEF TransactionSucceeds
<1>4. CASE TransactionFails(c)
  BY <1>2, <1>4 DEF TransactionFails
<1>5. CASE LockAndRetry(c) \/ Retry(c)
  <2>1. pc[c] = "return" /\ errorCode[c] # "none" /\ CallExecuteTransaction(c, current[c])
    BY <1>5 DEF LockAndRetry, Retry, MayRetry
  <2>2. UNCHANGED <<current, result, connected, open, pending, log>>
    BY <1>5 DEF LockAndRetry, Retry, link, server
  <2>3. current[c] \in Transaction /\ Size[current[c]] \in Nat
    BY <2>1, OwnsIt, TransactionsAssumption
  <2>4. /\ pc'[c] = (IF Size[current[c]] = 0 THEN "return" ELSE "begin") /\ next'[c] = 1
        /\ errorCode'[c] = IF Size[current[c]] = 0 THEN "other" ELSE "none"
        /\ \A d \in Thread \ {c} : pc'[d] = pc[d] /\ errorCode'[d] = errorCode[d]
    BY <2>1 DEF CallExecuteTransaction, ClientType
  <2>5. SessionOf(c)'
    BY <1>1, <2>1, <2>2, <2>3, <2>4 DEF SessionOf
  <2>6. \A t \in Transaction : Executed(t) => Executed(t)'
    BY <2>1, <2>2, <2>4 DEF Executed
  <2>7. QED
    BY <2>2, <2>5, <2>6
<1>6. ASSUME NEW error \in {"deadlock", "other"}, StatementFails(c, error)
      PROVE  /\ SessionOf(c)' /\ log' = log
             /\ \A t \in Transaction : Executed(t) => Executed(t)'
  <2>1. /\ pc[c] = "statement" /\ pc'[c] = "rollback" /\ errorCode'[c] = error
        /\ \A d \in Thread \ {c} : pc'[d] = pc[d] /\ errorCode'[d] = errorCode[d]
        /\ UNCHANGED <<log, current, next, connected, result>>
    BY <1>6 DEF StatementFails, AfterRefusal, RefusalCode, link, ClientType
  <2>2. SessionOf(c)'
    BY <1>1, <2>1 DEF SessionOf
  <2>3. \A t \in Transaction : Executed(t) => Executed(t)'
    BY <2>1 DEF Executed
  <2>4. QED
    BY <2>1, <2>2, <2>3
<1>7. ASSUME NEW t \in Transaction, StartTransaction(c, t)
      PROVE  /\ SessionOf(c)' /\ log' = log
             /\ \A s \in Transaction : Executed(s) => Executed(s)'
  <2>1. /\ pc[c] = "idle" /\ result[t] = "new" /\ Size[t] \in Nat
        /\ current'[c] = t /\ next'[c] = 1
        /\ pc'[c] = IF Size[t] = 0 THEN "return" ELSE "begin"
        /\ errorCode'[c] = IF Size[t] = 0 THEN "other" ELSE "none"
        /\ \A d \in Thread \ {c} :
              pc'[d] = pc[d] /\ current'[d] = current[d] /\ errorCode'[d] = errorCode[d]
        /\ \A s \in Transaction \ {t} : result'[s] = result[s]
        /\ UNCHANGED <<connected, open, pending, log>>
    <3>1. /\ pc[c] = "idle" /\ result[t] = "new" /\ current' = [current EXCEPT ![c] = t]
          /\ result' = [result EXCEPT ![t] = "running"]
          /\ CallExecuteTransaction(c, t)
          /\ UNCHANGED <<connected, open, pending, log>>
      BY <1>7 DEF StartTransaction, link, server
    <3>2. Size[t] \in Nat
      BY TransactionsAssumption
    <3>3. QED
      BY <3>1, <3>2 DEF CallExecuteTransaction, ClientType
  <2>2. SessionOf(c)'
    BY <1>1, <2>1 DEF SessionOf
  <2>3. \A d \in Thread : current[d] # t
    BY <2>1, TransactionsAssumption DEF Owners, OwnedRun
  <2>4. \A s \in Transaction : Executed(s) => Executed(s)'
    BY <2>1, <2>3 DEF Executed
  <2>5. QED
    BY <2>1, <2>2, <2>4
<1>8. QED
  BY <1>3, <1>4, <1>5, <1>6, <1>7

(* A refused COMMIT, the only refusal that leaves everything intact, ends  *)
(* the session like one that succeeds.                                     *)
LEMMA FaithfulRefused ==
    ASSUME TypeOK, Owners, Faithful, Intact, Intact', NEW c \in Thread, CommandIsRefused(c)
    PROVE  /\ SessionOf(c)' /\ CommitsAnswered' /\ log' = log /\ result' = result
           /\ pc[c] = "commit" /\ pc'[c] = "return" /\ current'[c] = current[c]
           /\ \A t : CommitIsRefused(t)' <=> CommitIsRefused(t) \/ t = current[c]
<1> USE TypeParts
<1>1. /\ pc[c] \in Unwatched /\ ignored' = ignored \union {<<current[c], pc[c]>>}
      /\ EndSession(c) \/ pc[c] # "commit"
      /\ pc' = [pc EXCEPT ![c] = IF pc[c] = "begin" THEN "statement" ELSE "return"]
      /\ UNCHANGED <<current, errorCode, connected, log, result>>
  BY DEF CommandIsRefused
<1>2. pc[c] = "commit"
  BY <1>1 DEF Intact
<1>3. /\ pc'[c] = "return" /\ ~open'[c] /\ pending'[c] = << >>
      /\ \A d \in Thread \ {c} : pc'[d] = pc[d]
  BY <1>1, <1>2 DEF EndSession, ClientType, ServerType
<1>4. \A t : CommitIsRefused(t)' <=> CommitIsRefused(t) \/ t = current[c]
  BY <1>1, <1>2 DEF CommitIsRefused
<1>5. SessionOf(c) /\ CommitsAnswered
  BY DEF Faithful
<1>6. SessionOf(c)'
  BY <1>1, <1>3, <1>5 DEF SessionOf
<1>7. current[c] \in Transaction /\ ~Present(log, current[c])
  BY <1>2, NotYetExecuted
<1>8. Executed(current[c])' /\ \A t \in Transaction : Executed(t) => Executed(t)'
  <2>1. errorCode[c] = "none"
    BY <1>2, <1>5 DEF SessionOf
  <2>2. QED
    BY <1>1, <1>2, <1>3, <2>1 DEF Executed
<1>9. CommitsAnswered'
  <2>1. ASSUME NEW t \in Transaction
        PROVE  /\ Present(log', t) \/ CommitIsRefused(t)' => Executed(t)'
               /\ ~(Present(log', t) /\ CommitIsRefused(t)')
    BY <1>1, <1>4, <1>5, <1>7, <1>8 DEF CommitsAnswered
  <2>2. QED
    BY <2>1 DEF CommitsAnswered, Present
<1>10. QED
  BY <1>1, <1>2, <1>3, <1>4, <1>6, <1>9

(* As long as they are intact every step keeps the sessions and the log as *)
(* they should be.                                                         *)
LEMMA FaithfulNext ==
    ASSUME TypeOK, Owners, Faithful, Intact, Intact', [Next]_vars
    PROVE  Faithful'
<1> USE TypeParts
<1>1. CASE UNCHANGED vars
  BY <1>1 DEF Faithful, CommitsAnswered, CommitIsRefused, SessionOf, Abstract!Statements, Present,
             Executed, Intact, vars, client, link, server
<1>2. CASE Rest
  BY <1>2 DEF Rest, Faithful, CommitsAnswered, CommitIsRefused, SessionOf, Abstract!Statements,
             Present, Executed, Intact, vars, client, link, server
<1>3. CASE Crash
  <2>1. /\ \A c \in Thread : pc'[c] = "dead" /\ ~open'[c] /\ pending'[c] = << >>
        /\ UNCHANGED <<current, connected, result, log, ignored>>
    BY <1>3 DEF Crash, link
  <2>2. \A c \in Thread : SessionOf(c)'
    BY <2>1 DEF Faithful, SessionOf
  <2>3. \A t \in Transaction : Executed(t) => Executed(t)'
    BY <2>1 DEF Executed
  <2>4. CommitsAnswered'
    BY <2>1, <2>3, AnswersStay DEF Faithful
  <2>5. QED
    BY <2>2, <2>4 DEF Faithful
<1>4. ASSUME NEW c \in Thread, CommandSucceeds(c) PROVE Faithful'
  <2>1. OthersAsTheyWere(c)
    <3>1. Run(c) /\ ~Crash
      <4>1. pc'[c] # "dead"
        BY <1>4 DEF CommandSucceeds, AfterStatement, ClientType
      <4>2. QED
        BY <1>4, <4>1 DEF Run, Crash
    <3>2. QED
      BY <3>1, NextChangesOne
  <2>2. QED
    BY <1>4, <2>1, FaithfulCommand, FaithfulStep
<1>5. ASSUME NEW c \in Thread,
             \/ TransactionSucceeds(c) \/ TransactionFails(c)
             \/ LockAndRetry(c) \/ Retry(c)
             \/ \E error \in {"deadlock", "other"} : StatementFails(c, error)
             \/ \E t \in Transaction : StartTransaction(c, t)
      PROVE  Faithful'
  <2>1. SessionOf(c)' /\ log' = log /\ \A t \in Transaction : Executed(t) => Executed(t)'
    BY <1>5, FaithfulQuietly
  <2>2. OthersAsTheyWere(c)
    <3>1. CASE TransactionSucceeds(c) \/ TransactionFails(c) \/ LockAndRetry(c) \/ Retry(c)
      <4>1. pc'[c] # "dead"
        BY <3>1 DEF TransactionSucceeds, TransactionFails, Leave, LockAndRetry, Retry,
                    CallExecuteTransaction, ClientType
      <4>2. QED
        BY <3>1, <4>1, NextChangesOne DEF Run, Crash
    <3>2. QED
      BY <1>5, <3>1, NextChangesOne
  <2>3. CommitsAnswered'
    <3>1. ignored' = ignored
      BY <1>5 DEF TransactionSucceeds, TransactionFails, Leave, LockAndRetry, Retry,
                  StatementFails, StartTransaction, link
    <3>2. QED
      BY <2>1, <3>1, AnswersStay DEF Faithful
  <2>4. QED
    BY <2>1, <2>2, <2>3, FaithfulStep
<1>6. ASSUME NEW c \in Thread PROVE ~Reconnect(c) /\ ~ReconnectFails(c) /\ ~ExecuteReturnsFalse(c)
  BY DEF Faithful, SessionOf, Reconnect, ReconnectFails, ExecuteReturnsFalse
<1>7. ASSUME NEW c \in Thread PROVE ~ConnectionIsLost(c)
  <2>1. losses = 0 /\ losses' = 0
    BY DEF Intact
  <2>2. QED
    BY <2>1 DEF ConnectionIsLost
<1>8. ASSUME NEW c \in Thread, CommandIsRefused(c) PROVE Faithful'
  <2>1. OthersAsTheyWere(c)
    BY <1>8, NextChangesOne
  <2>2. QED
    BY <1>8, <2>1, FaithfulRefused, FaithfulStep
<1>9. QED
  BY <1>1, <1>2, <1>3, <1>4, <1>5, <1>6, <1>7, <1>8 DEF Next, Run, Abort

(* Every step keeps the inductive invariant.                               *)
LEMMA TxInvNext == TxInv /\ [Next]_vars => TxInv'
<1> SUFFICES ASSUME TypeOK, Owners, Faithful, [Next]_vars PROVE TxInv'
  BY DEF TxInv
<1>1. TypeOK'
  BY ClientTypeNext, ServerTypeNext, TypeParts
<1>2. Owners'
  BY OwnersNext
<1>3. Faithful'
  BY IntactBefore, FaithfulNext DEF Faithful
<1>4. QED
  BY <1>1, <1>2, <1>3 DEF TxInv

(* Every state of every execution has the types of TypeOK.                 *)
THEOREM TransactionTypes == Spec => []TypeOK
<1>1. TxInv => TypeOK
  BY DEF TxInv
<1>2. QED
  BY <1>1, InitTx, TxInvNext, PTL DEF Spec

-----------------------------------------------------------------------------
(* Refinement.                                                             *)
Outcome(t) == IF Size[t] > 0 /\ \E i \in DOMAIN log : log[i][1] = t THEN "committed"
              ELSE IF result[t] = "failed" \/ CommitIsRefused(t) THEN "aborted"
              ELSE "pending"

(* A step that neither changes the log nor reports a failure nor refuses a *)
(* COMMIT changes no outcome.                                              *)
LEMMA OutcomeIsKept ==
    ASSUME log' = log, ignored' = ignored,
           \A t \in Transaction : result[t] = "failed" <=> result'[t] = "failed"
    PROVE  \A t \in Transaction : Outcome(t)' = Outcome(t)
BY DEF Outcome, CommitIsRefused

(* Every step is a commit, an abort or a stutter of the abstract           *)
(* specification, or a loss.                                               *)
LEMMA StepIsAbstract ==
    ASSUME TxInv, [Next]_vars
    PROVE  \/ ~Intact'
           \/ Intact /\ log' = log /\ \A t \in Transaction : Outcome(t)' = Outcome(t)
           \/ /\ Intact
              /\ \E t \in Transaction :
                    /\ Outcome(t) = "pending" /\ Outcome(t)' = "committed"
                    /\ log' = log \o Abstract!Statements(t)
                    /\ \A s \in Transaction \ {t} : Outcome(s)' = Outcome(s)
           \/ /\ Intact /\ log' = log
              /\ \E t \in Transaction :
                    /\ Outcome(t) = "pending" /\ Outcome(t)' = "aborted"
                    /\ \A s \in Transaction \ {t} : Outcome(s)' = Outcome(s)
<1> DEFINE Quiet == log' = log /\ \A t \in Transaction : Outcome(t)' = Outcome(t)
           Committed == \E t \in Transaction :
                    /\ Outcome(t) = "pending" /\ Outcome(t)' = "committed"
                    /\ log' = log \o Abstract!Statements(t)
                    /\ \A s \in Transaction \ {t} : Outcome(s)' = Outcome(s)
           Aborted == log' = log /\ \E t \in Transaction :
                    /\ Outcome(t) = "pending" /\ Outcome(t)' = "aborted"
                    /\ \A s \in Transaction \ {t} : Outcome(s)' = Outcome(s)
<1> SUFFICES ASSUME TypeOK, Owners, Faithful, Intact, Intact'
             PROVE  Quiet \/ Committed \/ Aborted
  <2>1. Intact' => Intact
    BY IntactBefore DEF TxInv
  <2>2. TypeOK /\ Owners /\ Faithful
    BY DEF TxInv
  <2>3. QED
    BY <2>1, <2>2
<1> USE TypeParts
<1>1. ASSUME UNCHANGED <<log, result, ignored>> PROVE Quiet
  BY <1>1, OutcomeIsKept
<1>2. CASE UNCHANGED vars \/ Crash \/ Rest
  BY <1>1, <1>2 DEF vars, link, server, Crash, Rest
<1>3. ASSUME NEW c \in Thread, CommandSucceeds(c), pc[c] # "commit" PROVE Quiet
  BY <1>1, <1>3, FaithfulCommand DEF CommandSucceeds, link
<1>4. ASSUME NEW c \in Thread, CommandSucceeds(c), pc[c] = "commit" PROVE Committed
  <2>1. PICK t \in Transaction : /\ t = current[c] /\ result[t] = "running"
                                 /\ ~Present(log, t) /\ ~CommitIsRefused(t)
    BY <1>4, NotYetExecuted
  <2>2. UNCHANGED <<result, ignored>> /\ log' = log \o Abstract!Statements(t)
    BY <1>4, <2>1, FaithfulCommand DEF CommandSucceeds, link
  <2>3. Size[t] > 0
    BY <1>4, <2>1 DEF Faithful, SessionOf
  <2>4. /\ log \in Seq(Transaction \X Nat)
        /\ Abstract!Statements(t) \in Seq(Transaction \X Nat)
        /\ \A s : Present(Abstract!Statements(t), s) <=> s = t
    BY <2>1, <2>3, StatementsLemma DEF ServerType
  <2>5. \A s : Present(log', s) <=> Present(log, s) \/ s = t
    BY <2>2, <2>4, PresentInConcat
  <2>6. Outcome(t) = "pending"
    BY <2>1 DEF Outcome, Present
  <2>7. ASSUME NEW s \in Transaction
        PROVE  Outcome(s)' = IF s = t THEN "committed" ELSE Outcome(s)
    BY <2>2, <2>3, <2>5 DEF Outcome, Present, CommitIsRefused
  <2>8. Outcome(t)' = "committed" /\ \A s \in Transaction \ {t} : Outcome(s)' = Outcome(s)
    BY <2>7
  <2>9. QED
    BY <2>2, <2>6, <2>8
<1>5. ASSUME NEW c \in Thread, TransactionSucceeds(c) PROVE Quiet
  <2>1. /\ current[c] \in Transaction /\ result[current[c]] = "running"
        /\ result' = [result EXCEPT ![current[c]] = "done"] /\ log' = log /\ ignored' = ignored
    BY <1>5, OwnsIt DEF TransactionSucceeds, Leave, link, server
  <2>2. QED
    BY <2>1, OutcomeIsKept DEF ClientType
<1>6. ASSUME NEW c \in Thread, TransactionFails(c) PROVE Aborted
  <2>1. /\ pc[c] = "return" /\ errorCode[c] # "none" /\ log' = log /\ ignored' = ignored
        /\ result' = [result EXCEPT ![current[c]] = "failed"]
    BY <1>6 DEF TransactionFails, Leave, link, server
  <2>2. PICK t \in Transaction : /\ t = current[c] /\ result[t] = "running"
                                 /\ ~Present(log, t) /\ ~CommitIsRefused(t)
    BY <2>1, NotYetExecuted
  <2>3. /\ result'[t] = "failed" /\ \A s \in Transaction \ {t} : result'[s] = result[s]
    BY <2>1, <2>2 DEF ClientType
  <2>4. /\ Outcome(t) = "pending" /\ Outcome(t)' = "aborted"
        /\ \A s \in Transaction \ {t} : Outcome(s)' = Outcome(s)
    BY <2>1, <2>2, <2>3 DEF Outcome, Present, CommitIsRefused
  <2>5. QED
    BY <2>1, <2>4
<1>7. ASSUME NEW c \in Thread,
             LockAndRetry(c) \/ Retry(c)
             \/ \E error \in {"deadlock", "other"} : StatementFails(c, error)
      PROVE  Quiet
  BY <1>1, <1>7 DEF LockAndRetry, Retry, StatementFails, link, server
<1>8. ASSUME NEW c \in Thread, NEW t \in Transaction, StartTransaction(c, t) PROVE Quiet
  BY <1>8, OutcomeIsKept DEF StartTransaction, link, server, ClientType
<1>9. ASSUME NEW c \in Thread
      PROVE  ~Reconnect(c) /\ ~ReconnectFails(c) /\ ~ExecuteReturnsFalse(c) /\ ~ConnectionIsLost(c)
  <2>1. connected[c] /\ pc[c] # "reconnect"
    BY DEF Faithful, SessionOf
  <2>2. ~ConnectionIsLost(c)
    BY DEF ConnectionIsLost, Intact
  <2>3. QED
    BY <2>1, <2>2 DEF Reconnect, ReconnectFails, ExecuteReturnsFalse
<1>10. ASSUME NEW c \in Thread, CommandIsRefused(c) PROVE Aborted
  <2>1. /\ log' = log /\ result' = result /\ pc[c] = "commit"
        /\ \A t : CommitIsRefused(t)' <=> CommitIsRefused(t) \/ t = current[c]
    BY <1>10, FaithfulRefused
  <2>2. PICK t \in Transaction : /\ t = current[c] /\ result[t] = "running"
                                 /\ ~Present(log, t) /\ ~CommitIsRefused(t)
    BY <2>1, NotYetExecuted
  <2>3. /\ Outcome(t) = "pending" /\ Outcome(t)' = "aborted"
        /\ \A s \in Transaction \ {t} : Outcome(s)' = Outcome(s)
    BY <2>1, <2>2 DEF Outcome, Present
  <2>4. QED
    BY <2>1, <2>3
<1>11. QED
  BY <1>2, <1>3, <1>4, <1>5, <1>6, <1>7, <1>8, <1>9, <1>10 DEF Next, Run, Abort

(* A transaction is in the database with all of its statements, in their   *)
(* order and next to each other, or not at all, through deadlocks,         *)
(* refusals, retries and crashes, until the first connection is lost or    *)
(* the first START TRANSACTION or ROLLBACK refused.                        *)
THEOREM TransactionsAreAtomic == Spec => IsAtomic
<1> DEFINE F == [t \in Transaction |->
        IF Size[t] > 0 /\ \E i \in DOMAIN log : log[i][1] = t THEN "committed"
        ELSE IF result[t] = "failed" \/ CommitIsRefused(t) THEN "aborted"
        ELSE "pending"]
<1>1. Init => Abstract!Init
  BY DEF Init, Abstract!Init, Intact, CommitIsRefused
<1>2. TxInv /\ [Next]_vars => [Abstract!Next]_(Abstract!vars)
  <2> SUFFICES ASSUME TxInv, [Next]_vars PROVE [Abstract!Next]_(Abstract!vars)
    OBVIOUS
  <2>1. /\ F = [t \in Transaction |-> Outcome(t)]
        /\ F' = [t \in Transaction |-> Outcome(t)']
    BY DEF Outcome
  <2> HIDE DEF F
  <2>2. Abstract!Next \/ UNCHANGED Abstract!vars
    <3>0. Intact \in BOOLEAN /\ Intact' \in BOOLEAN
      BY DEF Intact
    <3>1. CASE ~Intact'
      BY <3>0, <3>1 DEF Abstract!Next, Abstract!LoseSession
    <3>2. CASE Intact' /\ Intact /\ log' = log
               /\ \A t \in Transaction : Outcome(t)' = Outcome(t)
      <4>1. F' = F
        BY <2>1, <3>2
      <4>2. QED
        BY <3>0, <3>2, <4>1 DEF Abstract!vars, F
    <3>3. ASSUME Intact, Intact', NEW t \in Transaction,
                 Outcome(t) = "pending", Outcome(t)' = "committed",
                 log' = log \o Abstract!Statements(t),
                 \A s \in Transaction \ {t} : Outcome(s)' = Outcome(s)
          PROVE  Abstract!Next
      <4>1. F[t] = "pending" /\ F' = [F EXCEPT ![t] = "committed"]
        BY <2>1, <3>3
      <4>2. Abstract!Commit(t)
        BY <3>0, <3>3, <4>1 DEF Abstract!Commit, F
      <4>3. QED
        BY <3>3, <4>2 DEF Abstract!Next
    <3>4. ASSUME Intact, Intact', log' = log, NEW t \in Transaction,
                 Outcome(t) = "pending", Outcome(t)' = "aborted",
                 \A s \in Transaction \ {t} : Outcome(s)' = Outcome(s)
          PROVE  Abstract!Next
      <4>1. F[t] = "pending" /\ F' = [F EXCEPT ![t] = "aborted"]
        BY <2>1, <3>4
      <4>2. Abstract!Abort(t)
        BY <3>0, <3>4, <4>1 DEF Abstract!Abort, F
      <4>3. QED
        BY <3>4, <4>2 DEF Abstract!Next
    <3>5. QED
      BY <3>1, <3>2, <3>3, <3>4, StepIsAbstract
  <2>3. QED
    BY <2>2
<1>3. QED
  BY <1>1, <1>2, InitTx, TxInvNext, PTL DEF Spec, IsAtomic, Abstract!Spec

-----------------------------------------------------------------------------
(* The statements of one transaction in a log, found in one pass.          *)
Passes(f, l, t, n) ==
    /\ f[0] = << >>
    /\ \A i \in 1..n : f[i] = IF l[i][1] = t THEN Append(f[i - 1], l[i]) ELSE f[i - 1]

(* There is such a pass, and StatementsOf is what it ends with.            *)
LEMMA StatementsOfEquation ==
    ASSUME NEW l \in Seq(Transaction \X Nat), NEW t
    PROVE  \E f : Passes(f, l, t, Len(l)) /\ StatementsOf(l, t) = f[Len(l)]
<1> DEFINE Step(f, i) == IF i = 0 THEN << >>
                         ELSE IF l[i][1] = t THEN Append(f[i - 1], l[i]) ELSE f[i - 1]
           IsPass(f, n) == f = [i \in 0..n |-> Step(f, i)]
           N == {n \in Nat : \E f : IsPass(f, n)}
<1>1. 0 \in N
  <2>1. [i \in 0..0 |-> << >>] = [i \in 0..0 |-> Step([j \in 0..0 |-> << >>], i)]
    OBVIOUS
  <2>2. IsPass([i \in 0..0 |-> << >>], 0)
    BY <2>1
  <2>3. QED
    BY <2>2
<1>2. ASSUME NEW n \in Nat, n \in N PROVE n + 1 \in N
  <2>1. PICK f : IsPass(f, n)
    BY <1>2
  <2> DEFINE g == [i \in 0..n + 1 |-> IF i <= n THEN f[i] ELSE Step(f, i)]
  <2>2. \A i \in 0..n : f[i] = Step(f, i)
    BY <2>1
  <2>3. \A i \in 0..n : g[i] = f[i]
    OBVIOUS
  <2>4. ASSUME NEW i \in 0..n + 1 PROVE g[i] = Step(g, i)
    <3>1. g[i] = Step(f, i)
      BY <2>2
    <3>2. i # 0 => i - 1 \in 0..n
      OBVIOUS
    <3>3. i # 0 => g[i - 1] = f[i - 1]
      BY <2>3, <3>2
    <3> HIDE DEF g
    <3>4. QED
      BY <3>1, <3>3
  <2>5. IsPass(g, n + 1)
    <3>1. g = [i \in 0..n + 1 |-> g[i]]
      OBVIOUS
    <3> HIDE DEF g, Step
    <3>2. QED
      BY <2>4, <3>1
  <2> HIDE DEF IsPass, g
  <2>6. QED
    BY <2>5
<1>3. Len(l) \in Nat
  OBVIOUS
<1> HIDE DEF N
<1>4. Len(l) \in N
  BY <1>1, <1>2, <1>3, NatSetInduction
<1> DEFINE F == CHOOSE f : IsPass(f, Len(l))
<1>5. IsPass(F, Len(l))
  <2>1. \E f : IsPass(f, Len(l))
    BY <1>4 DEF N
  <2> HIDE DEF IsPass
  <2>2. QED
    BY <2>1
<1>6. StatementsOf(l, t) = F[Len(l)]
  BY DEF StatementsOf
<1> HIDE DEF F
<1>7. \A i \in 0..Len(l) : F[i] = Step(F, i)
  BY <1>5
<1>8. Passes(F, l, t, Len(l))
  <2>1. 0 \in 0..Len(l) /\ \A i \in 1..Len(l) : i \in 0..Len(l) /\ i # 0
    BY <1>3
  <2>2. QED
    BY <1>7, <2>1 DEF Passes
<1>9. QED
  BY <1>6, <1>8

(* Statements of others that are added change nothing, and those of a      *)
(* transaction that had none are found as they were added.                 *)
LEMMA StatementsOfConcat ==
    ASSUME NEW p \in Seq(Transaction \X Nat), NEW q \in Seq(Transaction \X Nat), NEW t
    PROVE  /\ ~Present(q, t) => StatementsOf(p \o q, t) = StatementsOf(p, t)
           /\ StatementsOf(p, t) = << >> /\ (\A i \in DOMAIN q : q[i][1] = t)
                 => StatementsOf(p \o q, t) = q
<1> DEFINE r == p \o q
           m == Len(p)
           n == Len(q)
           E == Transaction \X Nat
<1>1. /\ m \in Nat /\ n \in Nat
      /\ r \in Seq(E) /\ Len(r) = m + n
      /\ \A i \in 1..m : r[i] = p[i]
      /\ \A i \in 1..n : r[m + i] = q[i]
  <2>1. /\ r \in Seq(E) /\ Len(r) = m + n
        /\ \A i \in 1..m + n : r[i] = IF i <= m THEN p[i] ELSE q[i - m]
    BY ConcatProperties
  <2>2. m \in Nat /\ n \in Nat
    OBVIOUS
  <2> HIDE DEF r, m, n
  <2>3. ASSUME NEW i \in 1..m PROVE r[i] = p[i]
    <3>1. i \in 1..m + n /\ i <= m
      BY <2>2
    <3>2. QED
      BY <2>1, <3>1
  <2>4. ASSUME NEW i \in 1..n PROVE r[m + i] = q[i]
    <3>1. m + i \in 1..m + n /\ ~(m + i <= m) /\ (m + i) - m = i
      BY <2>2
    <3>2. QED
      BY <2>1, <3>1
  <2>5. QED
    BY <2>1, <2>2, <2>3, <2>4
<1>2. /\ \A i \in 1..n : q[i] \in E
      /\ DOMAIN q = 1..n
  OBVIOUS
<1>3. PICK f : Passes(f, p, t, m) /\ StatementsOf(p, t) = f[m]
  BY StatementsOfEquation
<1>4. PICK g : Passes(g, r, t, m + n) /\ StatementsOf(r, t) = g[m + n]
  <2>1. r \in Seq(Transaction \X Nat) /\ Len(r) = m + n
    BY <1>1
  <2> HIDE DEF r, m, n
  <2>2. QED
    BY <2>1, StatementsOfEquation
<1> HIDE DEF r, m, n, E
<1>5. m \in Nat /\ n \in Nat
  BY <1>1
<1>6. g[m] = f[m]
  <2> DEFINE N == {i \in Nat : i <= m => g[i] = f[i]}
  <2>1. 0 \in N
    BY <1>3, <1>4 DEF Passes
  <2>2. ASSUME NEW i \in Nat, i \in N PROVE i + 1 \in N
    <3>1. SUFFICES ASSUME i + 1 <= m PROVE g[i + 1] = f[i + 1]
      OBVIOUS
    <3>2. /\ i + 1 \in 1..m /\ i + 1 \in 1..m + n /\ (i + 1) - 1 = i
          /\ g[i] = f[i] /\ r[i + 1] = p[i + 1]
      BY <1>1, <2>2, <3>1
    <3>3. QED
      BY <1>3, <1>4, <3>2 DEF Passes
  <2> HIDE DEF N
  <2>3. m \in N
    BY <1>1, <2>1, <2>2, NatSetInduction
  <2>4. QED
    BY <1>1, <2>3 DEF N
<1>7. ASSUME NEW i \in Nat, i + 1 <= n
      PROVE  g[m + (i + 1)] = IF q[i + 1][1] = t THEN Append(g[m + i], q[i + 1]) ELSE g[m + i]
  <2>1. /\ m + (i + 1) \in 1..m + n /\ (m + (i + 1)) - 1 = m + i
        /\ i + 1 \in 1..n
    BY <1>7, <1>5
  <2>2. r[m + (i + 1)] = q[i + 1]
    BY <1>1, <2>1
  <2>3. QED
    BY <1>4, <2>1, <2>2 DEF Passes
<1>8. ASSUME ~Present(q, t) PROVE g[m + n] = f[m]
  <2> DEFINE N == {i \in Nat : i <= n => g[m + i] = f[m]}
  <2>1. 0 \in N
    BY <1>1, <1>6, m + 0 = m
  <2>2. ASSUME NEW i \in Nat, i \in N PROVE i + 1 \in N
    <3>1. SUFFICES ASSUME i + 1 <= n PROVE g[m + (i + 1)] = f[m]
      OBVIOUS
    <3>2. q[i + 1][1] # t
      <4>1. i + 1 \in 1..n
        BY <1>5, <3>1
      <4>2. QED
        BY <1>2, <1>8, <4>1 DEF Present
    <3>3. g[m + i] = f[m]
      BY <1>1, <2>2, <3>1
    <3>4. QED
      BY <1>7, <3>1, <3>2, <3>3
  <2> HIDE DEF N
  <2>3. n \in N
    BY <1>1, <2>1, <2>2, NatSetInduction
  <2>4. QED
    BY <1>1, <2>3 DEF N
<1>9. ASSUME f[m] = << >>, \A i \in DOMAIN q : q[i][1] = t PROVE g[m + n] = q
  <2> DEFINE Begins(s, k) == s \in Seq(E) /\ Len(s) = k /\ \A j \in 1..k : s[j] = q[j]
             N == {i \in Nat : i <= n => Begins(g[m + i], i)}
  <2>1. 0 \in N
    <3>1. g[m + 0] = << >>
      BY <1>1, <1>6, <1>9, m + 0 = m
    <3>2. Begins(<< >>, 0)
      OBVIOUS
    <3>3. QED
      BY <3>1, <3>2
  <2>2. ASSUME NEW i \in Nat, i \in N PROVE i + 1 \in N
    <3>1. SUFFICES ASSUME i + 1 <= n PROVE Begins(g[m + (i + 1)], i + 1)
      OBVIOUS
    <3>2. i + 1 \in 1..n /\ q[i + 1][1] = t
      <4>1. i + 1 \in 1..n
        BY <1>5, <3>1
      <4>2. QED
        BY <1>2, <1>9, <4>1
    <3>3. g[m + (i + 1)] = Append(g[m + i], q[i + 1])
      BY <1>7, <3>1, <3>2
    <3>4. Begins(g[m + i], i)
      BY <1>1, <2>2, <3>1
    <3>5. ASSUME NEW s \in Seq(E), NEW e \in E, Len(s) = i,
                 e = q[i + 1], \A j \in 1..i : s[j] = q[j]
          PROVE  Begins(Append(s, e), i + 1)
      BY <3>5
    <3>6. q[i + 1] \in E
      BY <1>2, <3>2
    <3>7. QED
      BY <3>3, <3>4, <3>5, <3>6
  <2> HIDE DEF N
  <2>3. n \in N
    BY <1>1, <2>1, <2>2, NatSetInduction
  <2>4. Begins(g[m + n], n)
    BY <1>1, <2>3 DEF N
  <2>5. q \in Seq(E) /\ Len(q) = n
    BY DEF E, n
  <2>6. QED
    BY <2>4, <2>5, SeqEqual
<1>10. QED
  BY <1>3, <1>4, <1>8, <1>9 DEF r

-----------------------------------------------------------------------------
(* What the log holds of a transaction, and what a thread that has         *)
(* executed one knows of it.                                               *)
WholeLog == \A t \in Transaction :
    Logged(t) = IF Present(log, t) THEN Abstract!Statements(t) ELSE << >>

Answered(t) == Present(log, t) \/ CommitIsRefused(t)

DoneIsLogged ==
    /\ \A t \in Transaction : result[t] = "done" => Answered(t)
    /\ \A c \in Thread : pc[c] = "return" /\ errorCode[c] = "none" => Answered(current[c])

LogInv == Intact => WholeLog /\ DoneIsLogged

(* Each step keeps the log whole: it leaves it, or adds all statements of  *)
(* a transaction that had none there.                                      *)
LEMMA WholeLogNext ==
    ASSUME TxInv, Intact, Intact', WholeLog, [Next]_vars
    PROVE  WholeLog' /\ \A t \in Transaction : Present(log, t) => Present(log', t)
<1>1. CASE log' = log
  BY <1>1 DEF WholeLog, Logged, Present, Abstract!Statements
<1>2. ASSUME NEW t \in Transaction, Outcome(t) = "pending", Outcome(t)' = "committed",
             log' = log \o Abstract!Statements(t)
      PROVE  WholeLog' /\ \A s \in Transaction : Present(log, s) => Present(log', s)
  <2> DEFINE q == Abstract!Statements(t)
  <2>1. Size[t] > 0 /\ ~Present(log, t)
    BY <1>2 DEF Outcome, Present
  <2>2. log \in Seq(Transaction \X Nat)
    BY DEF TxInv, TypeOK
  <2>3. /\ q \in Seq(Transaction \X Nat)
        /\ \A s : Present(q, s) <=> s = t
        /\ \A i \in DOMAIN q : q[i][1] = t
    BY <2>1, StatementsLemma DEF Present
  <2>4. \A s : Present(log', s) <=> Present(log, s) \/ s = t
    BY <1>2, <2>2, <2>3, PresentInConcat
  <2>5. ASSUME NEW s \in Transaction
        PROVE  StatementsOf(log', s) = IF Present(log', s) THEN Abstract!Statements(s) ELSE << >>
    <3>1. StatementsOf(log, s) = IF Present(log, s) THEN Abstract!Statements(s) ELSE << >>
      BY DEF WholeLog, Logged
    <3>2. CASE s = t
      <4>1. StatementsOf(log \o q, s) = q
        <5>1. StatementsOf(log, t) = << >>
          BY <2>1, <3>1, <3>2
        <5>2. StatementsOf(log \o q, t) = q
          <6>1. q \in Seq(Transaction \X Nat) /\ \A i \in DOMAIN q : q[i][1] = t
            BY <2>3
          <6> HIDE DEF q
          <6>2. QED
            BY <2>2, <5>1, <6>1, StatementsOfConcat
        <5>3. QED
          BY <3>2, <5>2
      <4>2. QED
        BY <1>2, <2>4, <3>2, <4>1
    <3>3. CASE s # t
      <4>1. StatementsOf(log \o q, s) = StatementsOf(log, s)
        <5>1. q \in Seq(Transaction \X Nat) /\ ~Present(q, s)
          BY <2>3, <3>3
        <5> HIDE DEF q
        <5>2. QED
          BY <2>2, <5>1, StatementsOfConcat
      <4>2. QED
        BY <1>2, <2>4, <3>1, <3>3, <4>1
    <3>4. QED
      BY <3>2, <3>3
  <2>6. \A s : Abstract!Statements(s)' = Abstract!Statements(s)
    BY DEF Abstract!Statements
  <2>7. WholeLog'
    BY <2>5, <2>6 DEF WholeLog, Logged, Present
  <2>8. QED
    BY <2>4, <2>7
<1>3. QED
  BY <1>1, <1>2, StepIsAbstract

(* Each step keeps the promise to those that return: the transaction is in *)
(* the log, or its COMMIT refused, before any thread returns 0 for it.     *)
LEMMA DoneIsLoggedNext ==
    ASSUME TxInv, Intact, Intact', DoneIsLogged, [Next]_vars,
           \A t \in Transaction : Present(log, t) => Present(log', t)
    PROVE  DoneIsLogged'
<1> USE TypeParts
<1>0. TypeOK /\ Owners /\ Faithful /\ \A c \in Thread : SessionOf(c)
  BY DEF TxInv, Faithful
<1> DEFINE Good(c) == pc'[c] = "return" /\ errorCode'[c] = "none"
                         => Answered(current[c])'
           Kept(c) == /\ pc'[c] = "return" => pc[c] = "return"
                      /\ pc[c] = "return" =>
                            errorCode'[c] = errorCode[c] /\ current'[c] = current[c]
<1>17. ASSUME NEW t \in Transaction, Answered(t) PROVE Answered(t)'
  <2>1. ignored \subseteq ignored'
    BY <1>0, ServerTypeNext
  <2>2. QED
    BY <1>17, <2>1 DEF Answered, CommitIsRefused, Present
<1>1. ASSUME NEW c \in Thread, pc[c] = "return" PROVE current[c] \in Transaction
  BY <1>0, <1>1, OwnsIt
<1>2. ASSUME NEW c \in Thread, Kept(c) PROVE Good(c)
  <2>1. SUFFICES ASSUME pc[c] = "return", errorCode[c] = "none"
                 PROVE  Answered(current[c])'
    BY <1>2
  <2>2. current[c] \in Transaction /\ Answered(current[c])
    BY <1>1, <2>1 DEF DoneIsLogged
  <2>3. Answered(current[c])' <=> Present(log', current[c]) \/ <<current[c], "commit">> \in ignored'
    BY <1>2, <2>1 DEF Answered, CommitIsRefused, Present
  <2>4. PICK t \in Transaction : t = current[c]
    BY <2>2
  <2>5. Answered(t)'
    BY <1>17, <2>2, <2>4
  <2>6. QED
    BY <2>3, <2>4, <2>5 DEF Answered, CommitIsRefused, Present
<1>3. ASSUME result' = result, \A c \in Thread : Good(c) PROVE DoneIsLogged'
  <2>1. \A t \in Transaction : result'[t] = "done" => Answered(t)'
    BY <1>3, <1>17 DEF DoneIsLogged
  <2>2. QED
    BY <1>3, <2>1 DEF DoneIsLogged
<1>4. ASSUME NEW c \in Thread, OthersAsTheyWere(c) PROVE \A d \in Thread \ {c} : Good(d)
  BY <1>2, <1>4 DEF OthersAsTheyWere
<1>5. ASSUME NEW c \in Thread, OthersAsTheyWere(c), Good(c), result' = result PROVE DoneIsLogged'
  BY <1>3, <1>4, <1>5
<1>6. CASE UNCHANGED vars \/ Rest
  BY <1>2, <1>3, <1>6 DEF Rest, vars, client
<1>7. CASE Crash
  <2>1. result' = result /\ \A c \in Thread : pc'[c] = "dead"
    BY <1>7 DEF Crash
  <2>2. QED
    BY <1>3, <2>1
<1>8. ASSUME NEW c \in Thread, CommandSucceeds(c) PROVE DoneIsLogged'
  <2>1. /\ pc[c] \in Command /\ UNCHANGED <<current, errorCode, result>>
        /\ pc'[c] = CASE pc[c] = "begin" -> "statement"
                      [] pc[c] = "statement" -> AfterStatement(c)
                      [] OTHER -> "return"
    BY <1>0, <1>8 DEF CommandSucceeds, ClientType
  <2>2. OthersAsTheyWere(c)
    <3>1. pc'[c] # "dead"
      BY <2>1 DEF AfterStatement
    <3>2. QED
      BY <1>0, <1>8, <3>1, NextChangesOne DEF Run, Crash
  <2>3. current[c] \in Transaction
    BY <1>0, <2>1, OwnsIt DEF Command
  <2>4. Good(c)
    <3>1. CASE pc[c] = "commit"
      <4>1. log' = log \o Abstract!Statements(current[c]) /\ Size[current[c]] > 0
        BY <1>0, <1>8, <3>1, FaithfulCommand DEF SessionOf
      <4>2. log \in Seq(Transaction \X Nat)
        BY <1>0 DEF ServerType
      <4>3. Present(log', current[c])
        BY <2>3, <4>1, <4>2, StatementsLemma, PresentInConcat
      <4>4. QED
        BY <2>1, <4>3 DEF Answered, Present
    <3>2. CASE pc[c] = "rollback"
      BY <1>0, <2>1, <3>2 DEF SessionOf
    <3>3. CASE pc[c] \notin {"commit", "rollback"}
      BY <2>1, <3>3 DEF Command, AfterStatement
    <3>4. QED
      BY <3>1, <3>2, <3>3
  <2>5. QED
    BY <1>5, <2>1, <2>2, <2>4
<1>9. ASSUME NEW c \in Thread, TransactionSucceeds(c) \/ TransactionFails(c) PROVE DoneIsLogged'
  <2>1. PICK r \in {"done", "failed"} :
           Leave(c, r) /\ pc[c] = "return" /\ (r = "done" => errorCode[c] = "none")
    BY <1>9 DEF TransactionSucceeds, TransactionFails
  <2>2. pc'[c] = "idle" /\ result' = [result EXCEPT ![current[c]] = r]
    BY <1>0, <2>1 DEF Leave, ClientType
  <2>3. OthersAsTheyWere(c)
    BY <1>0, <1>9, <2>2, NextChangesOne DEF Run, Crash
  <2>4. \A d \in Thread : Good(d)
    BY <1>4, <2>2, <2>3
  <2>5. ASSUME NEW t \in Transaction, result'[t] = "done" PROVE Answered(t)'
    <3>1. CASE t = current[c] /\ r = "done"
      <4>1. Answered(t)
        BY <2>1, <3>1 DEF DoneIsLogged
      <4>2. QED
        BY <1>17, <4>1
    <3>2. CASE ~(t = current[c] /\ r = "done")
      <4>1. result[t] = "done"
        BY <1>0, <2>2, <2>5, <3>2 DEF ClientType
      <4>2. Answered(t)
        BY <4>1 DEF DoneIsLogged
      <4>3. QED
        BY <1>17, <4>2
    <3>3. QED
      BY <3>1, <3>2
  <2>6. QED
    BY <2>4, <2>5 DEF DoneIsLogged
<1>10. ASSUME NEW c \in Thread, LockAndRetry(c) \/ Retry(c) PROVE DoneIsLogged'
  <2>1. CallExecuteTransaction(c, current[c]) /\ result' = result
    BY <1>10 DEF LockAndRetry, Retry
  <2>2. pc'[c] # "dead" /\ (pc'[c] = "return" => errorCode'[c] = "other")
    BY <1>0, <2>1 DEF CallExecuteTransaction, ClientType
  <2>3. OthersAsTheyWere(c)
    BY <1>0, <1>10, <2>2, NextChangesOne DEF Run, Crash
  <2>4. QED
    BY <1>5, <2>1, <2>2, <2>3
<1>11. ASSUME NEW c \in Thread, NEW error \in {"deadlock", "other"}, StatementFails(c, error)
       PROVE  DoneIsLogged'
  <2>1. result' = result /\ pc'[c] = "rollback"
    BY <1>0, <1>11 DEF StatementFails, AfterRefusal, ClientType
  <2>2. OthersAsTheyWere(c)
    BY <1>0, <1>11, NextChangesOne
  <2>3. QED
    BY <1>5, <2>1, <2>2
<1>12. ASSUME NEW c \in Thread, NEW t \in Transaction, StartTransaction(c, t) PROVE DoneIsLogged'
  <2>1. /\ CallExecuteTransaction(c, t) /\ result' = [result EXCEPT ![t] = "running"]
    BY <1>12 DEF StartTransaction
  <2>2. pc'[c] = "return" => errorCode'[c] = "other"
    BY <1>0, <2>1 DEF CallExecuteTransaction, ClientType
  <2>3. OthersAsTheyWere(c)
    BY <1>0, <1>12, NextChangesOne
  <2>4. \A d \in Thread : Good(d)
    BY <1>4, <2>2, <2>3
  <2>5. \A s \in Transaction : result'[s] = "done" => result[s] = "done"
    BY <1>0, <2>1 DEF ClientType
  <2>6. \A s \in Transaction : result'[s] = "done" => Answered(s)'
    BY <1>17, <2>5 DEF DoneIsLogged
  <2>7. QED
    BY <2>4, <2>6 DEF DoneIsLogged
<1>13. ASSUME NEW c \in Thread
       PROVE  ~Reconnect(c) /\ ~ReconnectFails(c) /\ ~ExecuteReturnsFalse(c) /\ ~ConnectionIsLost(c)
  <2>1. connected[c] /\ pc[c] # "reconnect"
    BY <1>0 DEF SessionOf
  <2>2. ~ConnectionIsLost(c)
    BY DEF ConnectionIsLost, Intact
  <2>3. QED
    BY <2>1, <2>2 DEF Reconnect, ReconnectFails, ExecuteReturnsFalse
<1>14. ASSUME NEW c \in Thread, CommandIsRefused(c) PROVE DoneIsLogged'
  <2>1. /\ result' = result /\ current'[c] = current[c]
        /\ \A t : CommitIsRefused(t)' <=> CommitIsRefused(t) \/ t = current[c]
    BY <1>0, <1>14, FaithfulRefused
  <2>2. OthersAsTheyWere(c)
    BY <1>0, <1>14, NextChangesOne
  <2>3. Good(c)
    BY <2>1 DEF Answered, CommitIsRefused
  <2>4. QED
    BY <1>5, <2>1, <2>2, <2>3
<1>15. QED
  BY <1>6, <1>7, <1>8, <1>9, <1>10, <1>11, <1>12, <1>13, <1>14 DEF Next, Run, Abort

(* A transaction is reported as done when all its statements are in the    *)
(* database, or none and its COMMIT was refused, which is what the code    *)
(* does not notice; and as failed, or not begun, only when none of them    *)
(* is: the error code that decides it tells the truth about everything     *)
(* else that was refused, deadlocked or retried, for as long as the        *)
(* sessions are intact.                                                    *)
THEOREM ResultsAreTrue == Spec => []ResultIsTrue
<1>1. Init => LogInv
  <2> SUFFICES ASSUME Init PROVE LogInv
    OBVIOUS
  <2>1. log \in Seq(Transaction \X Nat) /\ Len(log) = 0 /\ DOMAIN log = {}
    BY DEF Init
  <2>2. ASSUME NEW t PROVE StatementsOf(log, t) = << >>
    <3>1. PICK f : Passes(f, log, t, Len(log)) /\ StatementsOf(log, t) = f[Len(log)]
      BY <2>1, StatementsOfEquation
    <3>2. QED
      BY <2>1, <3>1 DEF Passes
  <2>3. QED
    BY <2>1, <2>2 DEF Init, LogInv, WholeLog, DoneIsLogged, Answered, Logged, Present
<1>2. TxInv /\ LogInv /\ [Next]_vars => LogInv'
  <2> SUFFICES ASSUME TxInv, LogInv, [Next]_vars, Intact' PROVE WholeLog' /\ DoneIsLogged'
    BY DEF LogInv
  <2>1. Intact
    BY IntactBefore DEF TxInv
  <2>2. WholeLog' /\ \A t \in Transaction : Present(log, t) => Present(log', t)
    BY <2>1, WholeLogNext DEF LogInv
  <2>3. DoneIsLogged'
    BY <2>1, <2>2, DoneIsLoggedNext DEF LogInv
  <2>4. QED
    BY <2>2, <2>3
<1>3. TxInv /\ LogInv => ResultIsTrue
  <2> SUFFICES ASSUME TxInv, LogInv, Intact, NEW t \in Transaction
               PROVE  /\ result[t] = "done" =>
                            Logged(t) = IF CommitIsRefused(t) THEN << >>
                                        ELSE Abstract!Statements(t)
                      /\ result[t] \in {"new", "failed"} => Logged(t) = << >>
    BY DEF ResultIsTrue
  <2>1. Logged(t) = IF Present(log, t) THEN Abstract!Statements(t) ELSE << >>
    BY DEF LogInv, WholeLog
  <2>2. /\ result[t] = "done" => Present(log, t) \/ CommitIsRefused(t)
        /\ ~(Present(log, t) /\ CommitIsRefused(t))
    BY DEF LogInv, DoneIsLogged, Answered, TxInv, Faithful, CommitsAnswered
  <2>3. ASSUME result[t] \in {"new", "failed"} PROVE ~Present(log, t)
    <3>1. \A c \in Thread : current[c] # t
      BY <2>3, TransactionsAssumption DEF TxInv, Owners, OwnedRun
    <3>2. ~Executed(t)
      BY <2>3, <3>1 DEF Executed
    <3>3. QED
      BY <3>2 DEF TxInv, Faithful, CommitsAnswered
  <2>4. QED
    BY <2>1, <2>2, <2>3
<1>4. QED
  BY <1>1, <1>2, <1>3, InitTx, TxInvNext, PTL DEF Spec

-----------------------------------------------------------------------------
(* The lock of the retries.                                                *)
RetryInv == TypeOK /\ OneRetrier

(* Every step of LockAndRetry, Retry and the ways out keeps the lock with  *)
(* the worker that retries.                                                *)
LEMMA RetryInvNext == RetryInv /\ TypeOK' /\ [Next]_vars => OneRetrier'
<1> SUFFICES ASSUME TypeOK, OneRetrier, [Next]_vars PROVE OneRetrier'
  BY DEF RetryInv
<1> USE TypeParts
<1>0. nobody \notin Worker
  BY TransactionsAssumption DEF Thread
<1>1. ASSUME UNCHANGED <<retries, _deadlockLock>> PROVE OneRetrier'
  BY <1>1 DEF OneRetrier
<1>2. ASSUME NEW c \in Thread, NEW r, Leave(c, r) PROVE OneRetrier'
  <2>1. /\ retries' = [retries EXCEPT ![c] = 0]
        /\ _deadlockLock' = IF _deadlockLock = c THEN nobody ELSE _deadlockLock
    BY <1>2 DEF Leave, LockAfter
  <2>2. QED
    BY <2>1 DEF OneRetrier, ClientType, Thread
<1>3. ASSUME NEW c \in Thread, LockAndRetry(c) PROVE OneRetrier'
  <2>1. /\ retries' = [retries EXCEPT ![c] = 1]
        /\ _deadlockLock = nobody /\ _deadlockLock' = c
    BY <1>3 DEF LockAndRetry, LockIsFree
  <2>2. QED
    BY <1>0, <2>1 DEF OneRetrier, ClientType, Thread
<1>4. ASSUME NEW c \in Thread, Retry(c) PROVE OneRetrier'
  <2>1. /\ c \in Caller \/ retries[c] > 0
        /\ retries' = [retries EXCEPT ![c] = @ + 1] /\ UNCHANGED _deadlockLock
    BY <1>4 DEF Retry, RetriesAfter
  <2>2. c \in Caller => c \notin Worker
    BY TransactionsAssumption
  <2>3. QED
    BY <2>1, <2>2 DEF OneRetrier, ClientType, Thread
<1>5. CASE UNCHANGED vars \/ Crash \/ Rest
  BY <1>1, <1>5 DEF vars, client, Crash, Rest
<1>6. ASSUME NEW c \in Thread,
             \/ CommandSucceeds(c) \/ Reconnect(c) \/ ReconnectFails(c)
             \/ ExecuteReturnsFalse(c) \/ ConnectionIsLost(c) \/ CommandIsRefused(c)
             \/ \E error \in {"deadlock", "other"} : StatementFails(c, error)
             \/ \E t \in Transaction : StartTransaction(c, t)
      PROVE  OneRetrier'
  <2>1. UNCHANGED <<retries, _deadlockLock>>
    BY <1>6 DEF CommandSucceeds, Reconnect, ReconnectFails, ExecuteReturnsFalse,
                ConnectionIsLost, CommandIsRefused, StatementFails, StartTransaction, client
  <2>2. QED
    BY <1>1, <2>1
<1>7. QED
  BY <1>2, <1>3, <1>4, <1>5, <1>6 DEF Next, Run, Abort, TransactionSucceeds, TransactionFails

(* "Make sure only 1 async thread retries a transaction": whatever fails   *)
(* and however often, a worker that retries holds _deadlockLock.           *)
THEOREM OneWorkerRetries == Spec => []OneRetrier
<1>1. Init => OneRetrier
  BY DEF Init, OneRetrier, Thread
<1>2. TypeOK /\ TypeOK' /\ OneRetrier /\ [Next]_vars => OneRetrier'
  BY RetryInvNext DEF RetryInv
<1>3. QED
  BY <1>1, <1>2, TransactionTypes, PTL DEF Spec
=============================================================================
