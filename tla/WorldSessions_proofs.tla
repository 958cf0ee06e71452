------------------------ MODULE WorldSessions_proofs ------------------------
(***************************************************************************)
(* Theorems about WorldSessions, for every number of sessions and          *)
(* accounts, every player limit and every tolerance: the queue holds live  *)
(* sessions, a session has one owner from its hand-over to its deletion,   *)
(* what the waiting state of a client stands for, that the server ends     *)
(* without the players it kicked, that the player limit is kept and used,  *)
(* and that nobody overtakes in the queue.                                 *)
(***************************************************************************)
EXTENDS WorldSessions, DataFacts

(* Taking out one occurrence of an element takes out the element, and      *)
(* leaves the others in their order.                                       *)
LEMMA QueueWithoutLemma ==
    ASSUME NEW q \in Seq(Session), NEW sess, sess \in ToSet(q)
    PROVE  LET r == QueueWithout(q, sess)
           IN  /\ r \in Seq(Session) /\ Len(r) = Len(q) - 1
               /\ \A s, t : Before(r, s, t) => Before(q, s, t)
               /\ ToSet(r) \subseteq ToSet(q) /\ ToSet(q) \subseteq ToSet(r) \union {sess}
               /\ IsInjective(q) => IsInjective(r) /\ sess \notin ToSet(r)
<1> DEFINE k == CHOOSE i \in DOMAIN q : q[i] = sess
           r == QueueWithout(q, sess)
           front == SubSeq(q, 1, k - 1)
           back == SubSeq(q, k + 1, Len(q))
<1>1. k \in 1..Len(q) /\ q[k] = sess
  BY DEF ToSet
<1>2. r = front \o back
  BY DEF QueueWithout, RemoveAt
<1> HIDE DEF k, r
<1>3. /\ front \in Seq(Session) /\ Len(front) = k - 1
      /\ \A i \in 1..k - 1 : front[i] = q[i]
  BY <1>1, SubSeqProperties
<1>4. /\ back \in Seq(Session) /\ Len(back) = Len(q) - k
      /\ \A i \in 1..Len(q) - k : back[i] = q[k + i]
  BY <1>1, SubSeqProperties
<1> HIDE DEF front, back
<1>5. r \in Seq(Session) /\ Len(r) = Len(q) - 1
  <2>1. r \in Seq(Session) /\ Len(r) = Len(front) + Len(back)
    BY <1>2, <1>3, <1>4, ConcatProperties
  <2>2. QED
    BY <1>1, <1>3, <1>4, <2>1
<1>6. \A i \in 1..Len(q) - 1 : r[i] = IF i < k THEN q[i] ELSE q[i + 1]
  <2>1. \A i \in 1..Len(q) - 1 :
            r[i] = IF i <= Len(front) THEN front[i] ELSE back[i - Len(front)]
    BY <1>1, <1>2, <1>3, <1>4, ConcatProperties
  <2>2. ASSUME NEW i \in 1..Len(q) - 1 PROVE r[i] = IF i < k THEN q[i] ELSE q[i + 1]
    <3>1. CASE i < k
      <4>1. i <= k - 1 /\ i \in 1..k - 1
        BY <1>1, <3>1
      <4>2. r[i] = front[i]
        BY <1>3, <2>1, <4>1
      <4>3. front[i] = q[i]
        BY <1>3, <4>1
      <4>4. QED
        BY <3>1, <4>2, <4>3
    <3>2. CASE ~(i < k)
      <4> DEFINE j == i - (k - 1)
      <4>1. ~(i <= k - 1) /\ j \in 1..Len(q) - k /\ k + j = i + 1
        BY <1>1, <3>2
      <4>2. r[i] = back[j]
        BY <1>3, <2>1, <4>1
      <4> HIDE DEF j
      <4>3. back[j] = q[k + j]
        BY <1>4, <4>1
      <4>4. r[i] = q[i + 1]
        BY <4>1, <4>2, <4>3
      <4>5. QED
        BY <3>2, <4>4
    <3>3. QED
      BY <3>1, <3>2
  <2>3. QED
    BY <2>2
<1> DEFINE n(i) == IF i < k THEN i ELSE i + 1
<1>7. \A i \in 1..Len(r) : n(i) \in 1..Len(q) /\ n(i) # k /\ r[i] = q[n(i)]
  BY <1>1, <1>5, <1>6
<1>8. \A i, j \in 1..Len(r) : (n(i) = n(j) => i = j) /\ (i < j => n(i) < n(j))
  BY <1>1, <1>5
<1> HIDE DEF n
<1>9. ToSet(r) \subseteq ToSet(q)
  BY <1>5, <1>7 DEF ToSet
<1>10. ASSUME IsInjective(q) PROVE IsInjective(r) /\ sess \notin ToSet(r)
  <2>1. IsInjective(r)
    BY <1>5, <1>7, <1>8, <1>10 DEF IsInjective
  <2>2. ASSUME NEW i \in 1..Len(r) PROVE r[i] # sess
    BY <1>1, <1>7, <1>10 DEF IsInjective
  <2>3. QED
    BY <1>5, <2>1, <2>2 DEF ToSet
<1>11. ToSet(q) \subseteq ToSet(r) \union {sess}
  <2>1. ASSUME NEW i \in 1..Len(q), i < k PROVE q[i] \in ToSet(r)
    BY <1>1, <1>5, <1>6, <2>1, i \in 1..Len(r), r[i] = q[i] DEF ToSet
  <2>2. ASSUME NEW i \in 1..Len(q), i > k PROVE q[i] \in ToSet(r)
    BY <1>1, <1>5, <1>6, <2>2, i - 1 \in 1..Len(r), r[i - 1] = q[i] DEF ToSet
  <2>3. ASSUME NEW i \in 1..Len(q) PROVE q[i] \in ToSet(r) \union {sess}
    BY <1>1, <2>1, <2>2
  <2>4. ToSet(q) = {q[i] : i \in 1..Len(q)}
    BY DEF ToSet
  <2>5. QED
    BY <2>3, <2>4
<1>12. ASSUME NEW s, NEW t, Before(r, s, t) PROVE Before(q, s, t)
  BY <1>5, <1>7, <1>8, <1>12 DEF Before
<1>13. QED
  BY <1>5, <1>9, <1>10, <1>11, <1>12 DEF r

(* What RemoveQueuedPlayer leaves in the queue: no stranger, no repetition *)
(* and not the session that was to be removed.                             *)
LEMMA RemoveQueuedPlayerLemma ==
    ASSUME NEW q \in Seq(Session), NEW sess, NEW size
    PROVE  LET r == RemoveQueuedPlayer(q, sess, size)
           IN  /\ r.queue \in Seq(Session)
               /\ ToSet(r.queue) \subseteq ToSet(q)
               /\ IsInjective(q) => IsInjective(r.queue) /\ sess \notin ToSet(r.queue)
<1> DEFINE left == IF sess \in ToSet(q) THEN QueueWithout(q, sess) ELSE q
           r == RemoveQueuedPlayer(q, sess, size)
<1>1. /\ left \in Seq(Session)
      /\ ToSet(left) \subseteq ToSet(q)
      /\ IsInjective(q) => IsInjective(left) /\ sess \notin ToSet(left)
  BY QueueWithoutLemma
<1>2. r.queue = left \/ (left # << >> /\ r.queue = Tail(left))
  BY DEF RemoveQueuedPlayer
<1> HIDE DEF left, r
<1>3. CASE r.queue = left
  BY <1>1, <1>3 DEF r
<1>4. CASE left # << >> /\ r.queue = Tail(left)
  <2>1. /\ r.queue \in Seq(Session)
        /\ Len(r.queue) = Len(left) - 1
        /\ \A i \in 1..Len(r.queue) : r.queue[i] = left[i + 1]
    BY <1>1, <1>4, HeadTailProperties
  <2>2. ToSet(r.queue) \subseteq ToSet(left)
    BY <1>1, <2>1 DEF ToSet
  <2>3. IsInjective(left) => IsInjective(r.queue)
    <3>1. ASSUME IsInjective(left),
                 NEW i \in 1..Len(r.queue), NEW j \in 1..Len(r.queue),
                 r.queue[i] = r.queue[j]
          PROVE  i = j
      <4>1. left[i + 1] = left[j + 1] /\ i + 1 \in 1..Len(left) /\ j + 1 \in 1..Len(left)
        BY <1>1, <2>1, <3>1
      <4>2. QED
        BY <1>1, <3>1, <4>1 DEF IsInjective
    <3>2. QED
      BY <2>1, <3>1 DEF IsInjective
  <2>4. QED
    BY <1>1, <2>1, <2>2, <2>3 DEF r
<1>5. QED
  BY <1>2, <1>3, <1>4

(* Deleting a set of sessions keeps the fields of session objects typed.   *)
LEMMA DeleteType ==
    ASSUME TypeOK, NEW D,
           NEW inQueue \in [Session -> BOOLEAN],
           NEW open \in [Session -> BOOLEAN],
           NEW realm \in [Session -> {"none", "pending", "ready", "done"}],
           NEW play \in [Session -> {"none", "loading", "inworld"}],
           NEW force \in [Session -> BOOLEAN],
           NEW expire \in [Session -> 0..ExpireTime],
           Delete(D, inQueue, open, realm, play, force, expire)
    PROVE  /\ status' \in [Session -> {"unborn", "alive", "deleted"}]
           /\ m_inQueue' \in [Session -> BOOLEAN]
           /\ socketOpen' \in [Session -> BOOLEAN]
           /\ realmLogin' \in [Session -> {"none", "pending", "ready", "done"}]
           /\ player' \in [Session -> {"none", "loading", "inworld"}]
           /\ forceExit' \in [Session -> BOOLEAN]
           /\ expireTime' \in [Session -> 0..ExpireTime]
  BY NumbersAssumption DEF Delete, TypeOK

(* The account data that arrive keep their type.                           *)
LEMMA InitializeSessionsType ==
    ASSUME TypeOK, NEW S
    PROVE  InitializeSessions(S) \in [Session -> {"none", "pending", "ready", "done"}]
  BY DEF InitializeSessions, TypeOK

(* The result of one WorldSession::Update is typed.                        *)
LEMMA SessionUpdateType ==
    ASSUME TypeOK, NEW s \in Session, NEW u \in SessionUpdates(s)
    PROVE  /\ u.open \in BOOLEAN
           /\ u.force \in BOOLEAN
           /\ u.inQueue \in BOOLEAN
           /\ u.realm \in {"none", "pending", "ready", "done"}
           /\ u.play \in {"none", "loading", "inworld"}
           /\ u.expire \in 0..ExpireTime
<1> PICK idle \in BOOLEAN, login \in BOOLEAN, logout \in BOOLEAN,
         character \in {"wait", "ok", "fail"} :
            u = SessionUpdate(s, idle, login, character, logout)
  BY DEF SessionUpdates
<1> USE DEF SessionUpdate
<1>1. u.open \in BOOLEAN /\ u.force \in BOOLEAN
  BY DEF TypeOK
<1>2. u.inQueue \in BOOLEAN /\ u.realm \in {"none", "pending", "ready", "done"}
  BY DEF InitializeSessionCallback, TypeOK
<1>3. u.play \in {"none", "loading", "inworld"}
  BY DEF AfterCharacterData, TypeOK
<1>4. u.expire \in 0..ExpireTime
  BY NumbersAssumption DEF ExpireTimeAfter, TypeOK
<1>5. QED
  BY <1>1, <1>2, <1>3, <1>4

-----------------------------------------------------------------------------
(* The types hold at the start.                                            *)
LEMMA InitType == Init => TypeOK
<1> SUFFICES ASSUME Init PROVE TypeOK
  OBVIOUS
<1> USE DEF Init
<1>1. /\ addSessQueue \in Seq(Session) /\ m_QueuedPlayer \in Seq(Session)
      /\ m_sessions \in [Account -> Session \union {null}]
      /\ m_disconnects \in [Account -> 0..MaxTime \union {never}]
  OBVIOUS
<1>2. /\ gameTime \in 0..MaxTime
      /\ expireTime \in [Session -> 0..ExpireTime]
  BY NumbersAssumption
<1>3. /\ status \in [Session -> {"unborn", "alive", "deleted"}]
      /\ m_inQueue \in [Session -> BOOLEAN] /\ socketOpen \in [Session -> BOOLEAN]
      /\ realmLogin \in [Session -> {"none", "pending", "ready", "done"}]
      /\ player \in [Session -> {"none", "loading", "inworld"}]
      /\ forceExit \in [Session -> BOOLEAN]
  OBVIOUS
<1>4. QED
  BY <1>1, <1>2, <1>3 DEF TypeOK

(* AddSession_ keeps the types when it accepts a session.                  *)
LEMMA AcceptSessionType ==
    ASSUME TypeOK, AcceptSession
    PROVE  TypeOK'
<1> DEFINE s == Head(addSessQueue)
           old == m_sessions[AccountOf[s]]
           removal == IF old = null
                      THEN [found |-> FALSE, queue |-> m_QueuedPlayer, popped |-> {}]
                      ELSE RemoveQueuedPlayer(m_QueuedPlayer, old,
                                              GetActiveAndQueuedSessionCount)
<1>1. s \in Session /\ AccountOf[s] \in Account
  <2>1. addSessQueue # << >>
    BY DEF AcceptSession
  <2>2. addSessQueue \in Seq(Session)
    BY DEF TypeOK
  <2>3. s \in Session
    BY <2>1, <2>2, TailLemma
  <2>4. QED
    BY <2>3, SessionsAssumption
<1>2. removal.queue \in Seq(Session)
  <2>1. m_QueuedPlayer \in Seq(Session)
    BY DEF TypeOK
  <2>2. \A x, n : RemoveQueuedPlayer(m_QueuedPlayer, x, n).queue \in Seq(Session)
    BY <2>1, RemoveQueuedPlayerLemma, Zenon
  <2>3. QED
    BY <2>1, <2>2
<1>3. m_QueuedPlayer' = removal.queue \/ m_QueuedPlayer' = Append(removal.queue, s)
  BY DEF AcceptSession, AddQueuedPlayer
<1>4. m_disconnects' \in [Account -> 0..MaxTime \union {never}]
  BY DEF AcceptSession, DisconnectsAfterSearch, TypeOK
<1>a. PICK queued \in BOOLEAN : \E P :
         Delete(Replaced(old), [m_inQueue EXCEPT ![s] = queued], socketOpen,
                InitializeSessions(P), player, forceExit, expireTime)
  BY DEF AcceptSession
<1>5. PICK S :
         Delete(Replaced(old), [m_inQueue EXCEPT ![s] = queued], socketOpen,
                InitializeSessions(S), player, forceExit, expireTime)
  BY <1>a
<1>6. [m_inQueue EXCEPT ![s] = queued] \in [Session -> BOOLEAN]
  BY <1>a DEF TypeOK
<1>7. InitializeSessions(S) \in [Session -> {"none", "pending", "ready", "done"}]
  BY InitializeSessionsType
<1> HIDE DEF s, old, removal
<1>8. m_QueuedPlayer' \in Seq(Session)
  BY <1>1, <1>2, <1>3
<1>9. /\ status' \in [Session -> {"unborn", "alive", "deleted"}]
      /\ m_inQueue' \in [Session -> BOOLEAN]
      /\ socketOpen' \in [Session -> BOOLEAN]
      /\ realmLogin' \in [Session -> {"none", "pending", "ready", "done"}]
      /\ player' \in [Session -> {"none", "loading", "inworld"}]
      /\ forceExit' \in [Session -> BOOLEAN]
      /\ expireTime' \in [Session -> 0..ExpireTime]
  BY <1>5, <1>6, <1>7, DeleteType DEF TypeOK
<1>10. /\ addSessQueue' \in Seq(Session)
       /\ m_sessions' \in [Account -> Session \union {null}]
  <2>1. addSessQueue' = Tail(addSessQueue) /\ addSessQueue # << >>
    BY DEF AcceptSession
  <2>2. m_sessions' = [m_sessions EXCEPT ![AccountOf[s]] = s]
    BY DEF AcceptSession, s
  <2>3. addSessQueue \in Seq(Session) /\ m_sessions \in [Account -> Session \union {null}]
    BY DEF TypeOK
  <2>4. addSessQueue' \in Seq(Session)
    BY <2>1, <2>3, TailLemma
  <2>5. QED
    BY <1>1, <2>2, <2>3, <2>4
<1>11. UNCHANGED <<m_playerLimit, gameTime, thread>>
  BY DEF AcceptSession
<1>12. QED
  BY <1>4, <1>8, <1>9, <1>10, <1>11 DEF TypeOK, thread

(* An iteration of the session loop keeps the types.                       *)
LEMMA UpdateSessionType ==
    ASSUME TypeOK, NEW a \in Account, m_sessions[a] # null, UpdateSession(a)
    PROVE  TypeOK'
<1> DEFINE s == m_sessions[a]
           size == GetActiveAndQueuedSessionCount
           first == RemoveQueuedPlayer(m_QueuedPlayer, s, size)
           second == RemoveQueuedPlayer(first.queue, s, size)
<1>1. s \in Session
  BY DEF TypeOK
<1>2. first.queue \in Seq(Session)
  BY RemoveQueuedPlayerLemma DEF TypeOK
<1>3. second.queue \in Seq(Session)
  <2> DEFINE q == first.queue
  <2> HIDE DEF q
  <2>1. RemoveQueuedPlayer(q, s, size).queue \in Seq(Session)
    BY <1>2, RemoveQueuedPlayerLemma DEF q
  <2>2. QED
    BY <2>1 DEF q
<1>4. m_QueuedPlayer' \in Seq(Session)
  <2>1. m_QueuedPlayer' = second.queue \/ m_QueuedPlayer' = m_QueuedPlayer
    BY DEF UpdateSession
  <2>2. QED
    BY <1>3, <2>1 DEF TypeOK
<1> HIDE DEF first, second, size
<1>5. m_sessions' \in [Account -> Session \union {null}]
  BY DEF UpdateSession, TypeOK
<1>6. m_disconnects' \in [Account -> 0..MaxTime \union {never}]
  <2>1. m_disconnects' = [m_disconnects EXCEPT ![a] = gameTime] \/ m_disconnects' = m_disconnects
    BY DEF UpdateSession, DisconnectTime
  <2>2. QED
    BY <2>1 DEF TypeOK
<1>7. toUpdate' \subseteq Account
  BY DEF UpdateSession, TypeOK
<1>8. UNCHANGED <<addSessQueue, m_playerLimit, gameTime, phase, stopping, kicked>>
  BY DEF UpdateSession
<1>9. PICK u \in SessionUpdates(s) :
         Delete(IF u.removed THEN {s} ELSE {},
                [m_inQueue EXCEPT ![s] = u.inQueue],
                [socketOpen EXCEPT ![s] = u.open],
                [InitializeSessions(IF u.removed THEN first.popped \union second.popped
                                    ELSE {}) EXCEPT ![s] = u.realm],
                [player EXCEPT ![s] = u.play],
                [forceExit EXCEPT ![s] = u.force],
                [expireTime EXCEPT ![s] = u.expire])
  BY DEF UpdateSession, first, second, size
<1> HIDE DEF s
<1> DEFINE D == IF u.removed THEN {s} ELSE {}
           S == IF u.removed THEN first.popped \union second.popped ELSE {}
<1>10. /\ u.open \in BOOLEAN /\ u.force \in BOOLEAN /\ u.inQueue \in BOOLEAN
       /\ u.realm \in {"none", "pending", "ready", "done"}
       /\ u.play \in {"none", "loading", "inworld"}
       /\ u.expire \in 0..ExpireTime
  BY <1>1, <1>9, SessionUpdateType
<1>11. Delete(D,
              [m_inQueue EXCEPT ![s] = u.inQueue],
              [socketOpen EXCEPT ![s] = u.open],
              [InitializeSessions(S) EXCEPT ![s] = u.realm],
              [player EXCEPT ![s] = u.play],
              [forceExit EXCEPT ![s] = u.force],
              [expireTime EXCEPT ![s] = u.expire])
  BY <1>9
<1> HIDE DEF D, S
<1>12. InitializeSessions(S) \in [Session -> {"none", "pending", "ready", "done"}]
  BY InitializeSessionsType
<1>13. /\ [m_inQueue EXCEPT ![s] = u.inQueue] \in [Session -> BOOLEAN]
       /\ [socketOpen EXCEPT ![s] = u.open] \in [Session -> BOOLEAN]
       /\ [InitializeSessions(S) EXCEPT ![s] = u.realm]
              \in [Session -> {"none", "pending", "ready", "done"}]
       /\ [player EXCEPT ![s] = u.play] \in [Session -> {"none", "loading", "inworld"}]
       /\ [forceExit EXCEPT ![s] = u.force] \in [Session -> BOOLEAN]
       /\ [expireTime EXCEPT ![s] = u.expire] \in [Session -> 0..ExpireTime]
  BY <1>10, <1>12 DEF TypeOK
<1>14. /\ status' \in [Session -> {"unborn", "alive", "deleted"}]
       /\ m_inQueue' \in [Session -> BOOLEAN]
       /\ socketOpen' \in [Session -> BOOLEAN]
       /\ realmLogin' \in [Session -> {"none", "pending", "ready", "done"}]
       /\ player' \in [Session -> {"none", "loading", "inworld"}]
       /\ forceExit' \in [Session -> BOOLEAN]
       /\ expireTime' \in [Session -> 0..ExpireTime]
  BY <1>11, <1>13, DeleteType
<1>15. QED
  BY <1>4, <1>5, <1>6, <1>7, <1>8, <1>14 DEF TypeOK

(* What UpdateSessions dereferences: the session loop never reaches an     *)
(* account whose session is gone.                                          *)
LoopVisitsSessions == \A a \in toUpdate : m_sessions[a] # null

(* The inductive invariant.                                                *)
QueueInv == TypeOK /\ LoopVisitsSessions /\ NoDanglingQueueEntry

(* The conjunct about the queue, in terms of its elements.                 *)
LEMMA NoDanglingByElement ==
    NoDanglingQueueEntry <=>
        IsInjective(m_QueuedPlayer) /\ \A t \in ToSet(m_QueuedPlayer) : InTable(t)
  BY DEF NoDanglingQueueEntry, IsInjective, ToSet

(* AddSession_ frees the session it replaces: it is no longer queued.      *)
LEMMA AcceptSessionKeepsQueue ==
    ASSUME QueueInv, AcceptSession
    PROVE  NoDanglingQueueEntry'
<1> DEFINE s == Head(addSessQueue)
           a == AccountOf[s]
           old == m_sessions[a]
           removal == IF old = null
                      THEN [found |-> FALSE, queue |-> m_QueuedPlayer, popped |-> {}]
                      ELSE RemoveQueuedPlayer(m_QueuedPlayer, old,
                                              GetActiveAndQueuedSessionCount)
           q == removal.queue
<1>1. s \in Session /\ a \in Account /\ s # null
  <2>1. addSessQueue # << >>
    BY DEF AcceptSession
  <2>2. addSessQueue \in Seq(Session)
    BY DEF QueueInv, TypeOK
  <2>3. s \in Session
    BY <2>1, <2>2, TailLemma
  <2>4. QED
    BY <2>3, SessionsAssumption
<1>2. IsInjective(m_QueuedPlayer) /\ \A t \in ToSet(m_QueuedPlayer) : InTable(t)
  BY NoDanglingByElement DEF QueueInv
<1>3. m_QueuedPlayer \in Seq(Session) /\ ToSet(m_QueuedPlayer) \subseteq Session
  BY DEF QueueInv, TypeOK, ToSet
<1>4. /\ q \in Seq(Session) /\ IsInjective(q)
      /\ ToSet(q) \subseteq ToSet(m_QueuedPlayer)
      /\ old # null => old \notin ToSet(q)
  <2> DEFINE r == RemoveQueuedPlayer(m_QueuedPlayer, old, GetActiveAndQueuedSessionCount)
  <2>1. /\ r.queue \in Seq(Session) /\ IsInjective(r.queue)
        /\ ToSet(r.queue) \subseteq ToSet(m_QueuedPlayer) /\ old \notin ToSet(r.queue)
    BY <1>2, <1>3, RemoveQueuedPlayerLemma
  <2>2. CASE old = null
    BY <1>2, <1>3, <2>2
  <2>3. CASE old # null
    <3>1. q = r.queue
      BY <2>3, Zenon
    <3>2. QED
      BY <2>1, <3>1
  <2>4. QED
    BY <2>2, <2>3
<1>5. m_QueuedPlayer' = q \/ m_QueuedPlayer' = Append(q, s)
  BY DEF AcceptSession, AddQueuedPlayer
<1>6. m_sessions' = [m_sessions EXCEPT ![a] = s]
  BY DEF AcceptSession
<1>7. m_sessions \in [Account -> Session \union {null}]
  BY DEF QueueInv, TypeOK
<1> HIDE DEF s, a, removal
<1>8. ASSUME NEW t \in ToSet(q)
      PROVE  m_sessions'[AccountOf[t]] = t /\ t # s
  <2>1. t \in Session /\ t # null /\ m_sessions[AccountOf[t]] = t /\ t # old
    BY <1>2, <1>3, <1>4, <1>8, SessionsAssumption DEF InTable
  <2>2. AccountOf[t] # a /\ AccountOf[t] \in Account
    BY <2>1, SessionsAssumption
  <2>3. QED
    BY <1>1, <1>6, <1>7, <2>1, <2>2 DEF a
<1>9. m_sessions'[AccountOf[s]] = s
  BY <1>1, <1>6, <1>7 DEF a
<1> HIDE DEF q, old
<1>10. CASE m_QueuedPlayer' = q
  <2>1. \A i \in 1..Len(q) : m_sessions'[AccountOf[q[i]]] = q[i]
    BY <1>4, <1>8 DEF ToSet
  <2>2. QED
    BY <1>4, <1>10, <2>1 DEF NoDanglingQueueEntry, IsInjective, InTable
<1>11. CASE m_QueuedPlayer' = Append(q, s)
  <2> DEFINE r == Append(q, s)
  <2>1. /\ r \in Seq(Session) /\ Len(r) = Len(q) + 1
        /\ \A i \in 1..Len(q) + 1 : r[i] = IF i <= Len(q) THEN q[i] ELSE s
    BY <1>1, <1>4
  <2>2. \A i \in 1..Len(q) : m_sessions'[AccountOf[q[i]]] = q[i] /\ q[i] # s
    BY <1>4, <1>8 DEF ToSet
  <2> HIDE DEF r
  <2>3. \A i \in 1..Len(r) : m_sessions'[AccountOf[r[i]]] = r[i]
    BY <1>4, <1>9, <2>1, <2>2
  <2>4. ASSUME NEW i \in 1..Len(r), NEW j \in 1..Len(r), r[i] = r[j]
        PROVE  i = j
    <3>1. CASE i <= Len(q) /\ j <= Len(q)
      BY <1>4, <2>1, <2>4, <3>1 DEF IsInjective
    <3>2. CASE i <= Len(q) /\ j > Len(q)
      BY <1>4, <2>1, <2>2, <2>4, <3>2
    <3>3. CASE i > Len(q) /\ j <= Len(q)
      BY <1>4, <2>1, <2>2, <2>4, <3>3
    <3>4. CASE i > Len(q) /\ j > Len(q)
      BY <1>4, <2>1, <3>4
    <3>5. QED
      BY <1>4, <2>1, <3>1, <3>2, <3>3, <3>4
  <2>5. m_QueuedPlayer' = r
    BY <1>11 DEF r
  <2>6. QED
    BY <2>1, <2>3, <2>4, <2>5 DEF NoDanglingQueueEntry, InTable
<1>12. QED
  BY <1>5, <1>10, <1>11

(* A session that leaves the table leaves the queue: UpdateSessions calls  *)
(* RemoveQueuedPlayer before it deletes.                                   *)
LEMMA UpdateSessionKeepsQueue ==
    ASSUME QueueInv, NEW a \in Account, UpdateSession(a)
    PROVE  NoDanglingQueueEntry'
<1> DEFINE s == m_sessions[a]
           size == GetActiveAndQueuedSessionCount
           q1 == RemoveQueuedPlayer(m_QueuedPlayer, s, size).queue
           q2 == RemoveQueuedPlayer(q1, s, size).queue
<1>1. m_QueuedPlayer \in Seq(Session) /\ ToSet(m_QueuedPlayer) \subseteq Session
  BY DEF QueueInv, TypeOK, ToSet
<1>2. IsInjective(m_QueuedPlayer) /\ \A t \in ToSet(m_QueuedPlayer) : InTable(t)
  BY NoDanglingByElement DEF QueueInv
<1>3. s \in Session \union {null} /\ m_sessions \in [Account -> Session \union {null}]
  BY DEF QueueInv, TypeOK
<1>4. \/ m_sessions' = m_sessions /\ m_QueuedPlayer' = m_QueuedPlayer
      \/ m_sessions' = [m_sessions EXCEPT ![a] = null] /\ m_QueuedPlayer' = q2
  BY DEF UpdateSession
<1> HIDE DEF s, size
<1>5. /\ q1 \in Seq(Session) /\ IsInjective(q1) /\ s \notin ToSet(q1)
      /\ ToSet(q1) \subseteq ToSet(m_QueuedPlayer)
  BY <1>1, <1>2, RemoveQueuedPlayerLemma
<1> HIDE DEF q1
<1>6. /\ q2 \in Seq(Session) /\ IsInjective(q2)
      /\ ToSet(q2) \subseteq ToSet(q1)
  BY <1>5, RemoveQueuedPlayerLemma
<1> HIDE DEF q2
<1>7. CASE m_sessions' = m_sessions /\ m_QueuedPlayer' = m_QueuedPlayer
  BY <1>7 DEF QueueInv, NoDanglingQueueEntry, InTable
<1>8. CASE m_sessions' = [m_sessions EXCEPT ![a] = null] /\ m_QueuedPlayer' = q2
  <2>1. ASSUME NEW t \in ToSet(q2) PROVE InTable(t)'
    <3>1. t \in Session /\ m_sessions[AccountOf[t]] = t /\ t # s
      BY <1>1, <1>2, <1>5, <1>6, <2>1 DEF InTable
    <3>2. AccountOf[t] # a /\ AccountOf[t] \in Account
      BY <3>1, SessionsAssumption DEF s
    <3>3. QED
      BY <1>3, <1>8, <3>1, <3>2 DEF InTable
  <2>2. QED
    BY <1>6, <1>8, <2>1 DEF NoDanglingQueueEntry, IsInjective, ToSet
<1>9. QED
  BY <1>4, <1>7, <1>8

(* The queue's invariant holds at the start.                               *)
LEMMA InitQueue == Init => QueueInv
  BY InitType DEF Init, QueueInv, LoopVisitsSessions, NoDanglingQueueEntry

(* Every step keeps the queue's invariant.                                 *)
LEMMA NextQueue == QueueInv /\ [Next]_vars => QueueInv'
<1> SUFFICES ASSUME QueueInv, [Next]_vars PROVE QueueInv'
  OBVIOUS
<1> USE DEF QueueInv
<1>q. UNCHANGED <<m_sessions, m_QueuedPlayer>> => NoDanglingQueueEntry'
  BY DEF NoDanglingQueueEntry, InTable
<1>l. UNCHANGED <<m_sessions, toUpdate>> => LoopVisitsSessions'
  BY DEF LoopVisitsSessions
<1>1. ASSUME NEW s \in Session, AddSession(s) PROVE QueueInv'
  <2>1. TypeOK'
    BY <1>1 DEF AddSession, TypeOK, world, thread
  <2>2. QED
    BY <1>1, <2>1, <1>q, <1>l DEF AddSession, thread
<1>2. ASSUME NEW s \in Session, CloseSocket(s) PROVE QueueInv'
  <2>1. TypeOK'
    BY <1>2 DEF CloseSocket, TypeOK, table, world, thread
  <2>2. QED
    BY <1>2, <2>1, <1>q, <1>l DEF CloseSocket, table, thread
<1>3. ASSUME NEW s \in Session, RealmAccountDataReady(s) PROVE QueueInv'
  <2>1. TypeOK'
    BY <1>3 DEF RealmAccountDataReady, TypeOK, table, world, thread
  <2>2. QED
    BY <1>3, <2>1, <1>q, <1>l DEF RealmAccountDataReady, table, thread
<1>4. CASE BeginUpdateSessions
  <2>1. TypeOK'
    BY <1>4 DEF BeginUpdateSessions, TypeOK, table, object, world
  <2>2. QED
    BY <1>4, <2>1, <1>q, <1>l DEF BeginUpdateSessions, table
<1>5. CASE RejectSession
  <2> DEFINE D == {Head(addSessQueue)}
  <2>1. Delete(D, m_inQueue, socketOpen, realmLogin, player, forceExit, expireTime)
    BY <1>5 DEF RejectSession
  <2> HIDE DEF D
  <2>2. /\ status' \in [Session -> {"unborn", "alive", "deleted"}]
        /\ m_inQueue' \in [Session -> BOOLEAN]
        /\ socketOpen' \in [Session -> BOOLEAN]
        /\ realmLogin' \in [Session -> {"none", "pending", "ready", "done"}]
        /\ player' \in [Session -> {"none", "loading", "inworld"}]
        /\ forceExit' \in [Session -> BOOLEAN]
        /\ expireTime' \in [Session -> 0..ExpireTime]
    BY <2>1, DeleteType DEF TypeOK
  <2>3. addSessQueue' \in Seq(Session)
    BY <1>5 DEF RejectSession, TypeOK
  <2>4. UNCHANGED <<m_sessions, m_QueuedPlayer, world, thread>>
    BY <1>5 DEF RejectSession
  <2>5. TypeOK'
    BY <2>2, <2>3, <2>4 DEF TypeOK, world, thread
  <2>6. QED
    BY <2>4, <2>5, <1>q, <1>l DEF thread
<1>6. CASE AcceptSession
  <2>1. TypeOK' /\ NoDanglingQueueEntry'
    BY <1>6, AcceptSessionType, AcceptSessionKeepsQueue
  <2>2. /\ m_sessions' = [m_sessions EXCEPT ![AccountOf[Head(addSessQueue)]] = Head(addSessQueue)]
        /\ Head(addSessQueue) \in Session /\ toUpdate' = toUpdate
    <3>1. m_sessions' = [m_sessions EXCEPT ![AccountOf[Head(addSessQueue)]] = Head(addSessQueue)]
      BY <1>6 DEF AcceptSession
    <3>2. addSessQueue # << >> /\ toUpdate' = toUpdate
      BY <1>6 DEF AcceptSession, thread
    <3>3. addSessQueue \in Seq(Session)
      BY DEF TypeOK
    <3>4. QED
      BY <3>1, <3>2, <3>3, TailLemma
  <2>3. LoopVisitsSessions'
    BY <2>2, SessionsAssumption DEF LoopVisitsSessions, TypeOK
  <2>4. QED
    BY <2>1, <2>3
<1>7. CASE BeginSessionLoop
  <2>1. TypeOK' /\ LoopVisitsSessions'
    BY <1>7 DEF BeginSessionLoop, TypeOK, table, object, world, Listed, LoopVisitsSessions
  <2>2. QED
    BY <1>7, <2>1, <1>q DEF BeginSessionLoop, table
<1>8. ASSUME NEW a \in Account, UpdateSession(a) PROVE QueueInv'
  <2>1. a \in toUpdate /\ toUpdate' = toUpdate \ {a}
    BY <1>8 DEF UpdateSession
  <2>2. m_sessions' = m_sessions \/ m_sessions' = [m_sessions EXCEPT ![a] = null]
    BY <1>8 DEF UpdateSession
  <2>3. LoopVisitsSessions'
    BY <2>1, <2>2 DEF LoopVisitsSessions, TypeOK
  <2>4. TypeOK' /\ NoDanglingQueueEntry'
    BY <1>8, <2>1, UpdateSessionType, UpdateSessionKeepsQueue DEF LoopVisitsSessions
  <2>5. QED
    BY <2>3, <2>4
<1>9. CASE EndUpdateSessions
  <2>1. TypeOK'
    BY <1>9 DEF EndUpdateSessions, TypeOK, table, object, world
  <2>2. QED
    BY <1>9, <2>1, <1>q, <1>l DEF EndUpdateSessions, table
<1>10. CASE UpdateGameTime
  <2>1. gameTime' \in 0..MaxTime
    BY <1>10, NumbersAssumption DEF UpdateGameTime, TypeOK
  <2>2. TypeOK'
    BY <1>10, <2>1 DEF UpdateGameTime, TypeOK, table, object, thread
  <2>3. QED
    BY <1>10, <2>2, <1>q, <1>l DEF UpdateGameTime, table, thread
<1>11. ASSUME NEW limit \in PlayerLimits, SetPlayerAmountLimit(limit) PROVE QueueInv'
  <2>1. TypeOK'
    BY <1>11 DEF SetPlayerAmountLimit, TypeOK, table, object, thread
  <2>2. QED
    BY <1>11, <2>1, <1>q, <1>l DEF SetPlayerAmountLimit, table, thread
<1>12. ASSUME NEW a \in Account, KickPlayer(a) PROVE QueueInv'
  <2>1. TypeOK'
    BY <1>12 DEF KickPlayer, KickPlayers, TypeOK, table, world, thread
  <2>2. QED
    BY <1>12, <2>1, <1>q, <1>l DEF KickPlayer, table, thread
<1>13. CASE KickAllLess
  <2>1. TypeOK'
    BY <1>13 DEF KickAllLess, KickPlayers, TypeOK, table, world, thread
  <2>2. QED
    BY <1>13, <2>1, <1>q, <1>l DEF KickAllLess, table, thread
<1>14. CASE KickAll
  <2>1. kicked' \subseteq Session
    BY <1>14 DEF KickAll, Listed, TypeOK
  <2>2. TypeOK'
    BY <1>14, <2>1 DEF KickAll, KickPlayers, TypeOK, world
  <2>3. NoDanglingQueueEntry'
    BY <1>14 DEF KickAll, NoDanglingQueueEntry
  <2>4. QED
    BY <1>14, <2>2, <2>3, <1>l DEF KickAll
<1>15. CASE UNCHANGED vars
  <2>1. TypeOK'
    BY <1>15 DEF vars, table, object, world, thread, TypeOK
  <2>2. QED
    BY <1>15, <2>1, <1>q, <1>l DEF vars, table, thread
<1>16. QED
  BY <1>1, <1>2, <1>3, <1>4, <1>5, <1>6, <1>7, <1>8, <1>9, <1>10, <1>11, <1>12,
     <1>13, <1>14, <1>15 DEF Next, WorldStep, Stopped

(* The session table and the login queue are well typed, whatever clients, *)
(* database threads and commands do.                                       *)
THEOREM TypeCorrect == Spec => []TypeOK
<1>1. QueueInv => TypeOK
  BY DEF QueueInv
<1>2. QED
  BY <1>1, InitQueue, NextQueue, PTL DEF Spec

(* No pointer in m_QueuedPlayer outlives its session, and no session is    *)
(* queued twice: RemoveQueuedPlayer and SendAuthWaitQue are only ever      *)
(* applied to live sessions.                                               *)
THEOREM QueueHoldsLiveSessions == Spec => []NoDanglingQueueEntry
<1>1. QueueInv => NoDanglingQueueEntry
  BY DEF QueueInv
<1>2. QED
  BY <1>1, InitQueue, NextQueue, PTL DEF Spec

-----------------------------------------------------------------------------
(* Who owns a session, in terms of the elements of addSessQueue; a session *)
(* in the table is the one of its account, and a session that has not been *)
(* accepted yet has not been initialized.                                  *)
OwnerInv ==
    /\ IsInjective(addSessQueue)
    /\ \A s \in Session :
          /\ s \in ToSet(addSessQueue) => ~InTable(s) /\ realmLogin[s] = "none"
          /\ status[s] = "alive" <=> s \in ToSet(addSessQueue) \/ InTable(s)
          /\ status[s] = "unborn" => realmLogin[s] = "none"
    /\ \A a \in Account : m_sessions[a] # null => AccountOf[m_sessions[a]] = a

(* The waiting state of a session in the table.                            *)
FlagInv ==
    \A s \in Session : InTable(s) =>
        /\ m_inQueue[s] => \/ s \in Queued
                           \/ realmLogin[s] \in {"pending", "ready"}
                           \/ ~socketOpen[s]
        /\ s \in Queued => m_inQueue[s] /\ realmLogin[s] = "none"

(* The sessions KickAll has kicked, up to the end of the last              *)
(* UpdateSessions.                                                         *)
KickedInv ==
    /\ ~stopping => kicked = {} /\ phase # "stopped"
    /\ stopping => phase # "idle"
    /\ \A s \in kicked : status[s] # "deleted" =>
          /\ status[s] = "alive" /\ InTable(s)
          /\ forceExit[s] /\ ~socketOpen[s]
          /\ phase = "update" => AccountOf[s] \in toUpdate
          /\ phase # "stopped"

LifecycleInv == QueueInv /\ OwnerInv /\ FlagInv /\ KickedInv

-----------------------------------------------------------------------------
(* RemoveQueuedPlayer loses nobody: who leaves the queue is the session    *)
(* that was to be removed, or is admitted.                                 *)
LEMMA RemovalLemma ==
    ASSUME NEW q \in Seq(Session), IsInjective(q), NEW sess, NEW size
    PROVE  LET r == RemoveQueuedPlayer(q, sess, size)
           IN  /\ r.queue \in Seq(Session) /\ IsInjective(r.queue)
               /\ ToSet(r.queue) \subseteq ToSet(q) \ {sess}
               /\ r.popped \subseteq ToSet(q) \ {sess}
               /\ r.popped \intersect ToSet(r.queue) = {}
               /\ ToSet(q) \subseteq ToSet(r.queue) \union r.popped \union {sess}
<1> DEFINE left == IF sess \in ToSet(q) THEN QueueWithout(q, sess) ELSE q
           r == RemoveQueuedPlayer(q, sess, size)
<1>1. /\ left \in Seq(Session) /\ IsInjective(left) /\ sess \notin ToSet(left)
      /\ ToSet(left) \subseteq ToSet(q)
      /\ ToSet(q) \subseteq ToSet(left) \union {sess}
  <2>1. IsInjective(q)
    BY DEF IsInjective
  <2>2. CASE sess \in ToSet(q)
    BY <2>1, <2>2, QueueWithoutLemma DEF IsInjective
  <2>3. CASE sess \notin ToSet(q)
    BY <2>3
  <2>4. QED
    BY <2>2, <2>3
<1>2. \/ r.queue = left /\ r.popped = {}
      \/ left # << >> /\ r.queue = Tail(left) /\ r.popped = {Head(left)}
  BY DEF RemoveQueuedPlayer
<1> HIDE DEF left, r
<1>3. CASE r.queue = left /\ r.popped = {}
  BY <1>1, <1>3 DEF r
<1>4. CASE left # << >> /\ r.queue = Tail(left) /\ r.popped = {Head(left)}
  <2>1. /\ r.queue \in Seq(Session) /\ IsInjective(r.queue)
        /\ ToSet(left) = ToSet(r.queue) \union r.popped
        /\ r.popped \intersect ToSet(r.queue) = {}
    BY <1>1, <1>4, TailLemma
  <2>2. QED
    BY <1>1, <2>1 DEF r
<1>5. QED
  BY <1>2, <1>3, <1>4

(* What is queued is in the table, is a session, and is queued once.       *)
LEMMA QueuedLemma ==
    ASSUME QueueInv
    PROVE  /\ m_QueuedPlayer \in Seq(Session) /\ IsInjective(m_QueuedPlayer)
           /\ \A s \in Queued : s \in Session /\ s # null /\ InTable(s)
<1>1. m_QueuedPlayer \in Seq(Session)
  BY DEF QueueInv, TypeOK
<1>2. IsInjective(m_QueuedPlayer) /\ \A s \in Queued : InTable(s)
  BY NoDanglingByElement DEF QueueInv, Queued
<1>3. \A s \in Queued : s \in Session
  BY <1>1 DEF Queued, ToSet
<1>4. QED
  BY <1>1, <1>2, <1>3, SessionsAssumption DEF IsInjective

(* Delete, for the objects of a set D.                                     *)
LEMMA DeletedLemma ==
    ASSUME NEW D, NEW inQueue, NEW open, NEW realm, NEW play, NEW force, NEW expire,
           NEW s \in Session,
           Delete(D, inQueue, open, realm, play, force, expire)
    PROVE  /\ status'[s] = IF s \in D THEN "deleted" ELSE status[s]
           /\ m_inQueue'[s] = (inQueue[s] /\ s \notin D)
           /\ socketOpen'[s] = (open[s] /\ s \notin D)
           /\ realmLogin'[s] = IF s \in D THEN "none" ELSE realm[s]
           /\ forceExit'[s] = (force[s] /\ s \notin D)
  BY DEF Delete

-----------------------------------------------------------------------------
(* The hand-over of a session, and its refusal.                            *)
LEMMA AddSessionStep ==
    ASSUME LifecycleInv, NEW t \in Session, AddSession(t)
    PROVE  OwnerInv' /\ FlagInv' /\ KickedInv'
<1>1. /\ status[t] = "unborn" /\ phase # "stopped"
      /\ status' = [status EXCEPT ![t] = "alive"]
      /\ addSessQueue' = Append(addSessQueue, t)
      /\ socketOpen' = [socketOpen EXCEPT ![t] = TRUE]
      /\ UNCHANGED <<m_sessions, m_QueuedPlayer, m_inQueue, realmLogin, forceExit,
                     phase, toUpdate, stopping, kicked>>
  BY DEF AddSession, thread
<1>2. t \notin ToSet(addSessQueue) /\ ~InTable(t) /\ realmLogin[t] = "none"
  BY <1>1 DEF LifecycleInv, OwnerInv
<1>3. IsInjective(addSessQueue') /\ ToSet(addSessQueue') = ToSet(addSessQueue) \union {t}
  BY <1>1, <1>2, AppendLemma DEF LifecycleInv, OwnerInv, QueueInv, TypeOK
<1>4. \A s \in Session : /\ status'[s] = IF s = t THEN "alive" ELSE status[s]
                         /\ socketOpen'[s] = IF s = t THEN TRUE ELSE socketOpen[s]
  BY <1>1 DEF LifecycleInv, QueueInv, TypeOK
<1>5. \A s : InTable(s)' = InTable(s)
  BY <1>1 DEF InTable
<1>6. OwnerInv'
  BY <1>1, <1>2, <1>3, <1>4, <1>5 DEF LifecycleInv, OwnerInv
<1>7. FlagInv'
  BY <1>1, <1>2, <1>4, <1>5 DEF LifecycleInv, FlagInv, Queued
<1>8. kicked \subseteq Session /\ t \notin kicked
  BY <1>1 DEF LifecycleInv, KickedInv, QueueInv, TypeOK
<1>9. KickedInv'
  BY <1>1, <1>4, <1>5, <1>8 DEF LifecycleInv, KickedInv
<1>10. QED
  BY <1>6, <1>7, <1>9

(* AddSession_ turns a session away: it is deleted and owned by nobody.    *)
LEMMA RejectSessionStep ==
    ASSUME LifecycleInv, RejectSession
    PROVE  OwnerInv' /\ FlagInv' /\ KickedInv'
<1> DEFINE t == Head(addSessQueue)
<1>1. /\ addSessQueue # << >> /\ addSessQueue' = Tail(addSessQueue)
      /\ Delete({t}, m_inQueue, socketOpen, realmLogin, player, forceExit, expireTime)
      /\ UNCHANGED <<m_sessions, m_QueuedPlayer, phase, toUpdate, stopping, kicked>>
  BY DEF RejectSession, thread
<1>2. /\ t \in Session /\ t \in ToSet(addSessQueue) /\ t \notin ToSet(addSessQueue')
      /\ ToSet(addSessQueue) = ToSet(addSessQueue') \union {t}
      /\ IsInjective(addSessQueue')
  BY <1>1, TailLemma DEF LifecycleInv, OwnerInv, QueueInv, TypeOK
<1> HIDE DEF t
<1>3. \A s \in Session :
        /\ status'[s] = IF s = t THEN "deleted" ELSE status[s]
        /\ s # t => /\ m_inQueue'[s] = m_inQueue[s] /\ socketOpen'[s] = socketOpen[s]
                    /\ realmLogin'[s] = realmLogin[s] /\ forceExit'[s] = forceExit[s]
  <2>1. /\ m_inQueue \in [Session -> BOOLEAN] /\ socketOpen \in [Session -> BOOLEAN]
        /\ forceExit \in [Session -> BOOLEAN]
    BY DEF LifecycleInv, QueueInv, TypeOK
  <2>2. QED
    BY <1>1, <2>1 DEF Delete
<1>4. ~InTable(t) /\ \A s : InTable(s)' = InTable(s)
  BY <1>1, <1>2 DEF LifecycleInv, OwnerInv, InTable
<1>5. OwnerInv'
  BY <1>1, <1>2, <1>3, <1>4 DEF LifecycleInv, OwnerInv
<1>6. FlagInv'
  BY <1>1, <1>3, <1>4 DEF LifecycleInv, FlagInv, Queued
<1>7. kicked \subseteq Session
  BY DEF LifecycleInv, QueueInv, TypeOK
<1>8. KickedInv'
  BY <1>1, <1>3, <1>4, <1>7 DEF LifecycleInv, KickedInv
<1>9. QED
  BY <1>5, <1>6, <1>8

-----------------------------------------------------------------------------
(* AddSession_: the session that is replaced gives up its place.           *)
LEMMA AcceptSessionStep ==
    ASSUME LifecycleInv, AcceptSession
    PROVE  OwnerInv' /\ FlagInv' /\ KickedInv'
<1> DEFINE t == Head(addSessQueue)
           a == AccountOf[t]
           old == m_sessions[a]
           removal == IF old = null
                      THEN [found |-> FALSE, queue |-> m_QueuedPlayer, popped |-> {}]
                      ELSE RemoveQueuedPlayer(m_QueuedPlayer, old,
                                              GetActiveAndQueuedSessionCount)
           rest == removal.queue
           popped == removal.popped
<1>1. /\ addSessQueue # << >> /\ addSessQueue' = Tail(addSessQueue)
      /\ m_sessions' = [m_sessions EXCEPT ![a] = t]
      /\ UNCHANGED <<phase, toUpdate, stopping, kicked>>
  <2>1. addSessQueue # << >> /\ addSessQueue' = Tail(addSessQueue)
    BY DEF AcceptSession
  <2>2. m_sessions' = [m_sessions EXCEPT ![a] = t]
    BY DEF AcceptSession
  <2>3. UNCHANGED <<phase, toUpdate, stopping, kicked>>
    BY DEF AcceptSession, thread
  <2>4. QED
    BY <2>1, <2>2, <2>3
<1>2. PICK queued \in BOOLEAN :
        /\ m_QueuedPlayer' = IF queued THEN Append(rest, t) ELSE rest
        /\ Delete(Replaced(old), [m_inQueue EXCEPT ![t] = queued], socketOpen,
                  InitializeSessions(popped \union (IF queued THEN {} ELSE {t})),
                  player, forceExit, expireTime)
  BY DEF AcceptSession, AddQueuedPlayer
<1>3. /\ t \in Session /\ t \in ToSet(addSessQueue) /\ t \notin ToSet(addSessQueue')
      /\ ToSet(addSessQueue) = ToSet(addSessQueue') \union {t}
      /\ IsInjective(addSessQueue')
  BY <1>1, TailLemma DEF LifecycleInv, OwnerInv, QueueInv, TypeOK
<1>4. a \in Account /\ t # null
  BY <1>3, SessionsAssumption
<1>5. /\ rest \in Seq(Session) /\ ToSet(rest) \subseteq Queued /\ popped \subseteq Queued
      /\ old \notin ToSet(rest) /\ old \notin popped
      /\ popped \intersect ToSet(rest) = {}
      /\ Queued \subseteq ToSet(rest) \union popped \union {old}
  <2>1. /\ m_QueuedPlayer \in Seq(Session) /\ IsInjective(m_QueuedPlayer)
        /\ null \notin Queued
    BY QueuedLemma DEF LifecycleInv
  <2>2. CASE old = null
    BY <2>1, <2>2 DEF Queued
  <2>3. CASE old # null
    <3>1. removal = RemoveQueuedPlayer(m_QueuedPlayer, old, GetActiveAndQueuedSessionCount)
      BY <2>3
    <3> HIDE DEF old, removal
    <3>2. QED
      BY <2>1, <3>1, RemovalLemma DEF Queued
  <2>4. QED
    BY <2>2, <2>3
<1> HIDE DEF removal, rest, popped, t
<1>6. Queued' = IF queued THEN ToSet(rest) \union {t} ELSE ToSet(rest)
  <2>1. m_QueuedPlayer' = IF queued THEN Append(rest, t) ELSE rest
    BY <1>2
  <2>2. ToSet(Append(rest, t)) = ToSet(rest) \union {t}
    BY <1>3, <1>5, AppendLemma
  <2>3. QED
    BY <2>1, <2>2 DEF Queued
<1>7. \A s \in Queued : InTable(s) /\ s \in Session
  BY QueuedLemma DEF LifecycleInv
<1>8. ~InTable(t) /\ old # t /\ realmLogin[t] = "none" /\ status[t] = "alive"
  BY <1>3 DEF LifecycleInv, OwnerInv, InTable
<1>9. \A s \in Session : InTable(s)' <=> s = t \/ (InTable(s) /\ s # old)
  <2>1. m_sessions \in [Account -> Session \union {null}] /\ AccountOf \in [Session -> Account]
    BY SessionsAssumption DEF LifecycleInv, QueueInv, TypeOK
  <2>2. old # null => AccountOf[old] = a
    BY <1>4 DEF LifecycleInv, OwnerInv
  <2>3. ASSUME NEW s \in Session PROVE InTable(s)' <=> s = t \/ (InTable(s) /\ s # old)
    <3>1. s # null
      BY SessionsAssumption
    <3>2. CASE AccountOf[s] = a
      BY <1>1, <1>4, <1>8, <2>1, <3>1, <3>2 DEF InTable
    <3>3. CASE AccountOf[s] # a
      BY <1>1, <1>4, <2>1, <2>2, <3>1, <3>3 DEF InTable
    <3>4. QED
      BY <3>2, <3>3
  <2>4. QED
    BY <2>3
<1>10. \A s \in Session : s = old => InTable(s)
  BY <1>4, SessionsAssumption DEF LifecycleInv, OwnerInv, InTable
<1> HIDE DEF old
<1>11. \A s \in Session :
        /\ status'[s] = IF s = old THEN "deleted" ELSE status[s]
        /\ s # old =>
             /\ m_inQueue'[s] = IF s = t THEN queued ELSE m_inQueue[s]
             /\ socketOpen'[s] = socketOpen[s]
             /\ forceExit'[s] = forceExit[s]
             /\ realmLogin'[s] = IF s \in popped \/ (s = t /\ ~queued) THEN "pending"
                                 ELSE realmLogin[s]
  <2>1. /\ m_inQueue \in [Session -> BOOLEAN] /\ socketOpen \in [Session -> BOOLEAN]
        /\ forceExit \in [Session -> BOOLEAN] /\ null \notin Session
    BY SessionsAssumption DEF LifecycleInv, QueueInv, TypeOK
  <2>2. QED
    BY <1>2, <1>3, <2>1 DEF Delete, Replaced, InitializeSessions
<1>12. OwnerInv'
  <2>1. ASSUME NEW s \in Session
        PROVE  /\ s \in ToSet(addSessQueue') => ~InTable(s)' /\ realmLogin'[s] = "none"
               /\ status'[s] = "alive" <=> s \in ToSet(addSessQueue') \/ InTable(s)'
               /\ status'[s] = "unborn" => realmLogin'[s] = "none"
    BY <1>3, <1>5, <1>7, <1>8, <1>9, <1>10, <1>11 DEF LifecycleInv, OwnerInv
  <2>2. ASSUME NEW b \in Account, m_sessions'[b] # null
        PROVE  AccountOf[m_sessions'[b]] = b
    BY <1>1, <2>2 DEF LifecycleInv, OwnerInv, QueueInv, TypeOK
  <2>3. QED
    BY <1>3, <2>1, <2>2 DEF OwnerInv
<1>13. FlagInv'
  <2>1. ASSUME NEW s \in Session, InTable(s)'
        PROVE  /\ m_inQueue'[s] => \/ s \in Queued'
                                   \/ realmLogin'[s] \in {"pending", "ready"}
                                   \/ ~socketOpen'[s]
               /\ s \in Queued' => m_inQueue'[s] /\ realmLogin'[s] = "none"
    <3>1. CASE s = t
      BY <1>5, <1>6, <1>7, <1>8, <1>11, <2>1, <3>1
    <3>2. CASE s # t
      BY <1>5, <1>6, <1>9, <1>11, <2>1, <3>2 DEF LifecycleInv, FlagInv
    <3>3. QED
      BY <3>1, <3>2
  <2>2. QED
    BY <2>1 DEF FlagInv
<1>14. KickedInv'
  <2>1. kicked \subseteq Session
    BY DEF LifecycleInv, QueueInv, TypeOK
  <2>2. QED
    BY <1>1, <1>9, <1>11, <2>1 DEF LifecycleInv, KickedInv
<1>15. QED
  BY <1>12, <1>13, <1>14

(* What WorldSession::Update may do to the fields of its object.           *)
LEMMA SessionUpdateEffect ==
    ASSUME LifecycleInv, NEW s \in Session, NEW u \in SessionUpdates(s)
    PROVE  /\ u.open \in BOOLEAN /\ u.force \in BOOLEAN /\ u.inQueue \in BOOLEAN
           /\ u.open => socketOpen[s]
           /\ forceExit[s] => u.force
           /\ ~u.open /\ u.force => u.removed
           /\ \/ realmLogin[s] = "ready" /\ u.realm = "done" /\ ~u.inQueue
              \/ u.realm = realmLogin[s] /\ u.inQueue = m_inQueue[s]
<1>1. PICK idle \in BOOLEAN, login \in BOOLEAN, logout \in BOOLEAN,
         character \in {"wait", "ok", "fail"} :
            u = SessionUpdate(s, idle, login, character, logout)
  BY DEF SessionUpdates
<1>2. u.open \in BOOLEAN /\ u.force \in BOOLEAN /\ u.inQueue \in BOOLEAN
  BY SessionUpdateType DEF LifecycleInv, QueueInv
<1>3. (u.open => socketOpen[s]) /\ (forceExit[s] => u.force)
  BY <1>1 DEF SessionUpdate
<1>4. ~u.open /\ u.force => u.removed
  BY <1>1 DEF SessionUpdate
<1>5. \/ realmLogin[s] = "ready" /\ u.realm = "done" /\ ~u.inQueue
      \/ u.realm = realmLogin[s] /\ u.inQueue = m_inQueue[s]
  BY <1>1 DEF SessionUpdate, InitializeSessionCallback
<1>6. QED
  BY <1>2, <1>3, <1>4, <1>5

(* The session loop: a session that goes leaves table and queue, one that  *)
(* stays keeps its owner.                                                  *)
LEMMA UpdateSessionStep ==
    ASSUME LifecycleInv, NEW a \in Account, UpdateSession(a)
    PROVE  OwnerInv' /\ FlagInv' /\ KickedInv'
<1> DEFINE t == m_sessions[a]
           size == GetActiveAndQueuedSessionCount
           first == RemoveQueuedPlayer(m_QueuedPlayer, t, size)
           second == RemoveQueuedPlayer(first.queue, t, size)
           rest == second.queue
           popped == first.popped \union second.popped
<1>1. /\ a \in toUpdate /\ toUpdate' = toUpdate \ {a} /\ phase = "update"
      /\ UNCHANGED <<addSessQueue, phase, stopping, kicked>>
  BY DEF UpdateSession
<1>2. PICK u \in SessionUpdates(t) :
        /\ m_sessions' = IF u.removed THEN [m_sessions EXCEPT ![a] = null] ELSE m_sessions
        /\ m_QueuedPlayer' = IF u.removed THEN rest ELSE m_QueuedPlayer
        /\ Delete(IF u.removed THEN {t} ELSE {},
                  [m_inQueue EXCEPT ![t] = u.inQueue],
                  [socketOpen EXCEPT ![t] = u.open],
                  [InitializeSessions(IF u.removed THEN popped ELSE {}) EXCEPT ![t] = u.realm],
                  [player EXCEPT ![t] = u.play],
                  [forceExit EXCEPT ![t] = u.force],
                  [expireTime EXCEPT ![t] = u.expire])
  BY DEF UpdateSession
<1>3. t \in Session /\ t # null /\ AccountOf[t] = a /\ InTable(t)
  BY <1>1, SessionsAssumption
     DEF LifecycleInv, OwnerInv, QueueInv, LoopVisitsSessions, TypeOK, InTable
<1>4. status[t] = "alive" /\ t \notin ToSet(addSessQueue)
  BY <1>3 DEF LifecycleInv, OwnerInv
<1>5. /\ ToSet(rest) \subseteq Queued \ {t} /\ popped \subseteq Queued \ {t}
      /\ popped \intersect ToSet(rest) = {}
      /\ Queued \subseteq ToSet(rest) \union popped \union {t}
  <2>1. m_QueuedPlayer \in Seq(Session) /\ IsInjective(m_QueuedPlayer)
    BY QueuedLemma DEF LifecycleInv
  <2> HIDE DEF t, size
  <2>2. /\ first.queue \in Seq(Session) /\ IsInjective(first.queue)
        /\ ToSet(first.queue) \subseteq ToSet(m_QueuedPlayer) \ {t}
        /\ first.popped \subseteq ToSet(m_QueuedPlayer) \ {t}
        /\ first.popped \intersect ToSet(first.queue) = {}
        /\ ToSet(m_QueuedPlayer) \subseteq ToSet(first.queue) \union first.popped \union {t}
    BY <2>1, RemovalLemma
  <2> HIDE DEF first
  <2>3. /\ ToSet(second.queue) \subseteq ToSet(first.queue) \ {t}
        /\ second.popped \subseteq ToSet(first.queue) \ {t}
        /\ second.popped \intersect ToSet(second.queue) = {}
        /\ ToSet(first.queue) \subseteq ToSet(second.queue) \union second.popped \union {t}
    BY <2>2, RemovalLemma
  <2> HIDE DEF second
  <2>4. QED
    BY <2>2, <2>3 DEF Queued
<1> HIDE DEF first, second, rest, popped, size
<1>6. \A s \in Queued : InTable(s) /\ s \in Session
  BY QueuedLemma DEF LifecycleInv
<1>7. /\ u.open \in BOOLEAN /\ u.force \in BOOLEAN /\ u.inQueue \in BOOLEAN
      /\ u.open => socketOpen[t]
      /\ forceExit[t] => u.force
      /\ ~u.open /\ u.force => u.removed
      /\ \/ realmLogin[t] = "ready" /\ u.realm = "done" /\ ~u.inQueue
         \/ u.realm = realmLogin[t] /\ u.inQueue = m_inQueue[t]
  BY <1>2, <1>3, SessionUpdateEffect
<1>8. m_sessions \in [Account -> Session \union {null}] /\ AccountOf \in [Session -> Account]
  BY SessionsAssumption DEF LifecycleInv, QueueInv, TypeOK
<1>9. \A s \in Session : InTable(s) /\ s # t => AccountOf[s] # a
  BY DEF InTable
<1>10. \A s \in Session : InTable(s)' <=> InTable(s) /\ ~(u.removed /\ s = t)
  <2>1. CASE u.removed
    BY <1>2, <1>3, <1>8, <1>9, <2>1, SessionsAssumption DEF InTable
  <2>2. CASE ~u.removed
    BY <1>2, <2>2 DEF InTable
  <2>3. QED
    BY <2>1, <2>2
<1>11. \A b \in Account : m_sessions'[b] # null => AccountOf[m_sessions'[b]] = b
  BY <1>2, <1>8 DEF LifecycleInv, OwnerInv
<1> HIDE DEF t
<1>12. \A s \in Session : s # t =>
          /\ status'[s] = status[s]
          /\ m_inQueue'[s] = m_inQueue[s] /\ socketOpen'[s] = socketOpen[s]
          /\ forceExit'[s] = forceExit[s]
          /\ realmLogin'[s] = IF u.removed /\ s \in popped THEN "pending" ELSE realmLogin[s]
  <2>1. /\ m_inQueue \in [Session -> BOOLEAN] /\ socketOpen \in [Session -> BOOLEAN]
        /\ forceExit \in [Session -> BOOLEAN]
    BY DEF LifecycleInv, QueueInv, TypeOK
  <2>2. QED
    BY <1>2, <1>3, <2>1 DEF Delete, InitializeSessions
<1>13. /\ u.removed => status'[t] = "deleted" /\ realmLogin'[t] = "none"
       /\ ~u.removed => /\ status'[t] = status[t]
                        /\ m_inQueue'[t] = u.inQueue /\ socketOpen'[t] = u.open
                        /\ forceExit'[t] = u.force /\ realmLogin'[t] = u.realm
  <2>1. /\ m_inQueue \in [Session -> BOOLEAN] /\ socketOpen \in [Session -> BOOLEAN]
        /\ forceExit \in [Session -> BOOLEAN]
    BY DEF LifecycleInv, QueueInv, TypeOK
  <2>2. QED
    BY <1>2, <1>3, <1>7, <2>1 DEF Delete, InitializeSessions
<1>14. OwnerInv'
  <2>1. ASSUME NEW s \in Session
        PROVE  /\ s \in ToSet(addSessQueue) => ~InTable(s)' /\ realmLogin'[s] = "none"
               /\ status'[s] = "alive" <=> s \in ToSet(addSessQueue) \/ InTable(s)'
               /\ status'[s] = "unborn" => realmLogin'[s] = "none"
    <3>1. CASE s = t
      BY <1>3, <1>4, <1>10, <1>13, <3>1
    <3>2. CASE s # t
      BY <1>5, <1>6, <1>10, <1>12, <3>2 DEF LifecycleInv, OwnerInv
    <3>3. QED
      BY <3>1, <3>2
  <2>2. QED
    BY <1>1, <1>11, <2>1 DEF LifecycleInv, OwnerInv
<1>15. FlagInv'
  <2>1. Queued' = IF u.removed THEN ToSet(rest) ELSE Queued
    BY <1>2 DEF Queued
  <2>2. ASSUME NEW s \in Session, InTable(s)'
        PROVE  /\ m_inQueue'[s] => \/ s \in Queued'
                                   \/ realmLogin'[s] \in {"pending", "ready"}
                                   \/ ~socketOpen'[s]
               /\ s \in Queued' => m_inQueue'[s] /\ realmLogin'[s] = "none"
    <3>1. CASE s = t
      BY <1>3, <1>7, <1>10, <1>13, <2>1, <2>2, <3>1 DEF LifecycleInv, FlagInv
    <3>2. CASE s # t
      BY <1>5, <1>10, <1>12, <2>1, <2>2, <3>2 DEF LifecycleInv, FlagInv
    <3>3. QED
      BY <3>1, <3>2
  <2>3. QED
    BY <2>2 DEF FlagInv
<1>16. KickedInv'
  <2>1. kicked \subseteq Session
    BY DEF LifecycleInv, QueueInv, TypeOK
  <2>2. t \in kicked => u.removed
    BY <1>4, <1>7 DEF LifecycleInv, KickedInv
  <2>3. ASSUME NEW s \in kicked, status'[s] # "deleted", s # t
        PROVE  /\ status'[s] = "alive" /\ InTable(s)'
               /\ forceExit'[s] /\ ~socketOpen'[s]
               /\ AccountOf[s] \in toUpdate'
    BY <1>1, <1>9, <1>10, <1>12, <2>1, <2>3 DEF LifecycleInv, KickedInv
  <2>4. QED
    BY <1>1, <1>13, <2>2, <2>3 DEF LifecycleInv, KickedInv
<1>17. QED
  BY <1>14, <1>15, <1>16

-----------------------------------------------------------------------------
(* Steps that leave the table alone.                                       *)
LEMMA TableUnchanged ==
    ASSUME LifecycleInv,
           UNCHANGED <<status, addSessQueue, m_sessions, m_QueuedPlayer, m_inQueue>>,
           \A s \in Session :
              /\ socketOpen'[s] => socketOpen[s]
              /\ realmLogin'[s] # realmLogin[s] =>
                    realmLogin[s] = "pending" /\ realmLogin'[s] = "ready"
    PROVE  OwnerInv' /\ FlagInv'
<1>1. Queued' = Queued /\ \A s : InTable(s)' = InTable(s)
  BY DEF Queued, InTable
<1>2. OwnerInv'
  BY <1>1 DEF LifecycleInv, OwnerInv
<1>3. FlagInv'
  BY <1>1 DEF LifecycleInv, FlagInv
<1>4. QED
  BY <1>2, <1>3

(* Kicks in the course of the game.                                        *)
LEMMA KickStep ==
    ASSUME LifecycleInv, NEW S, KickPlayers(S),
           UNCHANGED <<table, m_inQueue, realmLogin, player, expireTime, world, thread>>
    PROVE  OwnerInv' /\ FlagInv' /\ KickedInv'
<1> USE DEF table, thread
<1>1. \A s \in Session : /\ socketOpen'[s] => socketOpen[s]
                         /\ forceExit[s] => forceExit'[s]
  BY DEF KickPlayers
<1>2. OwnerInv' /\ FlagInv'
  BY <1>1, TableUnchanged
<1>3. kicked \subseteq Session /\ \A s : InTable(s)' = InTable(s)
  BY DEF LifecycleInv, QueueInv, TypeOK, InTable
<1>4. KickedInv'
  BY <1>1, <1>3 DEF LifecycleInv, KickedInv
<1>5. QED
  BY <1>2, <1>4

(* KickAll empties the queue and disconnects everybody in the table.       *)
LEMMA KickAllStep ==
    ASSUME LifecycleInv, KickAll
    PROVE  OwnerInv' /\ FlagInv' /\ KickedInv'
<1>1. /\ m_QueuedPlayer' = << >> /\ phase' = "add" /\ stopping'
      /\ kicked' = {m_sessions[a] : a \in Listed}
      /\ KickPlayers(kicked')
      /\ UNCHANGED <<status, addSessQueue, m_sessions, m_inQueue, realmLogin, toUpdate>>
  BY DEF KickAll
<1>2. Queued' = {} /\ \A s : InTable(s)' = InTable(s)
  BY <1>1 DEF Queued, InTable, ToSet
<1>3. \A s \in kicked' : s \in Session /\ InTable(s) /\ status[s] = "alive"
  BY <1>1 DEF LifecycleInv, OwnerInv, QueueInv, TypeOK, Listed, InTable
<1>4. \A s \in Session : InTable(s) => s \in kicked'
  BY <1>1, SessionsAssumption DEF InTable, Listed
<1>5. \A s \in kicked' : ~socketOpen'[s] /\ forceExit'[s]
  BY <1>1, <1>3 DEF KickPlayers
<1>6. OwnerInv'
  BY <1>1, <1>2 DEF LifecycleInv, OwnerInv
<1>7. FlagInv'
  BY <1>2, <1>4, <1>5 DEF FlagInv
<1>8. KickedInv'
  BY <1>1, <1>2, <1>3, <1>5 DEF KickedInv
<1>9. QED
  BY <1>6, <1>7, <1>8

(* The invariant holds before the first session.                           *)
LEMMA InitLifecycle == Init => LifecycleInv
<1> SUFFICES ASSUME Init PROVE LifecycleInv
  OBVIOUS
<1>1. QueueInv
  BY InitQueue
<1>2. \A s \in Session : ~InTable(s)
  BY SessionsAssumption DEF Init, InTable
<1>3. ToSet(addSessQueue) = {} /\ IsInjective(addSessQueue)
  BY DEF Init, ToSet, IsInjective
<1>4. OwnerInv
  BY <1>2, <1>3 DEF Init, OwnerInv
<1>5. FlagInv /\ KickedInv
  BY <1>2 DEF Init, FlagInv, KickedInv
<1>6. QED
  BY <1>1, <1>4, <1>5 DEF LifecycleInv

(* Every step of the network threads, the world thread and the shutdown    *)
(* keeps the invariant.                                                    *)
LEMMA NextLifecycle == LifecycleInv /\ [Next]_vars => LifecycleInv'
<1> SUFFICES ASSUME LifecycleInv, [Next]_vars PROVE OwnerInv' /\ FlagInv' /\ KickedInv'
  BY NextQueue DEF LifecycleInv
<1> DEFINE G == OwnerInv' /\ FlagInv' /\ KickedInv'
<1>k. kicked \subseteq Session
  BY DEF LifecycleInv, QueueInv, TypeOK
<1>i. m_sessions' = m_sessions => \A s : InTable(s)' = InTable(s)
  BY DEF InTable
<1>1. ASSUME NEW s \in Session, AddSession(s) PROVE G
  BY <1>1, AddSessionStep
<1>2. ASSUME NEW s \in Session, CloseSocket(s) PROVE G
  <2>1. \A v \in Session : socketOpen'[v] => socketOpen[v]
    BY <1>2 DEF CloseSocket, LifecycleInv, QueueInv, TypeOK
  <2>2. OwnerInv' /\ FlagInv'
    BY <1>2, <2>1, TableUnchanged DEF CloseSocket, table
  <2>3. KickedInv'
    BY <1>2, <2>1, <1>k, <1>i DEF CloseSocket, table, thread, LifecycleInv, KickedInv
  <2>4. QED
    BY <2>2, <2>3
<1>3. ASSUME NEW s \in Session, RealmAccountDataReady(s) PROVE G
  <2>1. \A v \in Session : realmLogin'[v] # realmLogin[v] =>
            realmLogin[v] = "pending" /\ realmLogin'[v] = "ready"
    BY <1>3 DEF RealmAccountDataReady, LifecycleInv, QueueInv, TypeOK
  <2>2. OwnerInv' /\ FlagInv'
    BY <1>3, <2>1, TableUnchanged DEF RealmAccountDataReady, table
  <2>3. KickedInv'
    BY <1>3, <1>k, <1>i DEF RealmAccountDataReady, table, thread, LifecycleInv, KickedInv
  <2>4. QED
    BY <2>2, <2>3
<1>4. CASE BeginUpdateSessions
  <2>1. OwnerInv' /\ FlagInv'
    BY <1>4, TableUnchanged DEF BeginUpdateSessions, table, object
  <2>2. KickedInv'
    BY <1>4, <1>i DEF BeginUpdateSessions, table, object, LifecycleInv, KickedInv
  <2>3. QED
    BY <2>1, <2>2
<1>5. CASE RejectSession
  BY <1>5, RejectSessionStep
<1>6. CASE AcceptSession
  BY <1>6, AcceptSessionStep
<1>7. CASE BeginSessionLoop
  <2>1. OwnerInv' /\ FlagInv'
    BY <1>7, TableUnchanged DEF BeginSessionLoop, table, object
  <2>2. \A s \in Session : InTable(s) => AccountOf[s] \in Listed
    BY SessionsAssumption DEF InTable, Listed
  <2>3. KickedInv'
    BY <1>7, <1>k, <1>i, <2>2
       DEF BeginSessionLoop, table, object, LifecycleInv, KickedInv
  <2>4. QED
    BY <2>1, <2>3
<1>8. ASSUME NEW a \in Account, UpdateSession(a) PROVE G
  BY <1>8, UpdateSessionStep
<1>9. CASE EndUpdateSessions
  <2>1. OwnerInv' /\ FlagInv'
    BY <1>9, TableUnchanged DEF EndUpdateSessions, table, object
  <2>2. \A s \in kicked : status[s] = "deleted"
    BY <1>9 DEF EndUpdateSessions, LifecycleInv, KickedInv
  <2>3. KickedInv'
    BY <1>9, <2>2 DEF EndUpdateSessions, table, object, LifecycleInv, KickedInv
  <2>4. QED
    BY <2>1, <2>3
<1>10. CASE UpdateGameTime \/ (\E limit \in PlayerLimits : SetPlayerAmountLimit(limit))
            \/ UNCHANGED vars
  <2>1. UNCHANGED <<table, object, thread>>
    BY <1>10 DEF UpdateGameTime, SetPlayerAmountLimit, vars
  <2>2. OwnerInv' /\ FlagInv'
    BY <2>1, TableUnchanged DEF table, object
  <2>3. KickedInv'
    BY <2>1, <1>i DEF table, object, thread, LifecycleInv, KickedInv
  <2>4. QED
    BY <2>2, <2>3
<1>11. ASSUME NEW a \in Account, KickPlayer(a) PROVE G
  BY <1>11, KickStep DEF KickPlayer
<1>12. CASE KickAllLess
  BY <1>12, KickStep DEF KickAllLess
<1>13. CASE KickAll
  BY <1>13, KickAllStep
<1>14. QED
  BY <1>1, <1>2, <1>3, <1>4, <1>5, <1>6, <1>7, <1>8, <1>9, <1>10, <1>11, <1>12, <1>13
     DEF Next, WorldStep, Stopped

-----------------------------------------------------------------------------
(* A session has exactly one owner, addSessQueue or m_sessions, from its   *)
(* hand-over by the socket until it is deleted: none is leaked, freed      *)
(* twice or reachable after its deletion.                                  *)
THEOREM SessionsHaveOneOwner == Spec => []OneOwner
<1>1. ASSUME LifecycleInv PROVE OneOwner
  <2>1. ASSUME NEW s \in Session
        PROVE  LET waiting == {i \in DOMAIN addSessQueue : addSessQueue[i] = s}
               IN  /\ waiting # {} => ~InTable(s) /\ \E i \in waiting : waiting = {i}
                   /\ status[s] = "alive" <=> (waiting # {} \/ InTable(s))
    <3> DEFINE waiting == {i \in DOMAIN addSessQueue : addSessQueue[i] = s}
    <3>1. waiting # {} <=> s \in ToSet(addSessQueue)
      BY DEF ToSet
    <3>2. \A i, j \in waiting : i = j
      BY <1>1 DEF LifecycleInv, OwnerInv, IsInjective
    <3>3. waiting # {} => \E i \in waiting : waiting = {i}
      BY <3>2
    <3> HIDE DEF waiting
    <3>4. /\ waiting # {} => ~InTable(s) /\ \E i \in waiting : waiting = {i}
          /\ status[s] = "alive" <=> (waiting # {} \/ InTable(s))
      BY <1>1, <3>1, <3>3 DEF LifecycleInv, OwnerInv
    <3>5. QED
      BY <3>4 DEF waiting
  <2>2. QED
    BY <2>1 DEF OneOwner
<1>2. QED
  BY <1>1, InitLifecycle, NextLifecycle, PTL DEF Spec

(* A connected client is kept in the waiting state only while it is queued *)
(* or its admission is under way, and who is queued has not been admitted. *)
THEOREM WaitingIsJustified == Spec => []InQueueFlagIsJustified
<1>1. ASSUME LifecycleInv PROVE InQueueFlagIsJustified
  <2>1. ASSUME NEW a \in Listed
        PROVE  m_sessions[a] \in Session /\ InTable(m_sessions[a])
    BY <1>1, <2>1 DEF LifecycleInv, OwnerInv, QueueInv, TypeOK, Listed, InTable
  <2>2. QED
    BY <1>1, <2>1 DEF LifecycleInv, FlagInv, InQueueFlagIsJustified
<1>2. QED
  BY <1>1, InitLifecycle, NextLifecycle, PTL DEF Spec

(* One UpdateSessions after KickAll unloads everybody KickAll kicked.      *)
THEOREM ShutdownIsComplete == Spec => []ShutdownEvictsEveryone
<1>1. LifecycleInv => ShutdownEvictsEveryone
  BY DEF LifecycleInv, KickedInv, ShutdownEvictsEveryone
<1>2. QED
  BY <1>1, InitLifecycle, NextLifecycle, PTL DEF Spec

-----------------------------------------------------------------------------
(* Counting the places.  Every queued session has an account in the table, *)
(* so with P accounts that are not queued there are no more of both than   *)
(* accounts in the table.                                                  *)
LEMMA Places ==
    ASSUME NEW tab \in [Account -> Session \union {null}],
           NEW q \in Seq(Session), IsInjective(q),
           \A s \in ToSet(q) : tab[AccountOf[s]] = s,
           NEW P \in SUBSET {a \in Account : tab[a] # null},
           \A s \in ToSet(q) : AccountOf[s] \notin P
    PROVE  /\ IsFiniteSet(P) /\ Cardinality(P) \in Nat
           /\ Cardinality({a \in Account : tab[a] # null}) \in Nat
           /\ Len(q) + Cardinality(P) <= Cardinality({a \in Account : tab[a] # null})
<1> DEFINE T == {a \in Account : tab[a] # null}
           n == Len(q)
           f == [i \in 1..n |-> AccountOf[q[i]]]
           R == {AccountOf[q[i]] : i \in 1..n}
<1>1. n \in Nat /\ \A i \in 1..n : q[i] \in Session /\ q[i] \in ToSet(q)
  BY DEF ToSet
<1>2. \A i, j \in 1..n : AccountOf[q[i]] = AccountOf[q[j]] => i = j
  <2>1. \A i \in 1..n : tab[AccountOf[q[i]]] = q[i]
    BY <1>1
  <2>2. \A i, j \in 1..n : q[i] = q[j] => i = j
    BY DEF IsInjective
  <2>3. QED
    BY <2>1, <2>2
<1>3. R \subseteq T /\ R \intersect P = {}
  BY <1>1, SessionsAssumption
<1>4. f \in Bijection(1..n, R)
  BY <1>2 DEF Bijection, Injection, Surjection, IsInjective
<1> HIDE DEF n
<1>5. IsFiniteSet(1..n) /\ Cardinality(1..n) = n
  BY <1>1, FS_Interval
<1> HIDE DEF f, R
<1>6. IsFiniteSet(R) /\ Cardinality(R) = n
  BY <1>4, <1>5, FS_Bijection DEF ExistsBijection
<1>7. IsFiniteSet(T) /\ IsFiniteSet(P)
  BY NumbersAssumption, FS_Subset
<1>8. Cardinality(R \union P) = n + Cardinality(P)
  <2>1. Cardinality(R \union P)
            = Cardinality(R) + Cardinality(P) - Cardinality(R \intersect P)
    BY <1>6, <1>7, FS_Union
  <2>2. Cardinality(R \intersect P) = 0
    BY <1>3, FS_EmptySet
  <2>3. QED
    BY <1>1, <1>6, <1>7, <2>1, <2>2, FS_CardinalityType
<1>9. Cardinality(R \union P) <= Cardinality(T) /\ R \union P \subseteq T
  BY <1>3, <1>7, FS_Subset
<1>10. QED
  BY <1>7, <1>8, <1>9, FS_CardinalityType DEF n

(* Whom RemoveQueuedPlayer admits, when it admits nobody, and the order of *)
(* those who stay.                                                         *)
LEMMA RemovalCounts ==
    ASSUME NEW q \in Seq(Session), IsInjective(q), NEW sess, NEW size \in Nat
    PROVE  LET r == RemoveQueuedPlayer(q, sess, size)
               room == HasRoom(SessionsWithout(r.found, size - Len(q)))
           IN  /\ r.found <=> sess \in ToSet(q)
               /\ Len(r.queue) = (IF r.found THEN Len(q) - 1 ELSE Len(q))
                                 - (IF r.popped = {} THEN 0 ELSE 1)
               /\ r.popped # {} => room
               /\ r.popped = {} /\ room => Len(r.queue) = 0
               /\ \A s, t : Before(r.queue, s, t) => Before(q, s, t)
               /\ \A s \in r.popped, t \in ToSet(r.queue) : Before(q, s, t)
<1> DEFINE r == RemoveQueuedPlayer(q, sess, size)
           found == sess \in ToSet(q)
           left == IF found THEN QueueWithout(q, sess) ELSE q
           room == HasRoom(SessionsWithout(found, size - Len(q)))
<1>1. r.found = found
  BY DEF RemoveQueuedPlayer
<1>2. /\ left \in Seq(Session)
      /\ Len(left) = IF found THEN Len(q) - 1 ELSE Len(q)
      /\ \A s, t : Before(left, s, t) => Before(q, s, t)
  <2>1. CASE found
    BY <2>1, QueueWithoutLemma
  <2>2. CASE ~found
    BY <2>2
  <2>3. QED
    BY <2>1, <2>2
<1>3. \/ left # << >> /\ room /\ r.queue = Tail(left) /\ r.popped = {Head(left)}
      \/ (left = << >> \/ ~room) /\ r.queue = left /\ r.popped = {}
  BY DEF RemoveQueuedPlayer
<1> DEFINE G == /\ Len(r.queue) = Len(left) - (IF r.popped = {} THEN 0 ELSE 1)
                /\ r.popped # {} => room
                /\ r.popped = {} /\ room => Len(r.queue) = 0
                /\ \A s, t : Before(r.queue, s, t) => Before(left, s, t)
                /\ \A s \in r.popped, t \in ToSet(r.queue) : Before(left, s, t)
<1> HIDE DEF r, left, room
<1>4. ASSUME left # << >>, room, r.queue = Tail(left), r.popped = {Head(left)} PROVE G
  <2> DEFINE x == Tail(left)
             h == Head(left)
  <2>1. /\ x \in Seq(Session) /\ Len(x) = Len(left) - 1 /\ Len(left) \in Nat
        /\ \A i \in 1..Len(x) : x[i] = left[i + 1]
        /\ h = left[1]
    BY <1>2, <1>4, HeadTailProperties
  <2> HIDE DEF x, h
  <2>2. ASSUME NEW s, NEW t, Before(x, s, t) PROVE Before(left, s, t)
    <3>1. PICK i \in 1..Len(x), j \in 1..Len(x) : i < j /\ x[i] = s /\ x[j] = t
      <4>1. DOMAIN x = 1..Len(x)
        BY <2>1
      <4>2. QED
        BY <2>2, <4>1 DEF Before
    <3>2. /\ i + 1 \in 1..Len(left) /\ j + 1 \in 1..Len(left) /\ i + 1 < j + 1
          /\ left[i + 1] = s /\ left[j + 1] = t
      <4>1. left[i + 1] = s /\ left[j + 1] = t
        BY <2>1, <3>1
      <4>2. Len(x) \in Nat /\ Len(left) = Len(x) + 1
        BY <2>1
      <4> HIDE DEF Before
      <4>3. i + 1 \in 1..Len(left) /\ j + 1 \in 1..Len(left) /\ i + 1 < j + 1
        BY <3>1, <4>2
      <4>4. QED
        BY <4>1, <4>3
    <3>3. QED
      BY <1>2, <3>2 DEF Before
  <2>3. ASSUME NEW t \in ToSet(x) PROVE Before(left, h, t)
    <3>1. PICK j \in 1..Len(x) : x[j] = t
      BY <2>1 DEF ToSet
    <3>2. /\ 1 \in 1..Len(left) /\ j + 1 \in 1..Len(left) /\ 1 < j + 1
          /\ left[1] = h /\ left[j + 1] = t
      BY <2>1, <3>1
    <3>3. QED
      BY <1>2, <3>2 DEF Before
  <2>4. QED
    BY <1>4, <2>1, <2>2, <2>3 DEF x, h
<1>5. ASSUME left = << >> \/ ~room, r.queue = left, r.popped = {} PROVE G
  <2>1. left \in Seq(Session)
    BY <1>2
  <2>2. Len(left) \in Nat
    BY <2>1, LenProperties
  <2>3. left = << >> => Len(left) = 0
    OBVIOUS
  <2>4. QED
    BY <1>5, <2>2, <2>3
<1>6. G
  BY <1>3, <1>4, <1>5
<1>7. QED
  BY <1>1, <1>2, <1>6 DEF r, room

-----------------------------------------------------------------------------
(* What one step promises to those who wait: nobody overtakes them, the    *)
(* limit is kept, and a free place is not left to wait for.                *)
OrderStep ==
    \A s \in Session : \A t \in (Queued \intersect Queued') \ {s} :
        \/ Before(m_QueuedPlayer', s, t)
        \/ NobodyWaitsForRoom /\ Admits(s) /\ ~Bypasses(s)
        => Before(m_QueuedPlayer, s, t)

LimitStep ==
    \A s \in Session :
        Admits(s) => \/ m_playerLimit = 0
                     \/ Bypasses(s)
                     \/ Cardinality(Admitted' \ Bypassing) <= m_playerLimit

WaitStep ==
    NobodyWaitsForRoom /\ m_playerLimit' = m_playerLimit => NobodyWaitsForRoom'

(* A step that moves nobody: no session is admitted, the table and the     *)
(* queue stay.                                                             *)
LEMMA NobodyMoves ==
    ASSUME UNCHANGED <<m_sessions, m_QueuedPlayer>>,
           \A s \in Session : ~Admits(s)
    PROVE  OrderStep /\ LimitStep /\ WaitStep
<1>1. OrderStep /\ LimitStep
  BY DEF OrderStep, LimitStep
<1>2. WaitStep
  BY DEF WaitStep, NobodyWaitsForRoom, GetActiveSessionCount,
         GetActiveAndQueuedSessionCount, Listed
<1>3. QED
  BY <1>1, <1>2

(* Everybody who is admitted is in the table and not in the queue.         *)
LEMMA AdmittedAreNotQueued ==
    ASSUME LifecycleInv
    PROVE  /\ Admitted \subseteq Listed
           /\ \A s \in Queued : AccountOf[s] \notin Admitted
<1>1. \A s \in Queued : s \in Session /\ InTable(s)
  BY QueuedLemma DEF LifecycleInv
<1>2. QED
  BY <1>1 DEF Admitted, LifecycleInv, FlagInv, InTable

(* The places after a step that leaves the invariant true: the admitted    *)
(* accounts, and besides them those of B, which are not in the queue       *)
(* either.                                                                 *)
LEMMA PlacesTaken ==
    ASSUME LifecycleInv, NEW P \in SUBSET Listed, \A s \in Queued : AccountOf[s] \notin P
    PROVE  /\ IsFiniteSet(P) /\ Cardinality(P) \in Nat
           /\ Cardinality(Listed) \in Nat /\ Len(m_QueuedPlayer) \in Nat
           /\ Len(m_QueuedPlayer) + Cardinality(P) <= Cardinality(Listed)
<1>1. /\ m_QueuedPlayer \in Seq(Session) /\ IsInjective(m_QueuedPlayer)
      /\ \A s \in ToSet(m_QueuedPlayer) : m_sessions[AccountOf[s]] = s
  BY QueuedLemma DEF LifecycleInv, Queued, InTable
<1>2. m_sessions \in [Account -> Session \union {null}]
  BY DEF LifecycleInv, QueueInv, TypeOK
<1>3. Listed = {a \in Account : m_sessions[a] # null}
  BY DEF Listed
<1>4. Len(m_QueuedPlayer) \in Nat
  BY <1>1
<1>5. \A s \in ToSet(m_QueuedPlayer) : AccountOf[s] \notin P
  BY DEF Queued
<1>6. QED
  BY <1>1, <1>2, <1>3, <1>4, <1>5, Places

(* The two facts again, named so that they can be used after a step.       *)
QueueIsInTable ==
    /\ m_QueuedPlayer \in Seq(Session) /\ IsInjective(m_QueuedPlayer)
    /\ \A s \in ToSet(m_QueuedPlayer) : m_sessions[AccountOf[s]] = s
    /\ m_sessions \in [Account -> Session \union {null}]

AdmittedLeftTheQueue ==
    /\ Admitted \subseteq Listed
    /\ \A s \in Queued : AccountOf[s] \notin Admitted

LEMMA AfterTheStep ==
    LifecycleInv' => QueueIsInTable' /\ AdmittedLeftTheQueue'
<1>1. LifecycleInv => QueueIsInTable
  BY QueuedLemma DEF LifecycleInv, QueueInv, TypeOK, Queued, InTable, QueueIsInTable
<1>2. LifecycleInv => AdmittedLeftTheQueue
  BY AdmittedAreNotQueued DEF AdmittedLeftTheQueue
<1>3. QED
  BY <1>1, <1>2, PTL

(* The places after a step.                                                *)
LEMMA PlacesTakenNext ==
    ASSUME LifecycleInv', NEW P,
           P \subseteq Listed', \A s \in Queued' : AccountOf[s] \notin P
    PROVE  /\ IsFiniteSet(P) /\ Cardinality(P) \in Nat
           /\ Cardinality(Listed') \in Nat /\ Len(m_QueuedPlayer') \in Nat
           /\ Len(m_QueuedPlayer') + Cardinality(P) <= Cardinality(Listed')
<1>1. /\ m_QueuedPlayer' \in Seq(Session) /\ IsInjective(m_QueuedPlayer')
      /\ \A s \in ToSet(m_QueuedPlayer') : m_sessions'[AccountOf[s]] = s
      /\ m_sessions' \in [Account -> Session \union {null}]
  BY AfterTheStep DEF QueueIsInTable
<1>2. Listed' = {a \in Account : m_sessions'[a] # null}
  BY DEF Listed
<1>3. Len(m_QueuedPlayer') \in Nat
  BY <1>1
<1>4. \A s \in ToSet(m_QueuedPlayer') : AccountOf[s] \notin P
  BY DEF Queued
<1>5. QED
  BY <1>1, <1>2, <1>3, <1>4, Places

-----------------------------------------------------------------------------
(* AddSession_ and the limit.                                              *)
LEMMA AcceptSessionMoves ==
    ASSUME LifecycleInv, LifecycleInv', AcceptSession
    PROVE  OrderStep /\ LimitStep /\ WaitStep
<1> DEFINE t == Head(addSessQueue)
           a == AccountOf[t]
           old == m_sessions[a]
           size == GetActiveAndQueuedSessionCount
           removal == IF old = null
                      THEN [found |-> FALSE, queue |-> m_QueuedPlayer, popped |-> {}]
                      ELSE RemoveQueuedPlayer(m_QueuedPlayer, old, size)
           found == removal.found
           rest == removal.queue
           popped == removal.popped
           newSize == IF old = null THEN size + 1 ELSE size
           Sessions == IF found THEN newSize ELSE newSize - 1
           full == m_playerLimit > 0 /\ Sessions >= m_playerLimit
           queued == (full /\ a \notin Privileged) /\ ~HasRecentlyDisconnected(t)
           L == Len(m_QueuedPlayer)
           room == HasRoom(SessionsWithout(found, size - L))
<1>1. /\ addSessQueue # << >>
      /\ m_sessions' = [m_sessions EXCEPT ![a] = t]
      /\ m_QueuedPlayer' = IF queued THEN Append(rest, t) ELSE rest
      /\ Delete(Replaced(old), [m_inQueue EXCEPT ![t] = queued], socketOpen,
                InitializeSessions(popped \union (IF queued THEN {} ELSE {t})),
                player, forceExit, expireTime)
      /\ m_playerLimit' = m_playerLimit
  BY DEF AcceptSession, AddQueuedPlayer
<1>2. queued <=> full /\ ~Bypasses(t)
  BY DEF Bypasses
<1>3. t \in Session /\ t \in ToSet(addSessQueue) /\ a \in Account /\ t # null
  <2>1. addSessQueue \in Seq(Session)
    BY DEF LifecycleInv, QueueInv, TypeOK
  <2>2. addSessQueue # << >>
    BY <1>1
  <2>3. t \in Session /\ t \in ToSet(addSessQueue)
    BY <2>1, <2>2, TailLemma
  <2>4. QED
    BY <2>3, SessionsAssumption
<1>4. /\ m_QueuedPlayer \in Seq(Session) /\ IsInjective(m_QueuedPlayer) /\ L \in Nat
      /\ \A s \in Queued : s \in Session /\ s # null /\ InTable(s)
  BY QueuedLemma DEF LifecycleInv
<1>5. m_sessions \in [Account -> Session \union {null}] /\ m_playerLimit \in Nat
  BY SessionsAssumption DEF LifecycleInv, QueueInv, TypeOK
<1>6. /\ ~InTable(t) /\ old # t /\ realmLogin[t] = "none" /\ t \notin Queued
      /\ old # null => old \in Session /\ InTable(old)
  BY <1>3, <1>4, <1>5 DEF LifecycleInv, OwnerInv, InTable
<1>7. size \in Nat
  BY PlacesTaken, {} \subseteq Listed DEF GetActiveAndQueuedSessionCount
<1>8. old # null => a \in Listed
  BY <1>3 DEF Listed
<1>9. old # null /\ old \notin Queued => L + 1 <= size
  <2>1. ASSUME old # null, old \notin Queued, NEW s \in Queued PROVE AccountOf[s] # a
    BY <1>4, <2>1 DEF InTable
  <2>2. ASSUME old # null, old \notin Queued PROVE L + Cardinality({a}) <= size
    BY <1>8, <2>1, <2>2, PlacesTaken, {a} \subseteq Listed DEF GetActiveAndQueuedSessionCount
  <2>3. QED
    BY <2>2, FS_Singleton
<1> HIDE DEF size, t, queued, full
<1>10. /\ rest \in Seq(Session) /\ popped \subseteq Queued /\ ToSet(rest) \subseteq Queued
       /\ old \notin ToSet(rest)
       /\ popped \intersect ToSet(rest) = {}
       /\ found \in BOOLEAN
       /\ old = null => ~found /\ popped = {} /\ Len(rest) = L
       /\ old # null =>
             /\ found <=> old \in Queued
             /\ Len(rest) = (IF found THEN L - 1 ELSE L) - (IF popped = {} THEN 0 ELSE 1)
             /\ popped # {} => room
             /\ popped = {} /\ room => Len(rest) = 0
       /\ \A s, v : Before(rest, s, v) => Before(m_QueuedPlayer, s, v)
       /\ \A s \in popped, v \in ToSet(rest) : Before(m_QueuedPlayer, s, v)
  <2>1. CASE old = null
    BY <1>4, <2>1 DEF Queued
  <2>2. CASE old # null
    <3>1. removal = RemoveQueuedPlayer(m_QueuedPlayer, old, size)
      BY <2>2
    <3> HIDE DEF old, removal, L
    <3>2. /\ rest \in Seq(Session) /\ ToSet(rest) \subseteq Queued \ {old}
          /\ popped \subseteq Queued /\ popped \intersect ToSet(rest) = {}
      BY <1>4, <3>1, RemovalLemma DEF Queued
    <3>3. /\ found <=> old \in Queued
          /\ Len(rest) = (IF found THEN L - 1 ELSE L) - (IF popped = {} THEN 0 ELSE 1)
          /\ popped # {} => room
          /\ popped = {} /\ room => Len(rest) = 0
          /\ \A s, v : Before(rest, s, v) => Before(m_QueuedPlayer, s, v)
          /\ \A s \in popped, v \in ToSet(rest) : Before(m_QueuedPlayer, s, v)
      BY <1>4, <1>7, <3>1, RemovalCounts DEF Queued, L
    <3>4. found \in BOOLEAN
      BY <3>1 DEF RemoveQueuedPlayer
    <3> HIDE DEF rest, popped, found, room
    <3>5. QED
      BY <2>2, <3>2, <3>3, <3>4
  <2>3. QED
    BY <2>1, <2>2
<1> HIDE DEF removal, found, rest, popped
<1>11. /\ Queued' = IF queued THEN ToSet(rest) \union {t} ELSE ToSet(rest)
       /\ Len(m_QueuedPlayer') = IF queued THEN Len(rest) + 1 ELSE Len(rest)
       /\ Len(m_QueuedPlayer') \in Nat /\ Len(rest) \in Nat
  <2>1. /\ Len(rest) \in Nat /\ Len(Append(rest, t)) = Len(rest) + 1
        /\ ToSet(Append(rest, t)) = ToSet(rest) \union {t}
    BY <1>3, <1>10, AppendLemma
  <2>2. m_QueuedPlayer' = IF queued THEN Append(rest, t) ELSE rest
    BY <1>1
  <2>3. CASE queued
    BY <2>1, <2>2, <2>3 DEF Queued
  <2>4. CASE ~queued
    BY <2>1, <2>2, <2>4 DEF Queued
  <2>5. QED
    BY <2>3, <2>4
<1>12. \A s \in Session : Admits(s) => s \in popped \/ (s = t /\ ~queued)
  BY <1>1 DEF Admits, Delete, InitializeSessions
<1>13. ~queued => Admits(t)
  BY <1>1, <1>3, <1>6, SessionsAssumption DEF Admits, Delete, InitializeSessions, Replaced
<1>14. NobodyWaitsForRoom => L = 0 \/ (m_playerLimit > 0 /\ size - L >= m_playerLimit)
  BY <1>4 DEF NobodyWaitsForRoom, GetActiveSessionCount, size
<1>15. full <=> m_playerLimit > 0 /\ Sessions >= m_playerLimit
  BY DEF full
<1>16. Listed' = Listed \union {a}
  BY <1>1, <1>3, <1>5 DEF Listed
<1>17. Cardinality(Listed') = IF old = null THEN size + 1 ELSE size
  <2>1. old = null => a \notin Listed
    BY DEF Listed
  <2>2. IsFiniteSet(Listed)
    BY NumbersAssumption, FS_Subset DEF Listed
  <2>3. CASE old = null
    BY <1>16, <2>1, <2>2, <2>3, FS_AddElement DEF size, GetActiveAndQueuedSessionCount
  <2>4. CASE old # null
    BY <1>8, <1>16, <2>4, Listed' = Listed DEF size, GetActiveAndQueuedSessionCount
  <2>5. QED
    BY <2>3, <2>4
<1> DEFINE m == Cardinality(Listed')
           K == Len(m_QueuedPlayer')
<1>18. room <=> m_playerLimit = 0 \/ (IF ~found /\ size - L > 0 THEN size - L - 1
                                      ELSE size - L) < m_playerLimit
  BY DEF HasRoom, SessionsWithout
<1> HIDE DEF L, room, old, a
<1>19. OrderStep
  <2>1. ASSUME NEW s \in Session, NEW v \in (Queued \intersect Queued') \ {s},
               Before(m_QueuedPlayer', s, v)
        PROVE  Before(m_QueuedPlayer, s, v)
    <3>1. CASE queued
      <4>1. m_QueuedPlayer' = Append(rest, t) /\ v # t
        BY <1>1, <1>6, <3>1
      <4> DEFINE x == Append(rest, t)
      <4>2. /\ x \in Seq(Session) /\ Len(x) = Len(rest) + 1
            /\ \A i \in 1..Len(x) : x[i] = IF i <= Len(rest) THEN rest[i] ELSE t
        BY <1>3, <1>10
      <4> HIDE DEF x
      <4>3. PICK i \in 1..Len(x), j \in 1..Len(x) : i < j /\ x[i] = s /\ x[j] = v
        BY <2>1, <4>1, <4>2 DEF Before, x
      <4>4. /\ i \in 1..Len(rest) /\ j \in 1..Len(rest) /\ i < j
            /\ rest[i] = s /\ rest[j] = v
        BY <1>11, <4>1, <4>2, <4>3
      <4>5. Before(rest, s, v)
        BY <1>10, <4>4 DEF Before
      <4>6. QED
        BY <1>10, <4>5
    <3>2. CASE ~queued
      BY <1>1, <1>10, <2>1, <3>2
    <3>3. QED
      BY <3>1, <3>2
  <2>2. ASSUME NEW s \in Session, NEW v \in (Queued \intersect Queued') \ {s},
               NobodyWaitsForRoom, Admits(s), ~Bypasses(s)
        PROVE  Before(m_QueuedPlayer, s, v)
    <3>1. v \in ToSet(rest)
      BY <1>6, <1>11
    <3>2. Len(m_QueuedPlayer) # 0
      BY <1>4 DEF Queued, ToSet
    <3>3. ~(s = t /\ ~queued)
      <4>1. s = t /\ ~queued => ~full
        BY <1>2, <2>2
      <4>2. full
        BY <1>4, <1>5, <1>7, <1>10, <1>14, <1>15, <2>2, <3>2, <1>9 DEF L
      <4>3. QED
        BY <4>1, <4>2
    <3>4. QED
      BY <1>10, <1>12, <2>2, <3>1, <3>3
  <2>3. QED
    BY <2>1, <2>2 DEF OrderStep
<1>20. LimitStep
  <2>1. SUFFICES ASSUME NEW s \in Session, Admits(s), m_playerLimit # 0, ~Bypasses(s)
                 PROVE  Cardinality(Admitted' \ Bypassing) <= m_playerLimit
    BY DEF LimitStep
  <2> DEFINE P == Admitted' \ Bypassing
  <2>2. /\ P \subseteq Listed' /\ \A v \in Queued' : AccountOf[v] \notin P
    BY AfterTheStep DEF AdmittedLeftTheQueue
  <2> HIDE DEF P
  <2>3. /\ IsFiniteSet(P) /\ Cardinality(P) \in Nat /\ K \in Nat /\ m \in Nat
        /\ K + Cardinality(P) <= m
    BY <2>2, PlacesTakenNext
  <2>4. ~queued /\ Bypasses(t) => K + Cardinality(P) + 1 <= m
    <3>1. SUFFICES ASSUME ~queued, Bypasses(t) PROVE K + Cardinality(P) + 1 <= m
      OBVIOUS
    <3>2. a \notin P
      BY <1>3, <1>13, <3>1 DEF P, Bypassing, a
    <3>3. \A v \in Queued' : AccountOf[v] \notin P \union {a}
      BY <1>4, <1>10, <1>11, <2>2, <3>1 DEF InTable, old
    <3>4. K + Cardinality(P \union {a}) <= m
      BY <1>16, <2>2, <3>3, PlacesTakenNext, P \union {a} \subseteq Listed'
    <3>5. Cardinality(P \union {a}) = Cardinality(P) + 1
      BY <2>3, <3>2, FS_AddElement
    <3>6. QED
      BY <2>3, <3>4, <3>5
  <2>5. \/ popped # {} /\ old # null
        \/ ~queued /\ ~full
    BY <1>2, <1>10, <1>12, <2>1
  <2>6. queued \/ ~full \/ (~queued /\ Bypasses(t))
    BY <1>2
  <2> HIDE DEF m, K
  <2>7. Cardinality(P) <= m_playerLimit
    <3> DEFINE c == Cardinality(P)
    <3>1. c \in Nat /\ m_playerLimit \in Nat /\ m_playerLimit # 0 /\ size \in Nat /\ L \in Nat
      BY <1>4, <1>5, <1>7, <2>1, <2>3
    <3>2. K = IF queued THEN Len(rest) + 1 ELSE Len(rest)
      BY <1>11 DEF K
    <3>3. m = IF old = null THEN size + 1 ELSE size
      BY <1>17 DEF m
    <3>4. Len(rest) \in Nat
      BY <1>11
    <3> HIDE DEF P
    <3>5. CASE old = null
      BY <1>10, <1>15, <2>3, <2>4, <2>5, <2>6, <3>1, <3>2, <3>3, <3>4, <3>5
    <3>6. CASE old # null
      <4>1. CASE popped # {}
        <5>1. CASE ~queued /\ ~full
          <6>1. ~(Sessions >= m_playerLimit)
            BY <1>15, <3>1, <5>1
          <6>2. size - 1 < m_playerLimit
            BY <3>1, <3>6, <6>1
          <6>3. QED
            BY <2>3, <3>1, <3>2, <3>3, <3>4, <3>6, <5>1, <6>2
        <5>2. CASE queued \/ full
          <6>1. /\ Len(rest) = (IF found THEN L - 1 ELSE L) - 1
                /\ room /\ found \in BOOLEAN /\ (~found => L + 1 <= size)
            BY <1>9, <1>10, <3>6, <4>1
          <6>2. size - L - (IF found THEN 0 ELSE 1) < m_playerLimit
            BY <1>18, <3>1, <6>1
          <6>3. K + c <= size /\ (~queued => K + c + 1 <= size)
            BY <2>3, <2>4, <2>6, <3>3, <3>6, <5>2
          <6> HIDE DEF c
          <6>4. c <= m_playerLimit
            BY <3>1, <3>2, <6>1, <6>2, <6>3
          <6>5. QED
            BY <6>4 DEF c
        <5>3. QED
          BY <5>1, <5>2
      <4>2. CASE popped = {}
        <5>1. ~queued /\ ~full
          BY <2>5, <4>2
        <5>2. ~(Sessions >= m_playerLimit)
          BY <1>15, <3>1, <5>1
        <5>3. size - 1 < m_playerLimit
          BY <3>1, <3>6, <5>2
        <5>4. QED
          BY <2>3, <3>1, <3>2, <3>3, <3>4, <3>6, <5>1, <5>3
      <4>3. QED
        BY <4>1, <4>2
    <3>7. QED
      BY <3>5, <3>6
  <2>8. QED
    BY <2>7 DEF P
<1>21. WaitStep
  <2>1. SUFFICES ASSUME NobodyWaitsForRoom, K # 0
                 PROVE  m_playerLimit > 0 /\ m - K >= m_playerLimit
    <3>1. m_QueuedPlayer' # << >> => K # 0
      BY <1>11, <1>1, <1>3, <1>10
    <3>2. NobodyWaitsForRoom' <=> (m_QueuedPlayer' # << >> =>
                                       m_playerLimit' > 0 /\ m - K >= m_playerLimit')
      BY DEF NobodyWaitsForRoom, GetActiveSessionCount, GetActiveAndQueuedSessionCount
    <3>3. QED
      BY <1>1, <3>1, <3>2 DEF WaitStep
  <2>2. queued => full
    BY <1>2
  <2> HIDE DEF m, K
  <2>3. m_playerLimit \in Nat /\ size \in Nat /\ L \in Nat /\ Len(rest) \in Nat
    BY <1>4, <1>5, <1>7, <1>11
  <2>4. K = IF queued THEN Len(rest) + 1 ELSE Len(rest)
    BY <1>11 DEF K
  <2>5. m = IF old = null THEN size + 1 ELSE size
    BY <1>17 DEF m
  <2>6. CASE old = null
    BY <1>10, <1>14, <1>15, <2>1, <2>2, <2>3, <2>4, <2>5, <2>6
  <2>7. CASE old # null
    <3>1. CASE queued
      BY <1>9, <1>10, <1>14, <1>15, <1>18, <2>1, <2>2, <2>3, <2>4, <2>5, <2>7, <3>1
    <3>2. CASE ~queued
      BY <1>9, <1>10, <1>14, <1>18, <2>1, <2>3, <2>4, <2>5, <2>7, <3>2
    <3>3. QED
      BY <3>1, <3>2
  <2>8. QED
    BY <2>6, <2>7
<1>22. QED
  BY <1>19, <1>20, <1>21

(* The arithmetic of two calls of RemoveQueuedPlayer for one session, with *)
(* n sessions in the table, l of them queued, the session among these if   *)
(* f, m queued after the first call and r after the second.                *)
LEMMA TwoRemovals ==
    ASSUME NEW n \in Nat, NEW l \in Nat, NEW m \in Nat, NEW r \in Nat, NEW limit \in Nat,
           NEW f \in BOOLEAN, NEW p1 \in BOOLEAN, NEW p2 \in BOOLEAN,
           l <= n, ~f => l + 1 <= n,
           m = (IF f THEN l - 1 ELSE l) - (IF p1 THEN 0 ELSE 1),
           r = m - (IF p2 THEN 0 ELSE 1),
           ~p1 /\ limit # 0 => (IF f THEN n - l ELSE n - l - 1) < limit,
           p1 /\ (IF f THEN n - l ELSE n - l - 1) < limit => m = 0,
           ~p2 /\ limit # 0 => n - m - 1 < limit,
           p2 /\ n - m - 1 < limit => r = 0
    PROVE  /\ limit # 0 /\ (~p1 \/ ~p2) => n - 1 - r <= limit
           /\ r # 0 /\ n - l >= limit => n - 1 - r >= limit
<1>1. CASE f
  BY <1>1
<1>2. CASE ~f
  BY <1>2
<1>3. QED
  BY <1>1, <1>2

(* The session loop and the limit: RemoveQueuedPlayer is called twice for  *)
(* the session that goes, and the second call may admit one more.          *)
LEMMA UpdateSessionMoves ==
    ASSUME LifecycleInv, LifecycleInv', NEW a \in Account, UpdateSession(a)
    PROVE  OrderStep /\ LimitStep /\ WaitStep
<1> DEFINE t == m_sessions[a]
           size == GetActiveAndQueuedSessionCount
           first == RemoveQueuedPlayer(m_QueuedPlayer, t, size)
           second == RemoveQueuedPlayer(first.queue, t, size)
           middle == first.queue
           rest == second.queue
           popped == first.popped \union second.popped
           L == Len(m_QueuedPlayer)
           found == t \in Queued
           room1 == HasRoom(SessionsWithout(found, size - L))
           room2 == HasRoom(SessionsWithout(second.found, size - Len(middle)))
<1>1. PICK u \in SessionUpdates(t) :
        /\ m_sessions' = IF u.removed THEN [m_sessions EXCEPT ![a] = null] ELSE m_sessions
        /\ m_QueuedPlayer' = IF u.removed THEN rest ELSE m_QueuedPlayer
        /\ Delete(IF u.removed THEN {t} ELSE {},
                  [m_inQueue EXCEPT ![t] = u.inQueue],
                  [socketOpen EXCEPT ![t] = u.open],
                  [InitializeSessions(IF u.removed THEN popped ELSE {}) EXCEPT ![t] = u.realm],
                  [player EXCEPT ![t] = u.play],
                  [forceExit EXCEPT ![t] = u.force],
                  [expireTime EXCEPT ![t] = u.expire])
  BY DEF UpdateSession
<1>2. a \in toUpdate /\ m_playerLimit' = m_playerLimit
  BY DEF UpdateSession
<1>3. t \in Session /\ t # null /\ AccountOf[t] = a /\ InTable(t)
  BY <1>2, SessionsAssumption
     DEF LifecycleInv, OwnerInv, QueueInv, LoopVisitsSessions, TypeOK, InTable
<1>4. /\ m_QueuedPlayer \in Seq(Session) /\ IsInjective(m_QueuedPlayer) /\ L \in Nat
      /\ \A s \in Queued : s \in Session /\ s # null /\ InTable(s)
  BY QueuedLemma DEF LifecycleInv
<1>5. m_sessions \in [Account -> Session \union {null}] /\ m_playerLimit \in Nat
  BY SessionsAssumption DEF LifecycleInv, QueueInv, TypeOK
<1>6. (realmLogin[t] = "ready" /\ u.realm = "done") \/ u.realm = realmLogin[t]
  BY <1>1, <1>3, SessionUpdateEffect
<1>7. size \in Nat /\ L <= size
  <2>1. {} \in SUBSET Listed /\ \A s \in Queued : AccountOf[s] \notin {}
    OBVIOUS
  <2>2. Cardinality(Listed) \in Nat /\ L + Cardinality({}) <= Cardinality(Listed)
    BY <2>1, PlacesTaken
  <2>3. QED
    BY <1>4, <2>2, FS_EmptySet DEF GetActiveAndQueuedSessionCount
<1>8. a \in Listed
  BY <1>3 DEF Listed
<1>9. ~found => L + 1 <= size
  <2>1. ASSUME t \notin Queued, NEW s \in Queued PROVE AccountOf[s] # a
    BY <1>4, <2>1 DEF InTable
  <2>2. ASSUME t \notin Queued PROVE L + Cardinality({a}) <= size
    BY <1>8, <2>1, <2>2, PlacesTaken, {a} \subseteq Listed DEF GetActiveAndQueuedSessionCount
  <2>3. QED
    BY <2>2, FS_Singleton
<1>10. \A s \in Session : Admits(s) => u.removed /\ s \in popped
  <2>1. realmLogin \in [Session -> {"none", "pending", "ready", "done"}]
    BY DEF LifecycleInv, QueueInv, TypeOK
  <2> HIDE DEF t, popped
  <2>2. ASSUME NEW s \in Session
        PROVE  realmLogin'[s] = IF u.removed /\ s = t THEN "none"
                                ELSE IF s = t THEN u.realm
                                ELSE IF u.removed /\ s \in popped THEN "pending"
                                ELSE realmLogin[s]
    BY <1>1, <1>3 DEF Delete, InitializeSessions
  <2>3. QED
    BY <1>6, <2>1, <2>2 DEF Admits
<1>11. CASE ~u.removed
  BY <1>1, <1>10, <1>11, NobodyMoves
<1>12. CASE u.removed
  <2> HIDE DEF size, t
  <2>1. /\ middle \in Seq(Session) /\ IsInjective(middle)
        /\ ToSet(middle) \subseteq Queued \ {t}
        /\ first.popped \subseteq Queued \ {t}
        /\ Len(middle) = (IF found THEN L - 1 ELSE L) - (IF first.popped = {} THEN 0 ELSE 1)
        /\ first.popped # {} => room1
        /\ first.popped = {} /\ room1 => Len(middle) = 0
        /\ \A s, v : Before(middle, s, v) => Before(m_QueuedPlayer, s, v)
        /\ \A s \in first.popped, v \in ToSet(middle) : Before(m_QueuedPlayer, s, v)
    <3>1. /\ middle \in Seq(Session) /\ IsInjective(middle)
          /\ ToSet(middle) \subseteq Queued \ {t}
          /\ first.popped \subseteq Queued \ {t}
      BY <1>4, RemovalLemma DEF Queued
    <3>2. /\ first.found <=> found
          /\ Len(middle) = (IF first.found THEN L - 1 ELSE L)
                           - (IF first.popped = {} THEN 0 ELSE 1)
          /\ first.popped # {} => HasRoom(SessionsWithout(first.found, size - L))
          /\ first.popped = {} /\ HasRoom(SessionsWithout(first.found, size - L))
                => Len(middle) = 0
          /\ \A s, v : Before(middle, s, v) => Before(m_QueuedPlayer, s, v)
          /\ \A s \in first.popped, v \in ToSet(middle) : Before(m_QueuedPlayer, s, v)
      BY <1>4, <1>7, RemovalCounts DEF Queued
    <3>3. first.found = found
      BY DEF RemoveQueuedPlayer, Queued
    <3> HIDE DEF first, middle, found
    <3>4. QED
      BY <3>1, <3>2, <3>3
  <2> HIDE DEF first, middle
  <2>2. /\ ~second.found
        /\ rest \in Seq(Session) /\ ToSet(rest) \subseteq ToSet(middle)
        /\ second.popped \subseteq ToSet(middle)
        /\ Len(rest) = Len(middle) - (IF second.popped = {} THEN 0 ELSE 1)
        /\ second.popped # {} => room2
        /\ second.popped = {} /\ room2 => Len(rest) = 0
        /\ \A s, v : Before(rest, s, v) => Before(middle, s, v)
        /\ \A s \in second.popped, v \in ToSet(rest) : Before(middle, s, v)
    <3>1. second = RemoveQueuedPlayer(middle, t, size)
      BY DEF middle
    <3> HIDE DEF second
    <3>2. second.found = (t \in ToSet(middle))
      BY <3>1 DEF RemoveQueuedPlayer
    <3>3. ~second.found
      BY <2>1, <3>2
    <3>4. /\ rest \in Seq(Session) /\ ToSet(rest) \subseteq ToSet(middle)
          /\ second.popped \subseteq ToSet(middle)
      BY <2>1, <3>1, RemovalLemma
    <3>5. /\ Len(rest) = (IF second.found THEN Len(middle) - 1 ELSE Len(middle))
                         - (IF second.popped = {} THEN 0 ELSE 1)
          /\ second.popped # {} => HasRoom(SessionsWithout(second.found, size - Len(middle)))
          /\ second.popped = {} /\ HasRoom(SessionsWithout(second.found, size - Len(middle)))
                => Len(rest) = 0
          /\ \A s, v : Before(rest, s, v) => Before(middle, s, v)
          /\ \A s \in second.popped, v \in ToSet(rest) : Before(middle, s, v)
      BY <1>7, <2>1, <3>1, RemovalCounts
    <3> HIDE DEF rest
    <3>6. QED
      BY <3>3, <3>4, <3>5
  <2> HIDE DEF second, rest
  <2>3. m_QueuedPlayer' = rest /\ Queued' = ToSet(rest)
    BY <1>1, <1>12 DEF Queued
  <2>4. Listed' = Listed \ {a} /\ Cardinality(Listed') = size - 1
    <3>1. Listed' = Listed \ {a}
      BY <1>1, <1>5, <1>12 DEF Listed
    <3>2. IsFiniteSet(Listed)
      BY NumbersAssumption, FS_Subset DEF Listed
    <3>3. QED
      BY <1>8, <3>1, <3>2, FS_RemoveElement DEF size, GetActiveAndQueuedSessionCount
  <2>5. /\ room1 <=> m_playerLimit = 0 \/ (IF ~found /\ size - L > 0 THEN size - L - 1
                                           ELSE size - L) < m_playerLimit
        /\ room2 <=> m_playerLimit = 0 \/ (IF ~second.found /\ size - Len(middle) > 0
                                           THEN size - Len(middle) - 1
                                           ELSE size - Len(middle)) < m_playerLimit
    BY DEF HasRoom, SessionsWithout
  <2>6. /\ Len(middle) \in Nat /\ Len(rest) \in Nat
        /\ rest # << >> => Len(rest) # 0
        /\ ~second.found
        /\ Len(middle) = (IF found THEN L - 1 ELSE L) - (IF first.popped = {} THEN 0 ELSE 1)
        /\ first.popped # {} => room1
        /\ first.popped = {} /\ room1 => Len(middle) = 0
        /\ Len(rest) = Len(middle) - (IF second.popped = {} THEN 0 ELSE 1)
        /\ second.popped # {} => room2
        /\ second.popped = {} /\ room2 => Len(rest) = 0
    <3>1. middle \in Seq(Session) /\ rest \in Seq(Session)
      BY <2>1, <2>2
    <3>2. Len(middle) \in Nat /\ Len(rest) \in Nat /\ (rest # << >> => Len(rest) # 0)
      BY <3>1, EmptySeq, LenProperties
    <3>3. QED
      BY <2>1, <2>2, <3>2
  <2> DEFINE p1 == first.popped = {}
             p2 == second.popped = {}
  <2>11. /\ m_playerLimit # 0 /\ (~p1 \/ ~p2) => size - 1 - Len(rest) <= m_playerLimit
         /\ Len(rest) # 0 /\ size - L >= m_playerLimit => size - 1 - Len(rest) >= m_playerLimit
    <3> HIDE DEF found, room1, room2, L, p1, p2
    <3>1. /\ Len(middle) = (IF found THEN L - 1 ELSE L) - (IF p1 THEN 0 ELSE 1)
          /\ Len(rest) = Len(middle) - (IF p2 THEN 0 ELSE 1)
      BY <2>6 DEF p1, p2
    <3>2. /\ ~p1 /\ m_playerLimit # 0 => (IF found THEN size - L ELSE size - L - 1) < m_playerLimit
          /\ p1 /\ (IF found THEN size - L ELSE size - L - 1) < m_playerLimit => Len(middle) = 0
      BY <1>4, <1>7, <1>9, <2>5, <2>6 DEF p1
    <3>3. Len(middle) < size
      BY <1>4, <1>7, <1>9, <2>6, <3>1
    <3>4. /\ ~p2 /\ m_playerLimit # 0 => size - Len(middle) - 1 < m_playerLimit
          /\ p2 /\ size - Len(middle) - 1 < m_playerLimit => Len(rest) = 0
      BY <1>7, <2>5, <2>6, <3>3 DEF p2
    <3>5. found \in BOOLEAN /\ p1 \in BOOLEAN /\ p2 \in BOOLEAN
      BY DEF found, p1, p2
    <3>6. Len(middle) \in Nat /\ Len(rest) \in Nat
      BY <2>6
    <3>7. QED
      BY <1>4, <1>5, <1>7, <1>9, <3>1, <3>2, <3>4, <3>5, <3>6, TwoRemovals
  <2>7. OrderStep
    <3>1. ASSUME NEW s \in popped, NEW v \in ToSet(rest)
          PROVE  Before(m_QueuedPlayer, s, v)
      BY <2>1, <2>2
    <3>2. \A s, v : Before(rest, s, v) => Before(m_QueuedPlayer, s, v)
      BY <2>1, <2>2
    <3> HIDE DEF popped
    <3>3. QED
      BY <1>10, <2>3, <3>1, <3>2 DEF OrderStep
  <2>8. LimitStep
    <3>1. SUFFICES ASSUME NEW s \in Session, Admits(s), m_playerLimit # 0
                   PROVE  Cardinality(Admitted' \ Bypassing) <= m_playerLimit
      BY DEF LimitStep
    <3> DEFINE P == Admitted' \ Bypassing
    <3>2. /\ P \subseteq Listed' /\ \A v \in Queued' : AccountOf[v] \notin P
      BY AfterTheStep DEF AdmittedLeftTheQueue
    <3> HIDE DEF P
    <3>3. Cardinality(P) \in Nat /\ Len(rest) + Cardinality(P) <= size - 1
      BY <2>3, <2>4, <3>2, PlacesTakenNext
    <3>4. first.popped # {} \/ second.popped # {}
      BY <1>10, <3>1
    <3>5. size - 1 - Len(rest) <= m_playerLimit
      BY <2>11, <3>1, <3>4
    <3>6. Len(rest) \in Nat
      BY <2>6
    <3>7. Cardinality(P) <= m_playerLimit
      BY <1>5, <1>7, <3>3, <3>5, <3>6
    <3>8. QED
      BY <3>7 DEF P
  <2>9. WaitStep
    <3>1. NobodyWaitsForRoom /\ Len(rest) # 0 =>
              m_playerLimit > 0 /\ size - 1 - Len(rest) >= m_playerLimit
      <4>1. Len(rest) # 0 => L # 0
        BY <1>4, <2>6
      <4>2. NobodyWaitsForRoom /\ L # 0 =>
                m_playerLimit > 0 /\ size - L >= m_playerLimit
        BY <1>4 DEF NobodyWaitsForRoom, GetActiveSessionCount, size
      <4> HIDE DEF L
      <4>3. QED
        BY <2>11, <4>1, <4>2
    <3>2. NobodyWaitsForRoom' <=> (rest # << >> =>
              m_playerLimit' > 0 /\ Cardinality(Listed') - Len(rest) >= m_playerLimit')
      BY <2>3 DEF NobodyWaitsForRoom, GetActiveSessionCount, GetActiveAndQueuedSessionCount
    <3>3. QED
      BY <1>2, <1>5, <1>7, <2>4, <2>6, <3>1, <3>2 DEF WaitStep
  <2>10. QED
    BY <2>7, <2>8, <2>9
<1>13. QED
  BY <1>11, <1>12

(* KickAll empties the queue: nobody is left to be overtaken.              *)
LEMMA KickAllMoves ==
    ASSUME LifecycleInv, KickAll
    PROVE  OrderStep /\ LimitStep /\ WaitStep
<1>1. m_QueuedPlayer' = << >> /\ realmLogin' = realmLogin
  BY DEF KickAll
<1>2. Queued' = {} /\ \A s : ~Admits(s)
  BY <1>1 DEF Queued, ToSet, Admits
<1>3. QED
  BY <1>1, <1>2 DEF OrderStep, LimitStep, WaitStep, NobodyWaitsForRoom

(* Every step of every actor.                                              *)
LEMMA NextMoves ==
    ASSUME LifecycleInv, LifecycleInv', [Next]_vars
    PROVE  OrderStep /\ LimitStep /\ WaitStep
<1> DEFINE G == OrderStep /\ LimitStep /\ WaitStep
<1>t. realmLogin \in [Session -> {"none", "pending", "ready", "done"}]
  BY DEF LifecycleInv, QueueInv, TypeOK
<1>n. realmLogin' = realmLogin => \A s \in Session : ~Admits(s)
  BY DEF Admits
<1>1. ASSUME NEW s \in Session, AddSession(s) \/ CloseSocket(s) PROVE G
  BY <1>1, <1>n, NobodyMoves DEF AddSession, CloseSocket, table
<1>2. ASSUME NEW s \in Session, RealmAccountDataReady(s) PROVE G
  <2>1. \A v \in Session : ~Admits(v)
    BY <1>2, <1>t DEF RealmAccountDataReady, Admits
  <2>2. QED
    BY <1>2, <2>1, NobodyMoves DEF RealmAccountDataReady, table
<1>3. CASE RejectSession
  <2>1. \A v \in Session : ~Admits(v)
    BY <1>3 DEF RejectSession, Delete, Admits
  <2>2. QED
    BY <1>3, <2>1, NobodyMoves DEF RejectSession
<1>4. CASE AcceptSession
  BY <1>4, AcceptSessionMoves
<1>5. ASSUME NEW a \in Account, UpdateSession(a) PROVE G
  BY <1>5, UpdateSessionMoves
<1>6. CASE BeginUpdateSessions \/ BeginSessionLoop \/ EndUpdateSessions
  BY <1>6, <1>n, NobodyMoves
     DEF BeginUpdateSessions, BeginSessionLoop, EndUpdateSessions, table, object
<1>7. CASE \/ UpdateGameTime \/ KickAllLess \/ UNCHANGED vars
           \/ \E limit \in PlayerLimits : SetPlayerAmountLimit(limit)
           \/ \E a \in Account : KickPlayer(a)
  BY <1>7, <1>n, NobodyMoves
     DEF UpdateGameTime, KickAllLess, SetPlayerAmountLimit, KickPlayer, vars, table, object
<1>8. CASE KickAll
  BY <1>8, KickAllMoves
<1>9. QED
  BY <1>1, <1>2, <1>3, <1>4, <1>5, <1>6, <1>7, <1>8 DEF Next, WorldStep, Stopped

-----------------------------------------------------------------------------
(* The player limit is kept and used, for every limit, every number of     *)
(* sessions and however many are replaced, removed and admitted in one     *)
(* step: AddSession_ and RemoveQueuedPlayer let nobody in over the limit   *)
(* besides one who skips the queue, and leave nobody waiting below it.     *)
THEOREM LimitIsKeptAndUsed == Spec => LimitIsExact
<1>1. LifecycleInv /\ LifecycleInv' /\ [Next]_vars => [LimitStep]_vars /\ [WaitStep]_vars
  BY NextMoves
<1>2. Spec => [][LimitStep]_vars /\ [][WaitStep]_vars
  BY <1>1, InitLifecycle, NextLifecycle, PTL DEF Spec
<1>3. QED
  BY <1>2 DEF LimitIsExact, AdmissionRespectsLimit, QueueOnlyWhenFull, LimitStep, WaitStep

(* Nobody overtakes in the login queue, neither inside it nor by being     *)
(* admitted past it without a privilege.                                   *)
THEOREM NobodyOvertakes == Spec => FirstComeFirstServed
<1>1. LifecycleInv /\ LifecycleInv' /\ [Next]_vars => [OrderStep]_vars
  BY NextMoves
<1>2. Spec => [][OrderStep]_vars
  BY <1>1, InitLifecycle, NextLifecycle, PTL DEF Spec
<1>3. QED
  BY <1>2 DEF FirstComeFirstServed, OrderStep

=============================================================================
