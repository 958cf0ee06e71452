--------------------------- MODULE WorldSessions ---------------------------
(***************************************************************************)
(* The session table and the login queue of the world server:              *)
(* World::AddSession_, RemoveQueuedPlayer, UpdateSessions, KickAll and the *)
(* parts of WorldSession::Update that decide how long a session lives      *)
(* (src/src/server/game/World/World.cpp,                                   *)
(*  src/src/server/game/Server/WorldSession.cpp).                          *)
(*                                                                         *)
(* Three kinds of actors meet here.  Network threads hand new sessions     *)
(* over through addSessQueue and close sockets at any moment.  The world   *)
(* thread drains that queue and then updates every session once per tick.  *)
(* Database threads make the account data of an admitted session ready.    *)
(* A session is a pointer in the code; here it is a member of Session and  *)
(* is used once, so that a stale pointer can be told from a live one.      *)
(***************************************************************************)
EXTENDS Integers, Sequences, FiniteSets, SequencesExt

CONSTANTS
    Session,        \* the session objects the run may create
    Account,        \* account ids, the keys of m_sessions
    AccountOf,      \* AccountOf[s]: the account a session was created for
    Privileged,     \* accounts with RBAC_PERM_SKIP_QUEUE
    PlayerLimits,   \* the values m_playerLimit may take (0 means no limit)
    Tolerance,      \* DisconnectToleranceInterval (0 means disabled)
    ExpireTime,     \* updates a session with a player outlives its socket
    MaxTime,        \* bound on the game clock
    null,           \* nullptr
    never           \* no entry in m_disconnects

ASSUME SessionsAssumption ==
    /\ AccountOf \in [Session -> Account]
    /\ Privileged \subseteq Account
    /\ PlayerLimits \subseteq Nat
    /\ null \notin Session

ASSUME NumbersAssumption ==
    /\ IsFiniteSet(Account)
    /\ PlayerLimits # {}
    /\ Tolerance \in Nat /\ ExpireTime \in Nat /\ MaxTime \in Nat
    /\ never \notin Nat

VARIABLES
    status,         \* whether a session object exists yet, or no longer
    addSessQueue,   \* World::addSessQueue
    m_sessions,     \* World::m_sessions
    m_QueuedPlayer, \* World::m_QueuedPlayer
    m_playerLimit,  \* World::m_playerLimit
    m_disconnects,  \* World::m_disconnects
    gameTime,       \* GameTime::GetGameTime()
    m_inQueue,      \* WorldSession::m_inQueue
    socketOpen,     \* m_Socket->IsOpen()
    realmLogin,     \* WorldSession::_realmAccountLoginCallback
    player,         \* WorldSession::_player and m_playerLoading
    forceExit,      \* WorldSession::forceExit
    expireTime,     \* WorldSession::expireTime
    phase,          \* where the world thread is in World::UpdateSessions
    toUpdate,       \* accounts the session loop has not reached yet
    stopping,       \* the main loop has ended, KickAll was called
    kicked          \* the sessions KickAll found (only properties read it)

table == <<status, addSessQueue, m_sessions, m_QueuedPlayer>>
object == <<m_inQueue, socketOpen, realmLogin, player, forceExit, expireTime>>
world == <<m_playerLimit, m_disconnects, gameTime>>
thread == <<phase, toUpdate, stopping, kicked>>
vars == <<table, object, world, thread>>

TypeOK ==
    /\ status \in [Session -> {"unborn", "alive", "deleted"}]
    /\ addSessQueue \in Seq(Session)
    /\ m_sessions \in [Account -> Session \union {null}]
    /\ m_QueuedPlayer \in Seq(Session)
    /\ m_playerLimit \in PlayerLimits
    /\ m_disconnects \in [Account -> 0..MaxTime \union {never}]
    /\ gameTime \in 0..MaxTime
    /\ m_inQueue \in [Session -> BOOLEAN]
    /\ socketOpen \in [Session -> BOOLEAN]
    /\ realmLogin \in [Session -> {"none", "pending", "ready", "done"}]
    /\ player \in [Session -> {"none", "loading", "inworld"}]
    /\ forceExit \in [Session -> BOOLEAN]
    /\ expireTime \in [Session -> 0..ExpireTime]
    /\ phase \in {"idle", "add", "update", "stopped"}
    /\ toUpdate \subseteq Account
    /\ stopping \in BOOLEAN
    /\ kicked \subseteq Session

Init ==
    /\ status = [s \in Session |-> "unborn"]
    /\ addSessQueue = << >>
    /\ m_sessions = [a \in Account |-> null]
    /\ m_QueuedPlayer = << >>
    /\ m_playerLimit \in PlayerLimits
    /\ m_disconnects = [a \in Account |-> never]
    /\ gameTime = 0
    /\ m_inQueue = [s \in Session |-> FALSE]
    /\ socketOpen = [s \in Session |-> FALSE]
    /\ realmLogin = [s \in Session |-> "none"]
    /\ player = [s \in Session |-> "none"]
    /\ forceExit = [s \in Session |-> FALSE]
    /\ expireTime = [s \in Session |-> ExpireTime]
    /\ phase = "idle"
    /\ toUpdate = {}
    /\ stopping = FALSE
    /\ kicked = {}

-----------------------------------------------------------------------------
(* What the world thread reads of the table.  A definition whose name ends *)
(* in _Wrong is a defect the properties below are tried against: it is the *)
(* definition that follows it with a plausible mistake, and nothing here   *)
(* uses it.                                                                *)

Listed == {a \in Account : m_sessions[a] # null}
GetActiveAndQueuedSessionCount == Cardinality(Listed)
GetActiveSessionCount == GetActiveAndQueuedSessionCount - Len(m_QueuedPlayer)

(* The clock difference is taken the way World.cpp:367 takes it: the time  *)
(* of the disconnect minus the present.                                    *)
WithinTolerance(a) ==
    /\ m_disconnects[a] # never
    /\ m_disconnects[a] - gameTime < Tolerance

HasRecentlyDisconnected(s) == Tolerance > 0 /\ WithinTolerance(AccountOf[s])

(* The search throws away the entries it finds stale, unless it ends early *)
(* because the account was found.                                          *)
DisconnectsAfterSearch(s) ==
    IF Tolerance > 0 /\ ~HasRecentlyDisconnected(s)
    THEN [a \in Account |-> IF WithinTolerance(a) THEN m_disconnects[a] ELSE never]
    ELSE m_disconnects

QueueWithout_Wrong(q, sess) == q
QueueWithout(q, sess) == RemoveAt(q, CHOOSE i \in DOMAIN q : q[i] = sess)

SessionsWithout_Wrong(found, active) == active

(* The sessions that count against the limit once sess is gone: a session  *)
(* found in the queue is not among the active ones, any other is.          *)
SessionsWithout(found, active) == IF ~found /\ active > 0 THEN active - 1 ELSE active

HasRoom_Wrong(sessions) == m_playerLimit = 0 \/ sessions <= m_playerLimit
HasRoom(sessions) == m_playerLimit = 0 \/ sessions < m_playerLimit

(* RemoveQueuedPlayer(sess) on the queue q, with size sessions in the      *)
(* table, the removed one included; popped is the admitted head.           *)
RemoveQueuedPlayer(q, sess, size) ==
    LET found == sess \in ToSet(q)
        left == IF found THEN QueueWithout(q, sess) ELSE q
        admit == left # << >> /\ HasRoom(SessionsWithout(found, size - Len(q)))
    IN  [found |-> found,
         queue |-> IF admit THEN Tail(left) ELSE left,
         popped |-> IF admit THEN {Head(left)} ELSE {}]

AddQueuedPlayer_Wrong(q, s) == <<s>> \o q
AddQueuedPlayer(q, s) == Append(q, s)

(* delete s, for every session s of D: the object is gone and its fields   *)
(* with it (they take their initial values).  The other fields are those   *)
(* of the function given for each.                                         *)
Delete(D, inQueue, open, realm, play, force, expire) ==
    /\ status' = [s \in Session |-> IF s \in D THEN "deleted" ELSE status[s]]
    /\ m_inQueue' = [s \in Session |-> inQueue[s] /\ s \notin D]
    /\ socketOpen' = [s \in Session |-> open[s] /\ s \notin D]
    /\ realmLogin' = [s \in Session |-> IF s \in D THEN "none" ELSE realm[s]]
    /\ player' = [s \in Session |-> IF s \in D THEN "none" ELSE play[s]]
    /\ forceExit' = [s \in Session |-> force[s] /\ s \notin D]
    /\ expireTime' = [s \in Session |-> IF s \in D THEN ExpireTime ELSE expire[s]]

KickPlayers_Wrong(S) ==
    /\ socketOpen' = [s \in Session |-> socketOpen[s] /\ s \notin S]
    /\ UNCHANGED forceExit

(* KickPlayer on every session of S.                                       *)
KickPlayers(S) ==
    /\ socketOpen' = [s \in Session |-> socketOpen[s] /\ s \notin S]
    /\ forceExit' = [s \in Session |-> forceExit[s] \/ s \in S]

(* InitializeSession on every session of S: the query holder is enqueued.  *)
InitializeSessions(S) ==
    [s \in Session |-> IF s \in S THEN "pending" ELSE realmLogin[s]]

-----------------------------------------------------------------------------
(* Network and database threads.                                           *)

(* WorldSocket::LoadSessionPermissionsCallback hands a session to the      *)
(* world.                                                                  *)
AddSession(s) ==
    /\ status[s] = "unborn"
    /\ phase # "stopped"
    /\ status' = [status EXCEPT ![s] = "alive"]
    /\ addSessQueue' = Append(addSessQueue, s)
    /\ socketOpen' = [socketOpen EXCEPT ![s] = TRUE]
    /\ UNCHANGED <<m_sessions, m_QueuedPlayer, m_inQueue, realmLogin, player,
                   forceExit, expireTime, world, thread>>

(* The client hangs up, or its socket fails.                               *)
CloseSocket(s) ==
    /\ status[s] = "alive"
    /\ socketOpen[s]
    /\ socketOpen' = [socketOpen EXCEPT ![s] = FALSE]
    /\ UNCHANGED <<table, m_inQueue, realmLogin, player, forceExit, expireTime,
                   world, thread>>

(* A database thread has executed the holder InitializeSession enqueued.   *)
RealmAccountDataReady(s) ==
    /\ realmLogin[s] = "pending"
    /\ realmLogin' = [realmLogin EXCEPT ![s] = "ready"]
    /\ UNCHANGED <<table, m_inQueue, socketOpen, player, forceExit, expireTime,
                   world, thread>>

-----------------------------------------------------------------------------
(* The world thread: World::UpdateSessions.                                *)

BeginUpdateSessions ==
    /\ phase = "idle"
    /\ phase' = "add"
    /\ UNCHANGED <<table, object, world, toUpdate, stopping, kicked>>

(* A new session of an account whose old session is still loading its      *)
(* character: the newcomer is kicked and deleted.                          *)
RejectSession ==
    LET s == Head(addSessQueue)
        old == m_sessions[AccountOf[s]]
    IN  /\ phase = "add"
        /\ addSessQueue # << >>
        /\ old # null /\ player[old] = "loading"
        /\ addSessQueue' = Tail(addSessQueue)
        /\ Delete({s}, m_inQueue, socketOpen, realmLogin, player, forceExit, expireTime)
        /\ UNCHANGED <<m_sessions, m_QueuedPlayer, world, thread>>

Replaced_Wrong(old) == {}
Replaced(old) == {old} \ {null}

(* AddSession_ otherwise: the old session of the account, if any, gives up *)
(* its place and is deleted; the new one is queued or initialized.         *)
AcceptSession ==
    LET s == Head(addSessQueue)
        old == m_sessions[AccountOf[s]]
        size == GetActiveAndQueuedSessionCount
        removal == IF old = null
                   THEN [found |-> FALSE, queue |-> m_QueuedPlayer, popped |-> {}]
                   ELSE RemoveQueuedPlayer(m_QueuedPlayer, old, size)
        newSize == IF old = null THEN size + 1 ELSE size
        Sessions == IF removal.found THEN newSize ELSE newSize - 1
        full == m_playerLimit > 0 /\ Sessions >= m_playerLimit
        search == full /\ AccountOf[s] \notin Privileged
        queued == search /\ ~HasRecentlyDisconnected(s)
    IN  /\ phase = "add"
        /\ addSessQueue # << >>
        /\ old # null => player[old] # "loading"
        /\ addSessQueue' = Tail(addSessQueue)
        /\ m_sessions' = [m_sessions EXCEPT ![AccountOf[s]] = s]
        /\ m_QueuedPlayer' = IF queued THEN AddQueuedPlayer(removal.queue, s) ELSE removal.queue
        /\ m_disconnects' = IF search THEN DisconnectsAfterSearch(s) ELSE m_disconnects
        /\ Delete(Replaced(old),
                  [m_inQueue EXCEPT ![s] = queued],
                  socketOpen,
                  InitializeSessions(removal.popped \union (IF queued THEN {} ELSE {s})),
                  player, forceExit, expireTime)
        /\ UNCHANGED <<m_playerLimit, gameTime, thread>>

BeginSessionLoop ==
    /\ phase = "add"
    /\ addSessQueue = << >>
    /\ phase' = "update"
    /\ toUpdate' = Listed
    /\ UNCHANGED <<table, object, world, stopping, kicked>>

InitializeSessionCallback_Wrong(s) ==
    [inQueue |-> m_inQueue[s],
     realm |-> IF realmLogin[s] = "ready" THEN "done" ELSE realmLogin[s]]

(* InitializeSessionCallback, if the account data has arrived.             *)
InitializeSessionCallback(s) ==
    IF realmLogin[s] = "ready"
    THEN [inQueue |-> FALSE, realm |-> "done"]
    ELSE [inQueue |-> m_inQueue[s], realm |-> realmLogin[s]]

ExpireTimeAfter_Wrong(s, open) == expireTime[s]

(* The time left to a session without a connection, in units of one tick.  *)
ExpireTimeAfter(s, open) ==
    IF open \/ expireTime[s] = 0 THEN expireTime[s] ELSE expireTime[s] - 1

AfterCharacterData == [wait |-> "loading", ok |-> "inworld", fail |-> "none"]

(* One WorldSession::Update in the order of its body: the idle check, a    *)
(* character login packet, the account data callback, the character data   *)
(* callback, the logout, the clean-up of a closed socket.  The parameters  *)
(* say which of them happen.                                               *)
SessionUpdate(s, idle, login, character, logout) ==
    LET again == login /\ player[s] # "none"
        failed == character = "fail"
        loading == player[s] = "loading" \/ (login /\ ~again)
        nowPlaying == IF loading THEN AfterCharacterData[character] ELSE player[s]
        afterLogout == IF logout THEN "none" ELSE nowPlaying
        open == socketOpen[s] /\ ~idle /\ ~again /\ ~failed
        force == forceExit[s] \/ again \/ failed
        expire == ExpireTimeAfter(s, open)
        start == InitializeSessionCallback(s)
    IN  [open |-> open, force |-> force, expire |-> expire, play |-> afterLogout,
         inQueue |-> start.inQueue, realm |-> start.realm,
         removed |-> ~open /\ (expire < 1 \/ force \/ afterLogout # "inworld"),
         possible |-> /\ idle => ~m_inQueue[s]
                      /\ login => ~m_inQueue[s]
                      /\ character # "wait" => loading
                      /\ logout => nowPlaying = "inworld"]

DisconnectTime_Wrong == gameTime + Tolerance
DisconnectTime == gameTime

SessionUpdates(s) ==
    {u \in {SessionUpdate(s, idle, login, character, logout) :
               idle, login, logout \in BOOLEAN, character \in {"wait", "ok", "fail"}} :
        u.possible}

(* One iteration of the session loop, with a the account it reaches.  A    *)
(* session that Update gives up is taken out of the queue (twice), of the  *)
(* table, and deleted.                                                     *)
UpdateSession(a) ==
    /\ phase = "update"
    /\ a \in toUpdate
    /\ \E u \in SessionUpdates(m_sessions[a]) :
       LET s == m_sessions[a]
           size == GetActiveAndQueuedSessionCount
           first == RemoveQueuedPlayer(m_QueuedPlayer, s, size)
           second == RemoveQueuedPlayer(first.queue, s, size)
       IN  /\ toUpdate' = toUpdate \ {a}
           /\ m_sessions' = IF u.removed THEN [m_sessions EXCEPT ![a] = null] ELSE m_sessions
           /\ m_QueuedPlayer' = IF u.removed THEN second.queue ELSE m_QueuedPlayer
           /\ m_disconnects' = IF u.removed /\ ~first.found /\ Tolerance > 0
                               THEN [m_disconnects EXCEPT ![a] = DisconnectTime]
                               ELSE m_disconnects
           /\ Delete(IF u.removed THEN {s} ELSE {},
                     [m_inQueue EXCEPT ![s] = u.inQueue],
                     [socketOpen EXCEPT ![s] = u.open],
                     [InitializeSessions(IF u.removed THEN first.popped \union second.popped
                                         ELSE {}) EXCEPT ![s] = u.realm],
                     [player EXCEPT ![s] = u.play],
                     [forceExit EXCEPT ![s] = u.force],
                     [expireTime EXCEPT ![s] = u.expire])
           /\ UNCHANGED <<addSessQueue, m_playerLimit, gameTime, phase, stopping, kicked>>

EndUpdateSessions ==
    /\ phase = "update"
    /\ toUpdate = {}
    /\ phase' = IF stopping THEN "stopped" ELSE "idle"
    /\ UNCHANGED <<table, object, world, toUpdate, stopping, kicked>>

(* World::_UpdateGameTime, bounded by MaxTime.                             *)
UpdateGameTime ==
    /\ phase = "idle"
    /\ ~stopping
    /\ gameTime < MaxTime
    /\ gameTime' = gameTime + 1
    /\ UNCHANGED <<table, object, m_playerLimit, m_disconnects, thread>>

-----------------------------------------------------------------------------
(* Commands, which the world thread runs between two ticks or inside some  *)
(* session's Update, and the end of the server.                            *)

SetPlayerAmountLimit(limit) ==
    /\ phase \in {"idle", "update"}
    /\ ~stopping
    /\ m_playerLimit' = limit
    /\ UNCHANGED <<table, object, m_disconnects, gameTime, thread>>

(* .kick, or any of the handlers that kick a session.                      *)
KickPlayer(a) ==
    /\ phase \in {"idle", "update"}
    /\ m_sessions[a] # null
    /\ ~forceExit[m_sessions[a]]
    /\ KickPlayers({m_sessions[a]})
    /\ UNCHANGED <<table, m_inQueue, realmLogin, player, expireTime, world, thread>>

(* KickAllLess(sec), with Privileged the accounts whose level is at least  *)
(* sec: the queue is not touched.                                          *)
KickAllLess ==
    /\ phase \in {"idle", "update"}
    /\ ~stopping
    /\ KickPlayers({m_sessions[a] : a \in Listed \ Privileged})
    /\ UNCHANGED <<table, m_inQueue, realmLogin, player, expireTime, world, thread>>

(* Main.cpp: the world loop has ended; KickAll, then one UpdateSessions.   *)
KickAll ==
    /\ phase = "idle"
    /\ ~stopping
    /\ m_QueuedPlayer' = << >>
    /\ KickPlayers({m_sessions[a] : a \in Listed})
    /\ stopping' = TRUE
    /\ kicked' = {m_sessions[a] : a \in Listed}
    /\ phase' = "add"
    /\ UNCHANGED <<status, addSessQueue, m_sessions, m_inQueue, realmLogin, player,
                   expireTime, world, toUpdate>>

Stopped == phase = "stopped" /\ UNCHANGED vars

WorldStep ==
    \/ BeginUpdateSessions
    \/ RejectSession
    \/ AcceptSession
    \/ BeginSessionLoop
    \/ \E a \in Account : UpdateSession(a)
    \/ EndUpdateSessions

Next ==
    \/ \E s \in Session : AddSession(s) \/ CloseSocket(s) \/ RealmAccountDataReady(s)
    \/ WorldStep
    \/ UpdateGameTime
    \/ \E limit \in PlayerLimits : SetPlayerAmountLimit(limit)
    \/ \E a \in Account : KickPlayer(a)
    \/ KickAllLess
    \/ KickAll
    \/ Stopped

(* The world thread never stops between two ticks of its own accord, and   *)
(* a database thread gets to every holder in the end.  Nothing is assumed  *)
(* of clients and of commands.                                             *)
Fairness ==
    /\ WF_vars(WorldStep)
    /\ \A s \in Session : WF_vars(RealmAccountDataReady(s))

Spec == Init /\ [][Next]_vars
FairSpec == Spec /\ Fairness

-----------------------------------------------------------------------------
(* Properties.                                                             *)

InTable(s) == m_sessions[AccountOf[s]] = s
Queued == ToSet(m_QueuedPlayer)

(* m_QueuedPlayer holds bare pointers and the sessions are deleted in      *)
(* three places: every queued pointer is the session its account has in    *)
(* the table, and no session waits twice.                                  *)
NoDanglingQueueEntry ==
    /\ \A i \in DOMAIN m_QueuedPlayer : InTable(m_QueuedPlayer[i])
    /\ \A i, j \in DOMAIN m_QueuedPlayer :
          m_QueuedPlayer[i] = m_QueuedPlayer[j] => i = j

(* A session is owned by addSessQueue or by m_sessions, once, from the     *)
(* moment it is handed over until it is deleted: nothing is leaked, freed  *)
(* twice or reachable after its deletion.                                  *)
OneOwner ==
    \A s \in Session :
        LET waiting == {i \in DOMAIN addSessQueue : addSessQueue[i] = s}
        IN  /\ waiting # {} => ~InTable(s) /\ \E i \in waiting : waiting = {i}
            /\ status[s] = "alive" <=> (waiting # {} \/ InTable(s))

(* m_inQueue bars a client from the character list and exempts it from the *)
(* idle kick.  It is set only while the session waits in the queue, or its *)
(* admission is under way, or its socket is closed; and a session in the   *)
(* queue has not been admitted before.                                     *)
InQueueFlagIsJustified ==
    \A a \in Listed :
        LET s == m_sessions[a]
        IN  /\ m_inQueue[s] => \/ s \in Queued
                               \/ realmLogin[s] \in {"pending", "ready"}
                               \/ ~socketOpen[s]
            /\ s \in Queued => m_inQueue[s] /\ realmLogin[s] = "none"

NobodyWaitsForRoom ==
    m_QueuedPlayer # << >> =>
        m_playerLimit > 0 /\ GetActiveSessionCount >= m_playerLimit

(* Every place that becomes free is given to the head of the queue at once:*)
(* when the queue was empty or the server full, it is so after the step,   *)
(* unless the step changes m_playerLimit.                                  *)
QueueOnlyWhenFull ==
    [][NobodyWaitsForRoom /\ m_playerLimit' = m_playerLimit => NobodyWaitsForRoom']_vars

Admitted == {a \in Listed : realmLogin[m_sessions[a]] # "none"}
Admits(s) == realmLogin[s] = "none" /\ realmLogin'[s] = "pending"
Bypasses(s) == AccountOf[s] \in Privileged \/ HasRecentlyDisconnected(s)

Bypassing == {AccountOf[s] : s \in {t \in Session : Admits(t) /\ Bypasses(t)}}

(* A step that admits somebody without a privilege leaves at most          *)
(* m_playerLimit sessions admitted, whatever was replaced, removed or      *)
(* popped in the same step, besides one that the step lets in over the     *)
(* limit: a privileged player who reconnects takes a place, although that  *)
(* of his old session has just been given to the head of the queue.        *)
AdmissionRespectsLimit ==
    [][\A s \in Session :
          Admits(s) => \/ m_playerLimit = 0
                       \/ Bypasses(s)
                       \/ Cardinality(Admitted' \ Bypassing) <= m_playerLimit]_vars

(* The limit is kept and used: it admits nobody beyond it and keeps nobody *)
(* waiting below it.                                                       *)
LimitIsExact == AdmissionRespectsLimit /\ QueueOnlyWhenFull

Before(q, s, t) == \E i, j \in DOMAIN q : i < j /\ q[i] = s /\ q[j] = t

(* Nobody overtakes a session that waits: neither in the queue, nor by     *)
(* being admitted without a privilege, unless a raised limit has left free *)
(* places.                                                                 *)
FirstComeFirstServed ==
    [][\A s \in Session : \A t \in (Queued \intersect Queued') \ {s} :
          \/ Before(m_QueuedPlayer', s, t)
          \/ NobodyWaitsForRoom /\ Admits(s) /\ ~Bypasses(s)
          => Before(m_QueuedPlayer, s, t)]_vars

(* Main.cpp counts on one UpdateSessions after KickAll to unload every     *)
(* player that was connected: none of those sessions is left.              *)
ShutdownEvictsEveryone ==
    phase = "stopped" => \A s \in kicked : status[s] = "deleted"

(* A session whose connection is gone leaves the table.                    *)
LostSessionsLeave ==
    \A s \in Session :
        status[s] = "alive" /\ ~socketOpen[s] ~> status[s] = "deleted" \/ phase = "stopped"

(* An admitted session gets its account data and leaves the waiting state. *)
AdmissionCompletes ==
    \A s \in Session :
        realmLogin[s] = "pending" ~>
            \/ realmLogin[s] = "done" /\ ~m_inQueue[s]
            \/ status[s] = "deleted"
            \/ phase = "stopped"

(* worldserver.conf.dist:380 calls DisconnectToleranceInterval the         *)
(* tolerance, in seconds, for disconnected players before they reenter the *)
(* queue: who skips the queue on that account disconnected within it.      *)
ToleranceIsAnInterval ==
    [][\A s \in Session :
          Admits(s) /\ s \notin Queued /\ AccountOf[s] \notin Privileged
          /\ m_playerLimit > 0 /\ Cardinality(Admitted') > m_playerLimit =>
              gameTime - m_disconnects[AccountOf[s]] <= Tolerance]_vars

=============================================================================
