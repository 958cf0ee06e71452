---------------------------- MODULE Battlegrounds ----------------------------
(****************************************************************************)
(* Battlegrounds: the queue of one battleground type and level bracket, the *)
(* running instances with their counters, and what every player holds of    *)
(* both.  Three records of the same fact must agree: the group in the       *)
(* queue (GroupQueueInfo), the player's own queue slot and battleground      *)
(* (Player::m_bgBattlegroundQueueID, m_bgData), and the instance's numbers   *)
(* of invited and present players.  They are changed by packet handlers,     *)
(* logins, logouts, timers and the updates of the manager.                  *)
(*                                                                          *)
(* Players are cut off at any moment: a logout is possible wherever the     *)
(* player is, in transit included.                                          *)
(*                                                                          *)
(* An operator ending in _Wrong is a defect the properties below are tried  *)
(* against: it would stand in place of the operator it is named after.      *)
(****************************************************************************)
EXTENDS BattlegroundSelection

CONSTANTS
  Alliance, Horde,     \* the players
  MaxBattlegrounds,    \* bound: instances that can exist at a time
  AcceptWait,          \* INVITE_ACCEPT_WAIT_TIME, in ticks
  InvitationTypes,     \* the values BATTLEGROUND.INVITATION_TYPE may be (re)loaded with
  MaxGroupSize,        \* maxGroupSize of the battlemaster's entry
  MaxMishaps           \* bound: logouts and refused teleports in a behaviour

ASSUME BattlegroundConstants ==
  /\ Alliance \cap Horde = {}
  /\ IsFiniteSet(Alliance) /\ IsFiniteSet(Horde)
  /\ MaxBattlegrounds \in Nat \ {0} /\ AcceptWait \in Nat \ {0} /\ MaxMishaps \in Nat
  /\ MaxGroupSize \in 0..MaxPlayersPerTeam
  /\ InvitationTypes \subseteq {NoBalance, Balanced, Even}

VARIABLES
  where,       \* where each player is
  bgId,        \* m_bgData.bgInstanceID of each player, saved with the character
  slot,        \* the player's queue slot: NotQueued, 0, or the instance invited to
  queue,       \* m_QueuedGroups: the premade and the normal list of each team
  bgs,         \* the battlegrounds, by instance
  freeSlots,   \* BGFreeSlotQueue: the battlegrounds that look for players
  timers,      \* m_events: the removal events of the invitations
  scheduled,   \* m_QueueUpdateScheduler holds an update of this queue
  mishaps      \* logouts and refused teleports so far, for the bound

vars == <<where, bgId, slot, queue, bgs, freeSlots, timers, scheduled, mishaps>>

Players   == Alliance \cup Horde
Instances == 1..MaxBattlegrounds
NotQueued == -1
Lists     == {"premade", "normal"} \X Teams

TeamOf(p) == IF p \in Alliance THEN "alliance" ELSE "horde"

Zero == [t \in Teams |-> 0]

\* `lost` is a history, no member of the code's class: the places whose holders
\* were refused the teleport after they had accepted.
NoBattleground ==
  [status |-> "none", invited |-> Zero, count |-> Zero, players |-> {}, offline |-> <<>>,
   lost |-> Zero]

\* What handlers read and write, as one value passed from call to call.
World == [where |-> where, bgId |-> bgId, slot |-> slot, queue |-> queue, bgs |-> bgs,
          freeSlots |-> freeSlots, timers |-> timers, scheduled |-> scheduled, mishaps |-> mishaps]

Becomes(w) ==
  /\ where' = w.where /\ bgId' = w.bgId /\ slot' = w.slot /\ queue' = w.queue
  /\ bgs' = w.bgs /\ freeSlots' = w.freeSlots /\ timers' = w.timers
  /\ scheduled' = w.scheduled /\ mishaps' = w.mishaps

Live(w, i) == i \in Instances /\ w.bgs[i].status # "none"

\* ObjectAccessor::FindConnectedPlayer and FindPlayer (which needs the player in a map)
Connected(w, p) == w.where[p] \in {"outside", "porting", "inside"}
InWorld(w, p)   == w.where[p] \in {"outside", "inside"}

GroupsOf(w)      == UNION {ToSet(w.queue[l]) : l \in Lists}
QueuedPlayers(w) == UNION {g.players : g \in GroupsOf(w)}
GroupOf(w, p)    == CHOOSE g \in GroupsOf(w) : p \in g.players
InvitedTo(w, p)  == IF p \in QueuedPlayers(w) THEN GroupOf(w, p).invited ELSE 0

Init ==
  /\ where = [p \in Players |-> "outside"]
  /\ bgId = [p \in Players |-> 0]
  /\ slot = [p \in Players |-> NotQueued]
  /\ queue = [l \in Lists |-> <<>>]
  /\ bgs = [i \in Instances |-> NoBattleground]
  /\ freeSlots = <<>>
  /\ timers = {}
  /\ scheduled = FALSE
  /\ mishaps = 0

-----------------------------------------------------------------------------
(* What the handlers call                                                   *)

\* BattlegroundQueue::AddGroup and Player::AddBattlegroundQueueId of its members
AddToQueue(w, S, t, kind) ==
  [w EXCEPT !.queue[<<kind, t>>] = Append(@, [players |-> S, team |-> t,
                                              invited |-> 0, left |-> 0]),
            !.slot = [p \in Players |-> IF p \in S THEN 0 ELSE @[p]]]

\* Who accepts keeps the place that the invitation took.
GivesPlaceBack_Wrong(w, i, decrease) == Live(w, i)
GivesPlaceBack(w, i, decrease) == decrease /\ Live(w, i)

\* BattlegroundQueue::RemovePlayer: it looks for the player's group in both lists
\* of the team; a group that is left empty goes too.
RemovePlayer(w, p, decrease) ==
  IF p \notin QueuedPlayers(w) THEN w
  ELSE LET g == GroupOf(w, p)
           Leave(list) == IF g.players = {p} THEN RemoveFirst(list, g)
                          ELSE ReplaceAll(list, g, [g EXCEPT !.players = @ \ {p}])
       IN  [w EXCEPT
              !.queue = [l \in Lists |-> IF l[2] = g.team THEN Leave(@[l]) ELSE @[l]],
              !.bgs = IF GivesPlaceBack(w, g.invited, decrease)
                      THEN [w.bgs EXCEPT ![g.invited].invited[g.team] = @ - 1] ELSE @]

\* AddToBGFreeSlotQueue; m_InBGFreeSlotQueue is whether the battleground is in it.
AddToFreeSlots_Wrong(w, i) == [w EXCEPT !.freeSlots = <<i>> \o @]
AddToFreeSlots(w, i) ==
  IF i \in ToSet(w.freeSlots) THEN w ELSE [w EXCEPT !.freeSlots = <<i>> \o @]

RemoveFromFreeSlots(w, i) == [w EXCEPT !.freeSlots = RemoveFirst(@, i)]

\* Battleground::AddPlayer: the set of players keeps one entry for a player who
\* is there already, the count of the team grows all the same.
AddPlayer(w, i, p) ==
  LET b == w.bgs[i]
  IN  [w EXCEPT !.bgs[i] = [b EXCEPT !.players = @ \cup {p}, !.count[TeamOf(p)] = @ + 1]]

\* Battleground::RemovePlayerAtLeave: only a player who is in a map is found.
RemovePlayerAtLeave(w, i, p) ==
  LET t == TeamOf(p)
      b == w.bgs[i]
      participant == p \in b.players
      w1 == IF ~participant THEN w
            ELSE [w EXCEPT !.bgs[i] = [b EXCEPT !.players = @ \ {p}, !.count[t] = @ - 1,
                                                !.invited[t] = @ - 1],
                           !.slot[p] = IF InWorld(w, p) THEN NotQueued ELSE @]
      w2 == IF participant /\ b.status # "wait_leave"
            THEN [AddToFreeSlots(w1, i) EXCEPT !.scheduled = TRUE] ELSE w1
  IN  IF InWorld(w, p) THEN [w2 EXCEPT !.bgId[p] = 0, !.where[p] = "outside"] ELSE w2

\* EndBattleground and EndNow
End(w, i) == [RemoveFromFreeSlots(w, i) EXCEPT !.bgs[i].status = "wait_leave"]

-----------------------------------------------------------------------------
(* The update of the queue: BattlegroundQueueUpdate                          *)

GetFreeSlotsForTeam(b, t, type) ==
  LET o    == Other(t)
      room == Max({MaxPlayersPerTeam - b.invited[t], 0})
      More(n) == IF n[o] = n[t] THEN 1 ELSE Max({n[o] - n[t], 0})
      entered == IF b.count[o] < b.count[t] /\ b.invited[t] <= MinPlayersPerTeam
                 THEN MinPlayersPerTeam - b.invited[t] + 1
                 ELSE More(b.count)
  IN  IF b.status = "wait_join" /\ type = NoBalance THEN room
      ELSE Min({More(b.invited), room, entered})

\* InviteGroupToBG: every connected member is counted, told and given a timer.
Invited_Wrong(g, i) == [g EXCEPT !.invited = i]
Invited(g, i) == [g EXCEPT !.invited = i, !.left = AcceptWait]

Invite(w, g, i) ==
  LET told == {p \in g.players : Connected(w, p)}
  IN  [w EXCEPT
         !.queue = [l \in Lists |-> ReplaceAll(@[l], g, Invited(g, i))],
         !.bgs[i].invited[g.team] = @ + Cardinality(told),
         !.slot = [p \in Players |-> IF p \in told THEN i ELSE @[p]],
         !.timers = @ \cup {[player |-> p, instance |-> i, left |-> AcceptWait] : p \in told}]

InvitePools(w, pool, i) ==
  FoldLeft(LAMBDA v, g : Invite(v, g, i), w,
           pool["alliance"].groups \o pool["horde"].groups)

Queued(w, kind) == [t \in Teams |-> w.queue[<<kind, t>>]]

\* The loop over the battlegrounds with free places.
LeaveFullBehind(w, i) ==
  IF Cardinality(w.bgs[i].players) < 2 * MaxPlayersPerTeam THEN w
  ELSE RemoveFromFreeSlots(w, i)

FillOne(w, i, type) ==
  LET free == [t \in Teams |-> GetFreeSlotsForTeam(w.bgs[i], t, type)]
  IN  IF w.bgs[i].status \notin {"wait_join", "in_progress"} THEN w
      ELSE LeaveFullBehind(
             InvitePools(w, FillPlayersToBG(free, Queued(w, "normal"), type), i), i)

FillRunning(w, type) == FoldLeft(LAMBDA v, i : FillOne(v, i, type), w, w.freeSlots)

\* CreateNewBattleground, the invitations and StartBattleground.  The instance
\* number is the lowest free one: MapManager reuses numbers.
Unused(w) == {i \in Instances : ~Live(w, i)}
StartWith(w, pool) ==
  LET i == Min(Unused(w))
      created == [w EXCEPT !.bgs[i] = [NoBattleground EXCEPT !.status = "wait_join"]]
  IN  AddToFreeSlots(InvitePools(created, pool, i), i)

\* CheckPremadeMatch without a match: the first group of a premade list goes to
\* the front of the normal list when it has waited too long or has shrunk.
MovePremade(w, expired) ==
  LET Moves(t) == /\ w.queue[<<"premade", t>>] # <<>>
                  /\ LET g == Head(w.queue[<<"premade", t>>])
                     IN  /\ g.invited = 0
                         /\ t \in expired \/ Size(g) < MinPlayersPerTeam
  IN  [w EXCEPT !.queue = [l \in Lists |->
         IF ~Moves(l[2]) THEN @[l]
         ELSE IF l[1] = "premade" THEN Tail(@[l])
         ELSE <<Head(@[<<"premade", l[2]>>])>> \o @[l]]]

\* When no instance is to be had (CreateNewBattleground returns null), the
\* update ends there.
StartNormal(w, pool, type) ==
  IF NormalMatch(pool, type) /\ Unused(w) # {} THEN StartWith(w, pool) ELSE w

CheckNormal(w, type) == StartNormal(w, NormalPools(Queued(w, "normal"), type), type)

CheckMatches(w, premade, type, expired) ==
  IF ~PremadeMatch(premade) THEN CheckNormal(MovePremade(w, expired), type)
  ELSE IF Unused(w) = {} THEN w
  ELSE CheckNormal(StartWith(w, PremadePools(premade, Queued(w, "normal"))), type)

CheckFilled(w, type, expired) == CheckMatches(w, Queued(w, "premade"), type, expired)

UpdateQueue(w, type, expired) ==
  IF \A l \in Lists : w.queue[l] = <<>> THEN w
  ELSE CheckFilled(FillRunning(w, type), type, expired)

-----------------------------------------------------------------------------
(* Packets of the players                                                   *)

\* HandleBattlemasterJoinOpcode, alone
Join(p) ==
  /\ where[p] = "outside" /\ bgId[p] = 0 /\ slot[p] = NotQueued
  /\ Becomes([AddToQueue(World, {p}, TeamOf(p), "normal") EXCEPT !.scheduled = TRUE])

\* The same with a group of one team, all of it connected and in no queue; a
\* group that can fill a team counts as premade.
JoinAsGroup(leader, S) ==
  /\ where[leader] = "outside" /\ bgId[leader] = 0
  /\ leader \in S /\ Cardinality(S) \in 2..MaxGroupSize
  /\ \A p \in S : /\ TeamOf(p) = TeamOf(leader)
                  /\ Connected(World, p) /\ slot[p] = NotQueued
  /\ LET kind == IF Cardinality(S) >= MinPlayersPerTeam THEN "premade" ELSE "normal"
     IN  Becomes([AddToQueue(World, S, TeamOf(leader), kind) EXCEPT !.scheduled = TRUE])

\* A group that may not join: an update is scheduled nevertheless.
JoinRefused(leader) ==
  /\ where[leader] = "outside" /\ bgId[leader] = 0
  /\ Becomes([World EXCEPT !.scheduled = TRUE])

\* HandleBattleFieldPortOpcode, action 1: the invitation is used up before the
\* teleport is known to succeed, and a refused teleport loses the place.
AcceptPort(p, teleported) ==
  LET i  == InvitedTo(World, p)
      w1 == RemovePlayer(World, p, FALSE)
      w2 == IF bgId[p] # 0 /\ Live(w1, bgId[p]) THEN RemovePlayerAtLeave(w1, bgId[p], p)
            ELSE w1
  IN  /\ InWorld(World, p)
      /\ Live(World, i)
      /\ slot[p] \notin {NotQueued, 0}
      /\ teleported \/ mishaps < MaxMishaps
      /\ Becomes(IF teleported
                 THEN [w2 EXCEPT !.bgId[p] = i, !.where[p] = "porting"]
                 ELSE [w2 EXCEPT !.bgId[p] = i, !.bgs[i].lost[TeamOf(p)] = @ + 1,
                                 !.mishaps = @ + 1])

\* The same with action 0; also what becomes of action 1 for a deserter or a
\* player who has outgrown the bracket.
LeaveQueue(p) ==
  /\ InWorld(World, p)
  /\ slot[p] # NotQueued /\ p \in QueuedPlayers(World)
  /\ LET w == [World EXCEPT !.slot[p] = NotQueued]
     IN  Becomes([RemovePlayer(w, p, TRUE) EXCEPT !.scheduled = TRUE])

\* HandleMoveWorldportAck into the battleground: who is invited to it is added.
Arrive_Wrong(w, p) == [w EXCEPT !.where[p] = "inside"]
Arrive(w, p) ==
  LET i  == w.bgId[p]
      in == [w EXCEPT !.where[p] = "inside"]
  IN  IF ~Live(w, i) THEN [w EXCEPT !.where[p] = "outside", !.bgId[p] = 0]
      ELSE IF w.slot[p] = i THEN AddPlayer(in, i, p) ELSE in

EnterBattleground(p) == where[p] = "porting" /\ Becomes(Arrive(World, p))

\* HandleBattlefieldLeaveOpcode, and any teleport out of the battleground's map
LeaveBattleground(p) ==
  /\ InWorld(World, p) /\ Live(World, bgId[p])
  /\ Becomes(RemovePlayerAtLeave(World, bgId[p], p))

-----------------------------------------------------------------------------
(* Logout and login                                                         *)

\* Battleground::EventPlayerLoggedOut
LogOutOf(w, i, p) ==
  IF Live(w, i) /\ p \in w.bgs[i].players
  THEN [w EXCEPT !.bgs[i].offline = Append(@, p)] ELSE w

IsQueued_Wrong(w, p) == w.slot[p] \notin {NotQueued, 0}
IsQueued(w, p) == w.slot[p] # NotQueued

\* WorldSession::LogoutPlayer: a teleport under way is finished first, the
\* battleground is told, and then the player leaves the queue (no update is
\* scheduled).
Logout(p) ==
  LET w0 == IF where[p] = "porting" THEN Arrive(World, p) ELSE World
      w1 == LogOutOf(w0, w0.bgId[p], p)
      w2 == IF IsQueued(w1, p) THEN RemovePlayer([w1 EXCEPT !.slot[p] = NotQueued], p, TRUE)
            ELSE w1
  IN  /\ Connected(World, p) /\ mishaps < MaxMishaps
      /\ Becomes([w2 EXCEPT !.mishaps = @ + 1,
                            !.where[p] = IF @ = "inside" THEN "offline_inside" ELSE "offline"])

\* EventPlayerLoggedIn
WithoutOffline_Wrong(offline, p) == offline
WithoutOffline(offline, p) == RemoveFirst(offline, p)

\* Player::LoadFromDB of a character saved in the map of a battleground:
\* EventPlayerLoggedIn and AddPlayer while the battle goes on, else out of it.
LoginInside(p) ==
  LET i == bgId[p]
      member == Live(World, i) /\ p \in bgs[i].players
      returns == member /\ bgs[i].status # "wait_leave"
      back == [World EXCEPT !.slot[p] = i,
                            !.bgs[i].offline = WithoutOffline(@, p),
                            !.where[p] = "inside"]
      left == IF member THEN RemovePlayerAtLeave(World, i, p) ELSE World
  IN  /\ where[p] = "offline_inside"
      /\ Becomes(IF returns THEN AddPlayer(back, i, p)
                 ELSE [left EXCEPT !.bgId[p] = 0, !.where[p] = "outside"])

Login(p) ==
  \/ /\ where[p] = "offline"
     /\ Becomes([World EXCEPT !.where[p] = "outside"])
  \/ LoginInside(p)

-----------------------------------------------------------------------------
(* The manager                                                              *)

\* _ProcessOfflineQueue, when the head of the queue has been away long enough
RemoveOffline(w, i) ==
  LET p == Head(w.bgs[i].offline)
  IN  IF w.bgs[i].offline = <<>> \/ p \notin w.bgs[i].players THEN w
      ELSE [RemovePlayerAtLeave(w, i, p) EXCEPT !.bgs[i].offline = Tail(@)]

\* Battleground::Update.  `overdue`: whether the time of this status is over,
\* `away`: whether the head of the offline queue's is.
UpdateBattleground(i, overdue, away) ==
  LET b == bgs[i]
      swept == IF away THEN RemoveOffline(World, i) ELSE World
      tooFew == \E t \in Teams : swept.bgs[i].count[t] < MinPlayersPerTeam
  IN  /\ Live(World, i)
      /\ \/ /\ b.players = {} /\ b.invited = Zero      \* deleted
            /\ Becomes([RemoveFromFreeSlots(World, i) EXCEPT !.bgs[i] = NoBattleground])
         \/ /\ b.players # {} /\ b.status = "wait_join" /\ overdue
            /\ Becomes([World EXCEPT !.bgs[i].status = "in_progress"])
         \/ /\ b.players # {} /\ b.status = "wait_join"  \* no map, or no setup
            /\ Becomes(End(World, i))
         \/ /\ b.players # {} /\ b.status = "in_progress"
            /\ Becomes(IF overdue /\ tooFew THEN End(swept, i) ELSE swept)
         \/ /\ b.players # {} /\ b.status = "wait_leave" /\ overdue
            /\ Becomes(FoldSet(LAMBDA p, w : RemovePlayerAtLeave(w, i, p), World, b.players))

\* EndBattleground by the script of the battleground: one team has won
Win(i) == bgs[i].status = "in_progress" /\ Becomes(End(World, i))

\* IsPlayerInvited: the player still has the invitation the event was made for.
IsPlayerInvited_Wrong(w, e) ==
  e.player \in QueuedPlayers(w) /\ GroupOf(w, e.player).invited = e.instance
IsPlayerInvited(w, e) ==
  /\ e.player \in QueuedPlayers(w)
  /\ GroupOf(w, e.player).invited = e.instance
  /\ GroupOf(w, e.player).left = e.left

\* BGQueueRemoveEvent::Execute
RemoveInvited(w, e) ==
  LET p == e.player
      i == e.instance
      w1 == RemovePlayer([w EXCEPT !.slot[p] = NotQueued], p, TRUE)
  IN  IF ~Connected(w, p) \/ w.slot[p] = NotQueued \/ ~IsPlayerInvited(w, e) THEN w
      ELSE [w1 EXCEPT !.scheduled = @ \/ (Live(w, i) /\ w.bgs[i].status # "wait_leave")]

\* UpdateEvents: time passes, then the timers that are due run.
RunTimers(w) ==
  LET Elapse(g) == [g EXCEPT !.left = IF g.invited = 0 THEN @ ELSE Max({@ - 1, 0})]
      later == {[e EXCEPT !.left = @ - 1] : e \in w.timers}
      due   == {e \in later : e.left = 0}
      w1    == [w EXCEPT !.queue = [l \in Lists |-> [k \in DOMAIN @[l] |-> Elapse(@[l][k])]],
                         !.timers = later \ due]
  IN  FoldSet(LAMBDA e, v : RemoveInvited(v, e), w1, due)

\* BattlegroundMgr::Update after the battlegrounds' own: events, then the
\* scheduled update, with the invitation type of the moment.  `expired`: the
\* teams whose first premade group has waited too long.
Tick ==
  LET w == RunTimers(World)
  IN  IF ~w.scheduled THEN Becomes(w)
      ELSE \E type \in InvitationTypes :
             \E expired \in SUBSET {t \in Teams : w.queue[<<"premade", t>>] # <<>>} :
               Becomes(UpdateQueue([w EXCEPT !.scheduled = FALSE], type, expired))

Next ==
  \/ \E p \in Players : \/ Join(p) \/ JoinRefused(p)
                        \/ \E teleported \in BOOLEAN : AcceptPort(p, teleported)
                        \/ LeaveQueue(p) \/ EnterBattleground(p) \/ LeaveBattleground(p)
                        \/ Logout(p) \/ Login(p)
  \/ \E leader \in Players : \E S \in SUBSET Players : JoinAsGroup(leader, S)
  \/ \E i \in Instances : \/ \E overdue, away \in BOOLEAN : UpdateBattleground(i, overdue, away)
                          \/ Win(i)
  \/ Tick

Spec == Init /\ [][Next]_vars

-----------------------------------------------------------------------------
(* Properties                                                               *)

Group == [players : (SUBSET Players) \ {{}}, team : Teams, invited : 0..MaxBattlegrounds,
          left : 0..AcceptWait]

TypeOK ==
  /\ where \in [Players -> {"outside", "porting", "inside", "offline", "offline_inside"}]
  /\ bgId \in [Players -> 0..MaxBattlegrounds]
  /\ slot \in [Players -> {NotQueued} \cup 0..MaxBattlegrounds]
  /\ queue \in [Lists -> Seq(Group)]
  /\ bgs \in [Instances -> [status : {"none", "wait_join", "in_progress", "wait_leave"},
                            invited : [Teams -> Nat], count : [Teams -> Nat],
                            players : SUBSET Players, offline : Seq(Players),
                            lost : [Teams -> Nat]]]
  /\ freeSlots \in Seq(Instances)
  /\ timers \subseteq [player : Players, instance : Instances, left : 1..AcceptWait]
  /\ scheduled \in BOOLEAN
  /\ mishaps \in 0..MaxMishaps

\* Those who hold a place of a battleground: invited, on the way, or in it.
Holders(i, t) ==
  {p \in Players : /\ TeamOf(p) = t
                   /\ \/ InvitedTo(World, p) = i
                      \/ where[p] = "porting" /\ bgId[p] = i
                      \/ p \in bgs[i].players}

\* A place is counted for everyone who holds one, so that the battleground is not
\* deleted under them (Update deletes it at zero), and for nobody else, so that
\* it can be deleted: leaves, refusals, timers and logouts each give one place
\* back.  Only a refused teleport does not.  Nobody is invited beyond the size of
\* a team.
PlacesAreCounted ==
  \A i \in Instances, t \in Teams :
    /\ bgs[i].invited[t] = Cardinality(Holders(i, t)) + bgs[i].lost[t]
    /\ bgs[i].invited[t] <= MaxPlayersPerTeam

\* The queue and the players' own slots agree: every queued player is connected,
\* in one group of one list, that of the team, and the slot names the instance
\* the group is invited to (AcceptPort compares them).
QueueAgreesWithSlots ==
  /\ \A p \in QueuedPlayers(World) :
       /\ Connected(World, p)
       /\ slot[p] = GroupOf(World, p).invited
  /\ \A l, m \in Lists : \A k \in DOMAIN queue[l], n \in DOMAIN queue[m] :
       /\ queue[l][k].team = l[2]
       /\ queue[l][k].players \cap queue[m][n].players # {} => l = m /\ k = n

\* While a battle goes on its offline queue holds those players of it who are
\* offline, each once: a player missing there is never removed, and a stale
\* entry at the head would stop the queue for good.
OfflineQueueIsExact ==
  \A i \in Instances :
    bgs[i].status \in {"wait_join", "in_progress"} =>
      /\ IsInjective(bgs[i].offline)
      /\ ToSet(bgs[i].offline) = {p \in bgs[i].players : ~Connected(World, p)}

\* The free-slot queue, whose entries are pointers, holds no deleted or ended
\* battleground, none twice, and every battleground that still has room.
FreeSlotsAreExact ==
  /\ IsInjective(freeSlots)
  /\ \A i \in ToSet(freeSlots) : bgs[i].status \in {"wait_join", "in_progress"}
  /\ \A i \in Instances : /\ bgs[i].status \in {"wait_join", "in_progress"}
                          /\ Cardinality(bgs[i].players) < 2 * MaxPlayersPerTeam
                          => i \in ToSet(freeSlots)

\* An invited player has exactly one timer that will take this invitation back:
\* no place stays promised for ever, whatever the player did before.
TimersAreExact ==
  \A p \in QueuedPlayers(World) :
    LET g == GroupOf(World, p)
    IN  g.invited # 0 =>
          g.left > 0 /\ [player |-> p, instance |-> g.invited, left |-> g.left] \in timers

\* Timers of earlier invitations do not cut a later one short: when time passes
\* an invitation is taken back only if its own time is over.
InvitationsLast ==
  [][\A p \in QueuedPlayers(World) :
       timers' # timers /\ GroupOf(World, p).invited # 0 /\ GroupOf(World, p).left > 1 =>
         slot'[p] = slot[p]]_vars

\* "Players count by team" (Battleground.h): m_PlayersCount is the number of
\* players of the team in m_Players.
PlayersCountIsExact ==
  \A i \in Instances, t \in Teams :
    bgs[i].count[t] = Cardinality({p \in bgs[i].players : TeamOf(p) = t})
=============================================================================
