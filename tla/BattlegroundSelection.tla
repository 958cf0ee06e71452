------------------------- MODULE BattlegroundSelection -------------------------
(****************************************************************************)
(* How BattlegroundQueue chooses the groups to invite: the two selection     *)
(* pools (one per team), FillPlayersToBG for a battleground that has begun,  *)
(* CheckPremadeMatch and CheckNormalMatch for a new one.  Pure functions of   *)
(* the queued groups; module Battlegrounds calls them and invites.           *)
(*                                                                          *)
(* A queued group (GroupQueueInfo) is a record with the set of its players,  *)
(* its team, the instance it is invited to (0: none) and how long that       *)
(* invitation still stands.  m_QueuedPlayers maps a player to the group whose *)
(* set holds it: the code changes both together.                             *)
(****************************************************************************)
EXTENDS Integers, SequencesExt

CONSTANTS MinPlayersPerTeam, MaxPlayersPerTeam   \* of the battleground's template

ASSUME TeamSizes == /\ MinPlayersPerTeam \in Nat \ {0}
                    /\ MaxPlayersPerTeam \in Nat
                    /\ MinPlayersPerTeam <= MaxPlayersPerTeam

Teams == {"alliance", "horde"}
Other(t) == CHOOSE o \in Teams : o # t

\* BATTLEGROUND.INVITATION_TYPE in the configuration
NoBalance == 0
Balanced  == 1
Even      == 2

Distance(a, b) == Max({a - b, b - a})
Size(g) == Cardinality(g.players)

\* A selection pool, with the position in the list of groups it is filled from.
EmptyPool == [groups |-> <<>>, count |-> 0, next |-> 1, full |-> FALSE]

-----------------------------------------------------------------------------
(* SelectionPool                                                            *)

Fits(pool, g, desired) == g.invited = 0 /\ desired >= pool.count + Size(g)

AddGroup(pool, g, desired) ==
  IF Fits(pool, g, desired)
  THEN [pool EXCEPT !.groups = Append(@, g), !.count = @ + Size(g)]
  ELSE pool

\* AddGroup's result: FALSE once the pool is full
MayAddMore(pool, g, desired) == Fits(pool, g, desired) \/ pool.count < desired

\* The loops `for (; index < count && pool.AddGroup(*itr, desired); index++)`:
\* they stop at the group that finds the pool full and can go on from there.
\* The loops for a new match pass over the groups that are invited already.
AddGroups(pool, list, desired, passInvited) ==
  LET Try(s, g) == IF s.full THEN s
                   ELSE IF (passInvited /\ g.invited # 0) \/ MayAddMore(s, g, desired)
                        THEN [AddGroup(s, g, desired) EXCEPT !.next = @ + 1]
                        ELSE [s EXCEPT !.full = TRUE]
  IN  FoldLeft(Try, [pool EXCEPT !.full = FALSE], SubSeq(list, pool.next, Len(list)))

\* The group KickGroup takes: the last one of about that size, else the last
\* of the largest ones.
ToKick(pool, size) ==
  LET sizes == [k \in DOMAIN pool.groups |-> Size(pool.groups[k])]
      close == {k \in DOMAIN sizes : Distance(sizes[k], size) <= 1}
  IN  IF close # {} THEN Max(close)
      ELSE Max({k \in DOMAIN sizes : \A j \in DOMAIN sizes : sizes[j] <= sizes[k]})

KickGroup(pool, size) ==
  IF pool.count = 0 THEN pool
  ELSE LET k == ToKick(pool, size)
       IN  [pool EXCEPT !.groups = RemoveAt(@, k),
                        !.count  = @ - Size(pool.groups[k])]

\* KickGroup's result: TRUE when the caller should look for other groups
KickedTooMany(pool, size) ==
  pool.count = 0 \/ Size(pool.groups[ToKick(pool, size)]) > size + 1

-----------------------------------------------------------------------------
(* FillPlayersToBG                                                          *)

\* With EVEN and one free place on both sides, only as many may join as have
\* a counterpart in the other queue.
PlacesToFill(free, list, type) ==
  IF type = Even /\ \A t \in Teams : free[t] = 1
  THEN [t \in Teams |->
          Max({free[t] - Max({Len(list[t]) - Len(list[Other(t)]), 0}), 0})]
  ELSE free

\* One cycle of the balancing loop: the side with fewer free places left gives
\* up a group and may take others; if it has none left the other side gives
\* one up, unless that side may be ahead by its free places.
GiveUpGroup(pool, gap, list, desired) ==
  IF KickedTooMany(pool, gap) THEN AddGroups(KickGroup(pool, gap), list, desired, FALSE)
  ELSE KickGroup(pool, gap)

AfterKick(s, few, mine, left, gap) ==
  LET pools == [s.pool EXCEPT ![few] = mine]
  IN  IF mine.count # 0 THEN [s EXCEPT !.pool = pools]
      ELSE IF s.free[few] <= left + 1 THEN [s EXCEPT !.pool = pools, !.done = TRUE]
      ELSE [s EXCEPT !.pool = [pools EXCEPT ![Other(few)] = KickGroup(@, gap)]]

BalanceSides(s, few, diff, list) ==
  LET left == diff[Other(few)]
      gap  == left - diff[few]
  IN  AfterKick(s, few, GiveUpGroup(s.pool[few], gap, list[few], Max({s.free[few] - left, 0})),
                left, gap)

BalanceBy(s, diff, list) ==
  IF \/ s.done \/ Distance(diff["alliance"], diff["horde"]) <= 1
     \/ \A t \in Teams : s.pool[t].count = 0
  THEN [s EXCEPT !.done = TRUE]
  ELSE BalanceSides(s, IF diff["alliance"] < diff["horde"] THEN "alliance" ELSE "horde",
                    diff, list)

BalanceCycle(s, list) ==
  BalanceBy(s, [t \in Teams |-> s.free[t] - s.pool[t].count], list)

\* Every cycle kicks a group or moves on in a list, so that many cycles suffice.
Balance(pool, free, list) ==
  LET cycles == [k \in 1..(2 * (Len(list["alliance"]) + Len(list["horde"])) + 1) |-> k]
      Cycle(s, k) == BalanceCycle(s, list)
  IN  FoldLeft(Cycle, [pool |-> pool, free |-> free, done |-> FALSE], cycles).pool

\* The pools FillPlayersToBG ends with, for the free places of each team and
\* the normal lists of the queue.
FillPlayersToBG(free, list, type) ==
  LET places == PlacesToFill(free, list, type)
      pool   == [t \in Teams |-> AddGroups(EmptyPool, list[t], places[t], FALSE)]
  IN  IF type = NoBalance THEN pool ELSE Balance(pool, places, list)

-----------------------------------------------------------------------------
(* CheckPremadeMatch and CheckNormalMatch                                   *)

FirstWaiting(list) == SelectInSeq(list, LAMBDA g : g.invited = 0)

\* Both premade lists have a group that is not invited yet.
PremadeMatch(premade) == \A t \in Teams : FirstWaiting(premade[t]) # 0

\* Its pools: the two premade groups, then groups of the normal lists up to
\* the size of the smaller one.
PremadePools(premade, normal) ==
  LET first == [t \in Teams |-> AddGroup(EmptyPool, premade[t][FirstWaiting(premade[t])],
                                         MaxPlayersPerTeam)]
      room  == Min({first[t].count : t \in Teams})
  IN  [t \in Teams |-> AddGroups(first[t], normal[t], room, TRUE)]

\* The first loop of CheckNormalMatch: groups are added until there are enough
\* players; `next` is then the position after the group that made them enough.
EnoughPlayers(list) ==
  LET Try(s, g) == IF s.count >= MinPlayersPerTeam THEN s
                   ELSE [AddGroup(s, g, MaxPlayersPerTeam) EXCEPT !.next = @ + 1]
  IN  FoldLeft(Try, EmptyPool, list)

\* With enough on both sides the smaller one is filled up to the other.
LevelTo(pool, few, list) ==
  [pool EXCEPT ![few] = AddGroups(@, list, pool[Other(few)].count, TRUE)]

Levelled(pool, normal, type) ==
  LET few == IF pool["horde"].count < pool["alliance"].count THEN "horde" ELSE "alliance"
  IN  IF type # NoBalance /\ \A t \in Teams : pool[t].count >= MinPlayersPerTeam
      THEN LevelTo(pool, few, normal[few])
      ELSE pool

NormalPools(normal, type) == Levelled([t \in Teams |-> EnoughPlayers(normal[t])], normal, type)

\* CheckNormalMatch's result: enough players on both sides, and (unless teams
\* need no balance) at most two players more on one of them.
NormalMatch(pool, type) ==
  /\ \A t \in Teams : pool[t].count >= MinPlayersPerTeam
  /\ type = NoBalance \/ Distance(pool["alliance"].count, pool["horde"].count) <= 2
=============================================================================
