------------------------ MODULE Battlegrounds_proofs ------------------------
(***************************************************************************)
(* Theorems about Battlegrounds, for any finite teams, any number of       *)
(* instances, any sizes of the teams and any time to accept: places are    *)
(* counted, the queue agrees with what the players know of it, the offline *)
(* queues and the list of instances with free places are exact, and every  *)
(* invitation has its timer and stands until its time is over.             *)
(*                                                                         *)
(* The state is read as one value, World, as the handlers of the module    *)
(* do.  Inv(w) is the invariant of such a value, and to each function of   *)
(* the module belongs a lemma that says what it changes (...Effect) or     *)
(* that it keeps the invariant (...Keeps).  At the end each action is one  *)
(* of these functions (...Inv).                                            *)
(***************************************************************************)
EXTENDS Battlegrounds, DataFacts

(* The types of the state and of its parts.                                *)
Statuses == {"none", "wait_join", "in_progress", "wait_leave"}
Places   == {"outside", "porting", "inside", "offline", "offline_inside"}

Battleground == [status : Statuses, invited : [Teams -> Int], count : [Teams -> Int],
                 players : SUBSET Players, offline : Seq(Players), lost : [Teams -> Nat]]
Timer == [player : Players, instance : Instances, left : 0..AcceptWait]

Worlds == [where : [Players -> Places], bgId : [Players -> 0..MaxBattlegrounds],
           slot : [Players -> {NotQueued} \cup 0..MaxBattlegrounds],
           queue : [Lists -> Seq(Group)], bgs : [Instances -> Battleground],
           freeSlots : Seq(Instances), timers : SUBSET Timer, scheduled : BOOLEAN,
           mishaps : 0..MaxMishaps]

-----------------------------------------------------------------------------
(* What the helpers change.                                                *)

LEMMA TeamOfType == ASSUME NEW p PROVE TeamOf(p) \in Teams
  BY DEF TeamOf, Teams

LEMMA WorldFields ==
    ASSUME NEW w \in Worlds
    PROVE  /\ w.where \in [Players -> Places] /\ w.bgId \in [Players -> 0..MaxBattlegrounds]
           /\ w.slot \in [Players -> {NotQueued} \cup 0..MaxBattlegrounds]
           /\ w.queue \in [Lists -> Seq(Group)] /\ w.bgs \in [Instances -> Battleground]
           /\ w.freeSlots \in Seq(Instances) /\ w.timers \in SUBSET Timer
           /\ w.scheduled \in BOOLEAN /\ w.mishaps \in 0..MaxMishaps
  BY DEF Worlds

LEMMA BattlegroundFields ==
    ASSUME NEW b \in Battleground
    PROVE  /\ b.status \in Statuses /\ b.invited \in [Teams -> Int] /\ b.count \in [Teams -> Int]
           /\ b.players \in SUBSET Players /\ b.offline \in Seq(Players)
           /\ b.lost \in [Teams -> Nat]
  BY DEF Battleground

(* One battleground replaced.                                              *)
PutBg(w, i, b) == [w EXCEPT !.bgs[i] = b]

LEMMA PutBgEffect ==
    ASSUME NEW w \in Worlds, NEW i \in Instances, NEW b \in Battleground
    PROVE  LET v == PutBg(w, i, b)
           IN  /\ v \in Worlds
               /\ v.where = w.where /\ v.bgId = w.bgId /\ v.slot = w.slot /\ v.queue = w.queue
               /\ v.freeSlots = w.freeSlots /\ v.timers = w.timers
               /\ v.scheduled = w.scheduled /\ v.mishaps = w.mishaps
               /\ v.bgs = [w.bgs EXCEPT ![i] = b]
  BY DEF PutBg, Worlds

With(old, p, b) ==
  /\ b.status = old.status /\ b.offline = old.offline
  /\ b.invited = old.invited /\ b.lost = old.lost
  /\ b.players = old.players \cup {p}
  /\ b.count = [old.count EXCEPT ![TeamOf(p)] = @ + 1]

LEMMA AddPlayerEffect ==
    ASSUME NEW w \in Worlds, NEW i \in Instances, NEW p \in Players
    PROVE  \E b \in Battleground :
             AddPlayer(w, i, p) = PutBg(w, i, b) /\ With(w.bgs[i], p, b)
<1> DEFINE b == [w.bgs[i] EXCEPT !.players = @ \cup {p}, !.count[TeamOf(p)] = @ + 1]
<1>0. w.bgs \in [Instances -> Battleground] /\ w.bgs[i] \in Battleground
  BY WorldFields
<1>1. TeamOf(p) \in Teams
  BY TeamOfType
<1>2. b \in Battleground
  <2>1. [w.bgs[i].count EXCEPT ![TeamOf(p)] = @ + 1] \in [Teams -> Int]
    BY <1>0, <1>1 DEF Battleground
  <2>2. w.bgs[i].players \cup {p} \in SUBSET Players
    BY <1>0 DEF Battleground
  <2>3. QED BY <1>0, <2>1, <2>2 DEF Battleground
<1>3. /\ b.status = w.bgs[i].status /\ b.offline = w.bgs[i].offline
      /\ b.invited = w.bgs[i].invited /\ b.lost = w.bgs[i].lost
      /\ b.players = w.bgs[i].players \cup {p}
      /\ b.count = [w.bgs[i].count EXCEPT ![TeamOf(p)] = @ + 1]
  BY <1>0, <1>1 DEF Battleground
<1>4. AddPlayer(w, i, p) = PutBg(w, i, b)
  BY DEF AddPlayer, PutBg
<1>5. QED
  BY <1>2, <1>3, <1>4 DEF With

LEMMA AddToFreeSlotsEffect ==
    ASSUME NEW w \in Worlds, NEW i \in Instances
    PROVE  LET v == AddToFreeSlots(w, i)
           IN  /\ v \in Worlds
               /\ v.where = w.where /\ v.bgId = w.bgId /\ v.slot = w.slot /\ v.queue = w.queue
               /\ v.bgs = w.bgs /\ v.timers = w.timers
               /\ v.scheduled = w.scheduled /\ v.mishaps = w.mishaps
               /\ ToSet(v.freeSlots) = ToSet(w.freeSlots) \cup {i}
               /\ IsInjective(w.freeSlots) => IsInjective(v.freeSlots)
<1>1. w.freeSlots \in Seq(Instances)
  BY WorldFields
<1>2. CASE i \in ToSet(w.freeSlots)
  BY <1>2 DEF AddToFreeSlots
<1>3. CASE i \notin ToSet(w.freeSlots)
  <2> DEFINE s == <<i>> \o w.freeSlots
  <2>1. /\ s \in Seq(Instances) /\ ToSet(s) = ToSet(w.freeSlots) \cup {i}
        /\ IsInjective(w.freeSlots) => IsInjective(s)
    BY <1>1, <1>3, ConsLemma
  <2>2. AddToFreeSlots(w, i) = [w EXCEPT !.freeSlots = s]
    BY <1>3 DEF AddToFreeSlots
  <2> HIDE DEF s
  <2>3. QED
    BY <2>1, <2>2 DEF Worlds
<1>4. QED
  BY <1>2, <1>3

LEMMA RemoveFromFreeSlotsEffect ==
    ASSUME NEW w \in Worlds, NEW i \in Instances
    PROVE  LET v == RemoveFromFreeSlots(w, i)
           IN  /\ v \in Worlds
               /\ v.where = w.where /\ v.bgId = w.bgId /\ v.slot = w.slot /\ v.queue = w.queue
               /\ v.bgs = w.bgs /\ v.timers = w.timers
               /\ v.scheduled = w.scheduled /\ v.mishaps = w.mishaps
               /\ IsInjective(w.freeSlots) => /\ IsInjective(v.freeSlots)
                                              /\ ToSet(v.freeSlots) = ToSet(w.freeSlots) \ {i}
<1> DEFINE s == RemoveFirst(w.freeSlots, i)
<1>1. /\ s \in Seq(Instances)
      /\ IsInjective(w.freeSlots) => /\ IsInjective(s)
                                     /\ ToSet(s) = ToSet(w.freeSlots) \ {i}
  BY WorldFields, RemoveFirstSet
<1>2. RemoveFromFreeSlots(w, i) = [w EXCEPT !.freeSlots = s]
  BY DEF RemoveFromFreeSlots
<1> HIDE DEF s
<1>3. QED
  BY <1>1, <1>2 DEF Worlds

(* The end of a battle: its status, and no longer in the free-slot queue.  *)
LEMMA EndEffect ==
    ASSUME NEW w \in Worlds, NEW i \in Instances
    PROVE  LET v == End(w, i)
           IN  /\ v \in Worlds
               /\ v.where = w.where /\ v.bgId = w.bgId /\ v.slot = w.slot /\ v.queue = w.queue
               /\ v.timers = w.timers /\ v.scheduled = w.scheduled /\ v.mishaps = w.mishaps
               /\ v.bgs = [w.bgs EXCEPT ![i] = [w.bgs[i] EXCEPT !.status = "wait_leave"]]
               /\ v.bgs[i].status = "wait_leave"
               /\ v.bgs[i].players = w.bgs[i].players /\ v.bgs[i].offline = w.bgs[i].offline
               /\ v.bgs[i].invited = w.bgs[i].invited /\ v.bgs[i].count = w.bgs[i].count
               /\ v.bgs[i].lost = w.bgs[i].lost
               /\ IsInjective(w.freeSlots) => /\ IsInjective(v.freeSlots)
                                              /\ ToSet(v.freeSlots) = ToSet(w.freeSlots) \ {i}
<1> DEFINE u == RemoveFromFreeSlots(w, i)
           b == [w.bgs[i] EXCEPT !.status = "wait_leave"]
<1>1. /\ u \in Worlds
      /\ u.where = w.where /\ u.bgId = w.bgId /\ u.slot = w.slot /\ u.queue = w.queue
      /\ u.bgs = w.bgs /\ u.timers = w.timers
      /\ u.scheduled = w.scheduled /\ u.mishaps = w.mishaps
      /\ IsInjective(w.freeSlots) => /\ IsInjective(u.freeSlots)
                                     /\ ToSet(u.freeSlots) = ToSet(w.freeSlots) \ {i}
  BY RemoveFromFreeSlotsEffect
<1>2. w.bgs \in [Instances -> Battleground] /\ w.bgs[i] \in Battleground
  BY WorldFields
<1>3. /\ b \in Battleground /\ b.status = "wait_leave"
      /\ b.players = w.bgs[i].players /\ b.offline = w.bgs[i].offline
      /\ b.invited = w.bgs[i].invited /\ b.count = w.bgs[i].count
      /\ b.lost = w.bgs[i].lost
  BY <1>2 DEF Battleground, Statuses
<1>4. End(w, i) = [u EXCEPT !.bgs[i] = b]
  BY <1>1 DEF End
<1> HIDE DEF u, b
<1>5. End(w, i) = PutBg(u, i, b)
  BY <1>4 DEF PutBg
<1> DEFINE v == PutBg(u, i, b)
<1>6. /\ v \in Worlds
      /\ v.where = u.where /\ v.bgId = u.bgId /\ v.slot = u.slot /\ v.queue = u.queue
      /\ v.freeSlots = u.freeSlots /\ v.timers = u.timers
      /\ v.scheduled = u.scheduled /\ v.mishaps = u.mishaps
      /\ v.bgs = [u.bgs EXCEPT ![i] = b]
  BY <1>1, <1>3, PutBgEffect
<1>7. v.bgs[i] = b
  BY <1>1, <1>2, <1>6
<1> HIDE DEF v
<1>8. QED
  BY <1>1, <1>3, <1>5, <1>6, <1>7 DEF b, v

(* Who leaves a battleground: gone from its numbers if in it, and out of   *)
(* its map if in the world.                                                *)
Leaver(w, i, p) ==
  [w.bgs[i] EXCEPT !.players = @ \ {p}, !.count[TeamOf(p)] = @ - 1, !.invited[TeamOf(p)] = @ - 1]

Without(old, p, b) ==
  /\ b \in Battleground /\ b.status = old.status /\ b.lost = old.lost
  /\ b.players = old.players \ {p}
  /\ b.count = [old.count EXCEPT ![TeamOf(p)] = @ - 1]
  /\ b.invited = [old.invited EXCEPT ![TeamOf(p)] = @ - 1]

LEMMA LeaverEffect ==
    ASSUME NEW w \in Worlds, NEW i \in Instances, NEW p \in Players
    PROVE  /\ Without(w.bgs[i], p, Leaver(w, i, p))
           /\ Leaver(w, i, p) \in Battleground /\ Leaver(w, i, p).offline = w.bgs[i].offline
<1> DEFINE old == w.bgs[i]
           t == TeamOf(p)
           n == [old.count EXCEPT ![t] = @ - 1]
           m == [old.invited EXCEPT ![t] = @ - 1]
           S == old.players \ {p}
<1>1. old \in Battleground /\ t \in Teams
  BY WorldFields, TeamOfType
<1>2. /\ Leaver(w, i, p) = [old EXCEPT !.players = S, !.count = n, !.invited = m]
  BY <1>1 DEF Leaver, Battleground
<1> HIDE DEF old, t
<1>3. n \in [Teams -> Int] /\ m \in [Teams -> Int] /\ S \in SUBSET Players
  BY <1>1, BattlegroundFields
<1> HIDE DEF n, m, S
<1> DEFINE b == [old EXCEPT !.players = S, !.count = n, !.invited = m]
<1>4. /\ b \in Battleground /\ b.status = old.status /\ b.offline = old.offline
      /\ b.lost = old.lost /\ b.players = S /\ b.count = n /\ b.invited = m
  BY <1>1, <1>3 DEF Battleground
<1> HIDE DEF b
<1>5. QED
  BY <1>2, <1>4 DEF b, old, t, n, m, S, Without

LeftBattle(w, i, p, v) ==
  LET participant == p \in w.bgs[i].players
  IN  /\ v \in Worlds
      /\ v.queue = w.queue /\ v.timers = w.timers /\ v.mishaps = w.mishaps
      /\ v.where = IF InWorld(w, p) THEN [w.where EXCEPT ![p] = "outside"] ELSE w.where
      /\ v.bgId = IF InWorld(w, p) THEN [w.bgId EXCEPT ![p] = 0] ELSE w.bgId
      /\ v.slot = IF participant /\ InWorld(w, p)
                  THEN [w.slot EXCEPT ![p] = NotQueued] ELSE w.slot
      /\ v.bgs = IF participant THEN [w.bgs EXCEPT ![i] = Leaver(w, i, p)] ELSE w.bgs
      /\ participant /\ w.bgs[i].status # "wait_leave" =>
           /\ ToSet(v.freeSlots) = ToSet(w.freeSlots) \cup {i}
           /\ IsInjective(w.freeSlots) => IsInjective(v.freeSlots)
      /\ ~participant \/ w.bgs[i].status = "wait_leave" => v.freeSlots = w.freeSlots

LEMMA LeaveEffect ==
    ASSUME NEW w \in Worlds, NEW i \in Instances, NEW p \in Players
    PROVE  LeftBattle(w, i, p, RemovePlayerAtLeave(w, i, p))
<1> DEFINE participant == p \in w.bgs[i].players
           b == Leaver(w, i, p)
           sl == IF InWorld(w, p) THEN NotQueued ELSE w.slot[p]
           w0 == [w EXCEPT !.bgs[i] = b]
           w1 == IF ~participant THEN w ELSE [w0 EXCEPT !.slot[p] = sl]
           w2 == IF participant /\ w.bgs[i].status # "wait_leave"
                 THEN [AddToFreeSlots(w1, i) EXCEPT !.scheduled = TRUE] ELSE w1
           v == IF InWorld(w, p) THEN [w2 EXCEPT !.bgId[p] = 0, !.where[p] = "outside"] ELSE w2
<1>1. /\ w.where \in [Players -> Places] /\ w.bgId \in [Players -> 0..MaxBattlegrounds]
      /\ w.slot \in [Players -> {NotQueued} \cup 0..MaxBattlegrounds]
      /\ w.bgs \in [Instances -> Battleground]
  BY WorldFields
<1>2. RemovePlayerAtLeave(w, i, p) = v
  BY DEF RemovePlayerAtLeave, Leaver
<1>3. b \in Battleground
  BY LeaverEffect
<1> HIDE DEF b
<1>4. /\ w1 \in Worlds
      /\ w1.queue = w.queue /\ w1.timers = w.timers /\ w1.mishaps = w.mishaps
      /\ w1.where = w.where /\ w1.bgId = w.bgId /\ w1.freeSlots = w.freeSlots
      /\ w1.bgs = IF participant THEN [w.bgs EXCEPT ![i] = b] ELSE w.bgs
      /\ w1.slot = IF participant THEN [w.slot EXCEPT ![p] = sl] ELSE w.slot
  <2>1. sl \in {NotQueued} \cup 0..MaxBattlegrounds
    BY <1>1
  <2>2. CASE participant
    <3>1. /\ w0 \in Worlds /\ w0.bgs = [w.bgs EXCEPT ![i] = b]
          /\ w0.queue = w.queue /\ w0.timers = w.timers /\ w0.mishaps = w.mishaps
          /\ w0.where = w.where /\ w0.bgId = w.bgId /\ w0.freeSlots = w.freeSlots
          /\ w0.slot = w.slot
      BY <1>3, PutBgEffect DEF PutBg
    <3> HIDE DEF w0, sl, participant
    <3>2. QED
      BY <2>1, <2>2, <3>1 DEF Worlds
  <2>3. CASE ~participant
    BY <2>3
  <2>4. QED
    BY <2>2, <2>3
<1>5. sl = (IF InWorld(w, p) THEN NotQueued ELSE w.slot[p]) /\ participant \in BOOLEAN
  OBVIOUS
<1> HIDE DEF w1, sl
<1>6. /\ w2 \in Worlds
      /\ w2.queue = w1.queue /\ w2.timers = w1.timers /\ w2.mishaps = w1.mishaps
      /\ w2.where = w1.where /\ w2.bgId = w1.bgId /\ w2.slot = w1.slot /\ w2.bgs = w1.bgs
      /\ participant /\ w.bgs[i].status # "wait_leave" =>
           /\ ToSet(w2.freeSlots) = ToSet(w1.freeSlots) \cup {i}
           /\ IsInjective(w1.freeSlots) => IsInjective(w2.freeSlots)
      /\ ~participant \/ w.bgs[i].status = "wait_leave" => w2.freeSlots = w1.freeSlots
  <2> DEFINE u == AddToFreeSlots(w1, i)
  <2>1. /\ u \in Worlds
        /\ u.where = w1.where /\ u.bgId = w1.bgId /\ u.slot = w1.slot /\ u.queue = w1.queue
        /\ u.bgs = w1.bgs /\ u.timers = w1.timers /\ u.mishaps = w1.mishaps
        /\ ToSet(u.freeSlots) = ToSet(w1.freeSlots) \cup {i}
        /\ IsInjective(w1.freeSlots) => IsInjective(u.freeSlots)
    BY <1>4, AddToFreeSlotsEffect
  <2> HIDE DEF u, participant
  <2> DEFINE u2 == [u EXCEPT !.scheduled = TRUE]
  <2>2. /\ u2 \in Worlds
        /\ u2.where = u.where /\ u2.bgId = u.bgId /\ u2.slot = u.slot /\ u2.queue = u.queue
        /\ u2.bgs = u.bgs /\ u2.timers = u.timers /\ u2.mishaps = u.mishaps
        /\ u2.freeSlots = u.freeSlots
    BY <2>1 DEF Worlds
  <2>3. w2 = IF participant /\ w.bgs[i].status # "wait_leave" THEN u2 ELSE w1
    BY DEF u
  <2> HIDE DEF u2, w2
  <2>4. QED
    BY <1>4, <2>1, <2>2, <2>3
<1> HIDE DEF w2, participant
<1>7. /\ v \in Worlds
      /\ v.queue = w2.queue /\ v.timers = w2.timers /\ v.mishaps = w2.mishaps
      /\ v.slot = w2.slot /\ v.bgs = w2.bgs /\ v.freeSlots = w2.freeSlots
      /\ v.where = IF InWorld(w, p) THEN [w2.where EXCEPT ![p] = "outside"] ELSE w2.where
      /\ v.bgId = IF InWorld(w, p) THEN [w2.bgId EXCEPT ![p] = 0] ELSE w2.bgId
  <2>1. "outside" \in Places /\ 0 \in 0..MaxBattlegrounds
    BY BattlegroundConstants DEF Places
  <2>2. QED
    BY <1>6, <2>1 DEF Worlds
<1> HIDE DEF v
<1>8. v.slot = IF participant /\ InWorld(w, p) THEN [w.slot EXCEPT ![p] = NotQueued] ELSE w.slot
  <2>1. [w.slot EXCEPT ![p] = w.slot[p]] = w.slot
    BY <1>1
  <2>2. QED
    BY <1>4, <1>5, <1>6, <1>7, <2>1
<1>9. QED
  BY <1>2, <1>4, <1>6, <1>7, <1>8 DEF participant, b, LeftBattle

-----------------------------------------------------------------------------
(* The groups of the queue.                                                *)

Queues == [Lists -> Seq(Group)]

OnePlace(q) ==
  \A l, m \in Lists : \A k \in DOMAIN q[l], n \in DOMAIN q[m] :
    q[l][k].players \cap q[m][n].players # {} => l = m /\ k = n

InTeams(q) == \A l \in Lists : \A k \in DOMAIN q[l] : q[l][k].team = l[2]

LEMMA GroupAt ==
    ASSUME NEW q \in Queues, NEW l \in Lists, NEW k \in DOMAIN q[l]
    PROVE  /\ q[l][k] \in Group /\ q[l] \in Seq(Group) /\ q[l][k] \in ToSet(q[l])
           /\ q[l][k].players \in (SUBSET Players) \ {{}} /\ q[l][k].team \in Teams
           /\ q[l][k].invited \in 0..MaxBattlegrounds /\ q[l][k].left \in 0..AcceptWait
           /\ DOMAIN q[l] = 1..Len(q[l]) /\ Len(q[l]) \in Nat
<1>1. q[l] \in Seq(Group)
  BY DEF Queues
<1>2. q[l][k] \in Group /\ DOMAIN q[l] = 1..Len(q[l]) /\ Len(q[l]) \in Nat
  BY <1>1, LenProperties
<1>3. QED
  BY <1>1, <1>2 DEF Group, ToSet

(* A player is queued at a position, and the group found is the one there. *)
LEMMA PositionOf ==
    ASSUME NEW w \in Worlds, NEW p \in QueuedPlayers(w)
    PROVE  \E l \in Lists : \E k \in DOMAIN w.queue[l] :
              GroupOf(w, p) = w.queue[l][k] /\ p \in w.queue[l][k].players
<1>1. PICK h \in GroupsOf(w) : p \in h.players
  BY DEF QueuedPlayers
<1>2. GroupOf(w, p) \in GroupsOf(w) /\ p \in GroupOf(w, p).players
  BY <1>1 DEF GroupOf
<1>3. PICK l \in Lists : GroupOf(w, p) \in ToSet(w.queue[l])
  BY <1>2 DEF GroupsOf
<1>4. QED
  BY <1>2, <1>3 DEF ToSet

LEMMA GroupOfIsAt ==
    ASSUME NEW w \in Worlds, OnePlace(w.queue), NEW l \in Lists, NEW k \in DOMAIN w.queue[l],
           NEW p \in w.queue[l][k].players
    PROVE  p \in QueuedPlayers(w) /\ GroupOf(w, p) = w.queue[l][k]
<1>1. w.queue \in Queues
  BY WorldFields DEF Queues
<1>2. w.queue[l][k] \in GroupsOf(w)
  BY <1>1, GroupAt DEF GroupsOf
<1>3. p \in QueuedPlayers(w)
  BY <1>2 DEF QueuedPlayers
<1>4. PICK m \in Lists : \E n \in DOMAIN w.queue[m] :
              GroupOf(w, p) = w.queue[m][n] /\ p \in w.queue[m][n].players
  BY <1>3, PositionOf
<1>5. QED
  BY <1>3, <1>4 DEF OnePlace

(* A list whose groups are groups of another one without a player, each of *)
(* another position; the other players of the list are all there.          *)
KeepsOthers(s, p, r) ==
  \A j \in DOMAIN s : \A x \in s[j].players \ {p} : \E k \in DOMAIN r : x \in r[k].players

Reduced(s, p, r) ==
  /\ KeepsOthers(s, p, r)
  /\ \E f \in [DOMAIN r -> DOMAIN s] :
       /\ \A j, k \in DOMAIN r : f[j] = f[k] => j = k
       /\ \A k \in DOMAIN r : /\ r[k].players = s[f[k]].players \ {p}
                              /\ r[k].team = s[f[k]].team
                              /\ r[k].invited = s[f[k]].invited
                              /\ r[k].left = s[f[k]].left

Left(list, g, p) == IF g.players = {p} THEN RemoveFirst(list, g)
                    ELSE ReplaceAll(list, g, [g EXCEPT !.players = @ \ {p}])

LEMMA LeftEffect ==
    ASSUME NEW q \in Queues, OnePlace(q), NEW l \in Lists, NEW k \in DOMAIN q[l],
           NEW p \in q[l][k].players, NEW m \in Lists
    PROVE  /\ Left(q[m], q[l][k], p) \in Seq(Group)
           /\ Reduced(q[m], p, Left(q[m], q[l][k], p))
<1> DEFINE g == q[l][k]
           s == q[m]
           r == Left(s, g, p)
           D == DOMAIN s
<1>1. /\ s \in Seq(Group) /\ Len(s) \in Nat /\ D = 1..Len(s)
      /\ g \in Group /\ g.players \in (SUBSET Players) \ {{}}
  <2>1. s \in Seq(Group)
    BY DEF Queues
  <2>2. QED
    BY <2>1, GroupAt, LenProperties
<1>2. ASSUME NEW j \in D, s[j] # g PROVE p \notin s[j].players
  BY <1>2 DEF OnePlace
<1>3. ASSUME NEW i \in D, NEW j \in D, s[i] = g, s[j] = g PROVE i = j
  <2>1. s[i].players \cap s[j].players # {}
    BY <1>1, <1>3
  <2>2. QED
    BY <2>1 DEF OnePlace
<1>4. CASE g.players # {p}
  <2> DEFINE h == [g EXCEPT !.players = @ \ {p}]
  <2>1. h \in Group /\ h.players = g.players \ {p} /\ h.team = g.team
        /\ h.invited = g.invited /\ h.left = g.left
    <3>1. g.players \ {p} \in (SUBSET Players) \ {{}}
      BY <1>1, <1>4
    <3> HIDE DEF g
    <3>2. QED
      BY <1>1, <3>1 DEF Group
  <2>2. r = ReplaceAll(s, g, h)
    BY <1>4 DEF Left
  <2> HIDE DEF h, r, s, g
  <2>3. r \in Seq(Group) /\ Len(r) = Len(s) /\ \A j \in D : r[j] = IF s[j] = g THEN h ELSE s[j]
    BY <1>1, <2>1, <2>2, ReplaceAllLemma
  <2>4. DOMAIN r = D
    BY <1>1, <2>3, LenProperties
  <2> DEFINE f == [j \in D |-> j]
  <2>5. f \in [DOMAIN r -> D] /\ \A i, j \in DOMAIN r : f[i] = f[j] => i = j
    BY <2>4
  <2>6. ASSUME NEW j \in D PROVE /\ r[j].players = s[f[j]].players \ {p}
                                 /\ r[j].team = s[f[j]].team
                                 /\ r[j].invited = s[f[j]].invited
                                 /\ r[j].left = s[f[j]].left
    <3>1. CASE s[j] = g
      BY <2>1, <2>3, <3>1
    <3>2. CASE s[j] # g
      BY <1>2, <2>3, <3>2
    <3>3. QED
      BY <3>1, <3>2
  <2>9. KeepsOthers(s, p, r)
    BY <2>4, <2>6 DEF KeepsOthers
  <2> HIDE DEF f
  <2>7. Reduced(s, p, r)
    BY <2>4, <2>5, <2>6, <2>9 DEF Reduced
  <2>8. QED
    BY <2>3, <2>7 DEF r, s, g
<1>5. CASE g.players = {p} /\ g \notin ToSet(s)
  <2>1. r = s
    BY <1>1, <1>5, RemoveFirstSet DEF Left
  <2>2. ASSUME NEW j \in D PROVE p \notin s[j].players
    BY <1>2, <1>5 DEF ToSet
  <2> HIDE DEF r, s, g
  <2> DEFINE f == [j \in D |-> j]
  <2>3. f \in [DOMAIN r -> D] /\ \A i, j \in DOMAIN r : f[i] = f[j] => i = j
    BY <2>1
  <2>4. ASSUME NEW j \in D PROVE /\ r[j].players = s[f[j]].players \ {p}
                                 /\ r[j].team = s[f[j]].team
                                 /\ r[j].invited = s[f[j]].invited
                                 /\ r[j].left = s[f[j]].left
    BY <2>1, <2>2
  <2>5. DOMAIN r = D
    BY <2>1
  <2>8. KeepsOthers(s, p, r)
    BY <2>1 DEF KeepsOthers
  <2> HIDE DEF f
  <2>6. Reduced(s, p, r)
    BY <2>3, <2>4, <2>5, <2>8 DEF Reduced
  <2>7. QED
    BY <1>1, <2>1, <2>6 DEF r, s, g
<1>6. CASE g.players = {p} /\ g \in ToSet(s)
  <2>1. r = RemoveFirst(s, g)
    BY <1>6 DEF Left
  <2> HIDE DEF r, s, g
  <2>2. PICK n \in 1..Len(s) :
        /\ s[n] = g /\ r \in Seq(Group) /\ Len(r) = Len(s) - 1
        /\ \A j \in 1..Len(s) - 1 : r[j] = s[IF j < n THEN j ELSE j + 1]
    <3> DEFINE n == FirstAt(s, g)
    <3>1. s \in Seq(Group) /\ g \in ToSet(s)
      BY <1>1, <1>6
    <3>2. /\ n \in 1..Len(s) /\ s[n] = g
          /\ RemoveFirst(s, g) \in Seq(Group) /\ Len(RemoveFirst(s, g)) = Len(s) - 1
          /\ \A j \in 1..Len(s) - 1 :
                RemoveFirst(s, g)[j] = s[IF j < n THEN j ELSE j + 1]
      BY <3>1, RemoveFirstLemma
    <3> HIDE DEF n
    <3>3. QED
      BY <2>1, <3>2
  <2>3. DOMAIN r = 1..Len(s) - 1
    BY <2>2, LenProperties
  <2> DEFINE f == [j \in 1..Len(s) - 1 |-> IF j < n THEN j ELSE j + 1]
  <2>4. f \in [1..Len(s) - 1 -> D] /\ \A j \in 1..Len(s) - 1 : f[j] # n /\ r[j] = s[f[j]]
    BY <1>1, <2>2
  <2>5. ASSUME NEW i \in 1..Len(s) - 1, NEW j \in 1..Len(s) - 1, f[i] = f[j] PROVE i = j
    BY <1>1, <2>5
  <2> HIDE DEF f
  <2>6. ASSUME NEW j \in 1..Len(s) - 1 PROVE p \notin s[f[j]].players
    <3>1. f[j] \in D /\ n \in D /\ f[j] # n
      BY <1>1, <2>4
    <3>2. s[f[j]] # g
      BY <1>3, <2>2, <3>1
    <3>3. QED
      BY <1>2, <3>1, <3>2
  <2>7. ASSUME NEW j \in 1..Len(s) - 1 PROVE /\ r[j].players = s[f[j]].players \ {p}
                                             /\ r[j].team = s[f[j]].team
                                             /\ r[j].invited = s[f[j]].invited
                                             /\ r[j].left = s[f[j]].left
    BY <2>4, <2>6
  <2>8. /\ f \in [DOMAIN r -> D]
        /\ \A i, j \in DOMAIN r : f[i] = f[j] => i = j
        /\ \A j \in DOMAIN r : /\ r[j].players = s[f[j]].players \ {p}
                               /\ r[j].team = s[f[j]].team
                               /\ r[j].invited = s[f[j]].invited
                               /\ r[j].left = s[f[j]].left
    BY <2>3, <2>4, <2>5, <2>7
  <2>11. ASSUME NEW j \in D, NEW x \in s[j].players \ {p}
         PROVE  \E h \in DOMAIN r : x \in r[h].players
    <3>1. j # n /\ j \in 1..Len(s) /\ n \in 1..Len(s) /\ Len(s) \in Nat
      BY <1>1, <1>6, <2>2, <2>11
    <3> DEFINE h == IF j < n THEN j ELSE j - 1
    <3>2. h \in 1..Len(s) - 1 /\ (IF h < n THEN h ELSE h + 1) = j
      BY <3>1
    <3> HIDE DEF h
    <3>3. r[h] = s[j]
      BY <2>2, <3>2
    <3>4. QED
      BY <2>3, <2>11, <3>2, <3>3
  <2>12. KeepsOthers(s, p, r)
    BY <1>1, <2>11 DEF KeepsOthers
  <2>9. Reduced(s, p, r)
    BY <2>8, <2>12 DEF Reduced
  <2>10. QED
    BY <2>2, <2>9 DEF r, s, g
<1>7. QED
  BY <1>4, <1>5, <1>6

LEMMA ReducedIsSame ==
    ASSUME NEW s \in Seq(Group), NEW p, \A k \in DOMAIN s : p \notin s[k].players
    PROVE  Reduced(s, p, s)
<1> DEFINE f == [k \in DOMAIN s |-> k]
<1>1. /\ f \in [DOMAIN s -> DOMAIN s] /\ \A j, k \in DOMAIN s : f[j] = f[k] => j = k
      /\ \A k \in DOMAIN s : f[k] = k /\ s[k].players = s[k].players \ {p}
  OBVIOUS
<1> HIDE DEF f
<1>2. KeepsOthers(s, p, s)
  BY DEF KeepsOthers
<1>3. QED
  BY <1>1, <1>2 DEF Reduced

(* A place given back.                                                     *)
Uninvited(w, i, t) == [w.bgs[i] EXCEPT !.invited[t] = @ - 1]

OneFewer(old, t, b) ==
  /\ b \in Battleground /\ b.status = old.status /\ b.lost = old.lost
  /\ b.players = old.players /\ b.offline = old.offline
  /\ b.count = old.count /\ b.invited = [old.invited EXCEPT ![t] = @ - 1]

LEMMA UninvitedEffect ==
    ASSUME NEW w \in Worlds, NEW i \in Instances, NEW t \in Teams
    PROVE  OneFewer(w.bgs[i], t, Uninvited(w, i, t))
<1> DEFINE old == w.bgs[i]
           m == [old.invited EXCEPT ![t] = @ - 1]
<1>1. old \in Battleground
  BY WorldFields
<1>2. Uninvited(w, i, t) = [old EXCEPT !.invited = m]
  BY <1>1 DEF Uninvited, Battleground
<1> HIDE DEF old
<1>3. m \in [Teams -> Int]
  BY <1>1, BattlegroundFields
<1> HIDE DEF m
<1>4. QED
  BY <1>1, <1>2, <1>3 DEF Battleground, OneFewer, m, old

(* Out of the queue: the other groups and the other members stay.          *)
Dequeued(w, p, decrease, v) ==
  LET g == GroupOf(w, p)
  IN  /\ v \in Worlds
      /\ v.where = w.where /\ v.bgId = w.bgId /\ v.slot = w.slot
      /\ v.freeSlots = w.freeSlots /\ v.timers = w.timers
      /\ v.scheduled = w.scheduled /\ v.mishaps = w.mishaps
      /\ \A l \in Lists : Reduced(w.queue[l], p, v.queue[l])
      /\ v.bgs = IF p \in QueuedPlayers(w) /\ GivesPlaceBack(w, g.invited, decrease)
                 THEN [w.bgs EXCEPT ![g.invited] = Uninvited(w, g.invited, g.team)]
                 ELSE w.bgs

LEMMA DequeueEffect ==
    ASSUME NEW w \in Worlds, OnePlace(w.queue), InTeams(w.queue), NEW p, NEW decrease
    PROVE  Dequeued(w, p, decrease, RemovePlayer(w, p, decrease))
<1> DEFINE q == w.queue
<1>1. q \in Queues /\ w.bgs \in [Instances -> Battleground]
  BY WorldFields DEF Queues
<1>2. CASE p \notin QueuedPlayers(w)
  <2>1. RemovePlayer(w, p, decrease) = w
    BY <1>2 DEF RemovePlayer
  <2>2. ASSUME NEW l \in Lists, NEW k \in DOMAIN q[l] PROVE p \notin q[l][k].players
    <3>1. q[l][k] \in GroupsOf(w)
      BY <1>1, GroupAt DEF GroupsOf
    <3>2. QED
      BY <1>2, <3>1 DEF QueuedPlayers
  <2>3. \A l \in Lists : Reduced(q[l], p, q[l])
    BY <1>1, <2>2, ReducedIsSame DEF Queues
  <2>4. QED
    BY <1>2, <2>1, <2>3 DEF Dequeued
<1>3. CASE p \in QueuedPlayers(w)
  <2>0. PICK l0 \in Lists : \E k \in DOMAIN q[l0] :
              GroupOf(w, p) = q[l0][k] /\ p \in q[l0][k].players
    BY <1>3, PositionOf
  <2>1. PICK k0 \in DOMAIN q[l0] : GroupOf(w, p) = q[l0][k0] /\ p \in q[l0][k0].players
    BY <2>0
  <2> DEFINE g == GroupOf(w, p)
             Q == [l \in Lists |-> IF l[2] = g.team THEN Left(q[l], g, p) ELSE q[l]]
             B == IF GivesPlaceBack(w, g.invited, decrease)
                  THEN [w.bgs EXCEPT ![g.invited] = Uninvited(w, g.invited, g.team)] ELSE w.bgs
  <2>2. /\ g = q[l0][k0] /\ g \in Group /\ g.team = l0[2] /\ g.team \in Teams
    BY <1>1, <2>1, GroupAt DEF InTeams
  <2>3. RemovePlayer(w, p, decrease) = [w EXCEPT !.queue = Q, !.bgs = B]
    BY <1>3 DEF RemovePlayer, Left, Uninvited
  <2> HIDE DEF g
  <2>4. ASSUME NEW l \in Lists
        PROVE  Left(q[l], g, p) \in Seq(Group) /\ Reduced(q[l], p, Left(q[l], g, p))
    BY <1>1, <2>1, <2>2, LeftEffect
  <2>5. ASSUME NEW l \in Lists, l[2] # g.team PROVE Reduced(q[l], p, q[l])
    <3>1. \A k \in DOMAIN q[l] : p \notin q[l][k].players
      BY <2>1, <2>2, <2>5 DEF OnePlace
    <3>2. QED
      BY <1>1, <3>1, ReducedIsSame DEF Queues
  <2>6. Q \in Queues /\ \A l \in Lists : Reduced(q[l], p, Q[l])
    BY <1>1, <2>4, <2>5 DEF Queues
  <2>7. B \in [Instances -> Battleground]
    <3>1. CASE GivesPlaceBack(w, g.invited, decrease)
      <4>1. g.invited \in Instances
        BY <3>1 DEF GivesPlaceBack, Live
      <4>2. Uninvited(w, g.invited, g.team) \in Battleground
        BY <2>2, <4>1, UninvitedEffect DEF OneFewer
      <4>3. QED
        BY <1>1, <4>2
    <3>2. QED
      BY <1>1, <3>1
  <2> HIDE DEF Q, B
  <2> DEFINE v == [w EXCEPT !.queue = Q, !.bgs = B]
  <2>8. /\ v \in Worlds
        /\ v.where = w.where /\ v.bgId = w.bgId /\ v.slot = w.slot
        /\ v.freeSlots = w.freeSlots /\ v.timers = w.timers
        /\ v.scheduled = w.scheduled /\ v.mishaps = w.mishaps
        /\ v.queue = Q /\ v.bgs = B
    BY <2>6, <2>7 DEF Worlds, Queues
  <2> HIDE DEF v
  <2>9. QED
    BY <1>3, <2>3, <2>6, <2>8 DEF v, B, g, Dequeued
<1>4. QED
  BY <1>2, <1>3

-----------------------------------------------------------------------------
(* The inductive invariant, in parts.                                      *)

MembersAreInside(w) ==
  \A i \in Instances : \A p \in w.bgs[i].players :
    w.bgId[p] = i /\ w.where[p] \in {"inside", "offline_inside"}

DeadAreEmpty(w) == \A i \in Instances : w.bgs[i].status = "none" => w.bgs[i] = NoBattleground

Running == {"wait_join", "in_progress"}

FreeSlotsOK(w) ==
  /\ IsInjective(w.freeSlots)
  /\ \A i \in ToSet(w.freeSlots) : w.bgs[i].status \in Running
  /\ \A i \in Instances : /\ w.bgs[i].status \in Running
                          /\ Cardinality(w.bgs[i].players) < 2 * MaxPlayersPerTeam
                          => i \in ToSet(w.freeSlots)

OfflineExact(w, i) ==
  w.bgs[i].status \in Running =>
    /\ IsInjective(w.bgs[i].offline)
    /\ ToSet(w.bgs[i].offline) = {p \in w.bgs[i].players : ~Connected(w, p)}

OfflineOK(w) == \A i \in Instances : OfflineExact(w, i)

(* Who is queued is in the world, in no battleground, and knows of the     *)
(* invitation.                                                             *)
QueuedOK(w) ==
  \A l \in Lists : \A k \in DOMAIN w.queue[l] :
    /\ w.queue[l][k].team = l[2]
    /\ \A p \in w.queue[l][k].players :
         /\ TeamOf(p) = l[2] /\ InWorld(w, p) /\ w.slot[p] = w.queue[l][k].invited
         /\ \A i \in Instances : p \notin w.bgs[i].players

(* The slot of a player on the way names the battleground; without a slot  *)
(* nobody is on the way to a battleground or in one.                       *)
HolderKeepsSlot(w, p) ==
  /\ w.where[p] = "porting" => w.slot[p] = w.bgId[p] /\ w.bgId[p] \in Instances
  /\ w.slot[p] = NotQueued =>
       /\ w.where[p] # "porting"
       /\ Connected(w, p) => \A i \in Instances : p \notin w.bgs[i].players

HoldersKeepSlots(w) == \A p \in Players : HolderKeepsSlot(w, p)

TimersOK(w) ==
  \A l \in Lists : \A k \in DOMAIN w.queue[l] :
    LET g == w.queue[l][k]
    IN  g.invited # 0 =>
          \A p \in g.players :
            [player |-> p, instance |-> g.invited, left |-> g.left] \in w.timers

(* Between two updates of the events no timer is due.  While they run,     *)
(* some are.                                                               *)
TimersAhead(w) == \A e \in w.timers : e.left > 0

Waiting(w) == OnePlace(w.queue) /\ QueuedOK(w) /\ TimersOK(w)

(* Who holds a place of a battleground is counted there, as is who is in   *)
(* it; beyond the holders only the lost places are counted.                *)
Holds(w, p, i) ==
  \/ InvitedTo(w, p) = i
  \/ w.where[p] = "porting" /\ w.bgId[p] = i
  \/ p \in w.bgs[i].players

HoldersOf(w, i, t) == {p \in Players : TeamOf(p) = t /\ Holds(w, p, i)}
MembersOf(w, i, t) == {p \in w.bgs[i].players : TeamOf(p) = t}

PlacesOK(w) ==
  \A i \in Instances, t \in Teams :
    /\ w.bgs[i].invited[t] = Cardinality(HoldersOf(w, i, t)) + w.bgs[i].lost[t]
    /\ w.bgs[i].invited[t] <= MaxPlayersPerTeam
    /\ Cardinality(MembersOf(w, i, t)) <= w.bgs[i].count[t]

Inv(w) ==
  /\ w \in Worlds
  /\ MembersAreInside(w) /\ DeadAreEmpty(w) /\ FreeSlotsOK(w) /\ OfflineOK(w)
  /\ Waiting(w) /\ HoldersKeepSlots(w) /\ PlacesOK(w)

(* A step of one player: the others stay where they are.                   *)
OthersStay(w, p, v) ==
  /\ \A x \in Players \ {p} : /\ v.where[x] = w.where[x] /\ v.bgId[x] = w.bgId[x]
                              /\ v.slot[x] = w.slot[x]
                              /\ \A i \in Instances : x \in v.bgs[i].players <=> x \in w.bgs[i].players
  /\ \A l \in Lists : Reduced(w.queue[l], p, v.queue[l])
  /\ v.timers = w.timers

LEMMA ReducedMap ==
    ASSUME NEW s, NEW p, NEW r, Reduced(s, p, r)
    PROVE  \E f \in [DOMAIN r -> DOMAIN s] :
              /\ \A i, j \in DOMAIN r : f[i] = f[j] => i = j
              /\ \A j \in DOMAIN r : r[j].players = s[f[j]].players \ {p}
BY DEF Reduced

LEMMA WaitingStays ==
    ASSUME NEW w \in Worlds, NEW v \in Worlds, NEW p, OthersStay(w, p, v), Waiting(w)
    PROVE  Waiting(v)
<1> DEFINE q == w.queue
           r == v.queue
<1>1. q \in Queues /\ r \in Queues
  BY WorldFields DEF Queues
<1>2. ASSUME NEW l \in Lists, NEW k \in DOMAIN r[l]
      PROVE  \E j \in DOMAIN q[l] :
               /\ r[l][k].players = q[l][j].players \ {p} /\ r[l][k].team = q[l][j].team
               /\ r[l][k].invited = q[l][j].invited /\ r[l][k].left = q[l][j].left
  BY DEF OthersStay, Reduced
<1>3. OnePlace(r)
  <2>1. ASSUME NEW l \in Lists, NEW m \in Lists, NEW k \in DOMAIN r[l], NEW n \in DOMAIN r[m],
               r[l][k].players \cap r[m][n].players # {}
        PROVE  l = m /\ k = n
    <3>1. Reduced(q[l], p, r[l]) /\ Reduced(q[m], p, r[m])
      BY DEF OthersStay
    <3>2. PICK f \in [DOMAIN r[l] -> DOMAIN q[l]] :
             /\ \A i, j \in DOMAIN r[l] : f[i] = f[j] => i = j
             /\ \A j \in DOMAIN r[l] : r[l][j].players = q[l][f[j]].players \ {p}
      BY <3>1, ReducedMap
    <3>3. PICK h \in [DOMAIN r[m] -> DOMAIN q[m]] :
             /\ \A i, j \in DOMAIN r[m] : h[i] = h[j] => i = j
             /\ \A j \in DOMAIN r[m] : r[m][j].players = q[m][h[j]].players \ {p}
      BY <3>1, ReducedMap
    <3>4. l = m
      <4>1. q[l][f[k]].players \cap q[m][h[n]].players # {}
        BY <2>1, <3>2, <3>3
      <4>2. f[k] \in DOMAIN q[l] /\ h[n] \in DOMAIN q[m]
        OBVIOUS
      <4>3. QED
        BY <4>1, <4>2 DEF Waiting, OnePlace
    <3>5. n \in DOMAIN r[l] /\ q[l][f[k]].players \cap q[l][f[n]].players # {}
      BY <2>1, <3>2, <3>4
    <3>6. f[k] \in DOMAIN q[l] /\ f[n] \in DOMAIN q[l]
      BY <3>5
    <3>7. f[k] = f[n]
      BY <3>5, <3>6 DEF Waiting, OnePlace
    <3>8. QED
      BY <3>2, <3>4, <3>5, <3>7
  <2>2. QED
    BY <2>1 DEF OnePlace
<1>4. QueuedOK(v)
  <2>1. ASSUME NEW l \in Lists, NEW k \in DOMAIN r[l]
        PROVE  /\ r[l][k].team = l[2]
               /\ \A x \in r[l][k].players :
                    /\ TeamOf(x) = l[2] /\ InWorld(v, x) /\ v.slot[x] = r[l][k].invited
                    /\ \A i \in Instances : x \notin v.bgs[i].players
    <3>1. PICK j \in DOMAIN q[l] :
               /\ r[l][k].players = q[l][j].players \ {p} /\ r[l][k].team = q[l][j].team
               /\ r[l][k].invited = q[l][j].invited
      BY <1>2
    <3>2. /\ q[l][j].team = l[2]
          /\ \A x \in q[l][j].players :
               /\ TeamOf(x) = l[2] /\ InWorld(w, x) /\ w.slot[x] = q[l][j].invited
               /\ \A i \in Instances : x \notin w.bgs[i].players
      BY DEF Waiting, QueuedOK
    <3>3. ASSUME NEW x \in r[l][k].players PROVE x \in Players \ {p} /\ x \in q[l][j].players
      BY <1>1, <3>1, GroupAt
    <3>4. QED
      BY <3>1, <3>2, <3>3 DEF OthersStay, InWorld
  <2>2. QED
    BY <2>1 DEF QueuedOK
<1>5. TimersOK(v)
  <2>1. ASSUME NEW l \in Lists, NEW k \in DOMAIN r[l], r[l][k].invited # 0
        PROVE  \A x \in r[l][k].players :
                 [player |-> x, instance |-> r[l][k].invited, left |-> r[l][k].left] \in v.timers
    <3>1. PICK j \in DOMAIN q[l] :
               /\ r[l][k].players = q[l][j].players \ {p}
               /\ r[l][k].invited = q[l][j].invited /\ r[l][k].left = q[l][j].left
      BY <1>2
    <3>2. \A x \in q[l][j].players :
             [player |-> x, instance |-> q[l][j].invited, left |-> q[l][j].left] \in w.timers
      BY <2>1, <3>1 DEF Waiting, TimersOK
    <3>3. v.timers = w.timers
      BY DEF OthersStay
    <3>4. QED
      BY <3>1, <3>2, <3>3
  <2>2. QED
    BY <2>1 DEF TimersOK
<1>6. QED
  BY <1>3, <1>4, <1>5 DEF Waiting

LEMMA MembersStay ==
    ASSUME NEW w \in Worlds, NEW v \in Worlds, NEW p, OthersStay(w, p, v), MembersAreInside(w),
           \A i \in Instances : p \in v.bgs[i].players =>
              v.bgId[p] = i /\ v.where[p] \in {"inside", "offline_inside"}
    PROVE  MembersAreInside(v)
<1>1. ASSUME NEW i \in Instances, NEW x \in v.bgs[i].players PROVE x \in Players
  BY WorldFields, BattlegroundFields
<1>2. QED
  BY <1>1 DEF MembersAreInside, OthersStay

LEMMA HoldersStay ==
    ASSUME NEW w \in Worlds, NEW v \in Worlds, NEW p, OthersStay(w, p, v), HoldersKeepSlots(w),
           p \in Players => HolderKeepsSlot(v, p)
    PROVE  HoldersKeepSlots(v)
<1>1. ASSUME NEW x \in Players \ {p} PROVE HolderKeepsSlot(v, x)
  BY DEF OthersStay, HoldersKeepSlots, HolderKeepsSlot, Connected
<1>2. QED
  BY <1>1 DEF HoldersKeepSlots

LEMMA PlayersAreFinite == IsFiniteSet(Players)
  BY BattlegroundConstants, FS_Union DEF Players

LEMMA HoldersAreFinite ==
    ASSUME NEW w \in Worlds, NEW i \in Instances, NEW t
    PROVE  /\ IsFiniteSet(HoldersOf(w, i, t)) /\ IsFiniteSet(MembersOf(w, i, t))
           /\ Cardinality(HoldersOf(w, i, t)) \in Nat /\ Cardinality(MembersOf(w, i, t)) \in Nat
<1>1. HoldersOf(w, i, t) \subseteq Players /\ MembersOf(w, i, t) \subseteq Players
  BY WorldFields, BattlegroundFields DEF HoldersOf, MembersOf
<1>2. QED
  BY <1>1, PlayersAreFinite, FS_Subset, FS_CardinalityType

(* Nobody but the player of a step gains or loses a place by it.           *)
LEMMA OthersHold ==
    ASSUME NEW w \in Worlds, NEW v \in Worlds, NEW p, OthersStay(w, p, v),
           Waiting(w), Waiting(v)
    PROVE  /\ \A x \in Players \ {p}, i \in Instances : Holds(v, x, i) <=> Holds(w, x, i)
           /\ p \notin QueuedPlayers(v) /\ InvitedTo(v, p) = 0
<1> DEFINE q == w.queue
           r == v.queue
<1>1. q \in Queues /\ r \in Queues
  BY WorldFields DEF Queues
<1>2. ASSUME NEW l \in Lists, NEW k \in DOMAIN r[l]
      PROVE  \E j \in DOMAIN q[l] : /\ r[l][k].players = q[l][j].players \ {p}
                                    /\ r[l][k].invited = q[l][j].invited
  BY DEF OthersStay, Reduced
<1>3. ASSUME NEW x \in QueuedPlayers(v)
      PROVE  x # p /\ x \in QueuedPlayers(w) /\ GroupOf(v, x).invited = GroupOf(w, x).invited
  <2>1. PICK l \in Lists : \E k \in DOMAIN r[l] : GroupOf(v, x) = r[l][k] /\ x \in r[l][k].players
    BY PositionOf
  <2>2. PICK k \in DOMAIN r[l] : GroupOf(v, x) = r[l][k] /\ x \in r[l][k].players
    BY <2>1
  <2>3. PICK j \in DOMAIN q[l] : /\ r[l][k].players = q[l][j].players \ {p}
                                 /\ r[l][k].invited = q[l][j].invited
    BY <1>2
  <2>4. x # p /\ x \in q[l][j].players
    BY <2>2, <2>3
  <2>5. x \in QueuedPlayers(w) /\ GroupOf(w, x) = q[l][j]
    BY <2>4, GroupOfIsAt DEF Waiting
  <2>6. QED
    BY <2>2, <2>3, <2>4, <2>5
<1>8. ASSUME NEW x \in Players \ {p}, x \in QueuedPlayers(w) PROVE x \in QueuedPlayers(v)
  <2>1. PICK l \in Lists : \E j \in DOMAIN q[l] : x \in q[l][j].players
    BY <1>8, PositionOf
  <2>2. KeepsOthers(q[l], p, r[l])
    BY DEF OthersStay, Reduced
  <2>3. PICK k \in DOMAIN r[l] : x \in r[l][k].players
    BY <2>1, <2>2 DEF KeepsOthers
  <2>4. QED
    BY <2>3, GroupOfIsAt DEF Waiting
<1>4. ASSUME NEW x \in Players \ {p}, NEW i \in Instances
      PROVE  InvitedTo(v, x) = i <=> InvitedTo(w, x) = i
  <2>1. i # 0
    BY DEF Instances
  <2>2. CASE x \in QueuedPlayers(v)
    BY <1>3, <2>2 DEF InvitedTo
  <2>3. CASE x \notin QueuedPlayers(v)
    BY <1>8, <2>1, <2>3 DEF InvitedTo
  <2>4. QED
    BY <2>2, <2>3
<1>5. \A x \in Players \ {p}, i \in Instances : Holds(v, x, i) <=> Holds(w, x, i)
  BY <1>4 DEF Holds, OthersStay
<1>6. p \notin QueuedPlayers(v)
  BY <1>3
<1>7. QED
  BY <1>5, <1>6 DEF InvitedTo

(* What a step of one player may do with the numbers of a battleground.    *)
PlaceKept(w, p, v, i, t) ==
  /\ v.bgs[i].invited[t] = w.bgs[i].invited[t] /\ v.bgs[i].lost[t] = w.bgs[i].lost[t]
  /\ TeamOf(p) = t => (Holds(v, p, i) <=> Holds(w, p, i))

PlaceGivenBack(w, p, v, i, t) ==
  /\ v.bgs[i].invited[t] = w.bgs[i].invited[t] - 1 /\ v.bgs[i].lost[t] = w.bgs[i].lost[t]
  /\ p \in Players /\ TeamOf(p) = t /\ Holds(w, p, i) /\ ~Holds(v, p, i)

PlaceLost(w, p, v, i, t) ==
  /\ v.bgs[i].invited[t] = w.bgs[i].invited[t] /\ v.bgs[i].lost[t] = w.bgs[i].lost[t] + 1
  /\ p \in Players /\ TeamOf(p) = t /\ Holds(w, p, i) /\ ~Holds(v, p, i)

PlaceAccounted(w, p, v, i, t) ==
  PlaceKept(w, p, v, i, t) \/ PlaceGivenBack(w, p, v, i, t) \/ PlaceLost(w, p, v, i, t)

Recounted(w, p, v, i, t) ==
  \/ /\ v.bgs[i].count[t] = w.bgs[i].count[t]
     /\ TeamOf(p) = t /\ p \in v.bgs[i].players => p \in w.bgs[i].players
  \/ v.bgs[i].count[t] = w.bgs[i].count[t] + 1
  \/ /\ v.bgs[i].count[t] = w.bgs[i].count[t] - 1
     /\ p \in w.bgs[i].players /\ TeamOf(p) = t /\ p \notin v.bgs[i].players

LEMMA PlacesStay ==
    ASSUME NEW w \in Worlds, NEW v \in Worlds, NEW p, OthersStay(w, p, v),
           Waiting(w), Waiting(v), PlacesOK(w),
           \A i \in Instances, t \in Teams :
             PlaceAccounted(w, p, v, i, t) /\ Recounted(w, p, v, i, t)
    PROVE  PlacesOK(v)
<1> SUFFICES ASSUME NEW i \in Instances, NEW t \in Teams
             PROVE  /\ v.bgs[i].invited[t] = Cardinality(HoldersOf(v, i, t)) + v.bgs[i].lost[t]
                    /\ v.bgs[i].invited[t] <= MaxPlayersPerTeam
                    /\ Cardinality(MembersOf(v, i, t)) <= v.bgs[i].count[t]
  BY DEF PlacesOK
<1> DEFINE H == HoldersOf(w, i, t)
           J == HoldersOf(v, i, t)
           M == MembersOf(w, i, t)
           N == MembersOf(v, i, t)
<1>1. /\ IsFiniteSet(H) /\ IsFiniteSet(J) /\ IsFiniteSet(M) /\ IsFiniteSet(N)
      /\ Cardinality(H) \in Nat /\ Cardinality(J) \in Nat
      /\ Cardinality(M) \in Nat /\ Cardinality(N) \in Nat
  BY HoldersAreFinite
<1>2. /\ w.bgs[i].invited[t] \in Int /\ w.bgs[i].count[t] \in Int /\ w.bgs[i].lost[t] \in Nat
      /\ v.bgs[i].invited[t] \in Int /\ v.bgs[i].count[t] \in Int /\ v.bgs[i].lost[t] \in Nat
  BY WorldFields, BattlegroundFields
<1>3. /\ w.bgs[i].invited[t] = Cardinality(H) + w.bgs[i].lost[t]
      /\ w.bgs[i].invited[t] <= MaxPlayersPerTeam
      /\ Cardinality(M) <= w.bgs[i].count[t]
  BY DEF PlacesOK
<1>4. MaxPlayersPerTeam \in Int
  BY TeamSizes
<1>5. /\ J \ {p} = H \ {p}
      /\ p \in J <=> (p \in Players /\ TeamOf(p) = t /\ Holds(v, p, i))
      /\ p \in H <=> (p \in Players /\ TeamOf(p) = t /\ Holds(w, p, i))
  BY OthersHold DEF HoldersOf
<1>6. N \subseteq M \cup {p} /\ ((TeamOf(p) = t /\ p \in v.bgs[i].players) \/ p \notin N)
  <2>1. v.bgs[i].players \subseteq Players
    BY WorldFields, BattlegroundFields
  <2>2. QED
    BY <2>1 DEF MembersOf, OthersStay
<1>7. ASSUME PlaceKept(w, p, v, i, t)
      PROVE  /\ v.bgs[i].invited[t] = Cardinality(J) + v.bgs[i].lost[t]
             /\ v.bgs[i].invited[t] <= MaxPlayersPerTeam
  <2>1. p \in J <=> p \in H
    BY <1>5, <1>7 DEF PlaceKept
  <2>2. J = H
    BY <1>5, <2>1
  <2>3. v.bgs[i].invited[t] = w.bgs[i].invited[t] /\ v.bgs[i].lost[t] = w.bgs[i].lost[t]
    BY <1>7 DEF PlaceKept
  <2> HIDE DEF H, J
  <2>4. QED
    BY <1>3, <2>2, <2>3
<1>8. ASSUME PlaceGivenBack(w, p, v, i, t) \/ PlaceLost(w, p, v, i, t)
      PROVE  /\ v.bgs[i].invited[t] = Cardinality(J) + v.bgs[i].lost[t]
             /\ v.bgs[i].invited[t] <= MaxPlayersPerTeam
  <2>1. p \in H /\ p \notin J
    BY <1>5, <1>8 DEF PlaceGivenBack, PlaceLost
  <2>2. J = H \ {p}
    BY <1>5, <2>1
  <2>3. Cardinality(H \ {p}) = Cardinality(H) - 1
    BY <1>1, <2>1, FS_RemoveElement
  <2>4. \/ /\ v.bgs[i].invited[t] = w.bgs[i].invited[t] - 1
           /\ v.bgs[i].lost[t] = w.bgs[i].lost[t]
        \/ /\ v.bgs[i].invited[t] = w.bgs[i].invited[t]
           /\ v.bgs[i].lost[t] = w.bgs[i].lost[t] + 1
    BY <1>8 DEF PlaceGivenBack, PlaceLost
  <2> HIDE DEF H, J
  <2>5. QED
    BY <1>1, <1>2, <1>3, <1>4, <2>2, <2>3, <2>4
<1>9. Cardinality(N) <= v.bgs[i].count[t]
  <2>0. Recounted(w, p, v, i, t)
    OBVIOUS
  <2>1. CASE /\ v.bgs[i].count[t] = w.bgs[i].count[t]
             /\ TeamOf(p) = t /\ p \in v.bgs[i].players => p \in w.bgs[i].players
    <3>1. N \subseteq M
      BY <1>6, <2>1 DEF MembersOf
    <3>2. Cardinality(N) <= Cardinality(M)
      BY <1>1, <3>1, FS_Subset
    <3> HIDE DEF M, N
    <3>3. QED
      BY <1>1, <1>2, <1>3, <2>1, <3>2
  <2>2. CASE v.bgs[i].count[t] = w.bgs[i].count[t] + 1
    <3>1. /\ IsFiniteSet(M \cup {p}) /\ Cardinality(M \cup {p}) \in Nat
          /\ Cardinality(M \cup {p}) <= Cardinality(M) + 1
      <4>1. CASE p \in M
        <5>1. M \cup {p} = M
          BY <4>1
        <5>2. Cardinality(M) <= Cardinality(M) + 1
          BY <1>1
        <5>3. QED
          BY <1>1, <5>1, <5>2, Zenon
      <4>2. CASE p \notin M
        <5> HIDE DEF M
        <5>1. IsFiniteSet(M \cup {p}) /\ Cardinality(M \cup {p}) = Cardinality(M) + 1
          BY <1>1, <4>2, FS_AddElement
        <5>2. QED
          BY <1>1, <5>1
      <4>3. QED
        BY <4>1, <4>2
    <3>2. Cardinality(N) <= Cardinality(M \cup {p})
      BY <1>6, <3>1, FS_Subset
    <3> HIDE DEF M, N
    <3>3. QED
      BY <1>1, <1>2, <1>3, <2>2, <3>1, <3>2
  <2>3. CASE /\ v.bgs[i].count[t] = w.bgs[i].count[t] - 1
             /\ p \in w.bgs[i].players /\ TeamOf(p) = t /\ p \notin v.bgs[i].players
    <3>1. p \in M /\ N \subseteq M \ {p}
      BY <1>6, <2>3 DEF MembersOf
    <3>2. Cardinality(M \ {p}) = Cardinality(M) - 1 /\ IsFiniteSet(M \ {p})
      BY <1>1, <3>1, FS_RemoveElement
    <3>3. Cardinality(N) <= Cardinality(M \ {p})
      BY <3>1, <3>2, FS_Subset
    <3> HIDE DEF M, N
    <3>4. QED
      BY <1>1, <1>2, <1>3, <2>3, <3>2, <3>3
  <2>4. QED
    BY <2>0, <2>1, <2>2, <2>3 DEF Recounted
<1>10. QED
  BY <1>7, <1>8, <1>9 DEF PlaceAccounted

(* The battlegrounds' own parts, when only their numbers change.           *)
SameBattles(w, v) ==
  /\ \A i \in Instances : /\ v.bgs[i].status = w.bgs[i].status
                          /\ v.bgs[i].players = w.bgs[i].players
                          /\ v.bgs[i].offline = w.bgs[i].offline
                          /\ v.bgs[i].status = "none" => v.bgs[i] = w.bgs[i]
  /\ v.freeSlots = w.freeSlots

LEMMA BattlesStay ==
    ASSUME NEW w \in Worlds, NEW v \in Worlds, SameBattles(w, v)
    PROVE  /\ DeadAreEmpty(w) => DeadAreEmpty(v)
           /\ FreeSlotsOK(w) => FreeSlotsOK(v)
           /\ OfflineOK(w) /\ (\A i \in Instances : \A p \in w.bgs[i].players :
                                 Connected(v, p) <=> Connected(w, p)) => OfflineOK(v)
<1>1. DeadAreEmpty(w) => DeadAreEmpty(v)
  BY DEF DeadAreEmpty, SameBattles
<1>2. FreeSlotsOK(w) => FreeSlotsOK(v)
  <2>1. ToSet(w.freeSlots) \subseteq Instances
    BY WorldFields, LenProperties DEF ToSet
  <2>2. QED
    BY <2>1 DEF FreeSlotsOK, SameBattles
<1>3. ASSUME OfflineOK(w), NEW i \in Instances,
             \A p \in w.bgs[i].players : Connected(v, p) <=> Connected(w, p)
      PROVE  OfflineExact(v, i)
  BY <1>3 DEF OfflineOK, OfflineExact, SameBattles
<1>4. QED
  BY <1>1, <1>2, <1>3 DEF OfflineOK

LEMMA PlayerStep ==
    ASSUME NEW w, Inv(w), NEW v \in Worlds, NEW p, OthersStay(w, p, v),
           \A i \in Instances : p \in v.bgs[i].players =>
              v.bgId[p] = i /\ v.where[p] \in {"inside", "offline_inside"},
           p \in Players => HolderKeepsSlot(v, p),
           \A i \in Instances, t \in Teams :
             PlaceAccounted(w, p, v, i, t) /\ Recounted(w, p, v, i, t),
           DeadAreEmpty(v), FreeSlotsOK(v), OfflineOK(v)
    PROVE  Inv(v)
<1>1. w \in Worlds /\ Waiting(w) /\ MembersAreInside(w) /\ HoldersKeepSlots(w) /\ PlacesOK(w)
  BY DEF Inv
<1>2. Waiting(v)
  BY <1>1, WaitingStays
<1>3. MembersAreInside(v)
  BY <1>1, MembersStay
<1>4. HoldersKeepSlots(v)
  BY <1>1, HoldersStay
<1>5. PlacesOK(v)
  BY <1>1, <1>2, PlacesStay
<1>6. QED
  BY <1>2, <1>3, <1>4, <1>5 DEF Inv

LEMMA InTeamsOf == ASSUME NEW w, Waiting(w) PROVE OnePlace(w.queue) /\ InTeams(w.queue)
  BY DEF Waiting, QueuedOK, InTeams

(* A battleground in which a place is held exists.                         *)
LEMMA HeldIsLive ==
    ASSUME NEW w, Inv(w), NEW p \in Players, NEW i \in Instances, Holds(w, p, i)
    PROVE  Live(w, i)
<1> DEFINE t == TeamOf(p)
           H == HoldersOf(w, i, t)
<1>1. w \in Worlds /\ t \in Teams
  BY TeamOfType DEF Inv
<1>2. p \in H /\ IsFiniteSet(H) /\ Cardinality(H) \in Nat
  BY <1>1, HoldersAreFinite DEF HoldersOf
<1> HIDE DEF t
<1>3. Cardinality(H) # 0
  BY <1>2, FS_EmptySet
<1>4. w.bgs[i].invited[t] = Cardinality(H) + w.bgs[i].lost[t] /\ w.bgs[i].lost[t] \in Nat
  BY <1>1, WorldFields, BattlegroundFields DEF Inv, PlacesOK
<1>5. w.bgs[i].invited[t] # 0
  BY <1>2, <1>3, <1>4
<1>6. QED
  BY <1>1, <1>5 DEF Inv, DeadAreEmpty, NoBattleground, Zero, Live

(* A queued player: in the world, in no battleground, invited to one that  *)
(* exists if invited.                                                      *)
LEMMA QueuedPlayer ==
    ASSUME NEW w, Inv(w), NEW p \in QueuedPlayers(w)
    PROVE  LET g == GroupOf(w, p)
           IN  /\ p \in Players /\ g \in Group /\ g.team = TeamOf(p) /\ InWorld(w, p)
               /\ w.slot[p] = g.invited /\ \A i \in Instances : p \notin w.bgs[i].players
               /\ g.invited # 0 => Live(w, g.invited)
<1>1. w \in Worlds /\ Waiting(w) /\ w.queue \in Queues
  BY WorldFields DEF Inv, Queues
<1> DEFINE g == GroupOf(w, p)
<1>2. PICK l \in Lists : \E k \in DOMAIN w.queue[l] : g = w.queue[l][k] /\ p \in w.queue[l][k].players
  BY <1>1, PositionOf
<1>3. PICK k \in DOMAIN w.queue[l] : g = w.queue[l][k] /\ p \in w.queue[l][k].players
  BY <1>2
<1>4. p \in Players /\ g \in Group /\ g.invited \in 0..MaxBattlegrounds
  BY <1>1, <1>3, GroupAt
<1> HIDE DEF g
<1>5. /\ g.team = TeamOf(p) /\ InWorld(w, p)
      /\ w.slot[p] = g.invited /\ \A i \in Instances : p \notin w.bgs[i].players
  BY <1>1, <1>3 DEF Waiting, QueuedOK
<1>6. ASSUME g.invited # 0 PROVE Live(w, g.invited)
  <2>1. g.invited \in Instances
    BY <1>4, <1>6, BattlegroundConstants DEF Instances
  <2>2. Holds(w, p, g.invited)
    BY DEF Holds, InvitedTo, g
  <2>3. QED
    BY <1>4, <2>1, <2>2, HeldIsLive
<1>7. QED
  BY <1>4, <1>5, <1>6 DEF g

(* A player out of the queue, its slot set.                                *)
Taken(w, p, x, decrease, u) ==
  /\ u \in Worlds
  /\ u.where = w.where /\ u.bgId = w.bgId /\ u.slot = [w.slot EXCEPT ![p] = x]
  /\ u.scheduled = w.scheduled /\ u.mishaps = w.mishaps
  /\ OthersStay(w, p, u) /\ SameBattles(w, u)
  /\ \A i \in Instances, t \in Teams :
       /\ u.bgs[i].count[t] = w.bgs[i].count[t] /\ u.bgs[i].lost[t] = w.bgs[i].lost[t]
       /\ \/ /\ u.bgs[i].invited[t] = w.bgs[i].invited[t]
             /\ decrease /\ TeamOf(p) = t => InvitedTo(w, p) # i
          \/ /\ decrease /\ u.bgs[i].invited[t] = w.bgs[i].invited[t] - 1
             /\ TeamOf(p) = t /\ Holds(w, p, i) /\ InWorld(w, p)
             /\ p \notin w.bgs[i].players

LEMMA TakenOut ==
    ASSUME NEW w, Inv(w), NEW p \in Players, NEW x \in {NotQueued} \cup 0..MaxBattlegrounds,
           NEW decrease \in BOOLEAN
    PROVE  Taken(w, p, x, decrease, RemovePlayer([w EXCEPT !.slot[p] = x], p, decrease))
<1> DEFINE s == [w EXCEPT !.slot[p] = x]
           u == RemovePlayer(s, p, decrease)
           g == GroupOf(w, p)
<1>1. w \in Worlds /\ Waiting(w) /\ w.bgs \in [Instances -> Battleground]
  BY WorldFields DEF Inv
<1>2. /\ s \in Worlds /\ s.where = w.where /\ s.bgId = w.bgId /\ s.slot = [w.slot EXCEPT ![p] = x]
      /\ s.queue = w.queue /\ s.bgs = w.bgs /\ s.freeSlots = w.freeSlots /\ s.timers = w.timers
      /\ s.scheduled = w.scheduled /\ s.mishaps = w.mishaps
  BY <1>1 DEF Worlds
<1> HIDE DEF s
<1>3. GroupOf(s, p) = g /\ QueuedPlayers(s) = QueuedPlayers(w)
  BY <1>2 DEF GroupOf, QueuedPlayers, GroupsOf
<1>4. GivesPlaceBack(s, g.invited, decrease) <=> decrease /\ Live(w, g.invited)
  BY <1>2 DEF GivesPlaceBack, Live
<1>5. OnePlace(s.queue) /\ InTeams(s.queue)
  BY <1>1, <1>2, InTeamsOf
<1>6. Dequeued(s, p, decrease, u)
  BY <1>2, <1>5, DequeueEffect
<1> HIDE DEF u
<1>7. u.bgs = IF p \in QueuedPlayers(w) /\ decrease /\ Live(w, g.invited)
              THEN [w.bgs EXCEPT ![g.invited] = Uninvited(w, g.invited, g.team)]
              ELSE w.bgs
  BY <1>2, <1>3, <1>4, <1>6 DEF Uninvited, Dequeued
<1>8. ASSUME NEW i \in Instances
      PROVE  /\ u.bgs[i].status = w.bgs[i].status /\ u.bgs[i].players = w.bgs[i].players
             /\ u.bgs[i].offline = w.bgs[i].offline
             /\ u.bgs[i].status = "none" => u.bgs[i] = w.bgs[i]
             /\ \A t \in Teams :
                  /\ u.bgs[i].count[t] = w.bgs[i].count[t] /\ u.bgs[i].lost[t] = w.bgs[i].lost[t]
                  /\ \/ /\ u.bgs[i].invited[t] = w.bgs[i].invited[t]
                        /\ decrease /\ TeamOf(p) = t => InvitedTo(w, p) # i
                     \/ /\ decrease /\ u.bgs[i].invited[t] = w.bgs[i].invited[t] - 1
                        /\ TeamOf(p) = t /\ Holds(w, p, i) /\ InWorld(w, p)
                        /\ p \notin w.bgs[i].players
  <2>1. CASE p \in QueuedPlayers(w) /\ decrease /\ Live(w, g.invited) /\ i = g.invited
    <3>1. /\ g.team = TeamOf(p) /\ InWorld(w, p) /\ p \notin w.bgs[i].players /\ g.team \in Teams
      BY <2>1, QueuedPlayer, TeamOfType
    <3>2. Holds(w, p, i) /\ w.bgs[i].status # "none"
      BY <2>1 DEF Holds, InvitedTo, Live
    <3> DEFINE b == Uninvited(w, i, g.team)
    <3>3. OneFewer(w.bgs[i], g.team, b)
      <4> HIDE DEF g
      <4>1. QED
        BY <1>1, <3>1, UninvitedEffect
    <3>4. u.bgs[i] = b
      BY <1>1, <1>7, <2>1
    <3>5. w.bgs[i].invited \in [Teams -> Int]
      BY <1>1, BattlegroundFields
    <3> HIDE DEF b, g
    <3>6. /\ b.status = w.bgs[i].status /\ b.players = w.bgs[i].players
          /\ b.offline = w.bgs[i].offline /\ b.count = w.bgs[i].count /\ b.lost = w.bgs[i].lost
          /\ b.invited = [w.bgs[i].invited EXCEPT ![g.team] = @ - 1]
      BY <3>3 DEF OneFewer
    <3>7. ASSUME NEW t \in Teams
          PROVE  \/ t # g.team /\ b.invited[t] = w.bgs[i].invited[t]
                 \/ t = g.team /\ b.invited[t] = w.bgs[i].invited[t] - 1
      BY <3>1, <3>5, <3>6
    <3>8. QED
      BY <2>1, <3>1, <3>2, <3>4, <3>6, <3>7
  <2>2. CASE ~(p \in QueuedPlayers(w) /\ decrease /\ Live(w, g.invited) /\ i = g.invited)
    <3>1. u.bgs[i] = w.bgs[i]
      <4> HIDE DEF g
      <4>1. QED
        BY <1>1, <1>7, <2>2
    <3>2. ASSUME decrease PROVE InvitedTo(w, p) # i
      <4>1. i # 0
        BY DEF Instances
      <4>2. p \in QueuedPlayers(w) /\ g.invited # 0 => Live(w, g.invited)
        BY QueuedPlayer
      <4>3. QED
        BY <2>2, <3>2, <4>1, <4>2 DEF InvitedTo
    <3>3. QED
      BY <3>1, <3>2
  <2>3. QED
    BY <2>1, <2>2
<1>9. OthersStay(w, p, u)
  <2>1. \A y \in Players \ {p} : u.slot[y] = w.slot[y]
    BY <1>1, <1>2, <1>6, WorldFields DEF Dequeued
  <2>2. QED
    BY <1>2, <1>6, <1>8, <2>1 DEF OthersStay, Dequeued
<1>10. SameBattles(w, u)
  BY <1>2, <1>6, <1>8 DEF SameBattles, Dequeued
<1>11. QED
  BY <1>2, <1>6, <1>8, <1>9, <1>10 DEF u, s, Dequeued, Taken

-----------------------------------------------------------------------------
(* Joining the queue.                                                      *)

LEMMA PlacesFrame ==
    ASSUME NEW w \in Worlds, NEW v \in Worlds, PlacesOK(w), v.bgs = w.bgs,
           \A x \in Players, i \in Instances : Holds(v, x, i) <=> Holds(w, x, i)
    PROVE  PlacesOK(v)
<1>1. ASSUME NEW i \in Instances, NEW t \in Teams
      PROVE  HoldersOf(v, i, t) = HoldersOf(w, i, t) /\ MembersOf(v, i, t) = MembersOf(w, i, t)
  BY DEF HoldersOf, MembersOf
<1>2. QED
  BY <1>1 DEF PlacesOK

NewGroup(S, t) == [players |-> S, team |-> t, invited |-> 0, left |-> 0]

Joined(w, S, t, kind, v) ==
  /\ v \in Worlds
  /\ v.where = w.where /\ v.bgId = w.bgId /\ v.bgs = w.bgs
  /\ v.freeSlots = w.freeSlots /\ v.timers = w.timers
  /\ v.scheduled = TRUE /\ v.mishaps = w.mishaps
  /\ v.slot = [p \in Players |-> IF p \in S THEN 0 ELSE w.slot[p]]
  /\ v.queue = [w.queue EXCEPT ![<<kind, t>>] = Append(w.queue[<<kind, t>>], NewGroup(S, t))]

LEMMA NewGroupType ==
    ASSUME NEW S \in (SUBSET Players) \ {{}}, NEW t \in Teams
    PROVE  NewGroup(S, t) \in Group
  BY BattlegroundConstants DEF NewGroup, Group

LEMMA JoinEffect ==
    ASSUME NEW w \in Worlds, NEW S \in (SUBSET Players) \ {{}}, NEW t \in Teams,
           NEW kind \in {"premade", "normal"}
    PROVE  Joined(w, S, t, kind, [AddToQueue(w, S, t, kind) EXCEPT !.scheduled = TRUE])
<1> DEFINE L == Append(w.queue[<<kind, t>>], NewGroup(S, t))
           Q == [w.queue EXCEPT ![<<kind, t>>] = L]
           sl == [p \in Players |-> IF p \in S THEN 0 ELSE w.slot[p]]
           u == [w EXCEPT !.queue = Q, !.slot = sl]
           v == [u EXCEPT !.scheduled = TRUE]
<1>1. <<kind, t>> \in Lists /\ w.queue \in [Lists -> Seq(Group)] /\ NewGroup(S, t) \in Group
  BY WorldFields, NewGroupType DEF Lists
<1>2. L \in Seq(Group)
  BY <1>1
<1>3. Q \in [Lists -> Seq(Group)]
  BY <1>1, <1>2
<1>4. sl \in [Players -> {NotQueued} \cup 0..MaxBattlegrounds]
  BY WorldFields, BattlegroundConstants
<1>5. AddToQueue(w, S, t, kind) = u
  BY DEF AddToQueue, NewGroup
<1> HIDE DEF Q, sl
<1>6. /\ u \in Worlds /\ u.queue = Q /\ u.slot = sl
      /\ u.where = w.where /\ u.bgId = w.bgId /\ u.bgs = w.bgs
      /\ u.freeSlots = w.freeSlots /\ u.timers = w.timers /\ u.mishaps = w.mishaps
  BY <1>3, <1>4 DEF Worlds
<1> HIDE DEF u
<1>7. /\ v \in Worlds /\ v.queue = Q /\ v.slot = sl /\ v.scheduled = TRUE
      /\ v.where = w.where /\ v.bgId = w.bgId /\ v.bgs = w.bgs
      /\ v.freeSlots = w.freeSlots /\ v.timers = w.timers /\ v.mishaps = w.mishaps
  BY <1>6 DEF Worlds
<1> HIDE DEF v
<1>8. QED
  BY <1>5, <1>7 DEF Joined, v, Q, sl

LEMMA JoinKeeps ==
    ASSUME NEW w, Inv(w), NEW S \in (SUBSET Players) \ {{}}, NEW t \in Teams,
           NEW kind \in {"premade", "normal"},
           \A p \in S : TeamOf(p) = t /\ Connected(w, p) /\ w.slot[p] = NotQueued
    PROVE  Inv([AddToQueue(w, S, t, kind) EXCEPT !.scheduled = TRUE])
<1> DEFINE v == [AddToQueue(w, S, t, kind) EXCEPT !.scheduled = TRUE]
           q == w.queue
           r == v.queue
           l0 == <<kind, t>>
           g == NewGroup(S, t)
<1>1. w \in Worlds /\ q \in Queues /\ Waiting(w) /\ l0 \in Lists /\ l0[2] = t
  BY WorldFields DEF Inv, Queues, Lists
<1>2. Joined(w, S, t, kind, v)
  BY <1>1, JoinEffect
<1> HIDE DEF v
<1>3. v \in Worlds /\ r \in Queues
  BY <1>2, WorldFields DEF Joined, Queues
<1>4. /\ g \in Group /\ g.players = S /\ g.team = t /\ g.invited = 0
  BY NewGroupType DEF NewGroup
<1>5. ASSUME NEW l \in Lists, NEW k \in DOMAIN r[l]
      PROVE  \/ k \in DOMAIN q[l] /\ r[l][k] = q[l][k]
             \/ l = l0 /\ k = Len(q[l]) + 1 /\ r[l][k] = g
  <2>1. q[l] \in Seq(Group) /\ Len(q[l]) \in Nat /\ DOMAIN q[l] = 1..Len(q[l])
    BY <1>1, LenProperties DEF Queues
  <2>2. CASE l = l0
    <3>1. r[l] = Append(q[l], g)
      BY <1>1, <1>2, <2>2 DEF Joined, Queues
    <3> HIDE DEF q, r, g
    <3>2. /\ DOMAIN r[l] = 1..Len(q[l]) + 1
          /\ \A j \in 1..Len(q[l]) + 1 : r[l][j] = IF j <= Len(q[l]) THEN q[l][j] ELSE g
      BY <1>4, <2>1, <3>1
    <3>3. k \in DOMAIN r[l]
      BY <1>5
    <3>4. k \in 1..Len(q[l]) \/ (k = Len(q[l]) + 1 /\ ~(k <= Len(q[l])))
      BY <2>1, <3>2, <3>3
    <3>5. k \in 1..Len(q[l]) => k <= Len(q[l])
      BY <2>1
    <3>6. r[l][k] = IF k <= Len(q[l]) THEN q[l][k] ELSE g
      BY <3>2, <3>3
    <3>7. QED
      BY <2>1, <2>2, <3>4, <3>5, <3>6
  <2>3. CASE l # l0
    <3>1. r[l] = q[l]
      BY <1>1, <1>2, <2>3 DEF Joined, Queues
    <3>2. QED
      BY <3>1
  <2>4. QED
    BY <2>2, <2>3
<1>6. ASSUME NEW p \in S
      PROVE  /\ p \in Players /\ p \notin QueuedPlayers(w) /\ InWorld(w, p)
             /\ \A i \in Instances : p \notin w.bgs[i].players
  <2>1. p \in Players /\ HolderKeepsSlot(w, p) /\ w.slot[p] = NotQueued /\ Connected(w, p)
    BY DEF Inv, HoldersKeepSlots
  <2>2. p \notin QueuedPlayers(w)
    <3>1. ASSUME p \in QueuedPlayers(w) PROVE FALSE
      <4>1. w.slot[p] = GroupOf(w, p).invited /\ GroupOf(w, p) \in Group
        BY <3>1, QueuedPlayer
      <4>2. QED
        BY <2>1, <4>1 DEF Group, NotQueued
    <3>2. QED
      BY <3>1
  <2>3. QED
    BY <2>1, <2>2 DEF HolderKeepsSlot, Connected, InWorld
<1>7. ASSUME NEW l \in Lists, NEW k \in DOMAIN q[l] PROVE S \cap q[l][k].players = {}
  <2>1. \A x \in q[l][k].players : x \in QueuedPlayers(w)
    BY <1>1, GroupOfIsAt DEF Waiting
  <2>2. QED
    BY <1>6, <2>1
<1>8. OnePlace(r)
  <2>1. ASSUME NEW l \in Lists, NEW m \in Lists, NEW k \in DOMAIN r[l], NEW n \in DOMAIN r[m],
               r[l][k].players \cap r[m][n].players # {}
        PROVE  l = m /\ k = n
    <3>1. CASE k \in DOMAIN q[l] /\ r[l][k] = q[l][k] /\ n \in DOMAIN q[m] /\ r[m][n] = q[m][n]
      BY <1>1, <2>1, <3>1 DEF Waiting, OnePlace
    <3>2. CASE l = l0 /\ k = Len(q[l]) + 1 /\ m = l0 /\ n = Len(q[m]) + 1
      BY <3>2
    <3>3. CASE r[l][k] = g /\ n \in DOMAIN q[m] /\ r[m][n] = q[m][n]
      BY <1>4, <1>7, <2>1, <3>3
    <3>4. CASE r[m][n] = g /\ k \in DOMAIN q[l] /\ r[l][k] = q[l][k]
      BY <1>4, <1>7, <2>1, <3>4
    <3>5. QED
      BY <1>5, <3>1, <3>2, <3>3, <3>4
  <2>2. QED
    BY <2>1 DEF OnePlace
<1>9. ASSUME NEW x \in Players
      PROVE  /\ InWorld(v, x) <=> InWorld(w, x)
             /\ Connected(v, x) <=> Connected(w, x)
             /\ v.slot[x] = IF x \in S THEN 0 ELSE w.slot[x]
  BY <1>2 DEF Joined, InWorld, Connected
<1>10. QueuedOK(v)
  <2>1. ASSUME NEW l \in Lists, NEW k \in DOMAIN r[l]
        PROVE  /\ r[l][k].team = l[2]
               /\ \A x \in r[l][k].players :
                    /\ TeamOf(x) = l[2] /\ InWorld(v, x) /\ v.slot[x] = r[l][k].invited
                    /\ \A i \in Instances : x \notin v.bgs[i].players
    <3>0. v.bgs = w.bgs
      BY <1>2 DEF Joined
    <3>1. CASE k \in DOMAIN q[l] /\ r[l][k] = q[l][k]
      <4>1. /\ q[l][k].team = l[2]
            /\ \A x \in q[l][k].players :
                 /\ TeamOf(x) = l[2] /\ InWorld(w, x) /\ w.slot[x] = q[l][k].invited
                 /\ \A i \in Instances : x \notin w.bgs[i].players
        BY <1>1, <3>1 DEF Waiting, QueuedOK
      <4>2. q[l][k].players \subseteq Players
        BY <1>1, <3>1, GroupAt
      <4>3. QED
        BY <1>7, <1>9, <3>0, <3>1, <4>1, <4>2
    <3>2. CASE l = l0 /\ r[l][k] = g
      BY <1>1, <1>4, <1>6, <1>9, <3>0, <3>2
    <3>3. QED
      BY <1>5, <3>1, <3>2
  <2>2. QED
    BY <2>1 DEF QueuedOK
<1>11. TimersOK(v)
  <2>1. ASSUME NEW l \in Lists, NEW k \in DOMAIN r[l], r[l][k].invited # 0
        PROVE  \A x \in r[l][k].players :
                 [player |-> x, instance |-> r[l][k].invited, left |-> r[l][k].left] \in v.timers
    <3>1. k \in DOMAIN q[l] /\ r[l][k] = q[l][k]
      BY <1>4, <1>5, <2>1
    <3>2. v.timers = w.timers
      BY <1>2 DEF Joined
    <3>3. QED
      BY <1>1, <2>1, <3>1, <3>2 DEF Waiting, TimersOK
  <2>2. QED
    BY <2>1 DEF TimersOK
<1>12. Waiting(v)
  BY <1>8, <1>10, <1>11 DEF Waiting
<1>13. MembersAreInside(v) /\ SameBattles(w, v)
  BY <1>2 DEF Inv, MembersAreInside, Joined, SameBattles
<1>14. DeadAreEmpty(v) /\ FreeSlotsOK(v) /\ OfflineOK(v)
  <2>1. \A i \in Instances : \A p \in w.bgs[i].players : Connected(v, p) <=> Connected(w, p)
    BY <1>2 DEF Joined, Connected
  <2>2. QED
    BY <1>1, <1>3, <1>13, <2>1, BattlesStay DEF Inv
<1>15. HoldersKeepSlots(v)
  <2>1. ASSUME NEW x \in Players PROVE HolderKeepsSlot(v, x)
    <3>1. HolderKeepsSlot(w, x) /\ v.bgs = w.bgs /\ v.where = w.where /\ v.bgId = w.bgId
      BY <1>2 DEF Inv, HoldersKeepSlots, Joined
    <3>2. x \in S => w.where[x] # "porting"
      BY <3>1 DEF HolderKeepsSlot
    <3>3. QED
      BY <1>9, <3>1, <3>2 DEF HolderKeepsSlot, NotQueued
  <2>2. QED
    BY <2>1 DEF HoldersKeepSlots
<1>16. PlacesOK(v)
  <2>1. ASSUME NEW x \in Players, NEW i \in Instances, InvitedTo(v, x) = i
        PROVE  InvitedTo(w, x) = i
    <3>1. i # 0
      BY DEF Instances
    <3>2. x \in QueuedPlayers(v) /\ GroupOf(v, x).invited = i
      BY <2>1, <3>1 DEF InvitedTo
    <3>3. PICK l \in Lists : \E k \in DOMAIN r[l] : GroupOf(v, x) = r[l][k] /\ x \in r[l][k].players
      BY <1>3, <3>2, PositionOf
    <3>4. PICK k \in DOMAIN r[l] : GroupOf(v, x) = r[l][k] /\ x \in r[l][k].players
      BY <3>3
    <3>5. k \in DOMAIN q[l] /\ r[l][k] = q[l][k]
      BY <1>4, <1>5, <3>1, <3>2, <3>4
    <3>6. x \in QueuedPlayers(w) /\ GroupOf(w, x) = q[l][k]
      BY <1>1, <3>4, <3>5, GroupOfIsAt DEF Waiting
    <3>7. QED
      BY <3>2, <3>4, <3>5, <3>6 DEF InvitedTo
  <2>2. v.where = w.where /\ v.bgId = w.bgId /\ v.bgs = w.bgs
    BY <1>2 DEF Joined
  <2>5. ASSUME NEW l \in Lists, NEW k \in DOMAIN q[l] PROVE k \in DOMAIN r[l] /\ r[l][k] = q[l][k]
    <3>1. q[l] \in Seq(Group) /\ Len(q[l]) \in Nat /\ DOMAIN q[l] = 1..Len(q[l])
      BY <1>1, LenProperties DEF Queues
    <3>2. r[l] = q[l] \/ r[l] = Append(q[l], g)
      <4>1. l = l0 => r[l] = Append(q[l], g)
        BY <1>1, <1>2 DEF Joined, Queues
      <4>2. l # l0 => r[l] = q[l]
        BY <1>1, <1>2 DEF Joined, Queues
      <4>3. QED
        BY <4>1, <4>2
    <3>3. k \in 1..Len(q[l]) /\ Len(q[l]) \in Nat
      <4> HIDE DEF q
      <4>1. QED
        BY <2>5, <3>1
    <3> HIDE DEF q, r, g
    <3>4. /\ DOMAIN Append(q[l], g) = 1..Len(q[l]) + 1
          /\ \A j \in 1..Len(q[l]) + 1 : Append(q[l], g)[j] = IF j <= Len(q[l]) THEN q[l][j] ELSE g
      BY <1>4, <3>1
    <3>5. k \in 1..Len(q[l]) + 1 /\ k <= Len(q[l])
      BY <3>3
    <3>6. k \in DOMAIN Append(q[l], g) /\ Append(q[l], g)[k] = q[l][k]
      BY <3>4, <3>5
    <3>7. QED
      BY <2>5, <3>2, <3>6
  <2>6. ASSUME NEW x \in Players, NEW i \in Instances, InvitedTo(w, x) = i
        PROVE  InvitedTo(v, x) = i
    <3>1. i # 0
      BY DEF Instances
    <3>2. x \in QueuedPlayers(w) /\ GroupOf(w, x).invited = i
      BY <2>6, <3>1 DEF InvitedTo
    <3>3. PICK l \in Lists : \E k \in DOMAIN q[l] : GroupOf(w, x) = q[l][k] /\ x \in q[l][k].players
      BY <1>1, <3>2, PositionOf
    <3>4. PICK k \in DOMAIN q[l] : GroupOf(w, x) = q[l][k] /\ x \in q[l][k].players
      BY <3>3
    <3>5. k \in DOMAIN r[l] /\ r[l][k] = q[l][k]
      BY <2>5
    <3>6. x \in QueuedPlayers(v) /\ GroupOf(v, x) = r[l][k]
      BY <1>3, <1>12, <3>4, <3>5, GroupOfIsAt DEF Waiting
    <3>7. QED
      BY <3>2, <3>4, <3>5, <3>6 DEF InvitedTo
  <2>3. \A x \in Players, i \in Instances : Holds(v, x, i) <=> Holds(w, x, i)
    BY <2>1, <2>2, <2>6 DEF Holds
  <2>4. QED
    BY <1>1, <1>3, <2>2, <2>3, PlacesFrame DEF Inv
<1>17. QED
  BY <1>3, <1>12, <1>13, <1>14, <1>15, <1>16 DEF Inv, v

-----------------------------------------------------------------------------
(* Steps that leave the queue and everyone's share in it alone.            *)

LEMMA QuietStep ==
    ASSUME NEW w, Inv(w), NEW v \in Worlds,
           v.queue = w.queue, v.timers = w.timers, v.slot = w.slot,
           \A x \in Players : /\ InWorld(v, x) <=> InWorld(w, x)
                              /\ Connected(v, x) <=> Connected(w, x)
                              /\ v.where[x] = "porting" <=> w.where[x] = "porting"
                              /\ v.where[x] = "porting" => v.bgId[x] = w.bgId[x],
           \A i \in Instances :
             /\ v.bgs[i].players = w.bgs[i].players
             /\ v.bgs[i].invited = w.bgs[i].invited /\ v.bgs[i].lost = w.bgs[i].lost
             /\ \/ v.bgs[i].count = w.bgs[i].count
                \/ v.bgs[i].players = {} /\ v.bgs[i].count = Zero,
           MembersAreInside(v), DeadAreEmpty(v), FreeSlotsOK(v), OfflineOK(v)
    PROVE  Inv(v)
<1>1. w \in Worlds /\ Waiting(w) /\ HoldersKeepSlots(w) /\ PlacesOK(w) /\ w.queue \in Queues
  BY WorldFields DEF Inv, Queues
<1>2. QueuedOK(v)
  <2>1. ASSUME NEW l \in Lists, NEW k \in DOMAIN v.queue[l]
        PROVE  /\ v.queue[l][k].team = l[2]
               /\ \A x \in v.queue[l][k].players :
                    /\ TeamOf(x) = l[2] /\ InWorld(v, x) /\ v.slot[x] = v.queue[l][k].invited
                    /\ \A i \in Instances : x \notin v.bgs[i].players
    <3>1. /\ w.queue[l][k].team = l[2]
          /\ \A x \in w.queue[l][k].players :
               /\ TeamOf(x) = l[2] /\ InWorld(w, x) /\ w.slot[x] = w.queue[l][k].invited
               /\ \A i \in Instances : x \notin w.bgs[i].players
      BY <1>1 DEF Waiting, QueuedOK
    <3>2. w.queue[l][k].players \subseteq Players
      BY <1>1, GroupAt
    <3>3. QED
      BY <3>1, <3>2
  <2>2. QED
    BY <2>1 DEF QueuedOK
<1>3. Waiting(v)
  BY <1>1, <1>2 DEF Waiting, TimersOK
<1>4. HoldersKeepSlots(v)
  BY <1>1 DEF HoldersKeepSlots, HolderKeepsSlot
<1>5. ASSUME NEW i \in Instances, NEW t \in Teams
      PROVE  /\ v.bgs[i].invited[t] = Cardinality(HoldersOf(v, i, t)) + v.bgs[i].lost[t]
             /\ v.bgs[i].invited[t] <= MaxPlayersPerTeam
             /\ Cardinality(MembersOf(v, i, t)) <= v.bgs[i].count[t]
  <2>1. \A x \in Players : InvitedTo(v, x) = InvitedTo(w, x)
    BY DEF InvitedTo, GroupOf, QueuedPlayers, GroupsOf
  <2>2. \A x \in Players : Holds(v, x, i) <=> Holds(w, x, i)
    BY <2>1 DEF Holds
  <2>3. HoldersOf(v, i, t) = HoldersOf(w, i, t)
    BY <2>2 DEF HoldersOf
  <2>5. /\ w.bgs[i].invited[t] = Cardinality(HoldersOf(w, i, t)) + w.bgs[i].lost[t]
        /\ w.bgs[i].invited[t] <= MaxPlayersPerTeam
        /\ Cardinality(MembersOf(w, i, t)) <= w.bgs[i].count[t]
    BY <1>1 DEF PlacesOK
  <2>6. Cardinality(MembersOf(v, i, t)) <= v.bgs[i].count[t]
    <3>1. CASE v.bgs[i].count = w.bgs[i].count
      <4>1. MembersOf(v, i, t) = MembersOf(w, i, t)
        BY DEF MembersOf
      <4>2. QED
        BY <2>5, <3>1, <4>1
    <3>2. CASE v.bgs[i].players = {} /\ v.bgs[i].count = Zero
      <4>1. MembersOf(v, i, t) = {} /\ v.bgs[i].count[t] = 0
        BY <3>2 DEF MembersOf, Zero
      <4>2. QED
        BY <4>1, FS_EmptySet
    <3>3. QED
      BY <3>1, <3>2
  <2>7. QED
    BY <2>3, <2>5, <2>6
<1>6. PlacesOK(v)
  BY <1>5 DEF PlacesOK
<1>7. QED
  BY <1>3, <1>4, <1>6 DEF Inv

LEMMA ScheduledKeeps ==
    ASSUME NEW w, Inv(w), NEW b \in BOOLEAN
    PROVE  Inv([w EXCEPT !.scheduled = b])
<1> DEFINE v == [w EXCEPT !.scheduled = b]
<1>1. /\ v \in Worlds /\ v.where = w.where /\ v.bgId = w.bgId /\ v.slot = w.slot
      /\ v.queue = w.queue /\ v.bgs = w.bgs /\ v.freeSlots = w.freeSlots /\ v.timers = w.timers
  BY DEF Inv, Worlds
<1> HIDE DEF v
<1>2. /\ \A x \in Players : /\ InWorld(v, x) <=> InWorld(w, x)
                            /\ Connected(v, x) <=> Connected(w, x)
      /\ MembersAreInside(v) /\ SameBattles(w, v)
  BY <1>1 DEF InWorld, Connected, Inv, MembersAreInside, SameBattles
<1>3. \A i \in Instances : \A p \in w.bgs[i].players : Connected(v, p) <=> Connected(w, p)
  BY <1>1 DEF Connected
<1>4. DeadAreEmpty(v) /\ FreeSlotsOK(v) /\ OfflineOK(v)
  BY <1>1, <1>2, <1>3, BattlesStay DEF Inv
<1>5. Inv(v)
  BY <1>1, <1>2, <1>4, QuietStep
<1>6. QED
  BY <1>5 DEF v

(* No longer among those that look for players: only when full.            *)
LEMMA LeaveFullBehindKeeps ==
    ASSUME NEW w, Inv(w), NEW i \in Instances
    PROVE  Inv(LeaveFullBehind(w, i))
<1> DEFINE v == RemoveFromFreeSlots(w, i)
           full == ~(Cardinality(w.bgs[i].players) < 2 * MaxPlayersPerTeam)
<1>1. CASE full
  <2>1. w \in Worlds /\ IsInjective(w.freeSlots)
    BY DEF Inv, FreeSlotsOK
  <2>2. /\ v \in Worlds /\ v.where = w.where /\ v.bgId = w.bgId /\ v.slot = w.slot
        /\ v.queue = w.queue /\ v.bgs = w.bgs /\ v.timers = w.timers
        /\ IsInjective(v.freeSlots) /\ ToSet(v.freeSlots) = ToSet(w.freeSlots) \ {i}
    BY <2>1, RemoveFromFreeSlotsEffect
  <2> HIDE DEF v
  <2>3. FreeSlotsOK(v)
    BY <1>1, <2>2 DEF FreeSlotsOK, Inv
  <2>4. MembersAreInside(v) /\ DeadAreEmpty(v) /\ OfflineOK(v)
    BY <2>2 DEF Inv, MembersAreInside, DeadAreEmpty, OfflineOK, OfflineExact, Connected
  <2>5. \A x \in Players : /\ InWorld(v, x) <=> InWorld(w, x)
                           /\ Connected(v, x) <=> Connected(w, x)
    BY <2>2 DEF InWorld, Connected
  <2>6. Inv(v)
    BY <2>2, <2>3, <2>4, <2>5, QuietStep
  <2>7. QED
    BY <1>1, <2>6 DEF v, LeaveFullBehind
<1>2. QED
  BY <1>1 DEF LeaveFullBehind

(* The end of a battle.                                                    *)
LEMMA EndKeeps ==
    ASSUME NEW w, Inv(w), NEW i \in Instances, w.bgs[i].status # "none"
    PROVE  Inv(End(w, i))
<1> DEFINE v == End(w, i)
<1>1. w \in Worlds /\ IsInjective(w.freeSlots) /\ w.bgs \in [Instances -> Battleground]
  BY WorldFields DEF Inv, FreeSlotsOK
<1>2. /\ v \in Worlds
      /\ v.where = w.where /\ v.bgId = w.bgId /\ v.slot = w.slot /\ v.queue = w.queue
      /\ v.timers = w.timers
      /\ v.bgs = [w.bgs EXCEPT ![i] = [w.bgs[i] EXCEPT !.status = "wait_leave"]]
      /\ v.bgs[i].status = "wait_leave"
      /\ v.bgs[i].players = w.bgs[i].players /\ v.bgs[i].offline = w.bgs[i].offline
      /\ v.bgs[i].invited = w.bgs[i].invited /\ v.bgs[i].count = w.bgs[i].count
      /\ v.bgs[i].lost = w.bgs[i].lost
      /\ IsInjective(v.freeSlots) /\ ToSet(v.freeSlots) = ToSet(w.freeSlots) \ {i}
  BY <1>1, EndEffect
<1> HIDE DEF v
<1>3. \A j \in Instances \ {i} : v.bgs[j] = w.bgs[j]
  BY <1>1, <1>2
<1>4. \A j \in Instances : /\ v.bgs[j].players = w.bgs[j].players
                           /\ v.bgs[j].invited = w.bgs[j].invited
                           /\ v.bgs[j].lost = w.bgs[j].lost
                           /\ v.bgs[j].count = w.bgs[j].count
  BY <1>2, <1>3
<1>5. FreeSlotsOK(v)
  <2>1. ToSet(w.freeSlots) \subseteq Instances
    BY <1>1, WorldFields, LenProperties DEF ToSet
  <2>2. QED
    BY <1>2, <1>3, <2>1 DEF FreeSlotsOK, Inv, Running
<1>6. MembersAreInside(v) /\ DeadAreEmpty(v)
  BY <1>2, <1>3, <1>4 DEF Inv, MembersAreInside, DeadAreEmpty
<1>7. OfflineOK(v)
  <2>1. ASSUME NEW j \in Instances PROVE OfflineExact(v, j)
    <3>1. CASE j = i
      BY <1>2, <3>1 DEF OfflineExact, Running
    <3>2. CASE j # i
      BY <1>2, <1>3, <3>2 DEF OfflineExact, Inv, OfflineOK, Connected
    <3>3. QED
      BY <3>1, <3>2
  <2>2. QED
    BY <2>1 DEF OfflineOK
<1>8. \A x \in Players : /\ InWorld(v, x) <=> InWorld(w, x)
                         /\ Connected(v, x) <=> Connected(w, x)
                         /\ v.where[x] = "porting" <=> w.where[x] = "porting"
                         /\ v.where[x] = "porting" => v.bgId[x] = w.bgId[x]
  BY <1>2 DEF InWorld, Connected
<1>9. \A j \in Instances :
        /\ v.bgs[j].players = w.bgs[j].players
        /\ v.bgs[j].invited = w.bgs[j].invited /\ v.bgs[j].lost = w.bgs[j].lost
        /\ \/ v.bgs[j].count = w.bgs[j].count
           \/ v.bgs[j].players = {} /\ v.bgs[j].count = Zero
  BY <1>4
<1>10. v \in Worlds /\ v.queue = w.queue /\ v.timers = w.timers /\ v.slot = w.slot
  BY <1>2
<1>11. Inv(v)
  BY <1>5, <1>6, <1>7, <1>8, <1>9, <1>10, QuietStep
<1>12. QED
  BY <1>11 DEF v

-----------------------------------------------------------------------------
(* Steps of one player that take it out of the queue.                      *)

LEMMA NotWaiting ==
    ASSUME NEW w, Inv(w), NEW p \in Players,
           w.slot[p] = NotQueued \/ \E i \in Instances : p \in w.bgs[i].players
    PROVE  p \notin QueuedPlayers(w)
<1>1. ASSUME p \in QueuedPlayers(w) PROVE FALSE
  <2>1. GroupOf(w, p) \in Group /\ w.slot[p] = GroupOf(w, p).invited
        /\ \A i \in Instances : p \notin w.bgs[i].players
    BY <1>1, QueuedPlayer
  <2>2. w.slot[p] # NotQueued
    BY <2>1 DEF Group, NotQueued
  <2>3. QED
    BY <2>1, <2>2
<1>2. QED
  BY <1>1

LEMMA MemberIsLive ==
    ASSUME NEW w, Inv(w), NEW i \in Instances, NEW p \in w.bgs[i].players
    PROVE  Live(w, i) /\ w.bgId[p] = i /\ w.where[p] \in {"inside", "offline_inside"}
           /\ \A j \in Instances : p \in w.bgs[j].players => j = i
BY DEF Inv, DeadAreEmpty, MembersAreInside, NoBattleground, Live

LEMMA HoldsAlone ==
    ASSUME NEW w \in Worlds, NEW v \in Worlds, NEW p, OthersStay(w, p, v), Waiting(w),
           NEW i \in Instances
    PROVE  Holds(v, p, i) <=> (v.where[p] = "porting" /\ v.bgId[p] = i) \/ p \in v.bgs[i].players
<1>1. InvitedTo(v, p) = 0
  BY WaitingStays, OthersHold
<1>2. i # 0
  BY DEF Instances
<1>3. QED
  BY <1>1, <1>2 DEF Holds

LEMMA QueueStep ==
    ASSUME NEW w, Inv(w), NEW p \in Players, NEW v \in Worlds,
           OthersStay(w, p, v), SameBattles(w, v), HolderKeepsSlot(v, p),
           \A i \in Instances : p \in w.bgs[i].players =>
              /\ v.bgId[p] = i /\ v.where[p] \in {"inside", "offline_inside"}
              /\ Connected(v, p) <=> Connected(w, p),
           \A i \in Instances, t \in Teams :
              /\ v.bgs[i].count[t] = w.bgs[i].count[t]
              /\ \/ /\ v.bgs[i].invited[t] = w.bgs[i].invited[t]
                    /\ v.bgs[i].lost[t] = w.bgs[i].lost[t]
                    /\ TeamOf(p) = t =>
                         (Holds(w, p, i) <=> \/ v.where[p] = "porting" /\ v.bgId[p] = i
                                             \/ p \in w.bgs[i].players)
                 \/ /\ \/ /\ v.bgs[i].invited[t] = w.bgs[i].invited[t] - 1
                          /\ v.bgs[i].lost[t] = w.bgs[i].lost[t]
                       \/ /\ v.bgs[i].invited[t] = w.bgs[i].invited[t]
                          /\ v.bgs[i].lost[t] = w.bgs[i].lost[t] + 1
                    /\ TeamOf(p) = t /\ Holds(w, p, i) /\ p \notin w.bgs[i].players
                    /\ v.where[p] # "porting"
    PROVE  Inv(v)
<1>1. w \in Worlds /\ Waiting(w)
  BY DEF Inv
<1>2. \A i \in Instances : v.bgs[i].players = w.bgs[i].players
  BY DEF SameBattles
<1>3. \A i \in Instances : p \in v.bgs[i].players =>
              v.bgId[p] = i /\ v.where[p] \in {"inside", "offline_inside"}
  BY <1>2
<1>4. ASSUME NEW i \in Instances, NEW t \in Teams
      PROVE  PlaceAccounted(w, p, v, i, t) /\ Recounted(w, p, v, i, t)
  <2>1. Holds(v, p, i) <=> (v.where[p] = "porting" /\ v.bgId[p] = i) \/ p \in v.bgs[i].players
    BY <1>1, HoldsAlone
  <2>2. p \in w.bgs[i].players => Holds(w, p, i)
    BY DEF Holds
  <2>3. Recounted(w, p, v, i, t)
    BY <1>2 DEF Recounted
  <2>4. QED
    BY <1>2, <2>1, <2>2, <2>3 DEF PlaceAccounted, PlaceKept, PlaceGivenBack, PlaceLost
<1>5. \A i \in Instances : \A x \in w.bgs[i].players : Connected(v, x) <=> Connected(w, x)
  <2>1. ASSUME NEW i \in Instances, NEW x \in w.bgs[i].players PROVE x \in Players
    BY <1>1, WorldFields, BattlegroundFields
  <2>2. QED
    BY <2>1 DEF OthersStay, Connected
<1>6. DeadAreEmpty(v) /\ FreeSlotsOK(v) /\ OfflineOK(v)
  BY <1>1, <1>5, BattlesStay DEF Inv
<1>7. QED
  BY <1>3, <1>4, <1>6, PlayerStep

(* The place of the group keeps standing for the player who accepts.       *)
Accepted(w, p, teleported) ==
  LET i  == InvitedTo(w, p)
      w1 == RemovePlayer(w, p, FALSE)
      w2 == IF w.bgId[p] # 0 /\ Live(w1, w.bgId[p]) THEN RemovePlayerAtLeave(w1, w.bgId[p], p)
            ELSE w1
  IN  IF teleported THEN [w2 EXCEPT !.bgId[p] = i, !.where[p] = "porting"]
      ELSE [w2 EXCEPT !.bgId[p] = i, !.bgs[i].lost[TeamOf(p)] = @ + 1, !.mishaps = @ + 1]

LEMMA AcceptKeeps ==
    ASSUME NEW w, Inv(w), NEW p \in Players, NEW teleported \in BOOLEAN,
           InWorld(w, p), Live(w, InvitedTo(w, p)), teleported \/ w.mishaps < MaxMishaps
    PROVE  Inv(Accepted(w, p, teleported))
<1> DEFINE i == InvitedTo(w, p)
           u == RemovePlayer(w, p, FALSE)
           j == w.bgId[p]
           x == IF j # 0 /\ Live(u, j) THEN RemovePlayerAtLeave(u, j, p) ELSE u
           n == IF teleported THEN x.mishaps ELSE x.mishaps + 1
           h == IF teleported THEN "porting" ELSE x.where[p]
           lost == [x.bgs[i].lost EXCEPT ![TeamOf(p)] = @ + 1]
           b == [x.bgs[i] EXCEPT !.lost = lost]
           c == IF teleported THEN x.bgs ELSE [x.bgs EXCEPT ![i] = b]
           v == [x EXCEPT !.bgId[p] = i, !.where[p] = h, !.mishaps = n, !.bgs = c]
<1>0. /\ w \in Worlds /\ Waiting(w) /\ w.where \in [Players -> Places]
      /\ w.bgId \in [Players -> 0..MaxBattlegrounds]
      /\ w.slot \in [Players -> {NotQueued} \cup 0..MaxBattlegrounds]
      /\ w.mishaps \in 0..MaxMishaps
  BY WorldFields DEF Inv
<1>1. /\ i \in Instances /\ p \in QueuedPlayers(w) /\ w.slot[p] = i
      /\ \A k \in Instances : p \notin w.bgs[k].players
  <2>1. i \in Instances /\ i # 0
    BY DEF Live, Instances
  <2>2. p \in QueuedPlayers(w) /\ i = GroupOf(w, p).invited
    BY <2>1 DEF InvitedTo
  <2>3. QED
    BY <2>1, <2>2, QueuedPlayer
<1>2. [w EXCEPT !.slot[p] = w.slot[p]] = w
  BY <1>0 DEF Worlds
<1>3. /\ u \in Worlds
      /\ u.where = w.where /\ u.bgId = w.bgId /\ u.slot = [w.slot EXCEPT ![p] = w.slot[p]]
      /\ u.mishaps = w.mishaps
      /\ OthersStay(w, p, u) /\ SameBattles(w, u)
      /\ \A k \in Instances, t \in Teams :
           /\ u.bgs[k].count[t] = w.bgs[k].count[t] /\ u.bgs[k].invited[t] = w.bgs[k].invited[t]
           /\ u.bgs[k].lost[t] = w.bgs[k].lost[t]
  <2>1. w.slot[p] \in {NotQueued} \cup 0..MaxBattlegrounds /\ FALSE \in BOOLEAN
    BY <1>0
  <2>2. u = RemovePlayer([w EXCEPT !.slot[p] = w.slot[p]], p, FALSE)
    BY <1>2
  <2>3. Taken(w, p, w.slot[p], FALSE, RemovePlayer([w EXCEPT !.slot[p] = w.slot[p]], p, FALSE))
    BY <2>1, TakenOut
  <2>4. Taken(w, p, w.slot[p], FALSE, u)
    BY <2>2, <2>3
  <2> HIDE DEF u
  <2>5. QED
    BY <2>4 DEF Taken
<1>4. u.slot = w.slot
  BY <1>0, <1>3
<1>5. Accepted(w, p, teleported) =
         IF teleported THEN [x EXCEPT !.bgId[p] = i, !.where[p] = "porting"]
         ELSE [x EXCEPT !.bgId[p] = i, !.bgs[i].lost[TeamOf(p)] = @ + 1, !.mishaps = @ + 1]
  BY DEF Accepted
<1> HIDE DEF u, i, v
<1>6. /\ x \in Worlds
      /\ x.queue = u.queue /\ x.timers = u.timers /\ x.mishaps = u.mishaps
      /\ x.slot = u.slot /\ x.bgs = u.bgs /\ x.freeSlots = u.freeSlots
      /\ x.where = u.where \/ x.where = [u.where EXCEPT ![p] = "outside"]
      /\ x.bgId = u.bgId \/ x.bgId = [u.bgId EXCEPT ![p] = 0]
  <2>1. CASE j # 0 /\ Live(u, j)
    <3>1. j \in Instances /\ p \notin u.bgs[j].players
      BY <1>1, <1>3, <2>1 DEF SameBattles, Live
    <3>2. x = RemovePlayerAtLeave(u, j, p)
      BY <2>1
    <3>3. /\ x \in Worlds
          /\ x.queue = u.queue /\ x.timers = u.timers /\ x.mishaps = u.mishaps
          /\ x.slot = u.slot /\ x.bgs = u.bgs /\ x.freeSlots = u.freeSlots
          /\ x.where = IF InWorld(u, p) THEN [u.where EXCEPT ![p] = "outside"] ELSE u.where
          /\ x.bgId = IF InWorld(u, p) THEN [u.bgId EXCEPT ![p] = 0] ELSE u.bgId
      <4> HIDE DEF x, j
      <4>1. LeftBattle(u, j, p, x)
        BY <1>3, <3>1, <3>2, LeaveEffect
      <4>2. QED
        BY <3>1, <4>1 DEF LeftBattle
    <3>4. QED
      BY <3>3
  <2>2. CASE ~(j # 0 /\ Live(u, j))
    BY <1>3, <2>2
  <2>3. QED
    BY <2>1, <2>2
<1> HIDE DEF x, j
<1>7. /\ h \in {"porting", "outside", "inside"} /\ (h = "porting" <=> teleported)
      /\ w.where[p] # "porting"
  <2>1. w.where[p] \in {"outside", "inside"}
    BY DEF InWorld
  <2>2. x.where[p] \in {"outside", "inside"}
    BY <1>0, <1>3, <1>6, <2>1
  <2>3. QED
    BY <2>1, <2>2
<1>8. n \in 0..MaxMishaps
  BY <1>0, <1>3, <1>6, BattlegroundConstants
<1>9. /\ x.bgs \in [Instances -> Battleground] /\ x.where \in [Players -> Places]
      /\ TeamOf(p) \in Teams /\ x.bgs[i].lost \in [Teams -> Nat]
  BY <1>1, <1>6, WorldFields, BattlegroundFields, TeamOfType
<1>10. Accepted(w, p, teleported) = v
  <2>1. CASE teleported
    <3>1. h = "porting" /\ n = x.mishaps /\ c = x.bgs
      BY <2>1
    <3> HIDE DEF h, n, c
    <3>2. v = [x EXCEPT !.bgId[p] = i, !.where[p] = "porting"]
      BY <1>6, <3>1 DEF v, Worlds
    <3>3. QED
      BY <1>5, <2>1, <3>2
  <2>2. CASE ~teleported
    <3>1. h = x.where[p] /\ n = x.mishaps + 1 /\ c = [x.bgs EXCEPT ![i] = b]
      BY <2>2
    <3>2. v.bgs = [x.bgs EXCEPT ![i].lost[TeamOf(p)] = @ + 1]
      BY <1>6, <3>1 DEF v, Worlds
    <3> HIDE DEF h, n, c, b
    <3>a. [x.where EXCEPT ![p] = h] = x.where
      BY <1>9, <3>1
    <3>3. v = [x EXCEPT !.bgId[p] = i, !.mishaps = n, !.bgs = v.bgs]
      BY <1>6, <3>a DEF v, Worlds
    <3>4. QED
      BY <1>5, <2>2, <3>1, <3>2, <3>3
  <2>3. QED
    BY <2>1, <2>2
<1>11. /\ b \in Battleground /\ b.status = x.bgs[i].status /\ b.players = x.bgs[i].players
       /\ b.offline = x.bgs[i].offline /\ b.count = x.bgs[i].count
       /\ b.invited = x.bgs[i].invited /\ b.lost = lost
       /\ \A t \in Teams : lost[t] = IF t = TeamOf(p) THEN x.bgs[i].lost[t] + 1
                                     ELSE x.bgs[i].lost[t]
  <2>1. /\ lost \in [Teams -> Nat]
        /\ \A t \in Teams : lost[t] = IF t = TeamOf(p) THEN x.bgs[i].lost[t] + 1
                                      ELSE x.bgs[i].lost[t]
    BY <1>9
  <2>2. x.bgs[i] \in Battleground
    BY <1>1, <1>9
  <2> HIDE DEF lost
  <2>3. QED
    BY <2>1, <2>2 DEF Battleground
<1> HIDE DEF h, n, b, lost
<1>12. /\ c \in [Instances -> Battleground]
       /\ \A k \in Instances : k # i \/ teleported => c[k] = x.bgs[k]
       /\ ~teleported => c[i] = b
  BY <1>1, <1>9, <1>11
<1> HIDE DEF c
<1>13. /\ v \in Worlds
       /\ v.queue = x.queue /\ v.timers = x.timers
       /\ v.slot = x.slot /\ v.bgs = c /\ v.freeSlots = x.freeSlots
       /\ v.where = [x.where EXCEPT ![p] = h] /\ v.bgId = [x.bgId EXCEPT ![p] = i]
  <2>1. h \in Places /\ i \in 0..MaxBattlegrounds
    BY <1>1, <1>7 DEF Places, Instances
  <2>2. QED
    BY <1>6, <1>8, <1>12, <2>1 DEF v, Worlds
<1>14. /\ v.where[p] = h /\ v.bgId[p] = i /\ v.slot[p] = i
       /\ \A y \in Players \ {p} : /\ v.where[y] = w.where[y] /\ v.bgId[y] = w.bgId[y]
                                   /\ v.slot[y] = w.slot[y]
  <2>1. x.where \in [Players -> Places] /\ x.bgId \in [Players -> 0..MaxBattlegrounds]
    BY <1>6, WorldFields
  <2>2. \A y \in Players \ {p} : x.where[y] = w.where[y] /\ x.bgId[y] = w.bgId[y]
    BY <1>0, <1>3, <1>6
  <2>3. v.slot = w.slot
    BY <1>4, <1>6, <1>13
  <2>4. QED
    BY <1>1, <1>13, <2>1, <2>2, <2>3
<1>15. ASSUME NEW k \in Instances
       PROVE  /\ v.bgs[k].status = u.bgs[k].status /\ v.bgs[k].players = u.bgs[k].players
              /\ v.bgs[k].offline = u.bgs[k].offline
              /\ v.bgs[k].invited = u.bgs[k].invited /\ v.bgs[k].count = u.bgs[k].count
              /\ k # i \/ teleported => v.bgs[k] = u.bgs[k]
              /\ ~teleported => \A t \in Teams :
                   v.bgs[i].lost[t] = IF t = TeamOf(p) THEN u.bgs[i].lost[t] + 1
                                      ELSE u.bgs[i].lost[t]
  BY <1>6, <1>11, <1>12, <1>13
<1>16. OthersStay(w, p, v)
  BY <1>3, <1>6, <1>13, <1>14, <1>15 DEF OthersStay
<1>17. SameBattles(w, v)
  <2>1. w.bgs[i].status # "none"
    BY DEF Live, i
  <2>2. QED
    BY <1>3, <1>6, <1>13, <1>15, <2>1 DEF SameBattles
<1>18. HolderKeepsSlot(v, p)
  BY <1>1, <1>14 DEF HolderKeepsSlot, Instances, NotQueued
<1>19. \A k \in Instances : Holds(w, p, k) <=> k = i
  BY <1>1, <1>7 DEF Holds, i
<1>20. \A k \in Instances : p \in w.bgs[k].players =>
              /\ v.bgId[p] = k /\ v.where[p] \in {"inside", "offline_inside"}
              /\ Connected(v, p) <=> Connected(w, p)
  BY <1>1
<1>21. ASSUME NEW k \in Instances, NEW t \in Teams
       PROVE  /\ v.bgs[k].count[t] = w.bgs[k].count[t]
              /\ \/ /\ v.bgs[k].invited[t] = w.bgs[k].invited[t]
                    /\ v.bgs[k].lost[t] = w.bgs[k].lost[t]
                    /\ TeamOf(p) = t =>
                         (Holds(w, p, k) <=> \/ v.where[p] = "porting" /\ v.bgId[p] = k
                                             \/ p \in w.bgs[k].players)
                 \/ /\ \/ /\ v.bgs[k].invited[t] = w.bgs[k].invited[t] - 1
                          /\ v.bgs[k].lost[t] = w.bgs[k].lost[t]
                       \/ /\ v.bgs[k].invited[t] = w.bgs[k].invited[t]
                          /\ v.bgs[k].lost[t] = w.bgs[k].lost[t] + 1
                    /\ TeamOf(p) = t /\ Holds(w, p, k) /\ p \notin w.bgs[k].players
                    /\ v.where[p] # "porting"
  <2>1. /\ u.bgs[k].count[t] = w.bgs[k].count[t] /\ u.bgs[k].invited[t] = w.bgs[k].invited[t]
        /\ u.bgs[k].lost[t] = w.bgs[k].lost[t] /\ p \notin w.bgs[k].players
    BY <1>1, <1>3
  <2>2. v.bgs[k].count[t] = w.bgs[k].count[t] /\ v.bgs[k].invited[t] = w.bgs[k].invited[t]
    BY <1>15, <2>1
  <2>3. CASE teleported
    <3>1. v.bgs[k].lost[t] = w.bgs[k].lost[t]
      BY <1>15, <2>1, <2>3
    <3>2. v.where[p] = "porting"
      BY <1>7, <1>14, <2>3
    <3>3. QED
      BY <1>14, <1>19, <2>1, <2>2, <3>1, <3>2
  <2>4. CASE ~teleported /\ k = i /\ t = TeamOf(p)
    <3>1. v.bgs[k].lost[t] = w.bgs[k].lost[t] + 1
      BY <1>15, <2>1, <2>4
    <3>2. v.where[p] # "porting"
      BY <1>7, <1>14, <2>4
    <3>3. QED
      BY <1>19, <2>1, <2>2, <2>4, <3>1, <3>2
  <2>5. CASE ~teleported /\ ~(k = i /\ t = TeamOf(p))
    <3>1. v.bgs[k].lost[t] = w.bgs[k].lost[t]
      BY <1>15, <2>1, <2>5
    <3>2. v.where[p] # "porting"
      BY <1>7, <1>14, <2>5
    <3>3. QED
      BY <1>19, <2>1, <2>2, <2>5, <3>1, <3>2
  <2>6. QED
    BY <2>3, <2>4, <2>5
<1>22. v \in Worlds
  BY <1>13
<1>23. Inv(v)
  BY <1>16, <1>17, <1>18, <1>20, <1>21, <1>22, QueueStep
<1>24. QED
  BY <1>10, <1>23

(* Out of the queue for good: declined, or the invitation taken back.      *)
LEMMA WithdrawnKeeps ==
    ASSUME NEW w, Inv(w), NEW p \in QueuedPlayers(w)
    PROVE  LET u == RemovePlayer([w EXCEPT !.slot[p] = NotQueued], p, TRUE)
           IN  Inv(u)
<1> DEFINE u == RemovePlayer([w EXCEPT !.slot[p] = NotQueued], p, TRUE)
<1>1. /\ w \in Worlds /\ p \in Players /\ InWorld(w, p)
      /\ \A k \in Instances : p \notin w.bgs[k].players
      /\ w.slot \in [Players -> {NotQueued} \cup 0..MaxBattlegrounds]
  BY QueuedPlayer, WorldFields DEF Inv
<1>2. /\ u \in Worlds
      /\ u.where = w.where /\ u.bgId = w.bgId /\ u.slot = [w.slot EXCEPT ![p] = NotQueued]
      /\ OthersStay(w, p, u) /\ SameBattles(w, u)
      /\ \A i \in Instances, t \in Teams :
           /\ u.bgs[i].count[t] = w.bgs[i].count[t] /\ u.bgs[i].lost[t] = w.bgs[i].lost[t]
           /\ \/ /\ u.bgs[i].invited[t] = w.bgs[i].invited[t]
                 /\ TeamOf(p) = t => InvitedTo(w, p) # i
              \/ /\ u.bgs[i].invited[t] = w.bgs[i].invited[t] - 1
                 /\ TeamOf(p) = t /\ Holds(w, p, i)
                 /\ p \notin w.bgs[i].players
  <2>1. Taken(w, p, NotQueued, TRUE, u)
    BY <1>1, TakenOut
  <2> HIDE DEF u
  <2>2. QED
    BY <2>1 DEF Taken
<1> HIDE DEF u
<1>3. u.where[p] # "porting" /\ w.where[p] # "porting"
  BY <1>1, <1>2 DEF InWorld
<1>4. HolderKeepsSlot(u, p)
  BY <1>1, <1>2, <1>3 DEF HolderKeepsSlot, SameBattles
<1>5. \A i \in Instances : p \in w.bgs[i].players =>
              /\ u.bgId[p] = i /\ u.where[p] \in {"inside", "offline_inside"}
              /\ Connected(u, p) <=> Connected(w, p)
  BY <1>1
<1>6. ASSUME NEW i \in Instances, NEW t \in Teams
      PROVE   /\ u.bgs[i].count[t] = w.bgs[i].count[t]
              /\ \/ /\ u.bgs[i].invited[t] = w.bgs[i].invited[t]
                    /\ u.bgs[i].lost[t] = w.bgs[i].lost[t]
                    /\ TeamOf(p) = t =>
                         (Holds(w, p, i) <=> \/ u.where[p] = "porting" /\ u.bgId[p] = i
                                             \/ p \in w.bgs[i].players)
                 \/ /\ u.bgs[i].invited[t] = w.bgs[i].invited[t] - 1
                    /\ u.bgs[i].lost[t] = w.bgs[i].lost[t]
                    /\ TeamOf(p) = t /\ Holds(w, p, i) /\ p \notin w.bgs[i].players
                    /\ u.where[p] # "porting"
  <2>1. Holds(w, p, i) <=> InvitedTo(w, p) = i
    BY <1>1, <1>3 DEF Holds
  <2>2. QED
    BY <1>1, <1>2, <1>3, <2>1
<1>7. Inv(u)
  BY <1>1, <1>2, <1>4, <1>5, <1>6, QueueStep
<1>8. QED
  BY <1>7 DEF u

LEMMA RemoveInvitedKeeps ==
    ASSUME NEW w, Inv(w), NEW e \in Timer
    PROVE  Inv(RemoveInvited(w, e))
<1> DEFINE p == e.player
           i == e.instance
           u == RemovePlayer([w EXCEPT !.slot[p] = NotQueued], p, TRUE)
           b == u.scheduled \/ (Live(w, i) /\ w.bgs[i].status # "wait_leave")
<1>1. CASE ~Connected(w, p) \/ w.slot[p] = NotQueued \/ ~IsPlayerInvited(w, e)
  BY <1>1 DEF RemoveInvited
<1>2. CASE ~(~Connected(w, p) \/ w.slot[p] = NotQueued \/ ~IsPlayerInvited(w, e))
  <2>1. p \in QueuedPlayers(w)
    BY <1>2 DEF IsPlayerInvited
  <2>2. Inv(u)
    BY <2>1, WithdrawnKeeps
  <2>3. RemoveInvited(w, e) = [u EXCEPT !.scheduled = b]
    BY <1>2 DEF RemoveInvited
  <2>4. b \in BOOLEAN
    <3>1. u.scheduled \in BOOLEAN
      BY <2>2, WorldFields DEF Inv
    <3>2. QED
      BY <3>1
  <2> HIDE DEF u, b
  <2>5. QED
    BY <2>2, <2>3, <2>4, ScheduledKeeps
<1>3. QED
  BY <1>1, <1>2

LEMMA AbsentReduced ==
    ASSUME NEW w \in Worlds, NEW p, p \notin QueuedPlayers(w)
    PROVE  \A l \in Lists : Reduced(w.queue[l], p, w.queue[l])
<1>1. w.queue \in Queues
  BY WorldFields DEF Queues
<1>2. ASSUME NEW l \in Lists, NEW k \in DOMAIN w.queue[l] PROVE p \notin w.queue[l][k].players
  <2>1. w.queue[l][k] \in GroupsOf(w)
    BY <1>1, GroupAt DEF GroupsOf
  <2>2. QED
    BY <2>1 DEF QueuedPlayers
<1>3. QED
  BY <1>1, <1>2, ReducedIsSame DEF Queues

-----------------------------------------------------------------------------
(* Logging out.                                                            *)

LoggedOut(w, p) ==
  LET w1 == LogOutOf(w, w.bgId[p], p)
      w2 == IF IsQueued(w1, p) THEN RemovePlayer([w1 EXCEPT !.slot[p] = NotQueued], p, TRUE)
            ELSE w1
  IN  [w2 EXCEPT !.mishaps = @ + 1,
                 !.where[p] = IF @ = "inside" THEN "offline_inside" ELSE "offline"]

LEMMA SlotCleared ==
    ASSUME NEW w \in Worlds, NEW p \in Players, w.slot[p] = NotQueued => p \notin QueuedPlayers(w)
    PROVE  (IF w.slot[p] # NotQueued THEN RemovePlayer([w EXCEPT !.slot[p] = NotQueued], p, TRUE)
            ELSE w)
           = RemovePlayer([w EXCEPT !.slot[p] = NotQueued], p, TRUE)
<1>1. CASE w.slot[p] = NotQueued
  <2>1. [w EXCEPT !.slot[p] = NotQueued] = w
    BY <1>1, WorldFields DEF Worlds
  <2>2. RemovePlayer(w, p, TRUE) = w
    BY <1>1 DEF RemovePlayer
  <2>3. QED
    BY <1>1, <2>1, <2>2
<1>2. QED
  BY <1>1

LEMMA LogoutOutsideKeeps ==
    ASSUME NEW w, Inv(w), NEW p \in Players, Connected(w, p), w.mishaps < MaxMishaps,
           w.where[p] # "porting", ~(Live(w, w.bgId[p]) /\ p \in w.bgs[w.bgId[p]].players)
    PROVE  Inv(LoggedOut(w, p))
<1> DEFINE i == w.bgId[p]
           u == RemovePlayer([w EXCEPT !.slot[p] = NotQueued], p, TRUE)
           h == IF u.where[p] = "inside" THEN "offline_inside" ELSE "offline"
           m == u.mishaps + 1
           v == [u EXCEPT !.mishaps = m, !.where[p] = h]
<1>1. /\ w \in Worlds /\ w.where \in [Players -> Places]
      /\ w.bgId \in [Players -> 0..MaxBattlegrounds]
      /\ w.slot \in [Players -> {NotQueued} \cup 0..MaxBattlegrounds]
      /\ w.mishaps \in 0..MaxMishaps
  BY WorldFields DEF Inv
<1>2. \A k \in Instances : p \notin w.bgs[k].players
  BY MemberIsLive
<1>3. LoggedOut(w, p) = v
  <2>1. w.slot[p] = NotQueued => p \notin QueuedPlayers(w)
    BY NotWaiting
  <2>2. (IF w.slot[p] # NotQueued THEN RemovePlayer([w EXCEPT !.slot[p] = NotQueued], p, TRUE)
         ELSE w) = u
    BY <1>1, <2>1, SlotCleared
  <2>3. LogOutOf(w, i, p) = w
    BY DEF LogOutOf
  <2>4. LoggedOut(w, p) =
         LET w2 == IF w.slot[p] # NotQueued
                   THEN RemovePlayer([w EXCEPT !.slot[p] = NotQueued], p, TRUE) ELSE w
         IN  [w2 EXCEPT !.mishaps = @ + 1,
                        !.where[p] = IF @ = "inside" THEN "offline_inside" ELSE "offline"]
    BY <2>3 DEF LoggedOut, IsQueued
  <2>5. LoggedOut(w, p) =
         [u EXCEPT !.mishaps = @ + 1,
                   !.where[p] = IF @ = "inside" THEN "offline_inside" ELSE "offline"]
    BY <2>2, <2>4
  <2> HIDE DEF u
  <2>6. QED
    BY <2>5
<1>4. Taken(w, p, NotQueued, TRUE, u)
  BY TakenOut
<1> HIDE DEF u
<1>5. /\ u \in Worlds
      /\ u.where = w.where /\ u.bgId = w.bgId /\ u.slot = [w.slot EXCEPT ![p] = NotQueued]
      /\ u.mishaps = w.mishaps
      /\ OthersStay(w, p, u) /\ SameBattles(w, u)
      /\ \A k \in Instances, t \in Teams :
           /\ u.bgs[k].count[t] = w.bgs[k].count[t] /\ u.bgs[k].lost[t] = w.bgs[k].lost[t]
           /\ \/ /\ u.bgs[k].invited[t] = w.bgs[k].invited[t]
                 /\ TeamOf(p) = t => InvitedTo(w, p) # k
              \/ /\ u.bgs[k].invited[t] = w.bgs[k].invited[t] - 1
                 /\ TeamOf(p) = t /\ Holds(w, p, k)
                 /\ p \notin w.bgs[k].players
  BY <1>4 DEF Taken
<1>6. h \in {"offline", "offline_inside"} /\ m \in 0..MaxMishaps
  BY <1>1, <1>5, BattlegroundConstants
<1> HIDE DEF h, m, v
<1>7. /\ v \in Worlds /\ v.queue = u.queue /\ v.timers = u.timers
      /\ v.slot = u.slot /\ v.bgs = u.bgs /\ v.freeSlots = u.freeSlots
      /\ v.where = [u.where EXCEPT ![p] = h] /\ v.bgId = u.bgId
  <2>1. h \in Places
    BY <1>6 DEF Places
  <2>2. QED
    BY <1>5, <1>6, <2>1 DEF Worlds, v
<1>8. v.where[p] = h /\ v.where[p] # "porting" /\ ~Connected(v, p)
  BY <1>1, <1>5, <1>6, <1>7 DEF Connected
<1>9. OthersStay(w, p, v)
  <2>1. \A y \in Players \ {p} : v.where[y] = w.where[y] /\ v.bgId[y] = w.bgId[y]
    BY <1>1, <1>5, <1>7
  <2>2. QED
    BY <1>5, <1>7, <2>1 DEF OthersStay
<1>10. SameBattles(w, v)
  BY <1>5, <1>7 DEF SameBattles
<1>11. HolderKeepsSlot(v, p)
  BY <1>8 DEF HolderKeepsSlot
<1>12. \A k \in Instances : p \in w.bgs[k].players =>
              /\ v.bgId[p] = k /\ v.where[p] \in {"inside", "offline_inside"}
              /\ Connected(v, p) <=> Connected(w, p)
  BY <1>2
<1>13. ASSUME NEW k \in Instances, NEW t \in Teams
       PROVE  /\ v.bgs[k].count[t] = w.bgs[k].count[t]
              /\ \/ /\ v.bgs[k].invited[t] = w.bgs[k].invited[t]
                    /\ v.bgs[k].lost[t] = w.bgs[k].lost[t]
                    /\ TeamOf(p) = t =>
                         (Holds(w, p, k) <=> \/ v.where[p] = "porting" /\ v.bgId[p] = k
                                             \/ p \in w.bgs[k].players)
                 \/ /\ v.bgs[k].invited[t] = w.bgs[k].invited[t] - 1
                    /\ v.bgs[k].lost[t] = w.bgs[k].lost[t]
                    /\ TeamOf(p) = t /\ Holds(w, p, k) /\ p \notin w.bgs[k].players
                    /\ v.where[p] # "porting"
  <2>1. Holds(w, p, k) <=> InvitedTo(w, p) = k
    BY <1>2 DEF Holds
  <2>2. QED
    BY <1>2, <1>5, <1>7, <1>8, <2>1
<1>14. v \in Worlds
  BY <1>7
<1>15. Inv(v)
  BY <1>9, <1>10, <1>11, <1>12, <1>13, <1>14, QueueStep
<1>16. QED
  BY <1>3, <1>15

-----------------------------------------------------------------------------
(* Steps of a player who is not queued that change one battleground.       *)

LEMMA BattleStep ==
    ASSUME NEW w, Inv(w), NEW p \in Players, p \notin QueuedPlayers(w), NEW v \in Worlds,
           NEW i \in Instances, Live(w, i), NEW b \in Battleground,
           \A x \in Players \ {p} : /\ v.where[x] = w.where[x] /\ v.bgId[x] = w.bgId[x]
                                    /\ v.slot[x] = w.slot[x],
           v.queue = w.queue, v.timers = w.timers, v.bgs = [w.bgs EXCEPT ![i] = b],
           b.status = w.bgs[i].status,
           \A x \in Players \ {p} : x \in b.players <=> x \in w.bgs[i].players,
           \A j \in Instances \ {i} : /\ p \notin w.bgs[j].players
                                      /\ ~(v.where[p] = "porting" /\ v.bgId[p] = j),
           p \in b.players => v.bgId[p] = i /\ v.where[p] \in {"inside", "offline_inside"},
           HolderKeepsSlot(v, p), w.where[p] = "porting" => w.bgId[p] = i,
           \A t \in Teams : /\ PlaceKept(w, p, v, i, t) \/ PlaceGivenBack(w, p, v, i, t)
                            /\ Recounted(w, p, v, i, t),
           \/ /\ v.freeSlots = w.freeSlots
              /\ w.bgs[i].players \subseteq b.players \/ b.status = "wait_leave"
           \/ /\ b.status \in Running /\ IsInjective(v.freeSlots)
              /\ ToSet(v.freeSlots) = ToSet(w.freeSlots) \cup {i},
           OfflineExact(v, i)
    PROVE  Inv(v)
<1>1. /\ w \in Worlds /\ Waiting(w) /\ w.bgs \in [Instances -> Battleground]
  BY WorldFields DEF Inv
<1>2. v.bgs[i] = b /\ \A j \in Instances \ {i} : v.bgs[j] = w.bgs[j]
  BY <1>1
<1>3. OthersStay(w, p, v)
  <2>1. \A l \in Lists : Reduced(w.queue[l], p, v.queue[l])
    BY <1>1, AbsentReduced
  <2>2. \A x \in Players \ {p} : \A j \in Instances :
           x \in v.bgs[j].players <=> x \in w.bgs[j].players
    BY <1>2
  <2>3. QED
    BY <2>1, <2>2 DEF OthersStay
<1>4. \A j \in Instances : p \in v.bgs[j].players =>
              v.bgId[p] = j /\ v.where[p] \in {"inside", "offline_inside"}
  BY <1>2
<1>5. ASSUME NEW j \in Instances, NEW t \in Teams
      PROVE  PlaceAccounted(w, p, v, j, t) /\ Recounted(w, p, v, j, t)
  <2>1. CASE j = i
    BY <2>1 DEF PlaceAccounted
  <2>2. CASE j # i
    <3>1. ~Holds(v, p, j)
      BY <1>1, <1>2, <1>3, <2>2, HoldsAlone
    <3>2. v.bgs[j] = w.bgs[j]
      BY <1>2, <2>2
    <3>3. ~Holds(w, p, j)
      BY <2>2 DEF Holds, InvitedTo, Instances
    <3>4. QED
      BY <3>1, <3>2, <3>3 DEF PlaceAccounted, PlaceKept, Recounted
  <2>3. QED
    BY <2>1, <2>2
<1>6. DeadAreEmpty(v)
  BY <1>2 DEF Inv, DeadAreEmpty, Live
<1>7. FreeSlotsOK(v)
  <2>1. ToSet(w.freeSlots) \subseteq Instances /\ FreeSlotsOK(w)
    BY <1>1, WorldFields, LenProperties DEF ToSet, Inv
  <2>2. \A j \in Instances : v.bgs[j].status = w.bgs[j].status
    BY <1>2
  <2>3. CASE /\ v.freeSlots = w.freeSlots
             /\ w.bgs[i].players \subseteq b.players \/ b.status = "wait_leave"
    <3>1. ASSUME b.status \in Running, Cardinality(b.players) < 2 * MaxPlayersPerTeam
          PROVE  i \in ToSet(w.freeSlots)
      <4>1. w.bgs[i].players \subseteq b.players
        BY <2>3, <3>1 DEF Running
      <4>2. IsFiniteSet(b.players)
        BY BattlegroundFields, PlayersAreFinite, FS_Subset
      <4>3. /\ Cardinality(w.bgs[i].players) <= Cardinality(b.players)
            /\ Cardinality(w.bgs[i].players) \in Nat /\ Cardinality(b.players) \in Nat
        BY <4>1, <4>2, FS_Subset, FS_CardinalityType
      <4>4. Cardinality(w.bgs[i].players) < 2 * MaxPlayersPerTeam
        BY <3>1, <4>3, TeamSizes
      <4>5. QED
        BY <2>1, <3>1, <4>4 DEF FreeSlotsOK
    <3>2. QED
      BY <1>2, <2>1, <2>2, <2>3, <3>1 DEF FreeSlotsOK
  <2>4. CASE /\ b.status \in Running /\ IsInjective(v.freeSlots)
             /\ ToSet(v.freeSlots) = ToSet(w.freeSlots) \cup {i}
    BY <1>2, <2>1, <2>2, <2>4 DEF FreeSlotsOK
  <2>5. QED
    BY <2>3, <2>4
<1>8. OfflineOK(v)
  <2>1. ASSUME NEW j \in Instances, j # i PROVE OfflineExact(v, j)
    <3>1. OfflineExact(w, j) /\ v.bgs[j] = w.bgs[j] /\ p \notin w.bgs[j].players
      BY <1>2, <2>1 DEF Inv, OfflineOK
    <3>2. w.bgs[j].players \subseteq Players
      BY <1>1, BattlegroundFields
    <3>3. \A x \in w.bgs[j].players : Connected(v, x) <=> Connected(w, x)
      BY <3>1, <3>2 DEF Connected
    <3>4. QED
      BY <3>1, <3>3 DEF OfflineExact
  <2>2. QED
    BY <2>1 DEF OfflineOK
<1>9. QED
  BY <1>3, <1>4, <1>5, <1>6, <1>7, <1>8, PlayerStep

LEMMA LogoutInsideKeeps ==
    ASSUME NEW w, Inv(w), NEW p \in Players, Connected(w, p), w.mishaps < MaxMishaps,
           Live(w, w.bgId[p]), p \in w.bgs[w.bgId[p]].players
    PROVE  Inv(LoggedOut(w, p))
<1> DEFINE i == w.bgId[p]
           s == Append(w.bgs[i].offline, p)
           b == [w.bgs[i] EXCEPT !.offline = s]
           y == PutBg(w, i, b)
           u == [y EXCEPT !.slot[p] = NotQueued]
           m == u.mishaps + 1
           v == [u EXCEPT !.mishaps = m, !.where[p] = "offline_inside"]
<1>1. /\ w \in Worlds /\ w.where \in [Players -> Places]
      /\ w.bgId \in [Players -> 0..MaxBattlegrounds]
      /\ w.slot \in [Players -> {NotQueued} \cup 0..MaxBattlegrounds]
      /\ w.mishaps \in 0..MaxMishaps /\ w.bgs \in [Instances -> Battleground]
  BY WorldFields DEF Inv
<1>2. /\ i \in Instances /\ w.bgs[i] \in Battleground /\ w.where[p] = "inside"
      /\ p \notin QueuedPlayers(w)
      /\ \A j \in Instances \ {i} : p \notin w.bgs[j].players
  BY <1>1, MemberIsLive, NotWaiting DEF Live, Connected
<1>3. /\ s \in Seq(Players) /\ ToSet(s) = ToSet(w.bgs[i].offline) \cup {p}
      /\ IsInjective(w.bgs[i].offline) /\ p \notin ToSet(w.bgs[i].offline) => IsInjective(s)
  BY <1>2, AppendLemma, BattlegroundFields
<1> HIDE DEF i, s
<1>4. /\ b \in Battleground /\ b.status = w.bgs[i].status /\ b.players = w.bgs[i].players
      /\ b.offline = s /\ b.invited = w.bgs[i].invited /\ b.count = w.bgs[i].count
      /\ b.lost = w.bgs[i].lost
  BY <1>2, <1>3 DEF Battleground
<1>5. y = [w EXCEPT !.bgs[i].offline = Append(@, p)]
  BY <1>1, <1>2 DEF PutBg, s, Worlds
<1> HIDE DEF b
<1>6. /\ y \in Worlds
      /\ y.where = w.where /\ y.bgId = w.bgId /\ y.slot = w.slot /\ y.queue = w.queue
      /\ y.freeSlots = w.freeSlots /\ y.timers = w.timers
      /\ y.scheduled = w.scheduled /\ y.mishaps = w.mishaps
      /\ y.bgs = [w.bgs EXCEPT ![i] = b]
  BY <1>1, <1>2, <1>4, PutBgEffect
<1> HIDE DEF y
<1>7. /\ u \in Worlds
      /\ u.where = w.where /\ u.bgId = w.bgId /\ u.slot = [w.slot EXCEPT ![p] = NotQueued]
      /\ u.queue = w.queue /\ u.freeSlots = w.freeSlots /\ u.timers = w.timers
      /\ u.mishaps = w.mishaps /\ u.bgs = [w.bgs EXCEPT ![i] = b]
  BY <1>6 DEF Worlds
<1>8. RemovePlayer([y EXCEPT !.slot[p] = NotQueued], p, TRUE) = u
  <2>1. p \notin QueuedPlayers(u)
    BY <1>2, <1>7 DEF QueuedPlayers, GroupsOf
  <2>2. QED
    BY <2>1 DEF RemovePlayer
<1>9. LoggedOut(w, p) = v
  <2>1. (IF y.slot[p] # NotQueued THEN RemovePlayer([y EXCEPT !.slot[p] = NotQueued], p, TRUE)
         ELSE y) = RemovePlayer([y EXCEPT !.slot[p] = NotQueued], p, TRUE)
    <3>1. p \notin QueuedPlayers(y)
      BY <1>2, <1>6 DEF QueuedPlayers, GroupsOf
    <3>2. QED
      BY <1>6, <3>1, SlotCleared
  <2>2. (IF w.slot[p] # NotQueued THEN RemovePlayer([y EXCEPT !.slot[p] = NotQueued], p, TRUE)
         ELSE y) = u
    BY <1>6, <1>8, <2>1
  <2>3. LogOutOf(w, i, p) = y
    BY <1>5 DEF LogOutOf, i
  <2>4. LoggedOut(w, p) =
         LET w2 == IF y.slot[p] # NotQueued
                   THEN RemovePlayer([y EXCEPT !.slot[p] = NotQueued], p, TRUE) ELSE y
         IN  [w2 EXCEPT !.mishaps = @ + 1,
                        !.where[p] = IF @ = "inside" THEN "offline_inside" ELSE "offline"]
    BY <2>3 DEF LoggedOut, IsQueued, i
  <2>5. LoggedOut(w, p) =
         [u EXCEPT !.mishaps = @ + 1,
                   !.where[p] = IF @ = "inside" THEN "offline_inside" ELSE "offline"]
    BY <1>6, <2>2, <2>4
  <2>6. u.where[p] = "inside"
    BY <1>2, <1>7
  <2> HIDE DEF u
  <2>7. QED
    BY <2>5, <2>6
<1> HIDE DEF u
<1>10. m \in 0..MaxMishaps /\ "offline_inside" \in Places
  BY <1>1, <1>7, BattlegroundConstants DEF Places
<1> HIDE DEF m
<1>11. /\ v \in Worlds
       /\ v.slot = [w.slot EXCEPT ![p] = NotQueued] /\ v.queue = w.queue
       /\ v.freeSlots = w.freeSlots /\ v.timers = w.timers /\ v.bgs = [w.bgs EXCEPT ![i] = b]
       /\ v.where = [w.where EXCEPT ![p] = "offline_inside"]
       /\ v.bgId = w.bgId
  BY <1>7, <1>10 DEF Worlds
<1> HIDE DEF v
<1>12. /\ v.where[p] = "offline_inside" /\ v.bgId[p] = i /\ ~Connected(v, p)
       /\ \A x \in Players \ {p} : /\ v.where[x] = w.where[x] /\ v.bgId[x] = w.bgId[x]
                                   /\ v.slot[x] = w.slot[x]
       /\ v.bgs[i] = b
  BY <1>1, <1>2, <1>11 DEF Connected, i
<1>13. HolderKeepsSlot(v, p)
  BY <1>12 DEF HolderKeepsSlot
<1>14. p \in w.bgs[i].players /\ Live(w, i)
  BY DEF i
<1>15. ASSUME NEW t \in Teams
       PROVE  /\ PlaceKept(w, p, v, i, t) \/ PlaceGivenBack(w, p, v, i, t)
              /\ Recounted(w, p, v, i, t)
  <2>1. Holds(w, p, i)
    BY <1>14 DEF Holds
  <2>2. Holds(v, p, i)
    BY <1>4, <1>12, <1>14 DEF Holds
  <2>3. QED
    BY <1>4, <1>12, <1>14, <2>1, <2>2 DEF PlaceKept, Recounted
<1>16. OfflineExact(v, i)
  <2>1. OfflineExact(w, i) /\ w.bgs[i].players \subseteq Players
    BY <1>2, BattlegroundFields DEF Inv, OfflineOK
  <2>2. \A x \in w.bgs[i].players \ {p} : Connected(v, x) <=> Connected(w, x)
    BY <1>12, <2>1 DEF Connected
  <2>3. QED
    BY <1>3, <1>4, <1>12, <1>14, <2>1, <2>2 DEF OfflineExact
<1>17. Inv(v)
  <2>1. \A j \in Instances \ {i} : /\ p \notin w.bgs[j].players
                                   /\ ~(v.where[p] = "porting" /\ v.bgId[p] = j)
    BY <1>2, <1>12
  <2>2. \A x \in Players \ {p} : x \in b.players <=> x \in w.bgs[i].players
    BY <1>4
  <2>3. \A x \in Players \ {p} : /\ v.where[x] = w.where[x] /\ v.bgId[x] = w.bgId[x]
                                 /\ v.slot[x] = w.slot[x]
    BY <1>12
  <2>4. p \in b.players => v.bgId[p] = i /\ v.where[p] \in {"inside", "offline_inside"}
    BY <1>12
  <2>5. \/ /\ v.freeSlots = w.freeSlots
           /\ w.bgs[i].players \subseteq b.players \/ b.status = "wait_leave"
        \/ /\ b.status \in Running /\ IsInjective(v.freeSlots)
           /\ ToSet(v.freeSlots) = ToSet(w.freeSlots) \cup {i}
    BY <1>4, <1>11
  <2>6. v \in Worlds /\ v.queue = w.queue /\ v.timers = w.timers /\ v.bgs = [w.bgs EXCEPT ![i] = b]
        /\ b.status = w.bgs[i].status /\ b \in Battleground
    BY <1>4, <1>11
  <2>7. QED
    BY <1>2, <1>13, <1>14, <1>15, <1>16, <2>1, <2>2, <2>3, <2>4, <2>5, <2>6, BattleStep
<1>18. QED
  BY <1>9, <1>17

(* A member leaves the battleground.                                       *)
LEMMA MemberLeaves ==
    ASSUME NEW w, Inv(w), NEW i \in Instances, NEW p \in w.bgs[i].players, NEW v \in Worlds,
           NEW b \in Battleground,
           \A x \in Players \ {p} : /\ v.where[x] = w.where[x] /\ v.bgId[x] = w.bgId[x]
                                    /\ v.slot[x] = w.slot[x],
           v.queue = w.queue, v.timers = w.timers, v.bgs = [w.bgs EXCEPT ![i] = b],
           Without(w.bgs[i], p, b), v.where[p] # "porting",
           \/ v.freeSlots = w.freeSlots /\ b.status = "wait_leave"
           \/ /\ b.status # "wait_leave" /\ IsInjective(v.freeSlots)
              /\ ToSet(v.freeSlots) = ToSet(w.freeSlots) \cup {i},
           OfflineExact(v, i)
    PROVE  Inv(v)
<1>0. /\ b.status = w.bgs[i].status /\ b.players = w.bgs[i].players \ {p}
      /\ b.count = [w.bgs[i].count EXCEPT ![TeamOf(p)] = @ - 1]
      /\ b.invited = [w.bgs[i].invited EXCEPT ![TeamOf(p)] = @ - 1]
      /\ b.lost = w.bgs[i].lost
  BY DEF Without
<1>1. /\ w \in Worlds /\ Waiting(w) /\ w.bgs \in [Instances -> Battleground]
      /\ w.bgs[i] \in Battleground
  BY WorldFields DEF Inv
<1>2. /\ p \in Players /\ Live(w, i) /\ p \notin QueuedPlayers(w)
      /\ w.where[p] # "porting" /\ \A j \in Instances \ {i} : p \notin w.bgs[j].players
  <2>1. p \in Players
    BY <1>1, BattlegroundFields
  <2>2. QED
    BY <2>1, MemberIsLive, NotWaiting
<1>3. v.bgs[i] = b /\ \A j \in Instances \ {i} : v.bgs[j] = w.bgs[j]
  BY <1>1
<1>4. \A j \in Instances : p \notin v.bgs[j].players
  BY <1>0, <1>2, <1>3
<1>5. HolderKeepsSlot(v, p)
  BY <1>4 DEF HolderKeepsSlot
<1>6. \A j \in Instances \ {i} : /\ p \notin w.bgs[j].players
                                 /\ ~(v.where[p] = "porting" /\ v.bgId[p] = j)
  BY <1>2
<1>7. b.status # "wait_leave" => b.status \in Running
  BY <1>0, <1>2, BattlegroundFields DEF Live, Statuses, Running
<1>8. ASSUME NEW t \in Teams
      PROVE  /\ PlaceKept(w, p, v, i, t) \/ PlaceGivenBack(w, p, v, i, t)
             /\ Recounted(w, p, v, i, t)
  <2>1. Holds(w, p, i)
    BY DEF Holds
  <2>2. /\ w.bgs[i].count \in [Teams -> Int] /\ w.bgs[i].invited \in [Teams -> Int]
        /\ v.bgs[i].lost[t] = w.bgs[i].lost[t]
    BY <1>0, <1>1, <1>3, BattlegroundFields
  <2>3. CASE t = TeamOf(p)
    <3>1. ~Holds(v, p, i)
      <4>1. OthersStay(w, p, v)
        <5>1. \A l \in Lists : Reduced(w.queue[l], p, v.queue[l])
          BY <1>1, <1>2, AbsentReduced
        <5>2. \A x \in Players \ {p} : \A j \in Instances :
                 x \in v.bgs[j].players <=> x \in w.bgs[j].players
          BY <1>0, <1>3
        <5>3. QED
          BY <5>1, <5>2 DEF OthersStay
      <4>2. QED
        BY <1>1, <1>4, <4>1, HoldsAlone
    <3>2. /\ v.bgs[i].count[t] = w.bgs[i].count[t] - 1
          /\ v.bgs[i].invited[t] = w.bgs[i].invited[t] - 1
      BY <1>0, <1>3, <2>2, <2>3
    <3>3. QED
      BY <1>2, <1>4, <2>1, <2>2, <2>3, <3>1, <3>2 DEF PlaceGivenBack, Recounted
  <2>4. CASE t # TeamOf(p)
    <3>1. /\ v.bgs[i].count[t] = w.bgs[i].count[t]
          /\ v.bgs[i].invited[t] = w.bgs[i].invited[t]
      BY <1>0, <1>3, <2>2, <2>4
    <3>2. QED
      BY <2>2, <2>4, <3>1 DEF PlaceKept, Recounted
  <2>5. QED
    BY <2>3, <2>4
<1>9. \A x \in Players \ {p} : x \in b.players <=> x \in w.bgs[i].players
  BY <1>0
<1>10. p \in b.players => v.bgId[p] = i /\ v.where[p] \in {"inside", "offline_inside"}
  BY <1>0
<1>11. \/ /\ v.freeSlots = w.freeSlots
          /\ w.bgs[i].players \subseteq b.players \/ b.status = "wait_leave"
       \/ /\ b.status \in Running /\ IsInjective(v.freeSlots)
          /\ ToSet(v.freeSlots) = ToSet(w.freeSlots) \cup {i}
  BY <1>7
<1>12. QED
  BY <1>0, <1>2, <1>5, <1>6, <1>8, <1>9, <1>10, <1>11, BattleStep

(* Battleground::RemovePlayerAtLeave of a player in the world.             *)
LEMMA LeaveKeeps ==
    ASSUME NEW w, Inv(w), NEW i \in Instances, NEW p \in Players, w.bgId[p] = i, InWorld(w, p)
    PROVE  Inv(RemovePlayerAtLeave(w, i, p))
<1> DEFINE v == RemovePlayerAtLeave(w, i, p)
           b == Leaver(w, i, p)
<1>1. /\ w \in Worlds /\ Waiting(w) /\ w.bgs \in [Instances -> Battleground]
      /\ w.where \in [Players -> Places] /\ w.bgId \in [Players -> 0..MaxBattlegrounds]
      /\ w.slot \in [Players -> {NotQueued} \cup 0..MaxBattlegrounds]
  BY WorldFields DEF Inv
<1>2. LeftBattle(w, i, p, v)
  BY <1>1, LeaveEffect
<1> HIDE DEF v
<1>3. /\ v \in Worlds /\ v.queue = w.queue /\ v.timers = w.timers
      /\ v.where = [w.where EXCEPT ![p] = "outside"] /\ v.bgId = [w.bgId EXCEPT ![p] = 0]
  BY <1>2 DEF LeftBattle
<1>4. /\ v.where[p] = "outside" /\ Connected(v, p)
      /\ \A x \in Players \ {p} : v.where[x] = w.where[x] /\ v.bgId[x] = w.bgId[x]
  BY <1>1, <1>3 DEF Connected
<1>5. Connected(w, p)
  BY DEF Connected, InWorld
<1>6. CASE p \in w.bgs[i].players
  <2>1. /\ v.slot = [w.slot EXCEPT ![p] = NotQueued]
        /\ v.bgs = [w.bgs EXCEPT ![i] = b]
        /\ w.bgs[i].status # "wait_leave" =>
             /\ ToSet(v.freeSlots) = ToSet(w.freeSlots) \cup {i}
             /\ IsInjective(w.freeSlots) => IsInjective(v.freeSlots)
        /\ w.bgs[i].status = "wait_leave" => v.freeSlots = w.freeSlots
    BY <1>2, <1>6 DEF LeftBattle
  <2>2. /\ Without(w.bgs[i], p, b) /\ b \in Battleground
        /\ b.status = w.bgs[i].status /\ b.offline = w.bgs[i].offline
        /\ b.players = w.bgs[i].players \ {p}
    <3>1. Without(w.bgs[i], p, b) /\ b \in Battleground /\ b.offline = w.bgs[i].offline
      BY <1>1, LeaverEffect
    <3> HIDE DEF b
    <3>2. QED
      BY <3>1 DEF Without
  <2> HIDE DEF b
  <2>3. OfflineExact(v, i)
    <3>1. OfflineExact(w, i) /\ w.bgs[i].players \subseteq Players /\ v.bgs[i] = b
      BY <1>1, <2>1, BattlegroundFields DEF Inv, OfflineOK
    <3>2. \A x \in w.bgs[i].players \ {p} : Connected(v, x) <=> Connected(w, x)
      BY <1>4, <3>1 DEF Connected
    <3>3. QED
      BY <1>4, <1>5, <2>2, <3>1, <3>2 DEF OfflineExact
  <2>4. \/ v.freeSlots = w.freeSlots /\ b.status = "wait_leave"
        \/ /\ b.status # "wait_leave" /\ IsInjective(v.freeSlots)
           /\ ToSet(v.freeSlots) = ToSet(w.freeSlots) \cup {i}
    BY <2>1, <2>2 DEF Inv, FreeSlotsOK
  <2>5. \A x \in Players \ {p} : /\ v.where[x] = w.where[x] /\ v.bgId[x] = w.bgId[x]
                                 /\ v.slot[x] = w.slot[x]
    BY <1>1, <1>4, <2>1
  <2>6. v.where[p] # "porting"
    BY <1>4
  <2>7. v \in Worlds /\ v.queue = w.queue /\ v.timers = w.timers /\ v.bgs = [w.bgs EXCEPT ![i] = b]
    BY <1>3, <2>1
  <2>8. Inv(v)
    BY <1>6, <2>2, <2>3, <2>4, <2>5, <2>6, <2>7, MemberLeaves
  <2>9. QED
    BY <2>8 DEF v
<1>7. CASE p \notin w.bgs[i].players
  <2>1. v.slot = w.slot /\ v.bgs = w.bgs /\ v.freeSlots = w.freeSlots
    BY <1>2, <1>7 DEF LeftBattle
  <2>2. \A j \in Instances : p \notin w.bgs[j].players
    BY <1>7, MemberIsLive
  <2>3. \A x \in Players : /\ InWorld(v, x) <=> InWorld(w, x)
                           /\ Connected(v, x) <=> Connected(w, x)
                           /\ v.where[x] = "porting" <=> w.where[x] = "porting"
                           /\ v.where[x] = "porting" => v.bgId[x] = w.bgId[x]
    BY <1>4, <1>5 DEF InWorld, Connected
  <2>4. \A j \in Instances :
        /\ v.bgs[j].players = w.bgs[j].players
        /\ v.bgs[j].invited = w.bgs[j].invited /\ v.bgs[j].lost = w.bgs[j].lost
        /\ \/ v.bgs[j].count = w.bgs[j].count
           \/ v.bgs[j].players = {} /\ v.bgs[j].count = Zero
    BY <2>1
  <2>5. MembersAreInside(v)
    <3>1. ASSUME NEW j \in Instances, NEW x \in w.bgs[j].players PROVE x \in Players \ {p}
      BY <1>1, <2>2, BattlegroundFields
    <3>2. QED
      BY <1>4, <2>1, <3>1 DEF Inv, MembersAreInside
  <2>6. SameBattles(w, v) /\ \A j \in Instances : \A x \in w.bgs[j].players :
                               Connected(v, x) <=> Connected(w, x)
    BY <1>1, <2>1, <2>3, BattlegroundFields DEF SameBattles
  <2>7. DeadAreEmpty(v) /\ FreeSlotsOK(v) /\ OfflineOK(v)
    BY <1>1, <1>3, <2>6, BattlesStay DEF Inv
  <2>8. v \in Worlds /\ v.queue = w.queue /\ v.timers = w.timers /\ v.slot = w.slot
    BY <1>3, <2>1
  <2>9. Inv(v)
    BY <2>3, <2>4, <2>5, <2>7, <2>8, QuietStep
  <2>10. QED
    BY <2>9 DEF v
<1>8. QED
  BY <1>6, <1>7

-----------------------------------------------------------------------------
(* Moving between the maps, logging in.                                    *)

LEMMA MoveKeeps ==
    ASSUME NEW w, Inv(w), NEW p \in Players, p \notin QueuedPlayers(w),
           \A i \in Instances : p \notin w.bgs[i].players, w.where[p] # "porting",
           NEW h \in Places \ {"porting"}, NEW n \in 0..MaxBattlegrounds
    PROVE  Inv([w EXCEPT !.where[p] = h, !.bgId[p] = n])
<1> DEFINE v == [w EXCEPT !.where[p] = h, !.bgId[p] = n]
<1>1. /\ w \in Worlds /\ w.where \in [Players -> Places]
      /\ w.bgId \in [Players -> 0..MaxBattlegrounds]
  BY WorldFields DEF Inv
<1>2. /\ v \in Worlds /\ v.where = [w.where EXCEPT ![p] = h] /\ v.bgId = [w.bgId EXCEPT ![p] = n]
      /\ v.slot = w.slot /\ v.queue = w.queue /\ v.bgs = w.bgs
      /\ v.freeSlots = w.freeSlots /\ v.timers = w.timers
  BY <1>1 DEF Worlds
<1> HIDE DEF v
<1>3. /\ v.where[p] = h /\ h # "porting"
      /\ \A x \in Players \ {p} : v.where[x] = w.where[x] /\ v.bgId[x] = w.bgId[x]
  BY <1>1, <1>2
<1>4. OthersStay(w, p, v)
  BY <1>1, <1>2, <1>3, AbsentReduced DEF OthersStay
<1>5. SameBattles(w, v)
  BY <1>2 DEF SameBattles
<1>6. HolderKeepsSlot(v, p)
  BY <1>2, <1>3 DEF HolderKeepsSlot
<1>7. \A k \in Instances : p \in w.bgs[k].players =>
              /\ v.bgId[p] = k /\ v.where[p] \in {"inside", "offline_inside"}
              /\ Connected(v, p) <=> Connected(w, p)
  OBVIOUS
<1>8. ASSUME NEW k \in Instances, NEW t \in Teams
      PROVE   /\ v.bgs[k].count[t] = w.bgs[k].count[t]
              /\ v.bgs[k].invited[t] = w.bgs[k].invited[t]
              /\ v.bgs[k].lost[t] = w.bgs[k].lost[t]
              /\ TeamOf(p) = t =>
                   (Holds(w, p, k) <=> \/ v.where[p] = "porting" /\ v.bgId[p] = k
                                       \/ p \in w.bgs[k].players)
  <2>1. ~Holds(w, p, k)
    BY DEF Holds, InvitedTo, Instances
  <2>2. QED
    BY <1>2, <1>3, <2>1
<1>9. v \in Worlds
  BY <1>2
<1>10. Inv(v)
  BY <1>4, <1>5, <1>6, <1>7, <1>8, <1>9, QueueStep
<1>11. QED
  BY <1>10 DEF v

(* The next two: the end of a battle that is over, a return to one that    *)
(* goes on.                                                                *)
LEMMA SweepKeeps ==
    ASSUME NEW w, Inv(w), NEW i \in Instances, NEW p \in w.bgs[i].players,
           w.bgs[i].status = "wait_leave"
    PROVE  /\ Inv(RemovePlayerAtLeave(w, i, p))
           /\ RemovePlayerAtLeave(w, i, p).bgs[i].status = "wait_leave"
           /\ RemovePlayerAtLeave(w, i, p).bgs[i].players = w.bgs[i].players \ {p}
<1> DEFINE v == RemovePlayerAtLeave(w, i, p)
           b == Leaver(w, i, p)
<1>1. /\ w \in Worlds /\ w.bgs \in [Instances -> Battleground]
      /\ w.where \in [Players -> Places] /\ w.bgId \in [Players -> 0..MaxBattlegrounds]
      /\ w.slot \in [Players -> {NotQueued} \cup 0..MaxBattlegrounds]
  BY WorldFields DEF Inv
<1>2. p \in Players /\ w.where[p] \in {"inside", "offline_inside"}
  BY <1>1, BattlegroundFields, MemberIsLive
<1>3. LeftBattle(w, i, p, v)
  BY <1>1, <1>2, LeaveEffect
<1>4. Without(w.bgs[i], p, b) /\ b \in Battleground
  BY <1>1, <1>2, LeaverEffect
<1> HIDE DEF v, b
<1>5. /\ v \in Worlds /\ v.queue = w.queue /\ v.timers = w.timers
      /\ v.where = IF InWorld(w, p) THEN [w.where EXCEPT ![p] = "outside"] ELSE w.where
      /\ v.bgId = IF InWorld(w, p) THEN [w.bgId EXCEPT ![p] = 0] ELSE w.bgId
      /\ v.slot = IF InWorld(w, p) THEN [w.slot EXCEPT ![p] = NotQueued] ELSE w.slot
      /\ v.bgs = [w.bgs EXCEPT ![i] = b] /\ v.freeSlots = w.freeSlots
  BY <1>3 DEF LeftBattle, b
<1>6. /\ v.where[p] # "porting"
      /\ \A x \in Players \ {p} : /\ v.where[x] = w.where[x] /\ v.bgId[x] = w.bgId[x]
                                  /\ v.slot[x] = w.slot[x]
  BY <1>1, <1>2, <1>5
<1>7. /\ v.bgs[i].status = "wait_leave" /\ v.bgs[i].players = w.bgs[i].players \ {p}
      /\ b.status = "wait_leave"
  BY <1>1, <1>4, <1>5 DEF Without
<1>8. OfflineExact(v, i)
  BY <1>7 DEF OfflineExact, Running
<1>9. v.freeSlots = w.freeSlots /\ b.status = "wait_leave"
  BY <1>5, <1>7
<1>10. v \in Worlds /\ v.queue = w.queue /\ v.timers = w.timers /\ v.bgs = [w.bgs EXCEPT ![i] = b]
  BY <1>5
<1>11. Inv(v)
  BY <1>4, <1>6, <1>8, <1>9, <1>10, MemberLeaves
<1>12. QED
  BY <1>7, <1>11 DEF v

LEMMA ReturnKeeps ==
    ASSUME NEW w, Inv(w), NEW i \in Instances, NEW p \in w.bgs[i].players,
           w.bgs[i].status # "wait_leave", w.where[p] = "offline_inside"
    PROVE  Inv(AddPlayer([w EXCEPT !.slot[p] = i,
                                   !.bgs[i].offline = WithoutOffline(@, p),
                                   !.where[p] = "inside"], i, p))
<1> DEFINE s == RemoveFirst(w.bgs[i].offline, p)
           b == [w.bgs[i] EXCEPT !.offline = s]
           y == PutBg(w, i, b)
           u == [y EXCEPT !.slot[p] = i, !.where[p] = "inside"]
           v == AddPlayer(u, i, p)
<1>1. /\ w \in Worlds /\ w.bgs \in [Instances -> Battleground]
      /\ w.where \in [Players -> Places] /\ w.bgId \in [Players -> 0..MaxBattlegrounds]
      /\ w.slot \in [Players -> {NotQueued} \cup 0..MaxBattlegrounds]
      /\ w.bgs[i] \in Battleground
  BY WorldFields DEF Inv
<1>2. /\ p \in Players /\ Live(w, i) /\ w.bgId[p] = i /\ p \notin QueuedPlayers(w)
      /\ \A j \in Instances \ {i} : p \notin w.bgs[j].players
  <2>1. p \in Players
    BY <1>1, BattlegroundFields
  <2>2. QED
    BY <2>1, MemberIsLive, NotWaiting
<1>3. /\ s \in Seq(Players)
      /\ IsInjective(w.bgs[i].offline) =>
           IsInjective(s) /\ ToSet(s) = ToSet(w.bgs[i].offline) \ {p}
  <2>1. w.bgs[i].offline \in Seq(Players)
    BY <1>1, BattlegroundFields
  <2>2. QED
    BY <2>1, RemoveFirstSet
<1>4. [w EXCEPT !.slot[p] = i, !.bgs[i].offline = WithoutOffline(@, p), !.where[p] = "inside"] = u
  BY <1>1 DEF WithoutOffline, PutBg, Worlds
<1> HIDE DEF s
<1>5. /\ b \in Battleground /\ b.status = w.bgs[i].status /\ b.players = w.bgs[i].players
      /\ b.offline = s /\ b.invited = w.bgs[i].invited /\ b.count = w.bgs[i].count
      /\ b.lost = w.bgs[i].lost
  BY <1>1, <1>3 DEF Battleground
<1> HIDE DEF b
<1>6. /\ y \in Worlds
      /\ y.where = w.where /\ y.bgId = w.bgId /\ y.slot = w.slot /\ y.queue = w.queue
      /\ y.freeSlots = w.freeSlots /\ y.timers = w.timers
      /\ y.bgs = [w.bgs EXCEPT ![i] = b]
  BY <1>1, <1>5, PutBgEffect
<1> HIDE DEF y
<1>7. i \in {NotQueued} \cup 0..MaxBattlegrounds /\ "inside" \in Places
  BY DEF Instances, Places
<1>8. /\ u \in Worlds /\ u.slot = [w.slot EXCEPT ![p] = i]
      /\ u.where = [w.where EXCEPT ![p] = "inside"] /\ u.bgId = w.bgId
      /\ u.queue = w.queue /\ u.freeSlots = w.freeSlots /\ u.timers = w.timers
      /\ u.bgs = [w.bgs EXCEPT ![i] = b]
  BY <1>6, <1>7 DEF Worlds
<1> HIDE DEF u
<1>9. PICK c \in Battleground :
             v = PutBg(u, i, c) /\ With(u.bgs[i], p, c)
  BY <1>2, <1>8, AddPlayerEffect
<1>10. u.bgs[i] = b
  BY <1>1, <1>8
<1> HIDE DEF v
<1>11. /\ v \in Worlds /\ v.slot = u.slot /\ v.where = u.where /\ v.bgId = u.bgId
       /\ v.queue = u.queue /\ v.freeSlots = u.freeSlots /\ v.timers = u.timers
       /\ v.bgs = [u.bgs EXCEPT ![i] = c]
  <2> DEFINE z == PutBg(u, i, c)
  <2>1. /\ z \in Worlds /\ z.slot = u.slot /\ z.where = u.where /\ z.bgId = u.bgId
        /\ z.queue = u.queue /\ z.freeSlots = u.freeSlots /\ z.timers = u.timers
        /\ z.bgs = [u.bgs EXCEPT ![i] = c]
    BY <1>8, PutBgEffect
  <2> HIDE DEF z
  <2>2. QED
    BY <1>9, <2>1 DEF z
<1>12. /\ c.status = w.bgs[i].status /\ c.offline = s /\ c.invited = w.bgs[i].invited
       /\ c.players = w.bgs[i].players /\ c.lost = w.bgs[i].lost
       /\ c.count = [w.bgs[i].count EXCEPT ![TeamOf(p)] = @ + 1]
  BY <1>5, <1>9, <1>10 DEF With
<1>13. v.bgs = [w.bgs EXCEPT ![i] = c] /\ v.bgs[i] = c
  BY <1>1, <1>8, <1>11
<1>14. /\ v.slot[p] = i /\ v.where[p] = "inside" /\ v.bgId[p] = i /\ Connected(v, p)
       /\ \A x \in Players \ {p} : /\ v.where[x] = w.where[x] /\ v.bgId[x] = w.bgId[x]
                                   /\ v.slot[x] = w.slot[x]
  BY <1>1, <1>2, <1>8, <1>11 DEF Connected
<1>15. HolderKeepsSlot(v, p)
  BY <1>14 DEF HolderKeepsSlot, Instances, NotQueued
<1>16. ASSUME NEW t \in Teams
       PROVE  /\ PlaceKept(w, p, v, i, t) \/ PlaceGivenBack(w, p, v, i, t)
              /\ Recounted(w, p, v, i, t)
  <2>1. Holds(w, p, i)
    BY DEF Holds
  <2>2. w.bgs[i].count \in [Teams -> Int]
    BY <1>1, BattlegroundFields
  <2>3. \/ v.bgs[i].count[t] = w.bgs[i].count[t]
        \/ v.bgs[i].count[t] = w.bgs[i].count[t] + 1
    BY <1>12, <1>13, <2>2
  <2>4. Holds(v, p, i)
    BY <1>12, <1>13 DEF Holds
  <2>5. QED
    BY <1>12, <1>13, <2>1, <2>3, <2>4 DEF PlaceKept, Recounted
<1>17. OfflineExact(v, i)
  <2>1. OfflineExact(w, i) /\ w.bgs[i].players \subseteq Players
    BY <1>1, BattlegroundFields DEF Inv, OfflineOK
  <2>2. \A x \in w.bgs[i].players \ {p} : Connected(v, x) <=> Connected(w, x)
    BY <1>14, <2>1 DEF Connected
  <2>3. QED
    BY <1>3, <1>12, <1>13, <1>14, <2>1, <2>2 DEF OfflineExact
<1>18. Inv(v)
  <2>1. \A j \in Instances \ {i} : /\ p \notin w.bgs[j].players
                                   /\ ~(v.where[p] = "porting" /\ v.bgId[p] = j)
    BY <1>2, <1>14
  <2>2. \A x \in Players \ {p} : x \in c.players <=> x \in w.bgs[i].players
    BY <1>12
  <2>3. \A x \in Players \ {p} : /\ v.where[x] = w.where[x] /\ v.bgId[x] = w.bgId[x]
                                 /\ v.slot[x] = w.slot[x]
    BY <1>14
  <2>4. p \in c.players => v.bgId[p] = i /\ v.where[p] \in {"inside", "offline_inside"}
    BY <1>14
  <2>5. \/ /\ v.freeSlots = w.freeSlots
           /\ w.bgs[i].players \subseteq c.players \/ c.status = "wait_leave"
        \/ /\ c.status \in Running /\ IsInjective(v.freeSlots)
           /\ ToSet(v.freeSlots) = ToSet(w.freeSlots) \cup {i}
    BY <1>8, <1>11, <1>12
  <2>6. v \in Worlds /\ v.queue = w.queue /\ v.timers = w.timers /\ v.bgs = [w.bgs EXCEPT ![i] = c]
        /\ c.status = w.bgs[i].status
    BY <1>8, <1>11, <1>12, <1>13
  <2>7. QED
    BY <1>2, <1>15, <1>16, <1>17, <2>1, <2>2, <2>3, <2>4, <2>5, <2>6, BattleStep
<1>19. QED
  BY <1>4, <1>18 DEF v

(* Arriving in the battleground's map.                                     *)
LEMMA EnterKeeps ==
    ASSUME NEW w, Inv(w), NEW i \in Instances, NEW p \in Players, w.where[p] = "porting",
           w.bgId[p] = i, Live(w, i), w.slot[p] = i
    PROVE  LET v == AddPlayer([w EXCEPT !.where[p] = "inside"], i, p)
           IN  /\ Inv(v) /\ v.timers = w.timers /\ v.mishaps = w.mishaps
               /\ v.where[p] = "inside" /\ v.bgId = w.bgId
<1> DEFINE u == [w EXCEPT !.where[p] = "inside"]
           v == AddPlayer(u, i, p)
<1>1. /\ w \in Worlds /\ w.bgs \in [Instances -> Battleground]
      /\ w.where \in [Players -> Places] /\ w.bgs[i] \in Battleground
  BY WorldFields DEF Inv
<1>2. /\ p \notin QueuedPlayers(w) /\ \A j \in Instances : p \notin w.bgs[j].players
  BY QueuedPlayer, MemberIsLive DEF InWorld
<1>3. "inside" \in Places
  BY DEF Places
<1>4. /\ u \in Worlds /\ u.slot = w.slot
      /\ u.where = [w.where EXCEPT ![p] = "inside"] /\ u.bgId = w.bgId
      /\ u.queue = w.queue /\ u.freeSlots = w.freeSlots /\ u.timers = w.timers
      /\ u.bgs = w.bgs /\ u.mishaps = w.mishaps
  BY <1>1, <1>3 DEF Worlds
<1> HIDE DEF u
<1>5. PICK c \in Battleground : v = PutBg(u, i, c) /\ With(u.bgs[i], p, c)
  BY <1>4, AddPlayerEffect
<1> HIDE DEF v
<1>6. /\ v \in Worlds /\ v.slot = u.slot /\ v.where = u.where /\ v.bgId = u.bgId
      /\ v.queue = u.queue /\ v.freeSlots = u.freeSlots /\ v.timers = u.timers
      /\ v.bgs = [u.bgs EXCEPT ![i] = c] /\ v.mishaps = u.mishaps
  <2> DEFINE z == PutBg(u, i, c)
  <2>1. /\ z \in Worlds /\ z.slot = u.slot /\ z.where = u.where /\ z.bgId = u.bgId
        /\ z.queue = u.queue /\ z.freeSlots = u.freeSlots /\ z.timers = u.timers
        /\ z.bgs = [u.bgs EXCEPT ![i] = c] /\ z.mishaps = u.mishaps
    BY <1>4, PutBgEffect
  <2> HIDE DEF z
  <2>2. QED
    BY <1>5, <2>1 DEF z
<1>7. /\ c.status = w.bgs[i].status /\ c.offline = w.bgs[i].offline
      /\ c.invited = w.bgs[i].invited /\ c.players = w.bgs[i].players \cup {p}
      /\ c.lost = w.bgs[i].lost
      /\ c.count = [w.bgs[i].count EXCEPT ![TeamOf(p)] = @ + 1]
  BY <1>4, <1>5 DEF With
<1>8. v.bgs = [w.bgs EXCEPT ![i] = c] /\ v.bgs[i] = c
  BY <1>1, <1>4, <1>6
<1>9. /\ v.slot[p] = i /\ v.where[p] = "inside" /\ v.bgId[p] = i /\ Connected(v, p)
      /\ \A x \in Players \ {p} : /\ v.where[x] = w.where[x] /\ v.bgId[x] = w.bgId[x]
                                  /\ v.slot[x] = w.slot[x]
  BY <1>1, <1>4, <1>6 DEF Connected
<1>10. HolderKeepsSlot(v, p)
  BY <1>9 DEF HolderKeepsSlot, Instances, NotQueued
<1>11. ASSUME NEW t \in Teams
       PROVE  /\ PlaceKept(w, p, v, i, t) \/ PlaceGivenBack(w, p, v, i, t)
              /\ Recounted(w, p, v, i, t)
  <2>1. Holds(w, p, i)
    BY DEF Holds
  <2>2. w.bgs[i].count \in [Teams -> Int]
    BY <1>1, BattlegroundFields
  <2>3. v.bgs[i].count[t] = IF t = TeamOf(p) THEN w.bgs[i].count[t] + 1 ELSE w.bgs[i].count[t]
    BY <1>7, <1>8, <2>2
  <2>4. Holds(v, p, i)
    BY <1>7, <1>8 DEF Holds
  <2>5. QED
    BY <1>7, <1>8, <2>1, <2>3, <2>4 DEF PlaceKept, Recounted
<1>12. OfflineExact(v, i)
  <2>1. OfflineExact(w, i) /\ w.bgs[i].players \subseteq Players
    BY <1>1, BattlegroundFields DEF Inv, OfflineOK
  <2>2. \A x \in w.bgs[i].players : Connected(v, x) <=> Connected(w, x)
    BY <1>2, <1>9, <2>1 DEF Connected
  <2>3. QED
    BY <1>7, <1>8, <1>9, <2>1, <2>2 DEF OfflineExact
<1>13. Inv(v)
  <2>1. \A j \in Instances \ {i} : /\ p \notin w.bgs[j].players
                                   /\ ~(v.where[p] = "porting" /\ v.bgId[p] = j)
    BY <1>2, <1>9
  <2>2. \A x \in Players \ {p} : x \in c.players <=> x \in w.bgs[i].players
    BY <1>7
  <2>3. \A x \in Players \ {p} : /\ v.where[x] = w.where[x] /\ v.bgId[x] = w.bgId[x]
                                 /\ v.slot[x] = w.slot[x]
    BY <1>9
  <2>4. p \in c.players => v.bgId[p] = i /\ v.where[p] \in {"inside", "offline_inside"}
    BY <1>9
  <2>5. \/ /\ v.freeSlots = w.freeSlots
           /\ w.bgs[i].players \subseteq c.players \/ c.status = "wait_leave"
        \/ /\ c.status \in Running /\ IsInjective(v.freeSlots)
           /\ ToSet(v.freeSlots) = ToSet(w.freeSlots) \cup {i}
    BY <1>4, <1>6, <1>7
  <2>6. v \in Worlds /\ v.queue = w.queue /\ v.timers = w.timers /\ v.bgs = [w.bgs EXCEPT ![i] = c]
        /\ c.status = w.bgs[i].status
    BY <1>4, <1>6, <1>7, <1>8
  <2>7. QED
    BY <1>2, <1>10, <1>11, <1>12, <2>1, <2>2, <2>3, <2>4, <2>5, <2>6, BattleStep
<1>14. /\ v.timers = w.timers /\ v.mishaps = w.mishaps
       /\ v.where[p] = "inside" /\ v.bgId = w.bgId
  BY <1>4, <1>6, <1>9
<1>15. QED
  BY <1>13, <1>14 DEF v, u

(* Battleground::_ProcessOfflineQueue.                                     *)
LEMMA RemoveOfflineKeeps ==
    ASSUME NEW w, Inv(w), NEW i \in Instances, w.bgs[i].status \in Running
    PROVE  /\ Inv(RemoveOffline(w, i))
           /\ RemoveOffline(w, i).bgs[i].status = w.bgs[i].status
<1> DEFINE p == Head(w.bgs[i].offline)
           s == Tail(w.bgs[i].offline)
           u == RemovePlayerAtLeave(w, i, p)
           c == Leaver(w, i, p)
           b == [c EXCEPT !.offline = s]
           v == PutBg(u, i, b)
<1>1. CASE w.bgs[i].offline = <<>> \/ p \notin w.bgs[i].players
  BY <1>1 DEF RemoveOffline
<1>2. CASE ~(w.bgs[i].offline = <<>> \/ p \notin w.bgs[i].players)
  <2>1. /\ w \in Worlds /\ w.bgs \in [Instances -> Battleground]
        /\ w.where \in [Players -> Places] /\ w.bgId \in [Players -> 0..MaxBattlegrounds]
        /\ w.slot \in [Players -> {NotQueued} \cup 0..MaxBattlegrounds]
        /\ w.bgs[i] \in Battleground /\ w.bgs[i].offline \in Seq(Players)
    BY WorldFields, BattlegroundFields DEF Inv
  <2>2. RemoveOffline(w, i) = [u EXCEPT !.bgs[i].offline = Tail(u.bgs[i].offline)]
    BY <1>2 DEF RemoveOffline
  <2>3. p \in w.bgs[i].players
    BY <1>2
  <2>4. /\ p \in Players /\ s \in Seq(Players)
        /\ ToSet(w.bgs[i].offline) = ToSet(s) \cup {p}
        /\ IsInjective(w.bgs[i].offline) => IsInjective(s) /\ p \notin ToSet(s)
    BY <1>2, <2>1, TailLemma
  <2> HIDE DEF p, s
  <2>5. /\ OfflineExact(w, i) /\ IsInjective(w.bgs[i].offline)
        /\ ToSet(w.bgs[i].offline) = {x \in w.bgs[i].players : ~Connected(w, x)}
    BY DEF Inv, OfflineOK, OfflineExact
  <2>6. ~InWorld(w, p) /\ w.where[p] # "porting"
    BY <2>4, <2>5 DEF Connected, InWorld
  <2>7. LeftBattle(w, i, p, u)
    BY <2>1, <2>4, LeaveEffect
  <2>8. Without(w.bgs[i], p, c) /\ c \in Battleground /\ c.offline = w.bgs[i].offline
    BY <2>1, <2>4, LeaverEffect
  <2> HIDE DEF u
  <2>9. /\ u \in Worlds /\ u.queue = w.queue /\ u.timers = w.timers
        /\ u.where = w.where /\ u.bgId = w.bgId /\ u.slot = w.slot
        /\ u.bgs = [w.bgs EXCEPT ![i] = c]
        /\ ToSet(u.freeSlots) = ToSet(w.freeSlots) \cup {i}
        /\ IsInjective(w.freeSlots) => IsInjective(u.freeSlots)
    BY <2>3, <2>6, <2>7 DEF LeftBattle, Running
  <2> HIDE DEF c
  <2>10. u.bgs[i] = c
    BY <2>1, <2>9
  <2>11. /\ b \in Battleground /\ b.status = c.status /\ b.players = c.players
         /\ b.offline = s /\ b.invited = c.invited /\ b.count = c.count
         /\ b.lost = c.lost
    BY <2>4, <2>8 DEF Battleground
  <2>12. Without(w.bgs[i], p, b) /\ b.status = w.bgs[i].status
         /\ b.players = w.bgs[i].players \ {p}
    BY <2>8, <2>11 DEF Without
  <2>13. RemoveOffline(w, i) = v
    <3>1. Tail(u.bgs[i].offline) = s
      BY <2>8, <2>10 DEF s
    <3>2. QED
      BY <2>2, <2>9, <2>10, <3>1 DEF PutBg, Worlds
  <2> HIDE DEF b
  <2>14. /\ v \in Worlds /\ v.queue = u.queue /\ v.timers = u.timers
         /\ v.where = u.where /\ v.bgId = u.bgId /\ v.slot = u.slot
         /\ v.freeSlots = u.freeSlots /\ v.bgs = [u.bgs EXCEPT ![i] = b]
    BY <2>9, <2>11, PutBgEffect
  <2> HIDE DEF v
  <2>15. v.bgs = [w.bgs EXCEPT ![i] = b] /\ v.bgs[i] = b
    BY <2>1, <2>9, <2>14
  <2>16. OfflineExact(v, i)
    <3>1. \A x \in w.bgs[i].players : Connected(v, x) <=> Connected(w, x)
      BY <2>9, <2>14 DEF Connected
    <3>2. ToSet(s) = {x \in b.players : ~Connected(v, x)}
      BY <2>4, <2>5, <2>12, <3>1
    <3>3. QED
      BY <2>4, <2>5, <2>11, <2>15, <3>2 DEF OfflineExact
  <2>17. /\ b.status # "wait_leave" /\ IsInjective(v.freeSlots)
         /\ ToSet(v.freeSlots) = ToSet(w.freeSlots) \cup {i}
    BY <2>9, <2>12, <2>14 DEF Inv, FreeSlotsOK, Running
  <2>18. \A x \in Players \ {p} : /\ v.where[x] = w.where[x] /\ v.bgId[x] = w.bgId[x]
                                  /\ v.slot[x] = w.slot[x]
    BY <2>9, <2>14
  <2>19. v \in Worlds /\ v.queue = w.queue /\ v.timers = w.timers /\ v.where[p] # "porting"
         /\ b \in Battleground
    BY <2>6, <2>9, <2>11, <2>14
  <2>20. Inv(v)
    BY <2>3, <2>12, <2>15, <2>16, <2>17, <2>18, <2>19, MemberLeaves
  <2>21. QED
    BY <2>12, <2>13, <2>15, <2>20
<1>3. QED
  BY <1>1, <1>2

-----------------------------------------------------------------------------
(* The sweep of a battleground whose time is over: its players leave one   *)
(* after the other.                                                        *)
Swept(w, i) == FoldSet(LAMBDA p, v : RemovePlayerAtLeave(v, i, p), w, w.bgs[i].players)

SweepTrace(w, i, S, g) ==
  /\ g[{}] = w /\ Swept(w, i) = g[S]
  /\ \A T \in SUBSET S : T # {} =>
       \E x \in T : g[T] = RemovePlayerAtLeave(g[T \ {x}], i, x)

LEMMA SweepSteps ==
    ASSUME NEW w, NEW i, NEW S, IsFiniteSet(S), w.bgs[i].players = S
    PROVE  \E g : SweepTrace(w, i, S, g)
<1> DEFINE Body(g, n) ==
             [T \in Layer(S, n) |->
                IF T = {} THEN w
                ELSE RemovePlayerAtLeave(g[T \ {CHOOSE x \in T : TRUE}], i, CHOOSE x \in T : TRUE)]
           All(g) ==
             [T \in SUBSET S |->
                IF T = {} THEN w
                ELSE RemovePlayerAtLeave(g[T \ {CHOOSE x \in T : TRUE}], i, CHOOSE x \in T : TRUE)]
           N == {n \in Nat : \E g : g = Body(g, n)}
           it == CHOOSE g : g = All(g)
<1>1. /\ Layer(S, 0) = {{}}
      /\ \A n \in Nat : Layer(S, n) \subseteq Layer(S, n + 1)
      /\ \A n \in Nat : \A T \in Layer(S, n + 1) : \A x \in T : T \ {x} \in Layer(S, n)
      /\ Cardinality(S) \in Nat /\ Layer(S, Cardinality(S)) = SUBSET S
  BY Layers
<1>2. 0 \in N
  <2> DEFINE g == [T \in Layer(S, 0) |-> w]
  <2>1. g = Body(g, 0)
    BY <1>1
  <2>2. QED
    BY <2>1
<1>3. ASSUME NEW n \in Nat, n \in N PROVE n + 1 \in N
  <2>1. PICK g : g = Body(g, n)
    BY <1>3
  <2> DEFINE h == Body(g, n + 1)
  <2>2. ASSUME NEW T \in Layer(S, n) PROVE h[T] = g[T]
    <3>1. T \in Layer(S, n + 1)
      BY <1>1
    <3>2. h[T] = Body(g, n)[T]
      BY <3>1
    <3>3. QED
      BY <2>1, <3>2
  <2>3. ASSUME NEW T \in Layer(S, n + 1), T # {} PROVE T \ {CHOOSE x \in T : TRUE} \in Layer(S, n)
    BY <1>1, <2>3
  <2> HIDE DEF h
  <2>4. Body(h, n + 1) = Body(g, n + 1)
    BY <2>2, <2>3
  <2>5. h = Body(h, n + 1)
    BY <2>4 DEF h
  <2> HIDE DEF Body
  <2>6. QED
    BY <2>5 DEF N
<1> HIDE DEF N
<1>4. Cardinality(S) \in N
  BY <1>1, <1>2, <1>3, NatSetInduction
<1>5. \E g : g = All(g)
  <2>1. PICK g : g = Body(g, Cardinality(S))
    BY <1>4 DEF N
  <2>2. Body(g, Cardinality(S)) = All(g)
    BY <1>1
  <2> HIDE DEF Body, All
  <2>3. QED
    BY <2>1, <2>2
<1>6. it = All(it)
  BY <1>5, Zenon
<1>7. Swept(w, i) = it[S]
  BY DEF Swept, FoldSet, MapThenFoldSet
<1> HIDE DEF it
<1>8. it[{}] = w
  BY <1>6
<1>9. ASSUME NEW T \in SUBSET S, T # {}
      PROVE  \E x \in T : it[T] = RemovePlayerAtLeave(it[T \ {x}], i, x)
  <2>1. it[T] = RemovePlayerAtLeave(it[T \ {CHOOSE x \in T : TRUE}], i, CHOOSE x \in T : TRUE)
    BY <1>6, <1>9
  <2>2. (CHOOSE x \in T : TRUE) \in T
    BY <1>9
  <2>3. QED
    BY <2>1, <2>2
<1>10. QED
  BY <1>7, <1>8, <1>9 DEF SweepTrace

LEMMA SweptKeeps ==
    ASSUME NEW w, Inv(w), NEW i \in Instances, w.bgs[i].status = "wait_leave"
    PROVE  Inv(Swept(w, i)) /\ Swept(w, i).timers = w.timers
<1> DEFINE S == w.bgs[i].players
<1>1. IsFiniteSet(S)
  BY WorldFields, BattlegroundFields, PlayersAreFinite, FS_Subset DEF Inv
<1>2. PICK g : SweepTrace(w, i, S, g)
  BY <1>1, SweepSteps
<1> DEFINE X == {T \in SUBSET S : /\ Inv(g[T]) /\ g[T].bgs[i].status = "wait_leave"
                                  /\ g[T].bgs[i].players = S \ T /\ g[T].timers = w.timers}
<1>3. {} \in X
  BY <1>2 DEF SweepTrace
<1>4. ASSUME NEW T \in SUBSET S, T # {}, \A x \in T : T \ {x} \in X PROVE T \in X
  <2>1. PICK x \in T : g[T] = RemovePlayerAtLeave(g[T \ {x}], i, x)
    BY <1>2, <1>4 DEF SweepTrace
  <2> DEFINE u == g[T \ {x}]
  <2>2. /\ Inv(u) /\ u.bgs[i].status = "wait_leave" /\ u.bgs[i].players = S \ (T \ {x})
        /\ u.timers = w.timers
    BY <1>4
  <2>3. x \in u.bgs[i].players
    BY <2>2
  <2> HIDE DEF u, S, X
  <2>8. RemovePlayerAtLeave(u, i, x).timers = u.timers
    <3>1. u \in Worlds /\ x \in Players
      BY <2>2, <2>3, WorldFields, BattlegroundFields DEF Inv
    <3>2. LeftBattle(u, i, x, RemovePlayerAtLeave(u, i, x))
      BY <3>1, LeaveEffect
    <3>3. QED
      BY <3>2 DEF LeftBattle
  <2>4. /\ Inv(RemovePlayerAtLeave(u, i, x))
        /\ RemovePlayerAtLeave(u, i, x).bgs[i].status = "wait_leave"
        /\ RemovePlayerAtLeave(u, i, x).bgs[i].players = u.bgs[i].players \ {x}
    BY <2>2, <2>3, SweepKeeps
  <2>5. g[T] = RemovePlayerAtLeave(u, i, x)
    BY <2>1 DEF u
  <2>6. u.bgs[i].players \ {x} = S \ T
    BY <2>2
  <2>7. QED
    BY <2>2, <2>4, <2>5, <2>6, <2>8 DEF X
<1> HIDE DEF X, S
<1>5. S \in X
  BY <1>1, <1>3, <1>4, SubsetInduction
<1>6. QED
  BY <1>2, <1>5 DEF X, SweepTrace

-----------------------------------------------------------------------------
(* A battleground in another state, with the same players in it.           *)
LEMMA RenewedKeeps ==
    ASSUME NEW w, Inv(w), NEW i \in Instances, NEW b \in Battleground, NEW v \in Worlds,
           v.where = w.where, v.bgId = w.bgId, v.slot = w.slot,
           v.queue = w.queue, v.timers = w.timers, v.bgs = [w.bgs EXCEPT ![i] = b],
           b.players = w.bgs[i].players, b.invited = w.bgs[i].invited,
           b.lost = w.bgs[i].lost,
           b.count = w.bgs[i].count \/ (b.players = {} /\ b.count = Zero),
           b.status = "none" => b = NoBattleground,
           OfflineExact(v, i), FreeSlotsOK(v)
    PROVE  Inv(v)
<1>1. w.bgs \in [Instances -> Battleground]
  BY WorldFields DEF Inv
<1>2. v.bgs[i] = b /\ \A j \in Instances \ {i} : v.bgs[j] = w.bgs[j]
  BY <1>1
<1>3. \A j \in Instances : v.bgs[j].players = w.bgs[j].players
  BY <1>2
<1>4. MembersAreInside(v) /\ DeadAreEmpty(v)
  BY <1>2, <1>3 DEF Inv, MembersAreInside, DeadAreEmpty
<1>5. OfflineOK(v)
  <2>1. ASSUME NEW j \in Instances, j # i PROVE OfflineExact(v, j)
    BY <1>2, <2>1 DEF OfflineExact, Inv, OfflineOK, Connected
  <2>2. QED
    BY <2>1 DEF OfflineOK
<1>6. \A x \in Players : /\ InWorld(v, x) <=> InWorld(w, x)
                         /\ Connected(v, x) <=> Connected(w, x)
                         /\ v.where[x] = "porting" <=> w.where[x] = "porting"
                         /\ v.where[x] = "porting" => v.bgId[x] = w.bgId[x]
  BY DEF InWorld, Connected
<1>7. \A j \in Instances :
        /\ v.bgs[j].players = w.bgs[j].players
        /\ v.bgs[j].invited = w.bgs[j].invited /\ v.bgs[j].lost = w.bgs[j].lost
        /\ \/ v.bgs[j].count = w.bgs[j].count
           \/ v.bgs[j].players = {} /\ v.bgs[j].count = Zero
  BY <1>2
<1>8. QED
  BY <1>4, <1>5, <1>6, <1>7, QuietStep

(* The battle begins.                                                      *)
LEMMA StartKeeps ==
    ASSUME NEW w, Inv(w), NEW i \in Instances, w.bgs[i].status = "wait_join"
    PROVE  Inv([w EXCEPT !.bgs[i].status = "in_progress"])
<1> DEFINE b == [w.bgs[i] EXCEPT !.status = "in_progress"]
           v == PutBg(w, i, b)
<1>1. w \in Worlds /\ w.bgs \in [Instances -> Battleground] /\ w.bgs[i] \in Battleground
  BY WorldFields DEF Inv
<1>2. /\ b \in Battleground /\ b.status = "in_progress"
      /\ b.players = w.bgs[i].players /\ b.offline = w.bgs[i].offline
      /\ b.invited = w.bgs[i].invited /\ b.count = w.bgs[i].count
      /\ b.lost = w.bgs[i].lost
  BY <1>1 DEF Battleground, Statuses
<1>3. [w EXCEPT !.bgs[i].status = "in_progress"] = v
  BY DEF PutBg
<1> HIDE DEF b
<1>4. /\ v \in Worlds
      /\ v.where = w.where /\ v.bgId = w.bgId /\ v.slot = w.slot /\ v.queue = w.queue
      /\ v.freeSlots = w.freeSlots /\ v.timers = w.timers
      /\ v.bgs = [w.bgs EXCEPT ![i] = b]
  BY <1>1, <1>2, PutBgEffect
<1> HIDE DEF v
<1>5. v.bgs[i] = b /\ \A j \in Instances \ {i} : v.bgs[j] = w.bgs[j]
  BY <1>1, <1>4
<1>6. OfflineExact(v, i)
  BY <1>2, <1>4, <1>5 DEF OfflineExact, OfflineOK, Inv, Running, Connected
<1>7. FreeSlotsOK(v)
  <2>1. \A j \in Instances : /\ v.bgs[j].status \in Running <=> w.bgs[j].status \in Running
                             /\ v.bgs[j].players = w.bgs[j].players
    BY <1>2, <1>5 DEF Running
  <2>2. ToSet(w.freeSlots) \subseteq Instances
    BY <1>1, WorldFields, LenProperties DEF ToSet
  <2>3. QED
    BY <1>4, <2>1, <2>2 DEF FreeSlotsOK, Inv
<1>8. /\ b.players = w.bgs[i].players /\ b.invited = w.bgs[i].invited
      /\ b.lost = w.bgs[i].lost
      /\ b.count = w.bgs[i].count \/ (b.players = {} /\ b.count = Zero)
      /\ b.status = "none" => b = NoBattleground
  BY <1>2
<1>9. Inv(v)
  BY <1>2, <1>4, <1>6, <1>7, <1>8, RenewedKeeps
<1>10. QED
  BY <1>3, <1>9

(* A battleground that nobody is in, nor invited to, is deleted.           *)
LEMMA NoBattlegroundType == NoBattleground \in Battleground /\ NoBattleground.status = "none"
<1>1. Zero \in [Teams -> Int] /\ Zero \in [Teams -> Nat]
  BY DEF Zero
<1>2. << >> \in Seq(Players)
  OBVIOUS
<1>3. QED
  BY <1>1, <1>2 DEF NoBattleground, Battleground, Statuses

LEMMA DeleteKeeps ==
    ASSUME NEW w, Inv(w), NEW i \in Instances, w.bgs[i].players = {}, w.bgs[i].invited = Zero
    PROVE  Inv([RemoveFromFreeSlots(w, i) EXCEPT !.bgs[i] = NoBattleground])
<1> DEFINE u == RemoveFromFreeSlots(w, i)
           b == NoBattleground
           v == PutBg(u, i, b)
<1>1. w \in Worlds /\ w.bgs \in [Instances -> Battleground] /\ IsInjective(w.freeSlots)
  BY WorldFields DEF Inv, FreeSlotsOK
<1>2. /\ u \in Worlds
      /\ u.where = w.where /\ u.bgId = w.bgId /\ u.slot = w.slot /\ u.queue = w.queue
      /\ u.bgs = w.bgs /\ u.timers = w.timers
      /\ IsInjective(u.freeSlots) /\ ToSet(u.freeSlots) = ToSet(w.freeSlots) \ {i}
  BY <1>1, RemoveFromFreeSlotsEffect
<1>3. /\ b \in Battleground /\ b.status = "none" /\ b.players = {}
      /\ b.invited = Zero /\ b.count = Zero /\ b.lost = Zero
  BY NoBattlegroundType DEF NoBattleground
<1>4. [u EXCEPT !.bgs[i] = NoBattleground] = v
  BY DEF PutBg
<1> HIDE DEF u, b
<1>5. /\ v \in Worlds
      /\ v.where = w.where /\ v.bgId = w.bgId /\ v.slot = w.slot /\ v.queue = w.queue
      /\ v.freeSlots = u.freeSlots /\ v.timers = w.timers
      /\ v.bgs = [w.bgs EXCEPT ![i] = b]
  BY <1>2, <1>3, PutBgEffect
<1> HIDE DEF v
<1>6. v.bgs[i] = b /\ \A j \in Instances \ {i} : v.bgs[j] = w.bgs[j]
  BY <1>1, <1>5
<1>7. OfflineExact(v, i)
  BY <1>3, <1>6 DEF OfflineExact, Running
<1>8. FreeSlotsOK(v)
  <2>1. ToSet(w.freeSlots) \subseteq Instances
    BY <1>1, WorldFields, LenProperties DEF ToSet
  <2>2. QED
    BY <1>2, <1>3, <1>5, <1>6, <2>1 DEF FreeSlotsOK, Inv, Running
<1>a. w.bgs[i].lost = Zero
  <2>1. w.bgs[i].lost \in [Teams -> Nat]
    BY <1>1, BattlegroundFields
  <2>2. ASSUME NEW t \in Teams PROVE w.bgs[i].lost[t] = 0
    <3>1. w.bgs[i].invited[t] = Cardinality(HoldersOf(w, i, t)) + w.bgs[i].lost[t]
      BY DEF Inv, PlacesOK
    <3>2. w.bgs[i].invited[t] = 0 /\ w.bgs[i].lost[t] \in Nat
      BY <2>1 DEF Zero
    <3>3. Cardinality(HoldersOf(w, i, t)) \in Nat
      BY <1>1, HoldersAreFinite
    <3>4. QED
      BY <3>1, <3>2, <3>3
  <2>3. QED
    BY <2>1, <2>2 DEF Zero
<1>9. /\ b.players = w.bgs[i].players /\ b.invited = w.bgs[i].invited
      /\ b.lost = w.bgs[i].lost
      /\ b.count = w.bgs[i].count \/ (b.players = {} /\ b.count = Zero)
      /\ b.status = "none" => b = NoBattleground
  BY <1>3, <1>a DEF b
<1>10. Inv(v)
  BY <1>3, <1>5, <1>7, <1>8, <1>9, RenewedKeeps
<1>11. QED
  BY <1>4, <1>10 DEF u

-----------------------------------------------------------------------------
(* An invitation.  Every queued player is connected, so that the whole     *)
(* group is counted and told, and gets its timers.                         *)
MoreInvited(w, i, g) == [w.bgs[i] EXCEPT !.invited[g.team] = @ + Size(g)]

Inviting(w, g, i, v) ==
  /\ v \in Worlds
  /\ v.where = w.where /\ v.bgId = w.bgId
  /\ v.freeSlots = w.freeSlots /\ v.scheduled = w.scheduled /\ v.mishaps = w.mishaps
  /\ v.queue = [l \in Lists |-> ReplaceAll(w.queue[l], g, Invited(g, i))]
  /\ v.bgs = [w.bgs EXCEPT ![i] = MoreInvited(w, i, g)]
  /\ v.slot = [p \in Players |-> IF p \in g.players THEN i ELSE w.slot[p]]
  /\ v.timers = w.timers \cup {[player |-> p, instance |-> i, left |-> AcceptWait] : p \in g.players}

LEMMA SizeType ==
    ASSUME NEW g \in Group
    PROVE  IsFiniteSet(g.players) /\ Size(g) \in Nat /\ Size(g) > 0
<1>0. g.players \in (SUBSET Players) \ {{}}
  BY DEF Group
<1>1. g.players \in SUBSET Players /\ g.players # {}
  BY <1>0
<1>2. IsFiniteSet(g.players)
  BY <1>1, PlayersAreFinite, FS_Subset
<1>3. Cardinality(g.players) \in Nat /\ Cardinality(g.players) # 0
  BY <1>1, <1>2, FS_CardinalityType, FS_EmptySet
<1>4. QED
  BY <1>2, <1>3 DEF Size

LEMMA MoreInvitedEffect ==
    ASSUME NEW w \in Worlds, NEW i \in Instances, NEW g \in Group
    PROVE  LET b == MoreInvited(w, i, g)
           IN  /\ b \in Battleground /\ b.status = w.bgs[i].status
               /\ b.players = w.bgs[i].players /\ b.offline = w.bgs[i].offline
               /\ b.count = w.bgs[i].count /\ b.lost = w.bgs[i].lost
               /\ b.invited = [w.bgs[i].invited EXCEPT ![g.team] = @ + Size(g)]
<1> DEFINE old == w.bgs[i]
           m == [old.invited EXCEPT ![g.team] = @ + Size(g)]
<1>1. old \in Battleground /\ g.team \in Teams /\ Size(g) \in Nat
  BY WorldFields, SizeType DEF Group
<1>2. MoreInvited(w, i, g) = [old EXCEPT !.invited = m]
  BY DEF MoreInvited
<1> HIDE DEF old
<1>3. m \in [Teams -> Int]
  BY <1>1, BattlegroundFields
<1> HIDE DEF m
<1> DEFINE b == [old EXCEPT !.invited = m]
<1>4. /\ b \in Battleground /\ b.status = old.status /\ b.offline = old.offline
      /\ b.players = old.players /\ b.count = old.count /\ b.invited = m
      /\ b.lost = old.lost
  BY <1>1, <1>3 DEF Battleground
<1> HIDE DEF b
<1>5. QED
  BY <1>2, <1>4 DEF b, old, m

LEMMA InvitedGroup ==
    ASSUME NEW g \in Group, NEW i \in Instances
    PROVE  LET h == Invited(g, i)
           IN  /\ h \in Group /\ h.players = g.players /\ h.team = g.team
               /\ h.invited = i /\ h.left = AcceptWait
<1>1. i \in 0..MaxBattlegrounds /\ AcceptWait \in 0..AcceptWait
  BY BattlegroundConstants DEF Instances
<1>2. QED
  BY <1>1 DEF Group, Invited

LEMMA InviteEffect ==
    ASSUME NEW w \in Worlds, NEW i \in Instances, NEW g \in Group,
           \A p \in g.players : Connected(w, p)
    PROVE  Inviting(w, g, i, Invite(w, g, i))
<1> DEFINE told == {p \in g.players : Connected(w, p)}
           q == [l \in Lists |-> ReplaceAll(w.queue[l], g, Invited(g, i))]
           b == MoreInvited(w, i, g)
           s == [p \in Players |-> IF p \in g.players THEN i ELSE w.slot[p]]
           e == {[player |-> p, instance |-> i, left |-> AcceptWait] : p \in g.players}
           v == [w EXCEPT !.queue = q, !.bgs = [w.bgs EXCEPT ![i] = b],
                          !.slot = s, !.timers = w.timers \cup e]
<1>1. /\ w.bgs \in [Instances -> Battleground] /\ w.queue \in [Lists -> Seq(Group)]
      /\ w.slot \in [Players -> {NotQueued} \cup 0..MaxBattlegrounds] /\ w.timers \in SUBSET Timer
  BY WorldFields
<1>2. told = g.players
  OBVIOUS
<1>3. Invite(w, g, i) = v
  BY <1>2 DEF Invite, MoreInvited, Size
<1>4. q \in [Lists -> Seq(Group)]
  BY <1>1, InvitedGroup, ReplaceAllLemma
<1>5. b \in Battleground
  BY MoreInvitedEffect
<1>6. s \in [Players -> {NotQueued} \cup 0..MaxBattlegrounds]
  BY <1>1, BattlegroundConstants DEF Instances
<1>7. e \in SUBSET Timer
  <2>1. g.players \subseteq Players /\ AcceptWait \in 0..AcceptWait
    BY BattlegroundConstants DEF Group
  <2>2. QED
    BY <2>1 DEF Timer
<1> HIDE DEF q, b, s, e
<1>8. /\ v \in Worlds /\ v.where = w.where /\ v.bgId = w.bgId
      /\ v.freeSlots = w.freeSlots /\ v.scheduled = w.scheduled /\ v.mishaps = w.mishaps
      /\ v.queue = q /\ v.bgs = [w.bgs EXCEPT ![i] = b] /\ v.slot = s
      /\ v.timers = w.timers \cup e
  BY <1>1, <1>4, <1>5, <1>6, <1>7 DEF Worlds
<1> HIDE DEF v
<1>9. QED
  BY <1>3, <1>8 DEF Inviting, q, b, s, e

(* A group is at one position of the queue, and there only the invitation  *)
(* changes.                                                                *)
IsAt(w, l, k, g) == k \in DOMAIN w.queue[l] /\ g = w.queue[l][k]

LEMMA InvitedAt ==
    ASSUME NEW w \in Worlds, OnePlace(w.queue), NEW l \in Lists, NEW k, NEW g,
           IsAt(w, l, k, g), NEW i \in Instances, NEW v, Inviting(w, g, i, v)
    PROVE  /\ g \in Group
           /\ \A m \in Lists : DOMAIN v.queue[m] = DOMAIN w.queue[m]
           /\ v.queue[l][k] = Invited(g, i)
           /\ \A m \in Lists : \A n \in DOMAIN w.queue[m] :
                m # l \/ n # k => /\ v.queue[m][n] = w.queue[m][n]
                                  /\ w.queue[m][n].players \cap g.players = {}
<1>0. k \in DOMAIN w.queue[l] /\ g = w.queue[l][k]
  BY DEF IsAt
<1>1. w.queue \in Queues
  BY WorldFields DEF Queues
<1>2. g \in Group /\ g.players # {}
  BY <1>0, <1>1, GroupAt
<1>3. \A m \in Lists : w.queue[m] \in Seq(Group) /\ DOMAIN w.queue[m] = 1..Len(w.queue[m])
  BY <1>1, LenProperties DEF Queues
<1>4. Invited(g, i) \in Group
  BY <1>2, InvitedGroup
<1>5. ASSUME NEW m \in Lists
      PROVE  /\ DOMAIN v.queue[m] = DOMAIN w.queue[m]
             /\ \A n \in DOMAIN w.queue[m] :
                  v.queue[m][n] = IF w.queue[m][n] = g THEN Invited(g, i) ELSE w.queue[m][n]
  <2>1. v.queue[m] = ReplaceAll(w.queue[m], g, Invited(g, i))
    BY DEF Inviting
  <2>2. /\ v.queue[m] \in Seq(Group) /\ Len(v.queue[m]) = Len(w.queue[m])
        /\ \A n \in 1..Len(w.queue[m]) :
             v.queue[m][n] = IF w.queue[m][n] = g THEN Invited(g, i) ELSE w.queue[m][n]
    BY <1>3, <1>4, <2>1, ReplaceAllLemma
  <2>3. DOMAIN v.queue[m] = 1..Len(v.queue[m])
    BY <2>2, LenProperties
  <2>4. QED
    BY <1>3, <2>2, <2>3
<1>6. ASSUME NEW m \in Lists, NEW n \in DOMAIN w.queue[m], m # l \/ n # k
      PROVE  w.queue[m][n].players \cap g.players = {} /\ w.queue[m][n] # g
  <2>1. w.queue[m][n].players \cap w.queue[l][k].players = {}
    BY <1>0, <1>6 DEF OnePlace
  <2>2. QED
    BY <1>0, <1>2, <2>1
<1>7. QED
  BY <1>0, <1>2, <1>5, <1>6

LEMMA InvitedWait ==
    ASSUME NEW w, Inv(w), NEW l \in Lists, NEW k, NEW g,
           IsAt(w, l, k, g), NEW i \in Instances, NEW v, Inviting(w, g, i, v)
    PROVE  Waiting(v)
<1>0. k \in DOMAIN w.queue[l] /\ g = w.queue[l][k]
  BY DEF IsAt
<1>1. w \in Worlds /\ OnePlace(w.queue) /\ QueuedOK(w) /\ TimersOK(w)
  BY DEF Inv, Waiting
<1>2. w.queue \in Queues /\ w.bgs \in [Instances -> Battleground]
  BY <1>1, WorldFields DEF Queues
<1>3. /\ g \in Group
      /\ \A m \in Lists : DOMAIN v.queue[m] = DOMAIN w.queue[m]
      /\ v.queue[l][k] = Invited(g, i)
      /\ \A m \in Lists : \A n \in DOMAIN w.queue[m] :
           m # l \/ n # k => /\ v.queue[m][n] = w.queue[m][n]
                             /\ w.queue[m][n].players \cap g.players = {}
  BY <1>1, InvitedAt
<1>4. /\ Invited(g, i).players = g.players /\ Invited(g, i).team = g.team
      /\ Invited(g, i).invited = i /\ Invited(g, i).left = AcceptWait
  BY <1>3, InvitedGroup
<1>5. \A m \in Lists : \A n \in DOMAIN w.queue[m] :
        /\ v.queue[m][n].players = w.queue[m][n].players
        /\ v.queue[m][n].team = w.queue[m][n].team
  BY <1>0, <1>3, <1>4
<1>6. /\ v.where = w.where
      /\ v.slot = [p \in Players |-> IF p \in g.players THEN i ELSE w.slot[p]]
      /\ v.timers = w.timers \cup {[player |-> p, instance |-> i, left |-> AcceptWait] :
                                   p \in g.players}
      /\ v.bgs = [w.bgs EXCEPT ![i] = MoreInvited(w, i, g)]
  BY DEF Inviting
<1>7. \A j \in Instances : v.bgs[j].players = w.bgs[j].players
  <2>1. w \in Worlds /\ g \in Group
    BY <1>1, <1>3
  <2>2. MoreInvited(w, i, g).players = w.bgs[i].players
    BY <2>1, MoreInvitedEffect
  <2>3. QED
    BY <1>2, <1>6, <2>2
<1>8. OnePlace(v.queue)
  BY <1>1, <1>3, <1>5 DEF OnePlace
<1>9. QueuedOK(v)
  <2>1. ASSUME NEW m \in Lists, NEW n \in DOMAIN v.queue[m]
        PROVE  /\ v.queue[m][n].team = m[2]
               /\ \A p \in v.queue[m][n].players :
                    /\ TeamOf(p) = m[2] /\ InWorld(v, p) /\ v.slot[p] = v.queue[m][n].invited
                    /\ \A j \in Instances : p \notin v.bgs[j].players
    <3>1. n \in DOMAIN w.queue[m]
      BY <1>3
    <3>2. w.queue[m][n].players \subseteq Players
      BY <1>2, <3>1, GroupAt
    <3>3. /\ w.queue[m][n].team = m[2]
          /\ \A p \in w.queue[m][n].players :
               /\ TeamOf(p) = m[2] /\ InWorld(w, p) /\ w.slot[p] = w.queue[m][n].invited
               /\ \A j \in Instances : p \notin w.bgs[j].players
      BY <1>1, <3>1 DEF QueuedOK
    <3>4. \A p \in w.queue[m][n].players : v.slot[p] = v.queue[m][n].invited
      <4>1. CASE m = l /\ n = k
        <5>1. v.queue[m][n].invited = i /\ w.queue[m][n] = g
          BY <1>0, <1>3, <1>4, <4>1
        <5>2. QED
          BY <1>6, <3>2, <5>1
      <4>2. CASE m # l \/ n # k
        BY <1>3, <1>6, <3>1, <3>2, <3>3, <4>2
      <4>3. QED
        BY <4>1, <4>2
    <3>5. QED
      BY <1>5, <1>6, <1>7, <3>1, <3>3, <3>4 DEF InWorld
  <2>2. QED
    BY <2>1 DEF QueuedOK
<1>10. TimersOK(v)
  <2>1. ASSUME NEW m \in Lists, NEW n \in DOMAIN v.queue[m], v.queue[m][n].invited # 0,
               NEW p \in v.queue[m][n].players
        PROVE  [player |-> p, instance |-> v.queue[m][n].invited, left |-> v.queue[m][n].left]
                 \in v.timers
    <3>1. n \in DOMAIN w.queue[m]
      BY <1>3
    <3>2. CASE m = l /\ n = k
      BY <1>3, <1>4, <1>6, <2>1, <3>2
    <3>3. CASE m # l \/ n # k
      <4>1. v.queue[m][n] = w.queue[m][n]
        BY <1>3, <3>1, <3>3
      <4>2. [player |-> p, instance |-> w.queue[m][n].invited, left |-> w.queue[m][n].left]
              \in w.timers
        BY <1>1, <2>1, <3>1, <4>1 DEF TimersOK
      <4>3. QED
        BY <1>6, <4>1, <4>2
    <3>4. QED
      BY <3>2, <3>3
  <2>2. QED
    BY <2>1 DEF TimersOK
<1>11. QED
  BY <1>8, <1>9, <1>10 DEF Waiting

(* Who holds a place after an invitation held it before, or is of the      *)
(* group, which held none.                                                 *)
LEMMA InvitedHold ==
    ASSUME NEW w, Inv(w), NEW l \in Lists, NEW k, NEW g, IsAt(w, l, k, g),
           g.invited = 0, NEW i \in Instances, NEW v, Inviting(w, g, i, v)
    PROVE  \A p \in Players, j \in Instances :
             /\ Holds(v, p, j) <=> Holds(w, p, j) \/ (j = i /\ p \in g.players)
             /\ p \in g.players => TeamOf(p) = g.team /\ ~Holds(w, p, j)
<1>0. k \in DOMAIN w.queue[l] /\ g = w.queue[l][k]
  BY DEF IsAt
<1>1. w \in Worlds /\ OnePlace(w.queue) /\ QueuedOK(w)
  BY DEF Inv, Waiting
<1>2. v \in Worlds /\ OnePlace(v.queue)
  BY InvitedWait DEF Waiting, Inviting
<1>3. /\ g \in Group
      /\ \A m \in Lists : DOMAIN v.queue[m] = DOMAIN w.queue[m]
      /\ v.queue[l][k] = Invited(g, i)
      /\ \A m \in Lists : \A n \in DOMAIN w.queue[m] :
           m # l \/ n # k => /\ v.queue[m][n] = w.queue[m][n]
                             /\ w.queue[m][n].players \cap g.players = {}
  BY <1>1, InvitedAt
<1>4. Invited(g, i).players = g.players /\ Invited(g, i).invited = i
  BY <1>3, InvitedGroup
<1>5. \A j \in Instances : v.bgs[j].players = w.bgs[j].players
  <2>1. MoreInvited(w, i, g).players = w.bgs[i].players
    <3>1. w \in Worlds /\ g \in Group
      BY <1>1, <1>3
    <3> DEFINE b == MoreInvited(w, i, g)
    <3>2. b.players = w.bgs[i].players
      BY ONLY <3>1, i \in Instances, MoreInvitedEffect
    <3>3. QED
      BY <3>2
  <2>2. w.bgs \in [Instances -> Battleground] /\ v.bgs = [w.bgs EXCEPT ![i] = MoreInvited(w, i, g)]
    BY <1>1, WorldFields DEF Inviting
  <2>3. QED
    BY <2>1, <2>2
<1>6. v.where = w.where /\ v.bgId = w.bgId
  BY DEF Inviting
<1>7. \A p \in g.players : TeamOf(p) = g.team
  BY <1>0, <1>1 DEF QueuedOK
<1>8. ASSUME NEW p \in Players, NEW j \in Instances, InvitedTo(v, p) = j
      PROVE  InvitedTo(w, p) = j \/ (j = i /\ p \in g.players)
  <2>1. j # 0
    BY DEF Instances
  <2>2. p \in QueuedPlayers(v) /\ GroupOf(v, p).invited = j
    BY <1>8, <2>1 DEF InvitedTo
  <2>3. PICK m \in Lists : \E n \in DOMAIN v.queue[m] :
            GroupOf(v, p) = v.queue[m][n] /\ p \in v.queue[m][n].players
    BY <1>2, <2>2, PositionOf
  <2>4. PICK n \in DOMAIN v.queue[m] : GroupOf(v, p) = v.queue[m][n] /\ p \in v.queue[m][n].players
    BY <2>3
  <2>5. n \in DOMAIN w.queue[m]
    BY <1>3
  <2>6. CASE m = l /\ n = k
    BY <1>3, <1>4, <2>2, <2>4, <2>6
  <2>7. CASE m # l \/ n # k
    <3>1. v.queue[m][n] = w.queue[m][n]
      BY <1>3, <2>5, <2>7
    <3>2. p \in QueuedPlayers(w) /\ GroupOf(w, p) = w.queue[m][n]
      BY <1>1, <2>4, <2>5, <3>1, GroupOfIsAt
    <3>3. QED
      BY <2>2, <2>4, <3>1, <3>2 DEF InvitedTo
  <2>8. QED
    BY <2>6, <2>7
<1>9. ASSUME NEW p \in Players, NEW j \in Instances, InvitedTo(w, p) = j
      PROVE  InvitedTo(v, p) = j
  <2>1. j # 0
    BY DEF Instances
  <2>2. p \in QueuedPlayers(w) /\ GroupOf(w, p).invited = j
    BY <1>9, <2>1 DEF InvitedTo
  <2>3. PICK m \in Lists : \E n \in DOMAIN w.queue[m] :
            GroupOf(w, p) = w.queue[m][n] /\ p \in w.queue[m][n].players
    BY <1>1, <2>2, PositionOf
  <2>4. PICK n \in DOMAIN w.queue[m] : GroupOf(w, p) = w.queue[m][n] /\ p \in w.queue[m][n].players
    BY <2>3
  <2>5. m # l \/ n # k
    BY <1>0, <2>1, <2>2, <2>4
  <2>6. n \in DOMAIN v.queue[m] /\ v.queue[m][n] = w.queue[m][n]
    BY <1>3, <2>5
  <2>7. p \in QueuedPlayers(v) /\ GroupOf(v, p) = v.queue[m][n]
    BY <1>2, <2>4, <2>6, GroupOfIsAt
  <2>8. QED
    BY <2>2, <2>4, <2>6, <2>7 DEF InvitedTo
<1>10. ASSUME NEW p \in g.players PROVE InvitedTo(v, p) = i
  <2>1. k \in DOMAIN v.queue[l] /\ p \in v.queue[l][k].players /\ v.queue[l][k].invited = i
    BY <1>0, <1>3, <1>4
  <2>2. p \in QueuedPlayers(v) /\ GroupOf(v, p) = v.queue[l][k]
    BY <1>2, <2>1, GroupOfIsAt
  <2>3. QED
    BY <2>1, <2>2 DEF InvitedTo
<1>11. ASSUME NEW p \in g.players, NEW j \in Instances PROVE ~Holds(w, p, j)
  <2>1. InWorld(w, p) /\ p \notin w.bgs[j].players
    BY <1>0, <1>1 DEF QueuedOK
  <2>2. p \in QueuedPlayers(w) /\ GroupOf(w, p) = g
    BY <1>0, <1>1, GroupOfIsAt
  <2>3. InvitedTo(w, p) # j
    BY <2>2 DEF InvitedTo, Instances
  <2>4. QED
    BY <2>1, <2>3 DEF Holds, InWorld
<1>12. QED
  BY <1>5, <1>6, <1>7, <1>8, <1>9, <1>10, <1>11 DEF Holds

LEMMA InviteKeeps ==
    ASSUME NEW w, Inv(w), NEW l \in Lists, NEW k, NEW g, IsAt(w, l, k, g),
           g.invited = 0, NEW i \in Instances, Live(w, i),
           w.bgs[i].invited[g.team] + Size(g) <= MaxPlayersPerTeam
    PROVE  Inviting(w, g, i, Invite(w, g, i)) /\ Inv(Invite(w, g, i))
<1> DEFINE v == Invite(w, g, i)
<1>0. k \in DOMAIN w.queue[l] /\ g = w.queue[l][k]
  BY DEF IsAt
<1>1. w \in Worlds /\ OnePlace(w.queue) /\ QueuedOK(w) /\ w.bgs \in [Instances -> Battleground]
  BY WorldFields DEF Inv, Waiting
<1>2. g \in Group /\ g.team \in Teams /\ Size(g) \in Nat /\ g.players \subseteq Players
  <2>1. w.queue \in Queues
    BY <1>1, WorldFields DEF Queues
  <2>2. QED
    BY <1>0, <2>1, GroupAt, SizeType
<1>3. \A p \in g.players : Connected(w, p)
  <2>1. \A p \in g.players : InWorld(w, p)
    BY <1>0, <1>1 DEF QueuedOK
  <2>2. QED
    BY <2>1 DEF InWorld, Connected
<1>4. Inviting(w, g, i, v)
  BY <1>1, <1>2, <1>3, InviteEffect
<1> HIDE DEF v
<1>5. /\ v \in Worlds /\ v.where = w.where /\ v.bgId = w.bgId /\ v.freeSlots = w.freeSlots
      /\ v.bgs = [w.bgs EXCEPT ![i] = MoreInvited(w, i, g)]
      /\ v.slot = [p \in Players |-> IF p \in g.players THEN i ELSE w.slot[p]]
  BY <1>4 DEF Inviting
<1> DEFINE b == MoreInvited(w, i, g)
<1>6. /\ b \in Battleground /\ b.status = w.bgs[i].status
      /\ b.players = w.bgs[i].players /\ b.offline = w.bgs[i].offline
      /\ b.count = w.bgs[i].count /\ b.lost = w.bgs[i].lost
      /\ b.invited = [w.bgs[i].invited EXCEPT ![g.team] = @ + Size(g)]
  BY <1>1, <1>2, MoreInvitedEffect
<1> HIDE DEF b
<1>7. v.bgs[i] = b /\ \A j \in Instances \ {i} : v.bgs[j] = w.bgs[j]
  BY <1>1, <1>5 DEF b
<1>8. SameBattles(w, v)
  <2>1. b.status # "none"
    BY <1>6 DEF Live
  <2>2. QED
    BY <1>5, <1>6, <1>7, <2>1 DEF SameBattles
<1>9. \A j \in Instances : \A p \in w.bgs[j].players : Connected(v, p) <=> Connected(w, p)
  BY <1>5 DEF Connected
<1>10. DeadAreEmpty(v) /\ FreeSlotsOK(v) /\ OfflineOK(v)
  BY <1>1, <1>5, <1>8, <1>9, BattlesStay DEF Inv
<1>11. MembersAreInside(v)
  BY <1>5, <1>8 DEF Inv, MembersAreInside, SameBattles
<1>12. Waiting(v)
  BY <1>4, InvitedWait
<1>13. HoldersKeepSlots(v)
  <2>1. ASSUME NEW p \in Players, v.slot[p] = NotQueued PROVE w.slot[p] = NotQueued
    <3>1. i # NotQueued
      BY DEF Instances, NotQueued
    <3>2. QED
      BY <1>5, <2>1, <3>1
  <2>2. ASSUME NEW p \in Players, w.where[p] = "porting" PROVE v.slot[p] = w.slot[p]
    <3>1. p \notin g.players
      BY <1>0, <1>1, <2>2 DEF QueuedOK, InWorld
    <3>2. QED
      BY <1>5, <3>1
  <2>3. QED
    BY <1>5, <1>8, <2>1, <2>2 DEF Inv, HoldersKeepSlots, HolderKeepsSlot, SameBattles, Connected
<1>14. ASSUME NEW j \in Instances, NEW t \in Teams
       PROVE  /\ v.bgs[j].invited[t] = Cardinality(HoldersOf(v, j, t)) + v.bgs[j].lost[t]
              /\ v.bgs[j].invited[t] <= MaxPlayersPerTeam
              /\ Cardinality(MembersOf(v, j, t)) <= v.bgs[j].count[t]
  <2>1. /\ w.bgs[j].invited[t] = Cardinality(HoldersOf(w, j, t)) + w.bgs[j].lost[t]
        /\ w.bgs[j].invited[t] <= MaxPlayersPerTeam
        /\ Cardinality(MembersOf(w, j, t)) <= w.bgs[j].count[t]
    BY DEF Inv, PlacesOK
  <2>2. /\ IsFiniteSet(HoldersOf(w, j, t)) /\ Cardinality(HoldersOf(w, j, t)) \in Nat
        /\ Cardinality(HoldersOf(v, j, t)) \in Nat
    BY <1>1, <1>5, HoldersAreFinite
  <2>3. \A p \in Players :
          /\ Holds(v, p, j) <=> Holds(w, p, j) \/ (j = i /\ p \in g.players)
          /\ p \in g.players => TeamOf(p) = g.team /\ ~Holds(w, p, j)
    BY <1>4, InvitedHold
  <2>4. MembersOf(v, j, t) = MembersOf(w, j, t)
    BY <1>8 DEF MembersOf, SameBattles
  <2>5. /\ v.bgs[j].count = w.bgs[j].count /\ v.bgs[j].lost = w.bgs[j].lost
        /\ v.bgs[j].invited[t] = IF j = i /\ t = g.team THEN w.bgs[j].invited[t] + Size(g)
                                 ELSE w.bgs[j].invited[t]
    <3>1. w.bgs[i].invited \in [Teams -> Int]
      BY <1>1, BattlegroundFields
    <3>2. QED
      BY <1>6, <1>7, <3>1
  <2>6. w.bgs[j].invited[t] \in Int /\ w.bgs[j].lost[t] \in Nat
    BY <1>1, BattlegroundFields
  <2>7. CASE j = i /\ t = g.team
    <3> DEFINE H == HoldersOf(w, j, t)
    <3>1. HoldersOf(v, j, t) = H \cup g.players /\ H \cap g.players = {}
      BY <1>2, <2>3, <2>7 DEF HoldersOf
    <3>2. IsFiniteSet(g.players)
      BY <1>2, SizeType
    <3>3. Cardinality(H \cup g.players) = Cardinality(H) + Size(g) - Cardinality(H \cap g.players)
      BY <2>2, <3>2, FS_Union DEF Size
    <3>a. Cardinality(H) \in Nat
      BY <2>2
    <3> HIDE DEF H
    <3>b. Cardinality(H \cap g.players) = 0
      BY <3>1, FS_EmptySet
    <3>c. Cardinality(HoldersOf(v, j, t)) = Cardinality(H) + Size(g) - 0
      BY <3>1, <3>3, <3>b
    <3>4. Cardinality(HoldersOf(v, j, t)) = Cardinality(H) + Size(g)
      BY <1>2, <3>a, <3>c
    <3>5. QED
      BY <1>2, <2>1, <2>2, <2>4, <2>5, <2>6, <2>7, <3>4 DEF H
  <2>8. CASE ~(j = i /\ t = g.team)
    <3>1. HoldersOf(v, j, t) = HoldersOf(w, j, t)
      BY <2>3, <2>8 DEF HoldersOf
    <3>2. QED
      BY <2>1, <2>4, <2>5, <2>8, <3>1
  <2>9. QED
    BY <2>7, <2>8
<1>15. PlacesOK(v)
  BY <1>14 DEF PlacesOK
<1>16. Inv(v)
  BY <1>5, <1>10, <1>11, <1>12, <1>13, <1>15 DEF Inv
<1>17. QED
  BY <1>4, <1>16 DEF v

-----------------------------------------------------------------------------
(* The selection of groups.                                                *)

(* One step of AddGroups.                                                  *)
Try(s, g, desired, passInvited) ==
  IF s.full THEN s
  ELSE IF (passInvited /\ g.invited # 0) \/ MayAddMore(s, g, desired)
       THEN [AddGroup(s, g, desired) EXCEPT !.next = @ + 1]
       ELSE [s EXCEPT !.full = TRUE]

Tried(w, s, desired, passInvited) ==
  FoldLeft(LAMBDA v, g : Try(v, g, desired, passInvited), w, s)

(* The pools that the steps of AddGroups go through.                       *)
AddTrace(w, s, desired, passInvited, h) ==
  /\ h[0] = w /\ Tried(w, s, desired, passInvited) = h[Len(s)]
  /\ \A k \in 1..Len(s) : h[k] = Try(h[k - 1], s[k], desired, passInvited)

LEMMA AddTraceExists ==
    ASSUME NEW w, NEW E, NEW s \in Seq(E), NEW desired, NEW passInvited
    PROVE  \E h : AddTrace(w, s, desired, passInvited, h)
<1> DEFINE D == 1..Len(s)
           Body(g, n) == [T \in Layer(D, n) |->
                            IF T = {} THEN w
                            ELSE Try(g[T \ {Max(T)}], s[Max(T)], desired, passInvited)]
           All(g) == [T \in SUBSET D |->
                        IF T = {} THEN w
                        ELSE Try(g[T \ {Max(T)}], s[Max(T)], desired, passInvited)]
           N == {n \in Nat : \E g : g = Body(g, n)}
           it == CHOOSE g : g = All(g)
           h == [k \in 0..Len(s) |-> it[1..k]]
<1>1. Len(s) \in Nat /\ DOMAIN s = D /\ IsFiniteSet(D) /\ D \in SUBSET Int
  BY LenProperties, FS_Interval
<1>2. /\ Layer(D, 0) = {{}}
      /\ \A n \in Nat : Layer(D, n) \subseteq Layer(D, n + 1)
      /\ \A n \in Nat : \A T \in Layer(D, n + 1) : \A x \in T : T \ {x} \in Layer(D, n)
      /\ Cardinality(D) \in Nat /\ Layer(D, Cardinality(D)) = SUBSET D
  BY <1>1, Layers
<1>3. ASSUME NEW n \in Nat, NEW T \in Layer(D, n), T # {} PROVE Max(T) \in T
  <2>1. T \in SUBSET D
    BY DEF Layer
  <2>2. QED
    BY <1>1, <1>3, <2>1, MaxOfSubset
<1> HIDE DEF D
<1>4. 0 \in N
  <2> DEFINE g == [T \in Layer(D, 0) |-> w]
  <2>1. g = Body(g, 0)
    BY <1>2
  <2>2. QED
    BY <2>1
<1>5. ASSUME NEW n \in Nat, n \in N PROVE n + 1 \in N
  <2>1. PICK g : g = Body(g, n)
    BY <1>5
  <2> DEFINE f == Body(g, n + 1)
  <2>2. ASSUME NEW T \in Layer(D, n) PROVE f[T] = g[T]
    <3>1. T \in Layer(D, n + 1)
      BY <1>2
    <3>2. f[T] = Body(g, n)[T]
      BY <3>1
    <3>3. QED
      BY <2>1, <3>2
  <2>3. ASSUME NEW T \in Layer(D, n + 1), T # {} PROVE T \ {Max(T)} \in Layer(D, n)
    <3>1. n + 1 \in Nat
      OBVIOUS
    <3>2. Max(T) \in T
      BY <1>3, <2>3, <3>1
    <3>3. QED
      BY <1>2, <3>2
  <2> HIDE DEF f
  <2>4. Body(f, n + 1) = Body(g, n + 1)
    BY <2>2, <2>3
  <2>5. f = Body(f, n + 1)
    BY <2>4 DEF f
  <2> HIDE DEF Body
  <2>6. QED
    BY <2>5 DEF N
<1> HIDE DEF N
<1>6. Cardinality(D) \in N
  BY <1>2, <1>4, <1>5, NatSetInduction
<1>7. \E g : g = All(g)
  <2>1. PICK g : g = Body(g, Cardinality(D))
    BY <1>6 DEF N
  <2>2. Body(g, Cardinality(D)) = All(g)
    BY <1>2
  <2> HIDE DEF Body, All
  <2>3. QED
    BY <2>1, <2>2
<1>8. it = All(it)
  BY <1>7, Zenon
<1>9. Tried(w, s, desired, passInvited) = it[DOMAIN s]
  BY <1>1 DEF Tried, FoldLeft, MapThenFoldSet
<1> HIDE DEF it
<1>10. it[{}] = w
  BY <1>8
<1>11. h[0] = w /\ Tried(w, s, desired, passInvited) = h[Len(s)]
  <2>1. 0 \in 0..Len(s) /\ Len(s) \in 0..Len(s) /\ 1..0 = {}
    BY <1>1
  <2>2. QED
    BY <1>1, <1>9, <1>10, <2>1 DEF D
<1>12. ASSUME NEW k \in 1..Len(s) PROVE h[k] = Try(h[k - 1], s[k], desired, passInvited)
  <2>1. k \in 0..Len(s) /\ k - 1 \in 0..Len(s)
    BY <1>1
  <2>2. /\ 1..k # {} /\ 1..k \in SUBSET D /\ Max(1..k) = k
        /\ (1..k) \ {k} = 1..(k - 1)
    BY <1>1, MaxOfInterval DEF D
  <2>3. it[1..k] = All(it)[1..k]
    BY <1>8
  <2>4. it[1..k] = Try(it[1..(k - 1)], s[k], desired, passInvited)
    BY <2>2, <2>3
  <2>5. QED
    BY <2>1, <2>4
<1> HIDE DEF h
<1>13. AddTrace(w, s, desired, passInvited, h)
  BY <1>11, <1>12 DEF AddTrace
<1>14. QED
  BY <1>13

(* The players of a list of groups, and lists whose groups share none.     *)
PlayersIn(s) == UNION {s[k].players : k \in DOMAIN s}

Apart(s) == \A j, k \in DOMAIN s : s[j].players \cap s[k].players # {} => j = k

LEMMA PlayersInList ==
    ASSUME NEW s \in Seq(Group)
    PROVE  /\ PlayersIn(s) \subseteq Players /\ IsFiniteSet(PlayersIn(s))
           /\ Cardinality(PlayersIn(s)) \in Nat
<1>1. \A k \in DOMAIN s : s[k] \in Group
  BY LenProperties
<1>2. \A k \in DOMAIN s : s[k].players \subseteq Players
  BY <1>1 DEF Group
<1>3. PlayersIn(s) \subseteq Players
  BY <1>2 DEF PlayersIn
<1>4. QED
  BY <1>3, PlayersAreFinite, FS_Subset, FS_CardinalityType

LEMMA PlayersInNone == PlayersIn(<< >>) = {} /\ Cardinality(PlayersIn(<< >>)) = 0
<1>1. PlayersIn(<< >>) = {}
  BY DEF PlayersIn
<1>2. QED
  BY <1>1, FS_EmptySet

LEMMA OneMoreGroup ==
    ASSUME NEW s \in Seq(Group), NEW g \in Group, g.players \cap PlayersIn(s) = {}
    PROVE  /\ PlayersIn(Append(s, g)) = PlayersIn(s) \cup g.players
           /\ Apart(s) => Apart(Append(s, g))
           /\ Cardinality(PlayersIn(Append(s, g))) = Cardinality(PlayersIn(s)) + Size(g)
<1> DEFINE r == Append(s, g)
           n == Len(s)
<1>1. n \in Nat /\ DOMAIN s = 1..n
  BY LenProperties
<1>2. DOMAIN r = 1..n + 1 /\ r[n + 1] = g /\ \A k \in 1..n : r[k] = s[k]
  BY <1>1, AppendProperties
<1> HIDE DEF r, n
<1>3. \A k \in 1..n + 1 : k \in 1..n \/ k = n + 1
  BY <1>1
<1>4. n + 1 \in 1..n + 1 /\ \A k \in 1..n : k \in 1..n + 1
  BY <1>1
<1>5. PlayersIn(r) = PlayersIn(s) \cup g.players
  <2>1. ASSUME NEW p \in PlayersIn(r) PROVE p \in PlayersIn(s) \cup g.players
    BY <1>1, <1>2, <1>3, <2>1 DEF PlayersIn
  <2>2. ASSUME NEW p \in PlayersIn(s) PROVE p \in PlayersIn(r)
    <3>1. PICK k \in 1..n : p \in s[k].players
      BY <1>1, <2>2 DEF PlayersIn
    <3>2. k \in DOMAIN r /\ p \in r[k].players
      BY <1>2, <1>4, <3>1
    <3>3. QED
      BY <3>2 DEF PlayersIn
  <2>3. ASSUME NEW p \in g.players PROVE p \in PlayersIn(r)
    <3>1. n + 1 \in DOMAIN r /\ p \in r[n + 1].players
      BY <1>2, <1>4, <2>3
    <3>2. QED
      BY <3>1 DEF PlayersIn
  <2>4. QED
    BY <2>1, <2>2, <2>3
<1>6. ASSUME Apart(s) PROVE Apart(r)
  <2>1. \A k \in 1..n : s[k].players \cap g.players = {}
    BY <1>1 DEF PlayersIn
  <2>2. ASSUME NEW j \in 1..n + 1, NEW k \in 1..n + 1, r[j].players \cap r[k].players # {}
        PROVE  j = k
    <3>1. CASE j \in 1..n /\ k \in 1..n
      BY <1>1, <1>2, <1>6, <2>2, <3>1 DEF Apart
    <3>2. CASE j = n + 1 /\ k \in 1..n
      BY <1>2, <2>1, <2>2, <3>2
    <3>3. CASE k = n + 1 /\ j \in 1..n
      BY <1>2, <2>1, <2>2, <3>3
    <3>4. QED
      BY <1>3, <3>1, <3>2, <3>3
  <2>3. QED
    BY <1>2, <2>2 DEF Apart
<1>7. Cardinality(PlayersIn(s) \cup g.players) = Cardinality(PlayersIn(s)) + Size(g)
  <2>1. IsFiniteSet(PlayersIn(s)) /\ Cardinality(PlayersIn(s)) \in Nat
    BY PlayersInList
  <2>2. IsFiniteSet(g.players) /\ Size(g) \in Nat
    BY SizeType
  <2>3. PlayersIn(s) \cap g.players = {} /\ Cardinality({}) = 0
    BY FS_EmptySet
  <2>4. Cardinality(PlayersIn(s) \cup g.players)
        = Cardinality(PlayersIn(s)) + Cardinality(g.players) - Cardinality(PlayersIn(s) \cap g.players)
    BY <2>1, <2>2, FS_Union
  <2>5. Cardinality(PlayersIn(s) \cap g.players) = 0
    BY <2>3
  <2>6. Cardinality(g.players) = Size(g)
    BY DEF Size
  <2>7. QED
    BY <2>1, <2>2, <2>4, <2>5, <2>6
<1>8. QED
  BY <1>5, <1>6, <1>7 DEF r

LEMMA OneGroupLess ==
    ASSUME NEW s \in Seq(Group), Apart(s), NEW n \in DOMAIN s
    PROVE  LET r == RemoveAt(s, n)
           IN  /\ r \in Seq(Group) /\ \A k \in DOMAIN r : \E j \in DOMAIN s : r[k] = s[j]
               /\ PlayersIn(r) = PlayersIn(s) \ s[n].players /\ Apart(r)
               /\ Cardinality(PlayersIn(r)) = Cardinality(PlayersIn(s)) - Size(s[n])
               /\ Cardinality(PlayersIn(r)) \in Nat
<1> DEFINE r == RemoveAt(s, n)
           D == DOMAIN s
           f(k) == IF k < n THEN k ELSE k + 1
<1>1. Len(s) \in Nat /\ D = 1..Len(s) /\ n \in 1..Len(s) /\ s[n] \in Group
  BY LenProperties
<1>2. /\ r \in Seq(Group) /\ Len(r) = Len(s) - 1
      /\ \A k \in 1..Len(s) - 1 : r[k] = s[f(k)]
  BY <1>1, RemoveAtLemma
<1> HIDE DEF r
<1>3. DOMAIN r = 1..Len(s) - 1
  BY <1>2, LenProperties
<1>4. ASSUME NEW k \in 1..Len(s) - 1 PROVE f(k) \in D /\ f(k) # n
  BY <1>1
<1>5. ASSUME NEW j \in D, j # n PROVE \E k \in 1..Len(s) - 1 : f(k) = j
  <2>1. CASE j < n
    <3>1. j \in 1..Len(s) - 1 /\ f(j) = j
      BY <1>1, <2>1
    <3>2. QED
      BY <3>1
  <2>2. CASE ~(j < n)
    <3>1. j - 1 \in 1..Len(s) - 1 /\ f(j - 1) = j
      BY <1>1, <1>5, <2>2
    <3>2. QED
      BY <3>1
  <2>3. QED
    BY <2>1, <2>2
<1>6. ASSUME NEW j \in 1..Len(s) - 1, NEW k \in 1..Len(s) - 1, f(j) = f(k) PROVE j = k
  BY <1>1, <1>6
<1> HIDE DEF f, D
<1>7. \A k \in DOMAIN r : \E j \in D : r[k] = s[j]
  BY <1>2, <1>3, <1>4
<1>8. PlayersIn(r) = PlayersIn(s) \ s[n].players
  <2>1. ASSUME NEW p \in PlayersIn(r) PROVE p \in PlayersIn(s) \ s[n].players
    <3>1. PICK k \in 1..Len(s) - 1 : p \in s[f(k)].players
      BY <1>2, <1>3 DEF PlayersIn
    <3>2. s[f(k)].players \cap s[n].players = {}
      BY <1>1, <1>4 DEF Apart, D
    <3>3. QED
      BY <1>4, <3>1, <3>2 DEF PlayersIn, D
  <2>2. ASSUME NEW p \in PlayersIn(s) \ s[n].players PROVE p \in PlayersIn(r)
    <3>1. PICK j \in D : p \in s[j].players
      BY DEF PlayersIn, D
    <3>2. PICK k \in 1..Len(s) - 1 : f(k) = j
      BY <1>5, <3>1
    <3>3. k \in DOMAIN r /\ p \in r[k].players
      BY <1>2, <1>3, <3>1, <3>2
    <3>4. QED
      BY <3>3 DEF PlayersIn
  <2>3. QED
    BY <2>1, <2>2
<1>9. Apart(r)
  <2>1. ASSUME NEW j \in DOMAIN r, NEW k \in DOMAIN r, r[j].players \cap r[k].players # {}
        PROVE  j = k
    <3>1. f(j) = f(k)
      BY <1>2, <1>3, <1>4, <2>1 DEF Apart, D
    <3>2. QED
      BY <1>3, <1>6, <3>1
  <2>2. QED
    BY <2>1 DEF Apart
<1>10. Cardinality(PlayersIn(r)) = Cardinality(PlayersIn(s)) - Size(s[n])
  <2>1. /\ IsFiniteSet(PlayersIn(r)) /\ Cardinality(PlayersIn(r)) \in Nat
        /\ Cardinality(PlayersIn(s)) \in Nat
    BY <1>2, PlayersInList
  <2>2. IsFiniteSet(s[n].players) /\ Size(s[n]) \in Nat
    BY <1>1, SizeType
  <2>3. PlayersIn(r) \cap s[n].players = {} /\ PlayersIn(r) \cup s[n].players = PlayersIn(s)
    BY <1>1, <1>8 DEF PlayersIn, D
  <2>4. Cardinality(PlayersIn(r) \cup s[n].players)
        = Cardinality(PlayersIn(r)) + Cardinality(s[n].players) - Cardinality(PlayersIn(r) \cap s[n].players)
    BY <2>1, <2>2, FS_Union
  <2>5. Cardinality(PlayersIn(r) \cap s[n].players) = 0
    BY <2>3, FS_EmptySet
  <2>6. Cardinality(s[n].players) = Size(s[n]) /\ Cardinality(PlayersIn(r) \cup s[n].players) = Cardinality(PlayersIn(s))
    BY <2>3 DEF Size
  <2>7. QED
    BY <2>1, <2>2, <2>4, <2>5, <2>6
<1>11. Cardinality(PlayersIn(r)) \in Nat
  BY <1>2, PlayersInList
<1>12. QED
  BY <1>2, <1>7, <1>8, <1>9, <1>10, <1>11 DEF r, D

(* A selection pool: groups of G that share no player, all counted, and    *)
(* none of those that are still ahead in the list L that the pool is       *)
(* filled from.                                                            *)
Pools == [groups : Seq(Group), count : Nat, next : Nat, full : BOOLEAN]

Source(L, G) ==
  /\ L \in Seq(Group) /\ Apart(L) /\ G \subseteq Group
  /\ \A k \in DOMAIN L : L[k].invited = 0 => L[k] \in G

Selected(pool, G) ==
  /\ pool \in Pools
  /\ \A k \in DOMAIN pool.groups : pool.groups[k] \in G
  /\ Apart(pool.groups)
  /\ pool.count = Cardinality(PlayersIn(pool.groups))

Ahead(pool, L) ==
  /\ pool.next \in 1..Len(L) + 1
  /\ \A k \in pool.next..Len(L) : L[k].players \cap PlayersIn(pool.groups) = {}

GoodPool(pool, L, G) == Selected(pool, G) /\ Ahead(pool, L)

LEMMA PoolFields ==
    ASSUME NEW pool \in Pools
    PROVE  /\ pool.groups \in Seq(Group) /\ pool.count \in Nat /\ pool.next \in Nat
           /\ pool.full \in BOOLEAN
  BY DEF Pools

LEMMA EmptyPoolIsGood ==
    ASSUME NEW L \in Seq(Group), NEW G
    PROVE  GoodPool(EmptyPool, L, G) /\ EmptyPool.count = 0
<1>1. << >> \in Seq(Group) /\ DOMAIN << >> = {} /\ Len(L) \in Nat
  BY LenProperties
<1>2. EmptyPool \in Pools
  BY <1>1 DEF EmptyPool, Pools
<1>3. /\ EmptyPool.groups = << >> /\ EmptyPool.count = 0 /\ EmptyPool.next = 1
  BY DEF EmptyPool
<1>4. Apart(<< >>)
  BY <1>1 DEF Apart
<1>5. 1 \in 1..Len(L) + 1
  BY <1>1
<1>6. QED
  BY <1>1, <1>2, <1>3, <1>4, <1>5, PlayersInNone DEF GoodPool, Selected, Ahead

LEMMA AddGroupKeeps ==
    ASSUME NEW G, NEW pool, Selected(pool, G), NEW g \in Group, g.invited = 0 => g \in G,
           g.players \cap PlayersIn(pool.groups) = {}, NEW desired \in Int
    PROVE  LET v == AddGroup(pool, g, desired)
           IN  /\ Selected(v, G) /\ v.next = pool.next /\ v.full = pool.full
               /\ PlayersIn(v.groups) \subseteq PlayersIn(pool.groups) \cup g.players
               /\ v.count = pool.count \/ v.count <= desired
<1> DEFINE v == [pool EXCEPT !.groups = Append(@, g), !.count = @ + Size(g)]
<1>1. CASE Fits(pool, g, desired)
  <2>1. /\ pool \in Pools /\ pool.groups \in Seq(Group) /\ pool.count \in Nat /\ Size(g) \in Nat
        /\ pool.next \in Nat /\ pool.full \in BOOLEAN
        /\ Apart(pool.groups) /\ \A k \in DOMAIN pool.groups : pool.groups[k] \in G
        /\ pool.count = Cardinality(PlayersIn(pool.groups))
    BY PoolFields, SizeType DEF Selected
  <2>2. g \in G /\ pool.count + Size(g) <= desired
    <3>1. g.invited = 0 /\ desired >= pool.count + Size(g)
      BY <1>1 DEF Fits
    <3>2. QED
      BY <2>1, <3>1
  <2>3. Append(pool.groups, g) \in Seq(Group) /\ pool.count + Size(g) \in Nat
    BY <2>1, AppendProperties
  <2>4. /\ v \in Pools /\ v.groups = Append(pool.groups, g) /\ v.count = pool.count + Size(g)
        /\ v.next = pool.next /\ v.full = pool.full
    BY <2>1, <2>3 DEF Pools
  <2> HIDE DEF v
  <2>5. /\ PlayersIn(v.groups) = PlayersIn(pool.groups) \cup g.players /\ Apart(v.groups)
        /\ Cardinality(PlayersIn(v.groups)) = Cardinality(PlayersIn(pool.groups)) + Size(g)
    BY <2>1, <2>4, OneMoreGroup
  <2>6. \A k \in DOMAIN v.groups : v.groups[k] \in G
    <3>1. Len(pool.groups) \in Nat /\ DOMAIN pool.groups = 1..Len(pool.groups)
      BY <2>1, LenProperties
    <3>2. /\ DOMAIN v.groups = 1..Len(pool.groups) + 1 /\ v.groups[Len(pool.groups) + 1] = g
          /\ \A k \in 1..Len(pool.groups) : v.groups[k] = pool.groups[k]
      BY <2>1, <2>4, <3>1, AppendProperties
    <3>3. \A k \in 1..Len(pool.groups) + 1 : k \in 1..Len(pool.groups) \/ k = Len(pool.groups) + 1
      BY <3>1
    <3>4. QED
      BY <2>1, <2>2, <3>1, <3>2, <3>3
  <2>7. Selected(v, G)
    BY <2>1, <2>4, <2>5, <2>6 DEF Selected
  <2>8. v.count <= desired
    BY <2>2, <2>4
  <2>9. AddGroup(pool, g, desired) = v
    BY <1>1 DEF AddGroup, v
  <2>10. QED
    BY <2>4, <2>5, <2>7, <2>8, <2>9
<1>2. CASE ~Fits(pool, g, desired)
  <2>1. AddGroup(pool, g, desired) = pool
    BY <1>2 DEF AddGroup
  <2>2. QED
    BY <2>1
<1>3. QED
  BY <1>1, <1>2

(* The next group of the list is looked at, and taken if it fits.          *)
NextGroup(pool, g, desired) == [AddGroup(pool, g, desired) EXCEPT !.next = @ + 1]

LEMMA NextKeeps ==
    ASSUME NEW L, NEW G, Source(L, G), NEW pool, GoodPool(pool, L, G), NEW desired \in Int,
           pool.next \in DOMAIN L
    PROVE  LET v == NextGroup(pool, L[pool.next], desired)
           IN  /\ GoodPool(v, L, G) /\ v.next = pool.next + 1
               /\ v.count = pool.count \/ v.count <= desired
<1> DEFINE n == pool.next
           g == L[n]
           u == AddGroup(pool, g, desired)
           a == [u EXCEPT !.next = @ + 1]
<1>1. /\ L \in Seq(Group) /\ Len(L) \in Nat /\ DOMAIN L = 1..Len(L) /\ g \in Group
      /\ n \in 1..Len(L) /\ Apart(L)
      /\ g.invited = 0 => g \in G
  BY LenProperties DEF Source
<1>2. Selected(pool, G) /\ Ahead(pool, L) /\ pool \in Pools
  BY DEF GoodPool, Selected
<1>3. n \in n..Len(L)
  BY <1>1
<1>4. g.players \cap PlayersIn(pool.groups) = {}
  BY <1>2, <1>3 DEF Ahead
<1>5. /\ Selected(u, G) /\ u.next = n /\ u.full = pool.full
      /\ PlayersIn(u.groups) \subseteq PlayersIn(pool.groups) \cup g.players
      /\ u.count = pool.count \/ u.count <= desired
  BY <1>1, <1>2, <1>4, AddGroupKeeps
<1>6. u \in Pools /\ n + 1 \in Nat
  BY <1>1, <1>5 DEF Selected
<1>7. NextGroup(pool, L[pool.next], desired) = a
  BY DEF NextGroup
<1> HIDE DEF u, g, n
<1>8. /\ a \in Pools /\ a.groups = u.groups /\ a.count = u.count /\ a.next = n + 1
  BY <1>5, <1>6 DEF Pools
<1> HIDE DEF a
<1>9. Selected(a, G)
  BY <1>5, <1>8 DEF Selected
<1>10. Ahead(a, L)
  <2>1. n + 1 \in 1..Len(L) + 1
    BY <1>1
  <2>2. ASSUME NEW k \in n + 1..Len(L) PROVE L[k].players \cap PlayersIn(u.groups) = {}
    <3>1. k \in n..Len(L) /\ k \in 1..Len(L) /\ k # n
      BY <1>1, <2>2
    <3>2. L[k].players \cap PlayersIn(pool.groups) = {}
      BY <1>2, <3>1 DEF Ahead, n
    <3>3. L[k].players \cap g.players = {}
      BY <1>1, <3>1 DEF Apart, g
    <3>4. QED
      BY <1>5, <3>2, <3>3
  <2>3. QED
    BY <1>8, <2>1, <2>2 DEF Ahead
<1>11. GoodPool(a, L, G) /\ a.next = n + 1 /\ (a.count = pool.count \/ a.count <= desired)
  BY <1>5, <1>8, <1>9, <1>10 DEF GoodPool
<1>12. QED
  BY <1>7, <1>11 DEF n

LEMMA TryKeeps ==
    ASSUME NEW L, NEW G, Source(L, G), NEW pool, GoodPool(pool, L, G), NEW desired \in Int,
           NEW passInvited, pool.next \in DOMAIN L
    PROVE  LET v == Try(pool, L[pool.next], desired, passInvited)
           IN  /\ GoodPool(v, L, G)
               /\ v.full \/ v.next = pool.next + 1
               /\ v.count = pool.count \/ v.count <= desired
<1> DEFINE g == L[pool.next]
           f == [pool EXCEPT !.full = TRUE]
           a == NextGroup(pool, g, desired)
           v == Try(pool, g, desired, passInvited)
<1>1. (v = pool /\ pool.full) \/ v = a \/ v = f
  BY DEF Try, NextGroup
<1>2. /\ GoodPool(a, L, G) /\ a.next = pool.next + 1
      /\ a.count = pool.count \/ a.count <= desired
  BY NextKeeps
<1>3. GoodPool(f, L, G) /\ f.full /\ f.count = pool.count
  <2>1. Selected(pool, G) /\ Ahead(pool, L) /\ pool \in Pools
    BY DEF GoodPool, Selected
  <2>2. /\ f \in Pools /\ f.groups = pool.groups /\ f.count = pool.count /\ f.next = pool.next
        /\ f.full
    BY <2>1 DEF Pools
  <2> HIDE DEF f
  <2>3. QED
    BY <2>1, <2>2 DEF GoodPool, Selected, Ahead
<1> HIDE DEF a, f, v
<1>4. /\ GoodPool(v, L, G)
      /\ v.full \/ v.next = pool.next + 1
      /\ v.count = pool.count \/ v.count <= desired
  BY <1>1, <1>2, <1>3
<1>5. QED
  BY <1>4 DEF v, g

LEMMA AddGroupsKeeps ==
    ASSUME NEW L, NEW G, Source(L, G), NEW pool, GoodPool(pool, L, G), NEW desired \in Int,
           NEW passInvited
    PROVE  LET v == AddGroups(pool, L, desired, passInvited)
           IN  GoodPool(v, L, G) /\ (v.count = pool.count \/ v.count <= desired)
<1> DEFINE first == [pool EXCEPT !.full = FALSE]
           s == SubSeq(L, pool.next, Len(L))
           m == pool.next
           Good(v) == GoodPool(v, L, G) /\ (v.count = pool.count \/ v.count <= desired)
<1>1. L \in Seq(Group) /\ Len(L) \in Nat /\ m \in 1..Len(L) + 1 /\ DOMAIN L = 1..Len(L)
  BY LenProperties DEF Source, GoodPool, Ahead
<1>2. s \in Seq(Group) /\ Len(s) = Len(L) - m + 1 /\ \A k \in 1..Len(L) - m + 1 : s[k] = L[m + k - 1]
  BY <1>1, SuffixLemma
<1>3. AddGroups(pool, L, desired, passInvited)
      = Tried(first, s, desired, passInvited)
  BY DEF AddGroups, Try, Tried, FoldLeft, MapThenFoldSet
<1>4. Good(first) /\ first.next = m
  <2>1. pool \in Pools
    BY DEF GoodPool, Selected
  <2>2. /\ first \in Pools /\ first.groups = pool.groups /\ first.count = pool.count
        /\ first.next = pool.next
    BY <2>1 DEF Pools
  <2> HIDE DEF first
  <2>3. QED
    BY <2>2 DEF GoodPool, Selected, Ahead
<1> HIDE DEF first, s, m
<1>5. PICK h : AddTrace(first, s, desired, passInvited, h)
  BY <1>2, AddTraceExists
<1> DEFINE N == {k \in Nat : k <= Len(s) => Good(h[k]) /\ (h[k].full \/ h[k].next = m + k)}
<1>6. 0 \in N
  <2>1. h[0] = first /\ m + 0 = m
    BY <1>1, <1>5 DEF AddTrace
  <2>2. QED
    BY <1>4, <2>1
<1>7. ASSUME NEW k \in Nat, k \in N PROVE k + 1 \in N
  <2>1. CASE ~(k + 1 <= Len(s))
    BY <2>1
  <2>2. CASE k + 1 <= Len(s)
    <3>1. k + 1 \in 1..Len(s) /\ k + 1 - 1 = k /\ k <= Len(s)
      BY <1>1, <1>2, <2>2
    <3>2. h[k + 1] = Try(h[k], s[k + 1], desired, passInvited)
      <4>1. h[k + 1] = Try(h[k + 1 - 1], s[k + 1], desired, passInvited)
        BY <1>5, <3>1 DEF AddTrace
      <4>2. QED
        BY <3>1, <4>1
    <3>3. GoodPool(h[k], L, G) /\ (h[k].count = pool.count \/ h[k].count <= desired)
      BY <1>7, <3>1
    <3>4. CASE h[k].full
      <4>1. h[k + 1] = h[k]
        BY <3>2, <3>4 DEF Try
      <4>2. QED
        BY <3>3, <3>4, <4>1
    <3>5. CASE ~h[k].full
      <4>1. h[k].next = m + k
        BY <1>7, <3>1, <3>5
      <4>2. s[k + 1] = L[h[k].next] /\ h[k].next \in DOMAIN L /\ h[k].next + 1 = m + (k + 1)
        <5>0. m \in Int /\ 1 <= m /\ k + 1 <= Len(L) - m + 1 /\ Len(L) \in Nat
          BY <1>1, <1>2, <2>2
        <5>1. m + (k + 1) - 1 = m + k /\ m + k \in 1..Len(L) /\ m + k + 1 = m + (k + 1)
          BY <5>0
        <5>2. s[k + 1] = L[m + (k + 1) - 1]
          BY <1>2, <3>1
        <5>3. QED
          BY <1>1, <4>1, <5>1, <5>2
      <4> DEFINE u == h[k]
                 v == Try(u, L[u.next], desired, passInvited)
      <4>3. v = h[k + 1]
        BY <3>2, <4>2
      <4>4. GoodPool(u, L, G) /\ u.next \in DOMAIN L
        BY <3>3, <4>2
      <4> HIDE DEF u
      <4>5. /\ GoodPool(v, L, G)
            /\ v.full \/ v.next = u.next + 1
            /\ v.count = u.count \/ v.count <= desired
        BY <4>4, TryKeeps
      <4> HIDE DEF v
      <4>6. v.count = pool.count \/ v.count <= desired
        BY <3>3, <4>5 DEF u
      <4>7. v.full \/ v.next = m + (k + 1)
        BY <4>2, <4>5 DEF u
      <4>8. QED
        BY <4>3, <4>5, <4>6, <4>7
    <3>6. QED
      BY <3>4, <3>5
  <2>3. QED
    BY <2>1, <2>2
<1> HIDE DEF N
<1>8. Len(s) \in N
  <2>1. Len(s) \in Nat
    BY <1>2, LenProperties
  <2>2. QED
    BY <1>6, <1>7, <2>1, NatSetInduction
<1>9. Good(h[Len(s)])
  BY <1>8, <1>2, LenProperties DEF N
<1>10. AddGroups(pool, L, desired, passInvited) = h[Len(s)]
  BY <1>3, <1>5 DEF AddTrace
<1>11. QED
  BY <1>9, <1>10

(* KickGroup takes out one of the groups.                                  *)
LEMMA ToKickIsThere ==
    ASSUME NEW pool \in Pools, DOMAIN pool.groups # {}, NEW size
    PROVE  ToKick(pool, size) \in DOMAIN pool.groups
<1> DEFINE D == DOMAIN pool.groups
           sizes == [k \in D |-> Size(pool.groups[k])]
           close == {k \in D : Distance(sizes[k], size) <= 1}
           largest == {k \in D : \A j \in D : sizes[j] <= sizes[k]}
           V == {sizes[k] : k \in D}
           max == Cardinality(Players)
<1>1. /\ pool.groups \in Seq(Group) /\ D = 1..Len(pool.groups) /\ Len(pool.groups) \in Nat
      /\ \A k \in D : pool.groups[k] \in Group
  BY PoolFields, LenProperties
<1>2. IsFiniteSet(D) /\ D \in SUBSET Int
  BY <1>1, FS_Interval
<1>3. max \in Nat
  BY PlayersAreFinite, FS_CardinalityType
<1>4. ASSUME NEW k \in D PROVE sizes[k] \in Nat /\ sizes[k] <= max
  <2>1. sizes[k] = Size(pool.groups[k]) /\ Size(pool.groups[k]) \in Nat
    BY <1>1, SizeType
  <2>2. pool.groups[k].players \in SUBSET Players
    BY <1>1 DEF Group
  <2>3. Size(pool.groups[k]) <= max
    BY <2>2, PlayersAreFinite, FS_Subset DEF Size
  <2>4. QED
    BY <2>1, <2>3
<1>5. Max(V) \in V /\ \A y \in V : Max(V) >= y
  <2>1. V \in SUBSET Nat /\ \A y \in V : y <= max
    BY <1>4
  <2>2. V # {} /\ V \in SUBSET Int
    BY <2>1
  <2> HIDE DEF V
  <2>3. IsFiniteSet(V)
    BY <1>3, <2>1, FS_BoundedSetOfNaturals
  <2>4. QED
    BY <2>2, <2>3, MaxIsElement
<1>6. largest # {}
  <2>1. PICK k \in D : Max(V) = sizes[k]
    BY <1>5
  <2>2. \A j \in D : sizes[k] >= sizes[j]
    BY <1>5, <2>1
  <2> HIDE DEF sizes, D
  <2>3. \A j \in D : sizes[j] <= sizes[k]
    BY <1>4, <2>2
  <2>4. QED
    BY <2>3
<1>7. close # {} => Max(close) \in D
  <2>1. close \in SUBSET D
    OBVIOUS
  <2> HIDE DEF close, D
  <2>2. QED
    BY <1>2, <2>1, MaxOfSubset
<1>8. Max(largest) \in D
  <2>1. largest \in SUBSET D
    OBVIOUS
  <2> HIDE DEF largest, D
  <2>2. QED
    BY <1>2, <1>6, <2>1, MaxOfSubset
<1>9. DOMAIN sizes = D
  OBVIOUS
<1>10. ToKick(pool, size) = IF close # {} THEN Max(close) ELSE Max(largest)
  BY <1>9 DEF ToKick
<1> HIDE DEF close, largest, D
<1>11. QED
  BY <1>7, <1>8, <1>10 DEF D

LEMMA KickGroupKeeps ==
    ASSUME NEW L, NEW G, NEW pool, GoodPool(pool, L, G), NEW size
    PROVE  LET v == KickGroup(pool, size)
           IN  GoodPool(v, L, G) /\ v.count <= pool.count
<1> DEFINE k == ToKick(pool, size)
           s == pool.groups
           r == RemoveAt(s, k)
           c == pool.count - Size(s[k])
           v == [pool EXCEPT !.groups = r, !.count = c]
<1>1. /\ pool \in Pools /\ s \in Seq(Group) /\ pool.count \in Nat
      /\ Apart(s) /\ \A j \in DOMAIN s : s[j] \in G
      /\ pool.count = Cardinality(PlayersIn(s)) /\ Ahead(pool, L)
  BY PoolFields DEF GoodPool, Selected
<1>2. CASE pool.count = 0
  <2>1. KickGroup(pool, size) = pool
    BY <1>2 DEF KickGroup
  <2>2. QED
    BY <1>1, <2>1
<1>3. CASE pool.count # 0
  <2>1. DOMAIN s # {}
    <3>1. PlayersIn(s) # {}
      BY <1>1, <1>3, FS_EmptySet
    <3>2. QED
      BY <3>1 DEF PlayersIn
  <2>2. k \in DOMAIN s
    BY <1>1, <2>1, ToKickIsThere
  <2> HIDE DEF k, s
  <2>3. s[k] \in Group /\ Size(s[k]) \in Nat
    BY <1>1, <2>2, LenProperties, SizeType
  <2>4. /\ r \in Seq(Group) /\ \A n \in DOMAIN r : \E j \in DOMAIN s : r[n] = s[j]
        /\ PlayersIn(r) = PlayersIn(s) \ s[k].players /\ Apart(r)
        /\ Cardinality(PlayersIn(r)) = Cardinality(PlayersIn(s)) - Size(s[k])
        /\ Cardinality(PlayersIn(r)) \in Nat
    BY <1>1, <2>2, OneGroupLess
  <2>5. c = Cardinality(PlayersIn(r)) /\ c \in Nat /\ c <= pool.count
    BY <1>1, <2>3, <2>4
  <2>6. KickGroup(pool, size) = v
    BY <1>3 DEF KickGroup, k, s
  <2> HIDE DEF r, c
  <2>7. v \in Pools /\ v.groups = r /\ v.count = c /\ v.next = pool.next
    BY <1>1, <2>4, <2>5 DEF Pools
  <2> HIDE DEF v
  <2>8. Selected(v, G)
    BY <1>1, <2>4, <2>5, <2>7 DEF Selected
  <2>9. Ahead(v, L)
    BY <1>1, <2>4, <2>7 DEF Ahead, s
  <2>10. QED
    BY <2>5, <2>6, <2>7, <2>8, <2>9 DEF GoodPool
<1>4. QED
  BY <1>2, <1>3

(* A step of the balancing loop: the pools stay good and within the        *)
(* places.                                                                 *)
Balancing == [pool : [Teams -> Pools], free : [Teams -> Nat], done : BOOLEAN]

WithinPlaces(s, list, G) ==
  /\ s \in Balancing
  /\ \A t \in Teams : GoodPool(s.pool[t], list[t], G[t]) /\ s.pool[t].count <= s.free[t]

LEMMA OtherTeam == ASSUME NEW t \in Teams PROVE Other(t) \in Teams /\ Other(t) # t
<1>1. \E o \in Teams : o # t
  BY DEF Teams
<1>2. QED
  BY <1>1 DEF Other

LEMMA GiveUpKeeps ==
    ASSUME NEW L, NEW G, Source(L, G), NEW pool, GoodPool(pool, L, G), NEW gap,
           NEW desired \in Int, NEW free \in Nat, pool.count <= free, desired <= free
    PROVE  LET v == GiveUpGroup(pool, gap, L, desired)
           IN  GoodPool(v, L, G) /\ v.count <= free
<1> DEFINE u == KickGroup(pool, gap)
           v == AddGroups(u, L, desired, FALSE)
<1>1. GoodPool(u, L, G) /\ u.count <= pool.count
  BY KickGroupKeeps
<1> HIDE DEF u
<1>2. GoodPool(v, L, G) /\ (v.count = u.count \/ v.count <= desired)
  BY <1>1, AddGroupsKeeps
<1> HIDE DEF v
<1>3. u.count \in Nat /\ v.count \in Nat /\ pool.count \in Nat
  BY <1>1, <1>2, PoolFields DEF GoodPool, Selected
<1>4. u.count <= free /\ v.count <= free
  BY <1>1, <1>2, <1>3
<1>5. GiveUpGroup(pool, gap, L, desired) = v \/ GiveUpGroup(pool, gap, L, desired) = u
  BY DEF GiveUpGroup, u, v
<1>6. QED
  BY <1>1, <1>2, <1>4, <1>5

LEMMA AfterKickKeeps ==
    ASSUME NEW list, NEW G, NEW s, WithinPlaces(s, list, G), NEW few \in Teams, NEW mine,
           GoodPool(mine, list[few], G[few]), mine.count <= s.free[few], NEW left, NEW gap
    PROVE  LET v == AfterKick(s, few, mine, left, gap)
           IN  WithinPlaces(v, list, G) /\ v.free = s.free
<1> DEFINE o == Other(few)
           pools == [s.pool EXCEPT ![few] = mine]
           his == KickGroup(pools[o], gap)
           both == [pools EXCEPT ![o] = his]
           v1 == [s EXCEPT !.pool = pools]
           v2 == [s EXCEPT !.pool = pools, !.done = TRUE]
           v3 == [s EXCEPT !.pool = both]
<1>1. /\ s \in Balancing /\ s.pool \in [Teams -> Pools] /\ s.free \in [Teams -> Nat]
      /\ \A t \in Teams : GoodPool(s.pool[t], list[t], G[t]) /\ s.pool[t].count <= s.free[t]
  BY DEF WithinPlaces, Balancing
<1>2. o \in Teams /\ o # few
  BY OtherTeam
<1>3. mine \in Pools
  BY DEF GoodPool, Selected
<1>4. pools \in [Teams -> Pools] /\ pools[few] = mine /\ \A t \in Teams \ {few} : pools[t] = s.pool[t]
  BY <1>1, <1>3
<1>5. \A t \in Teams : GoodPool(pools[t], list[t], G[t]) /\ pools[t].count <= s.free[t]
  BY <1>1, <1>4
<1>6. AfterKick(s, few, mine, left, gap) \in {v1, v2, v3}
  BY DEF AfterKick
<1> HIDE DEF pools, o
<1>7. GoodPool(his, list[o], G[o]) /\ his.count <= pools[o].count
  BY <1>2, <1>5, KickGroupKeeps
<1> HIDE DEF his
<1>8. his \in Pools /\ his.count <= s.free[o]
  <2>1. his.count \in Nat /\ pools[o].count \in Nat /\ s.free[o] \in Nat /\ his \in Pools
    BY <1>1, <1>2, <1>4, <1>7, PoolFields DEF GoodPool, Selected
  <2>2. QED
    BY <1>2, <1>5, <1>7, <2>1
<1>9. both \in [Teams -> Pools] /\ both[o] = his /\ \A t \in Teams \ {o} : both[t] = pools[t]
  BY <1>2, <1>4, <1>8
<1>10. \A t \in Teams : GoodPool(both[t], list[t], G[t]) /\ both[t].count <= s.free[t]
  BY <1>5, <1>7, <1>8, <1>9
<1> HIDE DEF both
<1>11. /\ v1 \in Balancing /\ v1.pool = pools /\ v1.free = s.free
       /\ v2 \in Balancing /\ v2.pool = pools /\ v2.free = s.free
       /\ v3 \in Balancing /\ v3.pool = both /\ v3.free = s.free
  BY <1>1, <1>4, <1>9 DEF Balancing
<1> HIDE DEF v1, v2, v3
<1>12. WithinPlaces(v1, list, G) /\ WithinPlaces(v2, list, G) /\ WithinPlaces(v3, list, G)
  BY <1>5, <1>10, <1>11 DEF WithinPlaces
<1>13. QED
  BY <1>6, <1>11, <1>12

LEMMA BalanceCycleKeeps ==
    ASSUME NEW list, NEW G, \A t \in Teams : Source(list[t], G[t]),
           NEW s, WithinPlaces(s, list, G)
    PROVE  LET v == BalanceCycle(s, list)
           IN  WithinPlaces(v, list, G) /\ v.free = s.free
<1> DEFINE diff == [t \in Teams |-> s.free[t] - s.pool[t].count]
           few == IF diff["alliance"] < diff["horde"] THEN "alliance" ELSE "horde"
           left == diff[Other(few)]
           gap == left - diff[few]
           desired == Max({s.free[few] - left, 0})
           mine == GiveUpGroup(s.pool[few], gap, list[few], desired)
           v1 == [s EXCEPT !.done = TRUE]
           v2 == AfterKick(s, few, mine, left, gap)
<1>1. /\ s \in Balancing /\ s.pool \in [Teams -> Pools] /\ s.free \in [Teams -> Nat]
      /\ \A t \in Teams : GoodPool(s.pool[t], list[t], G[t]) /\ s.pool[t].count <= s.free[t]
  BY DEF WithinPlaces, Balancing
<1>2. few \in Teams /\ Other(few) \in Teams
  <2>1. few \in Teams
    BY DEF Teams
  <2> HIDE DEF few
  <2>2. QED
    BY <2>1, OtherTeam
<1>3. BalanceCycle(s, list) \in {v1, v2}
  BY DEF BalanceCycle, BalanceBy, BalanceSides
<1>4. /\ v1 \in Balancing /\ v1.pool = s.pool /\ v1.free = s.free
  BY <1>1 DEF Balancing
<1> HIDE DEF v1, few
<1>5. left \in Int /\ left >= 0 /\ s.free[few] \in Nat
  <2>1. \A t \in Teams : s.free[t] \in Nat /\ s.pool[t].count \in Nat /\ s.pool[t].count <= s.free[t]
    BY <1>1, PoolFields
  <2>2. \A t \in Teams : diff[t] \in Int /\ diff[t] >= 0
    BY <2>1
  <2> HIDE DEF diff
  <2>3. QED
    BY <1>2, <2>1, <2>2
<1> HIDE DEF left
<1>6. desired \in Int /\ desired <= s.free[few]
  <2> DEFINE rest == s.free[few] - left
  <2>1. rest \in Int /\ 0 \in Int /\ rest <= s.free[few] /\ 0 <= s.free[few]
    BY <1>5
  <2>2. desired = Max({rest, 0})
    OBVIOUS
  <2> HIDE DEF desired, rest
  <2>3. Max({rest, 0}) \in {rest, 0}
    BY <2>1, MaxOfPair
  <2>4. QED
    BY <2>1, <2>2, <2>3
<1> HIDE DEF desired, gap
<1>7. GoodPool(mine, list[few], G[few]) /\ mine.count <= s.free[few]
  BY <1>1, <1>2, <1>5, <1>6, GiveUpKeeps
<1> HIDE DEF mine
<1>8. WithinPlaces(v2, list, G) /\ v2.free = s.free
  BY <1>2, <1>7, AfterKickKeeps
<1>9. WithinPlaces(v1, list, G)
  BY <1>1, <1>4 DEF WithinPlaces
<1> HIDE DEF v2
<1>10. QED
  BY <1>3, <1>4, <1>8, <1>9

(* The cycles of the balancing loop.                                       *)
Cycled(w, s, list) == FoldLeft(LAMBDA v, k : BalanceCycle(v, list), w, s)

(* The pools that they go through.                                         *)
CycleTrace(w, s, list, h) ==
  /\ h[0] = w /\ Cycled(w, s, list) = h[Len(s)]
  /\ \A k \in 1..Len(s) : h[k] = BalanceCycle(h[k - 1], list)

LEMMA CycleTraceExists ==
    ASSUME NEW w, NEW E, NEW s \in Seq(E), NEW list
    PROVE  \E h : CycleTrace(w, s, list, h)
<1> DEFINE D == 1..Len(s)
           Body(g, n) == [T \in Layer(D, n) |->
                            IF T = {} THEN w
                            ELSE BalanceCycle(g[T \ {Max(T)}], list)]
           All(g) == [T \in SUBSET D |->
                        IF T = {} THEN w
                        ELSE BalanceCycle(g[T \ {Max(T)}], list)]
           N == {n \in Nat : \E g : g = Body(g, n)}
           it == CHOOSE g : g = All(g)
           h == [k \in 0..Len(s) |-> it[1..k]]
<1>1. Len(s) \in Nat /\ DOMAIN s = D /\ IsFiniteSet(D) /\ D \in SUBSET Int
  BY LenProperties, FS_Interval
<1>2. /\ Layer(D, 0) = {{}}
      /\ \A n \in Nat : Layer(D, n) \subseteq Layer(D, n + 1)
      /\ \A n \in Nat : \A T \in Layer(D, n + 1) : \A x \in T : T \ {x} \in Layer(D, n)
      /\ Cardinality(D) \in Nat /\ Layer(D, Cardinality(D)) = SUBSET D
  BY <1>1, Layers
<1>3. ASSUME NEW n \in Nat, NEW T \in Layer(D, n), T # {} PROVE Max(T) \in T
  <2>1. T \in SUBSET D
    BY DEF Layer
  <2>2. QED
    BY <1>1, <1>3, <2>1, MaxOfSubset
<1> HIDE DEF D
<1>4. 0 \in N
  <2> DEFINE g == [T \in Layer(D, 0) |-> w]
  <2>1. g = Body(g, 0)
    BY <1>2
  <2>2. QED
    BY <2>1
<1>5. ASSUME NEW n \in Nat, n \in N PROVE n + 1 \in N
  <2>1. PICK g : g = Body(g, n)
    BY <1>5
  <2> DEFINE f == Body(g, n + 1)
  <2>2. ASSUME NEW T \in Layer(D, n) PROVE f[T] = g[T]
    <3>1. T \in Layer(D, n + 1)
      BY <1>2
    <3>2. f[T] = Body(g, n)[T]
      BY <3>1
    <3>3. QED
      BY <2>1, <3>2
  <2>3. ASSUME NEW T \in Layer(D, n + 1), T # {} PROVE T \ {Max(T)} \in Layer(D, n)
    <3>1. n + 1 \in Nat
      OBVIOUS
    <3>2. Max(T) \in T
      BY <1>3, <2>3, <3>1
    <3>3. QED
      BY <1>2, <3>2
  <2> HIDE DEF f
  <2>4. Body(f, n + 1) = Body(g, n + 1)
    BY <2>2, <2>3
  <2>5. f = Body(f, n + 1)
    BY <2>4 DEF f
  <2> HIDE DEF Body
  <2>6. QED
    BY <2>5 DEF N
<1> HIDE DEF N
<1>6. Cardinality(D) \in N
  BY <1>2, <1>4, <1>5, NatSetInduction
<1>7. \E g : g = All(g)
  <2>1. PICK g : g = Body(g, Cardinality(D))
    BY <1>6 DEF N
  <2>2. Body(g, Cardinality(D)) = All(g)
    BY <1>2
  <2> HIDE DEF Body, All
  <2>3. QED
    BY <2>1, <2>2
<1>8. it = All(it)
  BY <1>7, Zenon
<1>9. Cycled(w, s, list) = it[DOMAIN s]
  BY <1>1 DEF Cycled, FoldLeft, MapThenFoldSet
<1> HIDE DEF it
<1>10. it[{}] = w
  BY <1>8
<1>11. h[0] = w /\ Cycled(w, s, list) = h[Len(s)]
  <2>1. 0 \in 0..Len(s) /\ Len(s) \in 0..Len(s) /\ 1..0 = {}
    BY <1>1
  <2>2. QED
    BY <1>1, <1>9, <1>10, <2>1 DEF D
<1>12. ASSUME NEW k \in 1..Len(s) PROVE h[k] = BalanceCycle(h[k - 1], list)
  <2>1. k \in 0..Len(s) /\ k - 1 \in 0..Len(s)
    BY <1>1
  <2>2. /\ 1..k # {} /\ 1..k \in SUBSET D /\ Max(1..k) = k
        /\ (1..k) \ {k} = 1..(k - 1)
    BY <1>1, MaxOfInterval DEF D
  <2>3. it[1..k] = All(it)[1..k]
    BY <1>8
  <2>4. it[1..k] = BalanceCycle(it[1..(k - 1)], list)
    BY <2>2, <2>3
  <2>5. QED
    BY <2>1, <2>4
<1> HIDE DEF h
<1>13. CycleTrace(w, s, list, h)
  BY <1>11, <1>12 DEF CycleTrace
<1>14. QED
  BY <1>13

LEMMA BalanceKeeps ==
    ASSUME NEW list, NEW G, \A t \in Teams : Source(list[t], G[t]),
           NEW free \in [Teams -> Nat], NEW pool \in [Teams -> Pools],
           \A t \in Teams : GoodPool(pool[t], list[t], G[t]) /\ pool[t].count <= free[t]
    PROVE  LET v == Balance(pool, free, list)
           IN  \A t \in Teams : GoodPool(v[t], list[t], G[t]) /\ v[t].count <= free[t]
<1> DEFINE n == 2 * (Len(list["alliance"]) + Len(list["horde"])) + 1
           s == [k \in 1..n |-> k]
           first == [pool |-> pool, free |-> free, done |-> FALSE]
           Good(v) == WithinPlaces(v, list, G) /\ v.free = free
<1>1. n \in Nat
  <2>1. "alliance" \in Teams /\ "horde" \in Teams
    BY DEF Teams
  <2>2. list["alliance"] \in Seq(Group) /\ list["horde"] \in Seq(Group)
    BY <2>1 DEF Source
  <2> DEFINE a == Len(list["alliance"])
             b == Len(list["horde"])
  <2>3. a \in Nat /\ b \in Nat
    BY <2>2, LenProperties
  <2> HIDE DEF a, b
  <2>4. 2 * (a + b) + 1 \in Nat
    BY <2>3
  <2>5. QED
    BY <2>4 DEF a, b
<1> HIDE DEF n
<1>2. s \in Seq(Nat) /\ Len(s) \in Nat
  <2>1. s \in Seq(Nat)
    BY <1>1
  <2>2. QED
    BY <2>1, LenProperties
<1>3. Balance(pool, free, list) = Cycled(first, s, list).pool
  BY DEF Balance, Cycled, FoldLeft, MapThenFoldSet, n
<1>4. Good(first)
  <2>1. first \in Balancing /\ first.pool = pool /\ first.free = free
    BY DEF Balancing
  <2> HIDE DEF first
  <2>2. QED
    BY <2>1 DEF WithinPlaces
<1> HIDE DEF first, s
<1>5. PICK h : CycleTrace(first, s, list, h)
  BY <1>2, CycleTraceExists
<1> DEFINE N == {k \in Nat : k <= Len(s) => Good(h[k])}
<1>6. 0 \in N
  <2>1. h[0] = first
    BY <1>5 DEF CycleTrace
  <2>2. QED
    BY <1>4, <2>1
<1>7. ASSUME NEW k \in Nat, k \in N PROVE k + 1 \in N
  <2>1. CASE ~(k + 1 <= Len(s))
    BY <2>1
  <2>2. CASE k + 1 <= Len(s)
    <3>1. k + 1 \in 1..Len(s) /\ k + 1 - 1 = k /\ k <= Len(s)
      BY <1>2, <2>2
    <3>2. h[k + 1] = BalanceCycle(h[k], list)
      <4>1. h[k + 1] = BalanceCycle(h[k + 1 - 1], list)
        BY <1>5, <3>1 DEF CycleTrace
      <4>2. QED
        BY <3>1, <4>1
    <3> DEFINE u == h[k]
               v == BalanceCycle(u, list)
    <3>3. WithinPlaces(u, list, G) /\ u.free = free
      BY <1>7, <3>1
    <3> HIDE DEF u
    <3>4. WithinPlaces(v, list, G) /\ v.free = u.free
      BY <3>3, BalanceCycleKeeps
    <3>5. v = h[k + 1]
      BY <3>2 DEF u
    <3> HIDE DEF v
    <3>6. QED
      BY <3>3, <3>4, <3>5
  <2>3. QED
    BY <2>1, <2>2
<1> HIDE DEF N
<1>8. Len(s) \in N
  BY <1>2, <1>6, <1>7, NatSetInduction
<1>9. WithinPlaces(h[Len(s)], list, G) /\ h[Len(s)].free = free
  BY <1>2, <1>8 DEF N
<1>10. Balance(pool, free, list) = h[Len(s)].pool
  BY <1>3, <1>5 DEF CycleTrace
<1>11. QED
  BY <1>9, <1>10 DEF WithinPlaces

LEMMA PlacesToFillType ==
    ASSUME NEW free \in [Teams -> Nat], NEW list, \A t \in Teams : list[t] \in Seq(Group), NEW type
    PROVE  LET v == PlacesToFill(free, list, type)
           IN  v \in [Teams -> Nat] /\ \A t \in Teams : v[t] <= free[t]
<1> DEFINE ahead(t) == Max({Len(list[t]) - Len(list[Other(t)]), 0})
           fewer == [t \in Teams |-> Max({free[t] - ahead(t), 0})]
<1>1. ASSUME NEW t \in Teams
      PROVE  fewer[t] \in Nat /\ fewer[t] <= free[t]
  <2> DEFINE d == Len(list[t]) - Len(list[Other(t)])
  <2>1. d \in Int
    <3>1. Len(list[t]) \in Nat /\ Len(list[Other(t)]) \in Nat
      BY OtherTeam, LenProperties
    <3>2. QED
      BY <3>1
  <2> HIDE DEF d
  <2>2. Max({d, 0}) \in {d, 0} /\ Max({d, 0}) >= 0
    BY <2>1, MaxOfPair, 0 \in Int
  <2> DEFINE a == Max({d, 0})
  <2>3. a \in Int /\ a >= 0
    BY <2>1, <2>2
  <2> HIDE DEF a
  <2> DEFINE r == free[t] - a
  <2>4. r \in Int /\ r <= free[t] /\ free[t] \in Nat
    BY <2>3
  <2> HIDE DEF r
  <2>5. Max({r, 0}) \in {r, 0} /\ Max({r, 0}) >= 0
    BY <2>4, MaxOfPair, 0 \in Int
  <2>6. fewer[t] = Max({r, 0})
    BY DEF r, a, d
  <2> HIDE DEF fewer
  <2>7. QED
    BY <2>4, <2>5, <2>6
<1>2. PlacesToFill(free, list, type) = fewer \/ PlacesToFill(free, list, type) = free
  BY DEF PlacesToFill
<1>3. fewer \in [Teams -> Nat]
  BY <1>1
<1> HIDE DEF fewer
<1>4. \A t \in Teams : free[t] <= free[t]
  OBVIOUS
<1>5. QED
  BY <1>1, <1>2, <1>3, <1>4

(* The pools of FillPlayersToBG fit into the free places.                  *)
LEMMA FillKeeps ==
    ASSUME NEW list, NEW G, \A t \in Teams : Source(list[t], G[t]),
           NEW free \in [Teams -> Nat], NEW type
    PROVE  LET v == FillPlayersToBG(free, list, type)
           IN  \A t \in Teams : GoodPool(v[t], list[t], G[t]) /\ v[t].count <= free[t]
<1> DEFINE places == PlacesToFill(free, list, type)
           pool == [t \in Teams |-> AddGroups(EmptyPool, list[t], places[t], FALSE)]
<1>1. \A t \in Teams : list[t] \in Seq(Group)
  BY DEF Source
<1>2. places \in [Teams -> Nat] /\ \A t \in Teams : places[t] <= free[t]
  BY <1>1, PlacesToFillType
<1> HIDE DEF places
<1>3. ASSUME NEW t \in Teams
      PROVE  GoodPool(pool[t], list[t], G[t]) /\ pool[t].count <= places[t] /\ pool[t] \in Pools
  <2> DEFINE v == AddGroups(EmptyPool, list[t], places[t], FALSE)
  <2>1. GoodPool(EmptyPool, list[t], G[t]) /\ EmptyPool.count = 0
    BY <1>1, EmptyPoolIsGood
  <2>2. places[t] \in Int /\ Source(list[t], G[t])
    BY <1>2
  <2>3. GoodPool(v, list[t], G[t]) /\ (v.count = EmptyPool.count \/ v.count <= places[t])
    BY <2>1, <2>2, AddGroupsKeeps
  <2>4. pool[t] = v
    OBVIOUS
  <2> HIDE DEF v
  <2>5. v.count <= places[t]
    BY <1>2, <2>1, <2>3
  <2>6. v \in Pools
    BY <2>3 DEF GoodPool, Selected
  <2>7. QED
    BY <2>3, <2>4, <2>5, <2>6
<1>4. pool \in [Teams -> Pools]
  BY <1>3
<1>5. FillPlayersToBG(free, list, type) = IF type = NoBalance THEN pool ELSE Balance(pool, places, list)
  BY DEF FillPlayersToBG, places
<1> HIDE DEF pool
<1> DEFINE w == Balance(pool, places, list)
<1>6. \A t \in Teams : GoodPool(w[t], list[t], G[t]) /\ w[t].count <= places[t]
  BY <1>2, <1>3, <1>4, BalanceKeeps
<1> HIDE DEF w
<1> DEFINE v == FillPlayersToBG(free, list, type)
<1>7. \A t \in Teams : GoodPool(v[t], list[t], G[t]) /\ v[t].count <= places[t]
  BY <1>3, <1>5, <1>6 DEF w
<1> HIDE DEF v
<1>8. ASSUME NEW t \in Teams PROVE v[t].count <= free[t]
  <2>1. v[t].count \in Nat
    BY <1>7, PoolFields DEF GoodPool, Selected
  <2>2. QED
    BY <1>2, <1>7, <2>1
<1>9. QED
  BY <1>7, <1>8 DEF v

(* The first loop of CheckNormalMatch: groups until there are enough       *)
(* players.                                                                *)
TakeUntilEnough(s, g) ==
  IF s.count >= MinPlayersPerTeam THEN s ELSE NextGroup(s, g, MaxPlayersPerTeam)

Taking(w, s) == FoldLeft(LAMBDA v, g : TakeUntilEnough(v, g), w, s)

(* The pools that it goes through.                                         *)
TakeTrace(w, s, h) ==
  /\ h[0] = w /\ Taking(w, s) = h[Len(s)]
  /\ \A k \in 1..Len(s) : h[k] = TakeUntilEnough(h[k - 1], s[k])

LEMMA TakeTraceExists ==
    ASSUME NEW w, NEW E, NEW s \in Seq(E)
    PROVE  \E h : TakeTrace(w, s, h)
<1> DEFINE D == 1..Len(s)
           Body(g, n) == [T \in Layer(D, n) |->
                            IF T = {} THEN w
                            ELSE TakeUntilEnough(g[T \ {Max(T)}], s[Max(T)])]
           All(g) == [T \in SUBSET D |->
                        IF T = {} THEN w
                        ELSE TakeUntilEnough(g[T \ {Max(T)}], s[Max(T)])]
           N == {n \in Nat : \E g : g = Body(g, n)}
           it == CHOOSE g : g = All(g)
           h == [k \in 0..Len(s) |-> it[1..k]]
<1>1. Len(s) \in Nat /\ DOMAIN s = D /\ IsFiniteSet(D) /\ D \in SUBSET Int
  BY LenProperties, FS_Interval
<1>2. /\ Layer(D, 0) = {{}}
      /\ \A n \in Nat : Layer(D, n) \subseteq Layer(D, n + 1)
      /\ \A n \in Nat : \A T \in Layer(D, n + 1) : \A x \in T : T \ {x} \in Layer(D, n)
      /\ Cardinality(D) \in Nat /\ Layer(D, Cardinality(D)) = SUBSET D
  BY <1>1, Layers
<1>3. ASSUME NEW n \in Nat, NEW T \in Layer(D, n), T # {} PROVE Max(T) \in T
  <2>1. T \in SUBSET D
    BY DEF Layer
  <2>2. QED
    BY <1>1, <1>3, <2>1, MaxOfSubset
<1> HIDE DEF D
<1>4. 0 \in N
  <2> DEFINE g == [T \in Layer(D, 0) |-> w]
  <2>1. g = Body(g, 0)
    BY <1>2
  <2>2. QED
    BY <2>1
<1>5. ASSUME NEW n \in Nat, n \in N PROVE n + 1 \in N
  <2>1. PICK g : g = Body(g, n)
    BY <1>5
  <2> DEFINE f == Body(g, n + 1)
  <2>2. ASSUME NEW T \in Layer(D, n) PROVE f[T] = g[T]
    <3>1. T \in Layer(D, n + 1)
      BY <1>2
    <3>2. f[T] = Body(g, n)[T]
      BY <3>1
    <3>3. QED
      BY <2>1, <3>2
  <2>3. ASSUME NEW T \in Layer(D, n + 1), T # {} PROVE T \ {Max(T)} \in Layer(D, n)
    <3>1. n + 1 \in Nat
      OBVIOUS
    <3>2. Max(T) \in T
      BY <1>3, <2>3, <3>1
    <3>3. QED
      BY <1>2, <3>2
  <2> HIDE DEF f
  <2>4. Body(f, n + 1) = Body(g, n + 1)
    BY <2>2, <2>3
  <2>5. f = Body(f, n + 1)
    BY <2>4 DEF f
  <2> HIDE DEF Body
  <2>6. QED
    BY <2>5 DEF N
<1> HIDE DEF N
<1>6. Cardinality(D) \in N
  BY <1>2, <1>4, <1>5, NatSetInduction
<1>7. \E g : g = All(g)
  <2>1. PICK g : g = Body(g, Cardinality(D))
    BY <1>6 DEF N
  <2>2. Body(g, Cardinality(D)) = All(g)
    BY <1>2
  <2> HIDE DEF Body, All
  <2>3. QED
    BY <2>1, <2>2
<1>8. it = All(it)
  BY <1>7, Zenon
<1>9. Taking(w, s) = it[DOMAIN s]
  BY <1>1 DEF Taking, FoldLeft, MapThenFoldSet
<1> HIDE DEF it
<1>10. it[{}] = w
  BY <1>8
<1>11. h[0] = w /\ Taking(w, s) = h[Len(s)]
  <2>1. 0 \in 0..Len(s) /\ Len(s) \in 0..Len(s) /\ 1..0 = {}
    BY <1>1
  <2>2. QED
    BY <1>1, <1>9, <1>10, <2>1 DEF D
<1>12. ASSUME NEW k \in 1..Len(s) PROVE h[k] = TakeUntilEnough(h[k - 1], s[k])
  <2>1. k \in 0..Len(s) /\ k - 1 \in 0..Len(s)
    BY <1>1
  <2>2. /\ 1..k # {} /\ 1..k \in SUBSET D /\ Max(1..k) = k
        /\ (1..k) \ {k} = 1..(k - 1)
    BY <1>1, MaxOfInterval DEF D
  <2>3. it[1..k] = All(it)[1..k]
    BY <1>8
  <2>4. it[1..k] = TakeUntilEnough(it[1..(k - 1)], s[k])
    BY <2>2, <2>3
  <2>5. QED
    BY <2>1, <2>4
<1> HIDE DEF h
<1>13. TakeTrace(w, s, h)
  BY <1>11, <1>12 DEF TakeTrace
<1>14. QED
  BY <1>13

LEMMA EnoughKeeps ==
    ASSUME NEW L, NEW G, Source(L, G)
    PROVE  LET v == EnoughPlayers(L)
           IN  GoodPool(v, L, G) /\ v.count <= MaxPlayersPerTeam
<1> DEFINE Good(v) == GoodPool(v, L, G) /\ v.count <= MaxPlayersPerTeam
<1>1. /\ L \in Seq(Group) /\ Len(L) \in Nat /\ DOMAIN L = 1..Len(L)
      /\ MaxPlayersPerTeam \in Nat /\ MinPlayersPerTeam \in Nat
  BY LenProperties, TeamSizes DEF Source
<1>2. EnoughPlayers(L) = Taking(EmptyPool, L)
  BY DEF EnoughPlayers, TakeUntilEnough, NextGroup, Taking, FoldLeft, MapThenFoldSet
<1>3. Good(EmptyPool) /\ EmptyPool.next = 1
  <2>1. GoodPool(EmptyPool, L, G) /\ EmptyPool.count = 0
    BY <1>1, EmptyPoolIsGood
  <2>2. EmptyPool.next = 1
    BY DEF EmptyPool
  <2>3. QED
    BY <1>1, <2>1, <2>2
<1>4. PICK h : TakeTrace(EmptyPool, L, h)
  BY <1>1, TakeTraceExists
<1> DEFINE N == {k \in Nat : k <= Len(L) => /\ Good(h[k])
                                            /\ h[k].count >= MinPlayersPerTeam \/ h[k].next = k + 1}
<1>5. 0 \in N
  <2>1. h[0] = EmptyPool /\ 0 + 1 = 1
    BY <1>4 DEF TakeTrace
  <2>2. QED
    BY <1>3, <2>1
<1>6. ASSUME NEW k \in Nat, k \in N PROVE k + 1 \in N
  <2>1. CASE ~(k + 1 <= Len(L))
    BY <2>1
  <2>2. CASE k + 1 <= Len(L)
    <3>1. k + 1 \in 1..Len(L) /\ k + 1 - 1 = k /\ k <= Len(L)
      BY <1>1, <2>2
    <3>2. h[k + 1] = TakeUntilEnough(h[k], L[k + 1])
      <4>1. h[k + 1] = TakeUntilEnough(h[k + 1 - 1], L[k + 1])
        BY <1>4, <3>1 DEF TakeTrace
      <4>2. QED
        BY <3>1, <4>1
    <3>3. /\ GoodPool(h[k], L, G) /\ h[k].count <= MaxPlayersPerTeam
          /\ h[k].count >= MinPlayersPerTeam \/ h[k].next = k + 1
      BY <1>6, <3>1
    <3>4. CASE h[k].count >= MinPlayersPerTeam
      <4>1. h[k + 1] = h[k]
        BY <3>2, <3>4 DEF TakeUntilEnough
      <4>2. QED
        BY <3>3, <3>4, <4>1
    <3>5. CASE ~(h[k].count >= MinPlayersPerTeam)
      <4> DEFINE u == h[k]
                 v == NextGroup(u, L[u.next], MaxPlayersPerTeam)
      <4>1. u.next = k + 1 /\ u.next \in DOMAIN L
        BY <1>1, <3>1, <3>3, <3>5
      <4>2. v = h[k + 1]
        BY <3>2, <3>5, <4>1 DEF TakeUntilEnough
      <4>3. GoodPool(u, L, G) /\ MaxPlayersPerTeam \in Int
        BY <1>1, <3>3
      <4> HIDE DEF u
      <4>4. /\ GoodPool(v, L, G) /\ v.next = u.next + 1
            /\ v.count = u.count \/ v.count <= MaxPlayersPerTeam
        BY <4>1, <4>3, NextKeeps
      <4> HIDE DEF v
      <4>5. v.count <= MaxPlayersPerTeam /\ v.next = k + 1 + 1
        BY <3>3, <4>1, <4>4 DEF u
      <4>6. QED
        BY <4>2, <4>4, <4>5
    <3>6. QED
      BY <3>4, <3>5
  <2>3. QED
    BY <2>1, <2>2
<1> HIDE DEF N
<1>7. Len(L) \in N
  BY <1>1, <1>5, <1>6, NatSetInduction
<1>8. Good(h[Len(L)])
  BY <1>1, <1>7 DEF N
<1>9. EnoughPlayers(L) = h[Len(L)]
  BY <1>2, <1>4 DEF TakeTrace
<1>10. QED
  BY <1>8, <1>9

LEMMA NormalPoolsKeep ==
    ASSUME NEW list, NEW G, \A t \in Teams : Source(list[t], G[t]), NEW type
    PROVE  LET v == NormalPools(list, type)
           IN  \A t \in Teams : GoodPool(v[t], list[t], G[t]) /\ v[t].count <= MaxPlayersPerTeam
<1> DEFINE pool == [t \in Teams |-> EnoughPlayers(list[t])]
           few == IF pool["horde"].count < pool["alliance"].count THEN "horde" ELSE "alliance"
           more == AddGroups(pool[few], list[few], pool[Other(few)].count, TRUE)
           v1 == [pool EXCEPT ![few] = more]
<1>1. \A t \in Teams : GoodPool(pool[t], list[t], G[t]) /\ pool[t].count <= MaxPlayersPerTeam
  BY EnoughKeeps
<1>2. few \in Teams /\ Other(few) \in Teams
  <2>1. few \in Teams
    BY DEF Teams
  <2> HIDE DEF few
  <2>2. QED
    BY <2>1, OtherTeam
<1>3. NormalPools(list, type) \in {pool, v1}
  BY DEF NormalPools, Levelled, LevelTo
<1>4. DOMAIN pool = Teams
  OBVIOUS
<1> HIDE DEF pool, few
<1>5. GoodPool(more, list[few], G[few]) /\ more.count <= MaxPlayersPerTeam
  <2> DEFINE d == pool[Other(few)].count
  <2>1. d \in Nat /\ d <= MaxPlayersPerTeam
    BY <1>1, <1>2, PoolFields DEF GoodPool, Selected
  <2>2. d \in Int
    BY <2>1
  <2> HIDE DEF d
  <2>3. more = AddGroups(pool[few], list[few], d, TRUE)
    BY DEF d
  <2> HIDE DEF more
  <2>4. GoodPool(more, list[few], G[few]) /\ (more.count = pool[few].count \/ more.count <= d)
    BY <1>1, <1>2, <2>2, <2>3, AddGroupsKeeps
  <2>5. more.count \in Nat /\ MaxPlayersPerTeam \in Nat
    BY <2>4, PoolFields, TeamSizes DEF GoodPool, Selected
  <2>6. QED
    BY <1>1, <1>2, <2>1, <2>4, <2>5
<1> HIDE DEF more
<1>6. \A t \in Teams : v1[t] = IF t = few THEN more ELSE pool[t]
  BY <1>2, <1>4
<1>7. QED
  BY <1>1, <1>3, <1>5, <1>6

(* The pools of CheckPremadeMatch.                                         *)
LEMMA FirstWaitingIsThere ==
    ASSUME NEW list \in Seq(Group), FirstWaiting(list) # 0
    PROVE  FirstWaiting(list) \in DOMAIN list /\ list[FirstWaiting(list)].invited = 0
<1> DEFINE I == {i \in 1..Len(list) : list[i].invited = 0}
<1>1. FirstWaiting(list) = IF I # {} THEN Min(I) ELSE 0
  BY DEF FirstWaiting, SelectInSeq
<1>2. I # {}
  BY <1>1
<1>3. Len(list) \in Nat /\ DOMAIN list = 1..Len(list)
  BY LenProperties
<1>4. I \in SUBSET (1..Len(list)) /\ I \subseteq Int /\ IsFiniteSet(1..Len(list))
  BY <1>3, FS_Interval
<1>5. Min(I) \in I
  <2> HIDE DEF I
  <2>1. IsFiniteSet(I)
    BY <1>4, FS_Subset
  <2>2. QED
    BY <1>2, <1>4, <2>1, MinIsElement
<1>6. QED
  BY <1>1, <1>2, <1>3, <1>5

LEMMA PremadePoolsKeep ==
    ASSUME NEW list, NEW premade, NEW G, \A t \in Teams : Source(list[t], G[t]),
           \A t \in Teams :
             /\ premade[t] \in Seq(Group)
             /\ \A k \in DOMAIN premade[t] :
                  /\ premade[t][k].invited = 0 => premade[t][k] \in G[t]
                  /\ \A j \in DOMAIN list[t] : list[t][j].players \cap premade[t][k].players = {},
           PremadeMatch(premade)
    PROVE  LET v == PremadePools(premade, list)
           IN  \A t \in Teams : GoodPool(v[t], list[t], G[t]) /\ v[t].count <= MaxPlayersPerTeam
<1> DEFINE g(t) == premade[t][FirstWaiting(premade[t])]
           first == [t \in Teams |-> AddGroup(EmptyPool, g(t), MaxPlayersPerTeam)]
           room == Min({first[t].count : t \in Teams})
           v == [t \in Teams |-> AddGroups(first[t], list[t], room, TRUE)]
<1>1. PremadePools(premade, list) = v
  BY DEF PremadePools
<1>2. MaxPlayersPerTeam \in Nat
  BY TeamSizes
<1>3. ASSUME NEW t \in Teams
      PROVE  GoodPool(first[t], list[t], G[t]) /\ first[t].count <= MaxPlayersPerTeam
  <2> DEFINE u == AddGroup(EmptyPool, g(t), MaxPlayersPerTeam)
  <2>1. /\ FirstWaiting(premade[t]) \in DOMAIN premade[t] /\ g(t).invited = 0
        /\ premade[t] \in Seq(Group)
    BY FirstWaitingIsThere DEF PremadeMatch
  <2>2. /\ g(t) \in Group /\ g(t) \in G[t]
        /\ \A j \in DOMAIN list[t] : list[t][j].players \cap g(t).players = {}
    BY <2>1, LenProperties
  <2>3. list[t] \in Seq(Group) /\ DOMAIN list[t] = 1..Len(list[t]) /\ Len(list[t]) \in Nat
    BY LenProperties DEF Source
  <2>4. GoodPool(EmptyPool, list[t], G[t]) /\ EmptyPool.count = 0
    BY <2>3, EmptyPoolIsGood
  <2>5. PlayersIn(EmptyPool.groups) = {} /\ EmptyPool.next = 1
    BY PlayersInNone DEF EmptyPool
  <2>6. first[t] = u
    OBVIOUS
  <2> HIDE DEF g, first
  <2>7. /\ Selected(u, G[t]) /\ u.next = 1 /\ PlayersIn(u.groups) \subseteq g(t).players
        /\ u.count = 0 \/ u.count <= MaxPlayersPerTeam
    <3>1. Selected(EmptyPool, G[t]) /\ g(t).players \cap PlayersIn(EmptyPool.groups) = {}
      BY <2>4, <2>5 DEF GoodPool
    <3>2. /\ Selected(u, G[t]) /\ u.next = EmptyPool.next
          /\ PlayersIn(u.groups) \subseteq PlayersIn(EmptyPool.groups) \cup g(t).players
          /\ u.count = EmptyPool.count \/ u.count <= MaxPlayersPerTeam
      BY <1>2, <2>2, <3>1, AddGroupKeeps
    <3> HIDE DEF u
    <3>3. QED
      BY <2>4, <2>5, <3>2
  <2> HIDE DEF u
  <2>8. Ahead(u, list[t])
    <3>1. 1 \in 1..Len(list[t]) + 1
      BY <2>3
    <3>2. QED
      BY <2>2, <2>3, <2>7, <3>1 DEF Ahead
  <2>9. GoodPool(u, list[t], G[t]) /\ u.count <= MaxPlayersPerTeam
    BY <1>2, <2>7, <2>8 DEF GoodPool
  <2>10. QED
    BY <2>6, <2>9
<1> HIDE DEF first
<1>4. room \in Int /\ room <= MaxPlayersPerTeam
  <2> DEFINE a == first["alliance"].count
             b == first["horde"].count
  <2>1. a \in Int /\ b \in Int /\ a <= MaxPlayersPerTeam /\ b <= MaxPlayersPerTeam
    <3>1. \A t \in Teams : first[t].count \in Nat
      BY <1>3, PoolFields DEF GoodPool, Selected
    <3>2. QED
      BY <1>3, <3>1 DEF Teams
  <2>2. {first[t].count : t \in Teams} = {a, b, b}
    BY DEF Teams
  <2> HIDE DEF a, b
  <2>3. Min({a, b, b}) \in {a, b, b}
    BY <2>1, MinOfThree
  <2>4. QED
    BY <2>1, <2>2, <2>3
<1> HIDE DEF room
<1>5. ASSUME NEW t \in Teams
      PROVE  GoodPool(v[t], list[t], G[t]) /\ v[t].count <= MaxPlayersPerTeam
  <2> DEFINE u == AddGroups(first[t], list[t], room, TRUE)
  <2>1. GoodPool(u, list[t], G[t]) /\ (u.count = first[t].count \/ u.count <= room)
    BY <1>3, <1>4, AddGroupsKeeps
  <2>2. v[t] = u
    OBVIOUS
  <2> HIDE DEF u, v
  <2>3. u.count \in Nat
    BY <2>1, PoolFields DEF GoodPool, Selected
  <2>4. u.count <= MaxPlayersPerTeam
    BY <1>2, <1>3, <1>4, <2>1, <2>3
  <2>5. QED
    BY <2>1, <2>2, <2>4
<1> HIDE DEF v
<1>6. QED
  BY <1>1, <1>5

-----------------------------------------------------------------------------
(* The invitations of the selected groups, one after the other.            *)
AllInvited(w, s, i) == FoldLeft(LAMBDA v, g : Invite(v, g, i), w, s)

(* What the battleground manager goes through meanwhile.                   *)
InviteTrace(w, s, i, h) ==
  /\ h[0] = w /\ AllInvited(w, s, i) = h[Len(s)]
  /\ \A k \in 1..Len(s) : h[k] = Invite(h[k - 1], s[k], i)

LEMMA InviteTraceExists ==
    ASSUME NEW w, NEW E, NEW s \in Seq(E), NEW i
    PROVE  \E h : InviteTrace(w, s, i, h)
<1> DEFINE D == 1..Len(s)
           Body(g, n) == [T \in Layer(D, n) |->
                            IF T = {} THEN w
                            ELSE Invite(g[T \ {Max(T)}], s[Max(T)], i)]
           All(g) == [T \in SUBSET D |->
                        IF T = {} THEN w
                        ELSE Invite(g[T \ {Max(T)}], s[Max(T)], i)]
           N == {n \in Nat : \E g : g = Body(g, n)}
           it == CHOOSE g : g = All(g)
           h == [k \in 0..Len(s) |-> it[1..k]]
<1>1. Len(s) \in Nat /\ DOMAIN s = D /\ IsFiniteSet(D) /\ D \in SUBSET Int
  BY LenProperties, FS_Interval
<1>2. /\ Layer(D, 0) = {{}}
      /\ \A n \in Nat : Layer(D, n) \subseteq Layer(D, n + 1)
      /\ \A n \in Nat : \A T \in Layer(D, n + 1) : \A x \in T : T \ {x} \in Layer(D, n)
      /\ Cardinality(D) \in Nat /\ Layer(D, Cardinality(D)) = SUBSET D
  BY <1>1, Layers
<1>3. ASSUME NEW n \in Nat, NEW T \in Layer(D, n), T # {} PROVE Max(T) \in T
  <2>1. T \in SUBSET D
    BY DEF Layer
  <2>2. QED
    BY <1>1, <1>3, <2>1, MaxOfSubset
<1> HIDE DEF D
<1>4. 0 \in N
  <2> DEFINE g == [T \in Layer(D, 0) |-> w]
  <2>1. g = Body(g, 0)
    BY <1>2
  <2>2. QED
    BY <2>1
<1>5. ASSUME NEW n \in Nat, n \in N PROVE n + 1 \in N
  <2>1. PICK g : g = Body(g, n)
    BY <1>5
  <2> DEFINE f == Body(g, n + 1)
  <2>2. ASSUME NEW T \in Layer(D, n) PROVE f[T] = g[T]
    <3>1. T \in Layer(D, n + 1)
      BY <1>2
    <3>2. f[T] = Body(g, n)[T]
      BY <3>1
    <3>3. QED
      BY <2>1, <3>2
  <2>3. ASSUME NEW T \in Layer(D, n + 1), T # {} PROVE T \ {Max(T)} \in Layer(D, n)
    <3>1. n + 1 \in Nat
      OBVIOUS
    <3>2. Max(T) \in T
      BY <1>3, <2>3, <3>1
    <3>3. QED
      BY <1>2, <3>2
  <2> HIDE DEF f
  <2>4. Body(f, n + 1) = Body(g, n + 1)
    BY <2>2, <2>3
  <2>5. f = Body(f, n + 1)
    BY <2>4 DEF f
  <2> HIDE DEF Body
  <2>6. QED
    BY <2>5 DEF N
<1> HIDE DEF N
<1>6. Cardinality(D) \in N
  BY <1>2, <1>4, <1>5, NatSetInduction
<1>7. \E g : g = All(g)
  <2>1. PICK g : g = Body(g, Cardinality(D))
    BY <1>6 DEF N
  <2>2. Body(g, Cardinality(D)) = All(g)
    BY <1>2
  <2> HIDE DEF Body, All
  <2>3. QED
    BY <2>1, <2>2
<1>8. it = All(it)
  BY <1>7, Zenon
<1>9. AllInvited(w, s, i) = it[DOMAIN s]
  BY <1>1 DEF AllInvited, FoldLeft, MapThenFoldSet
<1> HIDE DEF it
<1>10. it[{}] = w
  BY <1>8
<1>11. h[0] = w /\ AllInvited(w, s, i) = h[Len(s)]
  <2>1. 0 \in 0..Len(s) /\ Len(s) \in 0..Len(s) /\ 1..0 = {}
    BY <1>1
  <2>2. QED
    BY <1>1, <1>9, <1>10, <2>1 DEF D
<1>12. ASSUME NEW k \in 1..Len(s) PROVE h[k] = Invite(h[k - 1], s[k], i)
  <2>1. k \in 0..Len(s) /\ k - 1 \in 0..Len(s)
    BY <1>1
  <2>2. /\ 1..k # {} /\ 1..k \in SUBSET D /\ Max(1..k) = k
        /\ (1..k) \ {k} = 1..(k - 1)
    BY <1>1, MaxOfInterval DEF D
  <2>3. it[1..k] = All(it)[1..k]
    BY <1>8
  <2>4. it[1..k] = Invite(it[1..(k - 1)], s[k], i)
    BY <2>2, <2>3
  <2>5. QED
    BY <2>1, <2>4
<1> HIDE DEF h
<1>13. InviteTrace(w, s, i, h)
  BY <1>11, <1>12 DEF InviteTrace
<1>14. QED
  BY <1>13

(* The invitations still to be made fit into the battleground.             *)
LEMMA GroupIsAt ==
    ASSUME NEW w \in Worlds, NEW g \in GroupsOf(w)
    PROVE  \E l \in Lists : \E k : IsAt(w, l, k, g)
<1>1. PICK l \in Lists : g \in ToSet(w.queue[l])
  BY DEF GroupsOf
<1>2. PICK k \in DOMAIN w.queue[l] : g = w.queue[l][k]
  BY <1>1 DEF ToSet
<1>3. QED
  BY <1>2 DEF IsAt

(* Nobody who is invited loses the invitation.                             *)
SlotsLast(w, v) ==
  \A p \in Players : w.slot[p] \notin {NotQueued, 0} => v.slot[p] = w.slot[p]

InvitesOnly(w, v) == v.freeSlots = w.freeSlots /\ SlotsLast(w, v)

LEMMA SlotsLastOn ==
    ASSUME NEW u, NEW v, NEW w, SlotsLast(u, v), SlotsLast(v, w)
    PROVE  SlotsLast(u, w)
BY DEF SlotsLast

LEMMA SameSlotsLast == ASSUME NEW w, NEW v, v.slot = w.slot PROVE SlotsLast(w, v)
BY DEF SlotsLast

NotYetInvited(s) == \A k \in DOMAIN s : s[k].invited = 0

LEMMA InvitedLast ==
    ASSUME NEW w, Inv(w), NEW g \in GroupsOf(w), g.invited = 0, NEW i, NEW v,
           Inviting(w, g, i, v)
    PROVE  InvitesOnly(w, v)
<1>1. PICK l \in Lists : \E k : IsAt(w, l, k, g)
  BY GroupIsAt DEF Inv
<1>2. PICK k : IsAt(w, l, k, g)
  BY <1>1
<1>3. k \in DOMAIN w.queue[l] /\ g = w.queue[l][k]
  BY <1>2 DEF IsAt
<1>4. \A p \in g.players : w.slot[p] = 0
  BY <1>3 DEF Inv, Waiting, QueuedOK
<1>5. v.freeSlots = w.freeSlots
      /\ v.slot = [p \in Players |-> IF p \in g.players THEN i ELSE w.slot[p]]
  BY DEF Inviting
<1>6. QED
  BY <1>4, <1>5 DEF InvitesOnly, SlotsLast

Rest(s, j, t) ==
  {p \in Players : \E k \in j + 1..Len(s) : s[k].team = t /\ p \in s[k].players}

InvitesLeft(w, s, i, j) ==
  /\ Inv(w) /\ TimersAhead(w) /\ Live(w, i)
  /\ \A k \in j + 1..Len(s) : s[k] \in GroupsOf(w)
  /\ \A t \in Teams : w.bgs[i].invited[t] + Cardinality(Rest(s, j, t)) <= MaxPlayersPerTeam

LEMMA AtIsGroup ==
    ASSUME NEW w \in Worlds, NEW l \in Lists, NEW k \in DOMAIN w.queue[l]
    PROVE  w.queue[l][k] \in GroupsOf(w) /\ w.queue[l][k] \in Group
<1>1. w.queue \in Queues
  BY WorldFields DEF Queues
<1>2. w.queue[l][k] \in ToSet(w.queue[l]) /\ w.queue[l][k] \in Group
  BY <1>1, GroupAt
<1>3. QED
  BY <1>2 DEF GroupsOf

LEMMA GroupIsGroup == ASSUME NEW w \in Worlds, NEW g \in GroupsOf(w) PROVE g \in Group
<1>1. PICK l \in Lists : \E k : IsAt(w, l, k, g)
  BY GroupIsAt
<1>2. PICK k : IsAt(w, l, k, g)
  BY <1>1
<1>3. k \in DOMAIN w.queue[l] /\ g = w.queue[l][k]
  BY <1>2 DEF IsAt
<1>4. QED
  BY <1>3, AtIsGroup

(* The other groups stay in the queue.                                     *)
LEMMA OthersStayQueued ==
    ASSUME NEW w, Inv(w), NEW g \in GroupsOf(w), NEW i \in Instances,
           NEW v, v \in Worlds, Inviting(w, g, i, v),
           NEW h \in GroupsOf(w), h.players \cap g.players = {}
    PROVE  h \in GroupsOf(v)
<1>1. w \in Worlds /\ OnePlace(w.queue)
  BY DEF Inv, Waiting
<1>2. PICK l \in Lists : \E k : IsAt(w, l, k, g)
  BY <1>1, GroupIsAt
<1>3. PICK k : IsAt(w, l, k, g)
  BY <1>2
<1>4. /\ g \in Group
      /\ \A m \in Lists : DOMAIN v.queue[m] = DOMAIN w.queue[m]
      /\ \A m \in Lists : \A n \in DOMAIN w.queue[m] :
           m # l \/ n # k => v.queue[m][n] = w.queue[m][n]
  BY <1>1, <1>3, InvitedAt
<1>5. PICK m \in Lists : \E n : IsAt(w, m, n, h)
  BY <1>1, GroupIsAt
<1>6. PICK n : IsAt(w, m, n, h)
  BY <1>5
<1>7. n \in DOMAIN w.queue[m] /\ h = w.queue[m][n] /\ g = w.queue[l][k] /\ g.players # {}
  BY <1>3, <1>4, <1>6 DEF IsAt, Group
<1>8. m # l \/ n # k
  BY <1>7
<1>9. n \in DOMAIN v.queue[m] /\ h = v.queue[m][n]
  BY <1>4, <1>7, <1>8
<1>10. QED
  BY <1>9, AtIsGroup

(* One invitation fewer to be made.                                        *)
LEMMA RestShrinks ==
    ASSUME NEW s \in Seq(Group), Apart(s), NEW j \in Nat, j + 1 \in DOMAIN s, NEW t \in Teams
    PROVE  /\ Cardinality(Rest(s, j, t)) \in Nat /\ Cardinality(Rest(s, j + 1, t)) \in Nat
           /\ Cardinality(Rest(s, j, t)) =
                Cardinality(Rest(s, j + 1, t)) + (IF s[j + 1].team = t THEN Size(s[j + 1]) ELSE 0)
<1> DEFINE g == s[j + 1]
           R == Rest(s, j, t)
           Q == Rest(s, j + 1, t)
<1>1. Len(s) \in Nat /\ DOMAIN s = 1..Len(s) /\ g \in Group
  BY LenProperties
<1>2. g.players \subseteq Players /\ IsFiniteSet(g.players) /\ Size(g) = Cardinality(g.players)
      /\ Size(g) \in Nat
  BY <1>1, SizeType DEF Group, Size
<1>3. R \subseteq Players /\ Q \subseteq Players
  BY DEF Rest
<1>4. IsFiniteSet(R) /\ IsFiniteSet(Q) /\ Cardinality(R) \in Nat /\ Cardinality(Q) \in Nat
  BY <1>3, PlayersAreFinite, FS_Subset, FS_CardinalityType
<1>5. ASSUME NEW k \in j + 1..Len(s) PROVE k = j + 1 \/ k \in j + 2..Len(s)
  BY <1>1
<1>6. /\ j + 1 \in j + 1..Len(s) /\ j + 1 + 1 = j + 2
      /\ \A k \in j + 2..Len(s) : k \in j + 1..Len(s) /\ k # j + 1 /\ k \in DOMAIN s
  BY <1>1
<1>7. CASE g.team = t
  <2>1. R = Q \cup g.players
    BY <1>2, <1>5, <1>6, <1>7 DEF Rest
  <2>2. Q \cap g.players = {}
    <3>1. ASSUME NEW p \in Q, p \in g.players PROVE FALSE
      <4>1. PICK k \in j + 2..Len(s) : p \in s[k].players
        BY <1>6 DEF Rest
      <4>2. k \in DOMAIN s /\ k # j + 1 /\ s[k].players \cap s[j + 1].players # {}
        BY <1>6, <3>1, <4>1
      <4>3. QED
        BY <4>2 DEF Apart
    <3>2. QED
      BY <3>1
  <2> DEFINE P == g.players
  <2>5. IsFiniteSet(P) /\ IsFiniteSet(Q) /\ Q \cap P = {} /\ Cardinality(P) \in Nat
        /\ Cardinality(Q) \in Nat
    BY <1>2, <1>4, <2>2
  <2> HIDE DEF g, R, Q, P
  <2>3. Cardinality(Q \cup P) = Cardinality(Q) + Cardinality(P)
    <3>1. Cardinality(Q \cup P) = Cardinality(Q) + Cardinality(P) - Cardinality(Q \cap P)
      BY <2>5, FS_Union
    <3>2. Cardinality(Q \cap P) = 0
      BY <2>5, FS_EmptySet
    <3>3. QED
      BY <2>5, <3>1, <3>2
  <2>4. QED
    BY <1>2, <1>4, <1>7, <2>1, <2>3 DEF g, R, Q, P
<1>8. CASE g.team # t
  <2>1. R = Q
    BY <1>5, <1>6, <1>8 DEF Rest
  <2>2. QED
    BY <1>4, <1>8, <2>1
<1>9. QED
  BY <1>7, <1>8

LEMMA InviteNext ==
    ASSUME NEW w, NEW s \in Seq(Group), Apart(s), NEW i \in Instances, NEW j \in Nat,
           j + 1 \in DOMAIN s, InvitesLeft(w, s, i, j), NotYetInvited(s)
    PROVE  LET v == Invite(w, s[j + 1], i)
           IN  InvitesLeft(v, s, i, j + 1) /\ InvitesOnly(w, v)
<1> DEFINE g == s[j + 1]
           v == Invite(w, g, i)
<1>1. /\ Inv(w) /\ TimersAhead(w) /\ Live(w, i) /\ w \in Worlds
      /\ \A k \in j + 1..Len(s) : s[k] \in GroupsOf(w)
      /\ \A t \in Teams : w.bgs[i].invited[t] + Cardinality(Rest(s, j, t)) <= MaxPlayersPerTeam
  BY DEF InvitesLeft, Inv
<1>2. Len(s) \in Nat /\ DOMAIN s = 1..Len(s) /\ g \in Group
  BY LenProperties
<1>3. j + 1 \in j + 1..Len(s)
  BY <1>2
<1>4. g \in GroupsOf(w) /\ g.team \in Teams /\ Size(g) \in Nat
  BY <1>1, <1>2, <1>3, SizeType DEF Group
<1>5. w.bgs[i] \in Battleground /\ w.bgs[i].invited \in [Teams -> Int]
      /\ w.bgs \in [Instances -> Battleground]
  BY <1>1, WorldFields, BattlegroundFields
<1>6. \A t \in Teams :
        /\ Cardinality(Rest(s, j, t)) \in Nat /\ Cardinality(Rest(s, j + 1, t)) \in Nat
        /\ Cardinality(Rest(s, j, t)) =
             Cardinality(Rest(s, j + 1, t)) + (IF g.team = t THEN Size(g) ELSE 0)
  BY RestShrinks
<1>7. w.bgs[i].invited[g.team] + Size(g) <= MaxPlayersPerTeam
  <2> DEFINE a == w.bgs[i].invited[g.team]
             r == Cardinality(Rest(s, j, g.team))
             q == Cardinality(Rest(s, j + 1, g.team))
             z == Size(g)
             m == MaxPlayersPerTeam
  <2>a. a \in Int /\ a + r <= m
    BY <1>1, <1>4, <1>5
  <2>b. r \in Nat /\ q \in Nat /\ z \in Nat /\ r = q + z
    BY <1>4, <1>6
  <2>1. /\ a \in Int /\ r \in Nat /\ q \in Nat /\ z \in Nat /\ m \in Int
        /\ r = q + z /\ a + r <= m
    BY <2>a, <2>b, TeamSizes
  <2> HIDE DEF a, r, q, z, m, g
  <2>2. a + z <= m
    BY <2>1
  <2>3. QED
    BY <2>2 DEF a, z, m
<1>8. Inviting(w, g, i, v) /\ Inv(v)
  <2>1. PICK l \in Lists : \E k : IsAt(w, l, k, g)
    BY <1>1, <1>4, GroupIsAt
  <2>2. PICK k : IsAt(w, l, k, g)
    BY <2>1
  <2>3. g.invited = 0
    BY DEF NotYetInvited
  <2> HIDE DEF g
  <2>4. QED
    BY <1>1, <1>7, <2>2, <2>3, InviteKeeps
<1> HIDE DEF v
<1>9. /\ v \in Worlds /\ v.bgs = [w.bgs EXCEPT ![i] = MoreInvited(w, i, g)]
      /\ v.bgs[i] = MoreInvited(w, i, g)
  <2>1. v \in Worlds /\ v.bgs = [w.bgs EXCEPT ![i] = MoreInvited(w, i, g)]
    BY <1>8 DEF Inviting
  <2>2. QED
    BY <1>5, <2>1
<1>10. /\ v.bgs[i].status = w.bgs[i].status
       /\ v.bgs[i].invited = [w.bgs[i].invited EXCEPT ![g.team] = @ + Size(g)]
  <2> HIDE DEF g
  <2> DEFINE b == MoreInvited(w, i, g)
  <2>1. b.status = w.bgs[i].status /\ b.invited = [w.bgs[i].invited EXCEPT ![g.team] = @ + Size(g)]
    BY <1>1, <1>2, MoreInvitedEffect
  <2>2. v.bgs[i] = b
    BY <1>9
  <2> HIDE DEF b
  <2>3. QED
    BY <2>1, <2>2
<1>11. Live(v, i)
  BY <1>1, <1>10 DEF Live
<1>12. ASSUME NEW k \in (j + 1) + 1..Len(s) PROVE s[k] \in GroupsOf(v)
  <2>1. k \in j + 1..Len(s) /\ k # j + 1 /\ k \in DOMAIN s
    BY <1>2, <1>12
  <2>2. s[k].players \cap g.players = {} /\ s[k] \in GroupsOf(w)
    BY <1>1, <2>1 DEF Apart
  <2> HIDE DEF g
  <2>3. QED
    BY <1>1, <1>4, <1>8, <1>9, <2>2, OthersStayQueued
<1>13. ASSUME NEW t \in Teams
       PROVE  v.bgs[i].invited[t] + Cardinality(Rest(s, j + 1, t)) <= MaxPlayersPerTeam
  <2> DEFINE a == w.bgs[i].invited[t]
             c == v.bgs[i].invited[t]
             r == Cardinality(Rest(s, j, t))
             q == Cardinality(Rest(s, j + 1, t))
             n == IF g.team = t THEN Size(g) ELSE 0
  <2>1. a \in Int /\ r \in Nat /\ q \in Nat /\ r = q + n /\ a + r <= MaxPlayersPerTeam
    BY <1>1, <1>5, <1>6
  <2>2. c = a + n /\ n \in Nat
    <3>1. \A f \in [Teams -> Int] : [f EXCEPT ![g.team] = @ + Size(g)][t] = f[t] + n
      BY <1>4
    <3>2. QED
      BY <1>4, <1>5, <1>10, <3>1
  <2> HIDE DEF a, c, r, q, n
  <2>3. c + q <= MaxPlayersPerTeam
    BY <2>1, <2>2, TeamSizes
  <2>4. QED
    BY <2>3 DEF c, q
<1>14. TimersAhead(v)
  <2>1. AcceptWait > 0
    BY BattlegroundConstants
  <2>2. \A e \in v.timers : e \in w.timers \/ e.left = AcceptWait
    BY <1>8 DEF Inviting
  <2>3. QED
    BY <1>1, <2>1, <2>2 DEF TimersAhead
<1>15. InvitesOnly(w, v)
  <2>1. g.invited = 0
    BY DEF NotYetInvited
  <2> HIDE DEF g
  <2>2. QED
    BY <1>1, <1>4, <1>8, <2>1, InvitedLast
<1>16. QED
  BY <1>8, <1>11, <1>12, <1>13, <1>14, <1>15 DEF InvitesLeft, v

LEMMA InvitesKeep ==
    ASSUME NEW w, NEW s \in Seq(Group), Apart(s), NEW i \in Instances, InvitesLeft(w, s, i, 0),
           NotYetInvited(s),
           NEW h, h[0] = w, \A k \in 1..Len(s) : h[k] = Invite(h[k - 1], s[k], i)
    PROVE  \A k \in 0..Len(s) : InvitesLeft(h[k], s, i, k) /\ InvitesOnly(w, h[k])
<1> DEFINE Good(k) == InvitesLeft(h[k], s, i, k) /\ InvitesOnly(w, h[k])
           N == {k \in Nat : k <= Len(s) => Good(k)}
<1>1. Len(s) \in Nat /\ DOMAIN s = 1..Len(s)
  BY LenProperties
<1>2. 0 \in N
  BY DEF InvitesOnly, SlotsLast
<1>3. ASSUME NEW k \in Nat, k \in N PROVE k + 1 \in N
  <2>1. SUFFICES ASSUME k + 1 <= Len(s) PROVE Good(k + 1)
    OBVIOUS
  <2>2. k <= Len(s) /\ k + 1 \in 1..Len(s) /\ k + 1 - 1 = k
    BY <1>1, <2>1
  <2>3. h[k + 1] = Invite(h[k + 1 - 1], s[k + 1], i)
    BY <2>2
  <2>4. h[k + 1] = Invite(h[k], s[k + 1], i)
    BY <2>2, <2>3
  <2>5. InvitesLeft(h[k], s, i, k) /\ InvitesOnly(w, h[k])
    BY <1>3, <2>2
  <2>6. k + 1 \in DOMAIN s
    BY <1>1, <2>2
  <2> DEFINE v == Invite(h[k], s[k + 1], i)
  <2>7. InvitesLeft(v, s, i, k + 1) /\ InvitesOnly(h[k], v)
    BY <2>5, <2>6, InviteNext
  <2> HIDE DEF v
  <2>8. InvitesOnly(w, v)
    BY <2>5, <2>7, SlotsLastOn DEF InvitesOnly
  <2>9. QED
    BY <2>4, <2>7, <2>8 DEF v
<1> HIDE DEF N
<1>4. Nat \subseteq N
  BY <1>2, <1>3, NatSetInduction
<1>5. \A k \in 0..Len(s) : k \in N /\ k <= Len(s)
  BY <1>1, <1>4
<1>6. QED
  BY <1>5 DEF N

-----------------------------------------------------------------------------
(* The pools that the invitations are made from.                           *)
Candidates(w) == [t \in Teams |-> {g \in GroupsOf(w) : g.invited = 0 /\ g.team = t}]

LEMMA QueuedSource ==
    ASSUME NEW w, Inv(w), NEW kind \in {"premade", "normal"}, NEW t \in Teams
    PROVE  Source(Queued(w, kind)[t], Candidates(w)[t])
<1> DEFINE l == <<kind, t>>
           L == w.queue[l]
           G == Candidates(w)[t]
<1>1. l \in Lists /\ l[2] = t /\ Queued(w, kind)[t] = L
  BY DEF Lists, Queued
<1>2. w \in Worlds /\ OnePlace(w.queue) /\ QueuedOK(w)
  BY DEF Inv, Waiting
<1>3. L \in Seq(Group)
  BY <1>1, <1>2, WorldFields
<1> HIDE DEF l
<1>4. G = {g \in GroupsOf(w) : g.invited = 0 /\ g.team = t}
  BY DEF Candidates
<1> HIDE DEF G
<1>5. Apart(L)
  BY <1>1, <1>2 DEF OnePlace, Apart
<1>6. G \subseteq Group
  BY <1>2, <1>4, GroupIsGroup
<1>7. ASSUME NEW k \in DOMAIN L, L[k].invited = 0 PROVE L[k] \in G
  <2>1. L[k] \in GroupsOf(w) /\ L[k].team = t
    BY <1>1, <1>2, AtIsGroup DEF QueuedOK
  <2>2. QED
    BY <1>4, <1>7, <2>1
<1> HIDE DEF L
<1>8. QED
  BY <1>1, <1>3, <1>5, <1>6, <1>7 DEF Source, G

(* The members of a queued group are of the team of its list.              *)
LEMMA GroupTeam ==
    ASSUME NEW w, Inv(w), NEW g \in GroupsOf(w), NEW p \in g.players
    PROVE  TeamOf(p) = g.team /\ p \in Players
<1>1. w \in Worlds /\ QueuedOK(w)
  BY DEF Inv, Waiting
<1>2. PICK l \in Lists : \E k : IsAt(w, l, k, g)
  BY <1>1, GroupIsAt
<1>3. PICK k : IsAt(w, l, k, g)
  BY <1>2
<1>4. k \in DOMAIN w.queue[l] /\ g = w.queue[l][k]
  BY <1>3 DEF IsAt
<1>5. g \in Group
  BY <1>1, GroupIsGroup
<1>6. QED
  BY <1>1, <1>4, <1>5 DEF QueuedOK, Group

BothPools(pool) == pool["alliance"].groups \o pool["horde"].groups

LEMMA ConcatLemma ==
    ASSUME NEW S, NEW a \in Seq(S), NEW b \in Seq(S)
    PROVE  /\ a \o b \in Seq(S) /\ Len(a \o b) = Len(a) + Len(b)
           /\ \A k \in DOMAIN a : k \in DOMAIN (a \o b) /\ (a \o b)[k] = a[k]
           /\ \A k \in DOMAIN b : /\ Len(a) + k \in DOMAIN (a \o b)
                                  /\ (a \o b)[Len(a) + k] = b[k]
           /\ \A k \in DOMAIN (a \o b) :
                k \in DOMAIN a \/ \E n \in DOMAIN b : k = Len(a) + n
<1>1. /\ Len(a) \in Nat /\ DOMAIN a = 1..Len(a) /\ Len(b) \in Nat /\ DOMAIN b = 1..Len(b)
  BY LenProperties
<1> DEFINE r == a \o b
<1>2. /\ r \in Seq(S) /\ Len(r) = Len(a) + Len(b)
      /\ \A k \in 1..Len(a) + Len(b) : r[k] = IF k <= Len(a) THEN a[k] ELSE b[k - Len(a)]
  BY ConcatProperties
<1>3. DOMAIN r = 1..Len(a) + Len(b)
  BY <1>2, LenProperties
<1> HIDE DEF r
<1>4. ASSUME NEW k \in DOMAIN a PROVE k \in DOMAIN r /\ r[k] = a[k]
  <2>1. k \in 1..Len(a) + Len(b) /\ k <= Len(a)
    BY <1>1
  <2>2. QED
    BY <1>2, <1>3, <2>1
<1>5. ASSUME NEW k \in DOMAIN b PROVE Len(a) + k \in DOMAIN r /\ r[Len(a) + k] = b[k]
  <2>1. /\ Len(a) + k \in 1..Len(a) + Len(b) /\ ~(Len(a) + k <= Len(a))
        /\ (Len(a) + k) - Len(a) = k
    BY <1>1
  <2>2. r[Len(a) + k] = b[(Len(a) + k) - Len(a)]
    BY <1>2, <2>1
  <2>3. QED
    BY <1>3, <2>1, <2>2
<1>6. ASSUME NEW k \in DOMAIN r PROVE k \in DOMAIN a \/ \E n \in DOMAIN b : k = Len(a) + n
  <2>1. CASE k <= Len(a)
    BY <1>1, <1>3, <2>1
  <2>2. CASE ~(k <= Len(a))
    <3>1. k - Len(a) \in 1..Len(b) /\ k = Len(a) + (k - Len(a))
      BY <1>1, <1>3, <2>2
    <3>2. QED
      BY <1>1, <3>1
  <2>3. QED
    BY <2>1, <2>2
<1>7. QED
  BY <1>2, <1>4, <1>5, <1>6 DEF r

LEMMA SelectedGroup ==
    ASSUME NEW w, Inv(w), NEW t \in Teams, NEW pool, Selected(pool, Candidates(w)[t]),
           NEW k \in DOMAIN pool.groups
    PROVE  /\ pool.groups[k] \in GroupsOf(w) /\ pool.groups[k].team = t
           /\ pool.groups[k].invited = 0
           /\ \A p \in pool.groups[k].players : TeamOf(p) = t
<1>1. pool.groups[k] \in Candidates(w)[t]
  BY DEF Selected
<1>2. pool.groups[k] \in GroupsOf(w) /\ pool.groups[k].team = t /\ pool.groups[k].invited = 0
  BY <1>1 DEF Candidates
<1>3. QED
  BY <1>2, GroupTeam

(* The groups of both pools are different groups of the queue.             *)
LEMMA PoolsTogether ==
    ASSUME NEW w, Inv(w), NEW pool, \A t \in Teams : Selected(pool[t], Candidates(w)[t])
    PROVE  LET s == BothPools(pool)
           IN  /\ s \in Seq(Group) /\ Apart(s) /\ NotYetInvited(s)
               /\ \A k \in DOMAIN s : s[k] \in GroupsOf(w)
               /\ \A t \in Teams : Rest(s, 0, t) \subseteq PlayersIn(pool[t].groups)
<1> DEFINE a == pool["alliance"].groups
           b == pool["horde"].groups
           s == a \o b
<1>1. "alliance" \in Teams /\ "horde" \in Teams
      /\ \A t \in Teams : t = "alliance" \/ t = "horde"
  BY DEF Teams
<1>2. a \in Seq(Group) /\ b \in Seq(Group) /\ Apart(a) /\ Apart(b)
  BY <1>1, PoolFields DEF Selected
<1>3. \A k \in DOMAIN a : /\ a[k] \in GroupsOf(w) /\ a[k].team = "alliance" /\ a[k].invited = 0
                          /\ \A p \in a[k].players : TeamOf(p) = "alliance"
  BY <1>1, SelectedGroup
<1>4. \A k \in DOMAIN b : /\ b[k] \in GroupsOf(w) /\ b[k].team = "horde" /\ b[k].invited = 0
                          /\ \A p \in b[k].players : TeamOf(p) = "horde"
  BY <1>1, SelectedGroup
<1>5. \A t \in Teams : pool[t].groups = IF t = "alliance" THEN a ELSE b
  BY <1>1
<1>6. BothPools(pool) = s
  BY DEF BothPools
<1> HIDE DEF a, b
<1>7. /\ s \in Seq(Group) /\ Len(s) = Len(a) + Len(b)
      /\ \A k \in DOMAIN a : k \in DOMAIN s /\ s[k] = a[k]
      /\ \A k \in DOMAIN b : Len(a) + k \in DOMAIN s /\ s[Len(a) + k] = b[k]
      /\ \A k \in DOMAIN s : k \in DOMAIN a \/ \E n \in DOMAIN b : k = Len(a) + n
  BY <1>2, ConcatLemma
<1> HIDE DEF s
<1>8. Len(s) \in Nat /\ DOMAIN s = 1..Len(s) /\ 0 + 1 = 1
  BY <1>7, LenProperties
<1>9. \A k \in DOMAIN s : s[k] \in GroupsOf(w) /\ s[k].invited = 0
  BY <1>3, <1>4, <1>7
<1>10. ASSUME NEW j \in DOMAIN s, NEW k \in DOMAIN s, NEW p \in s[j].players, p \in s[k].players
       PROVE  j = k
  <2>1. CASE j \in DOMAIN a /\ k \in DOMAIN a
    BY <1>2, <1>7, <1>10, <2>1 DEF Apart
  <2>2. CASE j \in DOMAIN a /\ k \notin DOMAIN a
    <3>1. PICK n \in DOMAIN b : k = Len(a) + n
      BY <1>7, <2>2
    <3>2. s[j] = a[j] /\ s[k] = b[n]
      BY <1>7, <2>2, <3>1
    <3>3. TeamOf(p) = "alliance" /\ TeamOf(p) = "horde"
      BY <1>3, <1>4, <1>10, <2>2, <3>2
    <3>4. QED
      BY <3>3
  <2>3. CASE j \notin DOMAIN a /\ k \in DOMAIN a
    <3>1. PICK n \in DOMAIN b : j = Len(a) + n
      BY <1>7, <2>3
    <3>2. s[k] = a[k] /\ s[j] = b[n]
      BY <1>7, <2>3, <3>1
    <3>3. TeamOf(p) = "alliance" /\ TeamOf(p) = "horde"
      BY <1>3, <1>4, <1>10, <2>3, <3>2
    <3>4. QED
      BY <3>3
  <2>4. CASE j \notin DOMAIN a /\ k \notin DOMAIN a
    <3>1. PICK m \in DOMAIN b : j = Len(a) + m
      BY <1>7, <2>4
    <3>2. PICK n \in DOMAIN b : k = Len(a) + n
      BY <1>7, <2>4
    <3>3. s[j] = b[m] /\ s[k] = b[n]
      BY <1>7, <3>1, <3>2
    <3>4. m = n
      BY <1>2, <1>10, <3>3 DEF Apart
    <3>5. QED
      BY <3>1, <3>2, <3>4
  <2>5. QED
    BY <2>1, <2>2, <2>3, <2>4
<1>11. ASSUME NEW t \in Teams, NEW p \in Rest(s, 0, t) PROVE p \in PlayersIn(pool[t].groups)
  <2>1. PICK k \in 0 + 1..Len(s) : s[k].team = t /\ p \in s[k].players
    BY <1>11 DEF Rest
  <2>2. k \in DOMAIN s
    BY <1>8
  <2>3. CASE k \in DOMAIN a
    <3>1. t = "alliance" /\ p \in a[k].players
      BY <1>3, <1>7, <2>1, <2>3
    <3>2. QED
      BY <1>5, <2>3, <3>1 DEF PlayersIn
  <2>4. CASE k \notin DOMAIN a
    <3>1. PICK n \in DOMAIN b : k = Len(a) + n
      BY <1>7, <2>2, <2>4
    <3>2. s[k] = b[n]
      BY <1>7, <3>1
    <3>3. t = "horde" /\ p \in b[n].players
      BY <1>4, <2>1, <3>2
    <3>4. QED
      BY <1>5, <3>3 DEF PlayersIn
  <2>5. QED
    BY <2>3, <2>4
<1>12. Apart(s)
  BY <1>10 DEF Apart
<1>13. \A t \in Teams : Rest(s, 0, t) \subseteq PlayersIn(pool[t].groups)
  BY <1>11
<1>14. NotYetInvited(s)
  BY <1>9 DEF NotYetInvited
<1>15. QED
  BY <1>6, <1>7, <1>9, <1>12, <1>13, <1>14

(* The pools fit into a battleground.                                      *)
PoolsFit(w, pool, i) ==
  \A t \in Teams : /\ Selected(pool[t], Candidates(w)[t])
                   /\ w.bgs[i].invited[t] + pool[t].count <= MaxPlayersPerTeam

LEMMA AllInvitesLeft ==
    ASSUME NEW w, Inv(w), TimersAhead(w), NEW i \in Instances, Live(w, i),
           NEW pool, PoolsFit(w, pool, i)
    PROVE  InvitesLeft(w, BothPools(pool), i, 0)
<1> DEFINE s == BothPools(pool)
<1>1. \A t \in Teams : Selected(pool[t], Candidates(w)[t])
  BY DEF PoolsFit
<1>2. /\ s \in Seq(Group) /\ \A k \in DOMAIN s : s[k] \in GroupsOf(w)
      /\ \A t \in Teams : Rest(s, 0, t) \subseteq PlayersIn(pool[t].groups)
  BY <1>1, PoolsTogether
<1> HIDE DEF s
<1>3. \A k \in 0 + 1..Len(s) : s[k] \in GroupsOf(w)
  <2>1. DOMAIN s = 0 + 1..Len(s)
    BY <1>2, LenProperties
  <2>2. QED
    BY <1>2, <2>1
<1>4. ASSUME NEW t \in Teams
      PROVE  w.bgs[i].invited[t] + Cardinality(Rest(s, 0, t)) <= MaxPlayersPerTeam
  <2> DEFINE a == w.bgs[i].invited[t]
             c == pool[t].count
             r == Cardinality(Rest(s, 0, t))
  <2>1. a \in Int
    BY WorldFields, BattlegroundFields DEF Inv
  <2>2. c \in Nat /\ a + c <= MaxPlayersPerTeam /\ c = Cardinality(PlayersIn(pool[t].groups))
        /\ pool[t].groups \in Seq(Group)
    BY PoolFields DEF PoolsFit, Selected
  <2>3. IsFiniteSet(PlayersIn(pool[t].groups))
    BY <2>2, PlayersInList
  <2>4. r \in Nat /\ r <= Cardinality(PlayersIn(pool[t].groups))
    BY <1>2, <2>3, FS_Subset, FS_CardinalityType
  <2>5. r <= c
    BY <2>2, <2>4
  <2> HIDE DEF a, c, r
  <2>6. a + r <= MaxPlayersPerTeam
    BY <2>1, <2>2, <2>4, <2>5, TeamSizes
  <2>7. QED
    BY <2>6 DEF a, r
<1>5. QED
  BY <1>3, <1>4 DEF InvitesLeft, s

LEMMA InvitePoolsKeep ==
    ASSUME NEW w, Inv(w), TimersAhead(w), NEW i \in Instances, Live(w, i),
           NEW pool, PoolsFit(w, pool, i)
    PROVE  /\ Inv(InvitePools(w, pool, i)) /\ TimersAhead(InvitePools(w, pool, i))
           /\ SlotsLast(w, InvitePools(w, pool, i))
<1> DEFINE s == BothPools(pool)
<1>1. s \in Seq(Group) /\ Apart(s) /\ NotYetInvited(s)
  BY PoolsTogether DEF PoolsFit
<1>2. InvitesLeft(w, s, i, 0)
  BY AllInvitesLeft
<1>3. InvitePools(w, pool, i) = AllInvited(w, s, i)
  BY DEF InvitePools, AllInvited, BothPools, FoldLeft, MapThenFoldSet
<1> HIDE DEF s
<1>4. PICK h : InviteTrace(w, s, i, h)
  BY <1>1, InviteTraceExists
<1>5. \A k \in 0..Len(s) : InvitesLeft(h[k], s, i, k) /\ InvitesOnly(w, h[k])
  BY <1>1, <1>2, <1>4, InvitesKeep DEF InviteTrace
<1>6. Len(s) \in 0..Len(s)
  BY <1>1, LenProperties
<1>7. InvitesLeft(h[Len(s)], s, i, Len(s)) /\ InvitesOnly(w, h[Len(s)])
  BY <1>5, <1>6
<1>8. Inv(h[Len(s)]) /\ TimersAhead(h[Len(s)]) /\ SlotsLast(w, h[Len(s)])
  BY <1>7 DEF InvitesLeft, InvitesOnly
<1>9. QED
  BY <1>3, <1>4, <1>8 DEF InviteTrace

-----------------------------------------------------------------------------
(* Invitations to the battlegrounds that run.                              *)

LEMMA InvitedBounds ==
    ASSUME NEW w, Inv(w), NEW i \in Instances, NEW t \in Teams
    PROVE  w.bgs[i].invited[t] \in 0..MaxPlayersPerTeam
<1> DEFINE a == w.bgs[i].invited[t]
           c == Cardinality(HoldersOf(w, i, t))
           d == w.bgs[i].lost[t]
<1>1. c \in Nat
  BY HoldersAreFinite DEF Inv
<1>2. a = c + d /\ d \in Nat /\ a <= MaxPlayersPerTeam
  <2>1. w.bgs[i] \in Battleground
    BY WorldFields DEF Inv
  <2>2. d \in Nat
    BY <2>1 DEF Battleground
  <2>3. QED
    BY <2>2 DEF Inv, PlacesOK
<1> HIDE DEF a, c, d
<1>3. a \in 0..MaxPlayersPerTeam
  BY <1>1, <1>2, TeamSizes
<1>4. QED
  BY <1>3 DEF a

(* The places that GetFreeSlotsForTeam offers are free.                    *)
LEMMA FreeSlotsAreFree ==
    ASSUME NEW b \in Battleground, NEW t \in Teams, b.invited[t] \in 0..MaxPlayersPerTeam, NEW type
    PROVE  LET n == GetFreeSlotsForTeam(b, t, type)
           IN  n \in Nat /\ b.invited[t] + n <= MaxPlayersPerTeam
<1> DEFINE o == Other(t)
           in == b.invited[t]
           room == Max({MaxPlayersPerTeam - in, 0})
           x == IF b.invited[o] = b.invited[t] THEN 1 ELSE Max({b.invited[o] - b.invited[t], 0})
           y == IF b.count[o] = b.count[t] THEN 1 ELSE Max({b.count[o] - b.count[t], 0})
           entered == IF b.count[o] < b.count[t] /\ in <= MinPlayersPerTeam
                      THEN MinPlayersPerTeam - in + 1 ELSE y
           n == IF b.status = "wait_join" /\ type = NoBalance THEN room ELSE Min({x, room, entered})
<1>1. GetFreeSlotsForTeam(b, t, type) = n
  BY DEF GetFreeSlotsForTeam
<1>2. b.invited \in [Teams -> Int] /\ b.count \in [Teams -> Int] /\ o \in Teams
  BY BattlegroundFields, OtherTeam
<1>3. MinPlayersPerTeam \in Nat /\ MaxPlayersPerTeam \in Nat /\ in \in Int /\ 0 <= in
      /\ in <= MaxPlayersPerTeam
  BY TeamSizes
<1>4. room \in Nat /\ in + room <= MaxPlayersPerTeam
  <2> DEFINE d == MaxPlayersPerTeam - in
  <2>1. d \in Int /\ 0 \in Int
    BY <1>3
  <2> HIDE DEF d
  <2>2. Max({d, 0}) \in {d, 0} /\ Max({d, 0}) >= d /\ Max({d, 0}) >= 0
    BY <2>1, MaxOfPair
  <2>3. d >= 0 /\ in + d <= MaxPlayersPerTeam
    BY <1>3 DEF d
  <2>4. Max({d, 0}) = d
    BY <2>1, <2>2, <2>3
  <2>5. QED
    BY <2>1, <2>3, <2>4 DEF d
<1>5. x \in Nat
  <2>1. \A u, z \in Int : Max({u - z, 0}) \in Nat
    <3>1. ASSUME NEW u \in Int, NEW z \in Int PROVE Max({u - z, 0}) \in Nat
      <4> DEFINE d == u - z
      <4>1. d \in Int /\ 0 \in Int
        OBVIOUS
      <4> HIDE DEF d
      <4>2. Max({d, 0}) \in {d, 0} /\ Max({d, 0}) >= 0
        BY <4>1, MaxOfPair
      <4>3. Max({d, 0}) \in Nat
        BY <4>1, <4>2
      <4>4. QED
        BY <4>3 DEF d
    <3>2. QED
      BY <3>1
  <2>2. QED
    BY <1>2, <2>1
<1>6. y \in Nat
  <2>1. \A u, z \in Int : Max({u - z, 0}) \in Nat
    <3>1. ASSUME NEW u \in Int, NEW z \in Int PROVE Max({u - z, 0}) \in Nat
      <4> DEFINE d == u - z
      <4>1. d \in Int /\ 0 \in Int
        OBVIOUS
      <4> HIDE DEF d
      <4>2. Max({d, 0}) \in {d, 0} /\ Max({d, 0}) >= 0
        BY <4>1, MaxOfPair
      <4>3. Max({d, 0}) \in Nat
        BY <4>1, <4>2
      <4>4. QED
        BY <4>3 DEF d
    <3>2. QED
      BY <3>1
  <2>2. QED
    BY <1>2, <2>1
<1> HIDE DEF x, y, room, in
<1>7. entered \in Nat
  BY <1>3, <1>6
<1> HIDE DEF entered
<1>8. n \in Nat /\ n <= room
  <2>1. CASE b.status = "wait_join" /\ type = NoBalance
    BY <1>4, <2>1
  <2>2. CASE ~(b.status = "wait_join" /\ type = NoBalance)
    <3>1. Min({x, room, entered}) \in {x, room, entered} /\ Min({x, room, entered}) <= room
      BY <1>4, <1>5, <1>7, MinOfThree
    <3>2. QED
      BY <1>4, <1>5, <1>7, <2>2, <3>1
  <2>3. QED
    BY <2>1, <2>2
<1> HIDE DEF n
<1>9. in + n <= MaxPlayersPerTeam
  BY <1>3, <1>4, <1>8
<1>10. QED
  BY <1>1, <1>8, <1>9 DEF in

LEMMA FillOneKeeps ==
    ASSUME NEW w, Inv(w), TimersAhead(w), NEW i \in Instances, NEW type
    PROVE  /\ Inv(FillOne(w, i, type)) /\ TimersAhead(FillOne(w, i, type))
           /\ SlotsLast(w, FillOne(w, i, type))
<1> DEFINE free == [t \in Teams |-> GetFreeSlotsForTeam(w.bgs[i], t, type)]
           list == Queued(w, "normal")
           G == Candidates(w)
           pool == FillPlayersToBG(free, list, type)
           u == InvitePools(w, pool, i)
           v == LeaveFullBehind(u, i)
<1>1. CASE w.bgs[i].status \notin {"wait_join", "in_progress"}
  BY <1>1 DEF FillOne, SlotsLast
<1>2. CASE w.bgs[i].status \in {"wait_join", "in_progress"}
  <2>1. FillOne(w, i, type) = v
    BY <1>2 DEF FillOne
  <2>2. w.bgs[i] \in Battleground /\ w.bgs[i].invited \in [Teams -> Int]
    BY WorldFields, BattlegroundFields DEF Inv
  <2>3. \A t \in Teams : free[t] \in Nat /\ w.bgs[i].invited[t] + free[t] <= MaxPlayersPerTeam
    BY <2>2, InvitedBounds, FreeSlotsAreFree
  <2>4. free \in [Teams -> Nat]
    BY <2>3
  <2>5. \A t \in Teams : Source(list[t], G[t])
    BY QueuedSource
  <2> HIDE DEF free, list, G
  <2>6. \A t \in Teams : GoodPool(pool[t], list[t], G[t]) /\ pool[t].count <= free[t]
    BY <2>4, <2>5, FillKeeps
  <2> HIDE DEF pool
  <2>7. PoolsFit(w, pool, i)
    <3>1. ASSUME NEW t \in Teams PROVE w.bgs[i].invited[t] + pool[t].count <= MaxPlayersPerTeam
      <4> DEFINE a == w.bgs[i].invited[t]
                 c == pool[t].count
                 f == free[t]
      <4>1. a \in Int /\ c \in Nat /\ f \in Nat /\ c <= f /\ a + f <= MaxPlayersPerTeam
        BY <2>2, <2>3, <2>6, PoolFields DEF GoodPool, Selected
      <4> HIDE DEF a, c, f
      <4>2. a + c <= MaxPlayersPerTeam
        BY <4>1, TeamSizes
      <4>3. QED
        BY <4>2 DEF a, c
    <3>2. QED
      BY <2>6, <3>1 DEF PoolsFit, GoodPool, G
  <2>8. Live(w, i)
    BY <1>2 DEF Live
  <2>9. Inv(u) /\ TimersAhead(u) /\ SlotsLast(w, u)
    BY <2>7, <2>8, InvitePoolsKeep
  <2> HIDE DEF u
  <2>10. Inv(v)
    BY <2>9, LeaveFullBehindKeeps
  <2>11. v.timers = u.timers /\ v.slot = u.slot
    BY <2>9, RemoveFromFreeSlotsEffect DEF LeaveFullBehind, Inv
  <2> HIDE DEF v
  <2>12. SlotsLast(u, v)
    BY <2>11, SameSlotsLast
  <2>13. SlotsLast(w, v)
    BY <2>9, <2>12, SlotsLastOn
  <2>14. QED
    BY <2>1, <2>9, <2>10, <2>11, <2>13 DEF TimersAhead
<1>3. QED
  BY <1>1, <1>2

Filled(w, s, type) == FoldLeft(LAMBDA v, i : FillOne(v, i, type), w, s)

(* The battlegrounds are gone through one after the other.                 *)
FillTrace(w, s, type, h) ==
  /\ h[0] = w /\ Filled(w, s, type) = h[Len(s)]
  /\ \A k \in 1..Len(s) : h[k] = FillOne(h[k - 1], s[k], type)

LEMMA FillTraceExists ==
    ASSUME NEW w, NEW E, NEW s \in Seq(E), NEW type
    PROVE  \E h : FillTrace(w, s, type, h)
<1> DEFINE D == 1..Len(s)
           Body(g, n) == [T \in Layer(D, n) |->
                            IF T = {} THEN w
                            ELSE FillOne(g[T \ {Max(T)}], s[Max(T)], type)]
           All(g) == [T \in SUBSET D |->
                        IF T = {} THEN w
                        ELSE FillOne(g[T \ {Max(T)}], s[Max(T)], type)]
           N == {n \in Nat : \E g : g = Body(g, n)}
           it == CHOOSE g : g = All(g)
           h == [k \in 0..Len(s) |-> it[1..k]]
<1>1. Len(s) \in Nat /\ DOMAIN s = D /\ IsFiniteSet(D) /\ D \in SUBSET Int
  BY LenProperties, FS_Interval
<1>2. /\ Layer(D, 0) = {{}}
      /\ \A n \in Nat : Layer(D, n) \subseteq Layer(D, n + 1)
      /\ \A n \in Nat : \A T \in Layer(D, n + 1) : \A x \in T : T \ {x} \in Layer(D, n)
      /\ Cardinality(D) \in Nat /\ Layer(D, Cardinality(D)) = SUBSET D
  BY <1>1, Layers
<1>3. ASSUME NEW n \in Nat, NEW T \in Layer(D, n), T # {} PROVE Max(T) \in T
  <2>1. T \in SUBSET D
    BY DEF Layer
  <2>2. QED
    BY <1>1, <1>3, <2>1, MaxOfSubset
<1> HIDE DEF D
<1>4. 0 \in N
  <2> DEFINE g == [T \in Layer(D, 0) |-> w]
  <2>1. g = Body(g, 0)
    BY <1>2
  <2>2. QED
    BY <2>1
<1>5. ASSUME NEW n \in Nat, n \in N PROVE n + 1 \in N
  <2>1. PICK g : g = Body(g, n)
    BY <1>5
  <2> DEFINE f == Body(g, n + 1)
  <2>2. ASSUME NEW T \in Layer(D, n) PROVE f[T] = g[T]
    <3>1. T \in Layer(D, n + 1)
      BY <1>2
    <3>2. f[T] = Body(g, n)[T]
      BY <3>1
    <3>3. QED
      BY <2>1, <3>2
  <2>3. ASSUME NEW T \in Layer(D, n + 1), T # {} PROVE T \ {Max(T)} \in Layer(D, n)
    <3>1. n + 1 \in Nat
      OBVIOUS
    <3>2. Max(T) \in T
      BY <1>3, <2>3, <3>1
    <3>3. QED
      BY <1>2, <3>2
  <2> HIDE DEF f
  <2>4. Body(f, n + 1) = Body(g, n + 1)
    BY <2>2, <2>3
  <2>5. f = Body(f, n + 1)
    BY <2>4 DEF f
  <2> HIDE DEF Body
  <2>6. QED
    BY <2>5 DEF N
<1> HIDE DEF N
<1>6. Cardinality(D) \in N
  BY <1>2, <1>4, <1>5, NatSetInduction
<1>7. \E g : g = All(g)
  <2>1. PICK g : g = Body(g, Cardinality(D))
    BY <1>6 DEF N
  <2>2. Body(g, Cardinality(D)) = All(g)
    BY <1>2
  <2> HIDE DEF Body, All
  <2>3. QED
    BY <2>1, <2>2
<1>8. it = All(it)
  BY <1>7, Zenon
<1>9. Filled(w, s, type) = it[DOMAIN s]
  BY <1>1 DEF Filled, FoldLeft, MapThenFoldSet
<1> HIDE DEF it
<1>10. it[{}] = w
  BY <1>8
<1>11. h[0] = w /\ Filled(w, s, type) = h[Len(s)]
  <2>1. 0 \in 0..Len(s) /\ Len(s) \in 0..Len(s) /\ 1..0 = {}
    BY <1>1
  <2>2. QED
    BY <1>1, <1>9, <1>10, <2>1 DEF D
<1>12. ASSUME NEW k \in 1..Len(s) PROVE h[k] = FillOne(h[k - 1], s[k], type)
  <2>1. k \in 0..Len(s) /\ k - 1 \in 0..Len(s)
    BY <1>1
  <2>2. /\ 1..k # {} /\ 1..k \in SUBSET D /\ Max(1..k) = k
        /\ (1..k) \ {k} = 1..(k - 1)
    BY <1>1, MaxOfInterval DEF D
  <2>3. it[1..k] = All(it)[1..k]
    BY <1>8
  <2>4. it[1..k] = FillOne(it[1..(k - 1)], s[k], type)
    BY <2>2, <2>3
  <2>5. QED
    BY <2>1, <2>4
<1> HIDE DEF h
<1>13. FillTrace(w, s, type, h)
  BY <1>11, <1>12 DEF FillTrace
<1>14. QED
  BY <1>13


LEMMA FillRunningKeeps ==
    ASSUME NEW w, Inv(w), TimersAhead(w), NEW type
    PROVE  /\ Inv(FillRunning(w, type)) /\ TimersAhead(FillRunning(w, type))
           /\ SlotsLast(w, FillRunning(w, type))
<1> DEFINE s == w.freeSlots
<1>1. s \in Seq(Instances) /\ Len(s) \in Nat /\ DOMAIN s = 1..Len(s)
      /\ \A k \in 1..Len(s) : s[k] \in Instances
  <2>1. s \in Seq(Instances)
    BY WorldFields DEF Inv
  <2> HIDE DEF s
  <2>2. QED
    BY <2>1, LenProperties
<1>2. FillRunning(w, type) = Filled(w, s, type)
  BY DEF FillRunning, Filled, FoldLeft, MapThenFoldSet
<1> HIDE DEF s
<1>3. PICK h : FillTrace(w, s, type, h)
  BY <1>1, FillTraceExists
<1> DEFINE Good(v) == Inv(v) /\ TimersAhead(v) /\ SlotsLast(w, v)
           N == {k \in Nat : k <= Len(s) => Good(h[k])}
<1>4. 0 \in N
  BY <1>3 DEF FillTrace, SlotsLast
<1>5. ASSUME NEW k \in Nat, k \in N PROVE k + 1 \in N
  <2>1. SUFFICES ASSUME k + 1 <= Len(s) PROVE Good(h[k + 1])
    OBVIOUS
  <2>2. k <= Len(s) /\ k + 1 \in 1..Len(s) /\ k + 1 - 1 = k
    BY <1>1, <2>1
  <2>3. h[k + 1] = FillOne(h[k + 1 - 1], s[k + 1], type)
    BY <1>3, <2>2 DEF FillTrace
  <2>4. h[k + 1] = FillOne(h[k], s[k + 1], type)
    BY <2>2, <2>3
  <2>5. Good(h[k]) /\ s[k + 1] \in Instances
    BY <1>1, <1>5, <2>2
  <2> DEFINE x == h[k]
             y == FillOne(x, s[k + 1], type)
  <2>6. Inv(y) /\ TimersAhead(y) /\ SlotsLast(x, y)
    BY <2>5, FillOneKeeps
  <2> HIDE DEF y
  <2>7. SlotsLast(w, y)
    BY <2>5, <2>6, SlotsLastOn
  <2>8. QED
    BY <2>4, <2>6, <2>7 DEF y
<1> HIDE DEF N
<1>6. Len(s) \in N
  BY <1>1, <1>4, <1>5, NatSetInduction
<1>7. Good(h[Len(s)])
  BY <1>1, <1>6 DEF N
<1>8. QED
  BY <1>2, <1>3, <1>7 DEF FillTrace

-----------------------------------------------------------------------------
(* A new battleground, and invitations to it.                              *)
Fresh == [NoBattleground EXCEPT !.status = "wait_join"]

LEMMA FreshFields ==
    /\ Fresh \in Battleground /\ Fresh.status = "wait_join" /\ Fresh.players = {}
    /\ Fresh.invited = Zero /\ Fresh.count = Zero /\ Fresh.offline = << >>
    /\ Fresh.lost = Zero /\ NoBattleground.lost = Zero
    /\ NoBattleground.players = {} /\ NoBattleground.invited = Zero
    /\ NoBattleground.count = Zero /\ NoBattleground.status = "none"
<1> DEFINE b == NoBattleground
<1>1. b \in Battleground
  BY NoBattlegroundType
<1>2. /\ b.players = {} /\ b.invited = Zero /\ b.count = Zero /\ b.status = "none"
      /\ b.offline = << >> /\ b.lost = Zero
  BY DEF NoBattleground
<1>3. Fresh = [b EXCEPT !.status = "wait_join"]
  BY DEF Fresh
<1> HIDE DEF b
<1>4. /\ Fresh \in Battleground /\ Fresh.status = "wait_join" /\ Fresh.players = b.players
      /\ Fresh.invited = b.invited /\ Fresh.count = b.count /\ Fresh.offline = b.offline
      /\ Fresh.lost = b.lost
  BY <1>1, <1>3 DEF Battleground, Statuses
<1>5. QED
  BY <1>2, <1>4 DEF b

Created(w, i) == PutBg(w, i, Fresh)

LEMMA CreateKeeps ==
    ASSUME NEW w, Inv(w), NEW i \in Instances, ~Live(w, i)
    PROVE  LET v == AddToFreeSlots(Created(w, i), i)
           IN  /\ Inv(v) /\ Live(v, i) /\ v.timers = w.timers /\ v.queue = w.queue
               /\ v.slot = w.slot
               /\ v.bgs[i].invited = Zero
               /\ i \notin ToSet(w.freeSlots)
<1> DEFINE u == Created(w, i)
           v == AddToFreeSlots(u, i)
<1>1. w \in Worlds /\ w.bgs[i].status = "none" /\ w.bgs[i] = NoBattleground
  BY DEF Live, Inv, DeadAreEmpty
<1>2. w.bgs \in [Instances -> Battleground]
  BY <1>1, WorldFields
<1>3. /\ u \in Worlds
      /\ u.where = w.where /\ u.bgId = w.bgId /\ u.slot = w.slot /\ u.queue = w.queue
      /\ u.freeSlots = w.freeSlots /\ u.timers = w.timers
      /\ u.bgs = [w.bgs EXCEPT ![i] = Fresh]
  BY <1>1, FreshFields, PutBgEffect DEF Created
<1> HIDE DEF u
<1>4. /\ v \in Worlds
      /\ v.where = u.where /\ v.bgId = u.bgId /\ v.slot = u.slot /\ v.queue = u.queue
      /\ v.bgs = u.bgs /\ v.timers = u.timers
      /\ ToSet(v.freeSlots) = ToSet(u.freeSlots) \cup {i}
      /\ IsInjective(u.freeSlots) => IsInjective(v.freeSlots)
  BY <1>3, AddToFreeSlotsEffect
<1> HIDE DEF v
<1>5. v.bgs = [w.bgs EXCEPT ![i] = Fresh] /\ v.bgs[i] = Fresh
      /\ \A j \in Instances \ {i} : v.bgs[j] = w.bgs[j]
  BY <1>2, <1>3, <1>4
<1>6. FreeSlotsOK(v)
  <2>1. FreeSlotsOK(w) /\ Fresh.status \in Running
    BY FreshFields DEF Inv, Running
  <2>2. QED
    BY <1>3, <1>4, <1>5, <2>1 DEF FreeSlotsOK
<1>7. OfflineExact(v, i)
  <2>1. v.bgs[i].offline = << >> /\ v.bgs[i].players = {}
    BY <1>5, FreshFields
  <2>2. IsInjective(<< >>) /\ ToSet(<< >>) = {}
    BY DEF IsInjective, ToSet
  <2>3. QED
    BY <2>1, <2>2 DEF OfflineExact
<1>8. /\ Fresh \in Battleground /\ Fresh.players = w.bgs[i].players
      /\ Fresh.invited = w.bgs[i].invited /\ Fresh.count = w.bgs[i].count
      /\ Fresh.lost = w.bgs[i].lost
      /\ Fresh.status # "none" /\ Fresh.invited = Zero
  BY <1>1, FreshFields
<1>9. /\ v.where = w.where /\ v.bgId = w.bgId /\ v.slot = w.slot
      /\ v.queue = w.queue /\ v.timers = w.timers
  BY <1>3, <1>4
<1>10. Inv(v)
  BY <1>4, <1>5, <1>6, <1>7, <1>8, <1>9, RenewedKeeps
<1>11. Live(v, i) /\ v.bgs[i].invited = Zero
  BY <1>5, <1>8 DEF Live
<1>12. i \notin ToSet(w.freeSlots)
  BY <1>1 DEF Inv, FreeSlotsOK, Running
<1>13. QED
  BY <1>9, <1>10, <1>11, <1>12 DEF v, u

(* Invitations do not touch the free-slot queue.                           *)
LEMMA InviteLater ==
    ASSUME NEW w \in Worlds, NEW g, NEW i, NEW f
    PROVE  Invite([w EXCEPT !.freeSlots = f], g, i) = [Invite(w, g, i) EXCEPT !.freeSlots = f]
<1> DEFINE u == [w EXCEPT !.freeSlots = f]
           told == {p \in g.players : Connected(w, p)}
           q == [l \in Lists |-> ReplaceAll(w.queue[l], g, Invited(g, i))]
           b == [w.bgs EXCEPT ![i].invited[g.team] = @ + Cardinality(told)]
           s == [p \in Players |-> IF p \in told THEN i ELSE w.slot[p]]
           e == w.timers \cup {[player |-> p, instance |-> i, left |-> AcceptWait] : p \in told}
<1>1. /\ u.where = w.where /\ u.queue = w.queue /\ u.bgs = w.bgs /\ u.slot = w.slot
      /\ u.timers = w.timers
  BY DEF Worlds
<1>2. {p \in g.players : Connected(u, p)} = told
  BY <1>1 DEF Connected
<1>3. Invite(w, g, i) = [w EXCEPT !.queue = q, !.bgs = b, !.slot = s, !.timers = e]
  BY DEF Invite, Worlds
<1>4. Invite(u, g, i) = [u EXCEPT !.queue = q, !.bgs = b, !.slot = s, !.timers = e]
  <2> HIDE DEF u
  <2>1. u \in [DOMAIN u -> {u[x] : x \in DOMAIN u}]
    BY DEF u, Worlds
  <2>2. QED
    BY <1>1, <1>2 DEF Invite
<1> HIDE DEF q, b, s, e
<1>5. QED
  BY <1>3, <1>4 DEF Worlds

LEMMA UnusedIsDead ==
    ASSUME NEW w, Unused(w) # {}
    PROVE  Min(Unused(w)) \in Instances /\ ~Live(w, Min(Unused(w)))
<1>1. Unused(w) \subseteq Instances /\ IsFiniteSet(Instances) /\ Instances \subseteq Int
  BY BattlegroundConstants, FS_Interval DEF Unused, Instances
<1>2. IsFiniteSet(Unused(w)) /\ Unused(w) \subseteq Int
  BY <1>1, FS_Subset
<1>3. Min(Unused(w)) \in Unused(w)
  BY <1>2, MinIsElement
<1>4. QED
  BY <1>3 DEF Unused

(* The new battleground looks for players only after the invitations,      *)
(* which comes to the same as before them.                                 *)
LEMMA StartWithKeeps ==
    ASSUME NEW w, Inv(w), TimersAhead(w), Unused(w) # {}, NEW pool,
           \A t \in Teams : /\ Selected(pool[t], Candidates(w)[t])
                            /\ pool[t].count <= MaxPlayersPerTeam
    PROVE  /\ Inv(StartWith(w, pool)) /\ TimersAhead(StartWith(w, pool))
           /\ SlotsLast(w, StartWith(w, pool))
<1> DEFINE i == Min(Unused(w))
           u == Created(w, i)
           v == AddToFreeSlots(u, i)
           s == BothPools(pool)
<1>1. i \in Instances /\ ~Live(w, i) /\ w \in Worlds
  BY UnusedIsDead DEF Inv
<1>2. StartWith(w, pool) = AddToFreeSlots(AllInvited(u, s, i), i)
  BY DEF StartWith, Created, PutBg, Fresh, InvitePools, AllInvited, BothPools, FoldLeft, MapThenFoldSet
<1> HIDE DEF i
<1>3. /\ Inv(v) /\ Live(v, i) /\ v.timers = w.timers /\ v.queue = w.queue
      /\ v.slot = w.slot
      /\ v.bgs[i].invited = Zero /\ i \notin ToSet(w.freeSlots)
  BY <1>1, CreateKeeps
<1>4. u \in Worlds /\ u.freeSlots = w.freeSlots
  BY <1>1, FreshFields, PutBgEffect DEF Created
<1>5. v = [u EXCEPT !.freeSlots = <<i>> \o w.freeSlots]
  BY <1>3, <1>4 DEF AddToFreeSlots
<1>6. TimersAhead(v)
  BY <1>3 DEF TimersAhead
<1>7. Candidates(v) = Candidates(w)
  BY <1>3 DEF Candidates, GroupsOf
<1> HIDE DEF u, v
<1>8. PoolsFit(v, pool, i)
  <2>1. ASSUME NEW t \in Teams
        PROVE  /\ Selected(pool[t], Candidates(v)[t])
               /\ v.bgs[i].invited[t] + pool[t].count <= MaxPlayersPerTeam
    <3>1. Selected(pool[t], Candidates(v)[t]) /\ pool[t].count \in Nat
      BY <1>7, PoolFields DEF Selected
    <3>2. v.bgs[i].invited[t] = 0
      BY <1>3 DEF Zero
    <3>3. 0 + pool[t].count = pool[t].count
      BY <3>1
    <3>4. QED
      BY <3>1, <3>2, <3>3
  <2>2. QED
    BY <2>1 DEF PoolsFit
<1>9. InvitesLeft(v, s, i, 0)
  BY <1>1, <1>3, <1>6, <1>8, AllInvitesLeft
<1>10. s \in Seq(Group) /\ Apart(s) /\ NotYetInvited(s)
  BY <1>3, <1>8, PoolsTogether DEF PoolsFit
<1> HIDE DEF s
<1>11. PICK h : InviteTrace(v, s, i, h)
  BY <1>10, InviteTraceExists
<1>12. PICK g : InviteTrace(u, s, i, g)
  BY <1>10, InviteTraceExists
<1>13. \A k \in 0..Len(s) : InvitesLeft(h[k], s, i, k) /\ InvitesOnly(v, h[k])
  BY <1>1, <1>9, <1>10, <1>11, InvitesKeep DEF InviteTrace
<1>14. Len(s) \in Nat
  BY <1>10, LenProperties
<1> DEFINE f == u.freeSlots
           Alike(k) == g[k] = [h[k] EXCEPT !.freeSlots = f]
           N == {k \in Nat : k <= Len(s) => Alike(k)}
<1>15. 0 \in N
  <2>1. u = [v EXCEPT !.freeSlots = f]
    BY <1>4, <1>5 DEF Worlds
  <2>2. g[0] = u /\ h[0] = v
    BY <1>11, <1>12 DEF InviteTrace
  <2>3. QED
    BY <2>1, <2>2
<1>16. ASSUME NEW k \in Nat, k \in N PROVE k + 1 \in N
  <2>1. SUFFICES ASSUME k + 1 <= Len(s) PROVE Alike(k + 1)
    OBVIOUS
  <2>2. k \in 0..Len(s) /\ k <= Len(s) /\ k + 1 \in 1..Len(s) /\ k + 1 - 1 = k
    BY <1>14, <2>1
  <2>3. g[k + 1] = Invite(g[k + 1 - 1], s[k + 1], i) /\ h[k + 1] = Invite(h[k + 1 - 1], s[k + 1], i)
    BY <1>11, <1>12, <2>2 DEF InviteTrace
  <2>4. g[k + 1] = Invite(g[k], s[k + 1], i) /\ h[k + 1] = Invite(h[k], s[k + 1], i)
    BY <2>2, <2>3
  <2>5. h[k] \in Worlds
    BY <1>13, <2>2 DEF InvitesLeft, Inv
  <2>6. g[k] = [h[k] EXCEPT !.freeSlots = f]
    BY <1>16, <2>2
  <2> DEFINE x == h[k]
             y == s[k + 1]
  <2>7. x \in Worlds
    BY <2>5
  <2> HIDE DEF f, x, y
  <2>8. Invite([x EXCEPT !.freeSlots = f], y, i) = [Invite(x, y, i) EXCEPT !.freeSlots = f]
    BY <2>7, InviteLater
  <2>9. QED
    BY <2>4, <2>6, <2>8 DEF x, y
<1> HIDE DEF N
<1>17. Len(s) \in N
  BY <1>14, <1>15, <1>16, NatSetInduction
<1> DEFINE a == g[Len(s)]
           b == h[Len(s)]
<1>18. a = [b EXCEPT !.freeSlots = f]
  BY <1>14, <1>17 DEF N
<1>19. InvitesLeft(b, s, i, Len(s)) /\ b.freeSlots = v.freeSlots /\ SlotsLast(v, b)
  <2>1. Len(s) \in 0..Len(s)
    BY <1>14
  <2>2. QED
    BY <1>13, <2>1 DEF InvitesOnly
<1>20. Inv(b) /\ TimersAhead(b) /\ b \in Worlds
  BY <1>19 DEF InvitesLeft, Inv
<1>21. v.freeSlots = <<i>> \o w.freeSlots
  BY <1>4, <1>5 DEF Worlds
<1> HIDE DEF a, b
<1>22. AddToFreeSlots(a, i) = b
  <2>1. a.freeSlots = w.freeSlots
    BY <1>4, <1>18, <1>20 DEF Worlds
  <2>2. AddToFreeSlots(a, i) = [a EXCEPT !.freeSlots = <<i>> \o w.freeSlots]
    BY <1>3, <2>1 DEF AddToFreeSlots
  <2> DEFINE x == <<i>> \o w.freeSlots
  <2>3. b.freeSlots = x
    BY <1>19, <1>21
  <2> HIDE DEF x, f
  <2>4. [[b EXCEPT !.freeSlots = f] EXCEPT !.freeSlots = x] = b
    BY <1>20, <2>3 DEF Worlds
  <2>5. QED
    BY <1>18, <2>2, <2>4 DEF x
<1>23. StartWith(w, pool) = b
  BY <1>2, <1>12, <1>22 DEF InviteTrace, a
<1>24. SlotsLast(w, b)
  BY <1>3, <1>19 DEF SlotsLast
<1>25. QED
  BY <1>20, <1>23, <1>24

-----------------------------------------------------------------------------
(* A queue whose groups come each from another position of the same team;  *)
(* how long their invitations stand may differ.                            *)
SameInvited(g, h) == g.players = h.players /\ g.team = h.team /\ g.invited = h.invited

From(w, v, f) ==
  /\ \A l \in Lists : \A k \in DOMAIN v.queue[l] :
       \E m \in Lists : \E n \in DOMAIN w.queue[m] :
         f[<<l, k>>] = <<m, n>> /\ m[2] = l[2] /\ SameInvited(v.queue[l][k], w.queue[m][n])
  /\ \A l, m \in Lists : \A k \in DOMAIN v.queue[l], n \in DOMAIN v.queue[m] :
       f[<<l, k>>] = f[<<m, n>>] => l = m /\ k = n
  /\ QueuedPlayers(w) \subseteq QueuedPlayers(v)

LEMMA RequeuedKeeps ==
    ASSUME NEW w, Inv(w), NEW v \in Worlds,
           v.where = w.where, v.bgId = w.bgId, v.slot = w.slot, v.bgs = w.bgs,
           v.freeSlots = w.freeSlots, NEW f, From(w, v, f), TimersOK(v)
    PROVE  Inv(v)
<1>1. /\ w \in Worlds /\ MembersAreInside(w) /\ DeadAreEmpty(w) /\ FreeSlotsOK(w) /\ OfflineOK(w)
      /\ OnePlace(w.queue) /\ QueuedOK(w) /\ TimersOK(w) /\ HoldersKeepSlots(w) /\ PlacesOK(w)
  BY DEF Inv, Waiting
<1>2. \A l \in Lists : \A k \in DOMAIN v.queue[l] :
        \E m \in Lists : \E n \in DOMAIN w.queue[m] :
          f[<<l, k>>] = <<m, n>> /\ m[2] = l[2] /\ SameInvited(v.queue[l][k], w.queue[m][n])
  BY DEF From
<1>3. OnePlace(v.queue)
  <2>1. ASSUME NEW l \in Lists, NEW m \in Lists,
               NEW k \in DOMAIN v.queue[l], NEW n \in DOMAIN v.queue[m],
               v.queue[l][k].players \cap v.queue[m][n].players # {}
        PROVE  l = m /\ k = n
    <3>1. PICK l1 \in Lists : \E k1 \in DOMAIN w.queue[l1] :
            f[<<l, k>>] = <<l1, k1>> /\ SameInvited(v.queue[l][k], w.queue[l1][k1])
      BY <1>2
    <3>2. PICK k1 \in DOMAIN w.queue[l1] :
            f[<<l, k>>] = <<l1, k1>> /\ SameInvited(v.queue[l][k], w.queue[l1][k1])
      BY <3>1
    <3>3. PICK m1 \in Lists : \E n1 \in DOMAIN w.queue[m1] :
            f[<<m, n>>] = <<m1, n1>> /\ SameInvited(v.queue[m][n], w.queue[m1][n1])
      BY <1>2
    <3>4. PICK n1 \in DOMAIN w.queue[m1] :
            f[<<m, n>>] = <<m1, n1>> /\ SameInvited(v.queue[m][n], w.queue[m1][n1])
      BY <3>3
    <3>5. w.queue[l1][k1].players \cap w.queue[m1][n1].players # {}
      BY <2>1, <3>2, <3>4 DEF SameInvited
    <3>6. l1 = m1 /\ k1 = n1
      BY <1>1, <3>5 DEF OnePlace
    <3>7. f[<<l, k>>] = f[<<m, n>>]
      BY <3>2, <3>4, <3>6
    <3>8. QED
      BY <3>7 DEF From
  <2>2. QED
    BY <2>1 DEF OnePlace
<1>4. QueuedOK(v)
  <2>1. ASSUME NEW l \in Lists, NEW k \in DOMAIN v.queue[l]
        PROVE  /\ v.queue[l][k].team = l[2]
               /\ \A p \in v.queue[l][k].players :
                    /\ TeamOf(p) = l[2] /\ InWorld(v, p) /\ v.slot[p] = v.queue[l][k].invited
                    /\ \A i \in Instances : p \notin v.bgs[i].players
    <3>1. PICK m \in Lists : \E n \in DOMAIN w.queue[m] : m[2] = l[2] /\ SameInvited(v.queue[l][k], w.queue[m][n])
      BY <1>2
    <3>2. PICK n \in DOMAIN w.queue[m] : m[2] = l[2] /\ SameInvited(v.queue[l][k], w.queue[m][n])
      BY <3>1
    <3>3. \A p : InWorld(v, p) <=> InWorld(w, p)
      BY DEF InWorld
    <3>4. QED
      BY <1>1, <3>2, <3>3 DEF QueuedOK, SameInvited
  <2>2. QED
    BY <2>1 DEF QueuedOK
<1>5. PlacesOK(v)
  <2>1. ASSUME NEW p \in Players, p \in QueuedPlayers(v) PROVE InvitedTo(v, p) = InvitedTo(w, p)
    <3>1. PICK l \in Lists : \E k \in DOMAIN v.queue[l] :
              GroupOf(v, p) = v.queue[l][k] /\ p \in v.queue[l][k].players
      BY <2>1, PositionOf
    <3>2. PICK k \in DOMAIN v.queue[l] : GroupOf(v, p) = v.queue[l][k] /\ p \in v.queue[l][k].players
      BY <3>1
    <3>3. PICK m \in Lists : \E n \in DOMAIN w.queue[m] : SameInvited(v.queue[l][k], w.queue[m][n])
      BY <1>2
    <3>4. PICK n \in DOMAIN w.queue[m] : SameInvited(v.queue[l][k], w.queue[m][n])
      BY <3>3
    <3>5. p \in w.queue[m][n].players
      BY <3>2, <3>4 DEF SameInvited
    <3>6. p \in QueuedPlayers(w) /\ GroupOf(w, p) = w.queue[m][n]
      BY <1>1, <3>5, GroupOfIsAt
    <3>7. QED
      BY <2>1, <3>2, <3>4, <3>6 DEF InvitedTo, SameInvited
  <2>2. ASSUME NEW p \in Players, p \notin QueuedPlayers(v) PROVE InvitedTo(v, p) = InvitedTo(w, p)
    BY <2>2 DEF From, InvitedTo
  <2>3. \A p \in Players, i \in Instances : Holds(v, p, i) <=> Holds(w, p, i)
    BY <2>1, <2>2 DEF Holds
  <2>4. QED
    BY <1>1, <2>3, PlacesFrame
<1>6. MembersAreInside(v) /\ DeadAreEmpty(v) /\ FreeSlotsOK(v)
  BY <1>1 DEF MembersAreInside, DeadAreEmpty, FreeSlotsOK
<1>7. OfflineOK(v) /\ HoldersKeepSlots(v)
  BY <1>1 DEF OfflineOK, OfflineExact, HoldersKeepSlots, HolderKeepsSlot, Connected
<1>8. QED
  BY <1>3, <1>4, <1>5, <1>6, <1>7 DEF Inv, Waiting

Moving(w, expired, t) ==
  /\ w.queue[<<"premade", t>>] # <<>>
  /\ LET g == Head(w.queue[<<"premade", t>>])
     IN  /\ g.invited = 0
         /\ t \in expired \/ Size(g) < MinPlayersPerTeam

(* The queue when premade groups have moved to the normal lists.           *)
MovedQueue(w, expired) ==
  [l \in Lists |-> IF ~Moving(w, expired, l[2]) THEN w.queue[l]
                   ELSE IF l[1] = "premade" THEN Tail(w.queue[l])
                   ELSE <<Head(w.queue[<<"premade", l[2]>>])>> \o w.queue[l]]

LEMMA PremadeMovedKeeps ==
    ASSUME NEW w, Inv(w), NEW expired
    PROVE  /\ Inv(MovePremade(w, expired)) /\ MovePremade(w, expired).timers = w.timers
           /\ MovePremade(w, expired).slot = w.slot
<1> DEFINE q == MovedQueue(w, expired)
           v == [w EXCEPT !.queue = q]
           Moves(t) == Moving(w, expired, t)
           f == [x \in Lists \X Nat |->
                   IF ~Moves(x[1][2]) THEN x
                   ELSE IF x[1][1] = "premade" THEN <<x[1], x[2] + 1>>
                   ELSE IF x[2] = 1 THEN <<<<"premade", x[1][2]>>, 1>>
                   ELSE <<x[1], x[2] - 1>>]
<1>1. w \in Worlds /\ w.queue \in [Lists -> Seq(Group)]
  BY WorldFields DEF Inv
<1>2. MovePremade(w, expired) = v
  BY DEF MovePremade, MovedQueue, Moving
<1>3. \A l \in Lists : /\ l = <<l[1], l[2]>> /\ l[2] \in Teams /\ l[1] \in {"premade", "normal"}
                       /\ <<"premade", l[2]>> \in Lists
                       /\ w.queue[l] \in Seq(Group)
  BY <1>1 DEF Lists
<1>4. ASSUME NEW l \in Lists, Moves(l[2])
      PROVE  LET s == w.queue[<<"premade", l[2]>>]
             IN s \in Seq(Group) /\ s # << >>
  BY <1>1, <1>3, <1>4 DEF Moving
<1>5. ASSUME NEW l \in Lists
      PROVE  /\ q[l] \in Seq(Group)
             /\ \A k \in DOMAIN q[l] :
                  /\ k \in Nat
                  /\ \E m \in Lists : \E n \in DOMAIN w.queue[m] :
                      f[<<l, k>>] = <<m, n>> /\ m[2] = l[2] /\ q[l][k] = w.queue[m][n]
  <2> DEFINE s == w.queue[<<"premade", l[2]>>]
             r == w.queue[l]
  <2>1. r \in Seq(Group) /\ Len(r) \in Nat /\ DOMAIN r = 1..Len(r)
    <3>1. r \in Seq(Group)
      BY <1>3
    <3>2. QED
      BY <3>1, LenProperties
  <2>2. CASE ~Moves(l[2])
    <3>1. q[l] = r
      BY <2>2 DEF MovedQueue
    <3>2. \A k \in DOMAIN r : k \in Nat /\ f[<<l, k>>] = <<l, k>>
      BY <2>1, <2>2
    <3> HIDE DEF f, q
    <3>3. QED
      BY <2>1, <3>1, <3>2
  <2>3. CASE Moves(l[2]) /\ l[1] = "premade"
    <3>1. q[l] = Tail(r) /\ s = r
      BY <1>3, <2>3 DEF MovedQueue
    <3>2. r # << >>
      BY <1>4, <2>3, <3>1
    <3>3. /\ Tail(r) \in Seq(Group) /\ Len(Tail(r)) = Len(r) - 1
          /\ \A k \in 1..Len(r) - 1 : Tail(r)[k] = r[k + 1]
      BY <2>1, <3>2, HeadTailProperties, TailLemma
    <3>4. DOMAIN Tail(r) = 1..Len(r) - 1
      BY <3>3, LenProperties
    <3>5. \A k \in 1..Len(r) - 1 : /\ k \in Nat /\ f[<<l, k>>] = <<l, k + 1>>
                                   /\ k + 1 \in DOMAIN r
      BY <2>1, <2>3
    <3> HIDE DEF f, q, r
    <3>6. \A k \in DOMAIN q[l] : /\ k \in Nat /\ k + 1 \in DOMAIN r /\ f[<<l, k>>] = <<l, k + 1>>
                                 /\ q[l][k] = r[k + 1]
      BY <3>1, <3>3, <3>4, <3>5
    <3>7. QED
      BY <3>1, <3>3, <3>6 DEF r
  <2>4. CASE Moves(l[2]) /\ l[1] # "premade"
    <3> DEFINE m == <<"premade", l[2]>>
               e == Head(s)
    <3>1. q[l] = <<e>> \o r
      BY <2>4 DEF MovedQueue
    <3>2. m \in Lists /\ m[2] = l[2] /\ s \in Seq(Group) /\ s # << >>
      BY <1>3, <1>4, <2>4
    <3>3. e \in Group /\ e = s[1] /\ 1 \in DOMAIN s
      BY <3>2, TailLemma, LenProperties, EmptySeq
    <3>4. /\ q[l] \in Seq(Group) /\ Len(q[l]) = Len(r) + 1
          /\ q[l][1] = e /\ \A k \in 1..Len(r) : q[l][k + 1] = r[k]
      BY <2>1, <3>1, <3>3, ConsLemma
    <3>5. DOMAIN q[l] = 1..Len(r) + 1
      BY <3>4, LenProperties
    <3>6. /\ f[<<l, 1>>] = <<m, 1>>
          /\ \A k \in 2..Len(r) + 1 : f[<<l, k>>] = <<l, k - 1>>
      BY <2>1, <2>4
    <3> HIDE DEF f, q, r, e
    <3>7. ASSUME NEW k \in DOMAIN q[l], k # 1
          PROVE  /\ k \in Nat /\ k - 1 \in DOMAIN r /\ f[<<l, k>>] = <<l, k - 1>>
                 /\ q[l][k] = r[k - 1]
      <4>1. k \in 2..Len(r) + 1 /\ k - 1 \in 1..Len(r) /\ (k - 1) + 1 = k /\ k \in Nat
        BY <2>1, <3>5, <3>7
      <4>2. q[l][(k - 1) + 1] = r[k - 1]
        BY <3>4, <4>1
      <4>3. QED
        BY <2>1, <3>6, <4>1, <4>2
    <3>8. q[l][1] = w.queue[m][1] /\ 1 \in DOMAIN w.queue[m]
      BY <3>3, <3>4
    <3> HIDE DEF m
    <3>9. QED
      BY <3>2, <3>4, <3>6, <3>7, <3>8 DEF r
  <2>5. QED
    BY <2>2, <2>3, <2>4
<1>b. ASSUME NEW l \in Lists, NEW k \in DOMAIN w.queue[l]
      PROVE  \E m \in Lists : \E n \in DOMAIN q[m] : q[m][n] = w.queue[l][k]
  <2> DEFINE r == w.queue[l]
             m == <<"normal", l[2]>>
  <2>1. r \in Seq(Group) /\ Len(r) \in Nat /\ DOMAIN r = 1..Len(r) /\ k \in 1..Len(r)
    <3>1. r \in Seq(Group)
      BY <1>3
    <3> HIDE DEF r
    <3>2. Len(r) \in Nat /\ DOMAIN r = 1..Len(r)
      BY <3>1, LenProperties
    <3>3. k \in DOMAIN r
      BY DEF r
    <3>4. QED
      BY <3>1, <3>2, <3>3
  <2>2. CASE ~Moves(l[2])
    <3>1. q[l] = r
      BY <2>2 DEF MovedQueue
    <3> HIDE DEF q
    <3>2. QED
      BY <3>1
  <2>3. CASE Moves(l[2]) /\ l[1] = "premade" /\ k # 1
    <3>1. q[l] = Tail(r) /\ r # << >>
      BY <1>3, <1>4, <2>3 DEF MovedQueue
    <3> HIDE DEF r, q
    <3>2. /\ Tail(r) \in Seq(Group) /\ Len(Tail(r)) = Len(r) - 1
          /\ \A j \in 1..Len(r) - 1 : Tail(r)[j] = r[j + 1]
      BY <2>1, <3>1, HeadTailProperties, TailLemma
    <3>3. DOMAIN Tail(r) = 1..Len(r) - 1
      BY <3>2, LenProperties
    <3>4. k - 1 \in 1..Len(r) - 1 /\ (k - 1) + 1 = k
      BY <2>1, <2>3
    <3>5. k - 1 \in DOMAIN q[l] /\ q[l][k - 1] = r[k]
      BY <3>1, <3>2, <3>3, <3>4
    <3>6. QED
      BY <3>5 DEF r
  <2>4. CASE Moves(l[2]) /\ l[1] = "premade" /\ k = 1
    <3>1. m \in Lists /\ m[2] = l[2] /\ m[1] = "normal" /\ l = <<"premade", l[2]>>
      BY <1>3, <2>4 DEF Lists
    <3>2. q[m] = <<Head(r)>> \o w.queue[m] /\ r # << >> /\ w.queue[m] \in Seq(Group)
      BY <1>3, <1>4, <2>4, <3>1 DEF MovedQueue
    <3> DEFINE x == w.queue[m]
    <3> HIDE DEF r, q, m, x
    <3>3. Head(r) \in Group /\ Head(r) = r[1]
      BY <2>1, <3>2, TailLemma, LenProperties, EmptySeq
    <3>4. q[m] \in Seq(Group) /\ Len(q[m]) = Len(x) + 1 /\ q[m][1] = Head(r) /\ Len(x) \in Nat
      BY <3>2, <3>3, ConsLemma, LenProperties DEF x
    <3>5. DOMAIN q[m] = 1..Len(q[m]) /\ 1 \in 1..Len(q[m])
      BY <3>4, LenProperties
    <3>6. 1 \in DOMAIN q[m] /\ q[m][1] = r[k]
      BY <2>4, <3>3, <3>4, <3>5
    <3>7. QED
      BY <3>1, <3>6 DEF r
  <2>5. CASE Moves(l[2]) /\ l[1] # "premade"
    <3> DEFINE s == w.queue[<<"premade", l[2]>>]
    <3>1. q[l] = <<Head(s)>> \o r /\ s \in Seq(Group) /\ s # << >>
      BY <1>3, <1>4, <2>5 DEF MovedQueue
    <3> HIDE DEF r, q, s
    <3>2. Head(s) \in Group
      BY <3>1, TailLemma, EmptySeq
    <3>3. /\ q[l] \in Seq(Group) /\ Len(q[l]) = Len(r) + 1
          /\ \A j \in 1..Len(r) : q[l][j + 1] = r[j]
      BY <2>1, <3>1, <3>2, ConsLemma
    <3>4. DOMAIN q[l] = 1..Len(r) + 1
      BY <3>3, LenProperties
    <3>5. k + 1 \in DOMAIN q[l] /\ q[l][k + 1] = r[k]
      BY <2>1, <3>3, <3>4
    <3>6. QED
      BY <3>5 DEF r
  <2>6. QED
    BY <2>2, <2>3, <2>4, <2>5
<1>6. v \in Worlds /\ v.queue = q /\ v.where = w.where /\ v.bgId = w.bgId /\ v.slot = w.slot
      /\ v.bgs = w.bgs /\ v.freeSlots = w.freeSlots /\ v.timers = w.timers
  <2>1. q \in [Lists -> Seq(Group)]
    BY <1>5 DEF MovedQueue
  <2> HIDE DEF q
  <2>2. QED
    BY <1>1, <2>1 DEF Worlds
<1>7. ASSUME NEW l \in Lists, NEW m \in Lists, NEW k \in Nat, NEW n \in Nat,
             f[<<l, k>>] = f[<<m, n>>],
             k # 0, n # 0
      PROVE  l = m /\ k = n
  <2>1. /\ l = <<l[1], l[2]>> /\ m = <<m[1], m[2]>> /\ l[1] \in {"premade", "normal"}
        /\ m[1] \in {"premade", "normal"}
    BY <1>3
  <2> DEFINE To(x, j) == IF ~Moves(x[2]) THEN <<x, j>>
                         ELSE IF x[1] = "premade" THEN <<x, j + 1>>
                         ELSE IF j = 1 THEN <<<<"premade", x[2]>>, 1>>
                         ELSE <<x, j - 1>>
  <2>2. f[<<l, k>>] = To(l, k) /\ f[<<m, n>>] = To(m, n)
    OBVIOUS
  <2> HIDE DEF f
  <2>3. To(l, k) = To(m, n)
    BY <1>7, <2>2
  <2>4. l[2] = m[2]
    <3>1. To(l, k)[1][2] = l[2] /\ To(m, n)[1][2] = m[2]
      OBVIOUS
    <3>2. QED
      BY <2>3, <3>1
  <2>5. CASE ~Moves(l[2])
    BY <2>1, <2>3, <2>4, <2>5
  <2>6. CASE Moves(l[2])
    <3>1. CASE l[1] = "premade" /\ m[1] = "premade"
      BY <2>1, <2>3, <2>4, <2>6, <3>1
    <3>2. CASE l[1] = "premade" /\ m[1] = "normal"
      <4>1. To(l, k) = <<l, k + 1>> /\ k + 1 # 1
        BY <1>7, <2>6, <3>2
      <4>2. To(m, n) = <<<<"premade", m[2]>>, 1>> \/ To(m, n) = <<m, n - 1>>
        BY <2>4, <2>6, <3>2
      <4>3. QED
        BY <2>3, <3>2, <4>1, <4>2
    <3>3. CASE l[1] = "normal" /\ m[1] = "premade"
      <4>1. To(m, n) = <<m, n + 1>> /\ n + 1 # 1
        BY <1>7, <2>4, <2>6, <3>3
      <4>2. To(l, k) = <<<<"premade", l[2]>>, 1>> \/ To(l, k) = <<l, k - 1>>
        BY <2>6, <3>3
      <4>3. QED
        BY <2>3, <3>3, <4>1, <4>2
    <3>4. CASE l[1] = "normal" /\ m[1] = "normal"
      <4>1. l = m
        BY <2>1, <2>4, <3>4
      <4>2. To(l, k) = IF k = 1 THEN <<<<"premade", l[2]>>, 1>> ELSE <<l, k - 1>>
        BY <2>6, <3>4
      <4>3. To(m, n) = IF n = 1 THEN <<<<"premade", l[2]>>, 1>> ELSE <<l, n - 1>>
        BY <2>6, <3>4, <4>1
      <4>4. <<"premade", l[2]>> # l
        BY <3>4
      <4>5. k = n
        BY <1>7, <2>3, <4>2, <4>3, <4>4
      <4>6. QED
        BY <4>1, <4>5
    <3>5. QED
      BY <2>1, <3>1, <3>2, <3>3, <3>4
  <2>7. QED
    BY <2>5, <2>6
<1>8. \A l \in Lists : \A k \in DOMAIN q[l] : k \in Nat /\ k # 0
  BY <1>5, LenProperties
<1> HIDE DEF f, v
<1>9. From(w, v, f)
  <2> HIDE DEF q
  <2>1. \A l, m \in Lists : \A k \in DOMAIN q[l], n \in DOMAIN q[m] :
          f[<<l, k>>] = f[<<m, n>>] => l = m /\ k = n
    BY <1>7, <1>8
  <2>2. \A l \in Lists : \A k \in DOMAIN q[l] :
          \E m \in Lists : \E n \in DOMAIN w.queue[m] :
            f[<<l, k>>] = <<m, n>> /\ m[2] = l[2] /\ SameInvited(q[l][k], w.queue[m][n])
    BY <1>5 DEF SameInvited
  <2>3. ASSUME NEW p \in QueuedPlayers(w) PROVE p \in QueuedPlayers(v)
    <3>1. w.queue \in Queues /\ v.queue \in Queues
      BY <1>1, <1>6, WorldFields DEF Queues
    <3>2. PICK l \in Lists : \E k \in DOMAIN w.queue[l] : p \in w.queue[l][k].players
      BY <1>1, PositionOf
    <3>3. PICK k \in DOMAIN w.queue[l] : p \in w.queue[l][k].players
      BY <3>2
    <3>4. PICK m \in Lists : \E n \in DOMAIN q[m] : q[m][n] = w.queue[l][k]
      BY <1>b
    <3>5. PICK n \in DOMAIN q[m] : q[m][n] = w.queue[l][k]
      BY <3>4
    <3>6. v.queue[m][n] \in GroupsOf(v) /\ v.queue[m][n] = w.queue[l][k]
      BY <1>6, <3>1, <3>5, GroupAt DEF GroupsOf
    <3>7. QED
      BY <3>3, <3>6 DEF QueuedPlayers
  <2>4. QED
    BY <1>6, <2>1, <2>2, <2>3 DEF From
<1>10. TimersOK(v)
  <2>1. ASSUME NEW l \in Lists, NEW k \in DOMAIN q[l], q[l][k].invited # 0,
               NEW p \in q[l][k].players
        PROVE  [player |-> p, instance |-> q[l][k].invited, left |-> q[l][k].left] \in w.timers
    <3>1. PICK m \in Lists : \E n \in DOMAIN w.queue[m] : q[l][k] = w.queue[m][n]
      BY <1>5
    <3>2. PICK n \in DOMAIN w.queue[m] : q[l][k] = w.queue[m][n]
      BY <3>1
    <3> DEFINE g == w.queue[m][n]
    <3>3. g.invited # 0 => \A x \in g.players :
            [player |-> x, instance |-> g.invited, left |-> g.left] \in w.timers
      BY DEF Inv, Waiting, TimersOK
    <3>4. q[l][k] = g
      BY <3>2
    <3> HIDE DEF g, q
    <3>5. QED
      BY <2>1, <3>3, <3>4
  <2> HIDE DEF q
  <2>2. QED
    BY <1>6, <2>1 DEF TimersOK
<1>11. Inv(v)
  BY <1>6, <1>9, <1>10, RequeuedKeeps
<1>12. QED
  BY <1>2, <1>6, <1>11

-----------------------------------------------------------------------------
(* The update of the queue.                                                *)

LEMMA CheckNormalKeeps ==
    ASSUME NEW w, Inv(w), TimersAhead(w), NEW type
    PROVE  /\ Inv(CheckNormal(w, type)) /\ TimersAhead(CheckNormal(w, type))
           /\ SlotsLast(w, CheckNormal(w, type))
<1> DEFINE list == Queued(w, "normal")
           G == Candidates(w)
           pool == NormalPools(list, type)
<1>1. \A t \in Teams : Source(list[t], G[t])
  BY QueuedSource
<1> HIDE DEF list, G
<1>2. \A t \in Teams : GoodPool(pool[t], list[t], G[t]) /\ pool[t].count <= MaxPlayersPerTeam
  BY <1>1, NormalPoolsKeep
<1>3. CheckNormal(w, type) = StartNormal(w, pool, type)
  BY DEF CheckNormal, list
<1> HIDE DEF pool
<1>4. CASE NormalMatch(pool, type) /\ Unused(w) # {}
  <2>1. \A t \in Teams : /\ Selected(pool[t], Candidates(w)[t])
                         /\ pool[t].count <= MaxPlayersPerTeam
    BY <1>2 DEF GoodPool, G
  <2>2. Inv(StartWith(w, pool)) /\ TimersAhead(StartWith(w, pool))
        /\ SlotsLast(w, StartWith(w, pool))
    BY <1>4, <2>1, StartWithKeeps
  <2>3. QED
    BY <1>3, <1>4, <2>2 DEF StartNormal
<1>5. CASE ~(NormalMatch(pool, type) /\ Unused(w) # {})
  BY <1>3, <1>5 DEF StartNormal, SlotsLast
<1>6. QED
  BY <1>4, <1>5

LEMMA CheckMatchesKeeps ==
    ASSUME NEW w, Inv(w), TimersAhead(w), NEW type, NEW expired
    PROVE  LET v == CheckMatches(w, Queued(w, "premade"), type, expired)
           IN  Inv(v) /\ TimersAhead(v) /\ SlotsLast(w, v)
<1> DEFINE premade == Queued(w, "premade")
           list == Queued(w, "normal")
           G == Candidates(w)
           pool == PremadePools(premade, list)
           v == StartWith(w, pool)
           u == MovePremade(w, expired)
<1>1. CASE ~PremadeMatch(premade)
  <2>1. Inv(u) /\ u.timers = w.timers /\ u.slot = w.slot
    BY PremadeMovedKeeps
  <2>2. TimersAhead(u)
    BY <2>1 DEF TimersAhead
  <2> HIDE DEF u, premade
  <2>3. Inv(CheckNormal(u, type)) /\ TimersAhead(CheckNormal(u, type))
        /\ SlotsLast(w, CheckNormal(u, type))
    BY <2>1, <2>2, CheckNormalKeeps, SameSlotsLast, SlotsLastOn
  <2>4. CheckMatches(w, premade, type, expired) = CheckNormal(u, type)
    BY <1>1 DEF CheckMatches, u
  <2>5. QED
    BY <2>3, <2>4 DEF premade
<1>2. CASE PremadeMatch(premade) /\ Unused(w) = {}
  <2> HIDE DEF premade
  <2>1. CheckMatches(w, premade, type, expired) = w
    BY <1>2 DEF CheckMatches
  <2>2. QED
    BY <2>1 DEF premade, SlotsLast
<1>3. CASE PremadeMatch(premade) /\ Unused(w) # {}
  <2>1. \A t \in Teams : Source(list[t], G[t]) /\ Source(premade[t], G[t])
    BY QueuedSource
  <2>2. ASSUME NEW t \in Teams
        PROVE  /\ premade[t] \in Seq(Group)
               /\ \A k \in DOMAIN premade[t] :
                    /\ premade[t][k].invited = 0 => premade[t][k] \in G[t]
                    /\ \A j \in DOMAIN list[t] : list[t][j].players \cap premade[t][k].players = {}
    <3> DEFINE l == <<"normal", t>>
               m == <<"premade", t>>
    <3>1. l \in Lists /\ m \in Lists /\ l # m /\ list[t] = w.queue[l] /\ premade[t] = w.queue[m]
      BY DEF Lists, Queued
    <3> HIDE DEF l, m, list, premade, G
    <3>2. ASSUME NEW j \in DOMAIN list[t], NEW k \in DOMAIN premade[t]
          PROVE  list[t][j].players \cap premade[t][k].players = {}
      <4>1. OnePlace(w.queue)
        BY DEF Inv, Waiting
      <4>2. j \in DOMAIN w.queue[l] /\ k \in DOMAIN w.queue[m]
        BY <3>1, <3>2
      <4>3. w.queue[l][j].players \cap w.queue[m][k].players = {}
        BY <3>1, <4>1, <4>2 DEF OnePlace
      <4>4. QED
        BY <3>1, <4>3
    <3>3. QED
      BY <2>1, <3>2 DEF Source
  <2> HIDE DEF premade, list, G
  <2>3. \A t \in Teams : GoodPool(pool[t], list[t], G[t]) /\ pool[t].count <= MaxPlayersPerTeam
    BY <1>3, <2>1, <2>2, PremadePoolsKeep
  <2>4. CheckMatches(w, premade, type, expired) = CheckNormal(v, type)
    BY <1>3 DEF CheckMatches, list
  <2> HIDE DEF pool
  <2>5. \A t \in Teams : /\ Selected(pool[t], Candidates(w)[t])
                         /\ pool[t].count <= MaxPlayersPerTeam
    BY <2>3 DEF GoodPool, G
  <2>6. Inv(v) /\ TimersAhead(v) /\ SlotsLast(w, v)
    BY <1>3, <2>5, StartWithKeeps
  <2> HIDE DEF v
  <2>7. Inv(CheckNormal(v, type)) /\ TimersAhead(CheckNormal(v, type))
        /\ SlotsLast(w, CheckNormal(v, type))
    BY <2>6, CheckNormalKeeps, SlotsLastOn
  <2>8. QED
    BY <2>4, <2>7 DEF premade
<1>4. QED
  BY <1>1, <1>2, <1>3

LEMMA UpdateKeeps ==
    ASSUME NEW w, Inv(w), TimersAhead(w), NEW type, NEW expired
    PROVE  LET v == UpdateQueue(w, type, expired)
           IN  Inv(v) /\ TimersAhead(v) /\ SlotsLast(w, v)
<1> DEFINE v == FillRunning(w, type)
<1>1. CASE \A l \in Lists : w.queue[l] = <<>>
  BY <1>1 DEF UpdateQueue, SlotsLast
<1>2. CASE ~(\A l \in Lists : w.queue[l] = <<>>)
  <2>1. UpdateQueue(w, type, expired) = CheckMatches(v, Queued(v, "premade"), type, expired)
    BY <1>2 DEF UpdateQueue, CheckFilled
  <2>2. Inv(v) /\ TimersAhead(v) /\ SlotsLast(w, v)
    BY FillRunningKeeps
  <2> HIDE DEF v
  <2> DEFINE u == CheckMatches(v, Queued(v, "premade"), type, expired)
  <2>3. Inv(u) /\ TimersAhead(u) /\ SlotsLast(v, u)
    BY <2>2, CheckMatchesKeeps
  <2> HIDE DEF u
  <2>4. SlotsLast(w, u)
    BY <2>2, <2>3, SlotsLastOn
  <2>5. QED
    BY <2>1, <2>3, <2>4 DEF u
<1>3. QED
  BY <1>1, <1>2

-----------------------------------------------------------------------------
(* The events of the timers.                                               *)

(* A timer that takes back no invitation may go.                           *)
Spent(w, e) ==
  \A l \in Lists : \A k \in DOMAIN w.queue[l] :
    LET g == w.queue[l][k]
    IN  e.player \in g.players => ~(g.invited = e.instance /\ g.left = e.left)

LEMMA RetireKeeps ==
    ASSUME NEW w, Inv(w), NEW e, Spent(w, e)
    PROVE  LET v == [w EXCEPT !.timers = @ \ {e}]
           IN  /\ Inv(v) /\ v.timers = w.timers \ {e} /\ v.queue = w.queue
               /\ v.slot = w.slot
<1> DEFINE v == [w EXCEPT !.timers = @ \ {e}]
           f == [x \in Lists \X Nat |-> x]
<1>1. w \in Worlds /\ w.timers \in SUBSET Timer
  BY WorldFields DEF Inv
<1>2. /\ v \in Worlds /\ v.where = w.where /\ v.bgId = w.bgId /\ v.slot = w.slot /\ v.bgs = w.bgs
      /\ v.freeSlots = w.freeSlots /\ v.queue = w.queue /\ v.timers = w.timers \ {e}
  BY <1>1 DEF Worlds
<1> HIDE DEF v
<1>3. \A l \in Lists : \A k \in DOMAIN w.queue[l] : k \in Nat
  BY <1>1, WorldFields, LenProperties
<1>4. From(w, v, f)
  <2>1. \A l \in Lists : \A k \in DOMAIN w.queue[l] : f[<<l, k>>] = <<l, k>>
    BY <1>3
  <2>2. QueuedPlayers(v) = QueuedPlayers(w)
    BY <1>2 DEF QueuedPlayers, GroupsOf
  <2> HIDE DEF f
  <2>3. /\ \A l \in Lists : \A k \in DOMAIN v.queue[l] :
             \E m \in Lists : \E n \in DOMAIN w.queue[m] :
               f[<<l, k>>] = <<m, n>> /\ m[2] = l[2] /\ SameInvited(v.queue[l][k], w.queue[m][n])
        /\ \A l, m \in Lists : \A k \in DOMAIN v.queue[l], n \in DOMAIN v.queue[m] :
             f[<<l, k>>] = f[<<m, n>>] => l = m /\ k = n
    BY <1>2, <2>1 DEF SameInvited
  <2>4. QED
    BY <2>2, <2>3 DEF From
<1> HIDE DEF f
<1>5. TimersOK(v)
  <2>1. ASSUME NEW l \in Lists, NEW k \in DOMAIN w.queue[l], w.queue[l][k].invited # 0,
               NEW p \in w.queue[l][k].players
        PROVE  [player |-> p, instance |-> w.queue[l][k].invited,
                left |-> w.queue[l][k].left] \in w.timers \ {e}
    <3> DEFINE g == w.queue[l][k]
               x == [player |-> p, instance |-> g.invited, left |-> g.left]
    <3>1. x \in w.timers
      BY <2>1 DEF Inv, Waiting, TimersOK
    <3>2. e.player \in g.players => ~(g.invited = e.instance /\ g.left = e.left)
      BY DEF Spent
    <3>3. x # e
      BY <2>1, <3>2
    <3>4. QED
      BY <3>1, <3>3
  <2>2. QED
    BY <1>2, <2>1 DEF TimersOK
<1>6. Inv(v)
  BY <1>2, <1>4, <1>5, RequeuedKeeps
<1>7. QED
  BY <1>2, <1>6 DEF v

LEMMA RemoveInvitedSpends ==
    ASSUME NEW w, Inv(w), NEW e \in Timer
    PROVE  /\ Spent(RemoveInvited(w, e), e) /\ RemoveInvited(w, e).timers = w.timers
<1> DEFINE p == e.player
           i == e.instance
           u == RemovePlayer([w EXCEPT !.slot[p] = NotQueued], p, TRUE)
           b == u.scheduled \/ (Live(w, i) /\ w.bgs[i].status # "wait_leave")
           v == [u EXCEPT !.scheduled = b]
<1>1. p \in Players /\ w \in Worlds /\ OnePlace(w.queue) /\ QueuedOK(w)
  BY DEF Timer, Inv, Waiting
<1>2. CASE ~Connected(w, p) \/ w.slot[p] = NotQueued \/ ~IsPlayerInvited(w, e)
  <2>1. RemoveInvited(w, e) = w
    BY <1>2 DEF RemoveInvited
  <2>2. ASSUME NEW l \in Lists, NEW k \in DOMAIN w.queue[l], p \in w.queue[l][k].players,
               w.queue[l][k].invited = e.instance, w.queue[l][k].left = e.left
        PROVE  FALSE
    <3>1. p \in QueuedPlayers(w) /\ GroupOf(w, p) = w.queue[l][k]
      BY <1>1, <2>2, GroupOfIsAt
    <3>2. IsPlayerInvited(w, e)
      BY <2>2, <3>1 DEF IsPlayerInvited
    <3>3. InWorld(w, p) /\ w.slot[p] = GroupOf(w, p).invited /\ GroupOf(w, p) \in Group
      BY <3>1, QueuedPlayer
    <3>4. Connected(w, p) /\ w.slot[p] # NotQueued
      BY <3>3 DEF InWorld, Connected, Group, NotQueued
    <3>5. QED
      BY <1>2, <3>2, <3>4
  <2>3. QED
    BY <2>1, <2>2 DEF Spent
<1>3. CASE ~(~Connected(w, p) \/ w.slot[p] = NotQueued \/ ~IsPlayerInvited(w, e))
  <2>1. RemoveInvited(w, e) = v
    BY <1>3 DEF RemoveInvited
  <2>2. Taken(w, p, NotQueued, TRUE, u)
    BY <1>1, TakenOut
  <2>3. u \in Worlds /\ u.slot[p] = NotQueued /\ u.timers = w.timers
    <3>1. w.slot \in [Players -> {NotQueued} \cup 0..MaxBattlegrounds]
      BY <1>1, WorldFields
    <3> HIDE DEF u, p
    <3>2. u \in Worlds /\ u.slot = [w.slot EXCEPT ![p] = NotQueued] /\ u.timers = w.timers
      BY <2>2 DEF Taken, OthersStay
    <3>3. QED
      BY <1>1, <3>1, <3>2
  <2>4. p \in QueuedPlayers(w)
    BY <1>3 DEF IsPlayerInvited
  <2>5. Inv(u)
    BY <2>4, WithdrawnKeeps
  <2> HIDE DEF u, b
  <2>6. p \notin QueuedPlayers(u)
    BY <1>1, <2>3, <2>5, NotWaiting
  <2>7. v.queue = u.queue /\ v.timers = w.timers
    BY <2>3 DEF Worlds
  <2> HIDE DEF v
  <2>8. ASSUME NEW l \in Lists, NEW k \in DOMAIN v.queue[l], p \in v.queue[l][k].players
        PROVE  FALSE
    <3>1. p \in u.queue[l][k].players /\ k \in DOMAIN u.queue[l]
      BY <2>7, <2>8
    <3>2. OnePlace(u.queue)
      BY <2>5 DEF Inv, Waiting
    <3>3. p \in QueuedPlayers(u)
      BY <2>3, <3>1, <3>2, GroupOfIsAt
    <3>4. QED
      BY <2>6, <3>3
  <2>9. QED
    BY <2>1, <2>7, <2>8 DEF Spent
<1>4. QED
  BY <1>2, <1>3

(* The removal events do not look at the other events.                     *)
LEMMA RemoveLater ==
    ASSUME NEW w \in Worlds, NEW e, NEW keep
    PROVE  RemoveInvited([w EXCEPT !.timers = keep], e)
             = [RemoveInvited(w, e) EXCEPT !.timers = keep]
<1> DEFINE u == [w EXCEPT !.timers = keep]
           p == e.player
           i == e.instance
           s == [w.slot EXCEPT ![p] = NotQueued]
           w0 == [w EXCEPT !.slot = s]
           u0 == [u EXCEPT !.slot = s]
<1>1. /\ u.where = w.where /\ u.slot = w.slot /\ u.queue = w.queue /\ u.bgs = w.bgs
      /\ u.scheduled = w.scheduled
  BY DEF Worlds
<1>2. /\ u0.queue = w.queue /\ u0.bgs = w.bgs /\ w0.queue = w.queue /\ w0.bgs = w.bgs
      /\ u0.scheduled = w.scheduled /\ w0.scheduled = w.scheduled
  BY DEF Worlds
<1>3. /\ QueuedPlayers(u) = QueuedPlayers(w) /\ QueuedPlayers(u0) = QueuedPlayers(w)
      /\ QueuedPlayers(w0) = QueuedPlayers(w)
      /\ GroupOf(u, p) = GroupOf(w, p) /\ GroupOf(u0, p) = GroupOf(w, p)
      /\ GroupOf(w0, p) = GroupOf(w, p)
  <2> HIDE DEF u, u0, w0
  <2>1. GroupsOf(u) = GroupsOf(w) /\ GroupsOf(u0) = GroupsOf(w) /\ GroupsOf(w0) = GroupsOf(w)
    BY <1>1, <1>2 DEF GroupsOf
  <2>2. QED
    BY <2>1 DEF QueuedPlayers, GroupOf
<1>4. \A j : Live(u, j) <=> Live(w, j)
  <2> HIDE DEF u
  <2>1. QED BY <1>1 DEF Live
<1>5. \A j : Live(u0, j) <=> Live(w0, j)
  <2> HIDE DEF u0, w0
  <2>1. QED BY <1>2 DEF Live
<1> DEFINE r == RemovePlayer(w0, p, TRUE)
<1>6. RemovePlayer(u0, p, TRUE) = [r EXCEPT !.timers = keep] /\ r \in [DOMAIN w -> {r[x] : x \in DOMAIN w}]
      /\ r.scheduled = w.scheduled /\ RemovePlayer(u0, p, TRUE).scheduled = w.scheduled
  <2> DEFINE g == GroupOf(w, p)
             Leave(list) == IF g.players = {p} THEN RemoveFirst(list, g)
                            ELSE ReplaceAll(list, g, [g EXCEPT !.players = @ \ {p}])
             q == [l \in Lists |-> IF l[2] = g.team THEN Leave(w.queue[l]) ELSE w.queue[l]]
             b == IF GivesPlaceBack(w0, g.invited, TRUE)
                  THEN [w.bgs EXCEPT ![g.invited].invited[g.team] = @ - 1] ELSE w.bgs
  <2>1. CASE p \notin QueuedPlayers(w)
    <3>1. r = w0 /\ RemovePlayer(u0, p, TRUE) = u0
      BY <1>3, <2>1 DEF RemovePlayer
    <3> HIDE DEF r
    <3>2. QED
      BY <3>1 DEF Worlds
  <2>2. CASE p \in QueuedPlayers(w)
    <3>1. GivesPlaceBack(u0, g.invited, TRUE) <=> GivesPlaceBack(w0, g.invited, TRUE)
      BY <1>5 DEF GivesPlaceBack
    <3>2. r = [w0 EXCEPT !.queue = q, !.bgs = b]
      <4> HIDE DEF w0, u0
      <4>1. QED
        BY <1>2, <1>3, <2>2 DEF RemovePlayer
    <3>3. RemovePlayer(u0, p, TRUE) = [u0 EXCEPT !.queue = q, !.bgs = b]
      <4> HIDE DEF w0, u0
      <4>1. QED
        BY <1>2, <1>3, <2>2, <3>1 DEF RemovePlayer
    <3> HIDE DEF q, b, s, r
    <3>4. QED
      BY <3>2, <3>3 DEF Worlds
  <2>3. QED
    BY <2>1, <2>2
<1> HIDE DEF r
<1> DEFINE x == Live(w, i) /\ w.bgs[i].status # "wait_leave"
<1>7. /\ Connected(u, p) <=> Connected(w, p)
      /\ IsPlayerInvited(u, e) <=> IsPlayerInvited(w, e)
      /\ (Live(u, i) /\ u.bgs[i].status # "wait_leave") <=> x
      /\ u.slot[p] = w.slot[p]
      /\ [u EXCEPT !.slot[p] = NotQueued] = u0
      /\ [w EXCEPT !.slot[p] = NotQueued] = w0
  <2>1. /\ [u EXCEPT !.slot[p] = NotQueued] = u0
        /\ [w EXCEPT !.slot[p] = NotQueued] = w0
    <3> HIDE DEF u
    <3>1. QED BY <1>1
  <2>2. IsPlayerInvited(u, e) <=> IsPlayerInvited(w, e)
    <3> HIDE DEF u
    <3>1. QED BY <1>3 DEF IsPlayerInvited
  <2>3. Connected(u, p) <=> Connected(w, p)
    <3> HIDE DEF u
    <3>1. QED BY <1>1 DEF Connected
  <2> HIDE DEF u, u0, w0
  <2>4. QED
    BY <1>1, <1>4, <2>1, <2>2, <2>3
<1> DEFINE r2 == RemovePlayer(u0, p, TRUE)
           same == ~Connected(w, p) \/ w.slot[p] = NotQueued \/ ~IsPlayerInvited(w, e)
<1>8. RemoveInvited(w, e) = IF same THEN w ELSE [r EXCEPT !.scheduled = @ \/ x]
  <2> HIDE DEF w0
  <2>1. QED
    BY <1>7 DEF RemoveInvited, r
<1>9. RemoveInvited(u, e) = IF same THEN u ELSE [r2 EXCEPT !.scheduled = @ \/ x]
  <2> HIDE DEF u, u0, w0
  <2>1. QED
    BY <1>7 DEF RemoveInvited
<1> HIDE DEF r2, same, x
<1>10. r2 = [r EXCEPT !.timers = keep] /\ r2.scheduled = r.scheduled
  BY <1>6 DEF r2
<1>11. CASE same
  BY <1>8, <1>9, <1>11
<1>12. CASE ~same
  <2> DEFINE y == r.scheduled \/ x
  <2>1. RemoveInvited(w, e) = [r EXCEPT !.scheduled = y]
    BY <1>8, <1>12
  <2>2. RemoveInvited(u, e) = [r2 EXCEPT !.scheduled = y]
    BY <1>9, <1>10, <1>12
  <2>3. DOMAIN r = DOMAIN w
    BY <1>6
  <2> HIDE DEF y, u, u0, w0
  <2>4. [[r EXCEPT !.timers = keep] EXCEPT !.scheduled = y]
          = [[r EXCEPT !.scheduled = y] EXCEPT !.timers = keep]
    OBVIOUS
  <2>5. QED
    BY <1>10, <2>1, <2>2, <2>4 DEF u
<1>13. QED
  BY <1>11, <1>12

(* The events that are due run one after the other.                        *)
Ran(w, S) == FoldSet(LAMBDA e, v : RemoveInvited(v, e), w, S)

RunTrace(w, S, g) ==
  /\ g[{}] = w /\ Ran(w, S) = g[S]
  /\ \A T \in SUBSET S : T # {} => \E x \in T : g[T] = RemoveInvited(g[T \ {x}], x)

LEMMA RunSteps ==
    ASSUME NEW w, NEW S, IsFiniteSet(S)
    PROVE  \E g : RunTrace(w, S, g)
<1> DEFINE Body(g, n) ==
             [T \in Layer(S, n) |->
                IF T = {} THEN w
                ELSE RemoveInvited(g[T \ {CHOOSE x \in T : TRUE}], CHOOSE x \in T : TRUE)]
           All(g) ==
             [T \in SUBSET S |->
                IF T = {} THEN w
                ELSE RemoveInvited(g[T \ {CHOOSE x \in T : TRUE}], CHOOSE x \in T : TRUE)]
           N == {n \in Nat : \E g : g = Body(g, n)}
           it == CHOOSE g : g = All(g)
<1>1. /\ Layer(S, 0) = {{}}
      /\ \A n \in Nat : Layer(S, n) \subseteq Layer(S, n + 1)
      /\ \A n \in Nat : \A T \in Layer(S, n + 1) : \A x \in T : T \ {x} \in Layer(S, n)
      /\ Cardinality(S) \in Nat /\ Layer(S, Cardinality(S)) = SUBSET S
  BY Layers
<1>2. 0 \in N
  <2> DEFINE g == [T \in Layer(S, 0) |-> w]
  <2>1. g = Body(g, 0)
    BY <1>1
  <2>2. QED
    BY <2>1
<1>3. ASSUME NEW n \in Nat, n \in N PROVE n + 1 \in N
  <2>1. PICK g : g = Body(g, n)
    BY <1>3
  <2> DEFINE h == Body(g, n + 1)
  <2>2. ASSUME NEW T \in Layer(S, n) PROVE h[T] = g[T]
    <3>1. T \in Layer(S, n + 1)
      BY <1>1
    <3>2. h[T] = Body(g, n)[T]
      BY <3>1
    <3>3. QED
      BY <2>1, <3>2
  <2>3. ASSUME NEW T \in Layer(S, n + 1), T # {} PROVE T \ {CHOOSE x \in T : TRUE} \in Layer(S, n)
    BY <1>1, <2>3
  <2> HIDE DEF h
  <2>4. Body(h, n + 1) = Body(g, n + 1)
    BY <2>2, <2>3
  <2>5. h = Body(h, n + 1)
    BY <2>4 DEF h
  <2> HIDE DEF Body
  <2>6. QED
    BY <2>5 DEF N
<1> HIDE DEF N
<1>4. Cardinality(S) \in N
  BY <1>1, <1>2, <1>3, NatSetInduction
<1>5. \E g : g = All(g)
  <2>1. PICK g : g = Body(g, Cardinality(S))
    BY <1>4 DEF N
  <2>2. Body(g, Cardinality(S)) = All(g)
    BY <1>1
  <2> HIDE DEF Body, All
  <2>3. QED
    BY <2>1, <2>2
<1>6. it = All(it)
  BY <1>5, Zenon
<1>7. Ran(w, S) = it[S]
  BY DEF Ran, FoldSet, MapThenFoldSet
<1> HIDE DEF it
<1>8. it[{}] = w
  BY <1>6
<1>9. ASSUME NEW T \in SUBSET S, T # {}
      PROVE  \E x \in T : it[T] = RemoveInvited(it[T \ {x}], x)
  <2>1. it[T] = RemoveInvited(it[T \ {CHOOSE x \in T : TRUE}], CHOOSE x \in T : TRUE)
    BY <1>6, <1>9
  <2>2. (CHOOSE x \in T : TRUE) \in T
    BY <1>9
  <2>3. QED
    BY <2>1, <2>2
<1>10. QED
  BY <1>7, <1>8, <1>9 DEF RunTrace

(* Time passes: for the invitations and for their timers.                  *)
Elapse(g) == [g EXCEPT !.left = IF g.invited = 0 THEN @ ELSE Max({@ - 1, 0})]
Later(w) == {[e EXCEPT !.left = @ - 1] : e \in w.timers}
Due(w) == {e \in Later(w) : e.left = 0}
ElapsedQueue(w) == [l \in Lists |-> [k \in DOMAIN w.queue[l] |-> Elapse(w.queue[l][k])]]
Elapsed(w, timing) == [w EXCEPT !.queue = ElapsedQueue(w), !.timers = timing]

LEMMA ElapseType ==
    ASSUME NEW g \in Group
    PROVE  LET h == Elapse(g)
           IN  /\ h \in Group /\ SameInvited(h, g)
               /\ g.invited # 0 /\ g.left > 0 => h.left = g.left - 1
<1> DEFINE n == g.left
           m == IF g.invited = 0 THEN n ELSE Max({n - 1, 0})
           h == [g EXCEPT !.left = m]
<1>1. Elapse(g) = h
  BY DEF Elapse, Group
<1>2. n \in Int /\ 0 <= n /\ n <= AcceptWait /\ AcceptWait \in Nat
  BY BattlegroundConstants DEF Group
<1>3. Max({n - 1, 0}) \in {n - 1, 0} /\ Max({n - 1, 0}) >= n - 1 /\ Max({n - 1, 0}) >= 0
  <2> DEFINE d == n - 1
  <2>1. d \in Int /\ 0 \in Int
    BY <1>2
  <2> HIDE DEF d, n
  <2>2. Max({d, 0}) \in {d, 0} /\ Max({d, 0}) >= d /\ Max({d, 0}) >= 0
    BY <2>1, MaxOfPair
  <2>3. QED
    BY <2>2 DEF d
<1> HIDE DEF n
<1>4. m \in 0..AcceptWait /\ (g.invited # 0 /\ n > 0 => m = n - 1)
  <2> DEFINE x == Max({n - 1, 0})
  <2> HIDE DEF x
  <2>1. x \in {n - 1, 0} /\ x >= n - 1 /\ x >= 0
    BY <1>3 DEF x
  <2>2. x \in 0..AcceptWait /\ (n > 0 => x = n - 1)
    BY <1>2, <2>1
  <2>3. m = IF g.invited = 0 THEN n ELSE x
    BY DEF x
  <2> HIDE DEF m
  <2>4. n \in 0..AcceptWait
    BY <1>2
  <2>5. QED
    BY <2>2, <2>3, <2>4
<1> HIDE DEF m
<1>5. h \in Group /\ h.players = g.players /\ h.team = g.team /\ h.invited = g.invited /\ h.left = m
  BY <1>4 DEF Group
<1>6. QED
  BY <1>1, <1>4, <1>5 DEF SameInvited, n

LEMMA LaterType ==
    ASSUME NEW w \in Worlds, TimersAhead(w)
    PROVE  /\ Later(w) \in SUBSET Timer /\ Due(w) \in SUBSET Later(w) /\ IsFiniteSet(Due(w))
           /\ \A e \in w.timers :
                [player |-> e.player, instance |-> e.instance, left |-> e.left - 1] \in Later(w)
<1>1. w.timers \in SUBSET Timer
  BY WorldFields
<1>2. ASSUME NEW e \in w.timers
      PROVE  /\ [e EXCEPT !.left = @ - 1]
                   = [player |-> e.player, instance |-> e.instance, left |-> e.left - 1]
             /\ [e EXCEPT !.left = @ - 1] \in Timer
  <2>1. e \in Timer /\ e.left > 0 /\ e.left \in 0..AcceptWait
    BY <1>1 DEF TimersAhead, Timer
  <2> DEFINE n == e.left - 1
  <2>2. n \in 0..AcceptWait
    BY <2>1, BattlegroundConstants
  <2> HIDE DEF n
  <2>3. /\ [e EXCEPT !.left = n] = [player |-> e.player, instance |-> e.instance, left |-> n]
        /\ [e EXCEPT !.left = n] \in Timer
    BY <2>1, <2>2 DEF Timer
  <2>4. QED
    BY <2>3 DEF n
<1>3. Later(w) \in SUBSET Timer /\ Due(w) \in SUBSET Later(w)
  BY <1>2 DEF Later, Due
<1>4. IsFiniteSet(Due(w))
  <2> DEFINE P == Players \X Instances
             f == [x \in P |-> [player |-> x[1], instance |-> x[2], left |-> 0]]
             R == {f[x] : x \in P}
  <2>1. IsFiniteSet(P)
    <3>1. IsFiniteSet(Instances)
      BY BattlegroundConstants, FS_Interval DEF Instances
    <3>2. QED
      BY <3>1, PlayersAreFinite, FS_Product
  <2>2. ASSUME NEW e \in Due(w) PROVE e \in R
    <3>1. e \in Timer /\ e.left = 0
      BY <1>3 DEF Due
    <3>2. e = [player |-> e.player, instance |-> e.instance, left |-> 0]
          /\ e.player \in Players /\ e.instance \in Instances
      BY <3>1 DEF Timer
    <3>3. <<e.player, e.instance>> \in P /\ f[<<e.player, e.instance>>] = e
      BY <3>2
    <3>4. QED
      BY <3>3
  <2>3. f \in Surjection(P, R)
    BY DEF Surjection
  <2> HIDE DEF f, P, R
  <2>4. IsFiniteSet(R)
    BY <2>1, <2>3, FS_Surjection
  <2>5. QED
    BY <2>2, <2>4, FS_Subset
<1>5. QED
  BY <1>2, <1>3, <1>4 DEF Later

LEMMA ElapsedKeeps ==
    ASSUME NEW w, Inv(w), TimersAhead(w)
    PROVE  LET v == Elapsed(w, Later(w))
           IN  Inv(v) /\ v.timers = Later(w) /\ v.queue = ElapsedQueue(w)
<1> DEFINE q == ElapsedQueue(w)
           L == Later(w)
           v == Elapsed(w, L)
           f == [x \in Lists \X Nat |-> x]
<1>1. w \in Worlds /\ w.queue \in [Lists -> Seq(Group)]
  BY WorldFields DEF Inv
<1>2. L \in SUBSET Timer
        /\ \A e \in w.timers :
             [player |-> e.player, instance |-> e.instance, left |-> e.left - 1] \in L
  BY <1>1, LaterType
<1>3. ASSUME NEW l \in Lists
      PROVE  /\ q[l] \in Seq(Group) /\ DOMAIN q[l] = DOMAIN w.queue[l]
             /\ \A k \in DOMAIN q[l] :
                  /\ k \in Nat /\ q[l][k] = Elapse(w.queue[l][k]) /\ w.queue[l][k] \in Group
  <2> DEFINE s == w.queue[l]
             r == [k \in DOMAIN s |-> Elapse(s[k])]
  <2>1. s \in Seq(Group) /\ Len(s) \in Nat /\ DOMAIN s = 1..Len(s) /\ \A k \in 1..Len(s) : s[k] \in Group
    <3>1. s \in Seq(Group)
      BY <1>1
    <3> HIDE DEF s
    <3>2. QED
      BY <3>1, LenProperties
  <2>2. q[l] = r
    BY DEF ElapsedQueue
  <2> HIDE DEF s, q
  <2>3. \A k \in 1..Len(s) : Elapse(s[k]) \in Group
    BY <2>1, ElapseType
  <2>4. r \in [1..Len(s) -> Group]
    BY <2>1, <2>3
  <2>5. r \in Seq(Group)
    BY <2>1, <2>4, SeqDef
  <2>6. \A k \in 1..Len(s) : r[k] = Elapse(s[k]) /\ k \in Nat
    BY <2>1
  <2>7. DOMAIN r = 1..Len(s)
    BY <2>1
  <2> HIDE DEF r
  <2>8. QED
    BY <2>1, <2>2, <2>5, <2>6, <2>7 DEF s
<1>4. /\ v \in Worlds /\ v.where = w.where /\ v.bgId = w.bgId /\ v.slot = w.slot /\ v.bgs = w.bgs
      /\ v.freeSlots = w.freeSlots /\ v.queue = q /\ v.timers = L
  <2>1. q \in [Lists -> Seq(Group)]
    BY <1>3 DEF ElapsedQueue
  <2>2. v = [w EXCEPT !.queue = q, !.timers = L]
    BY DEF Elapsed
  <2> HIDE DEF q, v, L
  <2>3. QED
    BY <1>1, <1>2, <2>1, <2>2 DEF Worlds
<1> HIDE DEF q, v, L
<1>5. From(w, v, f)
  <2>1. \A l \in Lists : \A k \in DOMAIN q[l] : f[<<l, k>>] = <<l, k>>
    BY <1>3
  <2>2. \A l \in Lists : \A k \in DOMAIN q[l] : SameInvited(q[l][k], w.queue[l][k])
    BY <1>3, ElapseType
  <2>3. ASSUME NEW p \in QueuedPlayers(w) PROVE p \in QueuedPlayers(v)
    <3>1. PICK l \in Lists : \E k \in DOMAIN w.queue[l] : p \in w.queue[l][k].players
      BY <1>1, PositionOf
    <3>2. PICK k \in DOMAIN w.queue[l] : p \in w.queue[l][k].players
      BY <3>1
    <3>3. k \in DOMAIN q[l] /\ p \in q[l][k].players
      BY <1>3, <2>2, <3>2 DEF SameInvited
    <3>4. QED
      BY <1>4, <3>3 DEF QueuedPlayers, GroupsOf, ToSet
  <2> HIDE DEF f
  <2>4. /\ \A l \in Lists : \A k \in DOMAIN v.queue[l] :
             \E m \in Lists : \E n \in DOMAIN w.queue[m] :
               f[<<l, k>>] = <<m, n>> /\ m[2] = l[2] /\ SameInvited(v.queue[l][k], w.queue[m][n])
        /\ \A l, m \in Lists : \A k \in DOMAIN v.queue[l], n \in DOMAIN v.queue[m] :
             f[<<l, k>>] = f[<<m, n>>] => l = m /\ k = n
    BY <1>3, <1>4, <2>1, <2>2
  <2>5. QED
    BY <2>3, <2>4 DEF From
<1> HIDE DEF f
<1>6. TimersOK(v)
  <2>1. ASSUME NEW l \in Lists, NEW k \in DOMAIN q[l], q[l][k].invited # 0,
               NEW p \in q[l][k].players
        PROVE  [player |-> p, instance |-> q[l][k].invited, left |-> q[l][k].left] \in L
    <3> DEFINE g == w.queue[l][k]
               h == q[l][k]
               e == [player |-> p, instance |-> g.invited, left |-> g.left]
    <3>1. g \in Group /\ h = Elapse(g) /\ k \in DOMAIN w.queue[l]
      BY <1>3
    <3> HIDE DEF h
    <3>2. SameInvited(h, g) /\ (g.invited # 0 /\ g.left > 0 => h.left = g.left - 1)
      BY <3>1, ElapseType
    <3>3. g.invited # 0 /\ h.invited = g.invited /\ p \in g.players
      BY <2>1, <3>2 DEF SameInvited, h
    <3>4. e \in w.timers
      BY <3>1, <3>3 DEF Inv, Waiting, TimersOK
    <3>5. e.left > 0 /\ e.player = p /\ e.instance = g.invited /\ e.left = g.left
      BY <3>4 DEF TimersAhead
    <3>6. [player |-> e.player, instance |-> e.instance, left |-> e.left - 1] \in L
      BY <1>2, <3>4
    <3> HIDE DEF e, g
    <3>7. QED
      BY <3>2, <3>3, <3>5, <3>6 DEF h
  <2>2. QED
    BY <1>4, <2>1 DEF TimersOK
<1>7. Inv(v)
  BY <1>4, <1>5, <1>6, RequeuedKeeps
<1>8. QED
  BY <1>4, <1>7 DEF v, q, L

(* Who was invited with time to spare, and what has to be left of that     *)
(* while the events run.                                                   *)
Standing(w, p) ==
  p \in QueuedPlayers(w) /\ GroupOf(w, p).invited # 0 /\ GroupOf(w, p).left > 1

Unexpired(w, p) ==
  \A l \in Lists : \A k \in DOMAIN w.queue[l] :
    p \in w.queue[l][k].players => w.queue[l][k].left > 0

Lasting(w, v) ==
  \A p \in Players : Standing(w, p) => v.slot[p] = w.slot[p] /\ Unexpired(v, p)

LEMMA SameLasting ==
    ASSUME NEW w, NEW u, NEW v, Lasting(w, u), v.slot = u.slot, v.queue = u.queue
    PROVE  Lasting(w, v)
BY DEF Lasting, Unexpired

LEMMA ElapsedLast ==
    ASSUME NEW w, Inv(w), NEW timing
    PROVE  Lasting(w, Elapsed(w, timing))
<1> DEFINE v == Elapsed(w, timing)
           q == ElapsedQueue(w)
<1>1. w \in Worlds /\ OnePlace(w.queue) /\ w.queue \in Queues
  BY WorldFields DEF Inv, Waiting, Queues
<1>2. v.slot = w.slot /\ v.queue = q
  BY <1>1 DEF Elapsed, Worlds
<1>3. ASSUME NEW l \in Lists
      PROVE  /\ DOMAIN q[l] = DOMAIN w.queue[l]
             /\ \A k \in DOMAIN q[l] : q[l][k] = Elapse(w.queue[l][k])
  BY DEF ElapsedQueue
<1> HIDE DEF v, q
<1>4. ASSUME NEW p \in Players, Standing(w, p), NEW l \in Lists, NEW k \in DOMAIN q[l],
             p \in q[l][k].players
      PROVE  q[l][k].left > 0
  <2> DEFINE g == w.queue[l][k]
             h == Elapse(g)
  <2>1. k \in DOMAIN w.queue[l] /\ q[l][k] = h
    BY <1>3
  <2>2. g \in Group /\ g.left \in 0..AcceptWait
    BY <1>1, <2>1, GroupAt
  <2> HIDE DEF g
  <2>3. SameInvited(h, g) /\ (g.invited # 0 /\ g.left > 0 => h.left = g.left - 1)
    BY <2>2, ElapseType
  <2> HIDE DEF h
  <2>4. p \in g.players
    BY <1>4, <2>1, <2>3 DEF SameInvited
  <2>5. GroupOf(w, p) = g
    BY <1>1, <2>1, <2>4, GroupOfIsAt DEF g
  <2>6. g.invited # 0 /\ g.left > 1
    BY <1>4, <2>5 DEF Standing
  <2>7. h.left = g.left - 1
    BY <2>2, <2>3, <2>6, BattlegroundConstants
  <2>8. QED
    BY <2>1, <2>2, <2>6, <2>7, BattlegroundConstants
<1>5. QED
  BY <1>2, <1>4 DEF Lasting, Unexpired, v

(* An event that is due takes back no invitation that still has time.      *)
LEMMA RemoveInvitedLast ==
    ASSUME NEW w, NEW u, Inv(u), Lasting(w, u), NEW e \in Timer, e.left = 0
    PROVE  Lasting(w, RemoveInvited(u, e))
<1> DEFINE x == e.player
           i == e.instance
           r == RemovePlayer([u EXCEPT !.slot[x] = NotQueued], x, TRUE)
           b == r.scheduled \/ (Live(u, i) /\ u.bgs[i].status # "wait_leave")
           v == [r EXCEPT !.scheduled = b]
<1>1. x \in Players /\ u \in Worlds
  BY DEF Timer, Inv
<1>2. CASE ~Connected(u, x) \/ u.slot[x] = NotQueued \/ ~IsPlayerInvited(u, e)
  <2>1. RemoveInvited(u, e) = u
    BY <1>2 DEF RemoveInvited
  <2>2. QED
    BY <2>1
<1>3. CASE ~(~Connected(u, x) \/ u.slot[x] = NotQueued \/ ~IsPlayerInvited(u, e))
  <2>1. RemoveInvited(u, e) = v
    BY <1>3 DEF RemoveInvited
  <2>2. Taken(u, x, NotQueued, TRUE, r)
    BY <1>1, TakenOut
  <2>3. ~Standing(w, x)
    <3>1. x \in QueuedPlayers(u) /\ GroupOf(u, x).left = 0
      BY <1>3 DEF IsPlayerInvited
    <3>2. PICK l \in Lists : \E k \in DOMAIN u.queue[l] :
                 GroupOf(u, x) = u.queue[l][k] /\ x \in u.queue[l][k].players
      BY <1>1, <3>1, PositionOf
    <3>3. ~Unexpired(u, x)
      BY <3>1, <3>2 DEF Unexpired
    <3>4. QED
      BY <1>1, <3>3 DEF Lasting
  <2>4. v.slot = r.slot /\ v.queue = r.queue
    BY <2>2 DEF Taken, Worlds
  <2> HIDE DEF v, r, x
  <2>5. \A p \in Players \ {x} : r.slot[p] = u.slot[p]
    BY <2>2 DEF Taken, OthersStay
  <2>6. ASSUME NEW p \in Players, Unexpired(u, p) PROVE Unexpired(r, p)
    <3>1. ASSUME NEW l \in Lists, NEW k \in DOMAIN r.queue[l], p \in r.queue[l][k].players
          PROVE  r.queue[l][k].left > 0
      <4>1. PICK f \in [DOMAIN r.queue[l] -> DOMAIN u.queue[l]] :
              \A m \in DOMAIN r.queue[l] :
                /\ r.queue[l][m].players = u.queue[l][f[m]].players \ {x}
                /\ r.queue[l][m].left = u.queue[l][f[m]].left
        BY <2>2 DEF Taken, OthersStay, Reduced
      <4>2. f[k] \in DOMAIN u.queue[l] /\ p \in u.queue[l][f[k]].players
            /\ r.queue[l][k].left = u.queue[l][f[k]].left
        BY <3>1, <4>1
      <4>3. u.queue[l][f[k]].left > 0
        BY <2>6, <4>2 DEF Unexpired
      <4>4. QED
        BY <4>2, <4>3
    <3>2. QED
      BY <3>1 DEF Unexpired
  <2>7. Lasting(w, r)
    BY <2>3, <2>5, <2>6 DEF Lasting
  <2>8. QED
    BY <2>1, <2>4, <2>7, SameLasting
<1>4. QED
  BY <1>2, <1>3

LEMMA RunTimersKeeps ==
    ASSUME NEW w, Inv(w), TimersAhead(w)
    PROVE  /\ Inv(RunTimers(w)) /\ TimersAhead(RunTimers(w))
           /\ Lasting(w, RunTimers(w))
<1> DEFINE L == Later(w)
           D == Due(w)
           keep == L \ D
           base == Elapsed(w, keep)
           Good(v, T) == \E u : /\ Inv(u) /\ u.timers = L \ T /\ Lasting(w, u)
                                /\ v = [u EXCEPT !.timers = keep]
<1>1. w \in Worlds /\ L \in SUBSET Timer /\ D \in SUBSET L /\ IsFiniteSet(D)
  BY LaterType DEF Inv
<1>2. RunTimers(w) = Ran(base, D)
  BY DEF RunTimers, Ran, Elapsed, ElapsedQueue, Elapse, Later, Due, FoldSet, MapThenFoldSet
<1>3. PICK g : RunTrace(base, D, g)
  BY <1>1, RunSteps
<1>4. Good(base, {})
  <2> DEFINE u == Elapsed(w, L)
  <2>1. Inv(u) /\ u.timers = L /\ Lasting(w, u)
    BY ElapsedKeeps, ElapsedLast
  <2>2. base = [u EXCEPT !.timers = keep]
    BY <1>1 DEF Elapsed, Worlds
  <2>3. L \ {} = L
    OBVIOUS
  <2> HIDE DEF u, base, L, keep
  <2>4. QED
    BY <2>1, <2>2, <2>3
<1> HIDE DEF L, D, keep, base
<1> DEFINE X == {T \in SUBSET D : Good(g[T], T)}
<1>5. {} \in X
  BY <1>3, <1>4 DEF RunTrace
<1>6. ASSUME NEW T \in SUBSET D, T # {}, \A x \in T : T \ {x} \in X PROVE T \in X
  <2>1. PICK x \in T : g[T] = RemoveInvited(g[T \ {x}], x)
    BY <1>3, <1>6 DEF RunTrace
  <2>2. Good(g[T \ {x}], T \ {x})
    BY <1>6
  <2>3. PICK u : /\ Inv(u) /\ u.timers = L \ (T \ {x}) /\ Lasting(w, u)
                 /\ g[T \ {x}] = [u EXCEPT !.timers = keep]
    BY <2>2
  <2>4. x \in Timer /\ u \in Worlds /\ x.left = 0
    BY <1>1, <2>3 DEF Inv, D, Due
  <2> DEFINE r == RemoveInvited(u, x)
             y == [r EXCEPT !.timers = @ \ {x}]
  <2>5. g[T] = [r EXCEPT !.timers = keep]
    <3>1. RemoveInvited([u EXCEPT !.timers = keep], x) = [r EXCEPT !.timers = keep]
      BY <2>4, RemoveLater
    <3>2. QED
      BY <2>1, <2>3, <3>1
  <2>6. Inv(r) /\ Spent(r, x) /\ r.timers = u.timers /\ Lasting(w, r)
    BY <2>3, <2>4, RemoveInvitedKeeps, RemoveInvitedSpends, RemoveInvitedLast
  <2> HIDE DEF r
  <2>7. Inv(y) /\ y.timers = r.timers \ {x} /\ y.queue = r.queue /\ y.slot = r.slot
    BY <2>6, RetireKeeps
  <2>8. [y EXCEPT !.timers = keep] = [r EXCEPT !.timers = keep]
    BY <2>6 DEF Inv, Worlds
  <2> HIDE DEF y
  <2>9. y.timers = L \ T
    BY <2>3, <2>6, <2>7
  <2>10. Lasting(w, y)
    BY <2>6, <2>7, SameLasting
  <2>11. Good(g[T], T)
    BY <2>5, <2>7, <2>8, <2>9, <2>10
  <2>12. QED
    BY <2>11
<1> HIDE DEF X
<1>7. D \in X
  BY <1>1, <1>5, <1>6, SubsetInduction
<1>8. PICK u : Inv(u) /\ u.timers = keep /\ Lasting(w, u) /\ g[D] = [u EXCEPT !.timers = keep]
  BY <1>7 DEF X, keep
<1>9. g[D] = u
  BY <1>8 DEF Inv, Worlds
<1>10. RunTimers(w) = u
  BY <1>2, <1>3, <1>9 DEF RunTrace
<1>11. TimersAhead(u)
  <2>1. ASSUME NEW e \in keep PROVE e.left > 0
    <3>1. e \in L /\ e \notin D
      BY DEF keep
    <3>2. e.left # 0
      BY <3>1 DEF D, L, Due
    <3>3. e.left \in 0..AcceptWait
      BY <1>1, <3>1 DEF Timer
    <3>4. QED
      BY <3>2, <3>3, BattlegroundConstants
  <2>2. QED
    BY <1>8, <2>1 DEF TimersAhead
<1>12. QED
  BY <1>8, <1>10, <1>11

-----------------------------------------------------------------------------
(* The steps of the specification.                                         *)

IInv == Inv(World) /\ TimersAhead(World)

LEMMA TheWorld ==
    /\ World.where = where /\ World.bgId = bgId /\ World.slot = slot /\ World.queue = queue
    /\ World.bgs = bgs /\ World.freeSlots = freeSlots /\ World.timers = timers
    /\ World.scheduled = scheduled /\ World.mishaps = mishaps
BY DEF World

LEMMA BecomesWorld == ASSUME NEW v \in Worlds, Becomes(v) PROVE World' = v
<1>1. World' = [where |-> v.where, bgId |-> v.bgId, slot |-> v.slot, queue |-> v.queue,
                bgs |-> v.bgs, freeSlots |-> v.freeSlots, timers |-> v.timers,
                scheduled |-> v.scheduled, mishaps |-> v.mishaps]
  BY DEF World, Becomes
<1>2. QED
  BY <1>1 DEF Worlds

LEMMA StepInv ==
    ASSUME NEW v, Inv(v), TimersAhead(v), Becomes(v)
    PROVE  IInv'
<1>1. World' = v
  BY BecomesWorld DEF Inv
<1>2. QED
  BY <1>1 DEF IInv

LEMMA QuietTimers ==
    ASSUME IInv, NEW v, Inv(v), v.timers = timers, Becomes(v)
    PROVE  IInv' /\ timers' = timers
<1>1. TimersAhead(v)
  BY TheWorld DEF IInv, TimersAhead
<1>2. timers' = timers
  BY DEF Becomes
<1>3. QED
  BY <1>1, <1>2, StepInv

LEMMA JoinInv == ASSUME IInv, NEW p \in Players, Join(p) PROVE IInv' /\ timers' = timers
<1> DEFINE S == {p}
           t == TeamOf(p)
           v == [AddToQueue(World, S, t, "normal") EXCEPT !.scheduled = TRUE]
<1>1. Inv(World) /\ World \in Worlds /\ t \in Teams
  BY TeamOfType DEF IInv, Inv
<1>2. where[p] = "outside" /\ slot[p] = NotQueued /\ Becomes(v)
  BY DEF Join
<1>3. S \in (SUBSET Players) \ {{}} /\ \A x \in S : x = p
  OBVIOUS
<1>4. \A x \in S : TeamOf(x) = t /\ Connected(World, x) /\ World.slot[x] = NotQueued
  BY <1>2, <1>3, TheWorld DEF Connected
<1> HIDE DEF S, t
<1>5. Inv(v) /\ v.timers = World.timers
  <2>1. Joined(World, S, t, "normal", v)
    BY <1>1, <1>3, JoinEffect
  <2>2. Inv(v)
    BY <1>1, <1>3, <1>4, JoinKeeps
  <2> HIDE DEF v
  <2>3. QED
    BY <2>1, <2>2 DEF Joined
<1> HIDE DEF v
<1>6. QED
  BY <1>2, <1>5, QuietTimers, TheWorld

LEMMA JoinAsGroupInv ==
    ASSUME IInv, NEW leader \in Players, NEW S \in SUBSET Players, JoinAsGroup(leader, S)
    PROVE  IInv' /\ timers' = timers
<1> DEFINE t == TeamOf(leader)
           kind == IF Cardinality(S) >= MinPlayersPerTeam THEN "premade" ELSE "normal"
           v == [AddToQueue(World, S, t, kind) EXCEPT !.scheduled = TRUE]
<1>1. Inv(World) /\ World \in Worlds /\ t \in Teams /\ kind \in {"premade", "normal"}
  BY TeamOfType DEF IInv, Inv
<1>2. /\ leader \in S /\ Becomes(v)
      /\ \A p \in S : TeamOf(p) = t /\ Connected(World, p) /\ slot[p] = NotQueued
  BY DEF JoinAsGroup
<1>3. S \in (SUBSET Players) \ {{}}
  BY <1>2
<1>4. \A x \in S : TeamOf(x) = t /\ Connected(World, x) /\ World.slot[x] = NotQueued
  BY <1>2, TheWorld
<1> HIDE DEF t, kind
<1>5. Inv(v) /\ v.timers = World.timers
  <2>1. Joined(World, S, t, kind, v)
    BY <1>1, <1>3, JoinEffect
  <2>2. Inv(v)
    BY <1>1, <1>3, <1>4, JoinKeeps
  <2> HIDE DEF v
  <2>3. QED
    BY <2>1, <2>2 DEF Joined
<1> HIDE DEF v
<1>6. QED
  BY <1>2, <1>5, QuietTimers, TheWorld

LEMMA JoinRefusedInv == ASSUME IInv, NEW leader \in Players, JoinRefused(leader) PROVE IInv' /\ timers' = timers
<1> DEFINE v == [World EXCEPT !.scheduled = TRUE]
<1>1. Inv(v)
  BY ScheduledKeeps DEF IInv
<1>2. v.timers = timers /\ Becomes(v)
  BY DEF JoinRefused, World
<1> HIDE DEF v
<1>3. QED
  BY <1>1, <1>2, QuietTimers

(* The queue is left and a battleground is left without a look at the      *)
(* timers.                                                                 *)
LEMMA SameTimers ==
    ASSUME NEW w, "timers" \in DOMAIN w, NEW p, NEW decrease
    PROVE  LET v == RemovePlayer(w, p, decrease)
           IN  "timers" \in DOMAIN v /\ v.timers = w.timers
BY DEF RemovePlayer

LEMMA DequeuedTimers ==
    ASSUME NEW w, Inv(w), NEW p, NEW decrease
    PROVE  RemovePlayer(w, p, decrease) \in Worlds /\ RemovePlayer(w, p, decrease).timers = w.timers
<1>1. w \in Worlds /\ OnePlace(w.queue) /\ InTeams(w.queue)
  BY InTeamsOf DEF Inv
<1>2. Dequeued(w, p, decrease, RemovePlayer(w, p, decrease))
  BY <1>1, DequeueEffect
<1>3. QED
  BY <1>2 DEF Dequeued

LEMMA LeaveTimers ==
    ASSUME NEW w \in Worlds, NEW i \in Instances, NEW p \in Players
    PROVE  /\ RemovePlayerAtLeave(w, i, p) \in Worlds
           /\ RemovePlayerAtLeave(w, i, p).timers = w.timers
BY LeaveEffect DEF LeftBattle

LEMMA AcceptPortInv ==
    ASSUME IInv, NEW p \in Players, NEW teleported \in BOOLEAN, AcceptPort(p, teleported)
    PROVE  IInv' /\ timers' = timers
<1> DEFINE i == InvitedTo(World, p)
           w1 == RemovePlayer(World, p, FALSE)
           w2 == IF World.bgId[p] # 0 /\ Live(w1, World.bgId[p])
                 THEN RemovePlayerAtLeave(w1, World.bgId[p], p) ELSE w1
           v == Accepted(World, p, teleported)
<1>1. Inv(World) /\ World \in Worlds
  BY DEF IInv, Inv
<1>2. /\ InWorld(World, p) /\ Live(World, i) /\ (teleported \/ World.mishaps < MaxMishaps)
      /\ Becomes(v)
  BY TheWorld DEF AcceptPort, Accepted
<1>3. Inv(v)
  BY <1>1, <1>2, AcceptKeeps
<1>4. w1 \in Worlds /\ w1.timers = World.timers
  BY <1>1, DequeuedTimers
<1>5. w2 \in Worlds /\ w2.timers = World.timers
  <2> HIDE DEF w1
  <2>1. CASE World.bgId[p] # 0 /\ Live(w1, World.bgId[p])
    <3>1. World.bgId[p] \in Instances
      BY <2>1 DEF Live
    <3>2. QED
      BY <1>4, <2>1, <3>1, LeaveTimers
  <2>2. CASE ~(World.bgId[p] # 0 /\ Live(w1, World.bgId[p]))
    BY <1>4, <2>2
  <2>3. QED
    BY <2>1, <2>2
<1>6. v.timers = w2.timers
  <2>1. v = IF teleported THEN [w2 EXCEPT !.bgId[p] = i, !.where[p] = "porting"]
            ELSE [w2 EXCEPT !.bgId[p] = i, !.bgs[i].lost[TeamOf(p)] = @ + 1, !.mishaps = @ + 1]
    BY DEF Accepted
  <2> HIDE DEF w2, i, v
  <2>2. QED
    BY <1>5, <2>1 DEF Worlds
<1> HIDE DEF v, w2
<1>7. QED
  BY <1>2, <1>3, <1>5, <1>6, QuietTimers, TheWorld

LEMMA LeaveQueueInv == ASSUME IInv, NEW p \in Players, LeaveQueue(p) PROVE IInv' /\ timers' = timers
<1> DEFINE u == RemovePlayer([World EXCEPT !.slot[p] = NotQueued], p, TRUE)
           v == [u EXCEPT !.scheduled = TRUE]
<1>1. Inv(World) /\ World \in Worlds
  BY DEF IInv, Inv
<1>2. p \in QueuedPlayers(World) /\ Becomes(v)
  BY DEF LeaveQueue
<1>3. Inv(u)
  BY <1>1, <1>2, WithdrawnKeeps
<1>4. "timers" \in DOMAIN u /\ u.timers = World.timers
  <2> DEFINE y == [World EXCEPT !.slot[p] = NotQueued]
             d == TRUE
  <2>1. "timers" \in DOMAIN y /\ y.timers = World.timers
    BY <1>1 DEF Worlds
  <2>2. u = RemovePlayer(y, p, d)
    OBVIOUS
  <2> HIDE DEF y, d, u
  <2>3. QED
    BY <2>1, <2>2, SameTimers
<1> HIDE DEF u
<1>5. Inv(v)
  BY <1>3, ScheduledKeeps
<1>6. v.timers = timers
  BY <1>3, <1>4, TheWorld DEF Inv, Worlds
<1> HIDE DEF v
<1>7. QED
  BY <1>2, <1>5, <1>6, QuietTimers

(* Who is on the way or offline is in no queue, and only members are       *)
(* inside.                                                                 *)
LEMMA AwayIsNowhere ==
    ASSUME NEW w, Inv(w), NEW p \in Players
    PROVE  /\ ~InWorld(w, p) => p \notin QueuedPlayers(w)
           /\ w.where[p] \notin {"inside", "offline_inside"} =>
                \A i \in Instances : p \notin w.bgs[i].players
<1>1. ~InWorld(w, p) => p \notin QueuedPlayers(w)
  BY QueuedPlayer
<1>2. MembersAreInside(w)
  BY DEF Inv
<1>3. QED
  BY <1>1, <1>2 DEF MembersAreInside

Moved(w, p, h, n) == [w EXCEPT !.where[p] = h, !.bgId[p] = n]

LEMMA MoveQuietly ==
    ASSUME NEW w, Inv(w), NEW p \in Players, p \notin QueuedPlayers(w),
           \A i \in Instances : p \notin w.bgs[i].players, w.where[p] # "porting",
           NEW h \in Places \ {"porting"}, NEW n \in 0..MaxBattlegrounds
    PROVE  Inv(Moved(w, p, h, n)) /\ Moved(w, p, h, n).timers = w.timers
<1> DEFINE v == [w EXCEPT !.where[p] = h, !.bgId[p] = n]
<1>1. Inv(v)
  BY MoveKeeps
<1>2. v.timers = w.timers
  BY DEF Inv, Worlds
<1> HIDE DEF v
<1>3. Inv(v) /\ v.timers = w.timers
  BY <1>1, <1>2
<1>4. QED
  BY <1>3 DEF v, Moved

LEMMA Unqueued ==
    ASSUME IInv, NEW p \in Players, ~InWorld(World, p), World.where[p] # "porting",
           NEW h \in Places \ {"porting"}, NEW n \in 0..MaxBattlegrounds,
           \A i \in Instances : p \notin World.bgs[i].players,
           Becomes(Moved(World, p, h, n))
    PROVE  IInv' /\ timers' = timers
<1> DEFINE w == World
           v == Moved(w, p, h, n)
<1>1. Inv(w) /\ Becomes(v)
  BY DEF IInv
<1>2. p \notin QueuedPlayers(w)
  BY <1>1, AwayIsNowhere
<1>3. w.where[p] # "porting" /\ \A i \in Instances : p \notin w.bgs[i].players
  OBVIOUS
<1> HIDE DEF w
<1>4. Inv(v) /\ v.timers = w.timers
  BY <1>1, <1>2, <1>3, MoveQuietly
<1> HIDE DEF v
<1>5. QED
  BY <1>1, <1>4, QuietTimers, TheWorld DEF w

(* Whoever is on the way holds a place of a living battleground and his    *)
(* queue slot names it: he is added.                                       *)
LEMMA ArriveKeeps ==
    ASSUME NEW w, Inv(w), NEW p \in Players, w.where[p] = "porting"
    PROVE  LET v == Arrive(w, p)
           IN  /\ Inv(v) /\ v.timers = w.timers /\ v.mishaps = w.mishaps
               /\ v.where[p] = "inside"
<1> DEFINE i == w.bgId[p]
           v == AddPlayer([w EXCEPT !.where[p] = "inside"], i, p)
<1>1. HolderKeepsSlot(w, p)
  BY DEF Inv, HoldersKeepSlots
<1>2. i \in Instances /\ w.slot[p] = i
  BY <1>1 DEF HolderKeepsSlot
<1>3. Live(w, i)
  <2>1. Holds(w, p, i)
    BY <1>2 DEF Holds
  <2> HIDE DEF i
  <2>2. QED
    BY <1>2, <2>1, HeldIsLive
<1>4. Arrive(w, p) = v
  BY <1>2, <1>3 DEF Arrive
<1>5. Inv(v) /\ v.timers = w.timers /\ v.mishaps = w.mishaps /\ v.where[p] = "inside"
  BY <1>2, <1>3, EnterKeeps
<1> HIDE DEF v
<1>6. QED
  BY <1>4, <1>5

LEMMA EnterInv == ASSUME IInv, NEW p \in Players, EnterBattleground(p) PROVE IInv' /\ timers' = timers
<1> DEFINE v == Arrive(World, p)
<1>1. Inv(World) /\ World.where[p] = "porting" /\ Becomes(v)
  BY TheWorld DEF IInv, EnterBattleground
<1>2. Inv(v) /\ v.timers = World.timers
  BY <1>1, ArriveKeeps
<1> HIDE DEF v
<1>3. QED
  BY <1>1, <1>2, QuietTimers, TheWorld

LEMMA LeaveBattlegroundInv == ASSUME IInv, NEW p \in Players, LeaveBattleground(p) PROVE IInv' /\ timers' = timers
<1> DEFINE i == World.bgId[p]
           v == RemovePlayerAtLeave(World, i, p)
<1>1. Inv(World) /\ World \in Worlds
  BY DEF IInv, Inv
<1>2. InWorld(World, p) /\ i \in Instances /\ Becomes(v)
  BY TheWorld DEF LeaveBattleground, Live
<1>3. Inv(v)
  BY <1>1, <1>2, LeaveKeeps
<1>4. v.timers = World.timers
  BY <1>1, <1>2, LeaveTimers
<1> HIDE DEF v
<1>5. QED
  BY <1>2, <1>3, <1>4, QuietTimers, TheWorld

(* Logout: the seat in the battleground is kept, the place in the queue is *)
(* not.                                                                    *)
LEMMA LoggedOutTimers ==
    ASSUME NEW w \in Worlds, NEW p
    PROVE  LoggedOut(w, p).timers = w.timers
<1> DEFINE w1 == LogOutOf(w, w.bgId[p], p)
           y == [w1 EXCEPT !.slot[p] = NotQueued]
           r == RemovePlayer(y, p, TRUE)
           w2 == IF IsQueued(w1, p) THEN r ELSE w1
<1>1. "timers" \in DOMAIN w1 /\ w1.timers = w.timers
  BY DEF Worlds, LogOutOf
<1> HIDE DEF w1
<1>2. "timers" \in DOMAIN y /\ y.timers = w.timers
  BY <1>1
<1> HIDE DEF y
<1>3. "timers" \in DOMAIN r /\ r.timers = w.timers
  BY <1>2, SameTimers
<1> HIDE DEF r
<1>4. "timers" \in DOMAIN w2 /\ w2.timers = w.timers
  BY <1>1, <1>3
<1>5. LoggedOut(w, p) =
        [w2 EXCEPT !.mishaps = @ + 1,
                   !.where[p] = IF @ = "inside" THEN "offline_inside" ELSE "offline"]
  BY DEF LoggedOut, r, y, w1
<1> HIDE DEF w2
<1>6. QED
  BY <1>4, <1>5

(* A logout on the way first arrives (Arrive), then leaves like any other. *)
LEMMA LogoutInv == ASSUME IInv, NEW p \in Players, Logout(p) PROVE IInv' /\ timers' = timers
<1> DEFINE w0 == IF World.where[p] = "porting" THEN Arrive(World, p) ELSE World
           v == LoggedOut(w0, p)
<1>1. Inv(World) /\ World \in Worlds
  BY DEF IInv, Inv
<1>2. Connected(World, p) /\ World.mishaps < MaxMishaps /\ Becomes(v)
  BY TheWorld DEF Logout, LoggedOut
<1>3. /\ Inv(w0) /\ w0.timers = World.timers /\ w0.mishaps = World.mishaps
      /\ Connected(w0, p) /\ w0.where[p] # "porting"
  <2>1. CASE World.where[p] = "porting"
    <3> DEFINE x == Arrive(World, p)
    <3>1. /\ Inv(x) /\ x.timers = World.timers /\ x.mishaps = World.mishaps
          /\ x.where[p] = "inside"
      BY <1>1, <2>1, ArriveKeeps
    <3>2. w0 = x
      BY <2>1
    <3> HIDE DEF x, w0
    <3>3. QED
      BY <3>1, <3>2 DEF Connected
  <2>2. CASE World.where[p] # "porting"
    BY <1>1, <1>2, <2>2
  <2>3. QED
    BY <2>1, <2>2
<1> HIDE DEF w0
<1>4. Inv(v)
  <2>1. CASE Live(w0, w0.bgId[p]) /\ p \in w0.bgs[w0.bgId[p]].players
    BY <1>2, <1>3, <2>1, LogoutInsideKeeps
  <2>2. CASE ~(Live(w0, w0.bgId[p]) /\ p \in w0.bgs[w0.bgId[p]].players)
    BY <1>2, <1>3, <2>2, LogoutOutsideKeeps
  <2>3. QED
    BY <2>1, <2>2
<1>5. v.timers = World.timers
  BY <1>3, LoggedOutTimers DEF Inv
<1> HIDE DEF v
<1>6. QED
  BY <1>2, <1>4, <1>5, QuietTimers, TheWorld

(* Login: back into the battle, or out of what is over.                    *)
LEMMA ReturnTimers ==
    ASSUME NEW w, Inv(w), NEW i \in Instances, NEW p \in w.bgs[i].players
    PROVE  AddPlayer([w EXCEPT !.slot[p] = i,
                               !.bgs[i].offline = WithoutOffline(@, p),
                               !.where[p] = "inside"], i, p).timers = w.timers
<1> DEFINE u == [w EXCEPT !.slot[p] = i,
                          !.bgs[i].offline = WithoutOffline(@, p),
                          !.where[p] = "inside"]
<1>1. "timers" \in DOMAIN u /\ u.timers = w.timers
  BY DEF Inv, Worlds
<1> HIDE DEF u
<1>2. AddPlayer(u, i, p).timers = u.timers
  BY <1>1 DEF AddPlayer
<1>3. QED
  BY <1>1, <1>2 DEF u

LEMMA LoginInsideInv == ASSUME IInv, NEW p \in Players, LoginInside(p) PROVE IInv' /\ timers' = timers
<1> DEFINE w == World
           i == w.bgId[p]
           member == Live(w, i) /\ p \in w.bgs[i].players
           returns == member /\ w.bgs[i].status # "wait_leave"
           back == AddPlayer([w EXCEPT !.slot[p] = i,
                                       !.bgs[i].offline = WithoutOffline(@, p),
                                       !.where[p] = "inside"], i, p)
           left == RemovePlayerAtLeave(w, i, p)
           Out(x) == [x EXCEPT !.bgId[p] = 0, !.where[p] = "outside"]
<1>1. Inv(w) /\ w \in Worlds
  BY DEF IInv, Inv
<1>2. w.where[p] = "offline_inside"
  BY TheWorld DEF LoginInside
<1>3. CASE returns
  <2>1. Becomes(back)
    BY <1>3, TheWorld DEF LoginInside
  <2>2. i \in Instances /\ p \in w.bgs[i].players /\ w.bgs[i].status # "wait_leave"
    BY <1>3 DEF Live
  <2> HIDE DEF w, i
  <2>3. Inv(back) /\ back.timers = w.timers
    BY <1>1, <1>2, <2>2, ReturnKeeps, ReturnTimers
  <2> HIDE DEF back
  <2>4. QED
    BY <2>1, <2>3, QuietTimers, TheWorld DEF w
<1>4. CASE member /\ ~returns
  <2>1. Becomes(Out(left))
    BY <1>4, TheWorld DEF LoginInside
  <2>2. i \in Instances /\ p \in w.bgs[i].players /\ w.bgs[i].status = "wait_leave"
    BY <1>4 DEF Live
  <2> HIDE DEF w, i
  <2>3. Inv(left) /\ left.bgs[i].players = w.bgs[i].players \ {p}
    BY <1>1, <2>2, SweepKeeps
  <2>4. LeftBattle(w, i, p, left)
    BY <1>1, <2>2, LeaveEffect
  <2> HIDE DEF left
  <2>5. left.timers = w.timers /\ left.where = w.where
    BY <1>2, <2>4 DEF LeftBattle, InWorld
  <2>6. p \notin QueuedPlayers(left) /\ \A j \in Instances : p \notin left.bgs[j].players
    <3>1. ~InWorld(left, p)
      BY <1>2, <2>5 DEF InWorld
    <3>2. p \notin QueuedPlayers(left)
      BY <2>3, <3>1, AwayIsNowhere
    <3>3. ASSUME NEW j \in Instances, p \in left.bgs[j].players PROVE FALSE
      <4>1. left.bgId[p] = j
        BY <2>3, <3>3, MemberIsLive
      <4>2. left.bgId = w.bgId
        BY <1>2, <2>4 DEF LeftBattle, InWorld
      <4>3. w.bgId[p] = i
        BY <1>1, <2>2, MemberIsLive
      <4>4. QED
        BY <2>3, <3>3, <4>1, <4>2, <4>3
    <3>4. QED
      BY <3>2, <3>3
  <2> DEFINE h == "outside"
             n == 0
             v == Moved(left, p, h, n)
  <2>7. h \in Places \ {"porting"} /\ n \in 0..MaxBattlegrounds
    BY BattlegroundConstants DEF Places
  <2>8. Out(left) = v
    BY <2>3 DEF Inv, Worlds, Moved
  <2> HIDE DEF h, n, Out
  <2>a. left.where[p] # "porting"
    BY <1>2, <2>5
  <2>9. Inv(v) /\ v.timers = left.timers
    BY <2>3, <2>6, <2>7, <2>a, MoveQuietly
  <2> HIDE DEF v
  <2>10. QED
    BY <2>1, <2>5, <2>8, <2>9, QuietTimers, TheWorld DEF w
<1>5. CASE ~member
  <2> DEFINE h == "outside"
             n == 0
             v == Moved(w, p, h, n)
  <2>1. Becomes(Out(w))
    BY <1>5, TheWorld DEF LoginInside
  <2>2. Out(w) = v
    BY <1>1 DEF Worlds, Moved
  <2>3. Becomes(Moved(World, p, h, n))
    BY <2>1, <2>2
  <2>4. h \in Places \ {"porting"} /\ n \in 0..MaxBattlegrounds
    BY BattlegroundConstants DEF Places
  <2>5. \A j \in Instances : p \notin w.bgs[j].players
    BY <1>1, <1>5, MemberIsLive
  <2>6. /\ ~InWorld(World, p) /\ World.where[p] # "porting"
        /\ \A j \in Instances : p \notin World.bgs[j].players
    BY <1>2, <2>5 DEF InWorld
  <2> HIDE DEF h, n
  <2>7. QED
    BY <2>3, <2>4, <2>6, Unqueued
<1>6. QED
  BY <1>3, <1>4, <1>5

LEMMA LoginInv == ASSUME IInv, NEW p \in Players, Login(p) PROVE IInv' /\ timers' = timers
<1>1. CASE where[p] = "offline" /\ Becomes([World EXCEPT !.where[p] = "outside"])
  <2> DEFINE h == "outside"
             n == World.bgId[p]
             v == Moved(World, p, h, n)
  <2>1. World \in Worlds /\ Inv(World)
    BY DEF IInv, Inv
  <2>2. v = [World EXCEPT !.where[p] = "outside"]
    <3> DEFINE w == World
    <3>1. w \in Worlds
      BY <2>1
    <3> HIDE DEF w
    <3>2. [w EXCEPT !.where[p] = "outside", !.bgId[p] = w.bgId[p]]
            = [w EXCEPT !.where[p] = "outside"]
      BY <3>1 DEF Worlds
    <3>3. QED
      BY <3>2 DEF w, Moved
  <2>3. Becomes(v)
    BY <1>1, <2>2
  <2>4. World.where[p] = "offline"
    BY <1>1, TheWorld
  <2>5. h \in Places \ {"porting"} /\ n \in 0..MaxBattlegrounds
    BY <2>1, WorldFields DEF Places
  <2>6. ~InWorld(World, p) /\ World.where[p] # "porting"
    BY <2>4 DEF InWorld
  <2>7. \A j \in Instances : p \notin World.bgs[j].players
    BY <2>1, <2>4, AwayIsNowhere
  <2> HIDE DEF h, n
  <2>8. QED
    BY <2>3, <2>5, <2>6, <2>7, Unqueued
<1>2. QED
  BY <1>1, LoginInsideInv DEF Login

(* The updates of a battleground and its end.                              *)
LEMMA RemoveOfflineTimers ==
    ASSUME NEW w \in Worlds, NEW i \in Instances
    PROVE  RemoveOffline(w, i) \in Worlds => RemoveOffline(w, i).timers = w.timers
<1> DEFINE list == w.bgs[i].offline
           p == Head(list)
           gone == list = <<>> \/ p \notin w.bgs[i].players
           left == RemovePlayerAtLeave(w, i, p)
           v == [left EXCEPT !.bgs[i].offline = Tail(@)]
<1>1. w.bgs[i].players \subseteq Players
  BY WorldFields DEF Battleground
<1>2. CASE gone
  BY <1>2 DEF RemoveOffline
<1>3. CASE ~gone
  <2>1. RemoveOffline(w, i) = v
    BY <1>3 DEF RemoveOffline
  <2>2. left \in Worlds /\ left.timers = w.timers
    BY <1>1, <1>3, LeaveTimers
  <2> HIDE DEF left
  <2>3. v.timers = left.timers
    BY <2>2 DEF Worlds
  <2> HIDE DEF v
  <2>4. QED
    BY <2>1, <2>2, <2>3
<1>4. QED
  BY <1>2, <1>3

LEMMA EndQuietly ==
    ASSUME NEW w, Inv(w), NEW i \in Instances, w.bgs[i].status # "none"
    PROVE  Inv(End(w, i)) /\ End(w, i).timers = w.timers
<1>1. Inv(End(w, i))
  BY EndKeeps
<1>2. w \in Worlds
  BY DEF Inv
<1>3. End(w, i).timers = w.timers
  BY <1>2, EndEffect
<1>4. QED
  BY <1>1, <1>3

LEMMA DeletedInv ==
    ASSUME IInv, NEW i \in Instances, World.bgs[i].players = {}, World.bgs[i].invited = Zero,
           Becomes([RemoveFromFreeSlots(World, i) EXCEPT !.bgs[i] = NoBattleground])
    PROVE  IInv' /\ timers' = timers
<1> DEFINE w == World
           u == RemoveFromFreeSlots(w, i)
           v == [u EXCEPT !.bgs[i] = NoBattleground]
<1>1. Inv(w) /\ w \in Worlds /\ Becomes(v)
  BY DEF IInv, Inv
<1>2. w.bgs[i].players = {} /\ w.bgs[i].invited = Zero
  OBVIOUS
<1> HIDE DEF w
<1>3. Inv(v)
  BY <1>1, <1>2, DeleteKeeps
<1>4. v.timers = w.timers
  BY <1>1 DEF RemoveFromFreeSlots, Worlds
<1> HIDE DEF v
<1>5. QED
  BY <1>1, <1>3, <1>4, QuietTimers, TheWorld DEF w

LEMMA StartedInv ==
    ASSUME IInv, NEW i \in Instances, World.bgs[i].status = "wait_join",
           Becomes([World EXCEPT !.bgs[i].status = "in_progress"])
    PROVE  IInv' /\ timers' = timers
<1> DEFINE w == World
           v == [w EXCEPT !.bgs[i].status = "in_progress"]
<1>1. Inv(w) /\ w \in Worlds /\ Becomes(v) /\ w.bgs[i].status = "wait_join"
  BY DEF IInv, Inv
<1> HIDE DEF w
<1>2. Inv(v)
  BY <1>1, StartKeeps
<1>3. v.timers = w.timers
  BY <1>1 DEF Worlds
<1> HIDE DEF v
<1>4. QED
  BY <1>1, <1>2, <1>3, QuietTimers, TheWorld DEF w

LEMMA EndedInv ==
    ASSUME IInv, NEW i \in Instances, World.bgs[i].status # "none", Becomes(End(World, i))
    PROVE  IInv' /\ timers' = timers
<1> DEFINE w == World
           v == End(w, i)
<1>1. Inv(w) /\ Becomes(v) /\ w.bgs[i].status # "none"
  BY DEF IInv
<1> HIDE DEF w
<1>2. Inv(v) /\ v.timers = w.timers
  BY <1>1, EndQuietly
<1> HIDE DEF v
<1>3. QED
  BY <1>1, <1>2, QuietTimers, TheWorld DEF w

LEMMA InProgressInv ==
    ASSUME IInv, NEW i \in Instances, World.bgs[i].status = "in_progress",
           NEW away \in BOOLEAN, NEW ends \in BOOLEAN,
           LET swept == IF away THEN RemoveOffline(World, i) ELSE World
           IN  Becomes(IF ends THEN End(swept, i) ELSE swept)
    PROVE  IInv' /\ timers' = timers
<1> DEFINE w == World
           u == IF away THEN RemoveOffline(w, i) ELSE w
           v == IF ends THEN End(u, i) ELSE u
<1>1. Inv(w) /\ w \in Worlds /\ Becomes(v) /\ w.bgs[i].status = "in_progress"
  BY DEF IInv, Inv
<1> HIDE DEF w
<1>2. Inv(u) /\ u.bgs[i].status = "in_progress"
  <2>1. w.bgs[i].status \in Running
    BY <1>1 DEF Running
  <2>2. Inv(RemoveOffline(w, i)) /\ RemoveOffline(w, i).bgs[i].status = "in_progress"
    BY <1>1, <2>1, RemoveOfflineKeeps
  <2>3. QED
    BY <1>1, <2>2
<1>3. u.timers = w.timers
  <2>1. away => RemoveOffline(w, i) \in Worlds
    BY <1>2 DEF Inv
  <2>2. away => RemoveOffline(w, i).timers = w.timers
    BY <1>1, <2>1, RemoveOfflineTimers
  <2>3. QED
    BY <2>2
<1> HIDE DEF u
<1>4. Inv(End(u, i)) /\ End(u, i).timers = u.timers
  BY <1>2, EndQuietly
<1>5. Inv(v) /\ v.timers = w.timers
  BY <1>2, <1>3, <1>4
<1> HIDE DEF v
<1>6. QED
  BY <1>1, <1>5, QuietTimers, TheWorld DEF w

LEMMA SweptInv ==
    ASSUME IInv, NEW i \in Instances, World.bgs[i].status = "wait_leave",
           Becomes(Swept(World, i))
    PROVE  IInv' /\ timers' = timers
<1> DEFINE w == World
           v == Swept(w, i)
<1>1. Inv(w) /\ Becomes(v) /\ w.bgs[i].status = "wait_leave"
  BY DEF IInv
<1> HIDE DEF w
<1>2. Inv(v) /\ v.timers = w.timers
  BY <1>1, SweptKeeps
<1> HIDE DEF v
<1>3. QED
  BY <1>1, <1>2, QuietTimers, TheWorld DEF w

LEMMA UpdateBattlegroundInv ==
    ASSUME IInv, NEW i \in Instances, NEW overdue \in BOOLEAN, NEW away \in BOOLEAN,
           UpdateBattleground(i, overdue, away)
    PROVE  IInv' /\ timers' = timers
<1> DEFINE b == World.bgs[i]
           swept == IF away THEN RemoveOffline(World, i) ELSE World
           tooFew == \E t \in Teams : swept.bgs[i].count[t] < MinPlayersPerTeam
           ends == overdue /\ tooFew
<1>1. \/ /\ b.players = {} /\ b.invited = Zero
         /\ Becomes([RemoveFromFreeSlots(World, i) EXCEPT !.bgs[i] = NoBattleground])
      \/ /\ b.status = "wait_join"
         /\ Becomes([World EXCEPT !.bgs[i].status = "in_progress"])
      \/ b.status = "wait_join" /\ Becomes(End(World, i))
      \/ b.status = "in_progress" /\ Becomes(IF ends THEN End(swept, i) ELSE swept)
      \/ b.status = "wait_leave" /\ Becomes(Swept(World, i))
  BY TheWorld DEF UpdateBattleground, Swept
<1>2. ends \in BOOLEAN
  OBVIOUS
<1> HIDE DEF ends
<1>3. CASE b.players = {} /\ b.invited = Zero
           /\ Becomes([RemoveFromFreeSlots(World, i) EXCEPT !.bgs[i] = NoBattleground])
  BY <1>3, DeletedInv
<1>4. CASE b.status = "wait_join" /\ Becomes([World EXCEPT !.bgs[i].status = "in_progress"])
  BY <1>4, StartedInv
<1>5. CASE b.status = "wait_join" /\ Becomes(End(World, i))
  BY <1>5, EndedInv
<1>6. CASE b.status = "in_progress" /\ Becomes(IF ends THEN End(swept, i) ELSE swept)
  BY <1>2, <1>6, InProgressInv
<1>7. CASE b.status = "wait_leave" /\ Becomes(Swept(World, i))
  BY <1>7, SweptInv
<1>8. QED
  BY <1>1, <1>3, <1>4, <1>5, <1>6, <1>7

LEMMA WinInv == ASSUME IInv, NEW i \in Instances, Win(i) PROVE IInv' /\ timers' = timers
<1>1. World.bgs[i].status # "none" /\ Becomes(End(World, i))
  BY TheWorld DEF Win
<1>2. QED
  BY <1>1, EndedInv

(* Time passes.                                                            *)
LEMMA TickInv == ASSUME IInv, Tick PROVE IInv'
<1> DEFINE w == RunTimers(World)
           u == [w EXCEPT !.scheduled = FALSE]
<1>1. Inv(w) /\ TimersAhead(w)
  BY RunTimersKeeps DEF IInv
<1>2. CASE ~w.scheduled
  <2>1. Becomes(w)
    BY <1>2 DEF Tick
  <2> HIDE DEF w
  <2>2. QED
    BY <1>1, <2>1, StepInv
<1>3. CASE w.scheduled
  <2>1. PICK type, expired : Becomes(UpdateQueue(u, type, expired))
    BY <1>3 DEF Tick
  <2> DEFINE v == UpdateQueue(u, type, expired)
  <2> HIDE DEF w
  <2>2. Inv(u)
    BY <1>1, ScheduledKeeps
  <2>3. u.timers = w.timers
    BY <1>1 DEF Inv, Worlds
  <2>4. TimersAhead(u)
    BY <1>1, <2>3 DEF TimersAhead
  <2> HIDE DEF u
  <2>5. Inv(v) /\ TimersAhead(v) /\ SlotsLast(u, v)
    BY <2>2, <2>4, UpdateKeeps
  <2> HIDE DEF v
  <2>6. QED
    BY <2>1, <2>5, StepInv DEF v
<1>4. QED
  BY <1>2, <1>3

(* An invitation with time left outlives the update: the events spare it   *)
(* and the queue's update invites only who is not invited.                 *)
LEMMA TickLasts ==
    ASSUME IInv, Tick, NEW p \in Players, Standing(World, p)
    PROVE  slot'[p] = slot[p]
<1> DEFINE w == RunTimers(World)
           u == [w EXCEPT !.scheduled = FALSE]
<1>1. Inv(w) /\ TimersAhead(w) /\ Lasting(World, w)
  BY RunTimersKeeps DEF IInv
<1>2. w.slot[p] = slot[p]
  BY <1>1, TheWorld DEF Lasting
<1>3. slot[p] \notin {NotQueued, 0}
  <2>1. World.slot[p] = GroupOf(World, p).invited /\ GroupOf(World, p) \in Group
    BY QueuedPlayer DEF IInv, Standing
  <2>2. QED
    BY <2>1, TheWorld DEF Standing, Group, NotQueued
<1>4. CASE ~w.scheduled
  <2>1. Becomes(w)
    BY <1>4 DEF Tick
  <2> HIDE DEF w
  <2>2. QED
    BY <1>2, <2>1 DEF Becomes
<1>5. CASE w.scheduled
  <2>1. PICK type, expired : Becomes(UpdateQueue(u, type, expired))
    BY <1>5 DEF Tick
  <2> DEFINE v == UpdateQueue(u, type, expired)
  <2> HIDE DEF w
  <2>2. Inv(u)
    BY <1>1, ScheduledKeeps
  <2>3. u.timers = w.timers /\ u.slot = w.slot
    BY <1>1 DEF Inv, Worlds
  <2>4. TimersAhead(u)
    BY <1>1, <2>3 DEF TimersAhead
  <2> HIDE DEF u
  <2>5. SlotsLast(u, v)
    BY <2>2, <2>4, UpdateKeeps
  <2> HIDE DEF v
  <2>6. v.slot[p] = slot[p]
    BY <1>2, <1>3, <2>3, <2>5 DEF SlotsLast
  <2>7. Becomes(v)
    BY <2>1 DEF v
  <2>8. QED
    BY <2>6, <2>7 DEF Becomes
<1>6. QED
  BY <1>4, <1>5

(* The inductive invariant holds in every state.                           *)
LEMMA InitInv == ASSUME Init PROVE IInv
<1> DEFINE w == World
<1>1. /\ \A p \in Players : w.where[p] = "outside" /\ w.slot[p] = NotQueued
      /\ \A l \in Lists : w.queue[l] = << >>
      /\ \A i \in Instances : w.bgs[i] = NoBattleground
      /\ w.freeSlots = << >> /\ w.timers = {}
  BY TheWorld DEF Init
<1>2. w \in Worlds
  <2>1. where \in [Players -> Places] /\ bgId \in [Players -> 0..MaxBattlegrounds]
        /\ slot \in [Players -> {NotQueued} \cup 0..MaxBattlegrounds]
    BY BattlegroundConstants DEF Init, Places
  <2>2. queue \in [Lists -> Seq(Group)] /\ freeSlots \in Seq(Instances)
    BY DEF Init
  <2>3. bgs \in [Instances -> Battleground]
    BY NoBattlegroundType DEF Init
  <2>4. timers \in SUBSET Timer /\ scheduled \in BOOLEAN /\ mishaps \in 0..MaxMishaps
    <3>1. 0 \in 0..MaxMishaps
      BY BattlegroundConstants
    <3>2. timers \in SUBSET Timer
      BY DEF Init
    <3>3. QED
      BY <3>1, <3>2 DEF Init
  <2>5. QED
    BY <2>1, <2>2, <2>3, <2>4 DEF World, Worlds
<1>3. \A i \in Instances : /\ w.bgs[i].status = "none" /\ w.bgs[i].players = {}
                           /\ w.bgs[i].invited = Zero /\ w.bgs[i].count = Zero
                           /\ w.bgs[i].lost = Zero
  BY <1>1 DEF NoBattleground
<1>4. \A l \in Lists : DOMAIN w.queue[l] = {} /\ ToSet(w.queue[l]) = {}
  BY <1>1 DEF ToSet
<1>5. QueuedPlayers(w) = {}
  BY <1>4 DEF QueuedPlayers, GroupsOf
<1> HIDE DEF w
<1>6. MembersAreInside(w) /\ DeadAreEmpty(w) /\ OfflineOK(w) /\ HoldersKeepSlots(w)
  BY <1>1, <1>3 DEF MembersAreInside, DeadAreEmpty, OfflineOK, OfflineExact, Running,
                    HoldersKeepSlots, HolderKeepsSlot
<1>7. FreeSlotsOK(w)
  <2>1. IsInjective(w.freeSlots) /\ ToSet(w.freeSlots) = {}
    BY <1>1 DEF IsInjective, ToSet
  <2>2. QED
    BY <1>3, <2>1 DEF FreeSlotsOK, Running
<1>8. Waiting(w)
  BY <1>4 DEF Waiting, OnePlace, QueuedOK, TimersOK
<1>9. PlacesOK(w)
  <2>1. ASSUME NEW i \in Instances, NEW t \in Teams
        PROVE  HoldersOf(w, i, t) = {} /\ MembersOf(w, i, t) = {}
    <3>1. \A p \in Players : ~Holds(w, p, i)
      BY <1>1, <1>3, <1>5, BattlegroundConstants DEF Holds, InvitedTo, Instances
    <3>2. QED
      BY <1>3, <3>1 DEF HoldersOf, MembersOf
  <2>2. Cardinality({}) = 0
    BY FS_EmptySet
  <2>3. ASSUME NEW i \in Instances, NEW t \in Teams
        PROVE  /\ Cardinality(HoldersOf(w, i, t)) = 0 /\ Cardinality(MembersOf(w, i, t)) = 0
               /\ w.bgs[i].invited[t] = 0 /\ w.bgs[i].count[t] = 0
               /\ w.bgs[i].lost[t] = 0
    BY <1>3, <2>1, <2>2 DEF Zero
  <2>4. QED
    BY <2>3, TeamSizes DEF PlacesOK
<1>10. TimersAhead(w)
  BY <1>1 DEF TimersAhead
<1>11. QED
  BY <1>2, <1>6, <1>7, <1>8, <1>9, <1>10 DEF Inv, IInv, w

(* Only the passing of time changes the timers' events and takes back an   *)
(* invitation for its age.                                                 *)
LEMMA NextQuietly ==
    ASSUME IInv, [Next]_vars, ~Tick
    PROVE  IInv' /\ timers' = timers
<1>1. ASSUME NEW p \in Players, Join(p) PROVE IInv' /\ timers' = timers
  BY <1>1, JoinInv
<1>2. ASSUME NEW p \in Players, JoinRefused(p) PROVE IInv' /\ timers' = timers
  BY <1>2, JoinRefusedInv
<1>3. ASSUME NEW p \in Players, NEW teleported \in BOOLEAN, AcceptPort(p, teleported)
      PROVE  IInv' /\ timers' = timers
  BY <1>3, AcceptPortInv
<1>4. ASSUME NEW p \in Players, LeaveQueue(p) PROVE IInv' /\ timers' = timers
  BY <1>4, LeaveQueueInv
<1>5. ASSUME NEW p \in Players, EnterBattleground(p) PROVE IInv' /\ timers' = timers
  BY <1>5, EnterInv
<1>6. ASSUME NEW p \in Players, LeaveBattleground(p) PROVE IInv' /\ timers' = timers
  BY <1>6, LeaveBattlegroundInv
<1>7. ASSUME NEW p \in Players, Logout(p) PROVE IInv' /\ timers' = timers
  BY <1>7, LogoutInv
<1>8. ASSUME NEW p \in Players, Login(p) PROVE IInv' /\ timers' = timers
  BY <1>8, LoginInv
<1>9. ASSUME NEW leader \in Players, NEW S \in SUBSET Players, JoinAsGroup(leader, S)
      PROVE  IInv' /\ timers' = timers
  BY <1>9, JoinAsGroupInv
<1>10. ASSUME NEW i \in Instances, NEW overdue \in BOOLEAN, NEW away \in BOOLEAN,
              UpdateBattleground(i, overdue, away)
       PROVE  IInv' /\ timers' = timers
  BY <1>10, UpdateBattlegroundInv
<1>11. ASSUME NEW i \in Instances, Win(i) PROVE IInv' /\ timers' = timers
  BY <1>11, WinInv
<1>12. CASE UNCHANGED vars
  <2>1. World' = World /\ timers' = timers
    BY <1>12 DEF vars, World
  <2>2. QED
    BY <2>1 DEF IInv
<1>13. QED
  BY <1>1, <1>2, <1>3, <1>4, <1>5, <1>6, <1>7, <1>8, <1>9, <1>10, <1>11, <1>12 DEF Next

LEMMA NextInv == ASSUME IInv, [Next]_vars PROVE IInv'
BY NextQuietly, TickInv

(* In every state of a behaviour the queue, the players' slots, the        *)
(* battlegrounds' numbers and the timers agree as Inv says: the            *)
(* strengthening from which the properties below follow.                   *)
THEOREM BattlegroundsInvariant == Spec => []IInv
<1>1. Init => IInv
  BY InitInv
<1>2. IInv /\ [Next]_vars => IInv'
  BY NextInv
<1>3. QED
  BY <1>1, <1>2, PTL DEF Spec

-----------------------------------------------------------------------------
(* What follows.                                                           *)

LEMMA InvType == ASSUME IInv PROVE TypeOK
<1> DEFINE w == World
<1>1. Inv(w) /\ w \in Worlds /\ TimersAhead(w)
  BY DEF IInv, Inv
<1> HIDE DEF w
<1>2. w.timers \subseteq [player : Players, instance : Instances, left : 1..AcceptWait]
  <2>1. ASSUME NEW e \in w.timers
        PROVE  e \in [player : Players, instance : Instances, left : 1..AcceptWait]
    <3>1. e \in Timer /\ e.left > 0
      BY <1>1, WorldFields DEF TimersAhead
    <3>2. e.left \in 1..AcceptWait
      BY <3>1, BattlegroundConstants DEF Timer
    <3>3. QED
      BY <3>1, <3>2 DEF Timer
  <2>2. QED
    BY <2>1
<1>3. w.bgs \in [Instances -> [status : Statuses, invited : [Teams -> Nat], lost : [Teams -> Nat],
                               count : [Teams -> Nat], players : SUBSET Players, offline : Seq(Players)]]
  <2>1. ASSUME NEW i \in Instances
        PROVE  w.bgs[i] \in [status : Statuses, invited : [Teams -> Nat], lost : [Teams -> Nat],
                             count : [Teams -> Nat], players : SUBSET Players, offline : Seq(Players)]
    <3> DEFINE b == w.bgs[i]
    <3>1. b \in Battleground
      BY <1>1, WorldFields
    <3>2. ASSUME NEW t \in Teams PROVE b.invited[t] \in Nat /\ b.count[t] \in Nat
      <4>1. b.invited[t] \in Int /\ b.count[t] \in Int
        BY <3>1 DEF Battleground
      <4>2. HoldersOf(w, i, t) \in SUBSET Players /\ MembersOf(w, i, t) \in SUBSET Players
        BY <3>1 DEF HoldersOf, MembersOf, Battleground
      <4>3. Cardinality(HoldersOf(w, i, t)) \in Nat /\ Cardinality(MembersOf(w, i, t)) \in Nat
        BY <4>2, PlayersAreFinite, FS_Subset, FS_CardinalityType
      <4>4. /\ b.invited[t] = Cardinality(HoldersOf(w, i, t)) + b.lost[t]
            /\ Cardinality(MembersOf(w, i, t)) <= b.count[t]
        BY <1>1 DEF Inv, PlacesOK
      <4>5. b.lost[t] \in Nat
        BY <3>1 DEF Battleground
      <4> HIDE DEF b
      <4>6. QED
        BY <4>1, <4>3, <4>4, <4>5
    <3>3. b.invited \in [Teams -> Nat] /\ b.count \in [Teams -> Nat]
      BY <3>1, <3>2 DEF Battleground
    <3>4. QED
      BY <3>1, <3>3 DEF Battleground
  <2>2. QED
    BY <1>1, <2>1, WorldFields
<1>4. QED
  BY <1>1, <1>2, <1>3, TheWorld, WorldFields DEF TypeOK, w, Statuses, Places

LEMMA InvPlaces == ASSUME IInv PROVE PlacesAreCounted
<1>1. \A i \in Instances, t \in Teams : Holders(i, t) = HoldersOf(World, i, t)
  BY TheWorld DEF Holders, HoldersOf, Holds
<1>2. PlacesOK(World)
  BY DEF IInv, Inv
<1>3. QED
  BY <1>1, <1>2, TheWorld DEF PlacesOK, PlacesAreCounted

LEMMA InvSlots == ASSUME IInv PROVE QueueAgreesWithSlots
<1>1. Inv(World) /\ Waiting(World)
  BY DEF IInv, Inv
<1>2. \A p \in QueuedPlayers(World) :
        Connected(World, p) /\ slot[p] = GroupOf(World, p).invited
  BY <1>1, QueuedPlayer, TheWorld DEF InWorld, Connected
<1>3. OnePlace(queue) /\ InTeams(queue)
  BY <1>1, InTeamsOf, TheWorld
<1>4. QED
  BY <1>2, <1>3 DEF OnePlace, InTeams, QueueAgreesWithSlots

LEMMA InvOffline == ASSUME IInv PROVE OfflineQueueIsExact
BY TheWorld DEF IInv, Inv, OfflineOK, OfflineExact, Running, OfflineQueueIsExact

LEMMA InvFreeSlots == ASSUME IInv PROVE FreeSlotsAreExact
BY TheWorld DEF IInv, Inv, FreeSlotsOK, Running, FreeSlotsAreExact

LEMMA InvTimers == ASSUME IInv PROVE TimersAreExact
<1>1. Inv(World) /\ Waiting(World) /\ TimersAhead(World) /\ World \in Worlds
  BY DEF IInv, Inv
<1>2. ASSUME NEW p \in QueuedPlayers(World), GroupOf(World, p).invited # 0
      PROVE  LET g == GroupOf(World, p)
             IN  /\ g.left > 0
                 /\ [player |-> p, instance |-> g.invited, left |-> g.left] \in timers
  <2> DEFINE g == GroupOf(World, p)
             e == [player |-> p, instance |-> g.invited, left |-> g.left]
  <2>1. PICK l \in Lists : \E k \in DOMAIN World.queue[l] :
                             World.queue[l][k] = g /\ p \in g.players
    BY <1>1, PositionOf
  <2>2. e \in World.timers
    BY <1>1, <1>2, <2>1 DEF Waiting, TimersOK
  <2>3. e.left > 0 /\ e.left = g.left
    BY <1>1, <2>2 DEF TimersAhead
  <2>4. QED
    BY <2>2, <2>3, TheWorld
<1>3. QED
  BY <1>2 DEF TimersAreExact

(* Every handler leaves values of the model's types: no number of invited  *)
(* or present players falls below zero, whoever logs out or leaves when.   *)
THEOREM TypeCorrect == Spec => []TypeOK
BY BattlegroundsInvariant, InvType, PTL

(* Whoever is invited to a battleground, on the way to it or in it is      *)
(* counted there, so Battleground::Update deletes none under a player, and *)
(* no team is invited beyond its size.                                     *)
THEOREM PlacesCounted == Spec => []PlacesAreCounted
BY BattlegroundsInvariant, InvPlaces, PTL

(* A queued player is connected, in one group of the own team, and the     *)
(* player's slot names the instance that the group is invited to.          *)
THEOREM QueueAgrees == Spec => []QueueAgreesWithSlots
BY BattlegroundsInvariant, InvSlots, PTL

(* The offline queue of a battle holds its offline players, each once.     *)
THEOREM OfflineQueueExact == Spec => []OfflineQueueIsExact
BY BattlegroundsInvariant, InvOffline, PTL

(* The free-slot queue holds every battleground with room, none twice, and *)
(* no pointer to one that has ended or was deleted.                        *)
THEOREM FreeSlotsExact == Spec => []FreeSlotsAreExact
BY BattlegroundsInvariant, InvFreeSlots, PTL

(* Every invitation has the removal event that takes it back when it is    *)
(* not accepted.                                                           *)
THEOREM TimersExact == Spec => []TimersAreExact
BY BattlegroundsInvariant, InvTimers, PTL

LEMMA StepLasts ==
    ASSUME IInv, [Next]_vars, NEW p \in QueuedPlayers(World), timers' # timers,
           GroupOf(World, p).invited # 0, GroupOf(World, p).left > 1
    PROVE  slot'[p] = slot[p]
<1>1. Tick
  BY NextQuietly
<1>2. p \in Players
  BY QueuedPlayer DEF IInv
<1>3. Standing(World, p)
  BY DEF Standing
<1>4. QED
  BY <1>1, <1>2, <1>3, TickLasts

(* The passing of time takes back only the invitations whose own time is   *)
(* over: an event of an earlier invitation, which is never withdrawn,      *)
(* finds another instance or another time left.                            *)
THEOREM InvitationsStand == Spec => InvitationsLast
<1>1. IInv /\ [Next]_vars =>
        [\A p \in QueuedPlayers(World) :
           timers' # timers /\ GroupOf(World, p).invited # 0 /\ GroupOf(World, p).left > 1 =>
             slot'[p] = slot[p]]_vars
  BY StepLasts
<1>2. QED
  BY <1>1, BattlegroundsInvariant, PTL DEF Spec, InvitationsLast
=============================================================================
