------------------------- MODULE MapUpdater_proofs --------------------------
(***************************************************************************)
(* Theorems about MapUpdater, for any number of workers, maps, instances   *)
(* and ticks: the count of pending requests is exact and the barrier of a  *)
(* tick holds.                                                             *)
(*                                                                         *)
(* The inductive invariant IInv adds to the two what a worker may hold in  *)
(* each of its states (Working), when nothing is pending (Quiet), and      *)
(* where every map is in the course of a tick: not yet scheduled, queued,  *)
(* held, to be visited, updated or spared, in one of these places and in   *)
(* no other (InOnePlace), and in one of them for sure (InSomePlace).       *)
(***************************************************************************)
EXTENDS MapUpdater, DataFacts

Holders == {w \in Worker : request[w] # null}

(* What a worker holds in each of its states.                              *)
Working ==
    \A w \in Worker :
        /\ request[w] # null => pc[w] \in {"popped", "updating"}
        /\ pc[w] = "updating" => request[w] # null
        /\ pc[w] = "popped" /\ request[w] = null => _shutdown
        /\ visit[w] # {} => pc[w] = "updating"
        /\ visit[w] \subseteq InstancesOf(request[w])

(* The steps of the world thread at which no request exists.               *)
Serial == {"outside", "delayed", "deactivate", "cancel", "join", "ended"}

Quiet ==
    /\ main \in Serial => pending_requests = 0
    /\ _cancelationToken =>
         main \in {"wait", "blocked", "cancel", "join", "ended"} /\ pending_requests = 0
    /\ main \in {"cancel", "join", "ended"} => _cancelationToken
    /\ _shutdown => _cancelationToken
    /\ unscheduled # {} => main = "schedule"

(* Requests are for maps that exist, and an instance has its base map.     *)
OfLoadedMaps ==
    /\ unscheduled \subseteq loaded
    /\ Queued \subseteq loaded
    /\ \A w \in Worker : request[w] # null => request[w] \in loaded
    /\ \A i \in loaded \intersect Instance : Parent[i] \in loaded

(* A map is in one place only.                                             *)
Untouched(m) == updated[m] = 0 /\ m \notin Queued /\ \A w \in Worker : request[w] # m

InOnePlace ==
    /\ IsInjective(_queue)
    /\ \A w \in Worker : request[w] # null =>
         /\ request[w] \notin Queued
         /\ request[w] \notin spared
         /\ updated[request[w]] = IF pc[w] = "updating" THEN 1 ELSE 0
         /\ \A v \in Worker \ {w} : request[v] # request[w]
    /\ \A m \in Queued : updated[m] = 0 /\ m \notin spared
    /\ \A m \in unscheduled : Untouched(m)
    /\ \A w \in Worker : \A i \in visit[w] : Untouched(i) /\ i \notin spared
    /\ \A i \in spared : updated[i] = 0
    /\ \A i \in Instance :
         updated[Parent[i]] = 0 => Untouched(i) /\ i \notin spared

(* Between the beginning of a tick and its end every map is in some place. *)
BaseInPlace(m) ==
    \/ m \in unscheduled \/ m \in Queued
    \/ \E w \in Worker : request[w] = m
    \/ updated[m] = 1

InstanceInPlace(i) ==
    \/ updated[Parent[i]] = 0 \/ i \in Queued
    \/ \E w \in Worker : request[w] = i \/ i \in visit[w]
    \/ updated[i] = 1 \/ i \in spared

InSomePlace ==
    main \in {"schedule", "wait", "blocked", "delayed"} /\ ~_cancelationToken =>
      /\ \A m \in loaded \intersect BaseMap : BaseInPlace(m)
      /\ \A i \in loaded \intersect Instance : InstanceInPlace(i)

IInv ==
    /\ TypeOK
    /\ PendingIsExact
    /\ Working
    /\ Quiet
    /\ OfLoadedMaps
    /\ InOnePlace
    /\ InSomePlace

-----------------------------------------------------------------------------
(* A worker that takes a request, and one that has finished it, change the *)
(* number of holders by one.                                               *)
LEMMA HoldersLemma ==
    ASSUME TypeOK
    PROVE  /\ IsFiniteSet(Holders) /\ Cardinality(Holders) \in Nat
           /\ Holders = {} <=> Cardinality(Holders) = 0
<1>1. IsFiniteSet(Holders)
  BY FS_Subset, MapsAssumption DEF Holders
<1>2. QED
  BY <1>1, FS_CardinalityType, FS_EmptySet

(* A worker that takes a request is one more holder.                       *)
LEMMA TakeLemma ==
    ASSUME TypeOK, NEW w \in Worker, NEW m \in Map, request[w] = null,
           request' = [request EXCEPT ![w] = m]
    PROVE  Cardinality(Holders') = Cardinality(Holders) + 1
<1>1. Holders' = Holders \union {w} /\ w \notin Holders
  BY MapsAssumption DEF Holders, TypeOK
<1>2. QED
  BY <1>1, HoldersLemma, FS_AddElement

(* A worker that finishes its request is one holder fewer.                 *)
LEMMA FinishLemma ==
    ASSUME TypeOK, NEW w \in Worker, request[w] # null,
           request' = [request EXCEPT ![w] = null]
    PROVE  Cardinality(Holders') = Cardinality(Holders) - 1
<1>1. Holders' = Holders \ {w} /\ w \in Holders
  BY DEF Holders, TypeOK
<1>2. QED
  BY <1>1, HoldersLemma, FS_RemoveElement

(* Without a pending request every worker is idle.                         *)
LEMMA PendingLemma ==
    ASSUME IInv
    PROVE  /\ \A w \in Worker : request[w] # null => pending_requests > 0
           /\ pending_requests = 0 =>
                /\ _queue = << >> /\ Queued = {}
                /\ \A w \in Worker : request[w] = null /\ visit[w] = {} /\ pc[w] # "updating"
<1> USE DEF IInv
<1>1. pending_requests = Len(_queue) + Cardinality(Holders)
  BY DEF PendingIsExact, Holders
<1>2. /\ Cardinality(Holders) \in Nat
      /\ Holders = {} <=> Cardinality(Holders) = 0
  BY HoldersLemma
<1>3. _queue \in Seq(Map) /\ Len(_queue) \in Nat
  BY DEF TypeOK
<1>4. \A w \in Worker : request[w] # null => pending_requests > 0
  BY <1>1, <1>2, <1>3 DEF Holders
<1>5. ASSUME pending_requests = 0
      PROVE  /\ _queue = << >> /\ Queued = {}
             /\ \A w \in Worker : request[w] = null /\ visit[w] = {} /\ pc[w] # "updating"
  <2>1. Len(_queue) = 0 /\ Holders = {}
    BY <1>1, <1>2, <1>3, <1>5
  <2>2. _queue = << >>
    BY <1>3, <2>1, EmptySeq
  <2>3. Queued = {}
    BY <2>2 DEF Queued, ToSet
  <2>4. QED
    BY <2>1, <2>2, <2>3 DEF Holders, Working
<1>6. QED
  BY <1>4, <1>5

(* Who is woken.                                                           *)
WorkerStates == {"check", "waiting", "popped", "updating", "exited"}

(* notify_one sends a waiting worker to look at the queue, and nobody      *)
(* else.                                                                   *)
LEMMA NotifyOneLemma ==
    ASSUME pc \in [Worker -> WorkerStates], NotifyOne(pc)
    PROVE  /\ pc' \in [Worker -> WorkerStates]
           /\ \A w \in Worker : pc'[w] # pc[w] => pc[w] = "waiting" /\ pc'[w] = "check"
  BY DEF NotifyOne, WorkerStates

-----------------------------------------------------------------------------
(* The steps of the world thread.                                          *)

(* Where the maps are does not depend on what the world thread does next.  *)
LEMMA PlacesUnchanged ==
    ASSUME IInv, UNCHANGED <<loaded, unscheduled, _queue, _shutdown, pending_requests,
                             workerVars, history>>
    PROVE  /\ PendingIsExact' /\ Working' /\ OfLoadedMaps' /\ InOnePlace'
           /\ \A m : BaseInPlace(m)' = BaseInPlace(m)
           /\ \A i : InstanceInPlace(i)' = InstanceInPlace(i)
<1> USE DEF workerVars, history
<1>1. Queued' = Queued
  BY DEF Queued
<1>2. PendingIsExact'
  BY DEF IInv, PendingIsExact
<1>3. Working'
  BY DEF IInv, Working, InstancesOf
<1>4. OfLoadedMaps'
  BY <1>1 DEF IInv, OfLoadedMaps
<1>5. InOnePlace'
  BY <1>1 DEF IInv, InOnePlace, Untouched
<1>6. /\ \A m : BaseInPlace(m)' = BaseInPlace(m)
      /\ \A i : InstanceInPlace(i)' = InstanceInPlace(i)
  BY <1>1 DEF BaseInPlace, InstanceInPlace
<1>7. QED
  BY <1>2, <1>3, <1>4, <1>5, <1>6

(* The world thread's steps that leave the queue and the maps alone keep   *)
(* the invariant.                                                          *)
LEMMA MainMoves ==
    ASSUME IInv,
           \/ AllScheduled \/ Wait \/ SpuriousReturn \/ DelayedUpdate
           \/ SetToken \/ Join \/ UNCHANGED vars
    PROVE  IInv'
<1> USE DEF AllScheduled, Wait, SpuriousReturn, DelayedUpdate, SetToken, Join, vars,
            mainVars, queueVars, workerVars, history
<1>1. UNCHANGED <<loaded, unscheduled, _queue, _shutdown, pending_requests,
                  workerVars, history>>
  OBVIOUS
<1>2. /\ PendingIsExact' /\ Working' /\ OfLoadedMaps' /\ InOnePlace'
      /\ \A m : BaseInPlace(m)' = BaseInPlace(m)
      /\ \A i : InstanceInPlace(i)' = InstanceInPlace(i)
  BY <1>1, PlacesUnchanged
<1>3. TypeOK'
  BY DEF IInv, TypeOK
<1>4. pending_requests \in Nat
  BY DEF IInv, TypeOK
<1>5. Quiet'
  BY <1>4 DEF IInv, Quiet, Serial
<1>6. InSomePlace'
  <2> SUFFICES ASSUME main' \in {"schedule", "wait", "blocked", "delayed"},
                      ~_cancelationToken'
               PROVE  /\ \A m \in loaded' \intersect BaseMap : BaseInPlace(m)'
                      /\ \A i \in loaded' \intersect Instance : InstanceInPlace(i)'
    BY DEF InSomePlace
  <2>1. main \in {"schedule", "wait", "blocked", "delayed"} /\ ~_cancelationToken
    OBVIOUS
  <2>2. loaded' = loaded
    OBVIOUS
  <2>3. QED
    BY <1>2, <2>1, <2>2 DEF IInv, InSomePlace
<1>7. QED
  BY <1>2, <1>3, <1>5, <1>6 DEF IInv

(* A player who enters a new map while nothing is being updated.           *)
LEMMA CreateMapStep ==
    ASSUME IInv, NEW m \in Map, CreateMap(m)
    PROVE  IInv'
<1> USE DEF CreateMap, mainVars, queueVars, workerVars, history
<1>1. main = "outside" /\ pending_requests = 0
  BY DEF IInv, Quiet, Serial
<1>2. \A w \in Worker : request[w] = null /\ visit[w] = {} /\ pc[w] # "updating"
  BY <1>1, PendingLemma
<1>3. loaded \subseteq loaded' /\ loaded' \subseteq Map
  BY MapsAssumption DEF IInv, TypeOK, Map
<1>4. TypeOK'
  BY <1>3 DEF IInv, TypeOK
<1>5. PendingIsExact' /\ Quiet' /\ InOnePlace'
  BY DEF IInv, PendingIsExact, Quiet, InOnePlace, Untouched, Queued
<1>6. Working'
  BY <1>2 DEF IInv, Working
<1>7. OfLoadedMaps'
  BY <1>2, <1>3, MapsAssumption DEF IInv, OfLoadedMaps, Queued, Map
<1>8. InSomePlace'
  BY <1>1 DEF InSomePlace
<1>9. QED
  BY <1>4, <1>5, <1>6, <1>7, <1>8 DEF IInv

(* All maps are to be updated again.                                       *)
LEMMA BeginTickStep ==
    ASSUME IInv, BeginTick
    PROVE  IInv'
<1> USE DEF BeginTick, mainVars, queueVars, workerVars
<1>1. pending_requests = 0 /\ ~_cancelationToken
  BY DEF IInv, Quiet, Serial
<1>2. /\ Queued = {} /\ Queued' = {}
      /\ \A w \in Worker : request[w] = null /\ visit[w] = {} /\ pc[w] # "updating"
  BY <1>1, PendingLemma DEF Queued
<1>3. TypeOK'
  <2>1. ticks' \in 0..MaxTicks
    BY MapsAssumption DEF IInv, TypeOK
  <2>2. QED
    BY <2>1 DEF IInv, TypeOK
<1>4. PendingIsExact' /\ Working' /\ OfLoadedMaps'
  BY <1>2 DEF IInv, PendingIsExact, Working, OfLoadedMaps, InstancesOf
<1>5. Quiet'
  BY <1>1 DEF IInv, Quiet, Serial
<1>6. \A m \in Map : Untouched(m)'
  BY <1>2, MapsAssumption DEF Untouched
<1>7. InOnePlace'
  <2>1. IsInjective(_queue')
    BY DEF IInv, InOnePlace
  <2>2. \A m \in unscheduled' : m \in Map
    BY DEF Map
  <2>3. \A i \in Instance : i \in Map
    BY DEF Map
  <2>4. QED
    BY <1>2, <1>6, <2>1, <2>2, <2>3 DEF InOnePlace
<1>8. InSomePlace'
  <2>1. \A i \in Instance : updated'[Parent[i]] = 0
    BY MapsAssumption DEF Map
  <2>2. QED
    BY <2>1 DEF InSomePlace, BaseInPlace, InstanceInPlace
<1>9. QED
  BY <1>3, <1>4, <1>5, <1>7, <1>8 DEF IInv

(* No request is left when the maps are deleted.                           *)
LEMMA UnloadAllStep ==
    ASSUME IInv, UnloadAll
    PROVE  IInv'
<1> USE DEF UnloadAll, mainVars, queueVars, workerVars, history
<1>1. pending_requests = 0 /\ ~_cancelationToken /\ unscheduled = {}
  BY DEF IInv, Quiet, Serial
<1>2. /\ Queued = {} /\ Queued' = {}
      /\ \A w \in Worker : request[w] = null /\ visit[w] = {} /\ pc[w] # "updating"
  BY <1>1, PendingLemma DEF Queued
<1>3. TypeOK'
  BY DEF IInv, TypeOK
<1>4. PendingIsExact' /\ Quiet' /\ InOnePlace'
  BY <1>1, <1>2 DEF IInv, PendingIsExact, Quiet, Serial, InOnePlace, Untouched
<1>5. Working' /\ OfLoadedMaps'
  BY <1>1, <1>2 DEF IInv, Working, OfLoadedMaps
<1>6. InSomePlace'
  BY DEF InSomePlace
<1>7. QED
  BY <1>3, <1>4, <1>5, <1>6 DEF IInv

(* The queue that is cancelled is empty.                                   *)
LEMMA CancelQueueStep ==
    ASSUME IInv, CancelQueue
    PROVE  IInv'
<1> USE DEF CancelQueue, queueVars, history
<1>1. pending_requests = 0 /\ _cancelationToken /\ unscheduled = {}
  BY DEF IInv, Quiet, Serial
<1>2. /\ _queue = << >> /\ Queued = {}
      /\ \A w \in Worker : request[w] = null /\ visit[w] = {} /\ pc[w] # "updating"
  BY <1>1, PendingLemma
<1>3. Queued' = {} /\ _queue' = _queue
  BY <1>2 DEF Queued
<1>4. /\ pc' \in [Worker -> WorkerStates]
      /\ \A w \in Worker : pc'[w] = IF pc[w] = "waiting" THEN "check" ELSE pc[w]
  BY DEF IInv, TypeOK, NotifyAll, WorkerStates
<1>5. TypeOK'
  BY <1>3, <1>4 DEF IInv, TypeOK, WorkerStates
<1>6. PendingIsExact' /\ Quiet'
  BY <1>1, <1>3 DEF IInv, PendingIsExact, Quiet, Serial
<1>7. Working' /\ OfLoadedMaps'
  BY <1>1, <1>2, <1>3, <1>4 DEF IInv, Working, OfLoadedMaps
<1>8. InOnePlace'
  BY <1>1, <1>2, <1>3 DEF IInv, InOnePlace, Untouched
<1>9. InSomePlace'
  BY <1>1 DEF InSomePlace
<1>10. QED
  BY <1>5, <1>6, <1>7, <1>8, <1>9 DEF IInv

-----------------------------------------------------------------------------
(* Requests, from schedule_update to update_finished.                      *)

(* schedule_update: one more request is queued, and one more counted.      *)
LEMMA ScheduleLemma ==
    ASSUME IInv, NEW m \in Map, m \notin Queued, ScheduleUpdate(m)
    PROVE  /\ _queue' \in Seq(Map) /\ Len(_queue') = Len(_queue) + 1
           /\ Queued' = Queued \union {m}
           /\ IsInjective(_queue')
           /\ pending_requests' = pending_requests + 1
           /\ pc' \in [Worker -> WorkerStates]
           /\ \A w \in Worker : pc'[w] # pc[w] => pc[w] = "waiting" /\ pc'[w] = "check"
           /\ UNCHANGED <<_shutdown, _cancelationToken>>
<1>1. _queue \in Seq(Map) /\ IsInjective(_queue) /\ pc \in [Worker -> WorkerStates]
  BY DEF IInv, TypeOK, InOnePlace, WorkerStates
<1>2. /\ _queue' = Append(_queue, m) /\ NotifyOne(pc)
      /\ pending_requests' = pending_requests + 1
      /\ UNCHANGED <<_shutdown, _cancelationToken>>
  BY DEF ScheduleUpdate, PendingWith
<1>3. m \notin ToSet(_queue)
  BY DEF Queued
<1>4. /\ _queue' \in Seq(Map) /\ Len(_queue') = Len(_queue) + 1
      /\ Queued' = Queued \union {m} /\ IsInjective(_queue')
  BY <1>1, <1>2, <1>3, AppendLemma DEF Queued
<1>5. /\ pc' \in [Worker -> WorkerStates]
      /\ \A w \in Worker : pc'[w] # pc[w] => pc[w] = "waiting" /\ pc'[w] = "check"
  BY <1>1, <1>2, NotifyOneLemma
<1>6. QED
  BY <1>2, <1>4, <1>5

(* A base map goes from those not yet scheduled to the queue.              *)
LEMMA ScheduleMapStep ==
    ASSUME IInv, NEW m \in BaseMap, ScheduleMap(m)
    PROVE  IInv'
<1>1. /\ main = "schedule" /\ m \in unscheduled /\ unscheduled' = unscheduled \ {m}
      /\ UNCHANGED <<loaded, main, ticks, request, visit, updated, spared>>
  BY DEF ScheduleMap, history
<1>2. m \in Map /\ m \notin Instance
  BY MapsAssumption DEF Map
<1>3. /\ updated[m] = 0 /\ m \notin Queued /\ m \in loaded
      /\ \A w \in Worker : request[w] # m
  BY <1>1 DEF IInv, InOnePlace, Untouched, OfLoadedMaps
<1>4. /\ _queue' \in Seq(Map) /\ Len(_queue') = Len(_queue) + 1
      /\ Queued' = Queued \union {m}
      /\ IsInjective(_queue')
      /\ pending_requests' = pending_requests + 1
      /\ pc' \in [Worker -> WorkerStates]
      /\ \A w \in Worker : pc'[w] # pc[w] => pc[w] = "waiting" /\ pc'[w] = "check"
      /\ UNCHANGED <<_shutdown, _cancelationToken>>
  BY <1>2, <1>3, ScheduleLemma DEF ScheduleMap
<1>5. TypeOK'
  <2>1. pending_requests' \in Nat /\ unscheduled' \subseteq BaseMap
    BY <1>1, <1>4 DEF IInv, TypeOK
  <2>2. QED
    BY <1>1, <1>4, <2>1 DEF IInv, TypeOK, WorkerStates
<1>6. PendingIsExact'
  <2>1. Cardinality(Holders) \in Nat /\ Holders' = Holders
    BY <1>1, HoldersLemma DEF IInv, Holders
  <2>2. _queue \in Seq(Map) /\ Len(_queue) \in Nat
    BY DEF IInv, TypeOK
  <2>3. pending_requests = Len(_queue) + Cardinality(Holders)
    BY DEF IInv, PendingIsExact, Holders
  <2>4. pending_requests' = Len(_queue') + Cardinality(Holders')
    BY <1>4, <2>1, <2>2, <2>3
  <2>5. QED
    BY <2>4 DEF PendingIsExact, Holders
<1>7. Working'
  BY <1>1, <1>4 DEF IInv, Working, InstancesOf
<1>8. Quiet'
  BY <1>1, <1>4 DEF IInv, Quiet, Serial
<1>9. OfLoadedMaps'
  BY <1>1, <1>3, <1>4 DEF IInv, OfLoadedMaps
<1>10. InOnePlace'
  <2>1. /\ m \notin spared /\ \A w \in Worker : m \notin visit[w]
        /\ \A i \in Instance : i # m
    BY <1>2 DEF IInv, TypeOK
  <2>2. \A w \in Worker : pc'[w] = "updating" <=> pc[w] = "updating"
    BY <1>4
  <2>3. \A w \in Worker : visit[w] \subseteq Instance
    BY DEF IInv, TypeOK
  <2>4. QED
    BY <1>1, <1>3, <1>4, <2>1, <2>2, <2>3 DEF IInv, InOnePlace, Untouched
<1>11. InSomePlace'
  BY <1>1, <1>4 DEF IInv, InSomePlace, BaseInPlace, InstanceInPlace
<1>12. QED
  BY <1>5, <1>6, <1>7, <1>8, <1>9, <1>10, <1>11 DEF IInv

(* An instance goes from those its MapInstanced has to visit to the queue. *)
LEMMA ScheduleInstanceStep ==
    ASSUME IInv, NEW w \in Worker, NEW i \in Instance, ScheduleInstance(w, i)
    PROVE  IInv'
<1>1. /\ pc[w] = "updating" /\ i \in visit[w]
      /\ visit' = [visit EXCEPT ![w] = @ \ {i}]
      /\ UNCHANGED <<loaded, main, unscheduled, ticks, request, updated, spared>>
  BY DEF ScheduleInstance, VisitAfter, mainVars, history
<1>2. i \in Map /\ i \notin BaseMap
  BY MapsAssumption DEF Map
<1>3. /\ updated[i] = 0 /\ i \notin Queued /\ i \notin spared
      /\ \A v \in Worker : request[v] # i
  BY <1>1 DEF IInv, InOnePlace, Untouched
<1>4. /\ _queue' \in Seq(Map) /\ Len(_queue') = Len(_queue) + 1
      /\ Queued' = Queued \union {i}
      /\ IsInjective(_queue')
      /\ pending_requests' = pending_requests + 1
      /\ pc' \in [Worker -> WorkerStates]
      /\ \A v \in Worker : pc'[v] # pc[v] => pc[v] = "waiting" /\ pc'[v] = "check"
      /\ UNCHANGED <<_shutdown, _cancelationToken>>
  BY <1>2, <1>3, ScheduleLemma DEF ScheduleInstance
<1>5. request[w] # null /\ pending_requests > 0 /\ pending_requests \in Nat
  BY <1>1, PendingLemma DEF IInv, Working, TypeOK
<1>6. i \in loaded /\ Parent[i] = request[w] /\ updated[Parent[i]] = 1
  BY <1>1, <1>5 DEF IInv, Working, InstancesOf, InOnePlace
<1>7. \A v \in Worker : /\ visit'[v] = IF v = w THEN visit[v] \ {i} ELSE visit[v]
                        /\ visit'[v] \subseteq visit[v] /\ i \notin visit'[v]
  <2>1. visit \in [Worker -> SUBSET Instance]
    BY DEF IInv, TypeOK
  <2>2. ASSUME NEW v \in Worker, v # w, i \in visit[v] PROVE FALSE
    <3>1. Parent[i] = request[v]
      BY <2>2 DEF IInv, Working, InstancesOf
    <3>2. QED
      BY <1>5, <1>6, <2>2, <3>1 DEF IInv, InOnePlace
  <2>3. QED
    BY <1>1, <2>1, <2>2
<1>8. TypeOK'
  <2>1. pending_requests' \in Nat /\ visit' \in [Worker -> SUBSET Instance]
    BY <1>1, <1>4, <1>5 DEF IInv, TypeOK
  <2>2. QED
    BY <1>1, <1>4, <2>1 DEF IInv, TypeOK, WorkerStates
<1>9. PendingIsExact'
  <2>1. Cardinality(Holders) \in Nat /\ Holders' = Holders
    BY <1>1, HoldersLemma DEF IInv, Holders
  <2>2. _queue \in Seq(Map) /\ Len(_queue) \in Nat
    BY DEF IInv, TypeOK
  <2>3. pending_requests = Len(_queue) + Cardinality(Holders)
    BY DEF IInv, PendingIsExact, Holders
  <2>4. pending_requests' = Len(_queue') + Cardinality(Holders')
    BY <1>4, <2>1, <2>2, <2>3
  <2>5. QED
    BY <2>4 DEF PendingIsExact, Holders
<1>10. Working'
  <2>1. \A v \in Worker : visit'[v] \subseteq visit[v]
    BY <1>7
  <2>2. QED
    BY <1>1, <1>4, <2>1 DEF IInv, Working, InstancesOf
<1>11. Quiet'
  BY <1>1, <1>4, <1>5 DEF IInv, Quiet, Serial
<1>12. OfLoadedMaps'
  BY <1>1, <1>4, <1>6 DEF IInv, OfLoadedMaps
<1>13. InOnePlace'
  <2>1. \A v \in Worker : pc'[v] = "updating" <=> pc[v] = "updating"
    BY <1>4
  <2>2. \A m \in unscheduled : m # i
    BY <1>2 DEF IInv, TypeOK
  <2>3. \A v \in Worker : \A j \in visit'[v] : j # i /\ j \in visit[v]
    BY <1>7
  <2>4. \A j \in Instance : updated[Parent[j]] = 0 => j # i
    BY <1>6
  <2>5. QED
    BY <1>1, <1>3, <1>4, <2>1, <2>2, <2>3, <2>4 DEF IInv, InOnePlace, Untouched
<1>14. InSomePlace'
  <2>1. \A v \in Worker : \A j \in visit[v] : j = i \/ j \in visit'[v]
    BY <1>7
  <2>2. QED
    BY <1>1, <1>4, <2>1 DEF IInv, InSomePlace, BaseInPlace, InstanceInPlace
<1>15. QED
  BY <1>8, <1>9, <1>10, <1>11, <1>12, <1>13, <1>14 DEF IInv

(* An instance that is visited is deleted, or spared for this tick.        *)
LEMMA DestroyInstanceStep ==
    ASSUME IInv, NEW w \in Worker, NEW i \in Instance, DestroyInstance(w, i)
    PROVE  IInv'
<1>1. /\ pc[w] = "updating" /\ i \in visit[w]
      /\ visit' = [visit EXCEPT ![w] = @ \ {i}]
      /\ \/ loaded' = loaded \ {i} /\ spared' = spared
         \/ spared' = spared \union {i} /\ loaded' = loaded
      /\ UNCHANGED <<main, unscheduled, ticks, _queue, _shutdown, _cancelationToken,
                     pending_requests, pc, request, updated>>
  BY DEF DestroyInstance, VisitAfter, mainVars, queueVars
<1>2. i \in Map /\ i \notin BaseMap /\ Queued' = Queued
  BY <1>1, MapsAssumption DEF Map, Queued
<1>3. /\ updated[i] = 0 /\ i \notin Queued
      /\ \A v \in Worker : request[v] # i
  BY <1>1 DEF IInv, InOnePlace, Untouched
<1>4. request[w] # null
  BY <1>1 DEF IInv, Working
<1>5. i \in loaded /\ Parent[i] = request[w] /\ updated[Parent[i]] = 1
  BY <1>1, <1>4 DEF IInv, Working, InstancesOf, InOnePlace
<1>6. \A v \in Worker : /\ visit'[v] = IF v = w THEN visit[v] \ {i} ELSE visit[v]
                        /\ visit'[v] \subseteq visit[v] /\ i \notin visit'[v]
  <2>1. visit \in [Worker -> SUBSET Instance]
    BY DEF IInv, TypeOK
  <2>2. ASSUME NEW v \in Worker, v # w, i \in visit[v] PROVE FALSE
    <3>1. Parent[i] = request[v]
      BY <2>2 DEF IInv, Working, InstancesOf
    <3>2. QED
      BY <1>4, <1>5, <2>2, <3>1 DEF IInv, InOnePlace
  <2>3. QED
    BY <1>1, <2>1, <2>2
<1>7. TypeOK'
  BY <1>1 DEF IInv, TypeOK
<1>8. PendingIsExact' /\ Quiet'
  BY <1>1 DEF IInv, PendingIsExact, Quiet
<1>9. Working'
  <2>1. \A v \in Worker : \A j \in visit'[v] : j \in visit[v] /\ j # i
    BY <1>6
  <2>2. \A j \in loaded : j # i => j \in loaded'
    BY <1>1
  <2>3. \A v \in Worker : visit'[v] \subseteq InstancesOf(request[v])'
    BY <1>1, <2>1, <2>2 DEF IInv, Working, InstancesOf
  <2>4. QED
    BY <1>1, <2>1, <2>3 DEF IInv, Working
<1>10. OfLoadedMaps'
  <2>1. \A m \in unscheduled : m # i
    BY <1>2 DEF IInv, TypeOK
  <2>2. \A j \in Instance : Parent[j] # i
    BY <1>2, MapsAssumption
  <2>3. QED
    BY <1>1, <1>2, <1>3, <2>1, <2>2 DEF IInv, OfLoadedMaps
<1>11. InOnePlace'
  <2>1. \A v \in Worker : \A j \in visit'[v] : j # i /\ j \in visit[v]
    BY <1>6
  <2>2. \A j \in Instance : updated[Parent[j]] = 0 => j # i
    BY <1>5
  <2>3. QED
    BY <1>1, <1>2, <1>3, <2>1, <2>2 DEF IInv, InOnePlace, Untouched
<1>12. InSomePlace'
  <2>1. \A v \in Worker : \A j \in visit[v] : j = i \/ j \in visit'[v]
    BY <1>6
  <2>2. loaded' \subseteq loaded /\ spared \subseteq spared'
        /\ (i \in loaded' => i \in spared')
    BY <1>1
  <2>3. QED
    BY <1>1, <1>2, <2>1, <2>2 DEF IInv, InSomePlace, BaseInPlace, InstanceInPlace
<1>13. QED
  BY <1>7, <1>8, <1>9, <1>10, <1>11, <1>12 DEF IInv

-----------------------------------------------------------------------------
(* The steps of a worker that has or seeks a request.                      *)

(* A worker that only changes from one idle state to another.              *)
LEMMA IdleStep ==
    ASSUME IInv, NEW w \in Worker, NEW state \in WorkerStates,
           pc[w] # "updating", state # "updating",
           request[w] # null => state = "popped",
           state = "popped" /\ request[w] = null => _shutdown,
           pc' = [pc EXCEPT ![w] = state],
           UNCHANGED <<loaded, mainVars, queueVars, _cancelationToken, pending_requests,
                       request, visit, history>>
    PROVE  IInv'
<1> USE DEF mainVars, queueVars, history
<1>1. /\ pc' \in [Worker -> WorkerStates]
      /\ \A v \in Worker : pc'[v] = IF v = w THEN state ELSE pc[v]
  BY DEF IInv, TypeOK, WorkerStates
<1>2. Queued' = Queued
  BY DEF Queued
<1>3. TypeOK'
  BY <1>1 DEF IInv, TypeOK, WorkerStates
<1>4. PendingIsExact' /\ Quiet' /\ OfLoadedMaps'
  BY <1>2 DEF IInv, PendingIsExact, Quiet, OfLoadedMaps
<1>5. Working'
  BY <1>1 DEF IInv, Working, InstancesOf
<1>6. InOnePlace'
  <2>1. \A v \in Worker : pc'[v] = "updating" <=> pc[v] = "updating"
    BY <1>1
  <2>2. QED
    BY <1>2, <2>1 DEF IInv, InOnePlace, Untouched
<1>7. InSomePlace'
  BY <1>2 DEF IInv, InSomePlace, BaseInPlace, InstanceInPlace
<1>8. QED
  BY <1>3, <1>4, <1>5, <1>6, <1>7 DEF IInv

(* A request goes from the queue to a worker.                              *)
LEMMA PopStep ==
    ASSUME IInv, NEW w \in Worker, pc[w] = "check", _queue # << >>,
           pc' = [pc EXCEPT ![w] = "popped"],
           request' = [request EXCEPT ![w] = Head(_queue)],
           _queue' = Tail(_queue),
           UNCHANGED <<loaded, mainVars, _shutdown, _cancelationToken, pending_requests,
                       visit, history>>
    PROVE  IInv'
<1> USE DEF mainVars, history
<1> DEFINE m == Head(_queue)
<1>1. request[w] = null /\ visit[w] = {}
  BY DEF IInv, Working
<1>2. /\ m \in Map /\ m # null /\ m \in Queued /\ m \notin Queued'
      /\ Queued = Queued' \union {m}
      /\ _queue' \in Seq(Map) /\ IsInjective(_queue') /\ Len(_queue') = Len(_queue) - 1
  BY TailLemma, MapsAssumption DEF IInv, TypeOK, InOnePlace, Queued
<1>3. request' = [request EXCEPT ![w] = m]
  OBVIOUS
<1> HIDE DEF m
<1>4. /\ \A v \in Worker : /\ pc'[v] = IF v = w THEN "popped" ELSE pc[v]
                           /\ request'[v] = IF v = w THEN m ELSE request[v]
      /\ pc' \in [Worker -> WorkerStates]
      /\ request' \in [Worker -> Map \union {null}]
  BY <1>2, <1>3 DEF IInv, TypeOK, WorkerStates
<1>5. /\ updated[m] = 0 /\ m \notin spared /\ m \in loaded
      /\ \A v \in Worker : request[v] # m
  BY <1>2 DEF IInv, InOnePlace, OfLoadedMaps
<1>6. TypeOK'
  BY <1>2, <1>4 DEF IInv, TypeOK, WorkerStates
<1>7. PendingIsExact'
  <2>1. Cardinality(Holders') = Cardinality(Holders) + 1 /\ Cardinality(Holders) \in Nat
    BY <1>1, <1>2, <1>3, TakeLemma, HoldersLemma DEF IInv
  <2>2. pending_requests = Len(_queue) + Cardinality(Holders) /\ Len(_queue) \in Nat
    BY DEF IInv, PendingIsExact, Holders, TypeOK
  <2>3. pending_requests' = Len(_queue') + Cardinality(Holders')
    BY <1>2, <2>1, <2>2
  <2>4. QED
    BY <2>3 DEF PendingIsExact, Holders
<1>8. Working'
  BY <1>1, <1>2, <1>4 DEF IInv, Working, InstancesOf
<1>9. Quiet'
  BY DEF IInv, Quiet
<1>10. OfLoadedMaps'
  BY <1>2, <1>4, <1>5 DEF IInv, OfLoadedMaps
<1>11. InOnePlace'
  <2>1. \A v \in Worker : pc'[v] = "updating" <=> pc[v] = "updating" /\ v # w
    BY <1>4
  <2>2. \A n : Untouched(n) => n # m /\ n \notin Queued' /\ \A v \in Worker : request'[v] # n
    BY <1>2, <1>4 DEF Untouched
  <2>3. \A v \in Worker : request'[v] # null =>
            /\ request'[v] \notin Queued'
            /\ request'[v] \notin spared
            /\ updated[request'[v]] = IF pc'[v] = "updating" THEN 1 ELSE 0
            /\ \A u \in Worker \ {v} : request'[u] # request'[v]
    BY <1>2, <1>4, <1>5, <2>1 DEF IInv, InOnePlace
  <2>4. QED
    BY <1>2, <2>2, <2>3 DEF IInv, InOnePlace, Untouched
<1>12. InSomePlace'
  <2>1. request'[w] = m /\ \A v \in Worker : request[v] # null => request'[v] = request[v]
    BY <1>1, <1>4
  <2>2. \A n \in Map : n # null
    BY MapsAssumption
  <2>3. \A n \in loaded : n \in Map
    BY DEF IInv, TypeOK
  <2>4. \A n \in loaded \intersect BaseMap : BaseInPlace(n) => BaseInPlace(n)'
    BY <1>2, <2>1, <2>2, <2>3 DEF BaseInPlace
  <2>5. \A n \in loaded \intersect Instance : InstanceInPlace(n) => InstanceInPlace(n)'
    BY <1>2, <2>1, <2>2, <2>3 DEF InstanceInPlace
  <2>6. QED
    BY <2>4, <2>5 DEF IInv, InSomePlace
<1>13. QED
  BY <1>6, <1>7, <1>8, <1>9, <1>10, <1>11, <1>12 DEF IInv

(* A worker's turn at the queue's lock keeps the invariant.                *)
LEMMA WaitAndPopStep ==
    ASSUME IInv, NEW w \in Worker, WaitAndPop(w)
    PROVE  IInv'
<1>1. pc[w] = "check" /\ request[w] = null
  BY DEF WaitAndPop, IInv, Working
<1>2. UNCHANGED <<loaded, mainVars, _shutdown, _cancelationToken, pending_requests,
                  visit, history>>
  BY DEF WaitAndPop
<1>3. CASE /\ pc' = [pc EXCEPT ![w] = "waiting"]
           /\ UNCHANGED <<_queue, request>>
  BY <1>1, <1>2, <1>3, IdleStep, "waiting" \in WorkerStates DEF WorkerStates, queueVars
<1>4. CASE /\ _shutdown
           /\ pc' = [pc EXCEPT ![w] = "popped"]
           /\ UNCHANGED <<_queue, request>>
  BY <1>1, <1>2, <1>4, IdleStep, "popped" \in WorkerStates DEF WorkerStates, queueVars
<1>5. CASE /\ _queue # << >>
           /\ pc' = [pc EXCEPT ![w] = "popped"]
           /\ request' = [request EXCEPT ![w] = Head(_queue)]
           /\ _queue' = QueueAfterPop
  BY <1>1, <1>2, <1>5, PopStep DEF QueueAfterPop
<1>6. QED
  BY <1>3, <1>4, <1>5 DEF WaitAndPop

(* A worker that wakes up by itself keeps the invariant.                   *)
LEMMA SpuriousWakeupStep ==
    ASSUME IInv, NEW w \in Worker, SpuriousWakeup(w)
    PROVE  IInv'
<1>1. request[w] = null
  BY DEF SpuriousWakeup, IInv, Working
<1>2. QED
  BY <1>1, IdleStep, "check" \in WorkerStates DEF SpuriousWakeup, WorkerStates

(* A worker that returns holds no request: the token is set after the last *)
(* request has been finished.                                              *)
LEMMA WorkerReturnsStep ==
    ASSUME IInv, NEW w \in Worker, WorkerReturns(w)
    PROVE  IInv'
<1>1. pending_requests = 0
  BY DEF WorkerReturns, IInv, Quiet
<1>2. request[w] = null
  BY <1>1, PendingLemma
<1>3. QED
  BY <1>2, IdleStep, "exited" \in WorkerStates DEF WorkerReturns, WorkerStates

(* Map::Update: the map is updated, its instances are to be visited.       *)
LEMMA BeginUpdateStep ==
    ASSUME IInv, NEW w \in Worker, BeginUpdate(w)
    PROVE  IInv'
<1> DEFINE m == request[w]
<1>1. /\ pc[w] = "popped" /\ m # null
      /\ pc' = [pc EXCEPT ![w] = "updating"]
      /\ visit' = [visit EXCEPT ![w] = InstancesOf(m)]
      /\ updated' = [updated EXCEPT ![m] = @ + 1]
      /\ UNCHANGED <<loaded, main, unscheduled, ticks, _queue, _shutdown,
                     _cancelationToken, pending_requests, request, spared>>
  BY DEF BeginUpdate, mainVars, queueVars
<1>2. /\ m \in Map /\ m \notin Queued /\ m \notin spared /\ updated[m] = 0
      /\ \A v \in Worker \ {w} : request[v] # m
  BY <1>1 DEF IInv, TypeOK, InOnePlace
<1>3. Queued' = Queued
  BY <1>1 DEF Queued
<1>4. /\ InstancesOf(m) \subseteq Instance
      /\ \A i \in InstancesOf(m) : i \in loaded /\ Parent[i] = m /\ i # m
  BY MapsAssumption DEF InstancesOf, Map
<1> HIDE DEF m
<1>5. /\ pc' \in [Worker -> WorkerStates]
      /\ visit' \in [Worker -> SUBSET Instance]
      /\ updated' \in [Map -> Nat]
      /\ \A v \in Worker : /\ pc'[v] = IF v = w THEN "updating" ELSE pc[v]
                           /\ visit'[v] = IF v = w THEN InstancesOf(m) ELSE visit[v]
      /\ updated'[m] = 1 /\ \A n : n # m => updated'[n] = updated[n]
  BY <1>1, <1>2, <1>4 DEF IInv, TypeOK, WorkerStates
<1>6. TypeOK'
  BY <1>1, <1>5 DEF IInv, TypeOK, WorkerStates
<1>7. PendingIsExact' /\ Quiet' /\ OfLoadedMaps'
  BY <1>1, <1>3 DEF IInv, PendingIsExact, Quiet, OfLoadedMaps
<1>8. Working'
  <2>1. InstancesOf(request[w])' = InstancesOf(m)
    BY <1>1 DEF InstancesOf, m
  <2>2. \A v \in Worker : InstancesOf(request[v])' = InstancesOf(request[v])
    BY <1>1 DEF InstancesOf
  <2>3. QED
    BY <1>1, <1>5, <2>1, <2>2 DEF IInv, Working, m
<1>9. InOnePlace'
  <2>1. \A n : Untouched(n) => n # m /\ Untouched(n)'
    BY <1>1, <1>3, <1>5 DEF Untouched, m
  <2>2. \A v \in Worker : request[v] # null =>
          updated'[request[v]] = IF pc'[v] = "updating" THEN 1 ELSE 0
    BY <1>2, <1>5 DEF IInv, InOnePlace, m
  <2>3. \A v \in Worker : \A i \in visit'[v] : Untouched(i)' /\ i \notin spared
    <3>1. \A i \in InstancesOf(m) : Untouched(i) /\ i \notin spared
      BY <1>2, <1>4 DEF IInv, InOnePlace
    <3>2. QED
      BY <1>5, <2>1, <3>1 DEF IInv, InOnePlace
  <2>4. \A n \in Queued : updated'[n] = 0
    BY <1>2, <1>5 DEF IInv, InOnePlace
  <2>5. \A i \in spared : updated'[i] = 0
    BY <1>2, <1>5 DEF IInv, InOnePlace
  <2>6. \A i \in Instance :
          updated'[Parent[i]] = 0 => Untouched(i)' /\ i \notin spared
    <3>1. \A i \in Instance : updated'[Parent[i]] = 0 => updated[Parent[i]] = 0
      BY <1>5
    <3>2. QED
      BY <2>1, <3>1 DEF IInv, InOnePlace
  <2>7. \A n \in unscheduled : Untouched(n)'
    BY <2>1 DEF IInv, InOnePlace
  <2>8. QED
    BY <1>1, <1>3, <2>2, <2>3, <2>4, <2>5, <2>6, <2>7 DEF IInv, InOnePlace
<1>10. InSomePlace'
  <2>1. \A v \in Worker : visit[v] \subseteq visit'[v]
    BY <1>1, <1>5 DEF IInv, Working
  <2>2. \A n : updated[n] = 1 => updated'[n] = 1
    BY <1>2, <1>5
  <2>3. \A n \in loaded \intersect BaseMap : BaseInPlace(n) => BaseInPlace(n)'
    BY <1>1, <1>3, <2>2 DEF BaseInPlace
  <2>4. ASSUME NEW i \in loaded \intersect Instance, InstanceInPlace(i)
        PROVE  InstanceInPlace(i)'
    <3>1. CASE Parent[i] = m
      BY <1>5, <2>4, <3>1, i \in InstancesOf(m) DEF InstancesOf, InstanceInPlace
    <3>2. CASE Parent[i] # m
      BY <1>1, <1>3, <1>5, <2>1, <2>2, <2>4, <3>2 DEF InstanceInPlace
    <3>3. QED
      BY <3>1, <3>2
  <2>5. QED
    BY <1>1, <2>3, <2>4 DEF IInv, InSomePlace
<1>11. QED
  BY <1>6, <1>7, <1>8, <1>9, <1>10 DEF IInv

(* A request is finished after all instances have been visited.            *)
LEMMA UpdateFinishedStep ==
    ASSUME IInv, NEW w \in Worker, UpdateFinished(w)
    PROVE  IInv'
<1>1. /\ pc[w] = "updating" /\ visit[w] = {}
      /\ pending_requests' = pending_requests - 1
      /\ main' = IF main = "blocked" THEN "wait" ELSE main
      /\ pc' = [pc EXCEPT ![w] = "check"]
      /\ request' = [request EXCEPT ![w] = null]
      /\ visit' = [visit EXCEPT ![w] = {}]
      /\ UNCHANGED <<loaded, unscheduled, ticks, _queue, _shutdown, _cancelationToken,
                     updated, spared>>
  BY DEF UpdateFinished, HasVisitedAll, MainAfterFinish, queueVars, history
<1>2. request[w] # null /\ updated[request[w]] = 1
  BY <1>1 DEF IInv, Working, InOnePlace
<1>3. Queued' = Queued
  BY <1>1 DEF Queued
<1>4. /\ pc' \in [Worker -> WorkerStates]
      /\ request' \in [Worker -> Map \union {null}]
      /\ visit' \in [Worker -> SUBSET Instance]
      /\ \A v \in Worker : /\ pc'[v] = IF v = w THEN "check" ELSE pc[v]
                           /\ request'[v] = IF v = w THEN null ELSE request[v]
                           /\ visit'[v] = visit[v]
  BY <1>1 DEF IInv, TypeOK, WorkerStates
<1>5. pending_requests > 0 /\ pending_requests' \in Nat
  BY <1>1, <1>2, PendingLemma DEF IInv, TypeOK
<1>6. TypeOK'
  BY <1>1, <1>4, <1>5 DEF IInv, TypeOK, WorkerStates
<1>7. PendingIsExact'
  <2>1. Cardinality(Holders') = Cardinality(Holders) - 1 /\ Cardinality(Holders) \in Nat
    BY <1>1, <1>2, FinishLemma, HoldersLemma DEF IInv
  <2>2. pending_requests = Len(_queue) + Cardinality(Holders) /\ Len(_queue) \in Nat
    BY DEF IInv, PendingIsExact, Holders, TypeOK
  <2>3. pending_requests' = Len(_queue') + Cardinality(Holders')
    BY <1>1, <2>1, <2>2
  <2>4. QED
    BY <2>3 DEF PendingIsExact, Holders
<1>8. Working'
  BY <1>1, <1>4 DEF IInv, Working, InstancesOf
<1>9. Quiet'
  BY <1>1, <1>5 DEF IInv, Quiet, Serial
<1>10. OfLoadedMaps'
  BY <1>1, <1>3, <1>4 DEF IInv, OfLoadedMaps
<1>11. InOnePlace'
  <2>1. null \notin unscheduled /\ null \notin Instance
    BY MapsAssumption DEF IInv, TypeOK, Map
  <2>2. \A n : n # null /\ Untouched(n) => Untouched(n)'
    BY <1>1, <1>3, <1>4 DEF Untouched
  <2>3. \A v \in Worker : request'[v] # null =>
            /\ request'[v] \notin Queued
            /\ request'[v] \notin spared
            /\ updated[request'[v]] = IF pc'[v] = "updating" THEN 1 ELSE 0
            /\ \A u \in Worker \ {v} : request'[u] # request'[v]
    BY <1>4 DEF IInv, InOnePlace
  <2>4. \A v \in Worker : visit[v] \subseteq Instance
    BY DEF IInv, TypeOK
  <2>5. QED
    BY <1>1, <1>3, <1>4, <2>1, <2>2, <2>3, <2>4 DEF IInv, InOnePlace
<1>12. InSomePlace'
  <2>1. \A n : (\E v \in Worker : request[v] = n) =>
                  (\E v \in Worker : request'[v] = n) \/ updated'[n] = 1
    BY <1>1, <1>2, <1>4
  <2>2. \A n \in loaded \intersect BaseMap : BaseInPlace(n) => BaseInPlace(n)'
    BY <1>1, <1>3, <2>1 DEF BaseInPlace
  <2>3. \A n \in loaded \intersect Instance : InstanceInPlace(n) => InstanceInPlace(n)'
    BY <1>1, <1>3, <1>4, <2>1 DEF InstanceInPlace
  <2>4. QED
    BY <1>1, <2>2, <2>3 DEF IInv, InSomePlace
<1>13. QED
  BY <1>6, <1>7, <1>8, <1>9, <1>10, <1>11, <1>12 DEF IInv

-----------------------------------------------------------------------------
(* The invariant holds before the first tick.                              *)
LEMMA InitIInv == Init => IInv
<1> SUFFICES ASSUME Init PROVE IInv
  OBVIOUS
<1> USE DEF Init
<1>1. TypeOK
  <2>1. ticks \in 0..MaxTicks /\ pending_requests \in Nat
    BY MapsAssumption
  <2>2. /\ pc \in [Worker -> {"check", "waiting", "popped", "updating", "exited"}]
        /\ request \in [Worker -> Map \union {null}]
        /\ visit \in [Worker -> SUBSET Instance]
        /\ updated \in [Map -> Nat]
    OBVIOUS
  <2>3. _queue \in Seq(Map)
    OBVIOUS
  <2>4. QED
    BY <2>1, <2>2, <2>3 DEF TypeOK
<1>2. Queued = {}
  BY DEF Queued, ToSet
<1>3. PendingIsExact
  <2>1. {w \in Worker : request[w] # null} = {}
    OBVIOUS
  <2>2. Cardinality({w \in Worker : request[w] # null}) = 0
    BY <2>1, FS_EmptySet
  <2>3. pending_requests = 0 /\ Len(_queue) = 0
    OBVIOUS
  <2>4. QED
    BY <2>2, <2>3 DEF PendingIsExact
<1>4. Working /\ Quiet /\ OfLoadedMaps /\ InSomePlace
  BY <1>2 DEF Working, Quiet, Serial, OfLoadedMaps, InSomePlace
<1>5. InOnePlace
  <2>1. \A i \in Instance : updated[i] = 0 /\ i # null
    BY MapsAssumption DEF Map
  <2>2. IsInjective(_queue)
    BY DEF IsInjective
  <2>3. QED
    BY <1>2, <2>1, <2>2 DEF InOnePlace, Untouched
<1>6. QED
  BY <1>1, <1>3, <1>4, <1>5 DEF IInv

(* Every step of the world thread and of the workers keeps the invariant.  *)
LEMMA NextIInv == IInv /\ [Next]_vars => IInv'
<1> SUFFICES ASSUME IInv, [Next]_vars PROVE IInv'
  OBVIOUS
<1>1. CASE MainStep
  BY <1>1, ScheduleMapStep, MainMoves, CancelQueueStep DEF MainStep
<1>2. CASE \E m \in Map : CreateMap(m)
  BY <1>2, CreateMapStep
<1>3. CASE BeginTick \/ UnloadAll \/ SpuriousReturn
  BY <1>3, BeginTickStep, UnloadAllStep, MainMoves
<1>4. ASSUME NEW w \in Worker, WorkerStep(w) \/ SpuriousWakeup(w) PROVE IInv'
  BY <1>4, WaitAndPopStep, WorkerReturnsStep, BeginUpdateStep, ScheduleInstanceStep,
     DestroyInstanceStep, UpdateFinishedStep, SpuriousWakeupStep DEF WorkerStep
<1>5. CASE Ended \/ UNCHANGED vars
  BY <1>5, MainMoves DEF Ended
<1>6. QED
  BY <1>1, <1>2, <1>3, <1>4, <1>5 DEF Next

(* The map updater is well typed; in particular its count never falls      *)
(* below zero.                                                             *)
THEOREM TypeCorrect == Spec => []TypeOK
<1>1. IInv => TypeOK
  BY DEF IInv
<1>2. QED
  BY <1>1, InitIInv, NextIInv, PTL DEF Spec

(* However many workers and maps there are, and however schedule_update,   *)
(* WaitAndPop and update_finished interleave, pending_requests is the      *)
(* number of requests that are queued or held.                             *)
THEOREM CountIsExact == Spec => []PendingIsExact
<1>1. IInv => PendingIsExact
  BY DEF IInv
<1>2. QED
  BY <1>1, InitIInv, NextIInv, PTL DEF Spec

(* Outside the wait nothing is queued or held, and every map of the tick   *)
(* was updated.                                                            *)
LEMMA InvariantIsSerial == IInv => SerialPartIsAlone
<1> SUFFICES ASSUME IInv PROVE SerialPartIsAlone
  OBVIOUS
<1>1. ASSUME main \in Serial
      PROVE  _queue = << >> /\ \A w \in Worker : request[w] = null
  BY <1>1, PendingLemma DEF IInv, Quiet
<1>2. ASSUME main = "delayed", NEW m \in loaded
      PROVE  updated[m] = IF m \in spared THEN 0 ELSE 1
  <2>1. /\ Queued = {} /\ unscheduled = {} /\ ~_cancelationToken
        /\ \A w \in Worker : request[w] = null /\ visit[w] = {}
    BY <1>2, PendingLemma DEF IInv, Quiet, Serial
  <2>2. m \in Map /\ m # null
    BY <1>2, MapsAssumption DEF IInv, TypeOK
  <2>3. \A b \in loaded \intersect BaseMap : b # null => updated[b] = 1
    BY <1>2, <2>1 DEF IInv, InSomePlace, BaseInPlace
  <2>4. CASE m \in BaseMap
    BY <1>2, <2>2, <2>3, <2>4, MapsAssumption DEF IInv, TypeOK
  <2>5. CASE m \in Instance
    <3>1. Parent[m] \in loaded \intersect BaseMap /\ Parent[m] # null
      BY <1>2, <2>5, MapsAssumption DEF IInv, OfLoadedMaps, Map
    <3>2. updated[m] = 1 \/ m \in spared
      BY <1>2, <2>1, <2>2, <2>3, <2>5, <3>1 DEF IInv, InSomePlace, InstanceInPlace
    <3>3. m \in spared => updated[m] = 0
      BY DEF IInv, InOnePlace
    <3>4. QED
      BY <3>2, <3>3
  <2>6. QED
    BY <2>2, <2>4, <2>5 DEF Map
<1>3. QED
  BY <1>1, <1>2 DEF SerialPartIsAlone, Serial

(* The barrier of MapManager::Update: DelayedUpdate and everything else    *)
(* outside the parallel part finds no request queued or in progress and    *)
(* every map updated once; no map is with two threads or with a thread and *)
(* in the queue; every request names a map that exists.                    *)
THEOREM BarrierHolds == Spec => []Barrier
<1>1. ASSUME IInv PROVE OneThreadPerMap
  <2>1. ASSUME NEW w \in Worker, request[w] # null, NEW v \in Worker \ {w}
        PROVE  request[w] \notin visit[v]
    BY <1>1, <2>1 DEF IInv, InOnePlace, Untouched
  <2>2. QED
    BY <1>1, <2>1 DEF IInv, InOnePlace, OneThreadPerMap
<1>2. IInv => RequestsAreValid
  BY DEF IInv, Working, Quiet, OfLoadedMaps, RequestsAreValid
<1>3. IInv => Barrier
  BY <1>1, <1>2, InvariantIsSerial DEF Barrier
<1>4. QED
  BY <1>3, InitIInv, NextIInv, PTL DEF Spec

=============================================================================
