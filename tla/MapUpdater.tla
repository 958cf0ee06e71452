----------------------------- MODULE MapUpdater ------------------------------
(***************************************************************************)
(* The parallel map update: MapManager::Update hands every base map to the *)
(* threads of MapUpdater and waits for them; a base map with instances     *)
(* unloads those that are not needed and hands the others to the same      *)
(* threads while it is being updated itself.                               *)
(*                                                                         *)
(*   src/src/server/game/Maps/MapUpdater.cpp                               *)
(*   src/src/server/game/Maps/MapManager.cpp                               *)
(*   src/src/server/game/Maps/MapInstanced.cpp                             *)
(*   src/src/common/Threading/ProducerConsumerQueue.h                      *)
(*                                                                         *)
(* The world thread and the workers interleave at every critical section.  *)
(* schedule_update holds _lock around Push and nothing takes the two locks *)
(* in the other order, so it is one step.  What a map does in its update   *)
(* is left out; that a map may only be touched by one thread at a time is  *)
(* what the barrier is for.                                                *)
(***************************************************************************)
EXTENDS Integers, Sequences, FiniteSets, SequencesExt

CONSTANTS
    BaseMap,        \* map ids, the keys of MapManager::i_maps
    Instance,       \* instance ids
    Parent,         \* Parent[i]: the base map whose m_InstancedMaps may hold i
    Worker,         \* MapUpdater::_workerThreads (MapUpdate.Threads of them)
    MaxTicks,       \* bound on the updates
    null            \* nullptr

Map == BaseMap \union Instance

ASSUME MapsAssumption ==
    /\ BaseMap \intersect Instance = {}
    /\ Parent \in [Instance -> BaseMap]
    /\ null \notin Map
    /\ MaxTicks \in Nat
    /\ IsFiniteSet(Worker) /\ IsFiniteSet(Map)
    \* without threads MapUpdater is not activated and maps are updated in turn
    /\ Worker # {}

VARIABLES
    loaded,         \* the maps in i_maps and in their m_InstancedMaps
    main,           \* what the world thread does next
    unscheduled,    \* base maps the loop in MapManager::Update has not reached
    ticks,          \* updates begun so far
    _queue,         \* MapUpdater::_queue
    _shutdown,      \*   the same, whether it was cancelled
    _cancelationToken,
    pending_requests,
    pc,             \* what each worker does next
    request,        \* the map of the request it holds
    visit,          \* the instances its MapInstanced::Update has not reached
    updated,        \* history: how often a map was updated in this tick
    spared          \* history: instances DestroyInstance kept in this tick

mainVars == <<main, unscheduled, ticks>>
queueVars == <<_queue, _shutdown>>
workerVars == <<pc, request, visit>>
history == <<updated, spared>>
vars == <<loaded, mainVars, queueVars, _cancelationToken, pending_requests,
          workerVars, history>>

TypeOK ==
    /\ loaded \subseteq Map
    /\ main \in {"outside", "schedule", "wait", "blocked", "delayed",
                 "deactivate", "cancel", "join", "ended"}
    /\ unscheduled \subseteq BaseMap
    /\ ticks \in 0..MaxTicks
    /\ _queue \in Seq(Map)
    /\ _shutdown \in BOOLEAN
    /\ _cancelationToken \in BOOLEAN
    /\ pending_requests \in Nat
    /\ pc \in [Worker -> {"check", "waiting", "popped", "updating", "exited"}]
    /\ request \in [Worker -> Map \union {null}]
    /\ visit \in [Worker -> SUBSET Instance]
    /\ updated \in [Map -> Nat]
    /\ spared \subseteq Instance

Init ==
    /\ loaded = {}
    /\ main = "outside"
    /\ unscheduled = {}
    /\ ticks = 0
    /\ _queue = << >>
    /\ _shutdown = FALSE
    /\ _cancelationToken = FALSE
    /\ pending_requests = 0
    /\ pc = [w \in Worker |-> "check"]
    /\ request = [w \in Worker |-> null]
    /\ visit = [w \in Worker |-> {}]
    /\ updated = [m \in Map |-> 0]
    /\ spared = {}

-----------------------------------------------------------------------------
(* The queue and MapUpdater's two condition variables.  A definition whose *)
(* name ends in _Wrong is the definition that follows it with a plausible  *)
(* mistake.                                                                *)

(* notify_one after a push: pcs is pc as the calling worker leaves it.     *)
NotifyOne(pcs) ==
    IF \A w \in Worker : pcs[w] # "waiting" THEN pc' = pcs
    ELSE \E w \in Worker :
           /\ pcs[w] = "waiting"
           /\ pc' = [pcs EXCEPT ![w] = "check"]

NotifyAll_Wrong == NotifyOne(pc)
NotifyAll == pc' = [w \in Worker |-> IF pc[w] = "waiting" THEN "check" ELSE pc[w]]

(* notify_all after a request: the world thread looks at the count again.  *)
MainAfterFinish_Wrong == main
MainAfterFinish == IF main = "blocked" THEN "wait" ELSE main

PendingWith_Wrong(m) == pending_requests + (IF m \in BaseMap THEN 1 ELSE 0)
PendingWith(m) == pending_requests + 1

QueueAfterPop_Wrong == _queue
QueueAfterPop == Tail(_queue)

(* MapUpdater::schedule_update, by the world thread or by a worker.        *)
ScheduleUpdate(m) ==
    /\ pending_requests' = PendingWith(m)
    /\ _queue' = Append(_queue, m)
    /\ NotifyOne(pc)
    /\ UNCHANGED <<_shutdown, _cancelationToken>>

-----------------------------------------------------------------------------
(* The workers.                                                            *)

(* WaitAndPop: the queue is looked at, and its lock given up, to wait or to*)
(* return.  A cancelled queue returns without a value.                     *)
WaitAndPop(w) ==
    /\ pc[w] = "check"
    /\ \/ /\ _queue = << >> /\ ~_shutdown
          /\ pc' = [pc EXCEPT ![w] = "waiting"]
          /\ UNCHANGED <<_queue, request>>
       \/ /\ _shutdown
          /\ pc' = [pc EXCEPT ![w] = "popped"]
          /\ UNCHANGED <<_queue, request>>
       \/ /\ _queue # << >> /\ ~_shutdown
          /\ pc' = [pc EXCEPT ![w] = "popped"]
          /\ request' = [request EXCEPT ![w] = Head(_queue)]
          /\ _queue' = QueueAfterPop
    /\ UNCHANGED <<loaded, mainVars, _shutdown, _cancelationToken, pending_requests,
                   visit, history>>

SpuriousWakeup(w) ==
    /\ pc[w] = "waiting"
    /\ pc' = [pc EXCEPT ![w] = "check"]
    /\ UNCHANGED <<loaded, mainVars, queueVars, _cancelationToken, pending_requests,
                   request, visit, history>>

WorkerReturns(w) ==
    /\ pc[w] = "popped"
    /\ _cancelationToken
    /\ pc' = [pc EXCEPT ![w] = "exited"]
    /\ UNCHANGED <<loaded, mainVars, queueVars, _cancelationToken, pending_requests,
                   request, visit, history>>

InstancesOf(m) == {i \in loaded \intersect Instance : Parent[i] = m}

(* Map::Update; MapInstanced::Update goes on to the map's instances.       *)
BeginUpdate(w) ==
    /\ pc[w] = "popped"
    /\ ~_cancelationToken
    /\ request[w] # null
    /\ pc' = [pc EXCEPT ![w] = "updating"]
    /\ visit' = [visit EXCEPT ![w] = InstancesOf(request[w])]
    /\ updated' = [updated EXCEPT ![request[w]] = @ + 1]
    /\ UNCHANGED <<loaded, mainVars, queueVars, _cancelationToken, pending_requests,
                   request, spared>>

VisitAfter(w, i) == visit' = [visit EXCEPT ![w] = @ \ {i}]

(* The next instance cannot be unloaded: its update is scheduled.          *)
ScheduleInstance(w, i) ==
    /\ pc[w] = "updating" /\ i \in visit[w]
    /\ ScheduleUpdate(i)
    /\ VisitAfter(w, i)
    /\ UNCHANGED <<loaded, mainVars, request, history>>

(* CanUnload: DestroyInstance deletes the instance, or keeps it if players *)
(* are still in it; it is not updated then.                                *)
DestroyInstance(w, i) ==
    /\ pc[w] = "updating" /\ i \in visit[w]
    /\ VisitAfter(w, i)
    /\ \/ loaded' = loaded \ {i} /\ UNCHANGED spared
       \/ spared' = spared \union {i} /\ UNCHANGED loaded
    /\ UNCHANGED <<mainVars, queueVars, _cancelationToken, pending_requests, pc,
                   request, updated>>

HasVisitedAll_Wrong(w) == TRUE      \* finished before the instances are scheduled
HasVisitedAll(w) == visit[w] = {}

(* MapUpdater::update_finished                                             *)
UpdateFinished(w) ==
    /\ pc[w] = "updating"
    /\ HasVisitedAll(w)
    /\ pending_requests' = pending_requests - 1
    /\ main' = MainAfterFinish
    /\ pc' = [pc EXCEPT ![w] = "check"]
    /\ request' = [request EXCEPT ![w] = null]
    /\ visit' = [visit EXCEPT ![w] = {}]
    /\ UNCHANGED <<loaded, unscheduled, ticks, queueVars, _cancelationToken, history>>

WorkerStep(w) ==
    \/ WaitAndPop(w)
    \/ WorkerReturns(w)
    \/ BeginUpdate(w)
    \/ \E i \in Instance : ScheduleInstance(w, i) \/ DestroyInstance(w, i)
    \/ UpdateFinished(w)

-----------------------------------------------------------------------------
(* The world thread.                                                       *)

(* MapManager::CreateMap, for a player who enters a map.                   *)
CreateMap(m) ==
    /\ main = "outside"
    /\ m \notin loaded
    /\ loaded' = loaded \union {m} \union (IF m \in Instance THEN {Parent[m]} ELSE {})
    /\ UNCHANGED <<mainVars, queueVars, _cancelationToken, pending_requests, workerVars,
                   history>>

(* MapManager::Update after its timer has passed.                          *)
BeginTick ==
    /\ main = "outside" /\ ticks < MaxTicks
    /\ main' = "schedule"
    /\ ticks' = ticks + 1
    /\ unscheduled' = loaded \intersect BaseMap
    /\ updated' = [m \in Map |-> 0]
    /\ spared' = {}
    /\ UNCHANGED <<loaded, queueVars, _cancelationToken, pending_requests, workerVars>>

ScheduleMap(m) ==
    /\ main = "schedule" /\ m \in unscheduled
    /\ unscheduled' = unscheduled \ {m}
    /\ ScheduleUpdate(m)
    /\ UNCHANGED <<loaded, main, ticks, request, visit, history>>

AllScheduled ==
    /\ main = "schedule" /\ unscheduled = {}
    /\ main' = "wait"
    /\ UNCHANGED <<loaded, unscheduled, ticks, queueVars, _cancelationToken,
                   pending_requests, workerVars, history>>

(* MapUpdater::wait, called by Update and by deactivate.                   *)
Wait ==
    /\ main = "wait"
    /\ main' = IF pending_requests > 0 THEN "blocked"
               ELSE IF _cancelationToken THEN "cancel" ELSE "delayed"
    /\ UNCHANGED <<loaded, unscheduled, ticks, queueVars, _cancelationToken,
                   pending_requests, workerVars, history>>

SpuriousReturn ==
    /\ main = "blocked"
    /\ main' = "wait"
    /\ UNCHANGED <<loaded, unscheduled, ticks, queueVars, _cancelationToken,
                   pending_requests, workerVars, history>>

(* DelayedUpdate of every map, on the world thread alone.                  *)
DelayedUpdate ==
    /\ main = "delayed"
    /\ main' = "outside"
    /\ UNCHANGED <<loaded, unscheduled, ticks, queueVars, _cancelationToken,
                   pending_requests, workerVars, history>>

(* MapManager::UnloadAll deletes the maps, then deactivates the updater.   *)
UnloadAll ==
    /\ main = "outside"
    /\ main' = "deactivate"
    /\ loaded' = {}
    /\ UNCHANGED <<unscheduled, ticks, queueVars, _cancelationToken, pending_requests,
                   workerVars, history>>

SetToken ==
    /\ main = "deactivate"
    /\ main' = "wait"
    /\ _cancelationToken' = TRUE
    /\ UNCHANGED <<loaded, unscheduled, ticks, queueVars, pending_requests, workerVars,
                   history>>

CancelQueue ==
    /\ main = "cancel"
    /\ main' = "join"
    /\ _queue' = << >>
    /\ _shutdown' = TRUE
    /\ NotifyAll
    /\ UNCHANGED <<loaded, unscheduled, ticks, _cancelationToken, pending_requests,
                   request, visit, history>>

Join ==
    /\ main = "join"
    /\ \A w \in Worker : pc[w] = "exited"
    /\ main' = "ended"
    /\ UNCHANGED <<loaded, unscheduled, ticks, queueVars, _cancelationToken,
                   pending_requests, workerVars, history>>

(* A tick, or the end of the updater, once it has begun.                   *)
MainStep ==
    \/ \E m \in BaseMap : ScheduleMap(m)
    \/ AllScheduled \/ Wait \/ DelayedUpdate
    \/ SetToken \/ CancelQueue \/ Join

Ended == main = "ended" /\ UNCHANGED vars

Next ==
    \/ MainStep
    \/ \E m \in Map : CreateMap(m)
    \/ BeginTick \/ UnloadAll \/ SpuriousReturn
    \/ \E w \in Worker : WorkerStep(w) \/ SpuriousWakeup(w)
    \/ Ended

Spec == Init /\ [][Next]_vars

(* Every thread that can run does; no wakeup is assumed but those that     *)
(* notify_one and notify_all promise.                                      *)
FairSpec == Spec /\ WF_vars(MainStep) /\ \A w \in Worker : WF_vars(WorkerStep(w))

-----------------------------------------------------------------------------
(* What must hold.                                                         *)

Queued == ToSet(_queue)

(* pending_requests counts the requests that are queued or held by a       *)
(* worker: the wait in MapManager::Update rests on it, and so does the one *)
(* in deactivate, which sets _cancelationToken first and would wait for    *)
(* ever for a request that a worker then gives up.                         *)
PendingIsExact ==
    pending_requests = Len(_queue) + Cardinality({w \in Worker : request[w] # null})

(* From the end of MapUpdater::wait until the next tick no request is      *)
(* queued or in progress, and every map was updated exactly once in the    *)
(* tick when its DelayedUpdate runs.                                       *)
SerialPartIsAlone ==
    /\ main \in {"outside", "delayed", "deactivate", "cancel", "join", "ended"} =>
         _queue = << >> /\ \A w \in Worker : request[w] = null
    /\ main = "delayed" =>
         \A m \in loaded : updated[m] = IF m \in spared THEN 0 ELSE 1

(* No two threads hold the same map, and none that is also queued; an      *)
(* instance that its parent's MapInstanced::Update may still delete is not *)
(* being updated by another thread.                                        *)
OneThreadPerMap ==
    /\ IsInjective(_queue)
    /\ \A w \in Worker : request[w] # null =>
         /\ request[w] \notin Queued
         /\ \A v \in Worker \ {w} : request[v] # request[w] /\ request[w] \notin visit[v]

(* WorkerThread calls request->call() without a test: a request it has     *)
(* taken from the queue is there, and its map has not been deleted.        *)
RequestsAreValid ==
    \A w \in Worker :
        /\ pc[w] = "popped" /\ ~_cancelationToken => request[w] # null
        /\ request[w] # null => request[w] \in loaded

(* The barrier of a tick: the parallel updates meet neither the serial part*)
(* nor one another, and no map that is gone.                               *)
Barrier ==
    /\ SerialPartIsAlone
    /\ OneThreadPerMap
    /\ RequestsAreValid

(* A tick of MapManager::Update ends, however its requests interleave.     *)
TickEnds == main = "schedule" ~> main = "outside"

(* deactivate comes back, with all threads joined.                         *)
DeactivateEnds == main = "deactivate" ~> main = "ended"
=============================================================================
