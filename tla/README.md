# AGV system: a TLA+ model of its dispatching core

The program is a controller for two line-following vehicles (AGVs). A Linux
host (`host/master`) keeps the road map and the car records in POSIX shared
memory, plans routes and answers junction arrivals with turn commands; the
vehicles (`car`, ESP32 firmware) follow lines, report junctions and obstacles
over MQTT, and obey commands; a web page (`host/web`) uses an HTTP API.

## 1. Inventory

| Part | State | Operations | Hard behaviour |
|---|---|---|---|
| seqlock, mutex (`lib/ipc/seqlock.h`, `shm_manager.h`) | sequence number, robust mutex, guarded record | `write_begin/end`, `read_begin/end`, `shm_read_*`, `shm_set_*` | concurrent copying, death inside a write, wrap-around, store order |
| shared segment (`shm_manager.h`, `shm_layout.h`) | header, map, bipaths, cars | create, attach, validate, unlink | attaching before the data are there, restart of the owner |
| queues (`mq_wrapper.h`, `mq_msg.h`) | three bounded priority queues | `send`, `receive`, create, unlink | full queue drops, priorities reorder |
| model_manager | owns segment and queues | `init_map`, `init_car`, `reset_shm_map` | reset beside running readers |
| planner | one message at a time | `handle_task`, `find_path` | snapshot used later, requeue to itself, whole-record write |
| router | one message at a time | `handle_task`, `generate_turn` | whole-record write, turn sent before the advance is stored |
| mqtt_subscriber | none of its own | `dispatch` | several separate writes per event |
| mqtt_publisher | connection flag | `publish` | drops while the broker is away |
| task, topo (FastCGI) | none of their own | assign, cancel, ban, access, repair | answer before the effect; several writes per request |
| status (FastCGI) | none | renders a snapshot | none |
| logging | log queue | `LOG_*`, daemon loop | blocking send |
| vehicle control (`car/src/main.cpp`) | state machine, junction phase, obstacle flags | `ControlTask` | commands at any moment, time-outs, stale flags |
| vehicle MQTT, vision, drive | bounded queues between tasks | callbacks, parsing, PWM | lost frames and messages |

How they interact: `task`, `topo`, `mqtt_subscriber` and the planner itself send
to `/mq_task_dispatch` (read by the planner); the subscriber sends to
`/mq_route_exert` (read by the router); planner and router send to
`/mq_mqtt_publish` (read by the publisher, which speaks MQTT to the cars). All
of them read and write map and cars in shared memory under two seqlocks.

What makes them right: copies are never torn and lock holders' deaths do no
harm; a stored plan is a real route to the stored target; bans, cancels and
assignments have the effect their answers promise; the host neither gets stuck
nor keeps itself busy; journeys end.

`PROJECT.json` lists the components with what is modelled of each, and the
hazards with the line where each bites.

## 2. Modules

| Module | Models | Code |
|---|---|---|
| `AtomicRecord` | abstract: a record written and read in one step | the promise of `seqlock.h` |
| `Seqlock` | word-by-word seqlock under a robust mutex | `seqlock.h`, helpers of `shm_manager.h` |
| `SeqlockProofs`, `ShmLifecycleProofs`, `LoggingProofs`, `CarControlProofs`, `AgvMapProofs`, `PathFinderProofs`, `HostDispatchProofs`, `HostJourneyProofs` | proofs (section 5) | |
| `AgvMap` | ids, edges, turns, reversals, possible routes | `shm_layout.h`, `init_map`, `find_path`, `generate_turn`, `jud_rev` |
| `MsgQueue` | bounded priority queue | `mq_wrapper.h` |
| `PathFinder` | the A* search, one entry of its queue per step | `find_path` |
| `VehicleCommands` | what a command does to a vehicle, as the host sees it | `main.cpp`, commands |
| `Vehicle` | abstract: a vehicle as the host may rely on it | `main.cpp` |
| `CarControl` | the firmware's state machine | `main.cpp`, `mqtt_handler.cpp`, `vision.cpp` |
| `HostDispatch` | planner, router, subscriber, publisher, task, topo, and the vehicles as `VehicleCommands` has them | `planner.h`, `router.h`, `mqtt_subscriber.cpp`, `mqtt_publisher.cpp`, `Task.cpp`, `Topo.cpp` |
| `HostOverlaps` | `HostDispatch` with a note of what overlapping steps have spoilt | the handlers' accesses, in their order |
| `ShmLifecycle` | coming up, ending and restarting of all host processes | `shm_manager.h`, `mq_wrapper.h`, every `main` |
| `Logging` | the log queue, its descriptors, signals, reconnecting | `logger.cpp`, `log_daemon/main.cpp`, `mqtt_client.h`, `signal_handler.h` |
| `MCHostDispatch`, `MCHostOverlaps`, `MCCarControl`, `MCPathFinder` | maps, requests and commands of the instances | |

How they fit together:

    Seqlock    implements  AtomicRecord        one access to shared memory is one step in HostDispatch
    PathFinder answers in  AgvMap!Routes       the planner of HostDispatch may answer with any of them
    CarControl implements  Vehicle             built from VehicleCommands, which drive the cars of HostDispatch
    HostDispatch extends   AgvMap, MsgQueue, VehicleCommands
    HostOverlaps extends   HostDispatch        the same steps, with two history variables

**Seqlock.** `seq`, `mem`, `mtx` are `seq_`, the guarded data and the mutex.
`Lock`, `WriteBegin`, `StoreWord`, `WriteEnd`, `Unlock` follow
`SeqlockMWWriteGuard` around the stores of a helper; `ReadBegin`, `CopyWord`,
`ReadEnd` follow `SEQLOCK_READ`. `Die` kills a process inside its guard. A word of
the record holds the number of the write that stored it, which is all a reader
can tell apart. `Reordering` says whether stores may move before `write_begin`
(the code's release store allows it), `MayDieAt` where a writer may be killed.
A reader that sleeps through all values of the 32-bit `seq_` in one copy is
excluded (`NoLap`). `Init` has the record zeroed, as the placement new of
`create_and_init` leaves it.

**PathFinder.** `open` is the priority queue, `g`, `from` and `closed` are the
vectors of `find_path`. A step pops an entry (`Skip`, `Arrive`, `Expand`).
Distances are compared exactly, without square roots (`NoWorse`); entries of equal
cost are taken in any order, which leaves the tie-breaking of `priority_queue`
open. `InRange` and `OpenRoad` compare ids with counts as the code does, so the
last node and the last edge take no part. `Off` reads the record after the
target's, as the code does.

**HostDispatch.** `est`, `nst`, `cars` are the statuses in the map and the car
records; `taskQ`, `routeQ`, `pubQ` the queues. Each process has a place (`pPc`, `rPc`,
`sPc`, `tPc`) and its locals; an action is one access of its handler together with
the local computation up to the next. A vehicle is a place (`drive`: idle, follow,
junction, stopping, held), its count of junctions (`num`, `count`) and whether it
waits for a passing obstacle (`tmp`). Status values nobody assigns and task ids,
which are always 0, are left out. Reports from a car keep their order (one MQTT
session).

**HostOverlaps.** Nobody makes clients wait for one another, so a ban may meet a plan
made before it and a cancel may overtake its assignment. The module adds nothing to
what the host does. `outdated` and `defied` are history variables: the cars whose route was
closed behind a plan, and those that do not obey their last cancel. A car gets into
them only by a step with a name:

| Name | Step | Code |
|---|---|---|
| `Dropped` | a message about the car finds its queue full | `mq_wrapper.h:172` |
| `Forgotten` | the planner is restarted while it has the car's message | the planner's unit, `Restart=` |
| `NoWayBack` | a turn-around for which there is no road | `planner.h:105` |
| `PauseLost` | the pause for the car is dropped, lost, or does not keep it standing | `planner.h:126`, `mqtt_publisher.cpp:22` |
| `SetsOff` | the end of an obstacle starts a car that stood | `main.cpp:542` |
| `OldPlan`, `OldTask` | a record read before another process stored one is stored | `router.h:111`, `planner.h:149`, `mqtt_subscriber.cpp:288` |
| `OldMap` | a plan made on a map that has changed since is stored | `planner.h:57` |
| `NotTold` | another car's obstacle closes a road | `mqtt_subscriber.cpp:254` |
| `Overtakes` | a cancel goes ahead of the car's assignment, or finds no room | `Task.cpp:102` |
| `StartsAgain` | a replan after the cancel starts a car that stood | `planner.h:153` |

`ClosedRoadsNoted` and `CancelsNoted` say that at rest every car not noted keeps to open
roads and obeys its last cancel, that is, these steps are the only ways in which bans and
cancels fail. A car is taken off the list by what repairs it: topo's list of cars under
way (`ToldOfAll`), an open route, a new cancel.

**CarControl.** `ctx` is the struct `Ctrl`, with the motors and the reports of the
last step. A period of `ControlTask` is a step for the obstacle block (`Look`) and
one for the switch over the states (`RunIdle` ... `RunCapture`); commands are obeyed
before a period. Ticks and encoder counts are not kept: a comparison with a limit
may go either way, except right after the counter was reset in the same period.
A camera frame is the node flag and a kind of obstacle; `VisionTask` sleeps while
`capMode` is set.

**Vehicle.** What the firmware is shown to keep to, and so what the host may rely
on: one announcement per junction, none while one is unanswered. It also records
what the host must put up with: after a turn-around a junction may be announced a
second time (`ArriveBack`), an obstacle may stop the car without a report
(`Obstacle`), its end starts the car whatever it was told meanwhile (`Repaired`).
`HostDispatch` has them as events: `AGAIN` is the second announcement, `SILENT` the stop
without a report (`CarHalts`), after which the car may never go on. Only the photo
session, which looks to the host like a car that is slow, and the repeated report of a
vehicle ahead (`Again`) are left out there.

**ShmLifecycle.** Queues and segments are numbered objects that a name is bound
to, so that a process can hold one whose name has gone. `Creation` is what
model_manager does before it polls, `Script` what each other process opens, in the
order of its `main`, and whether it can do without. A segment goes through
`Stages`. `After` is the units' `After=`, which only orders forks (`Type=simple`).

**Logging.** A log line opens the queue again (`Log` takes a descriptor) and blocks
when the queue is full. Signals wait in a descriptor until the poll loop reads them
(`Terminate`, `Exit`); a process inside `mq_send` does not. `Receive` and
`DaemonStops`/`DaemonStarts` are log_daemon, `Disconnect` and `Reconnect` the
connection to the broker.

## 3. Runs

| Run | Instance | Checks |
|---|---|---|
| `seqlock` | 1 reader, 2 writers, 2 words, up to 4 writes, a number that wraps with the fourth, a death outside an open write | `NoTornRead`, `MutualExclusion`, `SeqlockInv`, refinement `AtomicRecordSpec`, `ReadCompletes`, `WriteCompletes` |
| `path_finder` | the real map, starts 1 and 8, every target, one road (in three states) and node 8 disturbed | `CostsGrow`, `Answer`, `Finishes` |
| `host_calm` | 2 cars, 3 requests, each made when the host is at rest | `OnRoute`, `BansHonoured`, `CancelHolds`, `TaskEnds` |
| `host_obstacles` | 1 car, 2 requests, 3 obstacle events at rest | `OnRoute`, `BansHonoured`, `TaskEnds` |
| `host_overlaps` | 1 car, 2 requests, 1 event (hole, placing, second announcement, silent stop), every interleaving, queues of 2, 1 and 2 | `PlanIsWhole`, `OnARoad`, `ClosedRoadsNoted`, `CancelsNoted` |
| `host_loss` | lost messages, queues of 1, 1 and 2, 2 restarts, 1 event | `Settles` |
| `car_control` | driving, pausing, turning, counting; passing, lasting and slave obstacles | `FreshDirection`, `StandsStill`, refinement `VehicleSpec` |
| `car_photo` | sessions of 2 photos, one direction, animals | `StandsStill`, `WaitEnds`, `PhotosEnd`, `AnimalPasses`, refinement `VehicleSpec` |
| `lifecycle` | planner and topo, model_manager ends once at any moment, one of them once | `LocksAreReady`, `RestartHeals`, `AllServe` |
| `logging` | 3 processes, a queue of 2 lines, 3 descriptors, log_daemon stopped twice | `LineGetsOut`, `Ends` |

What each shows is in the comment over its properties. Every module also has its
`TypeOK` checked in one of its runs.

Why the bounds are enough. Seqlock: two words can be torn, two writers give a
second write beside a read, readers do not affect one another. Host: the maps have a
loop, so a ban leaves another route, and dead ends, so turning around can leave
none; two cars are needed only where one's plan must survive the other's, and the
overlap run needs a request, a second one beside it and a car event. In that run
`NoWayBack`, `PauseLost`, `OldPlan`, `OldMap`, `Overtakes`, `OldTask` and `StartsAgain` all occur:
without any one of them in its definition TLC finds the property violated. `Dropped`,
`Forgotten`, `SetsOff` and `NotTold` need a third request, a restart, a passing obstacle or a
second car, which make the run several times as large; the theorems of section 5 have
them all. The path search
has no bound but the statuses. CarControl has the car's own booleans; counting is
cut off above `MaxCount`, where the car has long stopped. Lifecycle: planner must
have everything and topo can do without anything, so the other processes are
between them; one restart leaves old objects, which a second would only repeat.
Logging: three processes make two wait in order.

Deadlock is not checked where requests, events and lives are bounded: there the
system may have nothing left to do.

### Disagreements with documents (runs that must be violated)

| Run | Code | Against |
|---|---|---|
| `queues_apart` | the publisher's unit is not ordered after model_manager; `MqReceiver::init` creates the queue that the owner then unlinks and creates again, so commands go to one object and the publisher polls the other | systemd `README.md:45` |
| `reconnects` | log lines use up the descriptors, and a connection that breaks finds none for its socket | `mqtt_client.h:131` |

Some disagreements are not runs of their own, because the properties say what the
code does:

* `host/master/mqtt-api.md:41` says that a direction starts a car that stands and is for the
  next junction, and `:102` that the first junction of a route is known before the car
  reports it. In the firmware an ORIENT starts nothing (`main.cpp:405`, `Directed`), and
  `onJunc` discards a direction that was there before the junction (`main.cpp:194`): only
  one that answers the report is used. `FreshDirection` states this.
* `log_daemon/main.cpp:76` says that model_manager unlinks the log queue. It unlinks the
  three queues it owns and not that one; `Logging` has a log queue that stays.

### Other limits the models show

They follow from the same modules with other constants; each is why a property
above is checked under the conditions it is.

* A writer killed inside an open write leaves `seq_` odd or its parity turned round:
  readers spin, or accept torn copies (`MayDieAt` with "writing"). `seqlock.h:84` says
  that the lock recovers; the mutex does, the record does not.
* A release store does not hold back later stores: with `Reordering` a copy may be
  torn (`seqlock.h:40`).
* When requests overlap (`Calm = FALSE`), `BansHonoured` and `CancelHolds` fail: a ban misses a
  car whose plan is about to be stored (`Topo.cpp:31`), a cancel overtakes the assignment
  it cancels (`Task.cpp:102`), the router's write of a whole record discards a plan stored
  since it read it (`router.h:111`). `HostOverlaps` names every such case.
* A replan on the last leg finds the empty path, which counts as failure, and
  turns into a cancel (`mq_msg.h:69` says that the target stays).
* A road banned by its second id stays open the other way (`Topo.cpp:107`).
* A passing obstacle on a banned road, and its end, overwrite the ban.
* A car that is paused while it waits for an animal drives on when that has gone.
* A car placed by its keys while it waits for an animal has no path; when the
  animal has gone its record says MOVING all the same (`OnRoute` fails).
* A vehicle paused or turned around in a photo session keeps a direction for a later
  junction (`FreshDirection` fails with both `Photographs` and `TurnsAround`); its camera
  task sleeps from then on. No passing run combines the two.
* A photo session that times out during a rotation leaves the motors turning
  (`main.cpp:817`), the one exception of `StandsStill`.
* A vehicle that has reported an obstacle and is turned around stops at the next one
  without a report (`main.cpp:437`, `CarHalts`): nobody plans anew and its journey does
  not end.
* A subscriber that found no queues keeps null senders and crashes on the first ARRIVE
  (`mqtt_subscriber.cpp:247`); systemd starts it again.
* With two cars, a road closed by one's obstacle stays in the other's path.
* With more cars than places in the queue, topo's replans are dropped silently, and
  the car drives on over the banned road (`mq_wrapper.h:173`, `Topo.cpp:42`).
* The search does not answer with the cheapest route: the distances the heuristic
  adds are in pixels, far above the weight 10 of a road.
* PROCESS and CNT of a new task overtake the ARRIVED of the last one.

## 4. Fairness

*Seqlock*: a process inside an operation has weak fairness: it is scheduled and
nothing in the guard or the read loop sleeps. Starting an operation and dying are
not fair. Readers finish because writes are bounded (`MaxWrites`): the source
itself says that writes are rare.

*HostDispatch*: every host process has weak fairness (a poll loop that wakes on its
queue). A car that follows its line has strong fairness for its next arrival: it
gets there whatever the host does, and in `Calm` runs one car's arrival suspends the
other's. A car without a direction gives up in the end (its 5 s limit; strong for
the same reason), one that is told that it has arrived stops (weak). `TaskEnds` needs
these; `Settles` does not. Requests and events are not fair.

*CarControl*: `ControlTask` is weakly fair (it has the highest priority on its core).
The limits of a wait and of a photo stage are read in every period against a clock
that goes on, so they are strongly fair.

*ShmLifecycle*: the steps of each process are weakly fair, its next start included
(`Restart=always` without a limit). Deaths are bounded, not fair.

*Logging*: log_daemon reads and is restarted (weak), and the library keeps trying
to reconnect (weak). `Exit` is strongly fair: a poll loop looks at its signal
descriptor in every round, although a log line may block in between.

*PathFinder*: the loop runs on (weak).

## 5. Proofs

Proved with TLAPS, for every value of the constants that the named assumptions
allow (any map, any cars, any capacities, any number of processes and any bounds):

| Module | Theorems | Hypotheses beyond the assumptions |
|---|---|---|
| `SeqlockProofs` | `TypeCorrect`, `WritersExclude` | none: every build, any deaths |
| | `Invariance`, `NoTornReadCorrect`, `ImplementsAtomicRecord` | `Orderly` |
| `ShmLifecycleProofs` | `Invariance`, `TypeCorrect`, `LocksReady`, `RestartConnects` | none |
| `LoggingProofs` | `TypeCorrect` | none |
| `CarControlProofs` | `TypeCorrect`, `StandingStill`, `RefinesVehicle` | none |
| | `FreshDirections` | no vehicle both takes photographs and turns around |
| `PathFinderProofs` | `TypeCorrect`, `CostsAlwaysGrow`, `SearchAnswers` | none |
| `HostDispatchProofs` | `TypeCorrect`, `PlansAreWhole`, `CarsOnRoads` | none: every interleaving, losses, restarts |
| `HostJourneyProofs` | `OnlyOverlapsOutdate`, `OnlyOverlapsDefy` | none: every interleaving, losses, full queues, restarts |
| | `RoutesGoOn` | not both `REPAIRED` and `POSITION` in `Events` |

`AgvMapProofs` has no theorem of its own: its lemmas say what the map's operators
compute.

**Seqlock.** `WritersExclude` rests on `MutexInv`: a writer is in its guard exactly
while the mutex names it. `Orderly` (no store moves before `write_begin`, no death
inside an open write) names the two cases in which TLC finds torn copies.
`NoTornRead` is not inductive. `SeqlockInv` adds that `seq` is the number of writes
begun plus the number ended (`SeqInv`), that memory is the committed record
except for the words the open write has stored (`RecordInv`), and that a running
copy is of committed words as long as no write has begun since (`ReaderInv`). The
key lemma `SnapCurrent`: if `seq` still equals the snapshot, less than a lap apart
(`ModApart`), then no write has begun since and none is open.

**ShmLifecycle.** `NamesInv` bounds the objects by the unlinks still to come in the
lives there may be, `OwnerInv` ties the stage of the current segment to the step
model_manager is at. `ReadyInv`: a segment a process has validated stays
initialized, since stages only grow; from it `LocksReady`. `HealInv`: a process
started while model_manager polls holds, for every step of its script it has done,
what the name is bound to now; from it `RestartConnects`.

**CarControl.** A period is a chain of operators on the record `ctx`, so each of
them gets a lemma on what it makes of a record, stated as a few outcomes (it rests,
resumes, stops, takes a direction ...). `FreshDirection` holds because a direction
is cleared wherever a junction is left: but a vehicle that is paused or turned
around in a photo session keeps the direction and the session's flag
(`main.cpp:413`), so with both kinds of commands TLC finds a turn by a stale
direction after 26 steps, and the theorem excludes that combination. The
refinement maps the state of the firmware to the places of `Vehicle`; every outcome
is one of `Vehicle`'s actions or a stutter.

**AgvMap and PathFinder.** `Walks` and `Trail` are recursive functions over the length
and over the nodes. What a recursive function computes is proved without an
induction rule: `Iterates` gives a sequence of approximations, the recursion
therefore has a solution (`WalksByLength`, `TrailStep`), and a statement about all
arguments holds because a least counterexample has none (`Least`). For `Trail` the
costs do it: they strictly grow along the predecessors (`CostsAlwaysGrow`), so the
recursion is well-founded, and what `Arrive` collects is a walk over nodes of
growing cost, hence without a repetition (`TrailLeads`). `SearchAnswers` needs more:
when the queue runs empty, every node that can be reached has a cost. Its invariant
`SearchInv` says that a node with a cost is closed or has an entry (`Reached`), that
what an expanded node leads to has a cost (`Spread`), and that each closed node adds
one road at most to the costs (`BoundInv`), without which `Infinite` could be a cost.

**HostDispatch.** `PlanIsWhole` and `OnARoad` are about stored records, and the
processes store records they made earlier. `TypeInv` therefore says of the records
in `pCar`, `rCar` and `sCar` that they are as sound as the stored ones (`SoundCar`), and
of the snapshot `pMap`, the messages and the rest of a request that they have their
types. That a planned route is whole comes from `RoutesLead`, that turning around
keeps the car on a road from `WaysBack`, and that `Send` keeps a queue in order and
within its capacity is a lemma about `MsgQueue`. Neither theorem needs any order
among the processes.

`RoutesGoOn` is about rest. A stored
record with status MOVING is on its way (`OnWay`: at its target, or its path leads
on) and so is every record about to be stored (`Held`, `Leading`). The one writer that
sets MOVING without a plan is the end of an obstacle (`SubAfter`). So `Sending` says
that every car that ever got a target (`Begun`) is on its way, also while it waits,
and that only such a car drives, is told to start, waits for an animal or reports
the end of one. A car placed by its keys
(`mqtt_subscriber.cpp`, POSITION) loses its path while it still waits for an animal:
with both events TLC finds, after 29 steps and even in a calm behaviour, a moving
car whose path is empty. Each of the two alone does no harm, which is the theorem.

`OnlyOverlapsOutdate` is proved by `SeenInv`. It says of each car that it is noted, or its
route is open (`OpenRoute`), or its replan is still to come from topo or the subscriber, in
the planner's queue or in its hands (`Recalled`), or it stands, or its pause is on the way with no
command to start behind it (`Halted`). At rest the third is over, and a car in the fourth
is not under way. `PlanFits` ties the plan the planner is about to store to the map it was
made on, so that storing it either opens the route (`FreshPlan`) or is `OldMap`. That a car
which is not under way has no route to lose rests on `EmptyIdle`, and that nothing behind a
pause starts the car on `UrgentStarts`: PROCESS and UTURN go out with high priority like the
pause, so the queue keeps them in order.

`OnlyOverlapsDefy` is proved by `HonouredInv`: if the last request for a car is a cancel and
the car is not noted, then no assignment waits in the queue and behind one in the planner's
hands the cancel waits (`Unclaimed`); and the cancel is still due (`CancelDue`), or the car's
record goes back to where the task began (`Back`), or the car stands or is about to
(`Quieted`). `Homeward` says that what the planner stores for a cancel, and the router for a
task that has ended, goes back. Every step that could end the last two without a new one is
one of the named ones, and neither proof needs an order among the processes, so the
theorems hold for all interleavings, losses and restarts.

**Standing still.** `StandingStill` needs to know when the motors may be on while the vehicle
takes photographs: only in a rotation (`StillInv`), whose limit is the exception. `StandsOnce`
says that each part of a period that comes to IDLE or WAIT has switched them off.

Only model-checked: all liveness (`TaskEnds`, `Settles`, `AllServe`, `LineGetsOut`, `Ends`,
`WaitEnds`, `PhotosEnd`, `AnimalPasses`, `Finishes`, `ReadCompletes`, `WriteCompletes`), which
needs ENABLED; and `BansHonoured` and `CancelHolds`, which say that without overlaps,
losses and lasting obstacles of other cars no exception is left. Every other safety
property of the passing runs has its theorem.

## 6. Plan

1. An overlap run with a second car and passing obstacles, once an abstraction of the
   road ahead makes it small enough: `NotTold` and `SetsOff` would then occur in a run.
2. Safety parts of the liveness arguments: what a task that is under way has
   in flight at each point, which `TaskEnds` then needs only fairness for.

## 7. Not modelled

* JSON, URL and topic parsing, and the text protocol of the camera: well-formed input is
  the models' input, and ill-formed input changes nothing, with one exception: a car's
  message whose type is missing or unknown is taken for an ARRIVE
  (`mqtt_subscriber.cpp:99`, `:152`) and lets the router advance. The firmware sends none, and
  the models have none. A camera line
  without an obstacle field gives the label NONE, which the car takes for a
  lasting obstacle (`vision.cpp:40`); any label outside `Temporary` stands for it.
* The status API and the web page only read.
* PWM, GPIO, encoders as numbers, display and keys: only which way the motors turn
  and that turns end.
* The map reset by SIGUSR1 (`reset_shm_map`), an operator's tool: it sets every
  status to IDLE inside one guard, but rewrites the bipaths, which others read
  without the lock.
* Data inside libraries: mosquitto's threads, PubSubClient (used by three tasks of
  the car without a lock), FreeRTOS queue sets.
* The timer library, which no process uses.
