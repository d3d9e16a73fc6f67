# TLA+ verification of the K230 openpilot runtime

The driving system in `src/src` is a set of Linux processes on one board that
share memory, die and are restarted on their own, and decide 100 times a second
whether a car is steered. This directory holds TLA+ models of it, TLC
configurations that check them on small instances, and proofs, checked by TLAPS,
of the properties that matter most for every size.

Paths below are relative to the repository. `PROJECT.json` lists every
run, mutant, theorem, finding and hazard, and says for every definition
which lines of code it models.

## 1. Inventory

### Processes and how they talk

```
 camera -> camerad --NV12 ring /k230_road_ai, roadAiFrame--> modeld
                       \--ring--> recordd <--recordFrame-- modeld --modelState--> controlsd
 car <-USB-> Panda <-> pandad ==can==> controlsd ==sendcan==> pandad
                       pandad --pandaState--> controlsd
                       pandad ==can_log, sendcan_log==> recordd
 modelState, controlState, pandaState, managerState --> overlayd (HUD, buzzer), recordd
 controlsd --learnerState--> parameter server -- HTTP --> page
 k230_manager.py starts all of them and restarts the dead
```

`==>` is a CAN queue (every batch, in order), `-->` a latest channel (newest
snapshot only). Nothing else is shared except files: parameters (written by
`k230_param_server.py`), learner and calibration caches, recordings.

### Components

| Component | State | Operations | Hard because | Correct when |
| --- | --- | --- | --- | --- |
| CAN queue (`ipc_channels.cc`) | `write_seq`, `read_seq`, slots in shm | `push`, `pop`, `reset`, `open` | two processes, no lock, 21 KB plain copies, either may die | batches whole, in order, none lost or doubled; refused only when full |
| Latest channel (`ipc_channels.cc`) | `seq`, payload in shm | `publish`, `read`, `read_new` | seqlock, publisher dies with odd `seq` | snapshots whole, never older than the last, newest arrives |
| Frame ring (`ipc_channels.cc`) with camerad, modeld, recordd, encoder | slot seqlocks, frame ids, encoder buffers and pending metadata | `write_slot`, guarded copies, `submit_frame`, `drain` | slots reused while copied; ids restart; encoder drops metadata | copied picture is whole and the named one; recorded = what the model saw |
| Input holds (`control_holds.cc`) | last decision, last path, their times | `update` each tick | stale input replaced by remembered input | a hold never outlives, renews or contradicts what it stands for |
| Engage machine (`lateral_controller.cc`, `EngageEvents`) | `engaged_`, button, pending request, path debounce | `update` each tick | four independent inputs, timers, rejection | hard fault ends at once; steering only with cause; driver is told the truth |
| Control loop (`k230_controlsd.cc`) | schedule, received batches | one 10 ms tick | overruns, batches stamped during the tick | no burst after an overrun; only stale batches dropped |
| Steering (`lateral_controller.cc`, `hyundai_can.cc`) | ramp, cut, override fade, last torque, LKAS11 counter | `update`, `build_frames` | timers across disengagement, five limits on one torque | cut without torque, counter unbroken, frame carries the command |
| Vehicle state (`vehicle_can.cc`) | what each message told and when, estimated cruise | `update_vehicle_can_state` | facts come in different messages at different times, some are estimated | no condition told otherwise than it was within the timeout |
| Lane change (`lateral_planner.cc`) | state, direction, timers, blend | `update` | four states, blinker edges, timers | no state leaks into the next change; a desire ends in time |
| Adaptive cruise (`adaptive_cruise.cc`) | session, ceiling, commanded speed, press | `update` | the car does not report its set speed; the driver presses too | driver left alone; slowdown awaited; ceiling kept |
| Departure alert (`departure_alert.cc`) | armed, candidates, timers | `update` | two triggers with different rates | one alert per stop |
| Planner worker, parameters, learner store (`k230_controlsd.cc`) | newest request, parameters, jobs; file stamps | `submit`, `update_params`, `poll`, load, write, remove | threads, files replaced under them, kills, power loss | saves reach both threads; newest learner state on disk, whole |
| Parameter page (`k230_param_server.py`) | files, schema; cards, snapshot, learner history and trend | update, snapshot, sample, poll | overlapping requests, late and lost answers, restart with another schema | no update undone, page shows the file, trends whole and in order |
| Overlay (`k230_overlayd.cc`, `overlay_state.cc`) | last snapshots and event ids, HUD, redraw pacing | `on_frame` | edges coalesced between polls, counters restart, redraws wait | no alert twice, none lost; nothing stale shown |
| Buzzer, backlight (`piezo_buzzer.c`, `display_control.py`) | asked melody, PWM and pin state | play, stop, `apply` | every sysfs write may fail half way | quiet when idle; what was applied is shown |
| Calibration and learners | blocks, windows, sample rings, caches | feed, reset, save, restore | restart, rejected samples, stale inputs | a restored cache is as good as the one saved; points only from steering |
| Model histories (`model_temporal.h`, `supercombo_model.cc`) | desire, features, earlier picture | `run_frame` | a frame may fail in the middle | histories are of one moment; a desire is one pulse |
| Recorder (`recording_writer.cc`, `k230_recordd.cc`, encoder) | request flag, write queue, open route/segment/chunk, mover jobs, two directories, pictures in the encoder | `set_enabled`, `write_*`, worker, mover, `close`, `recover` | three threads, bounded queue, failing disk, crash, pictures under way at the switch | closed files survive; routes hold their own session; video decodes; files read back |
| Panda bridge (`k230_pandad.cc`, `panda_client.cc`, codec) | USB connection, receive batch, transmit gate | receive, batch, transmit, health, reconnect, pack | partial USB writes, reconnect, aged batches, frames across packets | nothing sent unconfigured or old; batches of one connection only; round trip |
| Process manager (`k230_manager.py`) | processes, restart times | start, supervise, stop | signals between fork and assignment | everyone comes back; nobody outlives it |
| Lane plan (`ipc_messages.cc`, `LanePlanner` in `lateral_planner.cc`) | times of the lane points, probabilities followed at a limited rate | fill the model state, weigh the lanes, blend the path | a quantised plan stands still, runs backwards or does not begin at the car | times rise; the lane is read where the plan will be; the path lies between the two |
| Torque law (`lateral_torque.cc`, `LateralController`) | curvature asked for, ring of requests, integrator, cached slip | `update` each tick | ring and cache outlive disengagement and changes of speed | errors are of the request of the delayed tick, slip of the speed in use, integral bounded |
| MPC, numerics of the law, inference, rendering, mmz, video input, utilities, other tools | - | - | numerics, drivers | not modelled (section 7) |

## 2. Modules

| Module | Models | Run |
| --- | --- | --- |
| `CanFifo` | what a CAN queue promises: a bounded FIFO that may refuse only when full | `services` |
| `CanQueue` | `push()` and `pop()` step by step; implements `CanFifo` (`CanQueueProofs`) | `services` |
| `CanQueueRestart` | the same ring with both ends dying, `open()` of the old region, `reset()` slot by slot | `driving`, `can_queue_wedge` |
| `LatestChannel` | `publish()`, `read()` and a polling reader, publisher dying anywhere | `displays` |
| `FramePipeline` | ring, camerad (with restart), modeld, recordd, encoder queues | `driving` |
| `PandaCodec` | frames packed into numbered USB packets and back, cut anywhere | `driving` |
| `VehicleState` | buttons, brake and SCC12 to the estimated cruise control, against the car's own | `driving` |
| `VehicleMessages` | every other message: what it tells, its age, the freshness tests, MDPS fault count, doors, wheel speed; CGW1 lamps and the blinker hold, against the lever | `driving` |
| `SafetyHolds` | `PandaHealthGate` and `PathHoldGate` with their publishers and time | `driving`, `safety_holds_off` |
| `TorquePoints` | when the learners predict and from what the torque learner takes a point | `driving` |
| `LanePlan` | the times that modeld gives the lane points; weights, and the path read at the plan's own times | `driving` |
| `ControlLoop` | the tick in time: drain, freshness, schedule after an overrun | `driving`, `can_rx_fresh` |
| `EngageLatch` | one tick of `LateralController::update()` as far as it decides about engagement, and `EngageEvents` | `control`, `engage_latch_wait` |
| `Steering` | ramp, cut, fade, limits, request and counter of the steering command | `control`, `steering_hold` |
| `TorqueLaw` | what `update()` keeps from the curvature to the torque: curvature clip, ring of requests, cached vehicle model, integrator | `control` |
| `LkasFrame` | the LKAS11 frame bit by bit: seed, fields, checksum | `control` |
| `LaneChange` | what `LateralPlanner` keeps between plans: lane change, lane/path blend, bad solutions | `control` |
| `DepartureAlert` | both triggers of the departure alert | `control` |
| `AdaptiveCruise` | `AdaptiveCruiseController::update()` as a composition of its stages | `control` |
| `RuntimeParams` | the planner thread and its critical sections; editor, files, stamps, SIGHUP, load, crash of controlsd | `services` |
| `LearnerStore` | jobs, the writer thread call by call, kills, stop, power loss, restore | `services` |
| `OutputDevices` | the buzzer of overlayd and the backlight, every call of which may fail | `services` |
| `Manager` | start order, supervision, signals, shutdown | `services` |
| `OverlayState` | event counters of controlsd and what overlayd rings, both restarting; `on_frame()`: polling, freshness, animation, redraw pacing, ready file | `displays` |
| `ParamEditor` | `ParamStore` and the page of the parameters | `displays` |
| `LearnerTrend` | `LearnerMonitor`, its reader of the seqlock, and the learner tab of the page | `displays` |
| `PandaBridge` | the loop of pandad with `PandaClient`: connect, safety set-up, `RxBatcher`, transmit gate, chunked sends, health | `devices` |
| `Calibration` | `OnlineCalibrator` and `CalibrationService` | `devices` |
| `ModelHistory` | the histories the network is given | `devices` |
| `Recording` | `RecordingWriter`, its worker, `StagingMover`, recordd's death | `storage`, `recording_abandon` |
| `RecordSwitch` | recordd's main loop and encoder around a change of the recording switch | `storage` |
| `RecordLog` | the recorded files with short writes and cuts, and the offline reader | `storage` |
| `TorqueCache` | the torque estimate, its rings and the file that carries them over a restart | `storage` |
| `ControlProofs` | proofs about `EngageLatch`, `DepartureAlert`, `LaneChange`, `Steering`, `AdaptiveCruise`, `TorqueLaw`, and of `Control` | - |
| `ServicesProofs` | proofs about `RuntimeParams`, `LearnerStore`, `OutputDevices`, `Manager`, and of `Services` | - |
| `DrivingProofs` | proofs about every module of `Driving` but `PandaCodec`, and of `Driving` | - |
| `DisplaysProofs` | proofs about `LatestChannel`, `OverlayState`, `ParamEditor`, `LearnerTrend`, and of `Displays` | - |
| `DevicesProofs` | proofs about `PandaBridge`, `Calibration`, `ModelHistory`, and of `Devices` | - |
| `StorageProofs` | proofs about `Recording`, `RecordSwitch`, `TorqueCache`, and of `Storage` | - |

Every operation of the code is one action, or one action per atomic access where
processes race. The operators whose name is that of another with a slip added
(`FullOneLate`, `LateByOne`, `AtOnce`, ...) are deliberately wrong variants:
no specification uses them; each is tried in place of the right one to see that a
property notices.

### Composition

`Driving`, `Control`, `Services`, `Displays`, `Devices` and `Storage` each extend several of
these modules and are what TLC runs. Where components interact through state that a property
needs, they are in one module: `RuntimeParams` holds the editor, controlsd and its worker, `CanQueueRestart` extends
`CanQueue`, `FramePipeline` holds four processes, `OverlayState` both ends of the event counters,
`RuntimeParams` and `ParamEditor` both ends of a parameter file. The modules of one run share no
variable, so every behaviour of all of them together is, seen on the variables of one, a behaviour
of that one (section 4 proves it where it is used). The run therefore chooses at its start, by `focus`, the component that moves, instead of
multiplying independent state spaces; a property of a component is decided by the behaviours in which that
one moves. TLC's coverage shows that every action of every component is taken.

### Correspondence with the code

*CAN queue.* `write_seq`, `read_seq` and `slots` are the shared header and ring.
`ppc`/`cpc` say where `push()`/`pop()` stand, `pw` and `cr` are the counter values
they loaded, `cbuf` the caller's batch. A batch is two halves copied in two steps,
so a copy that meets another shows as torn. Counters wrap at `SeqModulus`, which
stands for 2^64 in the unsigned difference `push()` computes. In `CanQueueRestart` the
producer dies at any step, the new one maps the old region (`ProducerReopen`) and runs `reset()` in
the order of the code (`read_seq`, `write_seq`, slots); the consumer dies at any
step and returns without a reset. `overlap` records whether a `pop()` was in progress during a reset.

*Latest channel.* `seq` and the two halves of `payload`; a half is named by the
even number its publication ends with. `PublisherRestart` abandons a publication
half-way. The reader is `poll()` of overlayd, which copies into a candidate first.

*Frame pipeline.* A slot has its seqlock, its frame id and two halves;
`cap` names a picture for good while frame ids restart with camerad. modeld and
recordd run the same guarded copy (`Copy`), each on its own. The encoder is four queues:
`free`, `raw`, `out`/`done` in the hardware, and `pending` for the metadata that the
hardware does not carry. `VIDIOC_QBUF` and either `VIDIOC_STREAMON` may fail.

*Safety holds.* Timestamps are kept as ages, capped at the first age no comparison
tells from a larger one, so `ElapseHolds` is the only clock. A snapshot is what
the gates read of it: transport flags, safety mode and heartbeat, consent; for
the model, age of the captured frame, validity, and whether the plan reaches far enough.

*Engage latch.* A tick (`Tick`) chooses the button, the standing faults, the two
gate results, the path and the speed freely, debounces the path, finds the first
block reason in the order of `active_block_reason()`, and decides. `told` is the event id
that `EngageEvents` advanced last. `hard_seen` and `unbroken_age` are history.

*Steering, LkasFrame.* A tick chooses active, hold, angle, driver torque and wanted torque; torques are whole steps,
and `lround()` of the fade is kept. `angle_limit`, `fault_frames`, `cut_frames` and `fade_timer` are the counters of the code;
`asked_above` is history. A frame in `LkasFrame` is the set of its one bits, read and written through the shifts of `can_frame.h`.

*LaneChange, DepartureAlert, AdaptiveCruise.* One action per call of `update()`, whose stages are operators from the
state to the next, composed in the code's order; times are ages moved by a clock action of their own.

*Vehicle.* In `VehicleState` the car is a driver's cruise control and `news` the messages not sent yet; in `VehicleMessages` the car is the set of
the conditions that hold, `told` what controlsd believes, and `missed` how long the two have differed; its second part adds the relay that makes the lamp blink.

*ControlLoop, TorquePoints.* Time passes between any two steps; `lead` is the distance of `next_tick`, everything else an age. `gaps`, `discarded` and `learner_last` are history.

*LanePlan.* The grids of the model are quadratic, so point i lies at i*i in units of the grid, in x as in time. A plan is any sequence of distances; times are
in units of 1/`Scale`, -1 for NaN. One turn of the outer loop of `k230_fill_model_state()` is a step; `interp()` skips points without a time.

*TorqueLaw.* One action is a tick from the curvature on; curvatures are small integers, speeds the four ranges the code tells apart, a vehicle model the values it was
computed from. The feedforward with friction, bank and offset is a free choice. `past` is history: the requests by their age.

*Planner worker, parameters.* A request is the number of its frame, parameters the number of the load that made them; a
file is the number of its version, which stands for its stamp too, and whether its loader takes it. Saves, signals and crashes fall between any two file accesses.

*LearnerStore.* A content is the number of its submission; one job per path, the thread's place call by call (open, write, rename, remove). The store does not sync, so a power loss may cut a file short.

*Manager.* `run()`, the signal handler between any two of its steps, children that exit on their own, when told to or only when killed.

*Overlay.* `unrung` and `owed` are history over the counters of both processes. In `on_frame()` ages stand for times, `since` for the
three last-times of the loop; `waiting` and `dark` are history: how long a change has waited, and whether the preview stood still.

*Page.* `ParamEditor` keeps `requests` under way, each with its stage, and the cards with the value they went back to; `written` is history. `LearnerTrend`
names a publication by its even sequence number; the reader's two half-copies, the monitor's deque and the page's trend follow the code's order.

*Panda bridge.* `pc` is the place in the loop of `main()`; every transfer on USB is one action.
`conn` numbers connections, so that a piece of bytes on the `wire`, a frame in a batch and a
snapshot of pandaState each say over which one they came. `healthy` and `malformed` are
`comms_healthy_` and `consecutive_malformed_rx_`. A packed batch is `Units` pieces, sent in
chunks of `SoftLimit` with `Retries`; `pos`, `total` and `attempt` are the progress of `send()` and
`bulk_write()`, where a transfer may move any part and then succeed, time out, be tried again or find
the device gone. `sendcan` holds numbered commands with their age. `PandaCodec` packs frames of bytes told by frame and place.

*Calibration, ModelHistory.* An orientation is one angle on a grid; a block is an average rounded down. A picture or feature is the number of its frame modulo `FrameTags`.

*Recording.* The main thread (`SetEnabled`, `Send`, `Close`, ...), the worker
(`Work`: one queue entry per action, with every file operation it causes) and the
mover (`Move`: take a job, truncate the destination, copy, unlink) interleave.
Packets are numbered, a file is what it holds, `Faults` says what may fail. A
crash keeps `staging` with a prefix of what was buffered, and `recover()` queues
every staged route again.

*RecordSwitch.* `setting` is `recording.json` with a revision, `recorder` the variables of `main()`, `coder` the pictures in the encoder and how
many are coded; `handed` is the writer's queue with its limit, `film` the worker's open route. A session is numbered at its start; `starts` and `missing`
(pictures late in the encoder, and lost at a full queue) are history.

*RecordLog, TorqueCache.* A unit of a file is told by its record or packet and its place in it; the reader puts units together by the lengths it
finds. The torque factor and its fits are small numbers, a ring holds the points of one range.

## 3. Runs

Six runs pass, each over the whole state space of its modules; six end in a violation and are
section 5. States are distinct ones.

| Run | States | Module (states) | What it shows |
| --- | --- | --- | --- |
| `driving` | 1.3 million | `CanQueueRestart` (182 thousand) | `RestartsKeepBatches`: while no `reset()` overlaps a `pop()`, batches of two generations stay apart and the undelivered ones stay in the ring |
| | | `FramePipeline` (790 thousand) | `RecordedAsSeen`: a copied picture is whole, the recorded one is the one the model saw, in order |
| | | `PandaCodec` (2 thousand) | `RoundTrip`: frames come out of the packets as they went in, cut anywhere |
| | | `VehicleState`, `VehicleMessages` (34 thousand) | `VehicleIsKnown`: no condition of the car is told otherwise than it was within its timeout |
| | | `SafetyHolds` (65 thousand) | `GatesAreRecent`: no hold outlives, renews or contradicts what it stands for |
| | | `ControlLoop`, `TorquePoints` (190 thousand) | `TimeIsKept`: no burst after an overrun, predictions over at most one gap, torque points only from steering |
| | | `LanePlan` | in `DrivingInv`: times of a lane rise, the lane is read where the plan will be, the path lies between the two |
| `control` | 37 thousand, each with up to a thousand inputs | `EngageLatch` | `HardFaultEnds`, `DriverKnows`, `EngagesOnlyOnSet`, liveness `RequestIsAnswered` |
| | | `LaneChange` | `LaneChangesEnd`: a desire ends in time, a change cut off is not resumed, no swerve to the other side |
| | | `Steering`, `LkasFrame` | `CommandIsSteady`: a cut begins at zero, the counter keeps step through disengagement, the frame carries the command |
| | | `AdaptiveCruise` | `CruiseIsPolite`: no press against the driver or above the ceiling, none before the last SET- could be answered |
| | | `DepartureAlert` | `StopAlertedOnce` |
| | | `TorqueLaw` | in `ControlInv`: requests by their age, slip of the model in use, integral bounded |
| `services` | 196 thousand | `CanQueue` | `NoSlotRace`, refinement `ImplementsFifo`, liveness `EventuallyDelivered` |
| | | `RuntimeParams` | `PlansWithItsParams`; liveness `SavesAreTaken`: the last save ends up in use in both threads |
| | | `LearnerStore` | `LearnedFilesAreWhole` through kills and failed writes, `StopFinishesWrites` |
| | | `OutputDevices` | `DevicesAreAsAsked`, though each call may fail |
| | | `Manager` | `NoChildOutlivesManager`, liveness `DeadIsRestarted` |
| `displays` | 618 thousand | `LatestChannel` (8 thousand) | in `ShownIsTrue`: `StateIsWhole`; liveness `LatestArrives` |
| | | `OverlayState` (alerts, 60 thousand) | in `ShownIsTrue`: `NoGhostAlerts`; liveness `EventsAreRung` |
| | | `OverlayState` (HUD, 104 thousand) | in `ShownIsTrue`: `HudIsRight`: nothing stale shown, what is new is drawn in time |
| | | `ParamEditor` (365 thousand) | in `ShownIsTrue`: `EditorIsRight`: no change lost or undone, the page shows the file when it has settled |
| | | `LearnerTrend` (81 thousand) | in `ShownIsTrue`: `TrendIsRight`: samples whole, in order, none twice |
| `devices` | 1.1 million | `PandaBridge` (995 thousand) | `WireInOrder`, `OnlyConfirmed`, liveness `LossIsReported` |
| | | `Calibration` (75 thousand) | `CalibrationIsKept`: the one in use is valid, a stored one is taken up |
| | | `ModelHistory` (11 thousand) | `ModelIsFedRight`: histories of one moment, one request of the planner is one pulse |
| `storage` | 1.3 million | `Recording` (880 thousand) | in `RecordingsAreSaved`: `ClosedFilesSurvive`, `RoutesHoldTheirSession`, `StopSavesClosed`; liveness `CloseReturns` |
| | | `RecordSwitch` (156 thousand) | in `RecordingsAreSaved`: `SwitchIsRight`: a session has its own pictures, from a key picture to its end |
| | | `RecordLog` (270 thousand) | in `FilesAreReadBack`: `DamageStaysInItsFile` |
| | | `TorqueCache` (4 thousand) | in `FilesAreReadBack`: `FactorIsSane`, `RestartKeepsPoints` |

`ControlInv` and `ServicesInv` are the conjunctions of the inductive invariants of their components, `DrivingInv`, `DisplaysInv` and `DevicesInv` that of the
component that moves (`ComponentsInv`, of all of them, is proved with it), checked here on the small instance and proved for every one (section 4).
`StorageInv`, the conjunction for the recorder and the torque cache, is the same but not an invariant of the run: evaluated in every state it
makes the run much longer. TLC has checked it on this instance and on larger ones, with three sessions and with four switches, which some of its parts need (section 4).

### Why the bounds are enough

- *CAN queue:* five pushes wrap a ring of two slots more than twice, so every pair of counter
  values modulo the ring occurs, with the ring full, empty and in between. Proved for every
  number of slots and batches. *Restart:* three crashes give a producer that restarts twice with the
  consumer stuck across both, or one restart with a dying consumer; three pushes overfill the ring.
- *Latest channel:* one read can be overtaken by four attempts' worth of publications. Proved for all bounds.
- *Frame pipeline:* two slots make a reader lose its slot after two frames (the real ring needs
  eight); three frames overwrite a slot, two encoder buffers let the metadata queue get out of step.
- *Packets:* packets of four bytes behind their number and heads of two, so frames of two, three and five bytes end before, at and beyond a packet's end, also within a head, and the packet numbers wrap.
- *Ages and timers* (`SafetyHolds`, `EngageLatch`, `Vehicle*`, `LaneChange`,
  `DepartureAlert`, `AdaptiveCruise`, `OverlayState`, `ControlLoop`): an age is capped above the largest limit
  it is compared with, and each limit is at least one step, so "before", "at" and "long past"
  occur for each timer against the others. The ratios of the code's limits that its comments rely
  on (hold shorter than timeout, signal stop longer than lead arm) are kept.
- *Engage latch:* its four faults are one each of moot data, hard fault, reject reason after the Panda
  reasons, and availability-like planner fault. Proved for all sets of faults and all times.
- *Steering:* torque in three steps each way with a change of one a tick makes every limit bite alone and
  together; the counter has its real 16 values. *LkasFrame:* three torques set and clear every bit next to a field's edge.
- *TorqueLaw:* a ring of two with a delay of the whole ring wraps in two ticks; one step of curvature a tick makes clip, jerk and bank bind, one of
  error reaches the integral's limits. *LanePlan:* a plan of four points, each at the car, between two lane points, on one or beyond the last but one, in any order, so standing still,
  running backwards and beginning away from the car all occur; the proof has any number of points and any distances.
- *Planner worker, parameters:* two files, two changes and a crash give a change before, between and
  after the accesses to both files; two frames give a request that replaces another.
- *LearnerStore:* two paths and two contents let a job be replaced while the thread writes the one before it; two lives give a restore of what the first life left.
- *Manager:* three processes, two exits: one dies while another is stopped or started.
- *Overlay:* two events in each of two lives of either process. *Page:* three requests under way (two of the same card
  and a snapshot) and one lost answer; a number and a toggle differ in how they go back. *Trend:* a history of two rows overflows; two polls overtake each other.
- *Panda bridge:* a batch of three pieces in chunks of two is a full and a part chunk, each cut and retried;
  three frames overfill a receive batch of two; a second connection follows a first that failed anywhere. Safety is proved for all bounds.
- *Calibration:* blocks of two, two to three needed: the ring of blocks wraps. *ModelHistory:* frames are
  told modulo three, the length of the history; an older one is shifted out.
- *Recording:* two sessions let the worker be a session behind; a queue of one is full after one
  item, so control entries pass a full queue; the crash hits every step, after which a second
  session follows. *RecordSwitch:* five pictures in groups of two put a switch before, at and after a key picture with the encoder full.
- *RecordLog:* four writes, each cut at every place, of records with and without payload and of packets of
  two sizes, in up to two files. *TorqueCache:* around the factors 2 and 4 the fits 1, 3 and 6 are inside, at the edge of and beyond the sane range; rings of two overflow.

Deadlock is not checked in these runs: components end at their bounds, and the processes of
several really stop (manager, recordd). That they do not stop early is what the liveness properties say.

### Fairness

Each is of the component that moves, and only what the code's threads and loops justify:

- `CanQueue`: a `push()` that has begun returns, and the consumer keeps polling
  (controlsd each tick, pandad and recordd each turn). A producer is never obliged to push.
- `LatestChannel`: the reader keeps polling. `OverlayState`: overlayd keeps polling. Nothing is assumed of the publisher.
- `EngageLatch`: ticks and time go on.
- `RuntimeParams`: the editor's signal is delivered, controlsd starts again, reads on and ticks, and its worker runs.
- `LearnerStore`: the writer thread is scheduled and a join returns once it has ended.
- `Manager`: its loop and time go on. No fairness towards a child's exit: SIGKILL follows SIGTERM.
- `PandaBridge`: the loop of pandad goes on (every USB call has a time limit). No fairness towards
  a particular outcome of a transfer: Panda may never come back.
- `Recording`: worker and mover are scheduled and the main thread's joins return when their thread has ended. No
  fairness between alternatives inside a thread, none of the user.
- Everything else is safety only.

### Assumptions

- The acquire/release pairs in `ipc_channels.cc` order the plain copies as written, so
  interleaving single accesses is all that can be observed. The seqlock copies
  are ordered by the fences around them; a torn copy may contain anything and is
  represented by two halves from different publications.
- `FramePipeline` uses one timing fact: camerad comes back a second after it
  died, by when no copy that began before is in progress, and frames of the old run are over
  recordd's 100 ms age limit.
- `force_engaged` is false (it is for offline replay) and `zero_release_when_inactive` is true (its default).
- The read topics are latest channels; where another module uses one, a read is atomic (shown by `LatestChannel` for
  a reader that copies aside; section 6 names the reader that does not). `LearnerTrend` reads half by half.
- `rename` is atomic (`LearnerStore`, `RuntimeParams`, `ParamEditor`); after a power loss a file of the learners may be cut short.
- The car of `VehicleState` answers buttons as a driver's cruise control does, and a position is held until a message told it; the
  lamps of `VehicleMessages` blink slower than CGW1 comes and faster than the hold lasts.

## 4. Proofs

No theorem is taken on trust; constants are constrained only by the named assumption of the module that declares
them. Most say that sizes and times are naturals, that the counters do not run past their width, and that the blank and torn
batches are no payload. The ones that say more:

- `MessagesAssumption`: a condition that changes is told by a message that may stay away, or by one controlsd waits for before it steers.
  Without the second no freshness test looks at it, and it may be told otherwise than it is for good.
- `IndicatorAssumption`: the hold is longer than a dark phase and a gap of CGW1 together, and a phase longer than that gap.
- `PointsAssumption`: the history of motion outlasts the engage buffer (100 samples of 50 ms against 2 s).
- `HudAssumption`: the overlay is redrawn at least as often as the load is sampled (45 ms against a second).
- `CruiseAssumption`, `LaneAssumption`: a slowdown takes at least a command interval (a `std::max` in the code), and a lane change settles before it times out.

`CutBeginsAtZero` carries its own condition, `RampIsLong`: the ramp gives the rate limit time to bring the whole torque
down. It holds for the defaults (384 <= 7 * (89 - 20)), but `avoid_lkas_fault_max_frames` may be set from 0 to 300, and below 75 the ramp is
shorter than 55 frames, so that a cut may begin with torque on.

| Module | Theorems | Inductive invariant and why it is needed |
| --- | --- | --- |
| `CanQueueProofs` | `QueueInvariant`, `QueueDeliversInOrder`, `QueueIsRaceFree`, `QueueRejectsOnlyWhenFull`, `QueueImplementsFifo` | `QueueInv`. Order alone is not inductive: one must know that the undelivered batches lie whole in their slots (`RingHoldsUndelivered`), what each call still knows of the counters (`CallFrames`) and how far its copy is (`CopiesInProgress`). `SlotsDistinct` is the arithmetic: indices closer than `SlotCount` are in different slots. Refinement maps the ring read from `read_seq` to the FIFO; `BacklogAppend` and `BacklogTail` show that a commit appends and a pop removes the head, all other steps stutter. |
| `ControlProofs` | engagement: `LatchInvariant`, `LatchHardFaultEnds`, `LatchSteersWithCause`, `LatchDriverKnows`, `LatchEngagesOnlyOnSet` | `LatchInv` adds to the properties that a debounced path is old enough and no older than the last interruption. `FirstReason` characterises the first block reason; `HardFoundFirst` shows that no Panda or path reason can come before a hard fault. |
| | `DepartureInvariant` | `DepartureInv`: a timer that waits for another began when that one had run its time (`TimersFollow`), the detector's stop is the real one, and an alert marks it as consumed. |
| | `LaneInvariant`, `LaneNoSwerve` | `LaneInv`: a desire is no older than its state allows, and what was cut off is off, with its blinker seen. |
| | `SteeringInvariant` | `SteeringInv`. That a cut begins at zero needs the torque at each place of the ramp (`TorqueUnderRamp`: it is under the ramp, up to half a step of rounding), in turn how the frame counter runs (`RampCounts`) and which number comes next (`CounterIsNext`). |
| | `CruiseInvariant`, `CruiseIsPatient` | `CruiseInv`: in a session the last command is no older than what the driver did, unless that has settled (`DriverIsAwaited`; he is left alone for the shorter of command interval and settle time), and a recent SET- is known with its age (`SetIsRemembered`). |
| | `LawInvariant` | `LawInv`: the ring read back from its head is the list of past requests, whatever happened in between. |
| | `ControlInvariant`, `ControlEngagement`, `ControlStopAlertedOnce`, `ControlEngagesOnlyOnSet`, `ControlLaneChangesEnd`, `ControlSteersSteadily`, `ControlCruiseIsPolite` | of the composed specification: each step is a step or a stutter of every component. |
| `ServicesProofs` | `ParamsAreThePlans` | `PlannerInv`: what waits, what was taken and what was published carry the generation they came with. |
| | `StoreFinishes`, `StoreKeepsFilesWhole` | `StoreInv`: the newest job of a path is waiting, taken or on disk (`NewestIsKept`), and once the stop was read none is waiting. |
| | `BuzzerIsQuiet`, `BacklightShows` | `BuzzerInv`, `BacklightInv`: what PWM and pin show at each place of the melody, and after each call, as long as none failed. |
| | `ManagerLeavesNoChild` | `ManagerInv`: `run()` knows of every child that lives, but for the one between its fork and the assignment. |
| | `ServicesInvariant`, `ServicesPlanWithParams`, `ServicesLeaveNothing`, `ServicesDevices`, `ServicesQueue`, `ServicesFilesAreWhole` | of the composed specification, with the refinement of the queue. |
| `DrivingProofs` | gates: `HoldsInvariant`, `HoldsGatesAreRecent` | `HoldsInv`: what a gate remembers, and its age, is what really happened last. |
| | `LoopNeverBursts` | `LoopInv`: what the schedule knows of the last sends, at each place of the loop (`SendsArePaced`). |
| | `CruiseStaysKnown` | `VehicleInv`: a difference between the car and what was told is one that a message under way will tell (`MessagesWillTell`). |
| | `CarStaysKnown` | `MessagesInv`: a condition told wrong is no older than the silence of its messages (`WrongIsYoung`), and what is derived is derived from what was told. |
| | `BlinkerIsAsLever` | `IndicatorInv`: the hold left is at least what the dark phase and the next CGW1 still take (`HoldBridges`). |
| | `RestartsKeepGenerations` | `RestartInv`: how far `reset()` has come (`ResetPhases`), that calls from an older generation keep their counters in range (`CallsStayInRange`), and that outside a reset the queue is as `CanQueue` has it (`GenerationHolds`: `QueueInv`, with a producer that is down as one that pushes nothing). |
| | `PointsAreOfSteering` | `PointsInv`: samples are apart by the motion period (`SamplesAreSpaced`), and the tick that last broke the steering is one of them or older than them all (`Remembers`). |
| | `PicturesAreKept` | `PipeInv`: a slot whose number is even holds its frame (`RingIsWritten`, `FramesStand`), a copy under way is good or will be found torn (`CopiesHold`), frames pass from camerad to modeld to recordd and wait in the encoder in the order of capture (`FlowsInOrder`, `WaitInOrder`), the pictures in the encoder are those of the metadata unless one was lost (`PairsAreKept`), and what is copied for recording was modelled (`SelectedIsModelled`). |
| | `LaneIsReadRight` | `LanePlanInv`: while the times are filled in, the last is not behind the plan's point the loop has come to (`FillingLoop`); a plan that does not run backwards passes a lane point at its time (`PassesAtItsTime`). |
| | `DrivingInvariant`, `DrivingKeepsBatches`, `DrivingRecordsAsSeen`, `DrivingKnowsVehicle`, `DrivingKeepsTime`, `DrivingGatesAreRecent` | of the composed specification. |
| `DisplaysProofs` | `ChannelInvariant`, `ChannelStateIsWhole`, `ChannelNeverBackwards` | `ChannelInv`. A closed region is whole (`RegionConsistent`), and what a reader has copied is good as long as `seq` has not moved (`CopyConsistent`); `seq` never decreases, so equality at the end of a copy means it did not move. |
| | alerts, in `DisplaysShowTruth` | `AlertInv`. That no event is rung twice speaks of the events rung; what makes it so is the counters of two processes that both restart: one that is ahead of the last rung is ahead by events still owed (`AheadIsOwed`). |
| | HUD, in `DisplaysShowTruth` | `HudInv` measures ages against each other: what was drawn is as old as the time since (`DrawnAgesWithTime`), and news that wait have asked for a redraw (`NewsIsAsked`). Both bounds of `HudIsRight` follow, for every interval, sample and gap. |
| | parameter page, in `DisplaysShowTruth` | `EditorInv`: the lock (`LockIsKept`), that a document that has seen every write is the file (`SnapshotsAreSeen`), and for each card either one request that will leave it with the value of the file, or that value (`CardsAreTrue`). |
| | trends, in `DisplaysShowTruth` | `TrendInv`: the seqlock again, and that history, answers under way and page hold recorded rows in order (`RowsAreRecorded`). |
| | `DisplaysInvariant`, `DisplaysShowTruth`, `DisplaysNeverBackwards` | of the composed specification. |
| `DevicesProofs` | `BridgeInvariant`, `BridgeOnlyConfirmed`, `BridgeAccountsForFrames`, `BridgeSendsInOrder` | `BridgeInv`, one part per question. `LinkInv`: an open connection is the newest, and confirmed unless it is being configured. `FramesInv`: what the batcher holds continues what was published on this connection; a stale remainder is possible only without a connection or before it is configured. `WireInv`: queued commands are newer than the one being sent, and that one is on the wire exactly `pos + total` pieces far; `TransferProgress` reduces the outcomes of `bulk_write()` to "the batch ends" and "it moves on". |
| | `DevicesKeepCalibration` | `CalibrationInv`: an orientation that is moved away from was valid, and a calibrated snapshot is of enough blocks that agree (`CalibratedIsSound`). The mean and spread of any blocks are bounded by induction over the blocks (`SumsOf`, a recursive function of numbers). |
| | `HistoryFedRight`, `DevicesFeedModelRight` | `ModelInv`: what each place of the histories holds is of a run of the network, `HistoriesAgree` with the types of the rings; the pulse is read off each step. |
| | `DevicesInvariant`, `DevicesSendInOrder`, `DevicesOnlyConfirmed` | of the composed specification. |
| `StorageProofs` | recorder, in `StorageSavesRecordings` | `RecInv`. What stands in the queue belongs to the session of the last "on" before it or of the route that is open (`QueueInv`); what an open file holds came before all of it (`DataInv`); an open file is of the route and not the mover's (`FilesInv`); a name once closed is not used again (`ClosedInv`); the mover removes only what it has copied (`MoverInv`) and was given nothing that is open (`JobsInv`); all that is staged is of the route or will be moved (`CoverInv`). |
| | switch, in `StorageSavesRecordings` | `SwitchInv`. What the encoder holds is of no session, of the one that is on, or noted as late (`EncoderInv`); packets queued are in order and each of the session it will be written in (`HandedInv`); from every place of the queue back to the packet before, nothing of the session is missing that is not noted as lost (`NothingMissing`). |
| | `StorageFactorIsSane` | `CacheInv`: a valid factor in the file is near the key it was learned for. |
| | `StorageInvariant`, `RecordingTypes`, `StorageSavesRecordings` | of the composed specification. |

A theorem whose name begins with its component (`Queue`, `Channel`, `Bridge`, ...) is about that component's own specification; the others are of the
composed one. That a step of a composed specification is a step or a stutter of each component is itself
proved (`AtMostOneMoves`, `AtMostOneServiceMoves`, `OnlyOneMoves`, `AtMostOneDisplayMoves`, `AtMostOneDeviceMoves`; in `StorageMoves` for the recorder), so that the safety properties of all six
passing runs are theorems of what TLC runs, but for the ones listed below.

What the proofs showed about the models and the code:

- Two CASE expressions had guards that overlap (`NextEntry` of the buzzer, `Pressed` of the vehicle); which branch
  the code takes first is now part of the model.
- The clamp of the share in `ipc_messages.cc:66-70` matters only when the first point of the plan lies beyond the lane
  point, that is when a plan does not begin at the car; the model had let no plan do so, and now does.
- `LaneIsReadAhead` needs no assumption about the precision of the times, but is claimed only of plans that begin at the car and do not run backwards.

- `RoutesHoldTheirSession`, as it was first stated, is false with three sessions, more than the run has: when a failed start has withdrawn the request that opened
  a route, the next "on" finds that route open, and neither `set_enabled()` nor `start_route()` closes it (`recording_writer.cc:256-310`), so that its files hold two
  sessions. The proof of `DataInv` stopped at that step; the property is now about routes that were not open at another "on" (`doubled`).
  `RecordSwitch` has the same history (`again`), which takes four switches.
- A slider of the parameter page goes back to the snapshot as it was when the change was made, not to the one at the answer
  (`scripts/k230_param_server.py:1316-1325`): with an old snapshot the card shows an old value though the page has read the file since. The request
  carries `stale` for it, and `PageShowsFile` leaves it out.

Induction over the naturals is used in `DrivingProofs` in the form of the least member of a set (`LeastMember`, from the well-foundedness of `<`), since the
library's rules that take a predicate are not to be had.

Only model-checked:

- all liveness and ENABLED: fairness is outside the prover;
- `RestartKeepsPoints` and `DamageStaysInItsFile` (of `FilesAreReadBack`): the restored ring is a fold over the file, the reader a recursion over its units;
- `RoundTrip` of `PandaCodec` and `FrameCarriesCommand` (the part of `CommandIsSteady` that is not `CutBeginsAtZero` or `CounterKeepsStep`): they are about folds over data;
- `WaitIsSilent`, `OffIsNeverHeld`, `RequestIsBroken`, `OnlyStaleIsDiscarded`, `RestartRejectsOnlyWhenFull`, `StopEmptiesStaging`: they do not hold (section 5).

## 5. Findings

1. **A producer restart can wedge a CAN queue** (`can_queue_wedge`).
   `reset()` under a `pop()` in progress leaves `read_seq` above `write_seq`; the
   unsigned difference is then huge, the empty ring counts as full and every push is
   refused until the next reset.
2. **A withdrawn consent can be held** (`safety_holds_off`). A fresh snapshot with
   consent off and a lost heartbeat, another safety mode or a failed health read is
   bridged for 100 ms; `docs/source-layout.md` says a fresh `controls_allowed=0` is never held.
3. **The engage sound precedes consent** (`engage_latch_wait`). The request is
   announced as engaged when its wait for Panda begins, not when Panda consents.
4. **A refused start can leave a route nobody can stop** (`recording_abandon`).
   The worker's withdrawal of the request overwrites a newer request; the route opened for it ignores
   "off", and the next "on" abandons it in staging.
5. **The steering request outlasts its frame limit during a hold** (`steering_hold`). Frames beyond the fault
   angle are counted only while control is active, and `steer_availability_hold` keeps the request up without counting.
6. **A batch stamped during the tick is dropped as stale** (`can_rx_fresh`). The time the drain compares with is taken
   before the parameters are polled; a batch that pandad stamps after it is thrown away with its messages.

Seen while modelling; each is part of its model and left out of a property by name or by its wording:

- `FramePipeline`: after half a stream start failed (`lost`), pictures carry the metadata of the frame before.
  `Recording`: a segment may be opened again while the mover has its path (`reopened`).
- `RecordSwitch`: a picture of the warm-up, or of a session the worker ended for lack of space, may open the next route; a packet
  lost at a full writer queue leaves what follows undecodable until the next key picture, and a lost codec configuration leaves a recording without video.
- `RecordLog`: a short video write leaves `video_offset_` behind the file (`recording_writer.cc:384-400`), so that the index of the rest of the chunk is off.
- Backlight (`OutputDevices`): the mode is kept when `apply()` fails half way, so that a later one may only write the duty cycle of a channel that is not shown.
- `ModelHistory`: a desire that came up in a frame that failed is not given to the network as a pulse.
- `LaneChange`: `params/README.md:66` says that below `lane_change_min_speed_kph` no desire is given; a change that is running keeps its desire.
- `AdaptiveCruise`: the wait between a SET- and a RES+ is the interval of slowdowns, not `lead_restore_delay_s` as `params/README.md:98` says.
- `Steering`: with `avoid_lkas_fault_enabled` off, the request stays cut while the MDPS error count is above the limit, not for `avoid_lkas_fault_cut_frames`.
- `VehicleMessages`: `vehicle_can.h` says that a stale wheel speed is replaced by the cluster's; `vehicle_speed_kph()` returns NaN
  (`vehicle_can.cc:449-452`). The blind spot of LCA11 has no freshness test (`lca11_time_s` is never read).
- `ParamEditor`: the page's snapshot may be replaced by an older answer; a card may show an old value after a tab switch or a lost answer; `updateAdopt()` enables the buttons of a card that is busy.
- `LearnerTrend`: the window of "10 minutes" holds less, because polls sample too; a poll answer that was overtaken empties the trend on the page.
- `OverlayState`: nothing is redrawn while the preview displays no frame.

## 6. Plan

The modules of section 2 are written; left, in order:

1. *Live snapshots:* controlsd reads straight into the snapshot its gates use
   (`k230_controlsd.cc:862`), so after a `read()` that gives up the gates see torn bytes; a composition of
   `LatestChannel` with such a reader and `SafetyHolds`.
2. *The copy of the mover* (`recording_writer.cc:70`) with the buffer of `ofstream`, whose last block is
   flushed after the stream was looked at.
3. Proofs: the reader of `RecordLog` and the round trip of `PandaCodec` by the least piece that differs; the store of `LearnerStore` as the refinement of "the last operation on a path wins".
4. The live values tab of the page, the state topics in a recording, the cruise button frames.

## 7. Not modelled, and why

- Floating-point numerics (MPC, the formulas of the torque law, learner and calibration estimates, the curve of the plan): TLC has
  no reals. What the torque law and the lane plan keep and in which order is modelled, on small integers. Where a decision depends on one it is a free choice, or a small number where its order matters.
- Inference, tensor layout, GPU, drawing: no state machine of their own.
- mmz, video input, V4L2 and USB set-up: thin wrappers over drivers; their results are free choices.
- Argument and JSON parsing, system monitor, most offline tools and diagnostics.
- In the recorder: `manifest.json`, the params snapshot, and the buffering of `ofstream` in `copy_file()`.
- In `PandaBridge`: the two log queues, the statistics, and what Panda does with a batch that stops in the middle of a frame.
- In `CanQueue` and `LatestChannel`: creation of a region by two processes at once, and header validation failures.
- On the page: the tab of live values, the buttons that adopt learned values, and the static check of ranges.
