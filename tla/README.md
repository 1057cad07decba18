# TLA+ models of mola_mapper

`mola_mapper` is a MOLA module that keeps the keyframes of a SLAM run in one
shared map. LiDAR or visual front ends insert keyframes; GNSS, IMU and camera
readings are attached to them; a background thread solves one pose graph over
all of them, another looks for loop closures; at the end of the run everything is
solved once more and written to files. This directory specifies that program in
TLA+: TLC checks the specifications on small instances, TLAPS proves theorems
about them for every value of their constants.

Run everything from this directory: `tlc -config X.cfg M` for a run of the
table below, `tlapm M.tla` for a module of theorems.

## 1. The system

| Component | State | Operations | Talks to |
|---|---|---|---|
| Shared keyframe map (`Mapper.cpp`) | `keyframes_`, `loops_`, `loop_pairs_`, `rejected_loop_pairs_`, all under `state_mtx_` | `requestInsertKeyframe()`, `insert_keyframe()`, queries | front ends, everything below |
| Optimizer (`Mapper.cpp`) | `optimizer_new_data_`, `optimizer_should_exit_`, `optimizer_thread_`, `solve_mtx_` | `optimizer_thread_loop()`, `optimize_now()`, `solve_global_graph()` | reads the map, writes poses back |
| Feedback and corrections (`Mapper.cpp`) | `last_feedback_stamp_`, `loops_in_last_correction_` | `send_feedback()`, end of `solve_global_graph()` | state estimator, front ends (callbacks) |
| Geo-referencing (`Mapper.cpp`, `GlobalGraph.cpp`) | `geodetic_datum_`, `georef_` | write back, `publish_georeference()` | subscribers |
| Loop closure scans (`Mapper_LoopClosure.cpp`) | `lc_scan_mtx_`, `lc_kf_count_at_last_scan_`, `lc_snapshot_size_at_last_scan_`, `lc_incremental_scans_` | `run_loop_closure_scan()`, from the thread, `run_loop_closure_scan_now()` or `finalize()` | detector, map, optimizer flag |
| Loop closure thread (`Mapper_LoopClosure.cpp`) | `lc_force_scan_`, `lc_busy_`, `lc_thread_running_`, `lc_should_exit_`, two mutexes and condition variables | loop, `request_loop_closure_scan()`, `wait_for_loop_closure_idle()`, stop | any caller |
| Sensor attachment (`Mapper.cpp`) | `pending_gnss_`, `pending_gravity_`, `imu_samples_`, `gyro_samples_`, `Keyframe::nearest` | `onNewObservation()`, `attach_*_locked()` | map, recorder |
| Keyframe image files (`Mapper.cpp`) | `pending_images_`, `unwritten_images_`, `image_writes_` | `retry_pending_images_locked()`, `finish_images_locked()` | a pool that writes files |
| End of run (`Mapper.cpp`) | `finalized_` | `finalize()`, `save_outputs()` | joins both threads |
| Input log (`MapperInputLog.cpp`) | `queue_`, `closing_`, `failed_`, writer thread, the file | `record()`, `close()`, `next()` | map (records under `state_mtx_`), replay |
| Replay (`MapperReplay.cpp`, `apps/`) | schedule in data time | `replay_mapper_input()` | reader, mapper |
| Factor graph (`GlobalGraph.cpp`) | none: a function of `GlobalGraphInput` | `optimize_global_graph()` | GTSAM |
| Gyroscope integration, loop odometry check | none: pure functions | `integrate_gyro()`, `check_loop_against_odometry()` | map, scans |
| Graph file (`GlobalGraphIO.cpp`) | a text format | save, load | end of run, `mola-mapper-reoptimize` |
| Parameters, registration, launch files, scripts | configuration | | |

What is hard:

* **A solve runs off the lock.** It works on a snapshot while keyframes, readings
  and loops come in; several threads may solve. Its result has to be merged with
  what came meanwhile.
* **A scan runs off the lock** too, on another snapshot, is incremental, may throw
  and may be aborted; its result is merged much later.
* **Hand-written signalling**: atomics, condition variables and timed waits, in
  which a wrong order of two stores loses a wakeup or lets a waiter through.
* **The end of the run** stops all that while callers may still call in.
* **Failures**: the solver, the detector and every callback may throw, and the
  run goes on.

* **Inputs in any order**: readings of other clocks come before or long after the
  keyframe they belong to, and wait, replace one another or are dropped.
* **Files cut short**: the recorded input of a killed process, outputs of two
  runs mixed, an image named before it is written.

For each hazard `PROJECT.json` names the line and the properties that cover it,
or says why none does yet.

## 2. Modules

| Module | What it is |
|---|---|
| `KeyframeMap` | what the shared map promises to its users, abstractly |
| `GlobalMap` | the map, the optimizer, the scans, the feedback and the end of the run, with all their threads; implements `KeyframeMap` |
| `MCGlobalMap` | the poses and the symmetry of `GlobalMap` for TLC |
| `GlobalMapProofs` | which steps of `GlobalMap` change which variables, its inductive invariant and its theorems: types, mutexes, solves, datum, chain, feedback, loops, the end of the run, the scans' coverage, and that it implements `KeyframeMap` |
| `LoopClosureWait` | requests, waits and stop of the loop closure thread, one atomic access a step |
| `LoopClosureWaitProofs` | its theorems: types, what a wait covers, no lost wakeup |
| `InputLogContract` | what a recording promises, abstractly |
| `InputLog` | recorder, writer thread, file and reader; implements `InputLogContract` |
| `InputLogProofs` | its theorems, the refinement among them |
| `LogEntries` | operators: a keyframe request as an entry of the log, encoded and decoded |
| `Replay` | a live run, the log it leaves (`InputLogContract`, by `INSTANCE`) of such entries, and its replay |
| `MCReplay` | its symmetry for TLC |
| `ReplayProofs` | theorems of `Replay` |
| `SensorInput` | GNSS readings and images, their keyframes and their files |
| `SensorInputProofs` | its theorems |
| `ImuInput` | gyroscope and accelerometer readings and what keyframes get of them |
| `ImuInputProofs` | its theorems, and lemmas about filtered sequences and the loop of `integrate_gyro()` |
| `MCImuInput` | its symmetry for TLC |
| `LinePoses` | operators: poses on a line, a place and a direction |
| `FactorGraph` | operators: the factors of a graph input, the chain of its guesses |
| `LoopOdometryCheck` | operators: the test of a loop against the odometry |
| `GraphFiles` | graph inputs saved, cut short and loaded; uses `FactorGraph` |
| `RunOutputs` | the outputs of successive runs, some failing or killed, and `mola-mapper-reoptimize` on them; composes `GraphFiles` and `LoopOdometryCheck` |
| `MCGraphFiles` | the inputs of `RunOutputs` for TLC |
| `RunOutputsProofs` | theorems of `RunOutputs`, and with it of `GraphFiles` |
| `Induction` | lemmas: induction over numbers, what it gives for folds and recursive functions, prefixes of sequences |

`Replay` composes the mapper's front door with the log: what `InputLog` is shown to
implement is what `Replay` assumes of the file. `RunOutputs` composes the end of a run
with the graph files and the program that reads them. `GlobalMap` and the sensor modules
meet at the keyframe list: each of the latter inserts keyframes by the same rule
(stamps increase), and what it gives the map (a GNSS reading at an insertion or later,
a gravity direction at an insertion or later) is a step of `GlobalMap` with any
outcome that module allows.

### KeyframeMap, GlobalMap

`KeyframeMap` has no threads: keyframes are appended, chained to the newest one; loops
are added between two that none connects; a solve (`Revise`) may set any poses for a
prefix, which only grows and takes at least the loops and readings the last one took,
with the rest chained behind; and what is saved is all of it, solved, unless a step of
the end failed. `GlobalMap` implements it (`KeepsMap`): the refinement maps
the history variable `solved` to the prefix, an insertion to `Insert`, the write back of a
solve to `Revise`, an edge of a merge to `CloseLoop`, an exception in a pass of
`finalize()` to `Fail`, and everything else to stuttering. Run `solve` checks it without
readings, the theorem `Implements` for every value of the constants.

Variables that end in `_` are the members of `Mapper` of that name. `pc[t]` is
where thread `t` (`"optimizer"`, `"lc"`, or `"owner"`, who may call `optimize_now()`
and `run_loop_closure_scan_now()` and ends with `finalize()`) is; `phase` and
`round` are the position in `finalize()`. `solve[t]` holds what a solve has taken in
its snapshot, as sizes: keyframes, loops and attached GNSS readings are only
added, so a size stands for a prefix; gravity directions likewise. A late gravity
direction (`AttachGravity`) sets no flag, in the code as here. `snapshot`, `edges`, `merged` and
`forceFullScan` are the locals of a scan.

A critical section of `state_mtx_` is one step. The exception is the merge of the
detected loops, one step an edge, with `state_mtx_` held: everybody else waits.
Between two critical sections the code is cut wherever another thread can see a
difference: keyframe and flag (`InsertKeyframe`, `NotifyInserted`), wakeup and
exchange (`OptimizerWake`, `OptimizerTake`), lock, snapshot, write back, feedback
and correction of a solve, exit flag and join of `finalize()`.

Poses are elements of a set with `Compose` and `Between`; only the chaining uses
them. A solve yields any poses for the keyframes it had, any datum the GNSS
extractor may pick, and may or may not publish a geo-reference. The detector
returns any list of at most `MaxEdges` edges between keyframes of its snapshot,
sorted by pair, with repetitions; the history variable `examined` says which
pairs it looked at, all that it was not told to leave out, or any part of them
once `lc_should_exit_` is set. The odometry check may reject any edge it has a
verdict for (`OneChain`). `MayFail` lets the solver, the detector and the
callbacks throw.

Left out: covariances, observations, logging, read-only queries; the minimum
period between two solves (it delays the optimizer thread, which may take as long
as it likes anyway); the recorder (`Replay`); the writing of files (`RunOutputs`).

### LoopClosureWait

The signalling of the loop closure thread at the granularity of one access to an
atomic: in `GlobalMap` a scan by the thread may start at any time, here is when it
does. `thread`, `client[c]` and `stop` are positions in the loop, in a request or
wait of client `c`, and in `stop_loop_closure_thread()`. A wait on a condition
variable evaluates its predicate load by load with its mutex held, then blocks and
releases the mutex in one step; `notify_all()` moves those that are blocked *at
that moment*. `request` and `awaited` are history: which requests are open, and
which of them a wait has to outlast.

### InputLogContract, InputLog

The contract has three variables: what was accepted, whether the recording goes
on, was closed or broke off, and what the file then has: a prefix of what was
accepted, all of it if it was closed without a failure. `InputLog` has the queue, the writer thread with
its wait in two steps (predicate, block), `close()` from another thread, a write that
throws, which may leave part of an entry in the stream, and a kill at any point,
after which the disk has a prefix of the stream's bytes, perhaps with part of an
entry. After a failed write the same holds for a recording that is closed: the writer has
counted what the stream took, of which the stream, in error, may never write what it has
buffered, and nobody checks its `close()`. Then `next()` is called any number of times. Entries are numbers, in
the order of the calls. Assumed: bytes reach the disk in order, and `close()` of a
stream without an error flushes them. Left out: spurious wakeups (the writer looks again, which is
what it does anyway), a second `close()` (the joined thread and the closed stream
make it a no-op), the warning about a long queue.

### LogEntries, Replay

An entry of a keyframe is its observations, with the point clouds copied, and a comment
whose lines have the rest of the request; comments of the front end are among its
observations. A scan may be shared with its front end, which changes it later:
`clouds` is what the memory has, and the entry that the writer thread writes has the
points of that time where it refers to the memory.

Handlers are deterministic functions of the map and their input, so a map is stood
for by the sequence of inputs that changed it. `initialize()` opens the recorder first and
attaches to the sources then (`OpenRecorder`, `AttachSources`). Front ends encode a
request off the lock (`Encode`), with the bias their source answers, and insert it later
(`InsertKeyframe`, which records first and then may refuse an older keyframe);
readings are recorded and applied in one step. The run ends with `finalize()`, with a
failed recording, or killed; `StartReplay` is `mola-mapper-cli`, which clears
`record_input` so that its mapper does not record over the log it reads, and `ReplayEntry` the body of the replay's loop with its
schedule of scans and solves. Images are neither recorded nor replayed, in the code as here.

### SensorInput

A reading is its source, its time and its number in the order of arrival;
`nearest[k]` is what keyframe `k` has for each slot. GNSS readings come in any order,
images of a camera in theirs (the code says so at `finish_images_locked()`), keyframes
up to `FrontEndLag` late. Each handler is a step with all it calls: attach or
keep waiting, retry of those that wait, the bound of the pending images, the
decision which images are final. The pool writes files in any order and may fail; a failure counts as
handled, since the code logs it and goes on. Readings newer than the last
keyframe stay pending for good, which `Mapper.h` says is meant.

### ImuInput

The buffers of the gyroscope and the accelerometer, of two IMUs of which the first
heard is used. `gravity[k]` is the list of readings averaged and `rotation[k]` the
list of the readings that apply, one per unit of time, from one keyframe to the next: what their
average or product is does not matter here, only which readings are in the list. A
keyframe's bias is queried between two critical sections, during which readings come
in (`requestInsertKeyframe()`). Readings come in any order; the code drops late ones of
the gyroscope, while what is said of gravity holds if the accelerometer's are in
order, as `pending_gravity_` supposes. A keyframe may be older than the newest
reading by `FrontEndLag`, which is within the margin `GRAVITY_KEEP` that the code
keeps readings for (`Mapper.cpp:299`).

### LinePoses, FactorGraph, LoopOdometryCheck

Poses are a place on a line and one of its two directions: they compose, not
commutatively, and a wrong order, sign or inverse shows. A factor is its kind, its
variables and the relative pose it measures. `LoopOdometryCheck` is the code's test with
these poses: the error's length and angle against limits that grow with the distance
along the trajectory.

### GraphFiles, RunOutputs

`GraphFiles` saves file by file in the code's order; a save may throw where a file cannot
be opened, or be killed, which leaves a file with some of its lines and part of one
more. `Loaded` is the set of inputs a load may return. What an interrupted save leaves may
load as a mixture of two inputs: the code does not rule that out, and
`LoadedIsWellPosed` says that the mixture still makes a graph that can be solved.

`RunOutputs` is `save_outputs()` as a sequence of guarded steps, the graph input first;
each may fail, and a run may be killed in between. The two outputs of the state estimator,
which has something for either, both or none (`answers`), are written by one guarded step:
`AfterThrow` says what a failure of the first leaves to do. After a run (or an unfinished
one), `mola-mapper-reoptimize` may load what is there, write its trajectory and write
or remove its geo-reference, and stop at each point. All outputs are asked for. The code
does not look at the state of its text streams after opening them, so a full disk is
noticed in the simplemap and the observations only; cut text files appear
as the effect of a kill. The options of `mola-mapper-reoptimize` that skip the loops or the chaining
are left out, and so are the precision of numbers and blanks in names.

## 3. Runs

| Run | Module, config | Question |
|---|---|---|
| `insert` | `MCGlobalMap`, `MCInsert` | Do inserts in two source frames and concurrent solves leave the trajectory chained? Is the feedback in order, is there one datum, and the geo-reference on it? |
| `scan` | `MCGlobalMap`, `MCScan` | Does every pair of keyframes get examined, with failing and aborted scans, and is no loop merged twice? Does the last solve have the loops of the last scans, and a gravity reading that asks for no solve? |
| `solve` | `MCGlobalMap`, `MCSolve` | Is the map, with concurrent and failing solves, one that only grows, whose solves go forward and which is saved solved (`KeepsMap`, `OutputsAreSolved`)? Do the corrections add up? |
| `live` | `MCGlobalMap`, `MCLive` | Does everything get solved, also a GNSS reading, which notifies nobody? Does `finalize()` return? |
| `wait` | `LoopClosureWait`, `MCWait` | Does a wait that returns true cover the requests before it? Do waits, requests and the stop end without the help of a period? |
| `log` | `InputLog`, `MCLog` | Does a log have what was accepted, whole or as a prefix, however its recording ends? Does its reader get all of it? Is the reported count never less than the file has? Does `close()` return, is every accepted entry written, without a later call? |
| `replay` | `MCReplay`, `MCReplay` | Is the log enough to make the map, with scans that are changed after their insertion? Does a replay rebuild it, solve at its periods and have the loops of the scans due with a solve? |
| `sensors` | `SensorInput`, `MCSensors` | Has each keyframe the closest of the readings nearest to it, whatever the order? Is a written image final, is none dropped that a later keyframe needs, do the outputs name finished files? |
| `image_bound` | `SensorInput`, `MCImageBound` | Finding 1 |
| `imu` | `MCImuInput`, `MCImu` | Is a rotation that of the readings of one gyroscope, over the whole interval and without a gap? Has a keyframe gravity exactly if its window has enough readings? |
| `gravity_window` | `MCImuInput`, `MCGravityWindow` | Finding 2 |
| `files` | `MCGraphFiles`, `MCFiles` | Does an input load as saved, and what else loads make a graph that can be solved? Does a failing output take none along but the one that shares its step? Do trajectory and geo-reference of a re-optimization agree? Does the verdict on a loop depend on its direction? |

Deadlock is checked except where the system may stop: the bounded inputs are used
up and everything has been handled. `TypeOK` is checked in `scan`, whose
instance uses every variable's range, and proved.

Each property has, in `PROJECT.json`, a mutant: an operator marked "fault" in the
modules that stands for a plausible mistake and with which TLC finds the property
violated. So no property holds by the shape of the model alone.

### Bounds

* `MaxStamp` (keyframes, 2 or 3): three keyframes are one that a solve has, one
  inserted meanwhile, and one chained to that one; and the fewest with a pair that
  is old for one incremental scan and a pair that is new.
* `NumPoses`: two in `insert`, the smallest group in which a wrong predecessor
  shows; one elsewhere, where poses play no role.
* `MaxEdges` (1): loops merge one by one under the lock, so longer results only
  repeat the step; the same pair is found again by another scan.
* `MaxGnss` (1 in `insert` and `live`): solves that have the reading and solves that do
  not; the datum of each that has is any of two, so a second solve could move it; and a reading
  that comes when the optimizer thread has had the keyframe, or exits.
* `MaxGravity` (1 in `scan`): a gravity direction that comes with a keyframe or late, with
  no solve due after it but that of `finalize()`.
* `loop_closure_finalize_rounds` (0 to 2), `loop_closure_full_scan_every_n` (0, 1),
  `loop_closure_min_new_keyframes` (1): the values at which the counters turn.
* `Datums`: two, to tell one from another. Front ends: one, which may use either source
  frame; `Clients`: one, which may request again while an earlier
  scan runs, and then wait. What is proved holds for any number of both.
* `MaxRequests` (3), `MaxPeriods` (1): a request that comes during the scan of
  another, and a scan that nobody asked for.
* `MaxCalls` (4) of `log`: an entry being written, one queued, one refused
  after the end or a failure, by two threads.
* `MaxTime`, `MaxKeyframes`, `MaxReadings` of the sensor runs: a reading between two
  keyframes and one on either side of both, at a distance below, at and above the
  offset or the gap; three readings, of which two compete for a keyframe and
  one comes late; for IMUs four, a window of two and a sample on either side. `GRAVITY_KEEP` and
  `FrontEndLag` are 1, so that samples are dropped from the queue in the run while a keyframe
  may still come late.
* `MaxEntries` (4) and `MaxTime` (5) of `replay`: the first keyframe, a reading, and two keyframes
  at and beyond a period; the periods of the scans (2) and of the solves (3) differ, so that either may be due alone; one scan, which two front ends may share.
* `MaxSaves` (2), `MaxFailures` (1) and inputs of up to three keyframes: one input over what
  another left, longer or shorter, with and without each optional file, with loops that the other
  input's keyframes do not reach; one failing output and the ones after it. The loops of
  the inputs are forward and backward, right and wrong, between poses of both directions.

The parameters are split over the runs, so that each question is asked with what
matters to it switched on.

### Fairness

`FairSpec` of `GlobalMap`: weak fairness of every thread, strong fairness of
taking a mutex that is free time and again (`std::mutex` is not fair, but no
holder of these takes them back without leaving the processor to the others for
good); a front end finishes a request it has begun. The waits of both threads are timed, so
that `OptimizerWake` and `LoopCloserScan` need no notification. Nobody has to insert,
observe, or call `finalize()`. `live` has no exceptions: the solve that fails leaves
its data unsolved until the next insertion, which may never come.

`FairSpec` of `LoopClosureWait`: the same, but no wait is assumed to end by its
period or its timeout: its properties say that notifications suffice. The period
and the requests are bounded, as a waiter may in theory find the thread busy again
each time it looks; a period is at least 0.1 s in the code.

`FairSpec` of `InputLog`: weak fairness of the writer thread and of the steps of
`record()` and `close()` that have begun; nobody has to record or to close.

### Findings

1. `image_bound`: the comment on the bound of the pending images
   (`Mapper.cpp:393-395`) says that a dropped image could only go to a keyframe
   farther than `image_max_time_offset`. The newest keyframe may be nearer: an image after the
   last keyframe waits for the next one, and if none comes it is dropped
   though within the offset, and the keyframe is left without it. For every keyframe that
   comes later the comment is right (`DroppedMissNoNewKeyframe`).
2. `gravity_window`: the comment at the insertion (`Mapper.cpp:610-611`) says that
   gravity is tried again if the readings up to the keyframe have not all arrived. It is
   only if the first try failed: a keyframe with
   `imu_gravity_min_samples` readings at its insertion keeps an average without the
   rest of its window.

One more sentence is not quite so, and no run of its own shows it: the test of the outputs
(`test-mapper-ingestion.cpp:444`) says that an output that cannot be written does not prevent
the others. The trajectory of the state estimator does: it is saved in the same guarded step
as the estimator's geo-reference (`Mapper.cpp:1037-1040`), before it, so that an exception there
(1088) ends the step. `FailuresAreContained` states this exception (`TakenAlong`); for all other
outputs the sentence is right.

## 4. Theorems

What is proved holds for every value of the constants that the modules' assumptions allow. The
assumptions are those on the constants' types; that poses are closed under `Compose` and `Between`;
that the names which stand for nothing (`None`, no label) or for a thread are none of the
values beside them; that the inputs which are saved have loops between different
keyframes and source frames of a given set `Words` (`InputsAssumption`; the merge of the loops
refuses a loop of a keyframe with itself, `Mapper_LoopClosure.cpp:232`); and that a scan in memory is
not the same thing as its points (`CloudsAssumption`). Of the environment, `SensorInput` and `ImuInput` suppose that a front end is late by no more than the
margin that the code allows for (`TimesAssumption`, `LagAssumption`), and the former's `OnImage` that the images of a camera come in
order. Nothing is assumed about bounds: the
theorems hold for any number of keyframes, readings, entries, saves, threads and front ends.

| Module | Theorem | States |
|---|---|---|
| `GlobalMapProofs` | `TypeCorrect` | `[]TypeOK` |
| | `MutexesExclude` | `[]MutualExclusion`: who holds which mutex |
| | `SolvesAdvance` | `SolvesNeverGoBack`: keyframes, loops, GNSS and gravity readings of the solves |
| | `DatumFixed` | `DatumNeverMoves` |
| | `GeorefMatchesDatum` | `[]GeorefOnDatum` |
| | `TailStaysChained` | `[]TailChained` |
| | `FeedbackInOrder` | `[]FedOnceInOrder` |
| | `LoopsAndPairs` | `[]LoopsMatchPairs` |
| | `OutputsSolved` | `[]OutputsAreSolved` |
| | `CorrectionsSum` | `[]CorrectionsAddUp` |
| | `ScansCover` | `[]ScanCoverage` |
| | `FinalScansCover` | `[]FinalCoverage` |
| | `Implements` | `KeepsMap`: `GlobalMap` implements `KeyframeMap` |
| `LoopClosureWaitProofs` | `TypeCorrect` | the types |
| | `WaitCovers` | `[]WaitCoversRequests` |
| | `WakeupsArrive` | `[]NoWakeupLost` |
| `InputLogProofs` | `TypeCorrect` | the types |
| | `CountIsRight` | `[]CountCoversFile` |
| | `ReplayIsComplete` | `[]ReplayComplete` |
| | `WriterWoken` | `[]WriterIsWoken` |
| | `Implements` | `KeepsContract`: `InputLog` implements `InputLogContract` |
| `SensorInputProofs` | `Invariant` | `[]IInv` |
| | `ClosestAttached` | `[]NearestAttached` |
| | `NoGnssLost` | `[]GnssWaits` |
| | `DroppedTooFar` | `[]DroppedMissNoNewKeyframe` |
| | `SavedAfterFiles` | `[]OutputsHaveFiles` |
| | `FilesAreFinal` | `WrittenIsFinal` |
| `ImuInputProofs` | `Invariant` | `[]IInv` |
| | `CompleteGravity` | `[]GravityComplete` |
| | `WaitingForGravity` | `[]GravityWaits` |
| | `RotationOfReadings` | `RotationFromReadings` |
| `RunOutputsProofs` | `Invariant` | `[]IInv` |
| | `SavedIsLoaded` | `[]LoadsWhatWasSaved` |
| | `LoadedCanBeSolved` | `[]LoadedIsWellPosed` |
| | `ChainIsOdometry` | `[]ChainFitsOdometry` |
| | `NoFailureSpreads` | `[]FailuresAreContained` |
| | `GeorefIsOfTrajectory` | `[]ReoptimizedAgree` |
| | `DirectionDoesNotMatter` | `[]VerdictIgnoresDirection` |
| `ReplayProofs` | `Invariant` | `[]IInv` |
| | `LogIsTheMap` | `[]LogMakesTheMap` |
| | `ReplayRebuilds` | `[]RebuildsTheMap` |
| | `PeriodsKept` | `[]SolvesAtPeriods` |

### GlobalMap

All rest on the invariant `IInv`. `TypeOK` is not inductive:
that the keyframe whose stamp is fed back exists, and that a correction announces
no negative number of loops, needs the snapshot of a running solve to be a prefix of the map
(`SolveInputsOfMap`); that two solves do not interleave needs the mutexes to
exclude (`MutualExclusion`); that `round` stays in its range needs `RoundsLeft`. The
heart of `SolveInputsOfMap` is: the last committed solve knew no more than the
running one, which knows no more than the map, and both have its datum; hence
`SolvesNeverGoBack`, `DatumNeverMoves` and `GeorefOnDatum`. `TailChained` follows from
the three steps that touch a pose or `solved`, `FedOnceInOrder` from
`last_feedback_stamp_` being the maximum, `LoopsMatchPairs` from the merge. Before the
invariant, one lemma for each group of variables says which steps may
change it, so that the proofs about that group look at those only.

The end of the run: after the joins both threads are done and the map
takes no input (`ThreadsJoined`), so that the owner's steps are the only ones that matter
(`FinalSteps`); from its first write back on, all of the map is solved but the loops
merged in the current pass, whose number is that pass's result (`FinallySolved`), and
a pass with such a result is followed by a solve. The announced and the lost loops are together
`loops_in_last_correction_`, never more than the solve had (`AddedUp`).

Coverage: a scan's snapshot leaves out only pairs of the last complete scan and pairs
already decided (`ScanCovers`), the watermark `lc_snapshot_size_at_last_scan_` rises
only after a merge, and the detector stops early only between the exit flag and
its reset after the joins (`CoverInv`). The passes are forced, hence full, and
the map is closed during them (`PassInv`).

The refinement has one lemma a step of the abstract map; `Save` needs `FinallySolved`
and `CloseLoop` needs `LoopsMatchPairs`.

### LoopClosureWait, InputLog

`WaitCovers`: an open request is visible in
`lc_force_scan_` or, once taken, in `lc_busy_` (set before); and a client that has
seen the first clear still holds `lc_idle_mtx_`, under which alone the second is
cleared.

`WakeupsArrive`: what the loop has seen of the two flags since it took
`lc_wakeup_mtx_` is still so when it blocks (`LoopWakeup`), but for the exit flag, which is
set without the mutex: its setter then takes the mutex once before it notifies. The
flags that a client sees are cleared under `lc_idle_mtx_` or by a scan that has set the other
(`ClientWakeup`). `WriterWoken` is the same for the writer and `mtx_` (`SeenUnderMutex`).

`InputLog`: the invariant says
where each accepted entry is: in the stream, with the writer or in the queue, in
this order and without a gap, unless the recording failed; and that the writer has left
its loop without a failure only with an empty queue and `closing_` set. The file is the stream if the
recording was closed and had no error, and otherwise no longer than it (`FileAgrees`, `CutTyped`); as the
count is that of the stream, `CountIsRight` follows.

### Folds and recursive functions

The handlers of the sensors, the decoding of an entry, the map that a log makes and the
chain of the guesses are loops in the code, and folds or recursive functions in the modules.
The provers cannot use an induction rule that has a predicate as a parameter. `Induction`
states induction of sets of numbers instead (`SetInduction`, `UpTo`): a set with 0 and with
the successors of its members has them all, which follows from the well-foundedness of `<`.
A proof by induction of P(n) then defines the set of the n with P(n). From it come
`FoldExists` and `RecursionExists`: a fold over a sequence, or a recursive function,
takes at each index the value that its step makes of the one before. The lemmas that
end in `Steps`, and `ChainIsReached`, apply them.

### SensorInput

`NearestAttached` looks at one moment; the proof needs to know for each
reading where it is. The invariant: the GNSS readings and the images newer than the last
keyframe are those in the queues, and no others (`GnssWaits`, `ImagesWait`), the dropped ones are
older than a received image by more than the margin (`DroppedAreOld`), and every keyframe has the closest of its
candidates (`HasClosest`). `BestIsNear` says that the two keyframes around a reading are
enough to find the nearest of all, `AttachKeepsClosest` that attaching one reading keeps
`HasClosest`, `TryAllOutcome` what the retry of a whole queue does, `NearStays` and
`InsertedClosest` that a keyframe which comes later takes no reading
away from an earlier one unless that reading was waiting. For the files, `ImagesTracked`: an image with a
keyframe is unwritten or written, what was given to the pool is being written or a file, and
while the run goes on only images are given to it that a newer image of the same camera
has overtaken; hence `WrittenIsFinal`, which uses the order of each camera's images.

### ImuInput

The properties compare what keyframes have with all that was heard, filtered: the readings of
one IMU (`Heard`), of one window (`InWindow`), of increasing times (`Gyro`). `KeptIn` is the
filter, a recursive function; `KeptAppend` and `KeptSuffix` say what it does when a
sequence gets one more element and when its first ones are cut off.

*Gravity.* The label is the first IMU heard, and the queue has all of the window of
every keyframe that can still come or that waits (`QueueInv`); here `LagAssumption` is
needed. So a first try averages all of the window that was heard so far, and a
later one, made when a reading has passed the keyframe, all of it. With the queue of the
waiting keyframes in order, `GravityWaits` and `GravityComplete` are inductive beside it.
`GravityWaits` is about systems that have gravity IMUs at all: without them no keyframe waits.

*Rotation.* The queue has the gyroscope's readings that are not older than `GYRO_KEEP`
before the newest (`GyroInv`). `AfterLoop` is the invariant of the loop of `integrate_gyro()`:
after k readings it has one that holds for each unit of time up to the k-th, the one that comes
next (`HoldsAt`), and has met no gap. `IntegrateIs` says what the loop returns for any
sequence of readings, `NoGapCovers` and `CoversNoGap` that no gap between neighbors is what
`Covers` says of the set, and `InsertRotation` puts them together for the keyframe that comes.

### GraphFiles, RunOutputs

`LoadsWhatWasSaved` speaks of a finished save. The invariant says of each step which files
are already whole and of this input (`SavedSoFar`); a file of an earlier save may be
there still until the step that writes or removes it. `AllAccounted`: each output the run has
something for is still to come, written, failed, or the geo-reference that the failed trajectory of the
state estimator took along; that this one is the next step then is `InOrder` with
`OrderOfSteps`: what is left is always the end of the list of steps. `LoadedIsWellPosed` and `ChainFitsOdometry` need
nothing of that: they hold of whatever `Loaded` may return from files of the right
types (`LoadedTypes`), also from cut ones and from mixtures of two inputs, of any
length; the chain of the guesses is by `RecursionExists`. `VerdictIgnoresDirection` is the algebra of
poses on a line (`PoseAlgebra`). That a loop has two different ends (`Loops`) is needed there.

### Replay

The idea of the invariant is that the frame of a recorded keyframe has its points in it, so
what it reads as does not depend on the memory any more (`EncodedIsFrame`,
`ReadIsMeaning`; `DecodedIsKeyframe` follows the loop of `decode()` over the frame). The map
that a log makes is then a function of the log, `MapOf`, that grows with it (`MapOfAppend`,
`MapOfPrefix`). While the recording goes on, `map = MapOf(logged)`, afterwards the log makes a prefix of the map
(`LogIsOfMap`); the file is a prefix of the log, all of it once stored (`FileIsOfLog`); what is
replayed is `MapOf` of the entries read so far (`ReplayedIsOfFile`). `Scheduled` has the arithmetic of
the schedule: the number of solves times the period is at most the time since the first
keyframe, the last scan is less than its period before the last solve, and the
keyframes since the last solve are less than its period after it.

### Only model-checked

* The liveness properties: `EverythingGetsSolved` and `FinalizeTerminates` of `GlobalMap`,
  `WaitReturns`, `RequestGetsScan` and `StopReturns` of `LoopClosureWait`, `CloseReturns` and
  `EntriesGetWritten` of `InputLog`. Fairness and `ENABLED` are out of reach of the prover. Of the
  hazard behind them, a notification that comes too early, the safety part is proved
  (`NoWakeupLost`, `WriterIsWoken`): nobody stays blocked with nobody left to notify.

All invariants and action properties of the runs that pass are proved.

## 5. Plan

Done, in this order: `GlobalMap`, its runs and proofs; `LoopClosureWait` and
`InputLog` with theirs; `SensorInput`, `ImuInput`, `Replay`, `FactorGraph` and `GraphFiles`
with their runs; gravity in `GlobalMap`, the entries of the log, the odometry test and
the other outputs of a run; `KeyframeMap`; the theorems on the end of the run, on
coverage and on the refinement; induction for folds, and with it the theorems of
`SensorInput`, `RunOutputs`, `Replay` and `ImuInput`; no lost wakeup in `LoopClosureWait` and
`InputLog`.

Of what the runs check, the liveness properties are left, which stay with TLC. What could be
modelled next is the transform of the geo-reference, on the poses of `LinePoses`, and the file
of an earlier one that stays (`Mapper.cpp:1027`).

## 6. Not modelled

* What GTSAM computes, the covariance algebra and real-valued numbers: a solve yields any
  poses. That the geo-reference is a transform of the right frame is not said.
* `Parameters.cpp` reads a YAML file into a struct; the parameters that steer the control flow are
  constants, and the runs take the values at which something turns.
* The queries and the visualization of `Mapper`: they read the map under its mutex and
  change nothing.
* Which sensor labels match the regular expressions, and the sensors' poses on the vehicle.
* A full disk in the text outputs, which the code does not notice.
* A geo-reference file of an earlier run with the same name stays when the new run has none
  (`Mapper.cpp:1027`); the trajectory beside it is new.
* Module registration, launch files, scripts: start-up glue and configuration.
