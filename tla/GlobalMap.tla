------------------------------ MODULE GlobalMap ------------------------------
(***************************************************************************)
(* The shared keyframe map of mola_mapper (module/src/Mapper.cpp and       *)
(* Mapper_LoopClosure.cpp): front ends insert keyframes, an optimizer      *)
(* thread re-solves the global graph, a loop closure thread looks for      *)
(* loops, and the owner of the mapper may drive both by hand before it     *)
(* finalizes the run.                                                      *)
(*                                                                         *)
(* A critical section of state_mtx_ is one step, except the merge of the   *)
(* detected loops, which holds state_mtx_ over one step per edge.  The     *)
(* code between two critical sections is cut wherever another thread can   *)
(* see the difference.  Keyframe identifiers are positions of keyframes_,  *)
(* from 1 (they start at 0 in the code).                                   *)
(*                                                                         *)
(* Names ending in _ are members of class Mapper; the others are program   *)
(* counters, locals of a call, or history variables.  The operators marked *)
(* "fault" are not used: each replaces the operator next to it to show     *)
(* that a property notices.                                                *)
(***************************************************************************)
EXTENDS Integers, Sequences, FiniteSets

CONSTANTS
  FrontEnds,        \* the callers of requestInsertKeyframe()
  SourceFrames,     \* the source_frame_id of the requests
  Poses,            \* the values of CPose3D the properties tell apart
  Compose(_, _),    \* CPose3D operator+
  Between(_, _),    \* Between(p, q) is q - p: the pose of q as seen from p
  Datums,           \* geodetic coordinates the GNSS extractor may pick
  MaxStamp,         \* bound: keyframe stamps are 1..MaxStamp
  MaxGnss,          \* bound: GNSS readings attached in a run
  MaxGravity,       \* bound: gravity directions attached in a run
  MaxEdges,         \* bound: edges the detector returns from one scan
  MayFail,          \* may the solver, the detector and the callbacks throw?
  SyncSolves,       \* does the owner call optimize_now()?
  SyncScans         \* does the owner call run_loop_closure_scan_now()?

CONSTANTS           \* Parameters.h, by their names there
  enable_optimizer_thread,
  loop_closure_enabled,
  enable_loop_closure_thread,
  loop_closure_incremental,
  loop_closure_odometry_check,
  loop_closure_full_scan_every_n,
  loop_closure_min_new_keyframes,
  loop_closure_finalize_rounds,
  feedback_to_state_estimator,
  local_map_corrections

ASSUME PosesAssumption ==
  /\ Poses # {}
  /\ \A p, q \in Poses : Compose(p, q) \in Poses /\ Between(p, q) \in Poses

ASSUME BoundsAssumption ==
  /\ MaxStamp \in Nat /\ MaxGnss \in Nat /\ MaxGravity \in Nat /\ MaxEdges \in Nat
  /\ MayFail \in BOOLEAN
  /\ SyncSolves \in BOOLEAN /\ SyncScans \in BOOLEAN

ASSUME ParametersAssumption ==
  /\ enable_optimizer_thread \in BOOLEAN
  /\ loop_closure_enabled \in BOOLEAN
  /\ enable_loop_closure_thread \in BOOLEAN
  /\ loop_closure_incremental \in BOOLEAN
  /\ loop_closure_odometry_check \in BOOLEAN
  /\ loop_closure_full_scan_every_n \in Nat
  /\ loop_closure_min_new_keyframes \in Nat
  /\ loop_closure_finalize_rounds \in Nat
  /\ feedback_to_state_estimator \in BOOLEAN
  /\ local_map_corrections \in BOOLEAN

None == "none"                       \* std::nullopt, or a free mutex
Threads == {"optimizer", "lc", "owner"}
GraphThreads == {"optimizer", "owner"}   \* the callers of solve_global_graph()
ScanThreads == {"lc", "owner"}           \* the callers of run_loop_closure_scan()

ASSUME DatumsAssumption == None \notin Datums

VARIABLES
  keyframes_,                     \* Seq of Keyframe
  pose_in_map,                    \* ... and their member pose_in_map
  loops_,                         \* Seq of [from, to]
  loop_pairs_,                    \* the (min, max) pairs of loops_
  rejected_loop_pairs_,           \* the pairs the odometry check rejected
  gnss,                           \* how often a reading was attached to a keyframe
  gravity,                        \* how many keyframes have a gravity direction
  geodetic_datum_,
  georef_,                        \* the datum of the geo-reference
  finalized_,
  state_mtx_, solve_mtx_, lc_scan_mtx_,     \* the holder, or None
  optimizer_new_data_,
  optimizer_should_exit_,
  lc_should_exit_,
  lc_kf_count_at_last_scan_,
  lc_snapshot_size_at_last_scan_,
  lc_incremental_scans_,
  last_feedback_stamp_,           \* 0: none yet
  loops_in_last_correction_,
  notifying,      \* front ends between push_back and optimizer_new_data_ = true
  pc,             \* pc[t]: where thread t is in the call it makes
  phase,          \* where the owner is: before, in, or after finalize()
  round,          \* finalize(): passes done
  solve,          \* solve[t]: the sizes of GlobalGraphInput, a local of t
  forceFullScan,  \* forceFullScan[t], snapshot[t], edges[t], merged[t]:
  snapshot,       \*   the locals of run_loop_closure_scan()
  edges,
  merged,
  solved,         \* history: the input sizes of the last committed solve
  fused,          \* history: stamps given to NavStateFilter::fuse_pose()
  announced,      \* history: sum of LocalMapCorrection::new_loop_closures
  lost,           \* history: ... of the corrections that threw
  examined,       \* history: keyframe pairs the detector has examined
  failed          \* history: has a guarded step of finalize() thrown?

mapVars    == <<keyframes_, pose_in_map, loops_, loop_pairs_, rejected_loop_pairs_>>
geoVars    == <<gnss, gravity, geodetic_datum_, georef_>>
lockVars   == <<state_mtx_, solve_mtx_, lc_scan_mtx_>>
flagVars   == <<finalized_, optimizer_new_data_, optimizer_should_exit_,
                lc_should_exit_>>
lcVars     == <<lc_kf_count_at_last_scan_, lc_snapshot_size_at_last_scan_,
                lc_incremental_scans_>>
outVars    == <<last_feedback_stamp_, loops_in_last_correction_>>
controlVars == <<notifying, pc, phase, round>>
scanVars   == <<forceFullScan, snapshot, edges, merged>>
localVars  == <<solve, scanVars>>
historyVars == <<solved, fused, announced, lost, examined, failed>>

vars == <<mapVars, geoVars, lockVars, flagVars, lcVars, outVars, controlVars,
          localVars, historyVars>>

-----------------------------------------------------------------------------
Keyframe == [stamp : 1..MaxStamp, source_frame : SourceFrames,
             pose_in_source : Poses]

Last(s) == s[Len(s)]

KeyframeIds == 1..Len(keyframes_)

(* The pose in the map of a keyframe chained to its predecessor, which is   *)
(* at prevPose: the front end increment within one source frame, the same   *)
(* pose across frames.                                                      *)
Chained(prev, prevPose, kf) ==
  IF prev.source_frame = kf.source_frame
  THEN Compose(prevPose, Between(prev.pose_in_source, kf.pose_in_source))
  ELSE prevPose

InitialPose(kf) ==
  IF keyframes_ = <<>> THEN kf.pose_in_source
  ELSE Chained(Last(keyframes_), Last(pose_in_map), kf)

NoSolve == [n |-> 0, loops |-> 0, gnss |-> 0, gravity |-> 0, datum |-> None]

NoSnapshot == [n |-> 0, pairs |-> {}]

Init ==
  /\ keyframes_ = <<>> /\ pose_in_map = <<>> /\ loops_ = <<>>
  /\ loop_pairs_ = {} /\ rejected_loop_pairs_ = {}
  /\ gnss = 0 /\ gravity = 0 /\ geodetic_datum_ = None /\ georef_ = None
  /\ finalized_ = FALSE
  /\ state_mtx_ = None /\ solve_mtx_ = None /\ lc_scan_mtx_ = None
  /\ optimizer_new_data_ = FALSE /\ optimizer_should_exit_ = FALSE
  /\ lc_should_exit_ = FALSE
  /\ lc_kf_count_at_last_scan_ = 0 /\ lc_snapshot_size_at_last_scan_ = 0
  /\ lc_incremental_scans_ = 0
  /\ last_feedback_stamp_ = 0 /\ loops_in_last_correction_ = 0
  /\ notifying = {}
  /\ pc = [t \in Threads |->
             IF \/ t = "optimizer" /\ ~enable_optimizer_thread
                \/ t = "lc" /\ ~(loop_closure_enabled /\ enable_loop_closure_thread)
             THEN "done" ELSE "ready"]
  /\ phase = "running" /\ round = 0
  /\ solve = [t \in GraphThreads |-> NoSolve]
  /\ forceFullScan = [t \in ScanThreads |-> FALSE]
  /\ snapshot = [t \in ScanThreads |-> NoSnapshot]
  /\ edges = [t \in ScanThreads |-> <<>>]
  /\ merged = [t \in ScanThreads |-> 0]
  /\ solved = NoSolve /\ fused = <<>> /\ announced = 0 /\ lost = 0
  /\ examined = {} /\ failed = FALSE

InFinalSteps == phase \in {"final_scan", "final_scanned"}

GoTo(t, where) == pc' = [pc EXCEPT ![t] = where]

-----------------------------------------------------------------------------
(***************************************************************************)
(* Front ends and sensors.                                                 *)
(***************************************************************************)
AcceptsInput == state_mtx_ = None /\ ~finalized_

NewDataUnflagged == UNCHANGED optimizer_new_data_                  \* fault

NewData == optimizer_new_data_' = TRUE

(* insert_keyframe_impl() up to the unlock of state_mtx_, with its gravity   *)
(* direction, if the window has been read, and the pending GNSS readings     *)
(* that can now be attached.  After finalize() and for a stamp not newer     *)
(* than the newest one it changes nothing.                                   *)
InsertKeyframe(f) ==
  /\ f \notin notifying
  /\ AcceptsInput
  /\ \E kf \in Keyframe :
       /\ keyframes_ # <<>> => kf.stamp > Last(keyframes_).stamp
       /\ keyframes_' = Append(keyframes_, kf)
       /\ pose_in_map' = Append(pose_in_map, InitialPose(kf))
  /\ \E retried \in 0..(MaxGnss - gnss) :
       /\ gnss' = gnss + retried
       /\ optimizer_new_data_' = (optimizer_new_data_ \/ retried > 0)
  /\ \E attached \in 0..1 :
       /\ gravity + attached <= MaxGravity
       /\ gravity' = gravity + attached
  /\ notifying' = notifying \cup {f}
  /\ UNCHANGED <<loops_, loop_pairs_, rejected_loop_pairs_, geodetic_datum_,
                 georef_, lockVars, finalized_, optimizer_should_exit_,
                 lc_should_exit_, lcVars, outVars, pc, phase, round, localVars,
                 historyVars>>

(* ... and what it does after the unlock: the flag, then the notification.  *)
NotifyInserted(f) ==
  /\ f \in notifying
  /\ notifying' = notifying \ {f}
  /\ NewData
  /\ UNCHANGED <<mapVars, geoVars, lockVars, finalized_, optimizer_should_exit_,
                 lc_should_exit_, lcVars, outVars, pc, phase, round, localVars,
                 historyVars>>

(* onNewObservation() with a GNSS reading that gets attached to a keyframe: *)
(* the optimizer flag is set, without a notification.                       *)
AttachGnss ==
  /\ AcceptsInput
  /\ keyframes_ # <<>>
  /\ gnss < MaxGnss
  /\ gnss' = gnss + 1
  /\ NewData
  /\ UNCHANGED <<mapVars, gravity, geodetic_datum_, georef_, lockVars, finalized_,
                 optimizer_should_exit_, lc_should_exit_, lcVars, outVars,
                 controlVars, localVars, historyVars>>

(* ... with an accelerometer reading that ends the windows of keyframes     *)
(* that waited for it: they get their gravity, and no flag is set.          *)
AttachGravity ==
  /\ AcceptsInput
  /\ \E late \in 1..Len(keyframes_) :
       /\ gravity + late <= Len(keyframes_)
       /\ gravity + late <= MaxGravity
       /\ gravity' = gravity + late
  /\ UNCHANGED <<mapVars, gnss, geodetic_datum_, georef_, lockVars, flagVars,
                 lcVars, outVars, controlVars, localVars, historyVars>>

-----------------------------------------------------------------------------
(***************************************************************************)
(* The optimizer thread and solve_global_graph().                          *)
(***************************************************************************)

(* The loop, or the wait in it, sees the exit flag.                         *)
OptimizerExit ==
  /\ pc["optimizer"] = "ready"
  /\ optimizer_should_exit_
  /\ GoTo("optimizer", "done")
  /\ UNCHANGED <<mapVars, geoVars, lockVars, flagVars, lcVars, outVars,
                 notifying, phase, round, localVars, historyVars>>

(* The wait ends, by a notification or after its second, and the exit flag  *)
(* is still clear.                                                          *)
OptimizerWake ==
  /\ pc["optimizer"] = "ready"
  /\ ~optimizer_should_exit_
  /\ GoTo("optimizer", "take")
  /\ UNCHANGED <<mapVars, geoVars, lockVars, flagVars, lcVars, outVars,
                 notifying, phase, round, localVars, historyVars>>

(* optimizer_new_data_.exchange(false): with nothing new, back to the wait. *)
OptimizerTake ==
  /\ pc["optimizer"] = "take"
  /\ optimizer_new_data_' = FALSE
  /\ GoTo("optimizer", IF optimizer_new_data_ THEN "solve_lock" ELSE "ready")
  /\ UNCHANGED <<mapVars, geoVars, lockVars, finalized_, optimizer_should_exit_,
                 lc_should_exit_, lcVars, outVars, notifying, phase, round,
                 localVars, historyVars>>

SolvesOverlap == TRUE                                              \* fault

NoOtherSolve == solve_mtx_ = None

SolveLock(t) ==
  /\ pc[t] = "solve_lock"
  /\ NoOtherSolve
  /\ solve_mtx_' = t
  /\ GoTo(t, "solve_snapshot")
  /\ UNCHANGED <<mapVars, geoVars, state_mtx_, lc_scan_mtx_, flagVars, lcVars,
                 outVars, notifying, phase, round, localVars, historyVars>>

(* Back to the caller of solve_global_graph(): its locals die, its lock is  *)
(* released.                                                                *)
SolveReturn(t) ==
  /\ solve_mtx_' = None
  /\ solve' = [solve EXCEPT ![t] = NoSolve]
  /\ GoTo(t, "ready")
  /\ UNCHANGED <<state_mtx_, lc_scan_mtx_>>

SolveInput == [n |-> Len(keyframes_), loops |-> Len(loops_), gnss |-> gnss,
               gravity |-> gravity, datum |-> geodetic_datum_]

(* graph_input_locked().                                                    *)
SolveSnapshot(t) ==
  /\ pc[t] = "solve_snapshot"
  /\ state_mtx_ = None
  /\ \/ /\ keyframes_ = <<>>
        /\ SolveReturn(t)
     \/ /\ keyframes_ # <<>>
        /\ solve' = [solve EXCEPT ![t] = SolveInput]
        /\ GoTo(t, "solve_commit")
        /\ UNCHANGED lockVars
  /\ UNCHANGED <<mapVars, geoVars, flagVars, lcVars, outVars, notifying, phase,
                 round, scanVars, historyVars>>

ResultDatumsPickedAnew(in) ==                                      \* fault
  IF in.gnss = 0 THEN {None} ELSE Datums \cup {None}

(* GlobalGraphResult::geodetic_datum: the one of the input, or one that the *)
(* GNSS extractor picks when there are readings.                            *)
ResultDatums(in) ==
  IF in.datum # None THEN {in.datum}
  ELSE IF in.gnss = 0 THEN {None} ELSE Datums \cup {None}

EstimatesNotRechained(n) ==                                        \* fault
  {est \in [KeyframeIds -> Poses] :
     \A i \in KeyframeIds : i > n => est[i] = pose_in_map[i]}

(* The poses after a solve of the first n keyframes: any for those, chained *)
(* for the ones inserted meanwhile.                                         *)
Estimates(n) ==
  {est \in [KeyframeIds -> Poses] :
     \A i \in KeyframeIds : i > n =>
       est[i] = Chained(keyframes_[i - 1], est[i - 1], keyframes_[i])}

(* optimize_global_graph(), off the lock, then the write back of its result.*)
SolveCommit(t) ==
  /\ pc[t] = "solve_commit"
  /\ state_mtx_ = None
  /\ pose_in_map' \in Estimates(solve[t].n)
  /\ \E datum \in ResultDatums(solve[t]) :
       /\ geodetic_datum_' = IF datum # None THEN datum ELSE geodetic_datum_
       /\ \/ georef_' = georef_
          \/ datum # None /\ georef_' = datum
  /\ solved' = solve[t]
  /\ GoTo(t, "solve_feedback")
  /\ UNCHANGED <<keyframes_, loops_, loop_pairs_, rejected_loop_pairs_, gnss,
                 gravity, lockVars, flagVars, lcVars, outVars, notifying, phase, round,
                 localVars, fused, announced, lost, examined, failed>>

AlreadyFedOlder(stamp) == last_feedback_stamp_ > stamp             \* fault

AlreadyFed(stamp) == last_feedback_stamp_ >= stamp

(* send_feedback(): each keyframe once, and only if there is exactly one    *)
(* NavStateFilter (taken for granted unless things may fail).               *)
SolveFeedback(t) ==
  LET stamp == keyframes_[solve[t].n].stamp
      fed   == AlreadyFed(stamp)
  IN
  /\ pc[t] = "solve_feedback"
  /\ \/ /\ ~feedback_to_state_estimator \/ fed \/ MayFail
        /\ UNCHANGED <<last_feedback_stamp_, fused>>
     \/ /\ feedback_to_state_estimator /\ ~fed
        /\ fused' = Append(fused, stamp)
        /\ last_feedback_stamp_' = stamp
  /\ GoTo(t, "solve_correct")
  /\ UNCHANGED <<mapVars, geoVars, lockVars, flagVars, lcVars,
                 loops_in_last_correction_, notifying, phase, round, localVars,
                 solved, announced, lost, examined, failed>>

NewLoopsOfTheMap(t) == Len(loops_) - loops_in_last_correction_     \* fault

NewLoops(t) == solve[t].loops - loops_in_last_correction_

(* The local map correction, its count updated before the subscribers run.  *)
SolveCorrect(t) ==
  /\ pc[t] = "solve_correct"
  /\ \/ /\ ~(local_map_corrections /\ NewLoops(t) > 0)
        /\ UNCHANGED <<loops_in_last_correction_, announced>>
     \/ /\ local_map_corrections /\ NewLoops(t) > 0
        /\ loops_in_last_correction_' = solve[t].loops
        /\ announced' = announced + NewLoops(t)
  /\ SolveReturn(t)
  /\ UNCHANGED <<mapVars, geoVars, flagVars, lcVars, last_feedback_stamp_,
                 notifying, phase, round, scanVars, solved, fused, lost, examined,
                 failed>>

(* The solver throws, or a subscriber of the geo-reference or the state     *)
(* estimator does: nothing after it is done.                                *)
SolveThrows(t) ==
  /\ MayFail
  /\ pc[t] \in {"solve_commit", "solve_feedback"}
  /\ SolveReturn(t)
  /\ failed' = (failed \/ InFinalSteps)
  /\ UNCHANGED <<mapVars, geoVars, flagVars, lcVars, outVars, notifying, phase,
                 round, scanVars, solved, fused, announced, lost, examined>>

(* A subscriber of the local map corrections throws.                        *)
CorrectionThrows(t) ==
  /\ MayFail
  /\ pc[t] = "solve_correct"
  /\ local_map_corrections /\ NewLoops(t) > 0
  /\ loops_in_last_correction_' = solve[t].loops
  /\ lost' = lost + NewLoops(t)
  /\ SolveReturn(t)
  /\ failed' = (failed \/ InFinalSteps)
  /\ UNCHANGED <<mapVars, geoVars, flagVars, lcVars, last_feedback_stamp_,
                 notifying, phase, round, scanVars, solved, fused, announced,
                 examined>>

-----------------------------------------------------------------------------
(***************************************************************************)
(* The loop closure thread and run_loop_closure_scan().                    *)
(***************************************************************************)

(* The loop, or the wait in it, sees the exit flag.                         *)
LoopCloserExit ==
  /\ pc["lc"] = "ready"
  /\ lc_should_exit_
  /\ GoTo("lc", "done")
  /\ UNCHANGED <<mapVars, geoVars, lockVars, flagVars, lcVars, outVars,
                 notifying, phase, round, localVars, historyVars>>

CallScan(t, force) ==
  /\ forceFullScan' = [forceFullScan EXCEPT ![t] = force]
  /\ merged' = [merged EXCEPT ![t] = 0]
  /\ GoTo(t, "scan_lock")
  /\ UNCHANGED <<snapshot, edges>>

(* The wait ends by its period, or by request_loop_closure_scan(), which    *)
(* forces a full scan and may come at any time.                             *)
LoopCloserScan ==
  /\ pc["lc"] = "ready"
  /\ ~lc_should_exit_
  /\ \E force \in BOOLEAN : CallScan("lc", force)
  /\ UNCHANGED <<mapVars, geoVars, lockVars, flagVars, lcVars, outVars,
                 notifying, phase, round, solve, historyVars>>

FullScan(force) ==
  \/ force
  \/ ~loop_closure_incremental
  \/ /\ loop_closure_full_scan_every_n > 0
     /\ lc_incremental_scans_ >= loop_closure_full_scan_every_n

ScanLock(t) ==
  /\ pc[t] = "scan_lock"
  /\ lc_scan_mtx_ = None
  /\ lc_scan_mtx_' = t
  /\ GoTo(t, "scan_snapshot")
  /\ UNCHANGED <<mapVars, geoVars, state_mtx_, solve_mtx_, flagVars, lcVars,
                 outVars, notifying, phase, round, localVars, historyVars>>

(* Back to the caller, with merged[t] as the result.                        *)
ScanReturn(t) ==
  /\ lc_scan_mtx_' = None
  /\ forceFullScan' = [forceFullScan EXCEPT ![t] = FALSE]
  /\ snapshot' = [snapshot EXCEPT ![t] = NoSnapshot]
  /\ GoTo(t, "ready")
  /\ UNCHANGED <<solve_mtx_, edges, merged>>

(* Too few new keyframes for a scan that was not forced.                    *)
ScanTooEarly(t) ==
  /\ pc[t] = "scan_snapshot"
  /\ state_mtx_ = None
  /\ ~forceFullScan[t]
  /\ Len(keyframes_) < lc_kf_count_at_last_scan_ + loop_closure_min_new_keyframes
  /\ ScanReturn(t)
  /\ UNCHANGED <<mapVars, geoVars, state_mtx_, flagVars, lcVars, outVars,
                 notifying, phase, round, solve, historyVars>>

FirstNewKeyframeByCount(full) ==                                   \* fault
  IF full THEN 0 ELSE lc_kf_count_at_last_scan_

FirstNewKeyframe(full) == IF full THEN 0 ELSE lc_snapshot_size_at_last_scan_

IncrementalScansNeverReset(full) == lc_incremental_scans_ + 1      \* fault

IncrementalScans(full) == IF full THEN 0 ELSE lc_incremental_scans_ + 1

(* The pairs of n keyframes one scan has to look at: with a keyframe that   *)
(* the previous scans did not have, and neither closed nor rejected.        *)
PairsToExamine(n, first) ==
  {p \in (1..n) \X (1..n) : p[1] < p[2] /\ p[2] > first}
    \ (loop_pairs_ \cup rejected_loop_pairs_)

(* The snapshot, the pairs to leave out and, after the unlock, the counters *)
(* that only the holder of lc_scan_mtx_ uses.                               *)
ScanSnapshot(t) ==
  LET n == Len(keyframes_)
      full == FullScan(forceFullScan[t])
  IN
  /\ pc[t] = "scan_snapshot"
  /\ state_mtx_ = None
  /\ \/ forceFullScan[t]
     \/ n >= lc_kf_count_at_last_scan_ + loop_closure_min_new_keyframes
  /\ lc_kf_count_at_last_scan_' = n
  /\ \/ /\ n < 2
        /\ ScanReturn(t)
        /\ UNCHANGED lc_incremental_scans_
     \/ /\ n >= 2
        /\ lc_incremental_scans_' = IncrementalScans(full)
        /\ snapshot' = [snapshot EXCEPT ![t] =
             [n |-> n, pairs |-> PairsToExamine(n, FirstNewKeyframe(full))]]
        /\ GoTo(t, "scan_analyze")
        /\ UNCHANGED <<solve_mtx_, lc_scan_mtx_, forceFullScan, edges, merged>>
  /\ UNCHANGED <<mapVars, geoVars, state_mtx_, flagVars,
                 lc_snapshot_size_at_last_scan_, outVars, notifying, phase,
                 round, solve, historyVars>>

Pair(e) == IF e.from <= e.to THEN <<e.from, e.to>> ELSE <<e.to, e.from>>

Edges(n) == [from : 1..n, to : 1..n]

PairLess(p, q) == p[1] < q[1] \/ (p[1] = q[1] /\ p[2] < q[2])

(* What analyze() may return, sorted: edges between any two keyframes of    *)
(* the snapshot, the same pair more than once included.                     *)
Detections(n) ==
  {s \in UNION {[1..k -> Edges(n)] : k \in 0..MaxEdges} :
     \A i, j \in DOMAIN s : i < j => ~PairLess(Pair(s[j]), Pair(s[i]))}

(* The detector, off the state lock.  Once it sees should_abort it stops    *)
(* wherever it is.                                                          *)
ScanAnalyze(t) ==
  /\ pc[t] = "scan_analyze"
  /\ \E seen \in IF lc_should_exit_ THEN SUBSET snapshot[t].pairs
                 ELSE {snapshot[t].pairs} :
       examined' = examined \cup seen
  /\ \E found \in Detections(snapshot[t].n) :
       edges' = [edges EXCEPT ![t] = found]
  /\ GoTo(t, "scan_merge")
  /\ UNCHANGED <<mapVars, geoVars, lockVars, flagVars, lcVars, outVars,
                 notifying, phase, round, solve, forceFullScan, snapshot,
                 merged, solved, fused, announced, lost, failed>>

(* The detector throws: the counters of ScanSnapshot stay as they are.      *)
ScanThrows(t) ==
  /\ MayFail
  /\ pc[t] = "scan_analyze"
  /\ ScanReturn(t)
  /\ failed' = (failed \/ InFinalSteps)
  /\ UNCHANGED <<mapVars, geoVars, state_mtx_, flagVars, lcVars, outVars,
                 notifying, phase, round, solve, solved, fused, announced, lost,
                 examined>>

ScanMerge(t) ==
  /\ pc[t] = "scan_merge"
  /\ state_mtx_ = None
  /\ state_mtx_' = t
  /\ GoTo(t, "scan_merging")
  /\ UNCHANGED <<mapVars, geoVars, solve_mtx_, lc_scan_mtx_, flagVars, lcVars,
                 outVars, notifying, phase, round, localVars, historyVars>>

SkippedUnlessNewPair(e) ==                                         \* fault
  \/ e.from = e.to
  \/ e.from > Len(keyframes_) \/ e.to > Len(keyframes_)

(* The edges the merge skips without looking at the odometry.               *)
Skipped(e) ==
  \/ e.from = e.to
  \/ e.from > Len(keyframes_) \/ e.to > Len(keyframes_)
  \/ Pair(e) \in loop_pairs_

(* check_against_odometry_locked() has a verdict only within one chain.     *)
OneChain(p) ==
  \A i \in p[1]..p[2] : keyframes_[i].source_frame = keyframes_[p[1]].source_frame

MergeEdge(t) ==
  LET e == Head(edges[t]) IN
  /\ pc[t] = "scan_merging"
  /\ edges[t] # <<>>
  /\ edges' = [edges EXCEPT ![t] = Tail(edges[t])]
  /\ \/ /\ Skipped(e)
        /\ UNCHANGED <<loops_, loop_pairs_, rejected_loop_pairs_, merged>>
     \/ /\ ~Skipped(e)
        /\ loop_closure_odometry_check /\ OneChain(Pair(e))
        /\ rejected_loop_pairs_' = rejected_loop_pairs_ \cup {Pair(e)}
        /\ UNCHANGED <<loops_, loop_pairs_, merged>>
     \/ /\ ~Skipped(e)
        /\ loop_pairs_' = loop_pairs_ \cup {Pair(e)}
        /\ loops_' = Append(loops_, e)
        /\ merged' = [merged EXCEPT ![t] = merged[t] + 1]
        /\ UNCHANGED rejected_loop_pairs_
  /\ UNCHANGED <<keyframes_, pose_in_map, geoVars, lockVars, flagVars, lcVars,
                 outVars, controlVars, solve, forceFullScan, snapshot,
                 historyVars>>

MergeDone(t) ==
  /\ pc[t] = "scan_merging"
  /\ edges[t] = <<>>
  /\ state_mtx_' = None
  /\ lc_snapshot_size_at_last_scan_' = snapshot[t].n
  /\ \/ /\ merged[t] = 0
        /\ ScanReturn(t)
     \/ /\ merged[t] > 0
        /\ GoTo(t, "scan_notify")
        /\ UNCHANGED <<solve_mtx_, lc_scan_mtx_, scanVars>>
  /\ UNCHANGED <<mapVars, geoVars, flagVars, lc_kf_count_at_last_scan_,
                 lc_incremental_scans_, outVars, notifying, phase, round, solve,
                 historyVars>>

ScanNotify(t) ==
  /\ pc[t] = "scan_notify"
  /\ NewData
  /\ ScanReturn(t)
  /\ UNCHANGED <<mapVars, geoVars, state_mtx_, finalized_,
                 optimizer_should_exit_, lc_should_exit_, lcVars, outVars,
                 notifying, phase, round, solve, historyVars>>

-----------------------------------------------------------------------------
(***************************************************************************)
(* The owner: synchronous calls, then finalize().                          *)
(***************************************************************************)
OwnerIn(where) == phase = where /\ pc["owner"] = "ready"

(* optimize_now() and run_loop_closure_scan_now(), before the end.          *)
OptimizeNow ==
  /\ SyncSolves
  /\ OwnerIn("running")
  /\ GoTo("owner", "solve_lock")
  /\ UNCHANGED <<mapVars, geoVars, lockVars, flagVars, lcVars, outVars,
                 notifying, phase, round, localVars, historyVars>>

ScanNow ==
  /\ SyncScans
  /\ loop_closure_enabled
  /\ OwnerIn("running")
  /\ \E force \in BOOLEAN : CallScan("owner", force)
  /\ UNCHANGED <<mapVars, geoVars, lockVars, flagVars, lcVars, outVars,
                 notifying, phase, round, solve, historyVars>>

FinalizeBegin ==
  /\ OwnerIn("running")
  /\ state_mtx_ = None
  /\ finalized_' = TRUE
  /\ phase' = "stop_lc"
  /\ UNCHANGED <<mapVars, geoVars, lockVars, optimizer_new_data_,
                 optimizer_should_exit_, lc_should_exit_, lcVars, outVars,
                 notifying, pc, round, localVars, historyVars>>

StopLoopCloser ==
  /\ OwnerIn("stop_lc")
  /\ lc_should_exit_' = TRUE
  /\ phase' = "join_lc"
  /\ UNCHANGED <<mapVars, geoVars, lockVars, finalized_, optimizer_new_data_,
                 optimizer_should_exit_, lcVars, outVars, notifying, pc, round,
                 localVars, historyVars>>

JoinLoopCloser ==
  /\ OwnerIn("join_lc")
  /\ pc["lc"] = "done"
  /\ phase' = "stop_optimizer"
  /\ UNCHANGED <<mapVars, geoVars, lockVars, flagVars, lcVars, outVars,
                 notifying, pc, round, localVars, historyVars>>

OptimizerNotTold == UNCHANGED optimizer_should_exit_               \* fault

OptimizerToldToExit == optimizer_should_exit_' = TRUE

StopOptimizer ==
  /\ OwnerIn("stop_optimizer")
  /\ OptimizerToldToExit
  /\ phase' = "join_optimizer"
  /\ UNCHANGED <<mapVars, geoVars, lockVars, finalized_, optimizer_new_data_,
                 lc_should_exit_, lcVars, outVars, notifying, pc, round,
                 localVars, historyVars>>

AbortLeftSet == UNCHANGED lc_should_exit_                          \* fault

AbortCleared == lc_should_exit_' = FALSE

(* After the join, the final scans must not be aborted.                     *)
JoinOptimizer ==
  /\ OwnerIn("join_optimizer")
  /\ pc["optimizer"] = "done"
  /\ AbortCleared
  /\ phase' = "final_solve"
  /\ UNCHANGED <<mapVars, geoVars, lockVars, finalized_, optimizer_new_data_,
                 optimizer_should_exit_, lcVars, outVars, notifying, pc, round,
                 localVars, historyVars>>

(* Fault: as the optimizer thread, only if the flag says that there is new  *)
(* data.                                                                    *)
FinalSolveOfNewData ==
  /\ OwnerIn("final_solve")
  /\ IF optimizer_new_data_ THEN GoTo("owner", "solve_lock") ELSE UNCHANGED pc
  /\ phase' = "final_scan"
  /\ UNCHANGED <<mapVars, geoVars, lockVars, flagVars, lcVars, outVars,
                 notifying, round, localVars, historyVars>>

FinalSolve ==
  /\ OwnerIn("final_solve")
  /\ GoTo("owner", "solve_lock")
  /\ phase' = "final_scan"
  /\ UNCHANGED <<mapVars, geoVars, lockVars, flagVars, lcVars, outVars,
                 notifying, round, localVars, historyVars>>

(* The next round of the passes: at most finalize_rounds of them.           *)
FinalScan ==
  /\ OwnerIn("final_scan")
  /\ loop_closure_enabled /\ round < loop_closure_finalize_rounds
  /\ CallScan("owner", TRUE)
  /\ phase' = "final_scanned"
  /\ UNCHANGED <<mapVars, geoVars, lockVars, flagVars, lcVars, outVars,
                 notifying, round, solve, historyVars>>

(* A pass that merged nothing, or threw, is the last; after any other the   *)
(* map is solved again.                                                     *)
FinalScanned ==
  /\ OwnerIn("final_scanned")
  /\ \/ /\ merged["owner"] = 0
        /\ phase' = "save"
        /\ UNCHANGED <<pc, round>>
     \/ /\ merged["owner"] > 0
        /\ GoTo("owner", "solve_lock")
        /\ round' = round + 1
        /\ phase' = "final_scan"
  /\ UNCHANGED <<mapVars, geoVars, lockVars, flagVars, lcVars, outVars,
                 notifying, localVars, historyVars>>

FinalScanSkip ==
  /\ OwnerIn("final_scan")
  /\ ~(loop_closure_enabled /\ round < loop_closure_finalize_rounds)
  /\ phase' = "save"
  /\ UNCHANGED <<mapVars, geoVars, lockVars, flagVars, lcVars, outVars,
                 notifying, pc, round, localVars, historyVars>>

(* The one snapshot all the outputs are written from.                       *)
SaveOutputs ==
  /\ OwnerIn("save")
  /\ state_mtx_ = None
  /\ phase' = "saved"
  /\ UNCHANGED <<mapVars, geoVars, lockVars, flagVars, lcVars, outVars,
                 notifying, pc, round, localVars, historyVars>>

(* The end of the run, so that TLC can tell it from a deadlock.             *)
Terminated ==
  /\ OwnerIn("saved")
  /\ \A t \in Threads \ {"owner"} : pc[t] = "done"
  /\ notifying = {}
  /\ UNCHANGED vars

-----------------------------------------------------------------------------
Solve(t) ==
  \/ SolveLock(t)
  \/ SolveSnapshot(t)
  \/ SolveCommit(t)
  \/ SolveFeedback(t)
  \/ SolveCorrect(t)

Scan(t) ==
  \/ ScanLock(t)
  \/ ScanTooEarly(t)
  \/ ScanSnapshot(t)
  \/ ScanAnalyze(t)
  \/ ScanMerge(t)
  \/ MergeEdge(t)
  \/ MergeDone(t)
  \/ ScanNotify(t)

Throws ==
  \/ \E t \in GraphThreads : SolveThrows(t) \/ CorrectionThrows(t)
  \/ \E t \in ScanThreads : ScanThrows(t)

OptimizerThread == OptimizerExit \/ OptimizerWake \/ OptimizerTake

LoopCloserThread == LoopCloserExit \/ LoopCloserScan

Finalize ==
  \/ StopLoopCloser
  \/ JoinLoopCloser
  \/ StopOptimizer
  \/ JoinOptimizer
  \/ FinalSolve
  \/ FinalScan
  \/ FinalScanned
  \/ FinalScanSkip
  \/ SaveOutputs

Next ==
  \/ \E f \in FrontEnds : InsertKeyframe(f) \/ NotifyInserted(f)
  \/ AttachGnss
  \/ AttachGravity
  \/ OptimizerThread
  \/ LoopCloserThread
  \/ \E t \in GraphThreads : Solve(t)
  \/ \E t \in ScanThreads : Scan(t)
  \/ Throws
  \/ OptimizeNow
  \/ ScanNow
  \/ FinalizeBegin
  \/ Finalize
  \/ Terminated

Spec == Init /\ [][Next]_vars

(***************************************************************************)
(* The scheduler: every thread that can take a step eventually does (the   *)
(* waits of the optimizer and of the loop closure thread end by timeout).  *)
(* A thread waiting for a mutex that is free time and again gets it.       *)
(* Nothing is assumed of the front ends beyond finishing a request they    *)
(* began, of the sensors, or of the owner before it calls finalize().      *)
(***************************************************************************)
TakesMutex(t) ==
  \/ t \in GraphThreads /\ (SolveLock(t) \/ SolveSnapshot(t) \/ SolveCommit(t))
  \/ t \in ScanThreads /\ (ScanLock(t) \/ ScanTooEarly(t) \/ ScanSnapshot(t)
                             \/ ScanMerge(t))

Fairness ==
  /\ \A f \in FrontEnds : WF_vars(NotifyInserted(f))
  /\ WF_vars(OptimizerThread)
  /\ WF_vars(LoopCloserThread)
  /\ \A t \in GraphThreads : WF_vars(Solve(t))
  /\ \A t \in ScanThreads : WF_vars(Scan(t))
  /\ \A t \in Threads : SF_vars(TakesMutex(t))
  /\ WF_vars(Finalize) /\ SF_vars(SaveOutputs)

FairSpec == Spec /\ Fairness

-----------------------------------------------------------------------------
(***************************************************************************)
(* Properties                                                              *)
(***************************************************************************)
SolveInputs == [n : Nat, loops : Nat, gnss : Nat, gravity : Nat,
                datum : Datums \cup {None}]

LoopEdge == [from : Nat \ {0}, to : Nat \ {0}]

Snapshots == [n : Nat, pairs : SUBSET (Nat \X Nat)]

PCs == {"ready", "done", "take",
        "solve_lock", "solve_snapshot", "solve_commit", "solve_feedback",
        "solve_correct",
        "scan_lock", "scan_snapshot", "scan_analyze", "scan_merge",
        "scan_merging", "scan_notify"}

Phases == {"running", "stop_lc", "join_lc", "stop_optimizer", "join_optimizer",
           "final_solve", "final_scan", "final_scanned", "save", "saved"}

MapTypeOK ==
  /\ keyframes_ \in Seq(Keyframe)
  /\ pose_in_map \in [KeyframeIds -> Poses]
  /\ loops_ \in Seq(LoopEdge)
  /\ loop_pairs_ \in SUBSET (Nat \X Nat)
  /\ rejected_loop_pairs_ \in SUBSET (Nat \X Nat)

GeoTypeOK ==
  /\ gnss \in Nat
  /\ gravity \in Nat
  /\ geodetic_datum_ \in Datums \cup {None}
  /\ georef_ \in Datums \cup {None}

LockTypeOK ==
  /\ state_mtx_ \in ScanThreads \cup {None}
  /\ solve_mtx_ \in GraphThreads \cup {None}
  /\ lc_scan_mtx_ \in ScanThreads \cup {None}

FlagTypeOK ==
  /\ finalized_ \in BOOLEAN
  /\ optimizer_new_data_ \in BOOLEAN
  /\ optimizer_should_exit_ \in BOOLEAN
  /\ lc_should_exit_ \in BOOLEAN
  /\ failed \in BOOLEAN

CountersTypeOK ==
  /\ lc_kf_count_at_last_scan_ \in Nat
  /\ lc_snapshot_size_at_last_scan_ \in Nat
  /\ lc_incremental_scans_ \in Nat
  /\ loop_closure_full_scan_every_n > 0
       => lc_incremental_scans_ <= loop_closure_full_scan_every_n

OutTypeOK ==
  /\ last_feedback_stamp_ \in 0..MaxStamp
  /\ loops_in_last_correction_ \in Nat
  /\ fused \in Seq(1..MaxStamp)
  /\ announced \in Nat
  /\ lost \in Nat

ControlTypeOK ==
  /\ notifying \in SUBSET FrontEnds
  /\ pc \in [Threads -> PCs]
  /\ phase \in Phases
  /\ round \in 0..loop_closure_finalize_rounds

SolveTypeOK ==
  /\ solve \in [GraphThreads -> SolveInputs]
  /\ solved \in SolveInputs

ScanTypeOK ==
  /\ forceFullScan \in [ScanThreads -> BOOLEAN]
  /\ snapshot \in [ScanThreads -> Snapshots]
  /\ edges \in [ScanThreads -> Seq(LoopEdge)]
  /\ merged \in [ScanThreads -> Nat]
  /\ examined \in SUBSET (Nat \X Nat)

(* The types of the state of Mapper; the incremental scan counter of        *)
(* run_loop_closure_scan() stays within its limit.                          *)
TypeOK ==
  /\ MapTypeOK
  /\ GeoTypeOK
  /\ LockTypeOK
  /\ FlagTypeOK
  /\ CountersTypeOK
  /\ OutTypeOK
  /\ ControlTypeOK
  /\ SolveTypeOK
  /\ ScanTypeOK

(* The keyframes the last committed solve did not have in its input are     *)
(* chained to their predecessors, so a pose never mixes an old and a new    *)
(* estimate: insert_keyframe_impl() and the re-chaining in                  *)
(* solve_global_graph() agree, however inserts and solves interleave.       *)
TailChained ==
  \A i \in KeyframeIds \ {1} : i > solved.n =>
    pose_in_map[i] = Chained(keyframes_[i - 1], pose_in_map[i - 1], keyframes_[i])

(* A solve never overwrites the result of one that had more of the map in   *)
(* its input: the optimizer thread, optimize_now() and finalize() take      *)
(* solve_mtx_ before they take their snapshot.                              *)
SolvesNeverGoBack ==
  [][ /\ solved'.n >= solved.n
      /\ solved'.loops >= solved.loops
      /\ solved'.gnss >= solved.gnss
      /\ solved'.gravity >= solved.gravity ]_vars

(* The state estimator gets each keyframe pose at most once, and never one  *)
(* older than the last it got (send_feedback()).                            *)
FedOnceInOrder ==
  \A i, j \in DOMAIN fused : i < j => fused[i] < fused[j]

(* The local map corrections tell the front ends of loops that are already  *)
(* in the poses, of each loop once, and by the end of all of them but for   *)
(* the ones whose subscribers threw (the end of solve_global_graph()).      *)
CorrectionsAddUp ==
  /\ announced + lost <= solved.loops
  /\ local_map_corrections /\ phase = "saved" /\ ~failed
       => announced + lost = Len(loops_)

(* No loop is merged twice between two keyframes, from whatever scans, and  *)
(* loop_pairs_ (which tells the detector what is closed) has exactly the    *)
(* loops of the graph, all between two existing keyframes.                  *)
LoopsMatchPairs ==
  /\ loop_pairs_ = {Pair(loops_[i]) : i \in DOMAIN loops_}
  /\ \A i, j \in DOMAIN loops_ : Pair(loops_[i]) = Pair(loops_[j]) => i = j
  /\ \A p \in loop_pairs_ : p[1] < p[2] /\ p[2] <= Len(keyframes_)

(* What finalize() writes has been solved: no keyframe, loop or GNSS        *)
(* reading got in after the last solve, and no gravity direction that came  *)
(* late, without the flag, is missing in it, unless a final step threw.     *)
OutputsAreSolved ==
  phase = "saved" /\ ~failed =>
    /\ solved.n = Len(keyframes_)
    /\ solved.loops = Len(loops_)
    /\ keyframes_ # <<>> => solved.gnss = gnss /\ solved.gravity = gravity

Covered(p) == p \in examined \cup loop_pairs_ \cup rejected_loop_pairs_

PairsUpTo(n) == {p \in (1..n) \X (1..n) : p[1] < p[2]}

(* Until finalize() aborts the running scan, the detector has examined all  *)
(* the pairs of the keyframes of the last complete scan, though most scans  *)
(* look at the new keyframes only and some throw.                           *)
ScanCoverage ==
  phase \in {"running", "stop_lc"} =>
    \A p \in PairsUpTo(lc_snapshot_size_at_last_scan_) : Covered(p)

(* The passes of finalize() examine every pair of keyframes of the run,     *)
(* also when the exit flag had cut short the scan before them.              *)
FinalCoverage ==
  /\ phase = "saved" /\ ~failed
  /\ loop_closure_enabled /\ loop_closure_finalize_rounds > 0
  => \A p \in PairsUpTo(Len(keyframes_)) : Covered(p)

(* Once a solve fixes the geodetic datum, no later solve moves it.          *)
DatumNeverMoves ==
  [][geodetic_datum_ # None => geodetic_datum_' = geodetic_datum_]_vars

(* The published geo-reference is relative to the datum of the map.         *)
GeorefOnDatum == georef_ # None => georef_ = geodetic_datum_

(* Each pair of keyframes is closed at most once.                           *)
MaxLoops == (MaxStamp * (MaxStamp - 1)) \div 2

(* Every keyframe, loop and attached GNSS reading, which notifies nobody,   *)
(* ends up in a committed solve, by the optimizer thread or by finalize():  *)
(* no new data is lost between the flag, the exchange and the exit of the   *)
(* thread.                                                                  *)
EverythingGetsSolved ==
  /\ \A k \in 1..MaxStamp : Len(keyframes_) >= k ~> solved.n >= k
  /\ \A k \in 1..MaxLoops : Len(loops_) >= k ~> solved.loops >= k
  /\ \A k \in 1..MaxGnss : gnss >= k ~> solved.gnss >= k

Map == INSTANCE KeyframeMap WITH
  keyframes <- keyframes_, poses <- pose_in_map, loops <- loops_,
  readings <- [gnss |-> gnss, gravity |-> gravity],
  solved <- [n |-> solved.n, loops |-> solved.loops, gnss |-> solved.gnss,
             gravity |-> solved.gravity],
  datum <- geodetic_datum_, open <- ~finalized_, saved <- phase = "saved"

(* The mapper is a map that only grows, whose solves go forward, whose      *)
(* newest keyframes are chained, and which is saved solved and left alone   *)
(* from then on: what Mapper.h promises of the map, as an abstract          *)
(* specification, whatever its threads do.                                  *)
KeepsMap == Map!Spec

(* finalize() returns: the threads it joins see their exit flags, and the   *)
(* passes end.                                                              *)
FinalizeTerminates == finalized_ ~> phase = "saved"
=============================================================================
