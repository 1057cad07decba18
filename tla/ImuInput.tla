------------------------------ MODULE ImuInput ------------------------------
(***************************************************************************)
(* What the mapper takes from IMUs: the rotation between two keyframes,    *)
(* integrated from gyroscope readings (GyroIntegration.cpp), and gravity,  *)
(* the mean of the accelerometer over a window before each keyframe        *)
(* (Mapper.cpp: add_gyro_sample_locked(), add_gravity_sample_locked(),     *)
(* attach_gyro_rotation_locked(), attach_gravity_locked()).                *)
(*                                                                         *)
(* Time is counted in units.  A rotation is the sequence of the readings   *)
(* that hold in each unit, whose product it is; gravity is the sequence of *)
(* the readings that are averaged.  Each handler is one critical section   *)
(* on state_mtx_; a front end asks for the gyroscope bias before its own.  *)
(***************************************************************************)
EXTENDS Integers, Sequences, FiniteSets, SequencesExt

CONSTANTS
  GyroImus, GravityImus,   \* labels that match the two expressions
  gyro_max_gap, GYRO_KEEP,
  imu_gravity_window, imu_gravity_min_samples,
  GRAVITY_KEEP,            \* readings are kept so much longer than the window
  FrontEndLag,             \* a keyframe is not older than a reading by more
  MaxTime,                 \* bound: the last time
  MaxKeyframes,            \* bound: keyframes inserted
  MaxReadings              \* bound: readings that come

ASSUME ParametersAssumption ==
  /\ {gyro_max_gap, GYRO_KEEP, imu_gravity_window, GRAVITY_KEEP,
      FrontEndLag, MaxTime, MaxKeyframes, MaxReadings} \subseteq Nat
  /\ imu_gravity_min_samples \in Nat \ {0}
  /\ "" \notin GyroImus \cup GravityImus

(* The readings are kept longer than the window for keyframes that arrive   *)
(* late (Mapper.cpp:299): they are not later than that.                     *)
ASSUME LagAssumption == FrontEndLag \in 0..GRAVITY_KEEP

Times == 1..MaxTime
Imus == GyroImus \cup GravityImus
Readings == [imu : Imus, t : Times]

VARIABLES
  stamps,            \* of keyframes_, in order
  rotation,          \* of each keyframe: gyro_rotation_from_prev and its bias
  gravity,           \* of each keyframe: the readings averaged, <<>> if none
  gyro_label_, gyro_samples_,
  gravity_label_, imu_samples_, pending_gravity_,
  request,           \* of the front end: its keyframe's stamp and the bias
  received           \* history: the readings, as they came

gyroVars == <<gyro_label_, gyro_samples_>>
gravityVars == <<gravity_label_, imu_samples_, pending_gravity_>>
vars == <<stamps, rotation, gravity, gyroVars, gravityVars, request, received>>

NoRequest == [t |-> 0, bias |-> ""]
NoRotation == [R |-> <<>>, bias |-> ""]

Init ==
  /\ stamps = <<>> /\ rotation = <<>> /\ gravity = <<>>
  /\ gyro_label_ = "" /\ gyro_samples_ = <<>>
  /\ gravity_label_ = "" /\ imu_samples_ = <<>> /\ pending_gravity_ = <<>>
  /\ request = NoRequest
  /\ received = <<>>

(* What is left of a queue from its n-th element on, nothing if n is 0.     *)
From(seq, n) == IF n = 0 THEN <<>> ELSE SubSeq(seq, n, Len(seq))

Pruned(samples, now, keep) ==
  From(samples, SelectInSeq(samples, LAMBDA s : now - s.t <= keep))

(* The first IMU that is heard is the only one that is used.                *)
Latched(label, imu) == IF label = "" THEN imu ELSE label

-----------------------------------------------------------------------------
(***************************************************************************)
(* integrate_gyro().                                                       *)
(***************************************************************************)
Hold(s, dt) == [u \in 1..dt |-> s]

(* Fault: a reading counts in full, also beyond the end of the interval.    *)
SegmentEndUnclipped(s, t1) == s.t

SegmentEnd(s, t1) == IF s.t < t1 THEN s.t ELSE t1

(* One iteration of its loop.                                               *)
Segment(st, s, t1) ==
  LET end == SegmentEnd(s, t1)
      dt == end - st.prev
  IN  IF st.prev >= t1 THEN st
      ELSE [prev |-> end, R |-> st.R \o Hold(s, dt),
            covered |-> st.covered /\ dt <= gyro_max_gap]

(* The rotation from t0 to t1, <<>> if the readings do not cover it.        *)
integrate_gyro(samples, t0, t1) ==
  LET first == SelectInSeq(samples, LAMBDA s : s.t > t0)
      covered == /\ first # 0
                 /\ first # 1 \/ samples[first].t - t0 <= gyro_max_gap
                 /\ t1 - Last(samples).t <= gyro_max_gap
      loop == FoldLeft(LAMBDA st, s : Segment(st, s, t1),
                       [prev |-> t0, R |-> <<>>, covered |-> TRUE],
                       SubSeq(samples, first, Len(samples)))
  IN  IF samples # <<>> /\ covered /\ loop.covered
      THEN loop.R \o Hold(Last(samples), t1 - loop.prev)
      ELSE <<>>

-----------------------------------------------------------------------------
(***************************************************************************)
(* onNewObservation(), for an IMU.                                         *)
(***************************************************************************)
(* Fault: readings out of order are queued too.                             *)
AcceptsUnordered(samples, r) == TRUE

Accepts(samples, r) == samples = <<>> \/ Last(samples).t < r.t

add_gyro_sample(r) ==
  /\ gyro_label_' = Latched(gyro_label_, r.imu)
  /\ gyro_samples_' =
       IF r.imu = gyro_label_' /\ Accepts(gyro_samples_, r)
       THEN Pruned(Append(gyro_samples_, r), r.t, GYRO_KEEP)
       ELSE gyro_samples_

(* The elements of seq that are in S.                                       *)
KeptIn(seq, S) ==
  LET kept[n \in 0..Len(seq)] ==
        IF n = 0 THEN <<>>
        ELSE IF seq[n] \in S THEN Append(kept[n - 1], seq[n]) ELSE kept[n - 1]
  IN  kept[Len(seq)]

InWindow(samples, t) ==
  KeptIn(samples, {s \in Readings : t - s.t \in 0..imu_gravity_window})

(* attach_gravity_locked(): what is averaged.                               *)
Averaged(samples, t) ==
  LET window == InWindow(samples, t)
  IN  IF Len(window) < imu_gravity_min_samples THEN <<>> ELSE window

(* Fault: only the keyframe that waits longest is tried again.              *)
StillPendingButOne(pending, r) ==
  IF pending # <<>> /\ stamps[Head(pending)] < r.t THEN Tail(pending) ELSE pending

StillPending(pending, r) ==
  From(pending, SelectInSeq(pending, LAMBDA k : stamps[k] >= r.t))

(* Fault: no more readings are kept than the window has.                    *)
KeepWindow == imu_gravity_window

Keep == imu_gravity_window + GRAVITY_KEEP

QueueGravity(r) ==
  LET samples == Append(imu_samples_, r)
      due == ToSet(pending_gravity_) \ ToSet(pending_gravity_')
  IN  /\ pending_gravity_' = StillPending(pending_gravity_, r)
      /\ gravity' = [k \in DOMAIN gravity |->
                       IF k \in due THEN Averaged(samples, stamps[k]) ELSE gravity[k]]
      /\ imu_samples_' = Pruned(samples, r.t, Keep)

add_gravity_sample(r) ==
  /\ gravity_label_' = Latched(gravity_label_, r.imu)
  /\ IF r.imu = gravity_label_'
     THEN QueueGravity(r)
     ELSE UNCHANGED <<gravity, imu_samples_, pending_gravity_>>

OnImu(r) ==
  /\ Len(received) < MaxReadings
  /\ IF r.imu \in GyroImus THEN add_gyro_sample(r) ELSE UNCHANGED gyroVars
  /\ IF r.imu \in GravityImus
     THEN add_gravity_sample(r)
     ELSE UNCHANGED <<gravity, gravityVars>>
  /\ received' = Append(received, r)
  /\ UNCHANGED <<stamps, rotation, request>>

-----------------------------------------------------------------------------
(***************************************************************************)
(* requestInsertKeyframe().                                                *)
(***************************************************************************)
(* The bias sources, asked without state_mtx_, may know the IMU or not.     *)
QueryBias(t) ==
  /\ request = NoRequest
  /\ Len(stamps) < MaxKeyframes
  /\ \E b \in {"", gyro_label_} : request' = [t |-> t, bias |-> b]
  /\ UNCHANGED <<stamps, rotation, gravity, gyroVars, gravityVars, received>>

IsOlder(t) == stamps # <<>> /\ t <= Last(stamps)

ImuBehind(t) ==
  GravityImus # {} /\ (imu_samples_ = <<>> \/ Last(imu_samples_).t < t)

(* attach_gyro_rotation_locked().                                           *)
RotationTo(t, bias) ==
  LET R == IF stamps = <<>> THEN <<>>
           ELSE integrate_gyro(gyro_samples_, Last(stamps), t)
  IN  IF R = <<>> THEN NoRotation ELSE [R |-> R, bias |-> bias]

IndexOfLast(keyframes) == Len(keyframes)

Insert(t, bias) ==
  LET averaged == Averaged(imu_samples_, t)
  IN  /\ stamps' = Append(stamps, t)
      /\ rotation' = Append(rotation, RotationTo(t, bias))
      /\ gravity' = Append(gravity, averaged)
      /\ pending_gravity_' = IF averaged = <<>> /\ ImuBehind(t)
                             THEN Append(pending_gravity_, IndexOfLast(stamps'))
                             ELSE pending_gravity_

InsertKeyframe ==
  /\ request # NoRequest
  /\ \A r \in ToSet(received) : request.t >= r.t - FrontEndLag
  /\ IF IsOlder(request.t)
     THEN UNCHANGED <<stamps, rotation, gravity, pending_gravity_>>
     ELSE Insert(request.t, request.bias)
  /\ request' = NoRequest
  /\ UNCHANGED <<gyroVars, gravity_label_, imu_samples_, received>>

Next ==
  \/ \E r \in Readings : OnImu(r)
  \/ \E t \in Times : QueryBias(t)
  \/ InsertKeyframe

Spec == Init /\ [][Next]_vars

-----------------------------------------------------------------------------
(***************************************************************************)
(* Properties.                                                             *)
(***************************************************************************)
(* The first of the IMUs that was heard, "" if none was.                    *)
HeardImu(imus) ==
  LET first == SelectInSeq(received, LAMBDA r : r.imu \in imus)
  IN  IF first = 0 THEN "" ELSE received[first].imu

Heard(imus) == KeptIn(received, [imu : {HeardImu(imus)}, t : Times])

(* Those of the gyroscope that are newer than all before them.              *)
Gyro ==
  LET imu == HeardImu(GyroImus)
  IN  {received[i] : i \in {j \in DOMAIN received :
         /\ received[j].imu = imu
         /\ \A l \in 1..(j - 1) : received[l].imu = imu => received[l].t < received[j].t}}

(* The reading that holds at u: the first one since u, or the last one.     *)
HoldsAt(readings, u) ==
  LET since == {s \in readings : s.t >= u}
  IN  IF since = {}
      THEN CHOOSE s \in readings : \A o \in readings : o.t <= s.t
      ELSE CHOOSE s \in since : \A o \in since : s.t <= o.t

(* They cover t0 to t1: one is newer than t0, and no two neighbors among    *)
(* those in between, and these two times themselves, are too far apart.     *)
Covers(readings, t0, t1) ==
  LET times == {t0, t1} \cup {s.t : s \in {r \in readings : r.t \in t0..t1}}
  IN  /\ \E s \in readings : s.t > t0
      /\ \A x \in times \ {t1} : \E y \in times : y - x \in 1..gyro_max_gap

(* A reading comes soon after t0, perhaps after the end of the interval.    *)
StartsSoon(readings, t0) == \E s \in readings : s.t - t0 \in 1..gyro_max_gap

(* If the newest keyframe has a rotation, it is that of all the gyroscope   *)
(* readings so far, each one holding since the previous one and the last    *)
(* one to the end, with a bias of the same IMU if any, and they cover the   *)
(* time since the previous keyframe; it has one if they do and start soon.  *)
NewestRotation ==
  LET k == Len(stamps)
      t0 == stamps[k - 1]
      t1 == stamps[k]
      readings == Gyro
      covered == Covers(readings, t0, t1)
  IN  k >= 2 /\ (\A s \in readings : s.t - t0 <= GYRO_KEEP) =>
        /\ rotation[k] # NoRotation =>
             /\ covered
             /\ rotation[k].R = [u \in 1..(t1 - t0) |-> HoldsAt(readings, t0 + u)]
             /\ rotation[k].bias \in {""} \cup {s.imu : s \in readings}
        /\ covered /\ StartsSoon(readings, t0) => rotation[k] # NoRotation

(* A keyframe is given the rotation that the readings which came before it  *)
(* make, whatever the order in which readings of several IMUs, requests and *)
(* keyframes come (GyroIntegration.cpp:38-87, Mapper.cpp:260-279, 485-504). *)
RotationFromReadings == [][stamps' # stamps => NewestRotation']_vars

(* The accelerometer's readings are used as they come, unlike gyroscope     *)
(* ones: what follows is of those that come in order.                       *)
InOrder ==
  LET h == Heard(GravityImus)
  IN  \A i \in DOMAIN h : \A j \in 1..(i - 1) : h[j].t < h[i].t

Newest(samples) == IF samples = <<>> THEN 0 ELSE Last(samples).t

AllInWindow(k) == InWindow(Heard(GravityImus), stamps[k])

Pending == ToSet(pending_gravity_)

(* A keyframe that waits no more has gravity if there were readings enough  *)
(* in its window, those that came after it and after it was tried first     *)
(* included, and no reading of another window or IMU (Mapper.cpp:281-305,   *)
(* 506-532, 610-620).                                                       *)
GravityComplete ==
  InOrder =>
    \A k \in DOMAIN stamps \ Pending :
      IF gravity[k] = <<>>
      THEN Len(AllInWindow(k)) < imu_gravity_min_samples
      ELSE /\ Len(gravity[k]) >= imu_gravity_min_samples
           /\ IsPrefix(gravity[k], AllInWindow(k))

(* If there are such IMUs, the keyframes that wait are those without        *)
(* gravity that the readings have not passed yet: none is forgotten in the  *)
(* queue or out of it (Mapper.cpp:294-298, 618-620).                        *)
GravityWaits ==
  LET without == {k \in DOMAIN stamps : gravity[k] = <<>>}
      newest == Newest(Heard(GravityImus))
  IN  GravityImus # {} /\ InOrder =>
        /\ {k \in without : newest < stamps[k]} \subseteq Pending
        /\ Pending \subseteq {k \in without : newest <= stamps[k]}

(* What the comment says: a keyframe for which "the IMU readings up to the  *)
(* keyframe have not all arrived yet" is "tried again once they have"       *)
(* (Mapper.cpp:610-611), so that gravity is the mean of the window          *)
(* (docs/call-graph.md:99-101).                                             *)
WholeWindowAveraged ==
  \A k \in DOMAIN stamps :
    InOrder /\ Newest(Heard(GravityImus)) > stamps[k] => gravity[k] \in {<<>>, AllInWindow(k)}
=============================================================================
