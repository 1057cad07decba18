----------------------------- MODULE SensorInput -----------------------------
(***************************************************************************)
(* The readings that the mapper attaches to the keyframe nearest in time:  *)
(* GNSS and camera images (Mapper.cpp: onNewObservation(),                 *)
(* attach_nearest_locked(), finish_images_locked(), finalize()).           *)
(*                                                                         *)
(* Each handler is one critical section on state_mtx_, hence one action.   *)
(* Keyframes come in the order of their stamps; a reading comes whenever   *)
(* its sensor and the front end deliver it, before or after the keyframes  *)
(* around it, GNSS readings in any order and the images of one camera in   *)
(* order.  Times are small numbers, a reading is its slot and its time.    *)
(* The image files are written by the pool disk_io_, in the background.    *)
(***************************************************************************)
EXTENDS Integers, Sequences, FiniteSets, SequencesExt

CONSTANTS
  UseGnss,        \* gnss_sensor_labels_re is not empty
  Cameras,        \* the slots of the images: one per camera label
  KeptCameras,    \* those whose images stay as they are (not 8-bit, or already
                  \*   in files)
  gnss_max_time_offset, image_max_time_offset,
  FRONT_END_LAG_MARGIN,
  FrontEndLag,    \* a keyframe is not older than any image by more than this
  MaxTime,        \* bound: the last time
  MaxKeyframes,   \* bound: keyframes inserted
  MaxReadings     \* bound: readings that come

Gnss == "gnss"
None == 0

ASSUME CamerasAssumption ==
  UseGnss \in BOOLEAN /\ KeptCameras \subseteq Cameras /\ Gnss \notin Cameras
ASSUME TimesAssumption ==
  /\ gnss_max_time_offset \in Nat /\ image_max_time_offset \in Nat
  /\ FRONT_END_LAG_MARGIN \in Nat /\ FrontEndLag \in 0..FRONT_END_LAG_MARGIN
  /\ MaxTime \in Nat /\ MaxKeyframes \in Nat /\ MaxReadings \in Nat

Times == 1..MaxTime
Slots == Cameras \cup (IF UseGnss THEN {Gnss} ELSE {})
Readings == [slot : Slots, t : Times]

VARIABLES
  stamps,             \* of keyframes_, in order
  nearest,            \* nearest[k][s]: the time of the reading of slot s that
                      \*   keyframe k has, or None
  pending_gnss_, pending_images_,
  unwritten_images_,  \* pairs <<k, s>> whose image may still be replaced
  image_writes_,      \* the readings whose file disk_io_ has yet to write
  files,              \* the readings whose file has been written, or could not
  phase,              \* of finalize(): "running", "finalized", "waiting", "saved"
  written,            \* history: the pairs <<k, s>> swapped for a file
  received,           \* history: the readings that came
  dropped             \* history: the pending images given up as too old

inputVars == <<stamps, nearest, pending_gnss_, pending_images_, received,
               dropped>>
imageVars == <<unwritten_images_, image_writes_, files, written>>
vars == <<inputVars, imageVars, phase>>

Init ==
  /\ stamps = <<>> /\ nearest = <<>>
  /\ pending_gnss_ = <<>> /\ pending_images_ = <<>>
  /\ unwritten_images_ = {} /\ image_writes_ = {} /\ files = {}
  /\ phase = "running"
  /\ written = {} /\ received = {} /\ dropped = {}

finalized_ == phase # "running"

abs_time_diff(a, b) == IF a < b THEN b - a ELSE a - b

MaxOffset(s) == IF s = Gnss THEN gnss_max_time_offset ELSE image_max_time_offset

-----------------------------------------------------------------------------
(***************************************************************************)
(* attach_nearest_locked(): on the keyframes kfs with the readings near.   *)
(***************************************************************************)
(* No keyframe at or after the reading yet.                                 *)
IsPending(kfs, t) == kfs = <<>> \/ Last(kfs) < t

(* The two keyframes around t: the first one at or after it, and the one    *)
(* before that.                                                             *)
Neighbors(kfs, t) ==
  LET after == CHOOSE k \in DOMAIN kfs :
                 kfs[k] >= t /\ \A j \in 1..(k - 1) : kfs[j] < t
  IN  {after - 1, after} \cap DOMAIN kfs

(* The nearest of the two within the offset, the older one if both are.     *)
Best(kfs, r) ==
  LET close == {k \in Neighbors(kfs, r.t) :
                  abs_time_diff(kfs[k], r.t) <= MaxOffset(r.slot)}
  IN  {k \in close : \A j \in close :
         \/ abs_time_diff(kfs[k], r.t) < abs_time_diff(kfs[j], r.t)
         \/ abs_time_diff(kfs[k], r.t) = abs_time_diff(kfs[j], r.t) /\ k <= j}

(* Fault: a newer reading replaces the attached one, closer or not.         *)
IsCloserAlways(kfs, near, k, r) == TRUE

IsCloser(kfs, near, k, r) ==
  near[k][r.slot] # None =>
    abs_time_diff(kfs[k], r.t) < abs_time_diff(kfs[k], near[k][r.slot])

(* The keyframe that gets r, none or one.                                   *)
AttachedTo(kfs, near, r) == {k \in Best(kfs, r) : IsCloser(kfs, near, k, r)}

Attach(kfs, near, r) ==
  [k \in DOMAIN near |-> IF k \in AttachedTo(kfs, near, r)
                         THEN [near[k] EXCEPT ![r.slot] = r.t]
                         ELSE near[k]]

(* Readings tried one after the other; st has what they change.             *)
TryOne(kfs, st, r) ==
  IF IsPending(kfs, r.t)
  THEN [st EXCEPT !.pending = Append(@, r)]
  ELSE [st EXCEPT !.near = Attach(kfs, st.near, r),
                  !.new = @ \cup {<<k, r.slot>> : k \in AttachedTo(kfs, st.near, r)}]

TryAll(kfs, near, readings) ==
  FoldLeft(LAMBDA st, r : TryOne(kfs, st, r),
           [near |-> near, pending |-> <<>>, new |-> {}], readings)

(* Pending images too old for any keyframe still to come are dropped.       *)
(* Fault: without the margin for the front end lag.                         *)
TooOldNoMargin(first, last) == last.t - first.t > image_max_time_offset

TooOld(first, last) ==
  last.t - first.t > image_max_time_offset + FRONT_END_LAG_MARGIN

(* How many of the oldest ones go: the front of the queue while too old.    *)
NumTooOld(images) ==
  CHOOSE n \in 0..Len(images) :
    /\ \A i \in 1..n : TooOld(images[i], Last(images))
    /\ n = Len(images) \/ ~TooOld(images[n + 1], Last(images))

Bound(images) ==
  LET n == NumTooOld(images)
  IN  /\ pending_images_' = SubSeq(images, n + 1, Len(images))
      /\ dropped' = dropped \cup {images[i] : i \in 1..n}

-----------------------------------------------------------------------------
(***************************************************************************)
(* finish_images_locked(newest): the entries of unwritten that no closer   *)
(* image can replace any more are swapped for copies that refer to a file. *)
(***************************************************************************)
(* Fault: not even the newest keyframe is waited for.                       *)
IsNewestNever(kfs, k) == FALSE

IsNewest(kfs, k) == k = Len(kfs)

MayBeReplaced(kfs, near, k, s, newest) ==
  \/ IsNewest(kfs, k)
  \/ s # newest.slot
  \/ abs_time_diff(kfs[k], newest.t) <= abs_time_diff(kfs[k], near[k][s])
  \/ newest.t < kfs[k]

Finish(near, done, unwritten) ==
  /\ unwritten_images_' = unwritten \ done
  /\ written' = written \cup done
  /\ image_writes_' = image_writes_ \cup
       {[slot |-> e[2], t |-> near[e[1]][e[2]]] :
          e \in {d \in done : d[2] \notin KeptCameras}}

-----------------------------------------------------------------------------
(***************************************************************************)
(* onNewObservation().                                                     *)
(***************************************************************************)
IsNew(r) ==
  /\ phase = "running"
  /\ Cardinality(received) < MaxReadings
  /\ r \notin received

OnGnss(r) ==
  /\ IsNew(r) /\ r.slot = Gnss
  /\ LET st == TryAll(stamps, nearest, <<r>>)
     IN  /\ nearest' = st.near
         /\ pending_gnss_' = pending_gnss_ \o st.pending
  /\ received' = received \cup {r}
  /\ UNCHANGED <<stamps, pending_images_, dropped, imageVars, phase>>

OnImage(r) ==
  /\ IsNew(r) /\ r.slot \in Cameras
  /\ \A o \in received : o.slot = r.slot => o.t < r.t
  /\ LET st == TryAll(stamps, nearest, Append(pending_images_, r))
         unwritten == unwritten_images_ \cup st.new
         done == {e \in unwritten :
                    ~MayBeReplaced(stamps, st.near, e[1], e[2], r)}
     IN  /\ nearest' = st.near
         /\ Bound(st.pending)
         /\ Finish(st.near, done, unwritten)
  /\ received' = received \cup {r}
  /\ UNCHANGED <<stamps, pending_gnss_, files, phase>>

-----------------------------------------------------------------------------
(***************************************************************************)
(* insert_keyframe_impl(), for a keyframe with stamp t.                    *)
(***************************************************************************)
IsOlder(t) == stamps # <<>> /\ t <= Last(stamps)

(* Fault: the readings that waited for the keyframe are tried without it.   *)
RetriedWithoutNew(kfs) == SubSeq(kfs, 1, Len(kfs) - 1)

RetriedWith(kfs) == kfs

Left(queue, waiting) == waiting

InsertKeyframe(t) ==
  /\ phase = "running"
  /\ ~IsOlder(t)
  /\ Len(stamps) < MaxKeyframes
  /\ \A r \in received : r.slot \in Cameras => t >= r.t - FrontEndLag
  /\ stamps' = Append(stamps, t)
  /\ LET kfs == RetriedWith(stamps')
         gnss == TryAll(kfs, Append(nearest, [s \in Slots |-> None]), pending_gnss_)
         images == TryAll(kfs, gnss.near, pending_images_)
     IN  /\ nearest' = images.near
         /\ pending_gnss_' = Left(pending_gnss_, gnss.pending)
         /\ Bound(images.pending)
         /\ unwritten_images_' = unwritten_images_ \cup images.new
  /\ UNCHANGED <<image_writes_, files, written, phase, received>>

-----------------------------------------------------------------------------
(* disk_io_ writes a file, or logs that it could not.                       *)
DiskWrite ==
  /\ \E r \in image_writes_ : /\ image_writes_' = image_writes_ \ {r}
                              /\ files' = files \cup {r}
  /\ UNCHANGED <<inputVars, unwritten_images_, written, phase>>

(***************************************************************************)
(* finalize(): from here on, nothing is received nor inserted.             *)
(***************************************************************************)
Finalize ==
  /\ phase = "running"
  /\ phase' = "finalized"
  /\ UNCHANGED <<inputVars, imageVars>>

FinishImages ==
  /\ phase = "finalized"
  /\ Finish(nearest, unwritten_images_, unwritten_images_)
  /\ phase' = "waiting"
  /\ UNCHANGED <<inputVars, files>>

(* Fault: the outputs are saved while files are being written.              *)
NotAwaited == TRUE

AllWritten == image_writes_ = {}

SaveOutputs ==
  /\ phase = "waiting"
  /\ AllWritten
  /\ phase' = "saved"
  /\ UNCHANGED <<inputVars, imageVars>>

Next ==
  \/ \E r \in Readings : OnGnss(r) \/ OnImage(r)
  \/ \E t \in Times : InsertKeyframe(t)
  \/ DiskWrite
  \/ Finalize \/ FinishImages \/ SaveOutputs

Spec == Init /\ [][Next]_vars

-----------------------------------------------------------------------------
(***************************************************************************)
(* Properties.                                                             *)
(***************************************************************************)
(* The keyframe nearest to a reading over all of them, not only over the    *)
(* two around it; the older one of two as near.                             *)
NearestOfAll(r) ==
  {k \in DOMAIN stamps : \A j \in DOMAIN stamps :
     \/ abs_time_diff(stamps[k], r.t) < abs_time_diff(stamps[j], r.t)
     \/ abs_time_diff(stamps[k], r.t) = abs_time_diff(stamps[j], r.t) /\ k <= j}

Waiting(r) == IsPending(stamps, r.t)

(* The readings that keyframe k could have in slot s.                       *)
Eligible(k, s) ==
  {r \in received \ dropped :
     /\ r.slot = s /\ ~Waiting(r)
     /\ k \in NearestOfAll(r)
     /\ abs_time_diff(stamps[k], r.t) <= MaxOffset(s)}

(* Whatever the order in which keyframes and readings came, each keyframe   *)
(* has the closest of the readings whose nearest keyframe it is: none was   *)
(* attached too early, dropped while it waited or lost to a farther one     *)
(* (Mapper.cpp:307-346, 348-403, 453-460).               *)
NearestAttached ==
  \A k \in DOMAIN stamps, s \in Slots :
    IF Eligible(k, s) = {}
    THEN nearest[k][s] = None
    ELSE /\ [slot |-> s, t |-> nearest[k][s]] \in Eligible(k, s)
         /\ \A r \in Eligible(k, s) :
              abs_time_diff(stamps[k], nearest[k][s]) <= abs_time_diff(stamps[k], r.t)

(* The GNSS readings that wait are those newer than the newest keyframe: no *)
(* reading is lost or stuck in the queue (Mapper.cpp:348-360, 453-460).     *)
GnssWaits ==
  {r \in received : r.slot = Gnss /\ Waiting(r)} =
    {pending_gnss_[i] : i \in DOMAIN pending_gnss_}

(* An image given up as too old is too far from every keyframe that comes   *)
(* after it, if the front end is not later than the margin                  *)
(* (Mapper.cpp:393-402).                                                    *)
DroppedMissNoNewKeyframe ==
  \A r \in dropped, k \in DOMAIN stamps :
    stamps[k] >= r.t => abs_time_diff(stamps[k], r.t) > image_max_time_offset

(* The comment on that bound, of all the keyframes: it "could only go to a  *)
(* keyframe farther than image_max_time_offset" (Mapper.cpp:393-395).       *)
DroppedMissNoKeyframe ==
  \A r \in dropped, k \in DOMAIN stamps :
    abs_time_diff(stamps[k], r.t) > image_max_time_offset

(* An image that has been swapped for its file stays that of the keyframe:  *)
(* no closer image comes after that (Mapper.cpp:405-445).                   *)
WrittenIsFinal ==
  [][\A e \in written : nearest'[e[1]][e[2]] = nearest[e[1]][e[2]]]_vars

(* When the outputs are saved every image in them has been written, except  *)
(* those that are kept as they are (Mapper.cpp:972-988).                    *)
OutputsHaveFiles ==
  phase = "saved" =>
    \A k \in DOMAIN stamps, s \in Cameras \ KeptCameras :
      nearest[k][s] # None => [slot |-> s, t |-> nearest[k][s]] \in files
=============================================================================
