----------------------------- MODULE KeyframeMap -----------------------------
(***************************************************************************)
(* What the shared keyframe map promises to those who use it, whatever     *)
(* threads work on it: it only grows, its estimate is that of a part of it *)
(* which only grows too, with the rest chained behind, and what is saved   *)
(* at the end is all of it, solved, unless a step of the end failed.       *)
(* GlobalMap implements it.                                                *)
(***************************************************************************)
EXTENDS Integers, Sequences

CONSTANTS
  Keyframe,         \* keyframes, with their stamps
  Poses,
  Chained(_, _, _), \* the pose of a keyframe behind another one at a pose
  Datums, None

VARIABLES
  keyframes,  \* Seq of Keyframe
  poses,      \* the estimate of each
  loops,      \* Seq of [from, to]
  readings,   \* how many GNSS and gravity readings are attached to keyframes
  solved,     \* how much of all that the estimate was solved from
  datum,      \* the geodetic datum
  open,       \* is input taken?
  failed,     \* has a step of the end failed?
  saved       \* are the outputs written?

vars == <<keyframes, poses, loops, readings, solved, datum, open, failed, saved>>

Whole == [n |-> Len(keyframes), loops |-> Len(loops),
          gnss |-> readings.gnss, gravity |-> readings.gravity]

Init ==
  /\ keyframes = <<>> /\ poses = <<>> /\ loops = <<>>
  /\ readings = [gnss |-> 0, gravity |-> 0]
  /\ solved = Whole
  /\ datum = None
  /\ open = TRUE /\ failed = FALSE /\ saved = FALSE

MoreReadings ==
  /\ readings'.gnss >= readings.gnss
  /\ readings'.gravity >= readings.gravity

(* A newer keyframe, chained to the last one; readings that waited for it.  *)
Insert ==
  /\ open
  /\ UNCHANGED <<loops, solved, datum, open, failed, saved>>
  /\ \E kf \in Keyframe :
       LET last == Len(keyframes) IN
       /\ last > 0 => kf.stamp > keyframes[last].stamp
       /\ keyframes' = Append(keyframes, kf)
       /\ poses' = Append(poses,
            IF last = 0 THEN kf.pose_in_source
            ELSE Chained(keyframes[last], poses[last], kf))
  /\ MoreReadings

Observe ==
  /\ open
  /\ UNCHANGED <<keyframes, poses, loops, solved, datum, open, failed, saved>>
  /\ MoreReadings

Ends(loop) == {loop.from, loop.to}

(* A loop between two keyframes that none has closed yet.                   *)
CloseLoop ==
  /\ ~saved
  /\ UNCHANGED <<keyframes, poses, readings, solved, datum, open, failed, saved>>
  /\ \E loop \in [from : DOMAIN keyframes, to : DOMAIN keyframes] :
       /\ loop.from # loop.to
       /\ \A i \in DOMAIN loops : Ends(loops[i]) # Ends(loop)
       /\ loops' = Append(loops, loop)

(* A solve of at least what the last one had: any poses for its keyframes,  *)
(* the others chained behind; a datum, if the map has none.                 *)
Revise ==
  /\ ~saved
  /\ UNCHANGED <<keyframes, loops, readings, open, failed, saved>>
  /\ solved' \in [n : solved.n .. Whole.n, loops : solved.loops .. Whole.loops,
                  gnss : solved.gnss .. Whole.gnss,
                  gravity : solved.gravity .. Whole.gravity]
  /\ solved'.n > 0
  /\ poses' \in [DOMAIN keyframes -> Poses]
  /\ \A i \in DOMAIN keyframes : i > solved'.n =>
       poses'[i] = Chained(keyframes[i - 1], poses'[i - 1], keyframes[i])
  /\ datum' \in IF datum = None THEN Datums \cup {None} ELSE {datum}

Close ==
  /\ open
  /\ UNCHANGED <<keyframes, poses, loops, readings, solved, datum, failed, saved>>
  /\ open' = FALSE

Fail ==
  /\ ~open /\ ~saved
  /\ UNCHANGED <<keyframes, poses, loops, readings, solved, datum, open, saved>>
  /\ failed' = TRUE

Save ==
  /\ ~open
  /\ UNCHANGED <<keyframes, poses, loops, readings, solved, datum, open, failed>>
  /\ failed \/ keyframes = <<>> \/ solved = Whole
  /\ saved' = TRUE

Next == Observe \/ Close \/ Fail \/ Save \/ Insert \/ CloseLoop \/ Revise

Spec == Init /\ [][Next]_vars
=============================================================================
