-------------------------- MODULE LoopOdometryCheck --------------------------
(***************************************************************************)
(* Is a proposed loop consistent with the odometry between its ends        *)
(* (LoopOdometryCheck.cpp)?  The relative poses of both are compared,      *)
(* within limits that grow with the distance traveled.                     *)
(***************************************************************************)
EXTENDS LinePoses, FiniteSetsExt

CONSTANTS
  max_xyz, max_ang_deg,                     \* the floors of the limits
  max_xyz_per_100m, max_ang_deg_per_100m    \* the fractions, per 100 m

ASSUME LimitsAssumption ==
  {max_xyz, max_ang_deg, max_xyz_per_100m, max_ang_deg_per_100m} \subseteq Nat

FirstOf(loop) == Min({loop.from, loop.to})
LastOf(loop) == Max({loop.from, loop.to})

(* Along the odometry poses of the keyframes, not between its ends.         *)
DistanceTraveled(poses, loop) ==
  MapThenSumSet(LAMBDA i : Norm(Minus(poses[i], poses[i - 1])),
                (FirstOf(loop) + 1) .. LastOf(loop))

(* Fault: the relative pose as it comes, whichever end is the first.        *)
LoopFirstToLastAsGiven(loop) == loop.rel

LoopFirstToLast(loop) == IF loop.from < loop.to THEN loop.rel ELSE Opposite(loop.rel)

Error(poses, loop) ==
  Minus(Minus(poses[LastOf(loop)], poses[FirstOf(loop)]), LoopFirstToLast(loop))

Within(error, floor, fraction, distance) == 100 * error <= 100 * floor + fraction * distance

IsAccepted(poses, loop) ==
  LET error == Error(poses, loop)
      distance == DistanceTraveled(poses, loop)
  IN  /\ Within(Norm(error), max_xyz, max_xyz_per_100m, distance)
      /\ Within(AngleDeg(error), max_ang_deg, max_ang_deg_per_100m, distance)
=============================================================================
