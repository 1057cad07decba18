----------------------------- MODULE MCGlobalMap -----------------------------
(***************************************************************************)
(* GlobalMap for TLC.  Poses are the integers modulo NumPoses under        *)
(* addition, the smallest group in which chaining to the wrong keyframe    *)
(* shows; with NumPoses = 1 the poses are left out of a run.  Front ends,   *)
(* their source frames and datums are only compared.                       *)
(***************************************************************************)
EXTENDS GlobalMap, TLC

CONSTANT NumPoses

MCPoses == 0..(NumPoses - 1)
MCCompose(p, q) == (p + q) % NumPoses
MCBetween(p, q) == (q + NumPoses - p) % NumPoses

MCSymmetry == Permutations(FrontEnds) \cup Permutations(SourceFrames) \cup Permutations(Datums)
=============================================================================
