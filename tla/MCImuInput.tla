----------------------------- MODULE MCImuInput -----------------------------
(***************************************************************************)
(* ImuInput for TLC.  No definition tells one label from another.          *)
(***************************************************************************)
EXTENDS ImuInput, TLC

CONSTANTS a, b

ImuSymmetry == Permutations({a, b})
=============================================================================
