------------------------------ MODULE MCReplay ------------------------------
(***************************************************************************)
(* Replay for TLC: bias sources that have an estimate from time 3 on.      *)
(***************************************************************************)
EXTENDS Replay, TLC

MCBias ==
  [t \in Times |->
     IF t < 3 THEN [from_source |-> FALSE] ELSE [from_source |-> TRUE, bias |-> t]]

FrontEndSymmetry == Permutations(FrontEnds)
=============================================================================
