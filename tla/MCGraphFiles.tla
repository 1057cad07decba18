---------------------------- MODULE MCGraphFiles ----------------------------
(***************************************************************************)
(* RunOutputs for TLC: inputs of up to three keyframes of two source       *)
(* frames, with and without loops, a datum and a guess; no two steps       *)
(* between their poses or guesses are the same.                            *)
(***************************************************************************)
EXTENDS RunOutputs

Input(frames, loops, datum) ==
  [keyframes |->
     [i \in DOMAIN frames |->
        [source_frame |-> frames[i],
         pose |-> LinePose(i * i, IF i = 2 THEN -1 ELSE 1),
         guess |-> LinePose(10 * i * i, IF i = 3 THEN -1 ELSE 1),
         gyro |-> i # 2, gnss |-> i # 1, gravity |-> i = 1]],
   loops |-> loops, datum |-> datum,
   T_enu_to_map_guess |-> IF datum = None THEN None ELSE "guess"]

(* Loops that agree with the odometry, that are off by a little, and false  *)
(* ones, in both directions.                                                *)
Loop(i, j, rel) == [from |-> i, to |-> j, rel |-> rel]

MCInputs ==
  {Input(frames, <<>>, datum) :
     frames \in {<<>>, <<"odom1">>, <<"odom1", "odom2">>, <<"odom1", "odom1", "odom2">>},
     datum \in {None, "datum"}} \cup
  {Input(<<"odom1", "odom2", "odom2">>,
         <<Loop(1, 3, LinePose(8, 1)), Loop(3, 1, LinePose(-9, 1)),
           Loop(2, 3, LinePose(5, -1)), Loop(3, 2, LinePose(-5, -1))>>, None)}
=============================================================================
