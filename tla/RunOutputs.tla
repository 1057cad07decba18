----------------------------- MODULE RunOutputs -----------------------------
(***************************************************************************)
(* The files at the end of a run: save_outputs() (Mapper.cpp) writes the   *)
(* graph input, as in GraphFiles, and then the other outputs, each in a    *)
(* step that may fail; mola-mapper-reoptimize (mola-mapper-reoptimize.cpp) *)
(* writes its results from the graph input that is there.  Runs with the   *)
(* same file names follow each other, and may be killed at any point.      *)
(*                                                                         *)
(* All the outputs are asked for.  What is in those of a run, all of its   *)
(* one copy of the map, is left out.                                       *)
(***************************************************************************)
EXTENDS GraphFiles, LoopOdometryCheck, SequencesExt

CONSTANTS
  MaxFailures           \* bound: the outputs that one run fails to write

ASSUME RunsAssumption == MaxFailures \in Nat

VARIABLES
  left,         \* the steps of save_outputs() to come after the graph input
  written,      \* the other files that this run has written
  failures,     \* the outputs that this run has failed to write
  killed,
  answers,      \* which of its two outputs the state estimator, if there is
                \* one, has something for
  reoptimize,   \* the step of mola-mapper-reoptimize, and what it has found
  georef        \* what its geo-reference is of: "this" trajectory of its, an
                \* "earlier" one, or "none"

outputVars == <<left, written, failures, killed, answers>>
reoptVars == <<reoptimize, georef>>
vars == <<graphVars, outputVars, reoptVars>>

OutputSteps ==
  <<"tum", "georef", "se_tum", "se_georef", "loop_closures", "simplemap">>
Waiting == [step |-> "none", georeferenced |-> FALSE]

Init ==
  /\ GraphInit
  /\ left = <<>> /\ written = {} /\ failures = {} /\ killed = FALSE
  /\ answers = {}
  /\ reoptimize = Waiting /\ georef = "none"

-----------------------------------------------------------------------------
(***************************************************************************)
(* save_outputs().                                                         *)
(***************************************************************************)
IsSaving == Saving \/ left # <<>>
IsReoptimizing == reoptimize.step \in {"tum", "georef"}

(* The state estimator is not asked without keyframes.                      *)
SaveOutputs ==
  /\ ~IsSaving /\ ~IsReoptimizing
  /\ Save
  /\ left' = OutputSteps
  /\ written' = {} /\ failures' = {} /\ killed' = FALSE
  /\ answers' \in SUBSET {"se_tum", "se_georef"}
  /\ Poses(in') = {} => answers' = {}
  /\ reoptimize' = Waiting
  /\ UNCHANGED georef

SaveGraphInput == SaveStep /\ UNCHANGED <<outputVars, reoptVars>>

IsNext(output) == ~Saving /\ left # <<>> /\ Head(left) = output

Writes(outputs) ==
  /\ written' = written \cup outputs
  /\ left' = Tail(left)
  /\ UNCHANGED <<graphVars, failures, killed, answers, reoptVars>>

SaveTrajectory == IsNext("tum") /\ Writes({"tum"})

(* The map's geo-reference is the guess of the graph input.                 *)
HasGeoref == in.T_enu_to_map_guess # None
SaveGeoref == IsNext("georef") /\ Writes(IF HasGeoref THEN {"georef"} ELSE {})

(* save_state_estimator_outputs(): two files, one step of guarded().        *)
SaveStateTrajectory == IsNext("se_tum") /\ Writes(answers \cap {"se_tum"})
SaveStateGeoref == IsNext("se_georef") /\ Writes(answers \cap {"se_georef"})

SaveLoopClosures == IsNext("loop_closures") /\ Writes({"loop_closures"})
SaveSimplemap == IsNext("simplemap") /\ Writes({"simplemap"})

(* Fault: an exception ends the outputs.                                    *)
AfterFailureUnguarded(steps) == <<>>

(* guarded(): a failing step is logged, and the others follow.              *)
AfterFailure(steps) == steps

MayFail == Cardinality(failures) < MaxFailures

GraphInputFails ==
  /\ MayFail
  /\ SaveThrows
  /\ failures' = failures \cup {"graph_input"}
  /\ left' = AfterFailure(left)
  /\ UNCHANGED <<written, killed, answers, reoptVars>>

(* What is left when the first of left has thrown: the trajectory of the    *)
(* state estimator ends the step that it shares with the geo-reference.     *)
AfterThrow == IF Head(left) = "se_tum" THEN Tail(Tail(left)) ELSE Tail(left)

(* A file cannot be opened, the simplemap not be written to the end, or the *)
(* state estimator throws.                                                  *)
OutputFails ==
  /\ MayFail
  /\ ~Saving /\ left # <<>>
  /\ Head(left) = "georef" => HasGeoref
  /\ Head(left) \in {"se_tum", "se_georef"} => Poses(in) # {}
  /\ failures' = failures \cup {Head(left)}
  /\ left' = AfterFailure(AfterThrow)
  /\ UNCHANGED <<graphVars, written, killed, answers, reoptVars>>

RunIsKilled ==
  /\ \/ Killed
     \/ ~Saving /\ left # <<>> /\ UNCHANGED graphVars
  /\ left' = <<>>
  /\ killed' = TRUE
  /\ UNCHANGED <<written, failures, answers, reoptVars>>

-----------------------------------------------------------------------------
(***************************************************************************)
(* mola-mapper-reoptimize, once after each run.                            *)
(***************************************************************************)
(* It loads the input and solves it; a geo-reference needs, besides, that   *)
(* the azimuth is observable.                                               *)
Reoptimize ==
  /\ ~IsSaving
  /\ reoptimize.step = "none"
  /\ \E observable \in BOOLEAN :
       reoptimize' \in
         {[step |-> "tum",
           georeferenced |-> observable /\ MayBeGeoreferenced(loaded, FALSE)] : loaded \in Loaded}
  /\ UNCHANGED <<graphVars, outputVars, georef>>

ReoptimizeTrajectory ==
  /\ reoptimize.step = "tum"
  /\ georef' = IF georef = "none" THEN "none" ELSE "earlier"
  /\ reoptimize' = [reoptimize EXCEPT !.step = "georef"]
  /\ UNCHANGED <<graphVars, outputVars>>

(* Fault: a geo-reference of an earlier run stays.                          *)
WithoutGeorefKept == georef

(* The file of an earlier run is removed.                                   *)
WithoutGeoref == "none"

ReoptimizeGeoref ==
  /\ reoptimize.step = "georef"
  /\ georef' = IF reoptimize.georeferenced THEN "this" ELSE WithoutGeoref
  /\ reoptimize' = [reoptimize EXCEPT !.step = "done"]
  /\ UNCHANGED <<graphVars, outputVars>>

(* A file cannot be opened, or the program is killed.                       *)
ReoptimizeStops ==
  /\ IsReoptimizing
  /\ reoptimize' = [reoptimize EXCEPT !.step = "stopped"]
  /\ UNCHANGED <<graphVars, outputVars, georef>>

Next ==
  \/ SaveOutputs \/ SaveGraphInput \/ GraphInputFails
  \/ SaveTrajectory \/ SaveGeoref \/ SaveStateTrajectory \/ SaveStateGeoref
  \/ SaveLoopClosures \/ SaveSimplemap \/ OutputFails \/ RunIsKilled
  \/ Reoptimize \/ ReoptimizeTrajectory \/ ReoptimizeGeoref \/ ReoptimizeStops

Spec == Init /\ [][Next]_vars

-----------------------------------------------------------------------------
(***************************************************************************)
(* Properties.                                                             *)
(***************************************************************************)
(* The outputs, besides the graph input, that the run has something for.    *)
Wanted ==
  {"tum", "loop_closures", "simplemap"} \cup {g \in {"georef"} : HasGeoref} \cup answers

HasEnded == ~IsSaving /\ ~killed /\ saves > 0

(* What a failing trajectory of the state estimator takes along.            *)
TakenAlong == {output \in {"se_georef"} : "se_tum" \in failures}

(* When a run has ended, every output it has something for is there and is  *)
(* its own, unless its own writing has failed (Mapper.cpp:84-92,            *)
(* 1008-1068): no failure takes another output along, with one exception.   *)
(* A failing trajectory of the state estimator takes its geo-reference      *)
(* along, as both are one step (Mapper.cpp:1037-1040, 1079-1102), although  *)
(* "an output that cannot be written does not prevent the others"           *)
(* (test-mapper-ingestion.cpp:444).                                         *)
FailuresAreContained ==
  HasEnded =>
    /\ "graph_input" \in failures \/ Loaded = {in}
    /\ Wanted \subseteq written \cup failures \cup TakenAlong

(* A geo-reference that is there when mola-mapper-reoptimize has ended is   *)
(* of the same result as its trajectory: one of an earlier result, with     *)
(* other files or a run that was killed between the two, does not stay      *)
(* (mola-mapper-reoptimize.cpp:102-114).                                    *)
ReoptimizedAgree == reoptimize.step = "done" => georef # "earlier"

(* What the odometry check says of a loop does not depend on which of its   *)
(* keyframes it starts from (LoopOdometryCheck.cpp:46-64).                  *)
VerdictIgnoresDirection ==
  LET poses == [i \in Poses(in) |-> in.keyframes[i].pose]
      Reversed(lc) == [from |-> lc.to, to |-> lc.from, rel |-> Opposite(lc.rel)]
  IN  \A lc \in ToSet(in.loops) :
        IsAccepted(poses, lc) <=> IsAccepted(poses, Reversed(lc))
=============================================================================
