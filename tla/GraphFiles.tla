----------------------------- MODULE GraphFiles -----------------------------
(***************************************************************************)
(* The global graph input as files (GlobalGraphIO.cpp): mappers save it    *)
(* one after the other with the same prefix, and mola-mapper-reoptimize    *)
(* loads and chains it (mola-mapper-reoptimize.cpp).  RunOutputs has the   *)
(* programs that do.                                                       *)
(*                                                                         *)
(* A file is its lines, the last of which may be cut.  A saving process    *)
(* may throw, when a file cannot be opened, or be killed, which leaves the *)
(* file it writes in part on the disk.  Whole numbers read back as they    *)
(* were written; the source frames are words without blanks.               *)
(***************************************************************************)
EXTENDS FactorGraph

CONSTANTS
  Inputs,     \* the inputs that may be saved
  Words,      \* the source frames, datums and guesses that they may have
  MaxSaves    \* bound: how often an input is saved

ASSUME SavesAssumption == MaxSaves \in Nat

(* The ends of a loop are different (Mapper_LoopClosure.cpp:232).           *)
Keyframes ==
  [source_frame : Words, pose : PosesOnLine, guess : PosesOnLine,
   gyro : BOOLEAN, gnss : BOOLEAN, gravity : BOOLEAN]
Loops == {lc \in [from : Nat, to : Nat, rel : PosesOnLine] : lc.from # lc.to}
GraphInputs ==
  [keyframes : Seq(Keyframes), loops : Seq(Loops), datum : Words \cup {None},
   T_enu_to_map_guess : Words \cup {None}]

ASSUME InputsAssumption == Inputs \subseteq GraphInputs

VARIABLES
  files,      \* the files with the prefix
  in,         \* the input being saved, or the last one saved
  step,       \* what is to be written next, "done", or "stopped"
  saves

graphVars == <<files, in, step, saves>>

Absent == [is |-> "absent", lines |-> <<>>]
Whole(lines) == [is |-> "whole", lines |-> lines]
Cut(lines) == [is |-> "cut", lines |-> lines]

GraphInit ==
  /\ files = [f \in {"keyframes", "aux", "loops", "datum", "enu_to_map_guess"} |-> Absent]
  /\ in = [keyframes |-> <<>>, loops |-> <<>>, datum |-> None, T_enu_to_map_guess |-> None]
  /\ step = "stopped"
  /\ saves = 0

-----------------------------------------------------------------------------
(***************************************************************************)
(* save_global_graph_input().                                              *)
(***************************************************************************)
KeyframeLines ==
  [i \in Poses(in) |->
     LET k == in.keyframes[i]
     IN  [source_frame |-> k.source_frame, pose |-> k.pose, guess |-> k.guess,
          gyro |-> k.gyro]]

AuxLines ==
  [i \in Poses(in) |->
     [gnss |-> in.keyframes[i].gnss, gravity |-> in.keyframes[i].gravity]]

(* Fault: a file of an earlier input is left if this one has no such value. *)
OptionalFileKept(f, value) == IF value = None THEN files[f] ELSE Whole(<<value>>)

OptionalFile(f, value) == IF value = None THEN Absent ELSE Whole(<<value>>)

Saving == step \notin {"done", "stopped"}

Save ==
  /\ ~Saving
  /\ saves < MaxSaves
  /\ saves' = saves + 1
  /\ in' \in Inputs
  /\ step' = "keyframes"
  /\ UNCHANGED files

Write(f, content, next) ==
  /\ files' = [files EXCEPT ![f] = content]
  /\ step' = next
  /\ UNCHANGED <<in, saves>>

(* The stream of the keyframes is open until their observations are saved.  *)
OpenKeyframes == step = "keyframes" /\ Write("keyframes", Cut(<<>>), "aux")
SaveAux == step = "aux" /\ Write("aux", Whole(AuxLines), "flush")
CloseKeyframes == step = "flush" /\ Write("keyframes", Whole(KeyframeLines), "loops")
SaveLoops == step = "loops" /\ Write("loops", Whole(in.loops), "datum")
SaveDatum ==
  step = "datum" /\ Write("datum", OptionalFile("datum", in.datum), "enu_to_map_guess")
SaveGuess ==
  /\ step = "enu_to_map_guess"
  /\ Write("enu_to_map_guess", OptionalFile("enu_to_map_guess", in.T_enu_to_map_guess), "done")

(* An optional file without a value is removed, which does not fail.        *)
Opens ==
  /\ step = "datum" => in.datum # None
  /\ step = "enu_to_map_guess" => in.T_enu_to_map_guess # None

(* A file cannot be opened, or the observations not be written to the end;  *)
(* guarded() in save_outputs() goes on without this output.  The keyframes  *)
(* are written when their stream is closed.                                 *)
SaveThrows ==
  /\ Saving /\ step # "flush" /\ Opens
  /\ step' = "stopped"
  /\ \/ step # "aux" /\ UNCHANGED files
     \/ /\ step = "aux"
        /\ \E aux \in {files.aux, Cut(<<>>)} :
             files' = [files EXCEPT !.keyframes = Whole(KeyframeLines), !.aux = aux]
  /\ UNCHANGED <<in, saves>>

(* The lines of a file when the process that writes it is killed.           *)
Parts(lines) == {Cut(SubSeq(lines, 1, n)) : n \in 0..Len(lines)}

Killed ==
  /\ Saving
  /\ step' = "stopped"
  /\ \/ step \notin {"aux", "flush"} /\ UNCHANGED files
     \/ /\ step = "aux"
        /\ \E p \in Parts(KeyframeLines), aux \in {files.aux, Cut(<<>>)} :
             files' = [files EXCEPT !.keyframes = p, !.aux = aux]
     \/ /\ step = "flush"
        /\ \E p \in Parts(KeyframeLines) : files' = [files EXCEPT !.keyframes = p]
     \/ /\ step = "loops"
        /\ \E p \in Parts(in.loops) : files' = [files EXCEPT !.loops = p]
     \/ /\ step \in {"datum", "enu_to_map_guess"} /\ Opens
        /\ files' = [files EXCEPT ![step] = Cut(<<>>)]
  /\ UNCHANGED <<in, saves>>

SaveStep ==
  \/ OpenKeyframes \/ SaveAux \/ CloseKeyframes \/ SaveLoops \/ SaveDatum \/ SaveGuess

-----------------------------------------------------------------------------
(***************************************************************************)
(* load_global_graph_input(): the inputs that it may return, none if it    *)
(* has to throw.  The last line of a cut file may be there in part: its    *)
(* missing numbers are read as zeros, and a number may miss its last       *)
(* digits.                                                                 *)
(***************************************************************************)
CutKeyframes ==
  [source_frame :
     {"cut"} \cup {files.keyframes.lines[i].source_frame : i \in DOMAIN files.keyframes.lines},
   pose : {Origin}, guess : {Origin}, gyro : BOOLEAN]
CutLoops ==
  LET ends == 1 .. (Len(files.keyframes.lines) + 1)
  IN  [from : ends, to : ends, rel : {Origin}]

Readings(file, cutLines) ==
  {file.lines} \cup
    IF file.is = "cut" THEN {Append(file.lines, l) : l \in cutLines} ELSE {}

(* An optional file that was cut does not parse, or to another value.       *)
OptionalValue(file) ==
  CASE file.is = "absent" -> None [] file.is = "whole" -> file.lines[1] [] OTHER -> "cut"

(* A keyframe of its line and its observations.                             *)
KeyframeOf(line, aux) ==
  [source_frame |-> line.source_frame, pose |-> line.pose, guess |-> line.guess,
   gyro |-> line.gyro, gnss |-> aux.gnss, gravity |-> aux.gravity]

Loaded ==
  IF files.aux.is # "whole" \/ files.keyframes.is = "absent" THEN {}
  ELSE {[keyframes |-> [i \in DOMAIN ks |-> KeyframeOf(ks[i], files.aux.lines[i])],
         loops |-> ls, datum |-> OptionalValue(files.datum),
         T_enu_to_map_guess |-> OptionalValue(files.enu_to_map_guess)] :
          ks \in {k \in Readings(files.keyframes, CutKeyframes) :
                    Len(k) <= Len(files.aux.lines)},
          ls \in Readings(files.loops, CutLoops)}

-----------------------------------------------------------------------------
(***************************************************************************)
(* Properties.                                                             *)
(***************************************************************************)
(* Once an input has been saved it loads as it was, whatever earlier ones,  *)
(* also stopped half way, left with the same prefix                         *)
(* (GlobalGraphIO.cpp:76-134, 136-204).                                     *)
LoadsWhatWasSaved == step = "done" => Loaded = {in}

(* Whatever the files have, also after a save that was stopped, an input    *)
(* that is loaded makes a graph that can be solved: no factor has a         *)
(* variable that does not exist, and no pose is free                        *)
(* (GlobalGraph.cpp:80-155, 235-282).                                       *)
LoadedIsWellPosed ==
  \A loaded \in Loaded, degenerate \in BOOLEAN :
    loaded.keyframes # <<>> => IsWellPosed(loaded, Factors(loaded, degenerate))

(* The guesses that mola-mapper-reoptimize chains fit the odometry of the   *)
(* loaded keyframes and keep its weak edges as they were                    *)
(* (mola-mapper-reoptimize.cpp:81-98).                                      *)
ChainFitsOdometry ==
  \A loaded \in Loaded :
    loaded.keyframes # <<>> =>
      /\ OdometryFactors(Chained(loaded)) = OdometryFactors(loaded)
      /\ \A i \in Poses(loaded) \ {1} :
           \E f \in OdometryFactors(loaded) :
             f.of = {i - 1, i} /\ f.rel = GuessStep(Chained(loaded), i)
=============================================================================
