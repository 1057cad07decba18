-------------------------- MODULE RunOutputsProofs --------------------------
(***************************************************************************)
(* The files of a run and what is loaded of them, for every sequence of    *)
(* saves, failures and kills, inputs of every length and every value of    *)
(* the other constants of RunOutputs.                                      *)
(***************************************************************************)
EXTENDS RunOutputs, Induction, SequenceTheorems

-----------------------------------------------------------------------------
(***************************************************************************)
(* Types.                                                                  *)
(***************************************************************************)
KeyframeLine ==
  [source_frame : Words \cup {"cut"}, pose : PosesOnLine, guess : PosesOnLine, gyro : BOOLEAN]
AuxLine == [gnss : BOOLEAN, gravity : BOOLEAN]
Values == Words \cup {None}
LoopLine == [from : Nat, to : Nat, rel : PosesOnLine]

FileOf(L) == [is : {"absent", "whole", "cut"}, lines : Seq(L)]
Files ==
  [keyframes : FileOf(KeyframeLine), aux : FileOf(AuxLine), loops : FileOf(LoopLine),
   datum : FileOf(Values), enu_to_map_guess : FileOf(Values)]

Steps == {"keyframes", "aux", "flush", "loops", "datum", "enu_to_map_guess", "done",
          "stopped"}

GraphTypeInv ==
  files \in Files /\ in \in GraphInputs /\ step \in Steps /\ saves \in Nat

OutputNames == {"tum", "georef", "se_tum", "se_georef", "loop_closures", "simplemap"}
Reoptimizations ==
  [step : {"none", "tum", "georef", "done", "stopped"}, georeferenced : BOOLEAN]

TypeInv ==
  /\ GraphTypeInv
  /\ left \in Seq(OutputNames) /\ killed \in BOOLEAN
  /\ answers \subseteq {"se_tum", "se_georef"}
  /\ reoptimize \in Reoptimizations

(***************************************************************************)
(* The inductive invariant: each file of the graph input that the steps so *)
(* far have written is whole and of this input, and each output is still   *)
(* to come, written, or has failed.                                        *)
(***************************************************************************)
SavedSoFar ==
  /\ step \in {"flush", "loops", "datum", "enu_to_map_guess", "done"} =>
       files.aux = Whole(AuxLines)
  /\ step \in {"loops", "datum", "enu_to_map_guess", "done"} =>
       files.keyframes = Whole(KeyframeLines)
  /\ step \in {"datum", "enu_to_map_guess", "done"} => files.loops = Whole(in.loops)
  /\ step \in {"enu_to_map_guess", "done"} => files.datum = OptionalFile("datum", in.datum)
  /\ step = "done" =>
       files.enu_to_map_guess = OptionalFile("enu_to_map_guess", in.T_enu_to_map_guess)

GraphInv == GraphTypeInv /\ SavedSoFar

(* The steps from the n-th on, and that those left are such.                *)
StepsFrom(n) == SubSeq(OutputSteps, n, 6)
InOrder == \E n \in 1..7 : left = StepsFrom(n)

AllAccounted ==
  saves > 0 /\ ~killed =>
    /\ Saving \/ step = "done" \/ "graph_input" \in failures
    /\ Wanted \subseteq ToSet(left) \cup written \cup failures \cup TakenAlong

IInv == TypeInv /\ SavedSoFar /\ InOrder /\ AllAccounted /\ ReoptimizedAgree

-----------------------------------------------------------------------------
(***************************************************************************)
(* save_global_graph_input().                                              *)
(***************************************************************************)
LEMMA InputFields ==
  ASSUME NEW i \in GraphInputs
  PROVE  /\ i.keyframes \in Seq(Keyframes) /\ i.loops \in Seq(Loops)
         /\ i.datum \in Values /\ i.T_enu_to_map_guess \in Values
         /\ i = [keyframes |-> i.keyframes, loops |-> i.loops, datum |-> i.datum,
                 T_enu_to_map_guess |-> i.T_enu_to_map_guess]
BY DEF GraphInputs, Values

(* The lines that are written of an input.                                  *)
LEMMA LinesTyped ==
  ASSUME GraphTypeInv
  PROVE  /\ KeyframeLines \in Seq(KeyframeLine) /\ AuxLines \in Seq(AuxLine)
         /\ in.loops \in Seq(LoopLine)
         /\ Len(KeyframeLines) = Len(in.keyframes) /\ Len(AuxLines) = Len(in.keyframes)
<1>1. in.keyframes \in Seq(Keyframes) /\ in.loops \in Seq(Loops)
  BY InputFields DEF GraphTypeInv
<1>2. DOMAIN in.keyframes = 1..Len(in.keyframes) /\ Len(in.keyframes) \in Nat
      /\ \A k \in DOMAIN in.keyframes : in.keyframes[k] \in Keyframes
  BY <1>1
<1>3. KeyframeLines \in [1..Len(in.keyframes) -> KeyframeLine]
  BY <1>2 DEF KeyframeLines, Poses, Keyframes, KeyframeLine
<1>4. AuxLines \in [1..Len(in.keyframes) -> AuxLine]
  BY <1>2 DEF AuxLines, Poses, Keyframes, AuxLine
<1>5. in.loops \in Seq(LoopLine)
  <2>1. Loops \subseteq LoopLine
    BY DEF Loops, LoopLine
  <2> QED BY <1>1, <2>1
<1>6. \A L, n \in Nat : \A f \in [1..n -> L] : f \in Seq(L) /\ Len(f) = n
  OBVIOUS
<1>7. KeyframeLines \in Seq(KeyframeLine) /\ Len(KeyframeLines) = Len(in.keyframes)
  BY <1>2, <1>3, <1>6
<1>8. AuxLines \in Seq(AuxLine) /\ Len(AuxLines) = Len(in.keyframes)
  BY <1>2, <1>4, <1>6
<1> QED BY <1>5, <1>7, <1>8

LEMMA FileTypes ==
  ASSUME NEW L
  PROVE  /\ Absent \in FileOf(L)
         /\ \A lines \in Seq(L) : Whole(lines) \in FileOf(L) /\ Cut(lines) \in FileOf(L)
         /\ \A lines \in Seq(L) : Parts(lines) \subseteq FileOf(L)
         /\ Cut(<<>>) \in FileOf(L)
<1>1. <<>> \in Seq(L)
  BY EmptySeq
<1>2. \A lines \in Seq(L) : Whole(lines) \in FileOf(L) /\ Cut(lines) \in FileOf(L)
  BY DEF Whole, Cut, FileOf
<1>3. ASSUME NEW lines \in Seq(L), NEW n \in 0..Len(lines) PROVE SubSeq(lines, 1, n) \in Seq(L)
  <2>1. \A k \in 1..n : lines[k] \in L
    OBVIOUS
  <2> QED BY <2>1, SubSeqProperties
<1> QED BY <1>1, <1>2, <1>3 DEF Absent, FileOf, Parts

LEMMA OneLine ==
  ASSUME NEW S, NEW v \in S
  PROVE  <<v>> \in Seq(S)
OBVIOUS

(* One step of the saving process.                                          *)
LEMMA SaveStepInv ==
  ASSUME GraphInv, SaveStep
  PROVE  GraphInv' /\ Saving /\ (Saving' \/ step' = "done") /\ in' = in /\ saves' = saves
<1>1. /\ files \in Files /\ in \in GraphInputs /\ saves \in Nat /\ SavedSoFar
      /\ in.datum \in Values /\ in.T_enu_to_map_guess \in Values
  BY InputFields DEF GraphInv, GraphTypeInv
<1>2. /\ KeyframeLines \in Seq(KeyframeLine) /\ AuxLines \in Seq(AuxLine)
      /\ in.loops \in Seq(LoopLine)
  BY LinesTyped DEF GraphInv
<1>3. \A f, value : value \in Values => OptionalFile(f, value) \in FileOf(Values)
  <2> SUFFICES ASSUME NEW f, NEW value \in Values PROVE OptionalFile(f, value) \in FileOf(Values)
    OBVIOUS
  <2>1. <<value>> \in Seq(Values)
    BY OneLine
  <2> QED BY <2>1, FileTypes DEF OptionalFile
<1>4. in' = in /\ saves' = saves
  BY DEF SaveStep, OpenKeyframes, SaveAux, CloseKeyframes, SaveLoops, SaveDatum, SaveGuess, Write
<1>5. KeyframeLines' = KeyframeLines /\ AuxLines' = AuxLines
  BY <1>4 DEF KeyframeLines, AuxLines, Poses
<1> HIDE DEF KeyframeLines, AuxLines, FileOf
<1>6. CASE OpenKeyframes
  <2>1. step = "keyframes" /\ step' = "aux" /\ files' = [files EXCEPT !["keyframes"] = Cut(<<>>)]
    BY <1>6 DEF OpenKeyframes, Write
  <2>2. Cut(<<>>) \in FileOf(KeyframeLine)
    BY FileTypes
  <2>3. files' \in Files
    BY <1>1, <2>1, <2>2 DEF Files
  <2> QED BY <1>1, <1>4, <2>1, <2>3 DEF GraphInv, GraphTypeInv, SavedSoFar, Saving, Steps
<1>7. CASE SaveAux
  <2>1. step = "aux" /\ step' = "flush" /\ files' = [files EXCEPT !["aux"] = Whole(AuxLines)]
    BY <1>7 DEF SaveAux, Write
  <2>2. Whole(AuxLines) \in FileOf(AuxLine)
    BY <1>2, FileTypes
  <2>3. files' \in Files /\ files'["aux"] = Whole(AuxLines)
    BY <1>1, <2>1, <2>2 DEF Files
  <2> QED BY <1>1, <1>4, <1>5, <2>1, <2>3 DEF GraphInv, GraphTypeInv, SavedSoFar, Saving, Steps
<1>8. CASE CloseKeyframes
  <2>1. step = "flush" /\ step' = "loops"
        /\ files' = [files EXCEPT !["keyframes"] = Whole(KeyframeLines)]
    BY <1>8 DEF CloseKeyframes, Write
  <2>2. Whole(KeyframeLines) \in FileOf(KeyframeLine)
    BY <1>2, FileTypes
  <2>3. files' \in Files /\ files'["keyframes"] = Whole(KeyframeLines) /\ files'["aux"] = files["aux"]
    BY <1>1, <2>1, <2>2 DEF Files
  <2> QED BY <1>1, <1>4, <1>5, <2>1, <2>3 DEF GraphInv, GraphTypeInv, SavedSoFar, Saving, Steps
<1>9. CASE SaveLoops
  <2>1. step = "loops" /\ step' = "datum" /\ files' = [files EXCEPT !["loops"] = Whole(in.loops)]
    BY <1>9 DEF SaveLoops, Write
  <2>2. Whole(in.loops) \in FileOf(LoopLine)
    BY <1>2, FileTypes
  <2>3. /\ files' \in Files /\ files'["loops"] = Whole(in.loops)
        /\ files'["keyframes"] = files["keyframes"] /\ files'["aux"] = files["aux"]
    BY <1>1, <2>1, <2>2 DEF Files
  <2> QED BY <1>1, <1>4, <1>5, <2>1, <2>3 DEF GraphInv, GraphTypeInv, SavedSoFar, Saving, Steps
<1>10. CASE SaveDatum
  <2> DEFINE content == OptionalFile("datum", in.datum)
  <2>1. step = "datum" /\ step' = "enu_to_map_guess" /\ files' = [files EXCEPT !["datum"] = content]
    BY <1>10 DEF SaveDatum, Write
  <2>2. content \in FileOf(Values) /\ content' = content
    BY <1>1, <1>3, <1>4 DEF OptionalFile
  <2> HIDE DEF content
  <2>3. /\ files' \in Files /\ files'["datum"] = content /\ files'["loops"] = files["loops"]
        /\ files'["keyframes"] = files["keyframes"] /\ files'["aux"] = files["aux"]
    BY <1>1, <2>1, <2>2 DEF Files
  <2>4. SavedSoFar'
    BY <1>1, <1>4, <1>5, <2>1, <2>2, <2>3 DEF SavedSoFar, content
  <2> QED BY <1>1, <1>4, <2>1, <2>3, <2>4 DEF GraphInv, GraphTypeInv, Saving, Steps
<1>11. CASE SaveGuess
  <2> DEFINE content == OptionalFile("enu_to_map_guess", in.T_enu_to_map_guess)
             datum == OptionalFile("datum", in.datum)
  <2>1. step = "enu_to_map_guess" /\ step' = "done"
        /\ files' = [files EXCEPT !["enu_to_map_guess"] = content]
    BY <1>11 DEF SaveGuess, Write
  <2>2. content \in FileOf(Values) /\ content' = content /\ datum' = datum
    BY <1>1, <1>3, <1>4 DEF OptionalFile
  <2>3. files["datum"] = datum
    BY <1>1, <2>1 DEF SavedSoFar
  <2> HIDE DEF content, datum
  <2>4. /\ files' \in Files /\ files'["enu_to_map_guess"] = content
        /\ files'["datum"] = files["datum"] /\ files'["loops"] = files["loops"]
        /\ files'["keyframes"] = files["keyframes"] /\ files'["aux"] = files["aux"]
    BY <1>1, <2>1, <2>2 DEF Files
  <2>5. SavedSoFar'
    BY <1>1, <1>4, <1>5, <2>1, <2>2, <2>3, <2>4 DEF SavedSoFar, content, datum
  <2> QED BY <1>1, <1>4, <2>1, <2>4, <2>5 DEF GraphInv, GraphTypeInv, Saving, Steps
<1> QED BY <1>4, <1>6, <1>7, <1>8, <1>9, <1>10, <1>11 DEF SaveStep

(* A save begins, and one that stops before its end.                        *)
LEMMA SaveInv ==
  ASSUME GraphInv, Save
  PROVE  GraphInv' /\ ~Saving /\ Saving' /\ saves' > 0
<1>1. in' \in GraphInputs
  BY InputsAssumption DEF Save
<1> QED BY <1>1 DEF GraphInv, GraphTypeInv, Save, SavedSoFar, Saving, Steps

LEMMA StopInv ==
  ASSUME GraphInv, SaveThrows \/ Killed
  PROVE  GraphInv' /\ Saving /\ ~Saving' /\ in' = in /\ saves' = saves
<1>1. /\ files \in Files /\ in \in GraphInputs /\ saves \in Nat /\ step \in Steps
      /\ step' = "stopped" /\ Saving /\ in' = in /\ saves' = saves
  <2>1. files \in Files /\ in \in GraphInputs /\ saves \in Nat /\ step \in Steps
    BY DEF GraphInv, GraphTypeInv
  <2>2. CASE SaveThrows
    BY <2>1, <2>2 DEF SaveThrows
  <2>3. CASE Killed
    BY <2>1, <2>3 DEF Killed
  <2> QED BY <2>2, <2>3
<1>2. /\ KeyframeLines \in Seq(KeyframeLine) /\ in.loops \in Seq(LoopLine)
  BY LinesTyped DEF GraphInv
<1>3. /\ Whole(KeyframeLines) \in FileOf(KeyframeLine)
      /\ Parts(KeyframeLines) \subseteq FileOf(KeyframeLine)
      /\ Parts(in.loops) \subseteq FileOf(LoopLine)
      /\ Cut(<<>>) \in FileOf(AuxLine) /\ Cut(<<>>) \in FileOf(Values)
  BY <1>2, FileTypes
<1> HIDE DEF FileOf
<1>4. \A p \in FileOf(KeyframeLine) : [files EXCEPT !.keyframes = p] \in Files
  BY <1>1 DEF Files
<1>5. \A p \in FileOf(KeyframeLine), a \in FileOf(AuxLine) :
        [files EXCEPT !.keyframes = p, !.aux = a] \in Files
  <2> TAKE p \in FileOf(KeyframeLine), a \in FileOf(AuxLine)
  <2>1. \A g \in Files : [g EXCEPT !.aux = a] \in Files
    BY DEF Files
  <2>2. [files EXCEPT !.keyframes = p, !.aux = a] = [[files EXCEPT !.keyframes = p] EXCEPT !.aux = a]
    OBVIOUS
  <2> QED BY <1>4, <2>1, <2>2
<1>6. \A p \in FileOf(LoopLine) : [files EXCEPT !.loops = p] \in Files
  BY <1>1 DEF Files
<1>7. \A f \in {"datum", "enu_to_map_guess"} : [files EXCEPT ![f] = Cut(<<>>)] \in Files
  BY <1>1, <1>3 DEF Files
<1>8. files.aux \in FileOf(AuxLine)
  BY <1>1 DEF Files
<1>10. step' = "stopped" /\ files' \in Files => GraphInv'
  BY <1>1 DEF GraphInv, GraphTypeInv, SavedSoFar, Steps
<1> HIDE DEF Files, FileOf, Parts, KeyframeLines
<1>9. files' \in Files
  <2>1. \A aux \in {files.aux, Cut(<<>>)} : aux \in FileOf(AuxLine)
    BY <1>3, <1>8
  <2>2. CASE SaveThrows
    <3>1. \/ files' = files
          \/ \E aux \in {files.aux, Cut(<<>>)} :
               files' = [files EXCEPT !.keyframes = Whole(KeyframeLines), !.aux = aux]
      BY <2>2 DEF SaveThrows
    <3> QED BY <1>1, <1>3, <1>5, <2>1, <3>1
  <2>3. CASE Killed
    <3>1. CASE files' = files
      BY <1>1, <3>1
    <3>2. CASE \E p \in Parts(KeyframeLines), aux \in {files.aux, Cut(<<>>)} :
                 files' = [files EXCEPT !.keyframes = p, !.aux = aux]
      BY <1>3, <1>5, <2>1, <3>2
    <3>3. CASE \E p \in Parts(KeyframeLines) : files' = [files EXCEPT !.keyframes = p]
      BY <1>3, <1>4, <3>3
    <3>4. CASE \E p \in Parts(in.loops) : files' = [files EXCEPT !.loops = p]
      BY <1>3, <1>6, <3>4
    <3>5. CASE step \in {"datum", "enu_to_map_guess"} /\ files' = [files EXCEPT ![step] = Cut(<<>>)]
      BY <1>7, <3>5
    <3> QED BY <2>3, <3>1, <3>2, <3>3, <3>4, <3>5 DEF Killed
  <2> QED BY <2>2, <2>3
<1> QED BY <1>1, <1>9, <1>10 DEF Saving

(* The steps follow each other.                                              *)
LEMMA OrderOfSteps ==
  /\ StepsFrom(7) = <<>> /\ StepsFrom(1) = OutputSteps
  /\ \A n \in 1..6 :
       /\ StepsFrom(n) # <<>> /\ Head(StepsFrom(n)) = OutputSteps[n]
       /\ Tail(StepsFrom(n)) = StepsFrom(n + 1)
  /\ \A n \in 1..7 : StepsFrom(n) \in Seq(OutputNames)
<1>1. OutputSteps \in Seq(OutputNames) /\ Len(OutputSteps) = 6
  BY DEF OutputSteps, OutputNames
<1>2. \A i \in 1..6 : OutputSteps[i] \in OutputNames
  BY <1>1, ElementOfSeq
<1> HIDE DEF OutputSteps, OutputNames
<1>3. StepsFrom(7) = <<>> /\ StepsFrom(1) = OutputSteps
  BY <1>1, SubSeqEmpty, SubSeqFull DEF StepsFrom
<1>4. ASSUME NEW n \in 1..7
      PROVE  /\ StepsFrom(n) \in Seq(OutputNames) /\ Len(StepsFrom(n)) = 7 - n
             /\ \A i \in 1..(7 - n) : StepsFrom(n)[i] = OutputSteps[n + i - 1]
  <2>1. \A i \in n..6 : OutputSteps[i] \in OutputNames
    BY <1>2
  <2> QED BY <2>1, SubSeqProperties DEF StepsFrom
<1>5. ASSUME NEW n \in 1..6
      PROVE  /\ StepsFrom(n) # <<>> /\ Head(StepsFrom(n)) = OutputSteps[n]
             /\ Tail(StepsFrom(n)) = StepsFrom(n + 1)
  <2> DEFINE q == StepsFrom(n)
             r == StepsFrom(n + 1)
  <2>1. n \in 1..7 /\ n + 1 \in 1..7
    OBVIOUS
  <2>2. /\ q \in Seq(OutputNames) /\ Len(q) = 7 - n
        /\ \A i \in 1..(7 - n) : q[i] = OutputSteps[n + i - 1]
    BY <1>4, <2>1
  <2>3. /\ r \in Seq(OutputNames) /\ Len(r) = 7 - (n + 1)
        /\ \A i \in 1..(7 - (n + 1)) : r[i] = OutputSteps[(n + 1) + i - 1]
    BY <1>4, <2>1
  <2> HIDE DEF q, r
  <2>4. q # <<>>
    BY <2>2
  <2>5. /\ Head(q) = q[1] /\ Tail(q) \in Seq(OutputNames) /\ Len(Tail(q)) = Len(q) - 1
        /\ \A i \in 1..Len(Tail(q)) : Tail(q)[i] = q[i + 1]
    BY <2>2, <2>4, HeadTailProperties
  <2>6. Head(q) = OutputSteps[n]
    BY <2>2, <2>5
  <2>7. \A i \in 1..Len(r) : Tail(q)[i] = r[i]
    BY <2>2, <2>3, <2>5
  <2>8. Tail(q) = r
    BY <2>2, <2>3, <2>5, <2>7, SeqEqual
  <2> QED BY <2>4, <2>6, <2>8 DEF q, r
<1> QED BY <1>3, <1>4, <1>5

LEMMA InitInv == Init => IInv
<1> SUFFICES ASSUME Init PROVE IInv
  OBVIOUS
<1>1. <<>> \in Seq(Keyframes) /\ <<>> \in Seq(Loops) /\ <<>> \in Seq(OutputNames)
  BY EmptySeq
<1>2. in \in GraphInputs
  BY <1>1 DEF Init, GraphInit, GraphInputs
<1>3. files \in Files
  <2>1. \A L : Absent \in FileOf(L)
    BY FileTypes
  <2>2. files = [keyframes |-> Absent, aux |-> Absent, loops |-> Absent, datum |-> Absent,
                 enu_to_map_guess |-> Absent]
    BY DEF Init, GraphInit
  <2> HIDE DEF FileOf, Absent
  <2> QED BY <2>1, <2>2 DEF Files
<1>4. /\ step = "stopped" /\ saves = 0 /\ left = <<>> /\ killed = FALSE /\ answers = {}
      /\ reoptimize = [step |-> "none", georeferenced |-> FALSE]
  BY DEF Init, GraphInit, Waiting
<1>5. TypeInv
  BY <1>1, <1>2, <1>3, <1>4 DEF TypeInv, GraphTypeInv, Steps, Reoptimizations
<1>6. SavedSoFar /\ InOrder /\ AllAccounted /\ ReoptimizedAgree
  BY <1>4, OrderOfSteps DEF SavedSoFar, InOrder, AllAccounted, ReoptimizedAgree
<1> QED BY <1>5, <1>6 DEF IInv

-----------------------------------------------------------------------------
(***************************************************************************)
(* save_outputs().                                                         *)
(***************************************************************************)
LEMMA HeadAndTail ==
  ASSUME NEW S, NEW q \in Seq(S), q # <<>>
  PROVE  Tail(q) \in Seq(S) /\ Head(q) \in S /\ ToSet(q) = {Head(q)} \cup ToSet(Tail(q))
<1>1. /\ Len(q) \in Nat \ {0} /\ DOMAIN q = 1..Len(q) /\ Tail(q) \in Seq(S) /\ Head(q) = q[1]
      /\ Len(Tail(q)) = Len(q) - 1 /\ DOMAIN Tail(q) = 1..(Len(q) - 1) /\ Head(q) \in S
      /\ \A i \in 1..(Len(q) - 1) : Tail(q)[i] = q[i + 1]
  BY HeadTailProperties, EmptySeq
<1>2. \A i \in DOMAIN q : q[i] \in {Head(q)} \cup ToSet(Tail(q))
  <2> TAKE i \in DOMAIN q
  <2>1. CASE i = 1
    BY <1>1, <2>1
  <2>2. CASE i # 1
    <3>1. i - 1 \in 1..(Len(q) - 1) /\ (i - 1) + 1 = i
      BY <1>1, <2>2
    <3>2. Tail(q)[i - 1] = q[i]
      BY <1>1, <3>1
    <3> QED BY <1>1, <3>1, <3>2 DEF ToSet
  <2> QED BY <2>1, <2>2
<1>3. \A i \in DOMAIN Tail(q) : Tail(q)[i] \in ToSet(q)
  <2> TAKE i \in DOMAIN Tail(q)
  <2>1. i + 1 \in DOMAIN q
    BY <1>1
  <2> QED BY <1>1, <2>1 DEF ToSet
<1>4. Head(q) \in ToSet(q)
  BY <1>1 DEF ToSet
<1>5. ToSet(q) = {q[i] : i \in DOMAIN q} /\ ToSet(Tail(q)) = {Tail(q)[i] : i \in DOMAIN Tail(q)}
  BY DEF ToSet
<1> HIDE DEF ToSet
<1> QED BY <1>1, <1>2, <1>3, <1>4, <1>5

(* What all steps but those that write the graph input leave of it.         *)
LEMMA GraphUnchanged ==
  ASSUME IInv, UNCHANGED graphVars
  PROVE  /\ GraphTypeInv' /\ SavedSoFar' /\ Saving' = Saving /\ step' = step /\ saves' = saves
         /\ in' = in /\ (answers' = answers => Wanted' = Wanted)
<1>1. files' = files /\ in' = in /\ step' = step /\ saves' = saves
  BY DEF graphVars
<1>2. KeyframeLines' = KeyframeLines /\ AuxLines' = AuxLines
  BY <1>1 DEF KeyframeLines, AuxLines, Poses
<1>3. GraphTypeInv' /\ Saving' = Saving /\ (answers' = answers => Wanted' = Wanted)
  BY <1>1 DEF IInv, TypeInv, GraphTypeInv, Saving, Wanted, HasGeoref
<1> HIDE DEF KeyframeLines, AuxLines
<1>4. SavedSoFar'
  BY <1>1, <1>2 DEF IInv, SavedSoFar, OptionalFile
<1> QED BY <1>1, <1>3, <1>4

LEMMA SaveOutputsInv ==
  ASSUME IInv, SaveOutputs
  PROVE  IInv'
<1>1. GraphInv' /\ Saving' /\ saves' > 0
  BY SaveInv DEF IInv, TypeInv, GraphInv, SaveOutputs
<1>2. /\ left' = OutputSteps /\ killed' = FALSE /\ reoptimize' = Waiting /\ georef' = georef
      /\ answers' \subseteq {"se_tum", "se_georef"}
  BY DEF SaveOutputs
<1>3. OutputSteps \in Seq(OutputNames) /\ InOrder'
  <2>1. left' = StepsFrom(1) /\ StepsFrom(1) \in Seq(OutputNames) /\ 1 \in 1..7
    BY <1>2, OrderOfSteps
  <2> QED BY <2>1, OrderOfSteps DEF InOrder, StepsFrom
<1>4. Wanted' \subseteq ToSet(OutputSteps)
  <2>1. /\ DOMAIN OutputSteps = 1..6 /\ OutputSteps[1] = "tum" /\ OutputSteps[2] = "georef"
        /\ OutputSteps[3] = "se_tum" /\ OutputSteps[4] = "se_georef"
        /\ OutputSteps[5] = "loop_closures" /\ OutputSteps[6] = "simplemap"
    BY DEF OutputSteps
  <2> HIDE DEF OutputSteps
  <2>2. OutputNames \subseteq ToSet(OutputSteps)
    BY <2>1 DEF ToSet, OutputNames
  <2> QED BY <1>2, <2>2 DEF Wanted, OutputNames
<1>5. TypeInv'
  BY <1>1, <1>2, <1>3 DEF TypeInv, GraphInv, Waiting, Reoptimizations
<1>6. AllAccounted'
  <2>1. ToSet(left)' = ToSet(OutputSteps)
    BY <1>2 DEF ToSet, OutputSteps
  <2> QED BY <1>1, <1>4, <2>1 DEF AllAccounted
<1> QED BY <1>1, <1>2, <1>3, <1>5, <1>6 DEF IInv, GraphInv, ReoptimizedAgree, Waiting

LEMMA SaveGraphInputInv ==
  ASSUME IInv, SaveGraphInput
  PROVE  IInv'
<1>1. GraphInv' /\ Saving /\ (Saving' \/ step' = "done") /\ in' = in /\ saves' = saves
  BY SaveStepInv DEF IInv, TypeInv, GraphInv, SaveGraphInput
<1>2. /\ left' = left /\ written' = written /\ failures' = failures /\ killed' = killed
      /\ answers' = answers /\ reoptimize' = reoptimize /\ georef' = georef
  BY DEF SaveGraphInput, outputVars, reoptVars
<1>3. AllAccounted' /\ InOrder'
  <2>1. ToSet(left)' = ToSet(left) /\ Wanted' = Wanted /\ TakenAlong' = TakenAlong
    BY <1>1, <1>2 DEF ToSet, Wanted, HasGeoref, TakenAlong
  <2> QED BY <1>1, <1>2, <2>1 DEF IInv, AllAccounted, InOrder, StepsFrom
<1> QED BY <1>1, <1>2, <1>3 DEF IInv, TypeInv, GraphInv, ReoptimizedAgree

(* It fails, and the outputs that follow are still to come.                 *)
LEMMA GraphInputFailsInv ==
  ASSUME IInv, GraphInputFails
  PROVE  IInv'
<1>1. GraphInv' /\ in' = in /\ saves' = saves
  BY StopInv DEF IInv, TypeInv, GraphInv, GraphInputFails
<1>2. /\ left' = left /\ written' = written /\ failures' = failures \cup {"graph_input"}
      /\ killed' = killed /\ answers' = answers
      /\ reoptimize' = reoptimize /\ georef' = georef
  BY DEF GraphInputFails, AfterFailure, reoptVars
<1>3. AllAccounted' /\ InOrder'
  <2>1. /\ ToSet(left)' = ToSet(left) /\ Wanted' = Wanted
        /\ TakenAlong \subseteq TakenAlong'
    BY <1>1, <1>2 DEF ToSet, Wanted, HasGeoref, TakenAlong
  <2> QED BY <1>1, <1>2, <2>1 DEF IInv, AllAccounted, InOrder, StepsFrom
<1> QED BY <1>1, <1>2, <1>3 DEF IInv, TypeInv, GraphInv, ReoptimizedAgree

(* One output after the graph input, written or failed, or two if the       *)
(* trajectory of the state estimator fails.                                 *)
LEMMA OneOutputInv ==
  ASSUME IInv, UNCHANGED <<graphVars, killed, answers, reoptVars>>,
         left # <<>>,
         \/ left' = Tail(left)
         \/ left' = Tail(Tail(left)) /\ Head(left) = "se_tum" /\ "se_tum" \in failures',
         written \subseteq written', failures \subseteq failures',
         Head(left) \in Wanted => Head(left) \in written' \cup failures'
  PROVE  IInv'
<1>1. /\ GraphTypeInv' /\ SavedSoFar' /\ Saving' = Saving /\ step' = step /\ saves' = saves
      /\ Wanted' = Wanted
  BY GraphUnchanged
<1>2. /\ killed' = killed /\ reoptimize' = reoptimize /\ georef' = georef
      /\ TakenAlong \subseteq TakenAlong'
  BY DEF reoptVars, TakenAlong
<1>3. PICK n \in 1..6 : left = StepsFrom(n)
  <2>1. PICK n \in 1..7 : left = StepsFrom(n)
    BY DEF IInv, InOrder
  <2>2. n # 7
    BY <2>1, OrderOfSteps, Zenon
  <2>3. n \in 1..6
    BY <2>2
  <2> QED BY <2>1, <2>3
<1>4. n + 1 \in 1..7 /\ Head(left) = OutputSteps[n] /\ Tail(left) = StepsFrom(n + 1)
  <2>1. n + 1 \in 1..7
    OBVIOUS
  <2>2. Head(left) = OutputSteps[n] /\ Tail(left) = StepsFrom(n + 1)
    BY <1>3, OrderOfSteps, Zenon
  <2> QED BY <2>1, <2>2
<1>5. ToSet(left) = {Head(left)} \cup ToSet(Tail(left))
  BY HeadAndTail DEF IInv, TypeInv
<1>6. \E m \in 1..7 :
        /\ left' = StepsFrom(m)
        /\ ToSet(left) \subseteq {Head(left)} \cup ToSet(StepsFrom(m)) \cup TakenAlong'
  <2>1. CASE left' = Tail(left)
    BY <1>4, <1>5, <2>1
  <2>2. CASE left' = Tail(Tail(left)) /\ Head(left) = "se_tum" /\ "se_tum" \in failures'
    <3>1. n = 3
      BY <1>4, <2>2 DEF OutputSteps
    <3>2. /\ StepsFrom(4) # <<>> /\ Head(StepsFrom(4)) = "se_georef"
          /\ Tail(StepsFrom(4)) = StepsFrom(5) /\ StepsFrom(4) \in Seq(OutputNames)
      BY OrderOfSteps DEF OutputSteps
    <3>3. ToSet(StepsFrom(4)) = {"se_georef"} \cup ToSet(StepsFrom(5))
      BY <3>2, HeadAndTail
    <3>4. "se_georef" \in TakenAlong'
      BY <2>2 DEF TakenAlong
    <3>5. left' = StepsFrom(5) /\ Tail(left) = StepsFrom(4)
      BY <1>4, <2>2, <3>1, <3>2
    <3>6. ToSet(left) \subseteq {Head(left)} \cup ToSet(StepsFrom(5)) \cup TakenAlong'
      BY <1>5, <3>3, <3>4, <3>5, Zenon
    <3> QED BY <3>5, <3>6
  <2> QED BY <2>1, <2>2
<1>7. PICK m \in 1..7 :
        /\ left' = StepsFrom(m)
        /\ ToSet(left) \subseteq {Head(left)} \cup ToSet(StepsFrom(m)) \cup TakenAlong'
  BY <1>6
<1>8. ToSet(left)' = ToSet(StepsFrom(m)) /\ left' \in Seq(OutputNames)
  BY <1>7, OrderOfSteps DEF ToSet
<1>9. AllAccounted'
  BY <1>1, <1>2, <1>7, <1>8 DEF IInv, AllAccounted
<1>10. InOrder'
  BY <1>7 DEF InOrder, StepsFrom
<1> QED BY <1>1, <1>2, <1>8, <1>9, <1>10 DEF IInv, TypeInv, ReoptimizedAgree

LEMMA OutputsInv ==
  ASSUME IInv, \/ SaveTrajectory \/ SaveGeoref \/ SaveStateTrajectory \/ SaveStateGeoref
               \/ SaveLoopClosures \/ SaveSimplemap \/ OutputFails
  PROVE  IInv'
<1>1. \A outputs, output :
        /\ IsNext(output) /\ Writes(outputs) /\ (output \in Wanted => output \in outputs)
        => IInv'
  <2> SUFFICES ASSUME NEW outputs, NEW output, IsNext(output), Writes(outputs),
                      output \in Wanted => output \in outputs
               PROVE  IInv'
    OBVIOUS
  <2>1. /\ UNCHANGED <<graphVars, killed, answers, reoptVars>>
        /\ left # <<>> /\ left' = Tail(left)
        /\ written \subseteq written' /\ failures \subseteq failures'
        /\ Head(left) \in Wanted => Head(left) \in written' \cup failures'
    BY DEF IsNext, Writes
  <2> QED BY <2>1, OneOutputInv
<1>2. CASE SaveTrajectory \/ SaveLoopClosures \/ SaveSimplemap
  BY <1>1, <1>2 DEF SaveTrajectory, SaveLoopClosures, SaveSimplemap
<1>3. CASE SaveGeoref
  BY <1>1, <1>3 DEF IInv, TypeInv, SaveGeoref, Wanted
<1>4. CASE SaveStateTrajectory \/ SaveStateGeoref
  BY <1>1, <1>4 DEF SaveStateTrajectory, SaveStateGeoref, Wanted
<1>5. CASE OutputFails
  <2>1. /\ UNCHANGED <<graphVars, killed, answers, reoptVars>> /\ left # <<>>
        /\ failures' = failures \cup {Head(left)} /\ written' = written
        /\ left' = IF Head(left) = "se_tum" THEN Tail(Tail(left)) ELSE Tail(left)
    BY <1>5 DEF OutputFails, AfterFailure, AfterThrow
  <2> QED BY <2>1, OneOutputInv
<1> QED BY <1>2, <1>3, <1>4, <1>5

LEMMA RunIsKilledInv ==
  ASSUME IInv, RunIsKilled
  PROVE  IInv'
<1>1. GraphTypeInv' /\ SavedSoFar'
  <2>1. CASE Killed
    BY <2>1, StopInv DEF IInv, TypeInv, GraphInv
  <2>2. CASE UNCHANGED graphVars
    BY <2>2, GraphUnchanged
  <2> QED BY <2>1, <2>2 DEF RunIsKilled
<1>2. /\ left' = <<>> /\ killed' = TRUE /\ answers' = answers
      /\ reoptimize' = reoptimize /\ georef' = georef
  BY DEF RunIsKilled, reoptVars
<1>3. left' \in Seq(OutputNames) /\ InOrder'
  BY <1>2, EmptySeq, OrderOfSteps DEF InOrder, StepsFrom
<1> QED BY <1>1, <1>2, <1>3 DEF IInv, TypeInv, AllAccounted, ReoptimizedAgree

-----------------------------------------------------------------------------
(* mola-mapper-reoptimize, and steps that change nothing.                   *)
LEMMA ReoptimizeInv ==
  ASSUME IInv, \/ Reoptimize \/ ReoptimizeTrajectory \/ ReoptimizeGeoref \/ ReoptimizeStops
               \/ UNCHANGED vars
  PROVE  IInv'
<1>1. UNCHANGED <<graphVars, outputVars>>
  BY DEF Reoptimize, ReoptimizeTrajectory, ReoptimizeGeoref, ReoptimizeStops, vars
<1>2. /\ left' = left /\ written' = written /\ failures' = failures /\ killed' = killed
      /\ answers' = answers
  BY <1>1 DEF outputVars
<1>3. /\ GraphTypeInv' /\ SavedSoFar' /\ Saving' = Saving /\ step' = step /\ saves' = saves
      /\ Wanted' = Wanted
  BY <1>1, <1>2, GraphUnchanged
<1>4. AllAccounted' /\ InOrder'
  <2>1. ToSet(left)' = ToSet(left) /\ TakenAlong' = TakenAlong
    BY <1>2 DEF ToSet, TakenAlong
  <2> QED BY <1>2, <1>3, <2>1 DEF IInv, AllAccounted, InOrder, StepsFrom
<1>5. /\ reoptimize' \in Reoptimizations
      /\ reoptimize'.step = "done" => georef' # "earlier"
  <2>1. /\ reoptimize \in Reoptimizations
        /\ reoptimize.step = "done" => georef # "earlier"
    BY DEF IInv, TypeInv, ReoptimizedAgree
  <2>2. CASE Reoptimize
    <3>1. PICK observable \in BOOLEAN, loaded \in Loaded :
            reoptimize' = [step |-> "tum",
                           georeferenced |-> observable /\ MayBeGeoreferenced(loaded, FALSE)]
      BY <2>2 DEF Reoptimize
    <3> DEFINE g == observable /\ MayBeGeoreferenced(loaded, FALSE)
    <3>2. g \in BOOLEAN
      BY Zenon
    <3> HIDE DEF g
    <3>3. reoptimize' = [step |-> "tum", georeferenced |-> g]
      BY <3>1 DEF g
    <3> QED BY <3>2, <3>3 DEF Reoptimizations
  <2>3. CASE ReoptimizeTrajectory \/ ReoptimizeStops
    BY <2>1, <2>3 DEF ReoptimizeTrajectory, ReoptimizeStops, Reoptimizations
  <2>4. CASE ReoptimizeGeoref
    BY <2>1, <2>4 DEF ReoptimizeGeoref, WithoutGeoref, Reoptimizations
  <2>5. CASE UNCHANGED vars
    BY <2>1, <2>5 DEF vars, reoptVars
  <2> QED BY <2>2, <2>3, <2>4, <2>5
<1> QED BY <1>2, <1>3, <1>4, <1>5 DEF IInv, TypeInv, ReoptimizedAgree

(* The invariant holds at every step of every behavior.                     *)
THEOREM Invariant == Spec => []IInv
<1>1. Init => IInv
  BY InitInv
<1>2. IInv /\ [Next]_vars => IInv'
  BY SaveOutputsInv, SaveGraphInputInv, GraphInputFailsInv, OutputsInv, RunIsKilledInv,
     ReoptimizeInv DEF Next
<1> QED BY <1>1, <1>2, PTL DEF Spec

-----------------------------------------------------------------------------
(***************************************************************************)
(* load_global_graph_input().                                              *)
(***************************************************************************)
LEMMA LoadedWhole ==
  ASSUME TypeInv, SavedSoFar, step = "done"
  PROVE  Loaded = {in}
<1>1. /\ files.aux = Whole(AuxLines) /\ files.keyframes = Whole(KeyframeLines)
      /\ files.loops = Whole(in.loops) /\ files.datum = OptionalFile("datum", in.datum)
      /\ files.enu_to_map_guess = OptionalFile("enu_to_map_guess", in.T_enu_to_map_guess)
  BY DEF SavedSoFar
<1>2. /\ in = [keyframes |-> in.keyframes, loops |-> in.loops, datum |-> in.datum,
               T_enu_to_map_guess |-> in.T_enu_to_map_guess]
      /\ in.keyframes \in Seq(Keyframes)
  BY InputFields DEF TypeInv, GraphTypeInv
<1>3. \A lines, cutLines : Readings(Whole(lines), cutLines) = {lines}
  BY DEF Readings, Whole
<1>4. \A f, value : OptionalValue(OptionalFile(f, value)) = value
  BY DEF OptionalValue, OptionalFile, Whole, Absent
<1>5. Len(KeyframeLines) <= Len(AuxLines) /\ Len(AuxLines) \in Nat
  BY LinesTyped DEF TypeInv
<1>6. [i \in DOMAIN KeyframeLines |-> KeyframeOf(KeyframeLines[i], AuxLines[i])] = in.keyframes
  <2>1. DOMAIN KeyframeLines = Poses(in) /\ DOMAIN in.keyframes = Poses(in)
    BY DEF KeyframeLines, Poses
  <2>2. \A i \in Poses(in) : KeyframeOf(KeyframeLines[i], AuxLines[i]) = in.keyframes[i]
    <3> TAKE i \in Poses(in)
    <3>1. in.keyframes[i] \in Keyframes
      BY <1>2 DEF Poses
    <3> QED BY <3>1 DEF KeyframeLines, AuxLines, KeyframeOf, Keyframes
  <2>3. in.keyframes = [i \in Poses(in) |-> in.keyframes[i]]
    BY <1>2 DEF Poses
  <2> HIDE DEF KeyframeLines, AuxLines
  <2> QED BY <2>1, <2>2, <2>3
<1> DEFINE K == {k \in Readings(files.keyframes, CutKeyframes) : Len(k) <= Len(files.aux.lines)}
           L == Readings(files.loops, CutLoops)
<1>7. K = {KeyframeLines} /\ L = {in.loops} /\ files.aux.lines = AuxLines
      /\ files.aux.is = "whole" /\ files.keyframes.is = "whole"
  BY <1>1, <1>3, <1>5 DEF Whole
<1>8. OptionalValue(files.datum) = in.datum
      /\ OptionalValue(files.enu_to_map_guess) = in.T_enu_to_map_guess
  BY <1>1, <1>4
<1>9. Loaded = {[keyframes |-> [i \in DOMAIN ks |-> KeyframeOf(ks[i], files.aux.lines[i])],
                 loops |-> ls, datum |-> OptionalValue(files.datum),
                 T_enu_to_map_guess |-> OptionalValue(files.enu_to_map_guess)] :
                  ks \in K, ls \in L}
  BY <1>7 DEF Loaded
<1> HIDE DEF K, L, KeyframeLines, AuxLines
<1> QED BY <1>2, <1>6, <1>7, <1>8, <1>9

(* Once an input has been saved it loads as it was (GlobalGraphIO.cpp:      *)
(* 76-134, 136-204).                                                        *)
THEOREM SavedIsLoaded == Spec => []LoadsWhatWasSaved
<1>1. IInv => LoadsWhatWasSaved
  BY LoadedWhole DEF IInv, LoadsWhatWasSaved
<1> QED BY <1>1, Invariant, PTL

(* When a run has ended, every output it has something for is there, unless *)
(* its own writing has failed, or, for the geo-reference of the state       *)
(* estimator, that of its trajectory (Mapper.cpp:84-92, 1008-1068).         *)
THEOREM NoFailureSpreads == Spec => []FailuresAreContained
<1>1. IInv => FailuresAreContained
  <2> SUFFICES ASSUME IInv, HasEnded
               PROVE  /\ "graph_input" \in failures \/ Loaded = {in}
                      /\ Wanted \subseteq written \cup failures \cup TakenAlong
    BY DEF FailuresAreContained
  <2>1. ~Saving /\ ToSet(left) = {} /\ ~killed /\ saves > 0
    BY DEF HasEnded, IsSaving, ToSet
  <2>2. step = "done" \/ "graph_input" \in failures
    BY <2>1 DEF IInv, AllAccounted
  <2>3. Wanted \subseteq written \cup failures \cup TakenAlong
    BY <2>1 DEF IInv, AllAccounted
  <2> QED BY <2>2, <2>3, LoadedWhole DEF IInv
<1> QED BY <1>1, Invariant, PTL

(* A geo-reference that is there when mola-mapper-reoptimize has ended is   *)
(* of the same result as its trajectory (mola-mapper-reoptimize.cpp:102-114).*)
THEOREM GeorefIsOfTrajectory == Spec => []ReoptimizedAgree
<1>1. IInv => ReoptimizedAgree
  BY DEF IInv
<1> QED BY <1>1, Invariant, PTL

-----------------------------------------------------------------------------
(***************************************************************************)
(* Poses, and the odometry check.                                          *)
(***************************************************************************)
LEMMA PoseAlgebra ==
  ASSUME NEW p \in PosesOnLine, NEW q \in PosesOnLine
  PROVE  /\ Plus(p, q) \in PosesOnLine /\ Minus(p, q) \in PosesOnLine
         /\ Minus(Plus(p, q), p) = q
         /\ Opposite(p) \in PosesOnLine /\ Opposite(Opposite(p)) = p
<1>1. /\ p.x \in Int /\ q.x \in Int /\ p.dir \in {1, -1} /\ q.dir \in {1, -1}
      /\ q = [x |-> q.x, dir |-> q.dir] /\ p = [x |-> p.x, dir |-> p.dir]
  BY DEF PosesOnLine
<1>2. \A x \in Int : 1 * x = x /\ -1 * x = -x /\ (-1) * (-x) = x
  OBVIOUS
<1>3. CASE p.dir = 1
  BY <1>1, <1>3 DEF Plus, Minus, Opposite, Origin, LinePose, PosesOnLine
<1>4. CASE p.dir = -1
  BY <1>1, <1>4 DEF Plus, Minus, Opposite, Origin, LinePose, PosesOnLine
<1> QED BY <1>1, <1>3, <1>4

(* What the odometry check says of a loop does not depend on which of its   *)
(* keyframes it starts from (LoopOdometryCheck.cpp:46-64).                  *)
THEOREM DirectionDoesNotMatter == Spec => []VerdictIgnoresDirection
<1>1. IInv => VerdictIgnoresDirection
  <2> DEFINE Reversed(lc) == [from |-> lc.to, to |-> lc.from, rel |-> Opposite(lc.rel)]
  <2> SUFFICES ASSUME IInv, NEW lc \in ToSet(in.loops), NEW poses
               PROVE  IsAccepted(poses, lc) <=> IsAccepted(poses, Reversed(lc))
    BY DEF VerdictIgnoresDirection
  <2> DEFINE rv == Reversed(lc)
  <2>1. in.loops \in Seq(Loops)
    BY InputFields DEF IInv, TypeInv, GraphTypeInv
  <2>2. lc \in Loops
    BY <2>1 DEF ToSet
  <2>3. /\ lc.from \in Nat /\ lc.to \in Nat /\ lc.from # lc.to /\ lc.rel \in PosesOnLine
        /\ rv.from = lc.to /\ rv.to = lc.from /\ rv.rel = Opposite(lc.rel)
    BY <2>2 DEF Loops
  <2> HIDE DEF rv
  <2>4. {rv.from, rv.to} = {lc.from, lc.to}
    BY <2>3
  <2>5. FirstOf(rv) = FirstOf(lc) /\ LastOf(rv) = LastOf(lc)
    BY <2>4 DEF FirstOf, LastOf
  <2>6. LoopFirstToLast(rv) = LoopFirstToLast(lc)
    BY <2>3, PoseAlgebra DEF LoopFirstToLast
  <2>7. DistanceTraveled(poses, rv) = DistanceTraveled(poses, lc)
    BY <2>5 DEF DistanceTraveled
  <2>8. Error(poses, rv) = Error(poses, lc)
    BY <2>5, <2>6 DEF Error
  <2>9. IsAccepted(poses, lc) <=> IsAccepted(poses, rv)
    BY <2>7, <2>8 DEF IsAccepted
  <2> QED BY <2>9 DEF rv
<1> QED BY <1>1, Invariant, PTL

-----------------------------------------------------------------------------
(***************************************************************************)
(* Whatever is loaded, also of files that were cut.                        *)
(***************************************************************************)
LoadedKeyframe ==
  [source_frame : Words \cup {"cut"}, pose : PosesOnLine, guess : PosesOnLine,
   gyro : BOOLEAN, gnss : BOOLEAN, gravity : BOOLEAN]

LEMMA ReadingsTyped ==
  ASSUME NEW L, NEW file \in FileOf(L), NEW cutLines \in SUBSET L
  PROVE  Readings(file, cutLines) \subseteq Seq(L)
<1>1. file.lines \in Seq(L)
  BY DEF FileOf
<1>2. \A l \in cutLines : Append(file.lines, l) \in Seq(L)
  BY <1>1, AppendProperties
<1> QED BY <1>1, <1>2 DEF Readings

LEMMA LoadedTypes ==
  ASSUME TypeInv, NEW loaded \in Loaded
  PROVE  /\ loaded.keyframes \in Seq(LoadedKeyframe)
         /\ loaded = [keyframes |-> loaded.keyframes, loops |-> loaded.loops,
                      datum |-> loaded.datum,
                      T_enu_to_map_guess |-> loaded.T_enu_to_map_guess]
<1> DEFINE K == {k \in Readings(files.keyframes, CutKeyframes) :
                   Len(k) <= Len(files.aux.lines)}
<1>1. files.keyframes \in FileOf(KeyframeLine) /\ files.aux \in FileOf(AuxLine)
  BY DEF TypeInv, GraphTypeInv, Files
<1>2. CutKeyframes \subseteq KeyframeLine
  <2>1. files.keyframes.lines \in Seq(KeyframeLine)
    BY <1>1 DEF FileOf
  <2>2. \A i \in DOMAIN files.keyframes.lines :
          files.keyframes.lines[i].source_frame \in Words \cup {"cut"}
    <3> DEFINE lines == files.keyframes.lines
    <3> SUFFICES ASSUME NEW i \in DOMAIN lines
                 PROVE  lines[i].source_frame \in Words \cup {"cut"}
      OBVIOUS
    <3> HIDE DEF lines
    <3>1. lines[i] \in KeyframeLine
      BY <2>1 DEF lines
    <3> QED BY <3>1 DEF KeyframeLine
  <2>3. Origin \in PosesOnLine
    BY DEF Origin, LinePose, PosesOnLine
  <2> QED BY <2>2, <2>3 DEF CutKeyframes, KeyframeLine
<1>3. PICK ks \in K, ls \in Readings(files.loops, CutLoops) :
        loaded = [keyframes |-> [i \in DOMAIN ks |-> KeyframeOf(ks[i], files.aux.lines[i])],
                  loops |-> ls, datum |-> OptionalValue(files.datum),
                  T_enu_to_map_guess |-> OptionalValue(files.enu_to_map_guess)]
  BY DEF Loaded
<1>4. ks \in Seq(KeyframeLine) /\ Len(ks) <= Len(files.aux.lines)
  BY <1>1, <1>2, ReadingsTyped
<1>5. files.aux.lines \in Seq(AuxLine)
  BY <1>1 DEF FileOf
<1>6. [i \in DOMAIN ks |-> KeyframeOf(ks[i], files.aux.lines[i])] \in Seq(LoadedKeyframe)
  <2>1. \A i \in DOMAIN ks : KeyframeOf(ks[i], files.aux.lines[i]) \in LoadedKeyframe
    <3> TAKE i \in DOMAIN ks
    <3>1. ks[i] \in KeyframeLine /\ files.aux.lines[i] \in AuxLine
      BY <1>4, <1>5
    <3> QED BY <3>1 DEF KeyframeOf, LoadedKeyframe, KeyframeLine, AuxLine
  <2>2. DOMAIN ks = 1..Len(ks) /\ Len(ks) \in Nat
    BY <1>4
  <2> HIDE DEF LoadedKeyframe, K
  <2> QED BY <2>1, <2>2
<1> HIDE DEF LoadedKeyframe, K
<1> QED BY <1>3, <1>6

(* The factors between keyframes that follow each other tie all of them to  *)
(* the first one.                                                           *)
LEMMA ChainIsReached ==
  ASSUME NEW g, NEW A, g.keyframes \in Seq(A), g.keyframes # <<>>, NEW ties,
         \A i \in 2..Len(g.keyframes) : {i - 1, i} \in ties
  PROVE  1..Len(g.keyframes) \subseteq Reached(g, ties)
<1> DEFINE n == Len(g.keyframes)
           S == SUBSET ({1} \cup UNION ties)
           Next_(s) == s \cup UNION {e \in ties : e \cap s # {}}
           IsReach(f) == f = [k \in 0..n |-> IF k = 0 THEN {1} ELSE Next_(f[k - 1])]
           reach == CHOOSE f : IsReach(f)
           F == [k \in 1..n |-> [s \in S |-> Next_(s)]]
<1>1. n \in Nat /\ n # 0
  BY EmptySeq
<1>2. Reached(g, ties) = reach[n]
  BY DEF Reached
<1> HIDE DEF n
<1>3. IsReach(reach)
  <2>1. \A s \in S : Next_(s) \in S
    OBVIOUS
  <2>2. F \in [1..n -> [S -> S]] /\ {1} \in S
    BY <2>1
  <2> HIDE DEF S, Next_
  <2>3. \A k \in 1..n, s \in S : F[k][s] = Next_(s)
    OBVIOUS
  <2> HIDE DEF F, IsReach
  <2>4. 0 \in Nat /\ 0 <= n /\ (0 + 1)..n = 1..n
    BY <1>1
  <2>5. PICK f \in [0..n -> S] : IsRecursion(f, 0, n, {1}, F)
    BY <1>1, <2>2, <2>4, RecursionExists
  <2>6. f = [k \in 0..n |-> IF k = 0 THEN {1} ELSE F[k][f[k - 1]]]
    BY <2>5 DEF IsRecursion
  <2>7. \A k \in 0..n : k # 0 => F[k][f[k - 1]] = Next_(f[k - 1])
    <3> TAKE k \in 0..n
    <3> HAVE k # 0
    <3>1. k \in 1..n /\ k - 1 \in 0..n
      BY <1>1
    <3> QED BY <2>3, <3>1
  <2>8. IsReach(f)
    BY <2>6, <2>7 DEF IsReach
  <2> QED BY <2>8 DEF IsReach
<1> HIDE DEF reach
<1> DEFINE U == {k \in 0..(n - 1) : 1..(k + 1) \subseteq reach[k]}
<1>4. 0 \in U
  BY <1>1, <1>3
<1>5. ASSUME NEW k \in 0..((n - 1) - 1), k \in U PROVE k + 1 \in U
  <2>1. k + 1 \in 0..n /\ (k + 1) - 1 = k /\ k + 1 # 0 /\ k + 1 \in 1..(k + 1)
        /\ k + 2 \in 2..n /\ (k + 2) - 1 = k + 1 /\ k + 1 \in 0..(n - 1)
    BY <1>1
  <2>2. reach[k + 1] = Next_(reach[k])
    <3> HIDE DEF Next_
    <3> QED BY <1>3, <2>1
  <2>3. {k + 1, k + 2} \in ties
    BY <2>1 DEF n
  <2>4. k + 1 \in reach[k]
    BY <1>5, <2>1
  <2>5. k + 2 \in reach[k + 1] /\ reach[k] \subseteq reach[k + 1]
    BY <2>2, <2>3, <2>4
  <2>6. 1..((k + 1) + 1) = (1..(k + 1)) \cup {k + 2}
    BY <2>1
  <2> QED BY <1>5, <2>1, <2>5, <2>6
<1>6. n - 1 \in U
  <2> HIDE DEF U
  <2>1. n - 1 \in Nat
    BY <1>1
  <2> QED BY <1>4, <1>5, <2>1, UpTo
<1>7. reach[n] = Next_(reach[n - 1])
  <2> HIDE DEF Next_
  <2>1. n \in 0..n /\ n # 0
    BY <1>1
  <2> QED BY <1>3, <2>1
<1>8. (n - 1) + 1 = n
  BY <1>1
<1> QED BY <1>2, <1>6, <1>7, <1>8 DEF n

(* An input that is loaded makes a graph that can be solved                 *)
(* (GlobalGraph.cpp:80-155, 235-282).                                       *)
THEOREM LoadedCanBeSolved == Spec => []LoadedIsWellPosed
<1>1. IInv => LoadedIsWellPosed
  <2> SUFFICES ASSUME IInv, NEW g \in Loaded, NEW degenerate \in BOOLEAN,
                      g.keyframes # <<>>
               PROVE  IsWellPosed(g, Factors(g, degenerate))
    BY DEF LoadedIsWellPosed
  <2> DEFINE n == Len(g.keyframes)
             fs == Factors(g, degenerate)
  <2>1. g.keyframes \in Seq(LoadedKeyframe)
    BY LoadedTypes DEF IInv
  <2>2. Poses(g) = 1..n /\ n \in Nat /\ n # 0
    BY <2>1, EmptySeq DEF Poses
  <2> HIDE DEF n
  <2>3. Variables(g) = (1..n) \cup {0}
    BY <2>2 DEF Variables, T
  <2>4. ASSUME NEW f \in fs PROVE f.of \subseteq Variables(g)
    <3>1. CASE f \in {Unary("prior", 1), Unary("prior", T)}
      BY <2>2, <2>3, <3>1 DEF Unary, T
    <3>2. CASE f \in OdometryFactors(g)
      <4>1. PICK i \in Poses(g) \ {1} : f.of = {i - 1, i}
        BY <3>2 DEF OdometryFactors, Between
      <4> QED BY <2>2, <2>3, <4>1
    <3>3. CASE f \in LoopFactors(g)
      <4>1. PICK lc \in {g.loops[m] : m \in {m \in DOMAIN g.loops : IsUsed(g, g.loops[m])}} :
              f = Between("loop", lc.from, lc.to, lc.rel)
        BY <3>3 DEF LoopFactors
      <4>2. f.of = {lc.from, lc.to} /\ {lc.from, lc.to} \subseteq Poses(g)
        BY <4>1 DEF Between, IsUsed
      <4> QED BY <2>2, <2>3, <4>2
    <3>4. CASE f \in GyroFactors(g)
      <4>1. PICK i \in Poses(g) \ {1} : f.of = {i - 1, i}
        BY <3>4 DEF GyroFactors, Between
      <4> QED BY <2>2, <2>3, <4>1
    <3>5. CASE f \in GnssFactors(g, degenerate) \cup GravityFactors(g)
      <4>1. PICK i \in Poses(g) : f.of = {T, i}
        BY <3>5 DEF GnssFactors, GravityFactors
      <4> QED BY <2>2, <2>3, <4>1 DEF T
    <3> QED BY <3>1, <3>2, <3>3, <3>4, <3>5 DEF Factors
  <2>5. \A i \in 2..n : {i - 1, i} \in Ties(fs)
    <3> TAKE i \in 2..n
    <3> DEFINE f == IF SameSource(g, i)
                    THEN Between("odometry", i - 1, i, SourceStep(g, i))
                    ELSE Between("weak", i - 1, i, GuessStep(g, i))
    <3>1. i \in Poses(g) \ {1}
      BY <2>2
    <3>2. f \in OdometryFactors(g)
      BY <3>1 DEF OdometryFactors
    <3>3. f.of = {i - 1, i} /\ f.kind \in {"odometry", "weak"}
      BY DEF Between
    <3> HIDE DEF f
    <3>4. f \in {x \in fs : x.kind \in {"odometry", "weak", "loop"}}
      BY <3>2, <3>3 DEF Factors
    <3> HIDE DEF fs
    <3> QED BY <3>3, <3>4 DEF Ties
  <2> HIDE DEF fs
  <2>6. Poses(g) \subseteq Reached(g, Ties(fs))
    BY <2>1, <2>2, <2>5, ChainIsReached DEF n
  <2> QED BY <2>4, <2>6 DEF IsWellPosed, fs
<1> QED BY <1>1, Invariant, PTL

-----------------------------------------------------------------------------
(***************************************************************************)
(* The guesses that are chained.                                           *)
(***************************************************************************)
(* They are of the recursion of Chained, and each follows the one before by *)
(* the step of its keyframe.                                                *)
LEMMA ChainedGuesses ==
  ASSUME NEW g, g.keyframes \in Seq(LoadedKeyframe), g.keyframes # <<>>,
         g = [keyframes |-> g.keyframes, loops |-> g.loops, datum |-> g.datum,
              T_enu_to_map_guess |-> g.T_enu_to_map_guess]
  PROVE  \E guess \in [1..Len(g.keyframes) -> PosesOnLine] :
           /\ Chained(g).keyframes =
                [i \in 1..Len(g.keyframes) |-> [g.keyframes[i] EXCEPT !.guess = guess[i]]]
           /\ \A i \in 2..Len(g.keyframes) :
                guess[i] = Plus(guess[i - 1], ChainStep(g, i, guess[i - 1]))
<1> DEFINE n == Len(g.keyframes)
           first == g.keyframes[1].guess
           Next_(i, p) == Plus(p, ChainStep(g, i, p))
           IsChain(f) ==
             f = [i \in Poses(g) |-> IF i = 1 THEN first ELSE Next_(i, f[i - 1])]
           guess == CHOOSE f : IsChain(f)
           F == [i \in 2..n |-> [p \in PosesOnLine |-> Next_(i, p)]]
<1>1. n \in Nat /\ 1 <= n /\ Poses(g) = 1..n /\ 1 \in 1..n
  BY EmptySeq DEF Poses
<1>2. \A i \in 1..n : g.keyframes[i] \in LoadedKeyframe
  OBVIOUS
<1>3. \A i \in 1..n : g.keyframes[i].pose \in PosesOnLine /\ g.keyframes[i].guess \in PosesOnLine
  BY <1>2 DEF LoadedKeyframe
<1>4. Chained(g).keyframes = [i \in Poses(g) |-> [g.keyframes[i] EXCEPT !.guess = guess[i]]]
  BY DEF Chained
<1>5. \A i \in 2..n, p \in PosesOnLine : Next_(i, p) \in PosesOnLine
  <2> TAKE i \in 2..n, p \in PosesOnLine
  <2>1. i \in 1..n /\ i - 1 \in 1..n
    BY <1>1
  <2>2. SourceStep(g, i) \in PosesOnLine /\ GuessStep(g, i) \in PosesOnLine
    <3> HIDE DEF n
    <3> QED BY <1>3, <2>1, PoseAlgebra DEF SourceStep, GuessStep
  <2> QED BY <2>2, PoseAlgebra DEF ChainStep
<1> HIDE DEF n
<1>6. first \in PosesOnLine
  BY <1>1, <1>3
<1> HIDE DEF Next_, first
<1>7. F \in [2..n -> [PosesOnLine -> PosesOnLine]]
  BY <1>5
<1>8. \A i \in 2..n, p \in PosesOnLine : F[i][p] = Next_(i, p)
  OBVIOUS
<1> HIDE DEF F
<1>9. 1 \in Nat /\ (1 + 1)..n = 2..n
  OBVIOUS
<1>10. PICK f \in [1..n -> PosesOnLine] : IsRecursion(f, 1, n, first, F)
  BY <1>1, <1>6, <1>7, <1>9, RecursionExists
<1>11. f = [i \in 1..n |-> IF i = 1 THEN first ELSE F[i][f[i - 1]]]
  BY <1>10 DEF IsRecursion
<1>12. \A i \in 1..n : i # 1 => F[i][f[i - 1]] = Next_(i, f[i - 1])
  <2> TAKE i \in 1..n
  <2> HAVE i # 1
  <2>1. i \in 2..n /\ i - 1 \in 1..n
    BY <1>1
  <2> QED BY <1>8, <1>10, <2>1
<1>13. IsChain(f)
  BY <1>1, <1>11, <1>12
<1> HIDE DEF IsChain
<1>14. IsChain(guess)
  BY <1>13
<1> HIDE DEF guess
<1> USE DEF IsChain
<1>15. \A i \in 2..n : i \in 1..n /\ i # 1 /\ i - 1 \in 1..n
  BY <1>1
<1>16. guess[1] \in PosesOnLine
  BY <1>1, <1>6, <1>14
<1>17. \A i \in 2..n : guess[i] = Next_(i, guess[i - 1])
  BY <1>1, <1>14, <1>15
<1> DEFINE U == {k \in 0..(n - 1) : guess[k + 1] \in PosesOnLine}
<1>18. 0 \in U
  BY <1>1, <1>16
<1>19. ASSUME NEW k \in 0..((n - 1) - 1), k \in U PROVE k + 1 \in U
  <2>1. (k + 1) + 1 \in 2..n /\ ((k + 1) + 1) - 1 = k + 1 /\ k + 1 \in 0..(n - 1)
    BY <1>1
  <2> QED BY <1>5, <1>17, <1>19, <2>1
<1>20. \A i \in 1..n : guess[i] \in PosesOnLine
  <2>1. \A k \in 0..(n - 1) : k \in U
    <3> HIDE DEF U
    <3>1. n - 1 \in Nat
      BY <1>1
    <3> QED BY <1>18, <1>19, <3>1, UpTo
  <2>2. \A i \in 1..n : i - 1 \in 0..(n - 1) /\ (i - 1) + 1 = i
    BY <1>1
  <2> QED BY <2>1, <2>2
<1>21. guess \in [1..n -> PosesOnLine]
  BY <1>1, <1>14, <1>20
<1> QED BY <1>1, <1>4, <1>17, <1>21 DEF n, Next_

(* The guesses that mola-mapper-reoptimize chains fit the odometry of the   *)
(* keyframes and keep its weak edges (mola-mapper-reoptimize.cpp:81-98).    *)
THEOREM ChainIsOdometry == Spec => []ChainFitsOdometry
<1>1. IInv => ChainFitsOdometry
  <2> SUFFICES ASSUME IInv, NEW g \in Loaded, g.keyframes # <<>>
               PROVE  /\ OdometryFactors(Chained(g)) = OdometryFactors(g)
                      /\ \A i \in Poses(g) \ {1} :
                           \E f \in OdometryFactors(g) :
                             f.of = {i - 1, i} /\ f.rel = GuessStep(Chained(g), i)
    BY DEF ChainFitsOdometry
  <2> DEFINE n == Len(g.keyframes)
             c == Chained(g)
  <2>1. /\ g.keyframes \in Seq(LoadedKeyframe)
        /\ g = [keyframes |-> g.keyframes, loops |-> g.loops, datum |-> g.datum,
                T_enu_to_map_guess |-> g.T_enu_to_map_guess]
    BY LoadedTypes DEF IInv
  <2>2. PICK guess \in [1..n -> PosesOnLine] :
          /\ c.keyframes = [i \in 1..n |-> [g.keyframes[i] EXCEPT !.guess = guess[i]]]
          /\ \A i \in 2..n : guess[i] = Plus(guess[i - 1], ChainStep(g, i, guess[i - 1]))
    BY <2>1, ChainedGuesses
  <2>3. /\ n \in Nat /\ Poses(g) = 1..n /\ Poses(c) = 1..n
        /\ \A i \in (1..n) \ {1} : i \in 2..n /\ i - 1 \in 1..n
    BY <2>1, <2>2 DEF Poses
  <2>4. \A i \in 1..n :
          /\ c.keyframes[i].source_frame = g.keyframes[i].source_frame
          /\ c.keyframes[i].pose = g.keyframes[i].pose
          /\ c.keyframes[i].guess = guess[i]
          /\ g.keyframes[i].pose \in PosesOnLine /\ g.keyframes[i].guess \in PosesOnLine
    <3> TAKE i \in 1..n
    <3> DEFINE k == g.keyframes[i]
    <3>1. k \in LoadedKeyframe
      BY <2>1
    <3>2. c.keyframes[i] = [k EXCEPT !.guess = guess[i]]
      BY <2>2
    <3> HIDE DEF c, k, n
    <3> QED BY <3>1, <3>2 DEF LoadedKeyframe, k
  <2> HIDE DEF n, c
  <2>5. ASSUME NEW i \in (1..n) \ {1}
        PROVE  /\ SameSource(c, i) <=> SameSource(g, i)
               /\ SourceStep(c, i) = SourceStep(g, i)
               /\ GuessStep(c, i) = ChainStep(g, i, guess[i - 1])
    <3>1. i \in 2..n /\ i - 1 \in 1..n /\ i \in 1..n
      BY <2>3
    <3>2. SameSource(c, i) <=> SameSource(g, i)
      BY <2>4, <3>1 DEF SameSource
    <3>3. SourceStep(c, i) = SourceStep(g, i)
      BY <2>4, <3>1 DEF SourceStep
    <3>4. SourceStep(g, i) \in PosesOnLine /\ GuessStep(g, i) \in PosesOnLine
      BY <2>4, <3>1, PoseAlgebra DEF SourceStep, GuessStep
    <3>5. ChainStep(g, i, guess[i - 1]) \in PosesOnLine
      BY <3>4 DEF ChainStep
    <3>6. GuessStep(c, i) = Minus(guess[i], guess[i - 1])
      BY <2>4, <3>1 DEF GuessStep
    <3>7. guess[i - 1] \in PosesOnLine
      BY <3>1
    <3>8. guess[i] = Plus(guess[i - 1], ChainStep(g, i, guess[i - 1]))
      BY <2>2, <3>1
    <3>9. GuessStep(c, i) = ChainStep(g, i, guess[i - 1])
      <4> DEFINE p == guess[i - 1]
                 q == ChainStep(g, i, p)
      <4>1. p \in PosesOnLine /\ q \in PosesOnLine
        BY <3>5, <3>7
      <4>2. GuessStep(c, i) = Minus(Plus(p, q), p)
        BY <3>6, <3>8
      <4> HIDE DEF p, q
      <4>3. Minus(Plus(p, q), p) = q
        BY <4>1, PoseAlgebra
      <4> QED BY <4>2, <4>3 DEF p, q
    <3> QED BY <3>2, <3>3, <3>9
  <2> DEFINE E(h, i) == IF SameSource(h, i)
                        THEN Between("odometry", i - 1, i, SourceStep(h, i))
                        ELSE Between("weak", i - 1, i, GuessStep(h, i))
  <2>6. \A i \in (1..n) \ {1} : E(c, i) = E(g, i)
    BY <2>5 DEF ChainStep
  <2>7. /\ OdometryFactors(c) = {E(c, i) : i \in (1..n) \ {1}}
        /\ OdometryFactors(g) = {E(g, i) : i \in (1..n) \ {1}}
    BY <2>3 DEF OdometryFactors
  <2>8. \A i \in (1..n) \ {1} : E(g, i).of = {i - 1, i} /\ E(g, i).rel = GuessStep(c, i)
    BY <2>5 DEF ChainStep, Between
  <2> HIDE DEF E
  <2>9. OdometryFactors(c) = OdometryFactors(g)
    BY <2>6, <2>7
  <2> QED BY <2>3, <2>7, <2>8, <2>9 DEF c
<1> QED BY <1>1, Invariant, PTL
=============================================================================
