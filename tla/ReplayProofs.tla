---------------------------- MODULE ReplayProofs ----------------------------
(***************************************************************************)
(* Theorems about Replay, for every number of front ends, clouds, inputs   *)
(* and times: the log makes the map, a replay makes it again, and its      *)
(* solves are at their periods.                                            *)
(*                                                                         *)
(* A frame that was recorded has its points in it, so that what it is read *)
(* as does not depend on the memory any more; MadeOf then is a function of *)
(* the log alone, and a log that grows makes a map that grows.             *)
(***************************************************************************)
EXTENDS Replay, Induction, SequenceTheorems

(* The keyframe that is inserted for time t, and what is recorded of it.    *)
KeyframeAt(t) == Request(t, "points")
NotesAt(t) == Comment("notes", t, [note |-> t])
RequestAt(t) == Comment(KEYFRAME_LABEL, t, RequestLines(KeyframeAt(t)))
FrameAt(t) == <<Cloud("points"), NotesAt(t), RequestAt(t)>>
EntryAt(t) == [type |-> "frame", frame |-> FrameAt(t)]

Keyframes == {KeyframeAt(t) : t \in Times}
Inputs == Readings \cup Keyframes
Frames == {EntryAt(t) : t \in Times}
LogEntry == Readings \cup Frames

(* What an entry is read as, whatever the clouds in memory are.             *)
MeaningOf(e) == IF e.type = "reading" THEN e ELSE KeyframeAt(e.frame[3].timestamp)

(* The map that inputs and a log make.                                      *)
MadeOf(inputs) == FoldLeft(Apply, <<>>, inputs)
MapOf(log) == MadeOf([i \in DOMAIN log |-> MeaningOf(log[i])])

-----------------------------------------------------------------------------
Phases == {"open", "closing", "failed", "stored", "cut"}
Requests == [kf : Keyframes, entry : Frames]

TypeInv ==
  /\ {recorder_, attached, finalized_, replayer} \subseteq BOOLEAN
  /\ clouds \in [Clouds -> {"points", "changed"}]
  /\ map \in Seq(Inputs) /\ replayed \in Seq(Inputs) /\ solved \in Seq(Inputs)
  /\ request \in [FrontEnds -> SUBSET {[kf |-> KeyframeAt(t), entry |-> EntryAt(t)] : t \in Times}]
  /\ logged \in Seq(LogEntry) /\ file \in Seq(LogEntry)
  /\ phase \in Phases
  /\ entries \in 0..Len(file)
  /\ {given, first, lastSolve, lastScan, solves, scans, solvedScans} \subseteq Nat

(* Nothing is taken before the log is open, nor replayed before the end of  *)
(* the run.                                                                 *)
InTurn ==
  /\ attached => recorder_
  /\ (\E f \in FrontEnds : request[f] # {}) => attached
  /\ phase \in {"closing", "stored"} => finalized_
  /\ replayer => ~Running
  /\ ~replayer => entries = 0

(* The map is what the log makes until the recording breaks, and what it    *)
(* has of the map then is a part of it.                                     *)
LogIsOfMap ==
  /\ phase \in {"open", "closing", "stored"} => map = MapOf(logged)
  /\ IsPrefix(MapOf(logged), map)

FileIsOfLog ==
  /\ ~Running => IsPrefix(file, logged)
  /\ phase = "stored" => file = logged

ReplayedIsOfFile == replayed = MapOf(SubSeq(file, 1, entries))

(* The schedule runs from the first keyframe on; a scan that is due at the  *)
(* last solve was made.                                                     *)
Scheduled ==
  /\ IF first = Never
     THEN /\ KeyframesOf(replayed) = {}
          /\ lastSolve = Never /\ lastScan = Never
          /\ solves = 0 /\ scans = 0 /\ solvedScans = 0
     ELSE /\ \E k \in KeyframesOf(replayed) : k.timestamp = first
          /\ solves * solve_period <= lastSolve - first
  /\ IF loop_closure_enabled
     THEN lastSolve - lastScan < loop_closure_period
     ELSE scans = 0 /\ solvedScans = 0
  /\ solvedScans < scans => lastScan > lastSolve
  /\ IsPrefix(solved, replayed)
  /\ \A k \in Unsolved : k.timestamp - lastSolve < solve_period

IInv ==
  /\ TypeInv /\ InTurn /\ LogIsOfMap /\ FileIsOfLog /\ ReplayedIsOfFile /\ Scheduled

-----------------------------------------------------------------------------
(***************************************************************************)
(* What is recorded of a keyframe reads back as it was.                    *)
(***************************************************************************)
LEMMA AppendSecond ==
  ASSUME NEW a, NEW b
  PROVE  Append(<<a>>, b) = <<a, b>>
<1> DEFINE s == <<a>>
           r == Append(s, b)
           S == {a, b}
<1>1. s \in Seq(S) /\ b \in S
  OBVIOUS
<1>0. Len(s) = 1 /\ s[1] = a
  OBVIOUS
<1>2. <<a, b>> \in Seq(S) /\ Len(<<a, b>>) = 2 /\ <<a, b>>[1] = a /\ <<a, b>>[2] = b
  OBVIOUS
<1> HIDE DEF s, S
<1>3. /\ r \in Seq(S) /\ Len(r) = Len(s) + 1
      /\ \A i \in 1..Len(s) : r[i] = s[i]
      /\ r[Len(s) + 1] = b
  BY <1>1, AppendProperties
<1> HIDE DEF r
<1>4. Len(r) = 2 /\ r[1] = a /\ r[2] = b
  BY <1>0, <1>3
<1>5. \A i \in 1..2 : r[i] = <<a, b>>[i]
  BY <1>2, <1>4
<1> QED BY <1>2, <1>3, <1>4, <1>5, SeqEqual DEF r, s

LEMMA AppendThird ==
  ASSUME NEW S, NEW s \in Seq(S), NEW c \in S
  PROVE  Len(s) = 2 =>
           /\ Append(s, c) \in Seq(S) /\ Len(Append(s, c)) = 3
           /\ Append(s, c)[1] = s[1] /\ Append(s, c)[2] = s[2] /\ Append(s, c)[3] = c
<1> DEFINE a == Append(s, c)
<1>1. /\ a \in Seq(S) /\ Len(a) = Len(s) + 1
      /\ \A i \in 1..Len(s) : a[i] = s[i]
      /\ a[Len(s) + 1] = c
  BY AppendProperties
<1> HIDE DEF a
<1> HAVE Len(s) = 2
<1>2. Len(a) = 3 /\ a[3] = c
  BY <1>1
<1>3. a[1] = s[1] /\ a[2] = s[2]
  BY <1>1
<1> QED BY <1>1, <1>2, <1>3 DEF a

LEMMA TuplesOfThree ==
  ASSUME NEW a, NEW b, NEW c
  PROVE  /\ Append(<<a, b>>, c) = <<a, b, c>>
         /\ DOMAIN <<a, b, c>> = 1..3 /\ Len(<<a, b, c>>) = 3
         /\ <<a, b, c>>[1] = a /\ <<a, b, c>>[2] = b /\ <<a, b, c>>[3] = c
         /\ <<a, b, c>> = [i \in 1..3 |-> <<a, b, c>>[i]]
<1>1. <<a, b>> \in Seq({a, b, c}) /\ Len(<<a, b>>) = 2
      /\ <<a, b>>[1] = a /\ <<a, b>>[2] = b
  OBVIOUS
<1>2. <<a, b, c>> \in Seq({a, b, c}) /\ Len(<<a, b, c>>) = 3 /\ DOMAIN <<a, b, c>> = 1..3
      /\ <<a, b, c>>[1] = a /\ <<a, b, c>>[2] = b /\ <<a, b, c>>[3] = c
  OBVIOUS
<1>3. <<a, b, c>> = [i \in 1..3 |-> <<a, b, c>>[i]]
  OBVIOUS
<1>4. Append(<<a, b>>, c) = <<a, b, c>>
  <2> DEFINE s == Append(<<a, b>>, c)
             r == <<a, b, c>>
  <2>1. c \in {a, b, c}
    OBVIOUS
  <2>2. s \in Seq({a, b, c}) /\ Len(s) = 3 /\ s[1] = a /\ s[2] = b /\ s[3] = c
    BY <1>1, <2>1, AppendThird
  <2>3. r \in Seq({a, b, c}) /\ Len(r) = 3 /\ r[1] = a /\ r[2] = b /\ r[3] = c
    BY <1>2
  <2> HIDE DEF s, r
  <2>4. \A i \in 1..3 : s[i] = r[i]
    BY <2>2, <2>3
  <2>5. s = r
    BY <2>2, <2>3, <2>4, SeqEqual
  <2> QED BY <2>5 DEF s, r
<1> QED BY <1>2, <1>3, <1>4

(* The copy of a cloud is that of its points.                               *)
LEMMA EncodedIsFrame ==
  ASSUME TypeInv, NEW t, NEW scan \in Clouds, clouds[scan] = "points"
  PROVE  /\ Request(t, clouds[scan]) = KeyframeAt(t)
         /\ Encoded(clouds, Request(t, scan)) = FrameAt(t)
<1> DEFINE obs == <<Cloud(scan), NotesAt(t)>>
<1>1. Request(t, scan).observations = obs /\ Request(t, scan).timestamp = t
      /\ RequestLines(Request(t, scan)) = RequestLines(KeyframeAt(t))
  BY DEF Request, RequestLines, KeyframeAt, NotesAt
<1>2. SelfContained(clouds, Cloud(scan)) = Cloud("points")
  BY DEF SelfContained, PointsIn, Cloud
<1>3. SelfContained(clouds, NotesAt(t)) = NotesAt(t)
  BY DEF SelfContained, PointsIn, Comment, NotesAt
<1>4. [i \in DOMAIN obs |-> SelfContained(clouds, obs[i])] = <<Cloud("points"), NotesAt(t)>>
  <2>1. DOMAIN obs = 1..2 /\ obs[1] = Cloud(scan) /\ obs[2] = NotesAt(t)
    OBVIOUS
  <2> HIDE DEF obs
  <2>2. \A i \in 1..2 : i = 1 \/ i = 2
    OBVIOUS
  <2> QED BY <1>2, <1>3, <2>1, <2>2
<1>5. Encoded(clouds, Request(t, scan))
        = Append([i \in DOMAIN obs |-> SelfContained(clouds, obs[i])], RequestAt(t))
  <2> HIDE DEF obs
  <2> QED BY <1>1 DEF Encoded, RequestAt
<1>6. Append(<<Cloud("points"), NotesAt(t)>>, RequestAt(t)) = FrameAt(t)
  BY TuplesOfThree DEF FrameAt
<1> QED BY <1>4, <1>5, <1>6 DEF KeyframeAt

(* It has none of the clouds any more.                                      *)
LEMMA WrittenIsFrame ==
  ASSUME NEW t
  PROVE  Written(clouds, FrameAt(t)) = FrameAt(t)
<1> DEFINE f == FrameAt(t)
<1>1. DOMAIN f = 1..3 /\ f = [i \in 1..3 |-> f[i]]
      /\ f[1] = Cloud("points") /\ f[2] = NotesAt(t) /\ f[3] = RequestAt(t)
  BY TuplesOfThree DEF FrameAt
<1>2. PointsIn(clouds, Cloud("points")) = Cloud("points")
  BY CloudsAssumption DEF PointsIn, Cloud
<1>3. PointsIn(clouds, NotesAt(t)) = NotesAt(t) /\ PointsIn(clouds, RequestAt(t)) = RequestAt(t)
  BY DEF PointsIn, Comment, NotesAt, RequestAt
<1>4. \A i \in 1..3 : i = 1 \/ i = 2 \/ i = 3
  OBVIOUS
<1> HIDE DEF f
<1>5. \A i \in 1..3 : PointsIn(clouds, f[i]) = f[i]
  BY <1>1, <1>2, <1>3, <1>4
<1>6. Written(clouds, f) = f
  BY <1>1, <1>5 DEF Written
<1> QED BY <1>6 DEF f

(* The request of its comment, and the observations before it.              *)
LEMMA DecodedIsKeyframe ==
  ASSUME NEW t
  PROVE  /\ IsComplete(FrameAt(t))
         /\ Decoded(FrameAt(t)) = KeyframeAt(t)
<1> DEFINE f == FrameAt(t)
           text == RequestAt(t).text
           O == {Cloud("points"), NotesAt(t), RequestAt(t)}
           A == [timestamp : {0, t}, lines : {<<>>, text}, observations : Seq(O)]
           base == [timestamp |-> 0, lines |-> <<>>, observations |-> <<>>]
           IsFold(iter) ==
             iter = [s \in SUBSET (1..3) |->
                       IF s = {} THEN base ELSE DecodeStep(iter[s \ {Max(s)}], f[Max(s)])]
           fold == CHOOSE iter : IsFold(iter)
           F == [k \in 1..3 |-> [kf \in A |-> DecodeStep(kf, f[k])]]
<1>1. DOMAIN f = 1..3 /\ f[1] = Cloud("points") /\ f[2] = NotesAt(t) /\ f[3] = RequestAt(t)
  BY TuplesOfThree DEF FrameAt
<1> HIDE DEF f
<1>2. DecodedFrame(f) = fold[1..3]
  BY <1>1 DEF DecodedFrame, FoldLeft, MapThenFoldSet
<1>0. text = RequestLines(KeyframeAt(t))
  BY DEF RequestAt, Comment
<1>3. /\ DOMAIN text = LineKeys
      /\ [k \in {} \cup LineKeys |-> text[k]] = text
      /\ [k \in LineKeys \cup LineKeys |-> text[k]] = text
  <2> HIDE DEF text
  <2> QED BY <1>0 DEF RequestLines, LineKeys
<1>4. /\ ~IsRequest(Cloud("points")) /\ ~IsRequest(NotesAt(t))
      /\ IsRequest(RequestAt(t)) /\ RequestAt(t).timestamp = t
  BY DEF IsRequest, Cloud, NotesAt, RequestAt, Comment, KEYFRAME_LABEL
<1> HIDE DEF text
<1>5. \A kf \in A, o \in {Cloud("points"), NotesAt(t)} :
        DecodeStep(kf, o) = [timestamp |-> kf.timestamp, lines |-> kf.lines,
                             observations |-> Append(kf.observations, o)]
  BY <1>4 DEF DecodeStep
<1>6. \A kf \in A :
        DecodeStep(kf, RequestAt(t)) = [timestamp |-> t, lines |-> text,
                                        observations |-> kf.observations]
  <2> TAKE kf \in A
  <2>1. kf.lines \in {<<>>, text} /\ DOMAIN <<>> = {}
    OBVIOUS
  <2> DEFINE merged == [k \in DOMAIN kf.lines \cup DOMAIN text |->
                          IF k \in DOMAIN text THEN text[k] ELSE kf.lines[k]]
  <2>2. merged = text
    <3>1. CASE kf.lines = <<>>
      BY <1>3, <2>1, <3>1
    <3>2. CASE kf.lines = text
      BY <1>3, <3>2
    <3> QED BY <2>1, <3>1, <3>2
  <2>3. kf = [timestamp |-> kf.timestamp, lines |-> kf.lines,
              observations |-> kf.observations]
    OBVIOUS
  <2> HIDE DEF A
  <2>4. DecodeStep(kf, RequestAt(t)) = [kf EXCEPT !.timestamp = t, !.lines = text]
    <3>1. DecodeStep(kf, RequestAt(t)) =
            [kf EXCEPT !.timestamp = RequestAt(t).timestamp, !.lines = merged]
      BY <1>4, Zenon DEF DecodeStep, text
    <3> HIDE DEF merged
    <3> QED BY <1>4, <2>2, <3>1
  <2> QED BY <2>3, <2>4
<1>7. \A kf \in A, k \in 1..3 : DecodeStep(kf, f[k]) \in A
  <2> TAKE kf \in A, k \in 1..3
  <2>1. k \in {1, 2, 3}
    OBVIOUS
  <2>2. f[k] \in O
    BY <1>1, <2>1
  <2>3. CASE f[k] \in {Cloud("points"), NotesAt(t)}
    <3>1. DecodeStep(kf, f[k]) = [timestamp |-> kf.timestamp, lines |-> kf.lines,
                                  observations |-> Append(kf.observations, f[k])]
      BY <1>5, <2>3
    <3>2. kf.observations \in Seq(O)
      OBVIOUS
    <3> HIDE DEF O
    <3>3. Append(kf.observations, f[k]) \in Seq(O)
      BY <2>2, <3>2, AppendProperties
    <3> QED BY <3>1, <3>3
  <2>4. CASE f[k] = RequestAt(t)
    BY <1>6, <2>4
  <2> QED BY <2>2, <2>3, <2>4
<1>8. base \in A
  BY EmptySeq
<1> HIDE DEF A, base
<1>9. F \in [1..3 -> [A -> A]]
  BY <1>7
<1>10. IsFold(fold)
  <2>1. PICK iter \in [SUBSET (1..3) -> A] : IsFoldOf(iter, 3, base, F)
    <3> HIDE DEF F
    <3>1. 3 \in Nat
      OBVIOUS
    <3> QED BY <1>8, <1>9, <3>1, FoldExists
  <2>2. ASSUME NEW s \in SUBSET (1..3), s # {}
        PROVE  F[Max(s)][iter[s \ {Max(s)}]] = DecodeStep(iter[s \ {Max(s)}], f[Max(s)])
    <3>1. Max(s) \in 1..3
      <4>1. 3 \in Nat /\ Max(s) \in s
        BY <2>2, MaxOfNumbers
      <4> QED BY <4>1
    <3>2. iter[s \ {Max(s)}] \in A
      OBVIOUS
    <3> QED BY <3>1, <3>2
  <2>3. IsFold(iter)
    <3> HIDE DEF F
    <3> QED BY <2>1, <2>2 DEF IsFoldOf
  <2> HIDE DEF IsFold
  <2> QED BY <2>3
<1> HIDE DEF fold
<1>11. /\ fold[1..0] = base
       /\ fold[1..1] = DecodeStep(fold[1..0], f[1])
       /\ fold[1..2] = DecodeStep(fold[1..1], f[2])
       /\ fold[1..3] = DecodeStep(fold[1..2], f[3])
  <2>1. 1..0 = {} /\ \A k \in 0..3 : 1..k \in SUBSET (1..3)
    OBVIOUS
  <2>2. ASSUME NEW k \in 0..2 PROVE fold[1..(k + 1)] = DecodeStep(fold[1..k], f[k + 1])
    <3>1. Max(1..(k + 1)) = k + 1 /\ (1..(k + 1)) \ {k + 1} = 1..k
      <4>1. 3 \in Nat /\ k \in 0..(3 - 1)
        OBVIOUS
      <4> QED BY <4>1, MaxOfNumbers
    <3>2. 1..(k + 1) \in SUBSET (1..3) /\ 1 \in 1..(k + 1)
      OBVIOUS
    <3> QED BY <1>10, <3>1, <3>2
  <2>3. fold[1..(0 + 1)] = DecodeStep(fold[1..0], f[0 + 1])
        /\ fold[1..(1 + 1)] = DecodeStep(fold[1..1], f[1 + 1])
        /\ fold[1..(2 + 1)] = DecodeStep(fold[1..2], f[2 + 1])
    BY <2>2
  <2> QED BY <1>10, <2>1, <2>3
<1> HIDE DEF IsFold
<1>12. fold[1..2] = [timestamp |-> 0, lines |-> <<>>,
                     observations |-> <<Cloud("points"), NotesAt(t)>>]
  <2>1. fold[1..1] = [timestamp |-> 0, lines |-> <<>>, observations |-> <<Cloud("points")>>]
        /\ fold[1..1] \in A
    <3>1. fold[1..1] \in A
      BY <1>7, <1>8, <1>11
    <3>2. fold[1..1] = [timestamp |-> base.timestamp, lines |-> base.lines,
                        observations |-> Append(base.observations, Cloud("points"))]
      BY <1>1, <1>5, <1>8, <1>11
    <3>3. \A o : Append(<<>>, o) = <<o>>
      OBVIOUS
    <3> QED BY <3>1, <3>2, <3>3 DEF base
  <2>2. fold[1..2] = [timestamp |-> 0, lines |-> <<>>,
                      observations |-> Append(<<Cloud("points")>>, NotesAt(t))]
    BY <1>1, <1>5, <1>11, <2>1
  <2> QED BY <2>2, AppendSecond
<1>13. fold[1..3] = [timestamp |-> t, lines |-> text,
                     observations |-> <<Cloud("points"), NotesAt(t)>>]
  <2>1. fold[1..2] \in A
    BY <1>7, <1>8, <1>11
  <2> QED BY <1>1, <1>6, <1>11, <1>12, <2>1
<1>14. IsComplete(f)
  BY <1>2, <1>3, <1>13 DEF IsComplete
<1>15. Decoded(f) = KeyframeAt(t)
  BY <1>0, <1>2, <1>13 DEF Decoded, RequestLines, KeyframeAt, Request, NotesAt
<1> QED BY <1>14, <1>15 DEF f

LEMMA ReadIsMeaning ==
  ASSUME NEW e \in LogEntry
  PROVE  IsReadable(e) /\ Read(e) = MeaningOf(e) /\ MeaningOf(e) \in Inputs
<1>1. CASE e \in Readings
  <2>1. e.type = "reading"
    BY <1>1 DEF Readings
  <2> QED BY <1>1, <2>1 DEF IsReadable, Read, MeaningOf, Inputs
<1>2. CASE e \in Frames
  <2>1. PICK t \in Times : e = EntryAt(t)
    BY <1>2 DEF Frames
  <2>2. e.type = "frame" /\ e.frame = FrameAt(t)
    BY <2>1 DEF EntryAt
  <2>3. e.frame[3].timestamp = t
    <3>1. FrameAt(t)[3] = RequestAt(t)
      BY TuplesOfThree DEF FrameAt
    <3> QED BY <2>2, <3>1 DEF RequestAt, Comment
  <2>4. MeaningOf(e) = KeyframeAt(t)
    BY <2>2, <2>3 DEF MeaningOf
  <2>5. Read(e) = KeyframeAt(t)
    BY <2>2, WrittenIsFrame, DecodedIsKeyframe DEF Read
  <2>6. IsReadable(e)
    BY <2>2, DecodedIsKeyframe DEF IsReadable
  <2> QED BY <2>1, <2>4, <2>5, <2>6 DEF Inputs, Keyframes
<1> QED BY <1>1, <1>2 DEF LogEntry

-----------------------------------------------------------------------------
(***************************************************************************)
(* The map that a log makes.                                               *)
(***************************************************************************)
LEMMA ApplyTyped ==
  ASSUME NEW m \in Seq(Inputs), NEW e \in Inputs
  PROVE  /\ Apply(m, e) \in {m, Append(m, e)}
         /\ Apply(m, e) \in Seq(Inputs)
         /\ IsPrefix(m, Apply(m, e))
<1>1. Append(m, e) \in Seq(Inputs)
  BY AppendProperties
<1>2. Apply(m, e) \in {m, Append(m, e)}
  BY DEF Apply
<1> QED BY <1>1, <1>2, PrefixFacts

(* The inputs are applied one by one.                                       *)
LEMMA MadeOfSteps ==
  ASSUME NEW inputs \in Seq(Inputs)
  PROVE  \E st \in [0..Len(inputs) -> Seq(Inputs)] :
           /\ st[0] = <<>>
           /\ \A k \in 0..(Len(inputs) - 1) : st[k + 1] = Apply(st[k], inputs[k + 1])
           /\ MadeOf(inputs) = st[Len(inputs)]
<1> DEFINE m == Len(inputs)
           A == Seq(Inputs)
           IsFold(iter) ==
             iter = [s \in SUBSET (1..m) |->
                       IF s = {} THEN <<>> ELSE Apply(iter[s \ {Max(s)}], inputs[Max(s)])]
           fold == CHOOSE iter : IsFold(iter)
<1>1. m \in Nat /\ DOMAIN inputs = 1..m /\ \A k \in 1..m : inputs[k] \in Inputs
  OBVIOUS
<1>2. <<>> \in A
  BY EmptySeq
<1>3. MadeOf(inputs) = fold[1..m]
  BY <1>1 DEF MadeOf, FoldLeft, MapThenFoldSet
<1>4. \A s \in A, k \in 1..m : Apply(s, inputs[k]) \in A
  BY <1>1, ApplyTyped
<1> HIDE DEF m, A
<1>5. IsFold(fold)
  <2> DEFINE F == [k \in 1..m |-> [s \in A |-> Apply(s, inputs[k])]]
  <2>1. F \in [1..m -> [A -> A]]
    BY <1>4
  <2>2. PICK iter \in [SUBSET (1..m) -> A] : IsFoldOf(iter, m, <<>>, F)
    <3> HIDE DEF F, IsFold
    <3> QED BY <1>1, <1>2, <2>1, FoldExists
  <2>3. ASSUME NEW s \in SUBSET (1..m), s # {}
        PROVE  F[Max(s)][iter[s \ {Max(s)}]] = Apply(iter[s \ {Max(s)}], inputs[Max(s)])
    <3>1. Max(s) \in 1..m
      BY <1>1, <2>3, MaxOfNumbers
    <3>2. iter[s \ {Max(s)}] \in A
      OBVIOUS
    <3> QED BY <3>1, <3>2
  <2>4. IsFold(iter)
    <3> HIDE DEF F
    <3> QED BY <2>2, <2>3 DEF IsFoldOf
  <2> HIDE DEF IsFold
  <2> QED BY <2>4
<1> HIDE DEF fold
<1> DEFINE st == [k \in 0..m |-> fold[1..k]]
<1>6. st[0] = <<>>
  <2>1. 1..0 = {} /\ 1..0 \in SUBSET (1..m) /\ 0 \in 0..m
    BY <1>1
  <2> QED BY <1>5, <2>1
<1>7. ASSUME NEW k \in 0..(m - 1) PROVE st[k + 1] = Apply(st[k], inputs[k + 1])
  <2>1. Max(1..(k + 1)) = k + 1 /\ (1..(k + 1)) \ {k + 1} = 1..k
    BY <1>1, MaxOfNumbers
  <2>2. 1 \in 1..(k + 1) /\ k \in 0..m /\ k + 1 \in 0..m /\ 1..(k + 1) \subseteq 1..m
    BY <1>1
  <2>3. fold[1..(k + 1)] = Apply(fold[1..k], inputs[k + 1])
    BY <1>5, <2>1, <2>2
  <2> QED BY <2>2, <2>3
<1>8. MadeOf(inputs) = st[m]
  BY <1>1, <1>3
<1>9. st \in [0..m -> A]
  <2> DEFINE U == {k \in 0..m : st[k] \in A}
  <2>1. 0 \in U
    BY <1>1, <1>2, <1>6
  <2>2. ASSUME NEW k \in 0..(m - 1), k \in U PROVE k + 1 \in U
    <3>1. k + 1 \in 0..m /\ k + 1 \in 1..m
      BY <1>1
    <3> HIDE DEF st
    <3> QED BY <1>4, <1>7, <2>2, <3>1
  <2>3. \A k \in 0..m : k \in U
    <3> HIDE DEF U
    <3> QED BY <1>1, <2>1, <2>2, UpTo
  <2>4. \A k \in 0..m : st[k] \in A
    BY <2>3
  <2> QED BY <2>4
<1> HIDE DEF st
<1> QED BY <1>6, <1>7, <1>8, <1>9 DEF m, A

(* One more input.                                                          *)
LEMMA MadeOfAppend ==
  ASSUME NEW inputs \in Seq(Inputs), NEW e \in Inputs
  PROVE  /\ MadeOf(inputs) \in Seq(Inputs)
         /\ MadeOf(Append(inputs, e)) = Apply(MadeOf(inputs), e)
<1> DEFINE more == Append(inputs, e)
           m == Len(inputs)
<1>1. /\ more \in Seq(Inputs) /\ Len(more) = m + 1
      /\ \A i \in 1..m : more[i] = inputs[i]
      /\ more[m + 1] = e
  BY AppendProperties
<1>2. m \in Nat
  OBVIOUS
<1>3. PICK st \in [0..m -> Seq(Inputs)] :
        /\ st[0] = <<>>
        /\ \A k \in 0..(m - 1) : st[k + 1] = Apply(st[k], inputs[k + 1])
        /\ MadeOf(inputs) = st[m]
  BY MadeOfSteps
<1> HIDE DEF more, m
<1>4. PICK st2 \in [0..(m + 1) -> Seq(Inputs)] :
        /\ st2[0] = <<>>
        /\ \A k \in 0..((m + 1) - 1) : st2[k + 1] = Apply(st2[k], more[k + 1])
        /\ MadeOf(more) = st2[m + 1]
  BY <1>1, MadeOfSteps
<1> DEFINE U == {k \in 0..m : st2[k] = st[k]}
<1>5. 0 \in U
  BY <1>2, <1>3, <1>4
<1>6. ASSUME NEW k \in 0..(m - 1), k \in U PROVE k + 1 \in U
  <2>1. k \in 0..((m + 1) - 1) /\ k + 1 \in 1..m /\ k + 1 \in 0..m
    BY <1>2
  <2> QED BY <1>1, <1>3, <1>4, <1>6, <2>1
<1>7. m \in U
  <2> HIDE DEF U
  <2> QED BY <1>2, <1>5, <1>6, UpTo
<1>8. m \in 0..((m + 1) - 1)
  BY <1>2
<1>9. MadeOf(more) = Apply(MadeOf(inputs), e)
  BY <1>1, <1>3, <1>4, <1>7, <1>8
<1>10. MadeOf(inputs) \in Seq(Inputs)
  BY <1>2, <1>3
<1> QED BY <1>9, <1>10 DEF more

(* What the entries of a log mean, one by one.                              *)
LEMMA MapOfTyped ==
  ASSUME NEW log \in Seq(LogEntry)
  PROVE  MapOf(log) \in Seq(Inputs)
<1> DEFINE means == [i \in DOMAIN log |-> MeaningOf(log[i])]
<1>1. DOMAIN log = 1..Len(log) /\ Len(log) \in Nat /\ \A i \in DOMAIN log : log[i] \in LogEntry
  OBVIOUS
<1>2. means \in [1..Len(log) -> Inputs]
  BY <1>1, ReadIsMeaning
<1>3. means \in Seq(Inputs)
  BY <1>1, <1>2
<1> HIDE DEF means
<1>4. MadeOf(means) \in Seq(Inputs)
  <2>1. PICK st \in [0..Len(means) -> Seq(Inputs)] : MadeOf(means) = st[Len(means)]
    BY <1>3, MadeOfSteps
  <2> QED BY <1>3, <2>1
<1> QED BY <1>4 DEF MapOf, means

LEMMA MapOfAppend ==
  ASSUME NEW log \in Seq(LogEntry), NEW e \in LogEntry
  PROVE  /\ MapOf(log) \in Seq(Inputs)
         /\ MapOf(Append(log, e)) = Apply(MapOf(log), MeaningOf(e))
         /\ IsPrefix(MapOf(log), MapOf(Append(log, e)))
<1> DEFINE means(l) == [i \in DOMAIN l |-> MeaningOf(l[i])]
           more == Append(log, e)
           m == Len(log)
<1>1. \A x \in LogEntry : MeaningOf(x) \in Inputs
  BY ReadIsMeaning
<1>2. \A l \in Seq(LogEntry) :
        /\ means(l) \in Seq(Inputs) /\ Len(means(l)) = Len(l)
        /\ \A i \in 1..Len(l) : means(l)[i] = MeaningOf(l[i])
  <2> TAKE l \in Seq(LogEntry)
  <2>1. DOMAIN l = 1..Len(l) /\ Len(l) \in Nat /\ \A i \in DOMAIN l : l[i] \in LogEntry
    OBVIOUS
  <2>2. means(l) \in [1..Len(l) -> Inputs]
    BY <1>1, <2>1
  <2> QED BY <2>1, <2>2
<1>3. /\ more \in Seq(LogEntry) /\ Len(more) = m + 1
      /\ \A i \in 1..m : more[i] = log[i]
      /\ more[m + 1] = e
  BY AppendProperties
<1>4. m \in Nat
  OBVIOUS
<1>5. means(log) \in Seq(Inputs) /\ Len(means(log)) = m /\ MeaningOf(e) \in Inputs
      /\ \A i \in 1..m : means(log)[i] = MeaningOf(log[i])
  BY <1>1, <1>2
<1>6. means(more) \in Seq(Inputs) /\ Len(means(more)) = m + 1
      /\ \A i \in 1..(m + 1) : means(more)[i] = MeaningOf(more[i])
  <2> HIDE DEF means, more, m
  <2> QED BY <1>2, <1>3
<1> DEFINE a == Append(means(log), MeaningOf(e))
<1>7. /\ a \in Seq(Inputs) /\ Len(a) = Len(means(log)) + 1
      /\ \A i \in 1..Len(means(log)) : a[i] = means(log)[i]
      /\ a[Len(means(log)) + 1] = MeaningOf(e)
  <2> HIDE DEF means
  <2> QED BY <1>5, AppendProperties
<1>8. means(more) = a
  <2> HIDE DEF means, more, m, a
  <2>1. \A i \in 1..(m + 1) : i \in 1..m \/ i = m + 1
    BY <1>4
  <2>2. \A i \in 1..(m + 1) : means(more)[i] = a[i]
    BY <1>3, <1>5, <1>6, <1>7, <2>1
  <2> QED BY <1>5, <1>6, <1>7, <2>2, SeqEqual
<1>9. MapOf(log) = MadeOf(means(log)) /\ MapOf(more) = MadeOf(means(more))
  BY DEF MapOf
<1> HIDE DEF means
<1>10. MadeOf(a) = Apply(MadeOf(means(log)), MeaningOf(e)) /\ MadeOf(means(log)) \in Seq(Inputs)
  BY <1>5, MadeOfAppend
<1> HIDE DEF a
<1> QED BY <1>5, <1>8, <1>9, <1>10, ApplyTyped

LEMMA MapOfNothing ==
  /\ MapOf(<<>>) = <<>> /\ \A log : MapOf(SubSeq(log, 1, 0)) = <<>>
<1>1. <<>> \in Seq(Inputs) /\ Len(<<>>) = 0
  BY EmptySeq
<1>2. MadeOf(<<>>) = <<>>
  <2>1. PICK st \in [0..Len(<<>>) -> Seq(Inputs)] : st[0] = <<>> /\ MadeOf(<<>>) = st[Len(<<>>)]
    BY <1>1, MadeOfSteps
  <2> QED BY <1>1, <2>1
<1>3. [i \in DOMAIN <<>> |-> MeaningOf(<<>>[i])] = <<>>
  OBVIOUS
<1>4. \A log : SubSeq(log, 1, 0) = <<>>
  OBVIOUS
<1> QED BY <1>2, <1>3, <1>4 DEF MapOf

LEMMA PartsOfLog ==
  ASSUME NEW L, NEW log \in Seq(L), NEW n \in 0..Len(log)
  PROVE  /\ SubSeq(log, 1, n) \in Seq(L) /\ Len(SubSeq(log, 1, n)) = n
         /\ \A i \in 1..n : SubSeq(log, 1, n)[i] = log[i]
         /\ IsPrefix(SubSeq(log, 1, n), log)
<1>1. Len(log) \in Nat /\ n \in Nat /\ n <= Len(log)
  OBVIOUS
<1>2. SubSeq(log, 1, n) = [i \in 1..n |-> log[i]]
  <2>1. SubSeq(log, 1, n) = [i \in 1..(1 + n - 1) |-> log[1 + i - 1]]
    BY <1>1
  <2>2. 1..(1 + n - 1) = 1..n /\ \A i \in 1..n : 1 + i - 1 = i
    BY <1>1
  <2> QED BY <2>1, <2>2
<1>3. \A i \in 1..n : log[i] \in L
  BY <1>1
<1>4. /\ SubSeq(log, 1, n) \in Seq(L) /\ Len(SubSeq(log, 1, n)) = n
      /\ \A i \in 1..n : SubSeq(log, 1, n)[i] = log[i]
  BY <1>1, <1>2, <1>3
<1> QED BY <1>1, <1>4, PrefixIs

LEMMA PartsGrow ==
  ASSUME NEW L, NEW log \in Seq(L)
  PROVE  /\ SubSeq(log, 1, Len(log)) = log
         /\ \A n \in 0..(Len(log) - 1) :
              SubSeq(log, 1, n + 1) = Append(SubSeq(log, 1, n), log[n + 1])
<1>1. Len(log) \in Nat
  OBVIOUS
<1>2. SubSeq(log, 1, Len(log)) = log
  <2> DEFINE a == SubSeq(log, 1, Len(log))
  <2>1. Len(log) \in 0..Len(log)
    BY <1>1
  <2>2. a \in Seq(L) /\ Len(a) = Len(log) /\ \A i \in 1..Len(log) : a[i] = log[i]
    BY <2>1, PartsOfLog
  <2> HIDE DEF a
  <2>3. a = log
    BY <2>2, SeqEqual
  <2> QED BY <2>3 DEF a
<1>3. ASSUME NEW n \in 0..(Len(log) - 1)
      PROVE  SubSeq(log, 1, n + 1) = Append(SubSeq(log, 1, n), log[n + 1])
  <2> DEFINE a == SubSeq(log, 1, n)
             b == SubSeq(log, 1, n + 1)
             c == Append(a, log[n + 1])
  <2>1. n \in 0..Len(log) /\ n + 1 \in 0..Len(log) /\ n + 1 \in 1..Len(log) /\ n \in Nat
    BY <1>1
  <2>2. a \in Seq(L) /\ Len(a) = n /\ \A i \in 1..n : a[i] = log[i]
    BY <2>1, PartsOfLog
  <2>3. b \in Seq(L) /\ Len(b) = n + 1 /\ \A i \in 1..(n + 1) : b[i] = log[i]
    BY <2>1, PartsOfLog
  <2>4. log[n + 1] \in L
    BY <2>1
  <2> HIDE DEF a, b
  <2>5. /\ c \in Seq(L) /\ Len(c) = Len(a) + 1 /\ \A i \in 1..Len(a) : c[i] = a[i]
        /\ c[Len(a) + 1] = log[n + 1]
    BY <2>2, <2>4, AppendProperties
  <2> HIDE DEF c
  <2>6. \A i \in 1..(n + 1) : i \in 1..n \/ i = n + 1
    BY <2>1
  <2>7. \A i \in 1..(n + 1) : b[i] = c[i]
    BY <2>2, <2>3, <2>5, <2>6
  <2>8. b = c
    BY <2>2, <2>3, <2>5, <2>7, SeqEqual
  <2> QED BY <2>8 DEF a, b, c
<1> QED BY <1>2, <1>3

(* A log that goes on makes a map that goes on.                             *)
LEMMA MapOfPrefix ==
  ASSUME NEW part \in Seq(LogEntry), NEW log \in Seq(LogEntry), IsPrefix(part, log)
  PROVE  IsPrefix(MapOf(part), MapOf(log))
<1> DEFINE n == Len(part)
           m == Len(log)
           to(k) == SubSeq(log, 1, n + k)
           U == {k \in 0..(m - n) : IsPrefix(MapOf(part), MapOf(to(k)))}
<1>1. n \in Nat /\ m \in Nat /\ n <= m /\ \A i \in 1..n : part[i] = log[i]
  BY PrefixIs
<1>2. to(0) = part
  <2> DEFINE a == SubSeq(log, 1, n)
  <2>1. n \in 0..m
    BY <1>1
  <2>2. a \in Seq(LogEntry) /\ Len(a) = n /\ \A i \in 1..n : a[i] = log[i]
    BY <2>1, PartsOfLog
  <2> HIDE DEF a
  <2>3. a = part
    BY <1>1, <2>2, SeqEqual
  <2>4. n + 0 = n
    BY <1>1
  <2> QED BY <2>3, <2>4 DEF a
<1>3. MapOf(part) \in Seq(Inputs)
  BY MapOfTyped
<1>4. 0 \in U
  <2> HIDE DEF to, n, m
  <2>1. IsPrefix(MapOf(part), MapOf(to(0)))
    BY <1>2, <1>3, PrefixFacts
  <2> QED BY <1>1, <2>1
<1>5. ASSUME NEW k \in 0..((m - n) - 1), k \in U PROVE k + 1 \in U
  <2>1. n + k \in 0..(m - 1) /\ n + k \in 0..m /\ n + (k + 1) = (n + k) + 1
        /\ k + 1 \in 0..(m - n) /\ (n + k) + 1 \in 1..m
    BY <1>1
  <2>2. to(k) \in Seq(LogEntry) /\ log[(n + k) + 1] \in LogEntry
    BY <2>1, PartsOfLog
  <2>3. to(k + 1) = Append(to(k), log[(n + k) + 1])
    BY <2>1, PartsGrow
  <2> HIDE DEF to
  <2>4. /\ MapOf(to(k)) \in Seq(Inputs)
        /\ MapOf(to(k + 1)) \in Seq(Inputs)
        /\ IsPrefix(MapOf(to(k)), MapOf(to(k + 1)))
    <3>1. Append(to(k), log[(n + k) + 1]) \in Seq(LogEntry)
      BY <2>2, AppendProperties
    <3> QED BY <2>2, <2>3, <3>1, MapOfAppend, MapOfTyped
  <2>5. IsPrefix(MapOf(part), MapOf(to(k)))
    BY <1>5
  <2>6. IsPrefix(MapOf(part), MapOf(to(k + 1)))
    BY <1>3, <2>4, <2>5, PrefixFacts
  <2> QED BY <2>1, <2>6
<1>6. m - n \in U
  <2> HIDE DEF U
  <2>1. m - n \in Nat
    BY <1>1
  <2> QED BY <1>4, <1>5, <2>1, UpTo
<1>7. to(m - n) = log
  <2>1. n + (m - n) = m
    BY <1>1
  <2> QED BY <2>1, PartsGrow
<1> HIDE DEF to
<1> QED BY <1>6, <1>7

-----------------------------------------------------------------------------
(***************************************************************************)
(* The live run.                                                           *)
(***************************************************************************)
LEMMA Initially == Init => IInv
<1> SUFFICES ASSUME Init PROVE IInv
  OBVIOUS
<1> USE DEF Init, Log!Init
<1>1. TypeInv
  <2>1. <<>> \in Seq(Inputs) /\ <<>> \in Seq(LogEntry) /\ Len(<<>>) = 0
    BY EmptySeq
  <2>2. clouds \in [Clouds -> {"points", "changed"}]
        /\ request \in [FrontEnds -> SUBSET {[kf |-> KeyframeAt(t), entry |-> EntryAt(t)] : t \in Times}]
    OBVIOUS
  <2>3. map \in Seq(Inputs) /\ replayed \in Seq(Inputs) /\ solved \in Seq(Inputs)
        /\ logged \in Seq(LogEntry) /\ file \in Seq(LogEntry) /\ Len(file) = 0
    BY <2>1
  <2>4. {recorder_, attached, finalized_, replayer} \subseteq BOOLEAN
    BY Zenon
  <2>5. entries = 0 /\ phase = "open"
    OBVIOUS
  <2>6. {given, first, lastSolve, lastScan, solves, scans, solvedScans} \subseteq Nat
    BY DEF Never
  <2> HIDE DEF Init, Log!Init
  <2> QED BY <2>2, <2>3, <2>4, <2>5, <2>6 DEF TypeInv, Phases
<1>2. InTurn
  BY DEF InTurn, Running
<1>3. LogIsOfMap
  <2>1. <<>> \in Seq(Inputs)
    BY EmptySeq
  <2>2. IsPrefix(<<>>, <<>>)
    BY <2>1, PrefixFacts
  <2> QED BY <2>2, MapOfNothing DEF LogIsOfMap
<1>4. FileIsOfLog
  BY DEF FileIsOfLog, Running
<1>5. ReplayedIsOfFile
  BY MapOfNothing DEF ReplayedIsOfFile
<1>6. Scheduled
  <2>1. <<>> \in Seq(Inputs) /\ Len(<<>>) = 0
    BY EmptySeq
  <2>2. IsPrefix(solved, replayed)
    BY <2>1, PrefixFacts
  <2>3. KeyframesOf(replayed) = {}
    BY DEF KeyframesOf
  <2>4. Unsolved = {}
    <3>1. SubSeq(<<>>, 1, 0) = <<>>
      OBVIOUS
    <3>2. KeyframesOf(SubSeq(<<>>, 0 + 1, 0)) = {}
      BY <3>1 DEF KeyframesOf
    <3> QED BY <2>1, <3>2 DEF Unsolved
  <2> QED BY <2>2, <2>3, <2>4, PeriodsAssumption DEF Scheduled, Never
<1> QED BY <1>1, <1>2, <1>3, <1>4, <1>5, <1>6 DEF IInv

(* The critical section that takes an input and records it.                 *)
LEMMA TakeKeepsLog ==
  ASSUME IInv, NEW e \in Inputs, NEW entry \in LogEntry, MeaningOf(entry) = e,
         Take(e, entry), recorder_, Running, phase' = phase
  PROVE  map' \in Seq(Inputs) /\ logged' \in Seq(LogEntry) /\ LogIsOfMap'
<1>1. map \in Seq(Inputs) /\ logged \in Seq(LogEntry) /\ LogIsOfMap
      /\ MapOf(logged) \in Seq(Inputs)
  BY MapOfTyped DEF IInv, TypeInv
<1>2. CASE ~TakesInput
  BY <1>1, <1>2 DEF Take, LogIsOfMap
<1>3. CASE TakesInput /\ phase = "open"
  <2>1. logged' = Append(logged, entry) /\ map' = Apply(map, e) /\ map = MapOf(logged)
    BY <1>1, <1>3 DEF Take, LogIsOfMap
  <2>2. logged' \in Seq(LogEntry) /\ map' = MapOf(logged')
    BY <1>1, <2>1, MapOfAppend, AppendProperties
  <2>3. map' \in Seq(Inputs)
    BY <2>2, MapOfTyped
  <2>4. IsPrefix(map', map')
    BY <2>3, PrefixFacts
  <2> QED BY <2>2, <2>3, <2>4 DEF LogIsOfMap
<1>4. CASE TakesInput /\ phase # "open"
  <2>1. phase \notin {"open", "closing", "stored"}
    BY <1>4 DEF IInv, InTurn, TakesInput
  <2>2. logged' = logged /\ map' = Apply(map, e)
    BY <1>4 DEF Take
  <2>3. map' \in Seq(Inputs) /\ IsPrefix(map, map')
    BY <1>1, <2>2, ApplyTyped
  <2>4. IsPrefix(MapOf(logged), map')
    BY <1>1, <2>3, PrefixFacts DEF LogIsOfMap
  <2> QED BY <1>1, <2>1, <2>2, <2>3, <2>4 DEF LogIsOfMap
<1> QED BY <1>2, <1>3, <1>4

(* What the live run leaves alone.                                          *)
LEMMA LiveKeepsReplay ==
  ASSUME IInv, UNCHANGED replayVars, UNCHANGED file
  PROVE  /\ ReplayedIsOfFile' /\ Scheduled'
         /\ entries' \in 0..Len(file') /\ replayed' \in Seq(Inputs)
         /\ solved' \in Seq(Inputs) /\ replayer' \in BOOLEAN
         /\ {first', lastSolve', lastScan', solves', scans', solvedScans'} \subseteq Nat
<1>1. /\ replayer' = replayer /\ replayed' = replayed /\ entries' = entries
      /\ first' = first /\ lastSolve' = lastSolve /\ lastScan' = lastScan
      /\ solves' = solves /\ scans' = scans /\ solved' = solved
      /\ solvedScans' = solvedScans /\ file' = file
  BY DEF replayVars
<1>2. ReplayedIsOfFile'
  BY <1>1 DEF IInv, ReplayedIsOfFile
<1>3. Scheduled'
  BY <1>1 DEF IInv, Scheduled, Unsolved
<1> QED BY <1>1, <1>2, <1>3 DEF IInv, TypeInv

RequestSets == SUBSET {[kf |-> KeyframeAt(t), entry |-> EntryAt(t)] : t \in Times}

(* What a step of the live run that is not one of the log's has to show.    *)
LEMMA LiveStep ==
  ASSUME IInv, UNCHANGED replayVars, UNCHANGED <<phase, file>>,
         {recorder_', attached', finalized_'} \subseteq BOOLEAN, given' \in Nat,
         clouds' \in [Clouds -> {"points", "changed"}],
         request' \in [FrontEnds -> RequestSets],
         attached' => recorder_',
         (\E f \in FrontEnds : request'[f] # {}) => attached',
         finalized_ => finalized_',
         \/ UNCHANGED <<map, logged>>
         \/ Running /\ map' \in Seq(Inputs) /\ logged' \in Seq(LogEntry) /\ LogIsOfMap'
  PROVE  IInv'
<1>1. phase' = phase /\ file' = file /\ replayer' = replayer /\ entries' = entries
  BY DEF replayVars
<1>2. /\ ReplayedIsOfFile' /\ Scheduled'
      /\ entries' \in 0..Len(file') /\ replayed' \in Seq(Inputs)
      /\ solved' \in Seq(Inputs) /\ replayer' \in BOOLEAN
      /\ {first', lastSolve', lastScan', solves', scans', solvedScans'} \subseteq Nat
  BY LiveKeepsReplay
<1>3. map' \in Seq(Inputs) /\ logged' \in Seq(LogEntry) /\ LogIsOfMap'
  BY <1>1 DEF IInv, TypeInv, LogIsOfMap
<1>4. file' \in Seq(LogEntry) /\ phase' \in Phases
  BY <1>1 DEF IInv, TypeInv
<1>5. {recorder_', attached', finalized_', replayer'} \subseteq BOOLEAN
  BY <1>2
<1>6. {given', first', lastSolve', lastScan', solves', scans', solvedScans'} \subseteq Nat
  BY <1>2
<1>7. TypeInv'
  BY <1>2, <1>3, <1>4, <1>5, <1>6 DEF TypeInv, RequestSets
<1>8. InTurn'
  BY <1>1 DEF IInv, InTurn, Running
<1>9. FileIsOfLog'
  BY <1>1 DEF IInv, FileIsOfLog, Running
<1> QED BY <1>2, <1>3, <1>7, <1>8, <1>9 DEF IInv

LEMMA LiveTypes ==
  ASSUME IInv
  PROVE  /\ recorder_ \in BOOLEAN /\ attached \in BOOLEAN /\ finalized_ \in BOOLEAN
         /\ given \in Nat /\ clouds \in [Clouds -> {"points", "changed"}]
         /\ request \in [FrontEnds -> RequestSets]
         /\ attached => recorder_
         /\ (\E f \in FrontEnds : request[f] # {}) => attached
BY DEF IInv, TypeInv, InTurn, RequestSets

LEMMA StartKeeps == IInv /\ (OpenRecorder \/ AttachSources) => IInv'
<1> SUFFICES ASSUME IInv, OpenRecorder \/ AttachSources PROVE IInv'
  OBVIOUS
<1>1. /\ UNCHANGED replayVars /\ UNCHANGED <<phase, file>> /\ UNCHANGED <<map, logged>>
      /\ given' = given /\ clouds' = clouds /\ request' = request /\ finalized_' = finalized_
  BY DEF OpenRecorder, AttachSources, liveVars, logVars
<1>2. recorder_' = TRUE /\ (attached' = TRUE \/ attached' = attached)
  <2>1. CASE OpenRecorder
    BY <2>1 DEF OpenRecorder
  <2>2. CASE AttachSources
    BY <2>2, LiveTypes DEF AttachSources
  <2> QED BY <2>1, <2>2
<1>3. attached => attached'
  BY <1>2
<1>4. {recorder_', attached', finalized_'} \subseteq BOOLEAN
  BY <1>1, <1>2, LiveTypes
<1>5. (\E f \in FrontEnds : request'[f] # {}) => attached'
  BY <1>1, <1>3, LiveTypes
<1> QED BY <1>1, <1>2, <1>4, <1>5, LiveTypes, LiveStep

LEMMA ObserveKeeps ==
  ASSUME IInv, NEW r \in Readings, Observe(r)
  PROVE  IInv'
<1>1. /\ attached /\ Running /\ given' = given + 1 /\ Take(r, r)
      /\ UNCHANGED replayVars /\ UNCHANGED <<phase, file>>
      /\ recorder_' = recorder_ /\ attached' = attached /\ clouds' = clouds
      /\ finalized_' = finalized_ /\ request' = request
  BY DEF Observe, IsGiven, startVars
<1>2. r \in Inputs /\ r \in LogEntry /\ MeaningOf(r) = r
  BY DEF Inputs, LogEntry, MeaningOf, Readings
<1>3. map' \in Seq(Inputs) /\ logged' \in Seq(LogEntry) /\ LogIsOfMap'
  BY <1>1, <1>2, LiveTypes, TakeKeepsLog
<1>4. {recorder_', attached', finalized_'} \subseteq BOOLEAN
  BY <1>1, LiveTypes
<1>5. given' \in Nat
  BY <1>1, LiveTypes
<1> QED BY <1>1, <1>3, <1>4, <1>5, LiveTypes, LiveStep

LEMMA EncodeKeeps ==
  ASSUME IInv, NEW f \in FrontEnds, NEW t \in Times, NEW scan \in Clouds,
         Encode(f, t, scan)
  PROVE  IInv'
<1>1. /\ attached /\ given' = given + 1 /\ clouds[scan] = "points"
      /\ request' = [request EXCEPT ![f] =
           {[kf |-> Request(t, clouds[scan]),
             entry |-> [type |-> "frame", frame |-> Encoded(clouds, Request(t, scan))]]}]
      /\ UNCHANGED replayVars /\ UNCHANGED <<phase, file>> /\ UNCHANGED <<map, logged>>
      /\ recorder_' = recorder_ /\ attached' = attached /\ clouds' = clouds
      /\ finalized_' = finalized_
  BY DEF Encode, IsGiven, startVars, logVars
<1>2. request' = [request EXCEPT ![f] = {[kf |-> KeyframeAt(t), entry |-> EntryAt(t)]}]
  <2>1. Request(t, clouds[scan]) = KeyframeAt(t)
        /\ Encoded(clouds, Request(t, scan)) = FrameAt(t)
    BY <1>1, EncodedIsFrame DEF IInv
  <2> QED BY <1>1, <2>1 DEF EntryAt
<1>3. {[kf |-> KeyframeAt(t), entry |-> EntryAt(t)]} \in RequestSets
  BY DEF RequestSets
<1>4. request' \in [FrontEnds -> RequestSets]
  <2> HIDE DEF RequestSets
  <2> QED BY <1>2, <1>3, LiveTypes
<1>5. {recorder_', attached', finalized_'} \subseteq BOOLEAN
  BY <1>1, LiveTypes
<1>6. given' \in Nat
  BY <1>1, LiveTypes
<1> QED BY <1>1, <1>4, <1>5, <1>6, LiveTypes, LiveStep

LEMMA InsertKeyframeKeeps ==
  ASSUME IInv, NEW f \in FrontEnds, InsertKeyframe(f)
  PROVE  IInv'
<1>1. PICK r \in request[f] : Take(r.kf, r.entry)
  BY DEF InsertKeyframe
<1>2. /\ Running
      /\ request' = [request EXCEPT ![f] = {}]
      /\ UNCHANGED replayVars /\ UNCHANGED <<phase, file>> /\ given' = given
      /\ recorder_' = recorder_ /\ attached' = attached /\ clouds' = clouds
      /\ finalized_' = finalized_
  BY DEF InsertKeyframe, startVars
<1>3. PICK t \in Times : r = [kf |-> KeyframeAt(t), entry |-> EntryAt(t)]
  BY LiveTypes DEF RequestSets
<1>4. r.kf \in Inputs /\ r.entry \in LogEntry /\ MeaningOf(r.entry) = r.kf
  <2>1. EntryAt(t).type = "frame" /\ EntryAt(t).frame[3] = RequestAt(t)
    BY TuplesOfThree DEF EntryAt, FrameAt
  <2>2. MeaningOf(EntryAt(t)) = KeyframeAt(t)
    BY <2>1 DEF MeaningOf, RequestAt, Comment
  <2> QED BY <1>3, <2>2 DEF Inputs, Keyframes, LogEntry, Frames
<1>5. attached /\ recorder_
  BY LiveTypes
<1>6. map' \in Seq(Inputs) /\ logged' \in Seq(LogEntry) /\ LogIsOfMap'
  BY <1>1, <1>2, <1>4, <1>5, TakeKeepsLog
<1>7. request' \in [FrontEnds -> RequestSets]
  <2>1. {} \in RequestSets
    BY DEF RequestSets
  <2> HIDE DEF RequestSets
  <2> QED BY <1>2, <2>1, LiveTypes
<1>8. {recorder_', attached', finalized_'} \subseteq BOOLEAN
  BY <1>2, LiveTypes
<1> QED BY <1>2, <1>5, <1>6, <1>7, <1>8, LiveTypes, LiveStep

LEMMA CloudsAndEndKeep == IInv /\ (ChangeCloud \/ FinalizeBegin) => IInv'
<1> SUFFICES ASSUME IInv, ChangeCloud \/ FinalizeBegin PROVE IInv'
  OBVIOUS
<1>1. /\ UNCHANGED replayVars /\ UNCHANGED <<phase, file>> /\ UNCHANGED <<map, logged>>
      /\ given' = given /\ request' = request
      /\ recorder_' = recorder_ /\ attached' = attached
  BY DEF ChangeCloud, FinalizeBegin, startVars, liveVars, logVars
<1>2. clouds' \in [Clouds -> {"points", "changed"}]
  <2>1. CASE ChangeCloud
    BY <2>1, LiveTypes DEF ChangeCloud
  <2>2. CASE FinalizeBegin
    BY <2>2, LiveTypes DEF FinalizeBegin
  <2> QED BY <2>1, <2>2
<1>3. finalized_' = TRUE \/ finalized_' = finalized_
  BY DEF ChangeCloud, FinalizeBegin, liveVars
<1>4. {recorder_', attached', finalized_'} \subseteq BOOLEAN
  BY <1>1, <1>3, LiveTypes
<1> QED BY <1>1, <1>2, <1>3, <1>4, LiveTypes, LiveStep

(* The end of the recording.                                                *)
LEMMA RecordingKeeps ==
  ASSUME IInv, FinalizeClose \/ RecordingBreaks
  PROVE  IInv' /\ Running
<1>1. /\ (Log!Close /\ finalized_) \/ Log!Fail \/ Log!Store \/ Log!Cut
      /\ UNCHANGED startVars /\ UNCHANGED clouds /\ UNCHANGED liveVars /\ UNCHANGED replayVars
  BY DEF FinalizeClose, RecordingBreaks
<1>2. /\ recorder_' = recorder_ /\ attached' = attached /\ clouds' = clouds /\ map' = map
      /\ finalized_' = finalized_ /\ request' = request /\ given' = given
      /\ replayer' = replayer /\ replayed' = replayed /\ entries' = entries
      /\ first' = first /\ lastSolve' = lastSolve /\ lastScan' = lastScan
      /\ solves' = solves /\ scans' = scans /\ solved' = solved
      /\ solvedScans' = solvedScans
  BY <1>1 DEF startVars, liveVars, replayVars
<1>3. Running /\ logged' = logged /\ phase' \in Phases
  BY <1>1 DEF Running, Phases, Log!Close, Log!Fail, Log!Store, Log!Cut
<1>4. ~replayer /\ entries = 0
  BY <1>3 DEF IInv, InTurn
<1>5. logged \in Seq(LogEntry) /\ Len(logged) \in Nat
  BY DEF IInv, TypeInv
<1>6. /\ file' \in Seq(LogEntry)
      /\ phase' \in {"stored", "cut"} => IsPrefix(file', logged)
      /\ phase' = "stored" => file' = logged
  <2>1. CASE Log!Close \/ Log!Fail
    BY <2>1 DEF Log!Close, Log!Fail, IInv, TypeInv
  <2>2. CASE Log!Store
    BY <1>5, <2>2, PrefixFacts DEF Log!Store
  <2>3. CASE Log!Cut
    <3>1. PICK n \in 0..Len(logged) : file' = SubSeq(logged, 1, n)
      BY <2>3 DEF Log!Cut
    <3>2. phase' = "cut"
      BY <2>3 DEF Log!Cut
    <3> QED BY <1>5, <3>1, <3>2, PartsOfLog
  <2> QED BY <1>1, <2>1, <2>2, <2>3
<1>7. TypeInv'
  <2>1. entries' \in 0..Len(file')
    <3>1. Len(file') \in Nat
      BY <1>6
    <3> QED BY <1>2, <1>4, <3>1
  <2>2. {recorder_', attached', finalized_', replayer'} \subseteq BOOLEAN
    BY <1>2 DEF IInv, TypeInv
  <2> QED BY <1>2, <1>3, <1>6, <2>1, <2>2 DEF IInv, TypeInv
<1>8. InTurn'
  <2>1. phase' \in {"closing", "stored"} => finalized_
    BY <1>1 DEF IInv, InTurn, Log!Close, Log!Fail, Log!Store, Log!Cut
  <2> QED BY <1>2, <1>4, <2>1 DEF IInv, InTurn
<1>9. LogIsOfMap'
  <2>1. phase' \in {"open", "closing", "stored"} => phase \in {"open", "closing", "stored"}
    BY <1>1 DEF Log!Close, Log!Fail, Log!Store, Log!Cut
  <2> QED BY <1>2, <1>3, <2>1 DEF IInv, LogIsOfMap
<1>10. FileIsOfLog'
  <2>1. ~Running' => phase' \in {"stored", "cut"}
    BY DEF Running
  <2> QED BY <1>3, <1>6, <2>1 DEF FileIsOfLog
<1>11. ReplayedIsOfFile'
  BY <1>2, <1>4, MapOfNothing DEF IInv, ReplayedIsOfFile
<1>12. Scheduled'
  BY <1>2 DEF IInv, Scheduled, Unsolved
<1> QED BY <1>3, <1>7, <1>8, <1>9, <1>10, <1>11, <1>12 DEF IInv

-----------------------------------------------------------------------------
(***************************************************************************)
(* The replay.                                                             *)
(***************************************************************************)
LEMMA StartReplayKeeps ==
  ASSUME IInv, StartReplay
  PROVE  IInv' /\ file' = file
<1>1. /\ ~Running /\ replayer' = TRUE /\ file' = file
      /\ recorder_' = recorder_ /\ attached' = attached /\ clouds' = clouds /\ map' = map
      /\ finalized_' = finalized_ /\ request' = request /\ given' = given
      /\ logged' = logged /\ phase' = phase
      /\ replayed' = replayed /\ entries' = entries
      /\ first' = first /\ lastSolve' = lastSolve /\ lastScan' = lastScan
      /\ solves' = solves /\ scans' = scans /\ solved' = solved
      /\ solvedScans' = solvedScans
  BY DEF StartReplay, startVars, liveVars, logVars
<1>2. TypeInv'
  <2>1. {recorder_', attached', finalized_', replayer'} \subseteq BOOLEAN
    BY <1>1 DEF IInv, TypeInv
  <2> QED BY <1>1, <2>1 DEF IInv, TypeInv
<1>3. InTurn'
  BY <1>1 DEF IInv, InTurn, Running
<1>4. LogIsOfMap' /\ FileIsOfLog'
  BY <1>1 DEF IInv, LogIsOfMap, FileIsOfLog, Running
<1>5. ReplayedIsOfFile'
  BY <1>1 DEF IInv, ReplayedIsOfFile
<1>6. Scheduled'
  BY <1>1 DEF IInv, Scheduled, Unsolved
<1> QED BY <1>1, <1>2, <1>3, <1>4, <1>5, <1>6 DEF IInv

(* The keyframes of a map that an input is added to, and those after a part *)
(* of it.                                                                   *)
LEMMA KeyframesOfAppend ==
  ASSUME NEW m \in Seq(Inputs), NEW e \in Inputs
  PROVE  KeyframesOf(Append(m, e)) =
           KeyframesOf(m) \cup (IF IsKeyframe(e) THEN {e} ELSE {})
<1> DEFINE a == Append(m, e)
<1>1. /\ a \in Seq(Inputs) /\ Len(a) = Len(m) + 1
      /\ \A i \in 1..Len(m) : a[i] = m[i]
      /\ a[Len(m) + 1] = e
  BY AppendProperties
<1>2. /\ DOMAIN m = 1..Len(m) /\ Len(m) \in Nat
  OBVIOUS
<1> HIDE DEF a
<1>3. DOMAIN a = 1..(Len(m) + 1)
  BY <1>1
<1>4. \A i \in 1..(Len(m) + 1) : i \in 1..Len(m) \/ i = Len(m) + 1
  BY <1>2
<1>5. 1..Len(m) \subseteq 1..(Len(m) + 1) /\ Len(m) + 1 \in 1..(Len(m) + 1)
  BY <1>2
<1>6. KeyframesOf(a) = KeyframesOf(m) \cup (IF IsKeyframe(e) THEN {e} ELSE {})
  <2>1. ASSUME NEW k \in KeyframesOf(a)
        PROVE  k \in KeyframesOf(m) \/ (IsKeyframe(e) /\ k = e)
    <3>1. PICK i \in 1..(Len(m) + 1) : IsKeyframe(a[i]) /\ k = a[i]
      BY <1>3, <2>1 DEF KeyframesOf
    <3>2. CASE i \in 1..Len(m)
      BY <1>1, <1>2, <3>1, <3>2 DEF KeyframesOf
    <3>3. CASE i = Len(m) + 1
      BY <1>1, <3>1, <3>3
    <3> QED BY <1>4, <3>2, <3>3
  <2>2. ASSUME NEW k \in KeyframesOf(m) PROVE k \in KeyframesOf(a)
    <3>1. PICK i \in 1..Len(m) : IsKeyframe(m[i]) /\ k = m[i]
      BY <1>2, <2>2 DEF KeyframesOf
    <3>2. a[i] = m[i] /\ i \in DOMAIN a
      BY <1>1, <1>3, <1>5
    <3> QED BY <3>1, <3>2 DEF KeyframesOf
  <2>3. IsKeyframe(e) => e \in KeyframesOf(a)
    BY <1>1, <1>3, <1>5 DEF KeyframesOf
  <2> QED BY <2>1, <2>2, <2>3
<1> QED BY <1>6 DEF a

LEMMA RestOf ==
  ASSUME NEW m \in Seq(Inputs), NEW n \in 0..Len(m)
  PROVE  /\ \A k : k \in KeyframesOf(SubSeq(m, n + 1, Len(m)))
               <=> \E i \in (n + 1)..Len(m) : IsKeyframe(m[i]) /\ k = m[i]
<1>1. Len(m) \in Nat /\ n \in Nat /\ n <= Len(m)
  OBVIOUS
<1> DEFINE rest == SubSeq(m, n + 1, Len(m))
<1>2. rest = [i \in 1..(Len(m) - n) |-> m[n + i]]
  <2>1. rest = [i \in 1..(Len(m) + 1 - (n + 1)) |-> m[n + 1 + i - 1]]
    BY <1>1
  <2>2. 1..(Len(m) + 1 - (n + 1)) = 1..(Len(m) - n)
        /\ \A i \in 1..(Len(m) - n) : n + 1 + i - 1 = n + i
    BY <1>1
  <2> HIDE DEF rest
  <2> QED BY <2>1, <2>2
<1> HIDE DEF rest
<1>3. DOMAIN rest = 1..(Len(m) - n) /\ \A i \in 1..(Len(m) - n) : rest[i] = m[n + i]
  BY <1>2
<1>4. ASSUME NEW k, k \in KeyframesOf(rest)
      PROVE  \E i \in (n + 1)..Len(m) : IsKeyframe(m[i]) /\ k = m[i]
  <2>1. PICK i \in 1..(Len(m) - n) : IsKeyframe(rest[i]) /\ k = rest[i]
    BY <1>3, <1>4 DEF KeyframesOf
  <2>2. n + i \in (n + 1)..Len(m)
    BY <1>1
  <2> QED BY <1>3, <2>1, <2>2
<1>5. ASSUME NEW i \in (n + 1)..Len(m), IsKeyframe(m[i])
      PROVE  m[i] \in KeyframesOf(rest)
  <2>1. i - n \in 1..(Len(m) - n) /\ n + (i - n) = i
    BY <1>1
  <2>2. rest[i - n] = m[i]
    BY <1>3, <2>1
  <2> QED BY <1>3, <1>5, <2>1, <2>2 DEF KeyframesOf
<1> QED BY <1>4, <1>5 DEF rest

(* After an input is applied, and perhaps solved.                           *)
LEMMA UnsolvedAfter ==
  ASSUME NEW m \in Seq(Inputs), NEW s \in Seq(Inputs), IsPrefix(s, m), NEW e \in Inputs
  PROVE  /\ IsPrefix(s, Apply(m, e)) /\ IsPrefix(Apply(m, e), Apply(m, e))
         /\ KeyframesOf(m) \subseteq KeyframesOf(Apply(m, e))
         /\ KeyframesOf(SubSeq(m, Len(s) + 1, Len(m))) \subseteq KeyframesOf(m)
         /\ KeyframesOf(SubSeq(Apply(m, e), Len(Apply(m, e)) + 1, Len(Apply(m, e)))) = {}
         /\ \A k \in KeyframesOf(SubSeq(Apply(m, e), Len(s) + 1, Len(Apply(m, e)))) :
              \/ k \in KeyframesOf(SubSeq(m, Len(s) + 1, Len(m)))
              \/ k = e /\ IsKeyframe(e)
<1> DEFINE a == Apply(m, e)
<1>1. a \in {m, Append(m, e)} /\ a \in Seq(Inputs) /\ IsPrefix(m, a)
  BY ApplyTyped
<1>2. IsPrefix(s, a) /\ IsPrefix(a, a)
  <2> HIDE DEF a
  <2> QED BY <1>1, PrefixFacts
<1>3. KeyframesOf(m) \subseteq KeyframesOf(a)
  <2> HIDE DEF a
  <2> QED BY <1>1, KeyframesOfAppend
<1>4. Len(s) \in 0..Len(m) /\ Len(m) \in Nat
  BY PrefixIs
<1>5. KeyframesOf(SubSeq(m, Len(s) + 1, Len(m))) \subseteq KeyframesOf(m)
  <2>1. \A i \in (Len(s) + 1)..Len(m) : i \in DOMAIN m
    BY <1>4
  <2>2. \A k \in KeyframesOf(SubSeq(m, Len(s) + 1, Len(m))) :
          \E i \in (Len(s) + 1)..Len(m) : IsKeyframe(m[i]) /\ k = m[i]
    BY <1>4, RestOf
  <2> QED BY <2>1, <2>2 DEF KeyframesOf
<1>6. Len(a) \in Nat /\ Len(s) \in 0..Len(a)
  <2> HIDE DEF a
  <2> QED BY <1>1, <1>2, PrefixIs
<1>7. KeyframesOf(SubSeq(a, Len(a) + 1, Len(a))) = {}
  <2> HIDE DEF a
  <2>1. Len(a) \in 0..Len(a) /\ (Len(a) + 1)..Len(a) = {}
    BY <1>6
  <2> QED BY <1>1, <2>1, RestOf
<1>8. ASSUME NEW k \in KeyframesOf(SubSeq(a, Len(s) + 1, Len(a)))
      PROVE  \/ k \in KeyframesOf(SubSeq(m, Len(s) + 1, Len(m)))
             \/ k = e /\ IsKeyframe(e)
  <2>1. CASE a = m
    BY <1>8, <2>1
  <2>2. CASE a = Append(m, e)
    <3>1. /\ Len(a) = Len(m) + 1
          /\ \A i \in 1..Len(m) : a[i] = m[i]
          /\ a[Len(m) + 1] = e
      BY <2>2, AppendProperties
    <3> HIDE DEF a
    <3>2. PICK i \in (Len(s) + 1)..Len(a) : IsKeyframe(a[i]) /\ k = a[i]
      BY <1>1, <1>6, <1>8, RestOf
    <3>3. (i \in (Len(s) + 1)..Len(m) /\ i \in 1..Len(m)) \/ i = Len(m) + 1
      BY <1>4, <3>1
    <3>4. CASE i \in (Len(s) + 1)..Len(m) /\ i \in 1..Len(m)
      <4>1. IsKeyframe(m[i]) /\ k = m[i]
        BY <3>1, <3>2, <3>4
      <4> QED BY <1>4, <3>4, <4>1, RestOf
    <3>5. CASE i = Len(m) + 1
      BY <3>1, <3>2, <3>5
    <3> QED BY <3>3, <3>4, <3>5
  <2> HIDE DEF a
  <2> QED BY <1>1, <2>1, <2>2
<1> QED BY <1>2, <1>3, <1>5, <1>7, <1>8 DEF a

(* The first keyframe is applied.                                           *)
LEMMA FirstIsApplied ==
  ASSUME NEW m \in Seq(Inputs), NEW e \in Inputs, KeyframesOf(m) = {} \/ ~IsKeyframe(e)
  PROVE  Apply(m, e) = Append(m, e)
<1>1. CASE ~IsKeyframe(e)
  BY <1>1 DEF Apply, IsOlder
<1>2. CASE KeyframesOf(m) = {}
  <2>1. \A i \in 1..Len(m) : ~IsKeyframe(m[i])
    BY <1>2 DEF KeyframesOf
  <2>2. {i \in 1..Len(m) : IsKeyframe(m[i])} = {}
    BY <2>1
  <2>3. SelectLastInSeq(m, IsKeyframe) = 0
    BY <2>2 DEF SelectLastInSeq
  <2> QED BY <2>3 DEF Apply, IsOlder
<1> QED BY <1>1, <1>2

LEMMA KeyframeTimes ==
  /\ \A e \in Inputs : IsKeyframe(e) => e.timestamp \in Nat \ {0}
  /\ \A m \in Seq(Inputs) : \A k \in KeyframesOf(m) : k \in Inputs /\ IsKeyframe(k)
<1>1. ASSUME NEW e \in Inputs, IsKeyframe(e) PROVE e.timestamp \in Nat \ {0}
  <2>1. e \in Keyframes
    BY <1>1 DEF Inputs, Readings, IsKeyframe
  <2>2. PICK t \in Times : e = KeyframeAt(t)
    BY <2>1 DEF Keyframes
  <2>3. e.timestamp = t
    BY <2>2 DEF KeyframeAt, Request
  <2> QED BY <2>3, PeriodsAssumption DEF Times
<1>2. ASSUME NEW m \in Seq(Inputs), NEW k, k \in KeyframesOf(m)
      PROVE  k \in Inputs /\ IsKeyframe(k)
  BY <1>2 DEF KeyframesOf
<1> QED BY <1>1, <1>2

(* A keyframe is replayed.                                                  *)
LEMMA ScheduleKeeps ==
  ASSUME IInv, NEW e \in Inputs, IsKeyframe(e), Schedule(e), replayed' = Apply(replayed, e)
  PROVE  /\ Scheduled' /\ solved' \in Seq(Inputs)
         /\ {first', lastSolve', lastScan', solves', scans', solvedScans'} \subseteq Nat
<1> DEFINE t == e.timestamp
           p == solve_period
           lp == loop_closure_period
<1>1. /\ t \in Nat \ {0} /\ p \in Nat /\ lp \in Nat \ {0}
      /\ {first, lastSolve, lastScan, solves, scans, solvedScans} \subseteq Nat
      /\ replayed \in Seq(Inputs) /\ solved \in Seq(Inputs) /\ Scheduled
  BY KeyframeTimes, PeriodsAssumption DEF IInv, TypeInv
<1>2. /\ first' = IF first = Never THEN t ELSE first
      /\ IF ScanIsDue(e) THEN lastScan' = t /\ scans' = scans + 1
                         ELSE lastScan' = Since(lastScan, e) /\ scans' = scans
      /\ IF SolveIsDue(e)
         THEN /\ lastSolve' = t /\ solves' = solves + 1
              /\ solved' = replayed' /\ solvedScans' = scans'
         ELSE /\ lastSolve' = Since(lastSolve, e) /\ solves' = solves
              /\ solved' = solved /\ solvedScans' = solvedScans
  BY DEF Schedule, ScansBefore
<1>3. /\ IsPrefix(solved, replayed)
      /\ replayed' \in Seq(Inputs)
      /\ IsPrefix(solved, replayed') /\ IsPrefix(replayed', replayed')
      /\ KeyframesOf(replayed) \subseteq KeyframesOf(replayed')
      /\ Unsolved \subseteq KeyframesOf(replayed)
      /\ KeyframesOf(SubSeq(replayed', Len(replayed') + 1, Len(replayed'))) = {}
      /\ \A k \in KeyframesOf(SubSeq(replayed', Len(solved) + 1, Len(replayed'))) :
           k \in Unsolved \/ k = e
  <2>1. IsPrefix(solved, replayed)
    BY <1>1 DEF Scheduled
  <2> QED BY <1>1, <2>1, ApplyTyped, UnsolvedAfter DEF Unsolved
<1>4. IsPrefix(solved', replayed') /\ solved' \in Seq(Inputs)
  BY <1>1, <1>2, <1>3
<1>5. \A k \in Unsolved' : ~SolveIsDue(e) /\ (k \in Unsolved \/ k = e)
  BY <1>2, <1>3 DEF Unsolved
<1>6. /\ ScanIsDue(e) <=> loop_closure_enabled /\ t - Since(lastScan, e) >= lp
      /\ SolveIsDue(e) <=> t - Since(lastSolve, e) >= p
  BY DEF ScanIsDue, SolveIsDue
<1>7. \A k \in KeyframesOf(replayed) : k.timestamp \in Nat
  BY <1>1, KeyframeTimes
<1>8. CASE first = Never
  <2>1. /\ KeyframesOf(replayed) = {} /\ lastSolve = 0 /\ lastScan = 0
        /\ solves = 0 /\ scans = 0 /\ solvedScans = 0
    BY <1>1, <1>8 DEF Scheduled, Never
  <2>2. Since(lastScan, e) = t /\ Since(lastSolve, e) = t
    BY <1>8 DEF Since
  <2>3. ~ScanIsDue(e) /\ (SolveIsDue(e) => p = 0)
    BY <1>1, <1>6, <2>2
  <2>4. /\ first' = t /\ lastScan' = t /\ scans' = 0 /\ lastSolve' = t /\ solvedScans' = 0
        /\ solves' = 0 \/ (solves' = 1 /\ p = 0)
    BY <1>2, <1>8, <2>1, <2>2, <2>3
  <2>5. e \in KeyframesOf(replayed')
    <3>1. replayed' = Append(replayed, e)
      BY <1>1, <2>1, FirstIsApplied
    <3> QED BY <1>1, <3>1, KeyframesOfAppend
  <2>6. solves' * p <= lastSolve' - first'
    BY <1>1, <2>4
  <2>7. \A k \in Unsolved' : k.timestamp - lastSolve' < p
    <3> TAKE k \in Unsolved'
    <3>1. ~SolveIsDue(e) /\ k = e
      BY <1>3, <1>5, <2>1
    <3>2. ~(t - t >= p)
      BY <1>6, <2>2, <3>1
    <3> QED BY <1>1, <2>4, <3>1, <3>2
  <2>8. first' # Never
    BY <1>1, <2>4 DEF Never
  <2>9. lastSolve' - lastScan' < lp /\ ~(solvedScans' < scans')
    BY <1>1, <2>4
  <2>10. {first', lastSolve', lastScan', solves', scans', solvedScans'} \subseteq Nat
    BY <1>1, <2>4
  <2> HIDE DEF t, p, lp
  <2>11. \E k \in KeyframesOf(replayed') : k.timestamp = first'
    BY <2>4, <2>5 DEF t
  <2>12. Scheduled'
    BY <1>4, <2>4, <2>6, <2>7, <2>8, <2>9, <2>11 DEF Scheduled, p, lp
  <2> QED BY <1>4, <2>10, <2>12
<1>9. CASE first # Never
  <2>1. PICK k1 \in KeyframesOf(replayed) : k1.timestamp = first
    BY <1>1, <1>9 DEF Scheduled
  <2>2. /\ solves * p <= lastSolve - first
        /\ IF loop_closure_enabled THEN lastSolve - lastScan < lp
                                   ELSE scans = 0 /\ solvedScans = 0
        /\ solvedScans < scans => lastScan > lastSolve
        /\ \A k \in Unsolved : k.timestamp - lastSolve < p
    BY <1>1, <1>9 DEF Scheduled
  <2>3. Since(lastScan, e) = lastScan /\ Since(lastSolve, e) = lastSolve /\ first' = first
    BY <1>2, <1>9 DEF Since
  <2>4. IF loop_closure_enabled /\ t - lastScan >= lp
        THEN lastScan' = t /\ scans' = scans + 1
        ELSE lastScan' = lastScan /\ scans' = scans
    BY <1>2, <1>6, <2>3
  <2>5. IF t - lastSolve >= p
        THEN lastSolve' = t /\ solves' = solves + 1 /\ solvedScans' = scans'
        ELSE lastSolve' = lastSolve /\ solves' = solves /\ solvedScans' = solvedScans
    BY <1>2, <1>6, <2>3
  <2>6. solves' * p <= lastSolve' - first'
    <3>1. (solves + 1) * p = solves * p + p /\ solves * p \in Nat
      BY <1>1
    <3>2. CASE t - lastSolve >= p
      <4>1. solves' = solves + 1 /\ lastSolve' = t
        BY <2>5, <3>2
      <4>2. solves' * p = solves * p + p
        BY <3>1, <4>1
      <4> DEFINE q == solves * p
                 q2 == solves' * p
      <4>3. q \in Nat /\ q2 = q + p /\ q <= lastSolve - first
        BY <2>2, <3>1, <4>2
      <4> HIDE DEF q, q2
      <4>4. q2 <= lastSolve' - first'
        BY <1>1, <2>3, <3>2, <4>1, <4>3
      <4> QED BY <4>4 DEF q2
    <3>3. CASE ~(t - lastSolve >= p)
      BY <2>2, <2>3, <2>5, <3>3
    <3> QED BY <3>2, <3>3
  <2> HIDE DEF t, p, lp
  <2>7. \A k \in Unsolved' : k.timestamp - lastSolve' < p
    <3> TAKE k \in Unsolved'
    <3>1. ~(t - lastSolve >= p) /\ (k \in Unsolved \/ k = e)
      BY <1>5, <1>6, <2>3
    <3>2. lastSolve' = lastSolve
      BY <2>5, <3>1
    <3>3. CASE k \in Unsolved
      BY <2>2, <3>2, <3>3
    <3>4. CASE k = e
      BY <1>1, <3>1, <3>2, <3>4 DEF t
    <3> QED BY <3>1, <3>3, <3>4
  <2>8. {first', lastSolve', lastScan', solves', scans', solvedScans'} \subseteq Nat
    <3>1. lastScan' \in {t, lastScan} /\ scans' \in {scans, scans + 1}
      BY <2>4
    <3>2. /\ lastSolve' \in {t, lastSolve} /\ solves' \in {solves, solves + 1}
          /\ solvedScans' \in {solvedScans, scans'}
      BY <2>5
    <3> QED BY <1>1, <2>3, <3>1, <3>2
  <2>9. IF loop_closure_enabled THEN lastSolve' - lastScan' < lp
                                ELSE scans' = 0 /\ solvedScans' = 0
    <3>1. CASE loop_closure_enabled
      <4>1. lastSolve - lastScan < lp
        BY <2>2, <3>1
      <4>2. IF t - lastScan >= lp THEN lastScan' = t ELSE lastScan' = lastScan
        BY <2>4, <3>1
      <4>3. lastSolve' \in {t, lastSolve}
        BY <2>5
      <4>4. lastSolve' - lastScan' < lp
        BY <1>1, <4>1, <4>2, <4>3
      <4> QED BY <3>1, <4>4
    <3>2. CASE ~loop_closure_enabled
      <4>1. scans' = 0 /\ solvedScans = 0
        BY <2>2, <2>4, <3>2
      <4>2. solvedScans' \in {solvedScans, scans'}
        BY <2>5
      <4> QED BY <3>2, <4>1, <4>2
    <3> QED BY <3>1, <3>2
  <2>10. solvedScans' < scans' => lastScan' > lastSolve'
    BY <1>1, <2>2, <2>4, <2>5
  <2>11. \E k \in KeyframesOf(replayed') : k.timestamp = first'
    BY <1>3, <2>1, <2>3
  <2>12. Scheduled'
    BY <1>4, <1>9, <2>3, <2>6, <2>7, <2>9, <2>10, <2>11 DEF Scheduled, p, lp
  <2> QED BY <1>4, <2>8, <2>12
<1> QED BY <1>8, <1>9

(* A reading is replayed.                                                   *)
LEMMA NoScheduleKeeps ==
  ASSUME IInv, NEW e \in Inputs, ~IsKeyframe(e), replayed' = Apply(replayed, e),
         UNCHANGED <<first, lastSolve, lastScan, solves, scans, solved, solvedScans>>
  PROVE  Scheduled'
<1>1. replayed \in Seq(Inputs) /\ solved \in Seq(Inputs) /\ Scheduled /\ IsPrefix(solved, replayed)
  BY DEF IInv, TypeInv, Scheduled
<1>2. KeyframesOf(replayed') = KeyframesOf(replayed)
  <2>1. replayed' = Append(replayed, e)
    BY <1>1, FirstIsApplied
  <2> QED BY <1>1, <2>1, KeyframesOfAppend
<1>3. IsPrefix(solved', replayed') /\ Unsolved' \subseteq Unsolved
  BY <1>1, UnsolvedAfter DEF Unsolved
<1> QED BY <1>1, <1>2, <1>3 DEF Scheduled

LEMMA ReplayEntryKeeps ==
  ASSUME IInv, ReplayEntry
  PROVE  IInv' /\ file' = file
<1> DEFINE entry == file[entries + 1]
           e == MeaningOf(entry)
           part == SubSeq(file, 1, entries)
<1>1. /\ replayer /\ entries < Len(file) /\ entries' = entries + 1
      /\ replayed' = Apply(replayed, Read(file[entries']))
      /\ IF Starts(Read(file[entries']))
         THEN Schedule(Read(file[entries']))
         ELSE UNCHANGED <<first, lastSolve, lastScan, solves, scans, solved, solvedScans>>
      /\ recorder_' = recorder_ /\ attached' = attached /\ clouds' = clouds /\ map' = map
      /\ finalized_' = finalized_ /\ request' = request /\ given' = given
      /\ logged' = logged /\ phase' = phase /\ file' = file /\ replayer' = replayer
  BY DEF ReplayEntry, startVars, liveVars, logVars
<1>2. /\ file \in Seq(LogEntry) /\ entries \in 0..(Len(file) - 1) /\ Len(file) \in Nat
      /\ replayed \in Seq(Inputs)
  BY <1>1 DEF IInv, TypeInv
<1>3. entry \in LogEntry /\ entries \in 0..Len(file)
  BY <1>2
<1>4. Read(file[entries']) = e /\ e \in Inputs
  <2>1. Read(entry) = MeaningOf(entry) /\ MeaningOf(entry) \in Inputs
    BY <1>3, ReadIsMeaning
  <2> QED BY <1>1, <2>1
<1>5. /\ replayed' = Apply(replayed, e)
      /\ IsKeyframe(e) => Schedule(e)
      /\ ~IsKeyframe(e) =>
           UNCHANGED <<first, lastSolve, lastScan, solves, scans, solved, solvedScans>>
  BY <1>1, <1>4 DEF Starts
<1>6. replayed' \in Seq(Inputs)
  BY <1>2, <1>4, <1>5, ApplyTyped
<1>7. ReplayedIsOfFile'
  <2>1. part \in Seq(LogEntry)
    BY <1>2, <1>3, PartsOfLog
  <2>2. SubSeq(file, 1, entries + 1) = Append(part, entry)
    BY <1>2, PartsGrow
  <2>3. replayed = MapOf(part)
    BY DEF IInv, ReplayedIsOfFile
  <2> HIDE DEF part, entry
  <2>4. MapOf(Append(part, entry)) = Apply(MapOf(part), e)
    BY <1>3, <2>1, MapOfAppend
  <2> QED BY <1>1, <1>5, <2>2, <2>3, <2>4 DEF ReplayedIsOfFile
<1> HIDE DEF e
<1>8. /\ Scheduled' /\ solved' \in Seq(Inputs)
      /\ {first', lastSolve', lastScan', solves', scans', solvedScans'} \subseteq Nat
  <2>1. CASE IsKeyframe(e)
    BY <1>4, <1>5, <2>1, ScheduleKeeps
  <2>2. CASE ~IsKeyframe(e)
    <3>1. UNCHANGED <<first, lastSolve, lastScan, solves, scans, solved, solvedScans>>
      BY <1>5, <2>2
    <3>2. Scheduled'
      BY <1>4, <1>5, <2>2, <3>1, NoScheduleKeeps
    <3> QED BY <3>1, <3>2 DEF IInv, TypeInv
  <2> QED BY <2>1, <2>2
<1>9. TypeInv'
  <2>1. {recorder_', attached', finalized_', replayer'} \subseteq BOOLEAN
    BY <1>1 DEF IInv, TypeInv
  <2>2. entries' \in 0..Len(file')
    BY <1>1, <1>2
  <2> QED BY <1>1, <1>6, <1>8, <2>1, <2>2 DEF IInv, TypeInv
<1>10. InTurn'
  BY <1>1 DEF IInv, InTurn, Running
<1>11. LogIsOfMap' /\ FileIsOfLog'
  BY <1>1 DEF IInv, LogIsOfMap, FileIsOfLog, Running
<1> QED BY <1>1, <1>7, <1>8, <1>9, <1>10, <1>11 DEF IInv

-----------------------------------------------------------------------------
(***************************************************************************)
(* The theorems.                                                           *)
(***************************************************************************)
LEMMA StutterKeeps == IInv /\ UNCHANGED vars => IInv' /\ file' = file
<1> SUFFICES ASSUME IInv, UNCHANGED vars PROVE IInv' /\ file' = file
  OBVIOUS
<1>1. /\ UNCHANGED replayVars /\ UNCHANGED <<phase, file>> /\ UNCHANGED <<map, logged>>
      /\ given' = given /\ request' = request /\ clouds' = clouds
      /\ recorder_' = recorder_ /\ attached' = attached /\ finalized_' = finalized_
  BY DEF vars, startVars, liveVars, logVars
<1>2. {recorder_', attached', finalized_'} \subseteq BOOLEAN
  BY <1>1, LiveTypes
<1>3. IInv'
  BY <1>1, <1>2, LiveTypes, LiveStep
<1> QED BY <1>1, <1>3

LEMMA LiveKeepsFile ==
  ASSUME \/ OpenRecorder \/ AttachSources \/ ChangeCloud \/ FinalizeBegin
         \/ \E r \in Readings : Observe(r)
         \/ \E f \in FrontEnds :
              InsertKeyframe(f) \/ \E t \in Times, scan \in Clouds : Encode(f, t, scan)
  PROVE  file' = file
BY DEF OpenRecorder, AttachSources, ChangeCloud, FinalizeBegin, Observe, InsertKeyframe,
       Encode, logVars

LEMMA NextKeeps ==
  ASSUME IInv, [Next]_vars
  PROVE  IInv' /\ (~Running => file' = file)
<1>1. CASE OpenRecorder \/ AttachSources
  BY <1>1, StartKeeps, LiveKeepsFile
<1>2. CASE \E r \in Readings : Observe(r)
  BY <1>2, ObserveKeeps, LiveKeepsFile
<1>3. CASE \E f \in FrontEnds :
             InsertKeyframe(f) \/ \E t \in Times, scan \in Clouds : Encode(f, t, scan)
  <2>1. file' = file
    BY <1>3, LiveKeepsFile
  <2> QED BY <1>3, <2>1, InsertKeyframeKeeps, EncodeKeeps
<1>4. CASE ChangeCloud \/ FinalizeBegin
  BY <1>4, CloudsAndEndKeep, LiveKeepsFile
<1>5. CASE FinalizeClose \/ RecordingBreaks
  BY <1>5, RecordingKeeps
<1>6. CASE StartReplay
  BY <1>6, StartReplayKeeps
<1>7. CASE ReplayEntry
  BY <1>7, ReplayEntryKeeps
<1>8. CASE UNCHANGED vars
  BY <1>8, StutterKeeps
<1> QED BY <1>1, <1>2, <1>3, <1>4, <1>5, <1>6, <1>7, <1>8 DEF Next

(* IInv is an invariant of a run and its replay                             *)
(* (Mapper.cpp:239-258, 537-592, 940-955; MapperReplay.cpp:31-104).         *)
THEOREM Invariant == Spec => []IInv
<1>1. Init => IInv
  BY Initially
<1>2. IInv /\ [Next]_vars => IInv'
  BY NextKeeps
<1> QED BY <1>1, <1>2, PTL DEF Spec

(* The log makes the map as long as it works, whatever becomes of the scans *)
(* in memory (Mapper.cpp:556-560, 575-587; MapperInputLog.cpp:77-96,        *)
(* 129-198).                                                                *)
THEOREM LogIsTheMap == Spec => []LogMakesTheMap
<1>1. IInv => LogMakesTheMap
  <2> SUFFICES ASSUME IInv, phase = "open"
               PROVE  map = FoldLeft(Apply, <<>>, [i \in DOMAIN logged |-> Read(logged[i])])
    BY DEF LogMakesTheMap
  <2>1. \A i \in DOMAIN logged : Read(logged[i]) = MeaningOf(logged[i])
    <3> TAKE i \in DOMAIN logged
    <3>1. logged[i] \in LogEntry
      BY DEF IInv, TypeInv
    <3> QED BY <3>1, ReadIsMeaning
  <2>2. [i \in DOMAIN logged |-> Read(logged[i])] = [i \in DOMAIN logged |-> MeaningOf(logged[i])]
    BY <2>1
  <2>3. map = MapOf(logged)
    BY DEF IInv, LogIsOfMap
  <2> QED BY <2>2, <2>3 DEF MapOf, MadeOf
<1> QED BY <1>1, Invariant, PTL

(* A replay to the end makes the map of the run, or one that it had before  *)
(* its recording broke (Mapper.cpp:239-258, 575-591, 940-955;               *)
(* MapperReplay.cpp:53-68).                                                 *)
THEOREM ReplayRebuilds == Spec => []RebuildsTheMap
<1>1. IInv => RebuildsTheMap
  <2> SUFFICES ASSUME IInv, ~Running, entries = Len(file)
               PROVE  IsPrefix(replayed, map) /\ (phase = "stored" => replayed = map)
    BY DEF RebuildsTheMap
  <2>1. file \in Seq(LogEntry) /\ logged \in Seq(LogEntry) /\ map \in Seq(Inputs)
    BY DEF IInv, TypeInv
  <2>2. replayed = MapOf(file)
    BY <2>1, PartsGrow DEF IInv, ReplayedIsOfFile
  <2>3. IsPrefix(file, logged)
    BY DEF IInv, FileIsOfLog
  <2>4. IsPrefix(MapOf(file), MapOf(logged)) /\ IsPrefix(MapOf(logged), map)
    BY <2>1, <2>3, MapOfPrefix DEF IInv, LogIsOfMap
  <2>5. MapOf(file) \in Seq(Inputs) /\ MapOf(logged) \in Seq(Inputs)
    BY <2>1, MapOfTyped
  <2>6. IsPrefix(replayed, map)
    BY <2>1, <2>2, <2>4, <2>5, PrefixFacts
  <2>7. phase = "stored" => replayed = map
    BY <2>2 DEF IInv, FileIsOfLog, LogIsOfMap
  <2> QED BY <2>6, <2>7
<1> QED BY <1>1, Invariant, PTL

(* The solves of a replay are at their periods of data time, no keyframe is *)
(* left for later by more than one, and the loops of a scan are solved with *)
(* it or after it (MapperReplay.cpp:69-93).                                 *)
THEOREM PeriodsKept == Spec => []SolvesAtPeriods
<1>1. IInv => SolvesAtPeriods
  <2> SUFFICES ASSUME IInv PROVE SolvesAtPeriods
    OBVIOUS
  <2>1. /\ Scheduled /\ solves \in Nat /\ solve_period \in Nat /\ lastSolve \in Nat
        /\ first \in Nat
    BY PeriodsAssumption DEF IInv, TypeInv
  <2>2. solves > 0 => \E k \in KeyframesOf(replayed) :
                        solves * solve_period <= lastSolve - k.timestamp
    <3> SUFFICES ASSUME solves > 0
                 PROVE  \E k \in KeyframesOf(replayed) :
                          solves * solve_period <= lastSolve - k.timestamp
      OBVIOUS
    <3>1. first # Never
      BY <2>1 DEF Scheduled
    <3>2. PICK k \in KeyframesOf(replayed) : k.timestamp = first
      BY <2>1, <3>1 DEF Scheduled
    <3>3. solves * solve_period <= lastSolve - first
      BY <2>1, <3>1 DEF Scheduled
    <3> QED BY <3>2, <3>3
  <2> QED BY <2>1, <2>2 DEF Scheduled, SolvesAtPeriods
<1> QED BY <1>1, Invariant, PTL
=============================================================================
