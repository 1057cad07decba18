------------------------------- MODULE Replay -------------------------------
(***************************************************************************)
(* A recorded run and its replay: front ends and sensors feed the live     *)
(* mapper, which records what it takes (Mapper.cpp: initialize(),          *)
(* onNewObservation(), requestInsertKeyframe(), finalize()); later         *)
(* mola-mapper-cli has replay_mapper_input() (MapperReplay.cpp) feed       *)
(* another mapper from the file, and scan for loops and solve at fixed     *)
(* periods of data time.                                                   *)
(*                                                                         *)
(* The file is that of InputLogContract, its keyframes are those of        *)
(* LogEntries.  Handlers are deterministic, so a map is stood for by what  *)
(* it was made of: the inputs that had an effect, in order.  Images are    *)
(* left out: they are neither recorded nor replayed.                       *)
(***************************************************************************)
EXTENDS Integers, FiniteSets, LogEntries

CONSTANTS
  FrontEnds,                  \* the threads that insert keyframes
  Bias,                       \* Bias[t]: the gyroscope bias queried for time t
  loop_closure_enabled, loop_closure_period, solve_period,
  MaxTime,                    \* bound: the last time
  MaxEntries                  \* bound: what the live mapper is given

ASSUME PeriodsAssumption ==
  /\ loop_closure_enabled \in BOOLEAN
  /\ loop_closure_period \in Nat \ {0} /\ solve_period \in Nat
  /\ MaxTime \in Nat /\ MaxEntries \in Nat

(* A cloud in memory is none of the points that one has.                    *)
ASSUME CloudsAssumption == {"points", "changed"} \cap Clouds = {}

Times == 1..MaxTime
Readings == [type : {"reading"}, timestamp : Times]
Never == 0

(* A keyframe, with a scan that its front end may share with others, and a  *)
(* comment of the front end's own.                                          *)
Request(t, scan) ==
  [type |-> "keyframe", timestamp |-> t, source_frame_id |-> "odom", quality |-> 1, pose |-> t, cov |-> "cov",
   gyro_bias |-> Bias[t],
   observations |-> <<Cloud(scan), Comment("notes", t, [note |-> t])>>]

VARIABLES
  recorder_, attached,      \* what initialize() has done
  clouds,       \* the points of the scans in memory
  map,          \* the inputs the live map is made of
  finalized_,
  request,      \* request[f]: the keyframes front end f has encoded, [kf, entry]
  given,        \* how many inputs the live mapper was given
  logged, phase, file,      \* see InputLogContract
  replayer,     \* has the mapper that replays been initialized?
  replayed,     \* the inputs the replayed map is made of
  entries,      \* how many entries the replay has read
  first, lastSolve, lastScan,
  solves, scans,
  solved,       \* the replayed map at its last solve, and the scans before it
  solvedScans

startVars == <<recorder_, attached>>
liveVars == <<map, finalized_, request, given>>
logVars == <<logged, phase, file>>
replayVars == <<replayer, replayed, entries, first, lastSolve, lastScan, solves, scans,
                solved, solvedScans>>
vars == <<startVars, clouds, liveVars, logVars, replayVars>>

Log == INSTANCE InputLogContract WITH accepted <- logged, stored <- file, Entries <- {}

Init ==
  /\ recorder_ = FALSE /\ attached = FALSE
  /\ clouds = [c \in Clouds |-> "points"]
  /\ map = <<>> /\ finalized_ = FALSE
  /\ request = [f \in FrontEnds |-> {}] /\ given = 0
  /\ Log!Init
  /\ replayer = FALSE /\ replayed = <<>> /\ entries = 0
  /\ first = Never /\ lastSolve = Never /\ lastScan = Never
  /\ solves = 0 /\ scans = 0 /\ solved = <<>> /\ solvedScans = 0

IsKeyframe(e) == e.type = "keyframe"

(* A mapper with map m is given e: a keyframe that is not newer than the    *)
(* last one changes nothing.                                                *)
IsOlder(m, e) ==
  LET last == SelectLastInSeq(m, IsKeyframe)
  IN  IsKeyframe(e) /\ last # 0 /\ e.timestamp <= m[last].timestamp

Apply(m, e) == IF IsOlder(m, e) THEN m ELSE Append(m, e)

-----------------------------------------------------------------------------
(***************************************************************************)
(* The live run, until its file is closed or cut.                          *)
(***************************************************************************)
Running == phase \notin {"stored", "cut"}

(* initialize(): the log, then the sources, whose readings come from then on. *)
OpenRecorder ==
  /\ ~recorder_
  /\ recorder_' = TRUE
  /\ UNCHANGED <<attached, clouds, liveVars, logVars, replayVars>>

AttachSources ==
  /\ recorder_ /\ ~attached
  /\ attached' = TRUE
  /\ UNCHANGED <<recorder_, clouds, liveVars, logVars, replayVars>>

(* Fault: inputs are taken to the end, when the recording is closed.        *)
TakesAlways == TRUE

TakesInput == ~finalized_

(* The critical sections of onNewObservation() and insert_keyframe_impl():  *)
(* an input, and the entry to record for it.                                *)
Take(e, entry) ==
  IF TakesInput
  THEN /\ logged' = IF recorder_ /\ phase = "open" THEN Append(logged, entry) ELSE logged
       /\ map' = Apply(map, e)
  ELSE UNCHANGED <<map, logged>>

IsGiven ==
  /\ attached /\ Running
  /\ given < MaxEntries
  /\ given' = given + 1

Observe(reading) ==
  /\ IsGiven
  /\ Take(reading, reading)
  /\ UNCHANGED <<startVars, clouds, finalized_, request, phase, file, replayVars>>

(* requestInsertKeyframe(), up to its critical section, of a scan that has  *)
(* not been changed yet.                                                    *)
Encode(f, t, scan) ==
  /\ IsGiven
  /\ request[f] = {}
  /\ clouds[scan] = "points"
  /\ request' = [request EXCEPT ![f] =
       {[kf |-> Request(t, clouds[scan]),
         entry |-> [type |-> "frame", frame |-> Encoded(clouds, Request(t, scan))]]}]
  /\ UNCHANGED <<startVars, clouds, map, finalized_, logVars, replayVars>>

InsertKeyframe(f) ==
  /\ Running
  /\ \E r \in request[f] : Take(r.kf, r.entry)
  /\ request' = [request EXCEPT ![f] = {}]
  /\ UNCHANGED <<startVars, clouds, finalized_, given, phase, file, replayVars>>

(* The owner of a scan changes or unloads it, sooner or later.              *)
ChangeCloud ==
  /\ Running
  /\ \E c \in Clouds : clouds[c] = "points" /\ clouds' = [clouds EXCEPT ![c] = "changed"]
  /\ UNCHANGED <<startVars, liveVars, logVars, replayVars>>

FinalizeBegin ==
  /\ attached /\ Running
  /\ ~finalized_
  /\ finalized_' = TRUE
  /\ UNCHANGED <<startVars, clouds, map, request, given, logVars, replayVars>>

(* recorder_->close(): the recording ends, all of it on the file or not.    *)
FinalizeClose ==
  /\ finalized_
  /\ Log!Close \/ Log!Store \/ (phase = "failed" /\ Log!Cut)
  /\ UNCHANGED <<startVars, clouds, liveVars, replayVars>>

(* The writer fails, or the process is killed.                              *)
RecordingBreaks ==
  /\ attached
  /\ Log!Fail \/ Log!Cut
  /\ UNCHANGED <<startVars, clouds, liveVars, replayVars>>

-----------------------------------------------------------------------------
(***************************************************************************)
(* mola-mapper-cli and replay_mapper_input().                              *)
(***************************************************************************)
(* The mapper is initialized without a recording of its own: record_input   *)
(* is cleared, as the log it may name would be opened anew.                 *)
StartReplay ==
  /\ ~Running /\ ~replayer
  /\ replayer' = TRUE
  /\ UNCHANGED <<startVars, clouds, liveVars, logVars, replayed, entries, first,
                 lastSolve, lastScan, solves, scans, solved, solvedScans>>

(* An entry as the writer thread of the recorder finds it in memory, and as *)
(* the reader makes it.                                                     *)
IsReadable(entry) == entry.type = "frame" => IsComplete(entry.frame)

Read(entry) ==
  IF entry.type = "reading" THEN entry ELSE Decoded(Written(clouds, entry.frame))

(* Fault: the schedule starts with the first entry of any kind.             *)
StartsWithAny(e) == TRUE

Starts(e) == IsKeyframe(e)

(* Since when, if the entry is what the schedule starts with.               *)
Since(last, e) == IF first = Never THEN e.timestamp ELSE last

ScanIsDue(e) ==
  loop_closure_enabled /\ e.timestamp - Since(lastScan, e) >= loop_closure_period

SolveIsDue(e) == e.timestamp - Since(lastSolve, e) >= solve_period

ScansBefore == scans'

Schedule(e) ==
  /\ first' = IF first = Never THEN e.timestamp ELSE first
  /\ IF ScanIsDue(e)
     THEN lastScan' = e.timestamp /\ scans' = scans + 1
     ELSE lastScan' = Since(lastScan, e) /\ UNCHANGED scans
  /\ IF SolveIsDue(e)
     THEN /\ lastSolve' = e.timestamp /\ solves' = solves + 1
          /\ solved' = replayed' /\ solvedScans' = ScansBefore
     ELSE /\ lastSolve' = Since(lastSolve, e)
          /\ UNCHANGED <<solves, solved, solvedScans>>

ReplayEntry ==
  /\ replayer
  /\ entries < Len(file)
  /\ IsReadable(file[entries + 1])       \* else next() throws, the replay ends
  /\ entries' = entries + 1
  /\ LET e == Read(file[entries'])
     IN  /\ replayed' = Apply(replayed, e)
         /\ IF Starts(e)
            THEN Schedule(e)
            ELSE UNCHANGED <<first, lastSolve, lastScan, solves, scans, solved,
                             solvedScans>>
  /\ UNCHANGED <<startVars, clouds, liveVars, logVars, replayer>>

Next ==
  \/ OpenRecorder \/ AttachSources
  \/ \E r \in Readings : Observe(r)
  \/ \E f \in FrontEnds :
       InsertKeyframe(f) \/ \E t \in Times, scan \in Clouds : Encode(f, t, scan)
  \/ ChangeCloud
  \/ FinalizeBegin \/ FinalizeClose \/ RecordingBreaks
  \/ StartReplay \/ ReplayEntry

Spec == Init /\ [][Next]_vars

-----------------------------------------------------------------------------
(***************************************************************************)
(* Properties.                                                             *)
(***************************************************************************)
(* A replay makes the map of the run: all of it if the recording was closed *)
(* without an error, and otherwise the map the run had at some point; even  *)
(* though several threads fed it, keyframes too old were recorded too, and  *)
(* inputs came while it was being finalized (Mapper.cpp:239-258, 575-591,   *)
(* 940-955; MapperReplay.cpp:53-68).                                        *)
RebuildsTheMap ==
  ~Running /\ entries = Len(file) =>
    /\ IsPrefix(replayed, map)
    /\ phase = "stored" => replayed = map

(* As long as the recording works, what it has makes the map that there is, *)
(* with every scan as it was when its keyframe was inserted, whatever has   *)
(* become of the scan since (Mapper.cpp:153-157, 556-560, 575-587;          *)
(* MapperInputLog.cpp:77-96, 129-198).                                               *)
LogMakesTheMap ==
  phase = "open" =>
    map = FoldLeft(Apply, <<>>, [i \in DOMAIN logged |-> Read(logged[i])])

KeyframesOf(m) == {m[i] : i \in {j \in DOMAIN m : IsKeyframe(m[j])}}

Unsolved == KeyframesOf(SubSeq(replayed, Len(solved) + 1, Len(replayed)))

(* Solves are a period of data time apart, counted from the first keyframe, *)
(* and no keyframe is left for later that is a period newer than the last   *)
(* one, whatever the times of the readings in between; a solve has the      *)
(* loops of the scan that is due with it: those that no solve has had come  *)
(* from scans after the last one                                            *)
(* (MapperReplay.cpp:69-93, MapperReplay.h:52-56).                          *)
SolvesAtPeriods ==
  /\ solves > 0 => \E k \in KeyframesOf(replayed) :
                     solves * solve_period <= lastSolve - k.timestamp
  /\ \A k \in Unsolved : k.timestamp - lastSolve < solve_period
  /\ solvedScans < scans => lastScan > lastSolve
=============================================================================
