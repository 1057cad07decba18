------------------------------- MODULE InputLog -------------------------------
(***************************************************************************)
(* The recording of the mapper input and its reader (MapperInputLog.cpp):  *)
(* record() queues entries from any thread, a background thread writes     *)
(* them, close() waits for it; MapperInputReader reads the file back, even *)
(* one cut short because the recording process was killed.                 *)
(*                                                                         *)
(* A critical section on mtx_ is one step, except that the writer's wait   *)
(* evaluates its predicate and blocks in two steps with mtx_ held.  An     *)
(* entry is its number: the ordinal of the call to record() that brought   *)
(* it.  The gzip stream is external: its bytes reach the disk in order, at *)
(* the latest when it is closed.                                           *)
(***************************************************************************)
EXTENDS Naturals, Sequences

CONSTANTS
  Threads,    \* the threads that call record()
  MaxCalls    \* bound: calls of record()

ASSUME CallsAssumption == MaxCalls \in Nat

VARIABLES
  mtx_,       \* TRUE while the writer holds it over its wait's predicate
  queue_, closing_, failed_, written_,
  writer,     \* where writer_loop() is
  obj,        \* the entry it has taken out of the queue
  recorder,   \* recorder[t]: "idle", or "notify" after its critical section
  closer,     \* where close() is
  out_,       \* the complete entries given to the stream
  torn,       \* the stream ends with part of an entry
  process,    \* "running", "closed" after close(), or "killed"
  disk,       \* the complete entries that the file then has
  disk_torn,  \* the file then ends with part of an entry
  read_, truncated_,
  reader,     \* what next() did last: "entry", "nothing" or "throw"
  accepted,   \* history: the entries record() has queued, in order
  calls       \* how many calls of record() there have been

recorderVars == <<mtx_, queue_, closing_, failed_, written_, writer, obj,
                  recorder, closer, out_, torn, accepted, calls>>
readerVars == <<read_, truncated_, reader>>
fileVars == <<process, disk, disk_torn>>
vars == <<recorderVars, fileVars, readerVars>>

Init ==
  /\ mtx_ = FALSE
  /\ queue_ = <<>> /\ closing_ = FALSE /\ failed_ = FALSE /\ written_ = 0
  /\ writer = "lock" /\ obj = 0
  /\ recorder = [t \in Threads |-> "idle"]
  /\ closer = "open"
  /\ out_ = <<>> /\ torn = FALSE
  /\ process = "running"
  /\ disk = <<>> /\ disk_torn = FALSE
  /\ read_ = 0 /\ truncated_ = FALSE /\ reader = "entry"
  /\ accepted = <<>> /\ calls = 0

MutexFree == ~mtx_

(* cv_.notify_one(): only the writer waits.                                 *)
NotifyOne == writer' = IF writer = "blocked" THEN "lock" ELSE writer

-----------------------------------------------------------------------------
(***************************************************************************)
(* MapperInputRecorder::record(), by thread t.                             *)
(***************************************************************************)
(* Fault: the queue changed without mtx_.                                  *)
RecordUnlocked == TRUE

RecordLocked == MutexFree

(* Fault: entries are still queued after a write error.                    *)
RefusesWhenClosing == closing_

Refuses == closing_ \/ failed_

RecordQueue(t) ==
  /\ process = "running"
  /\ recorder[t] = "idle"
  /\ RecordLocked
  /\ calls < MaxCalls
  /\ calls' = calls + 1
  /\ IF Refuses
     THEN UNCHANGED <<queue_, accepted, recorder>>
     ELSE /\ queue_' = Append(queue_, calls')
          /\ accepted' = Append(accepted, calls')
          /\ recorder' = [recorder EXCEPT ![t] = "notify"]
  /\ UNCHANGED <<mtx_, closing_, failed_, written_, writer, obj, closer, out_,
                 torn, fileVars, readerVars>>

RecordNotify(t) ==
  /\ process = "running"
  /\ recorder[t] = "notify"
  /\ recorder' = [recorder EXCEPT ![t] = "idle"]
  /\ NotifyOne
  /\ UNCHANGED <<mtx_, queue_, closing_, failed_, written_, obj, closer, out_,
                 torn, accepted, calls, fileVars, readerVars>>

-----------------------------------------------------------------------------
(***************************************************************************)
(* MapperInputRecorder::close(): by Mapper::finalize(), then once more by  *)
(* the destructor, which finds nothing left to do.                         *)
(***************************************************************************)
(* Fault: closing_ set without mtx_.                                       *)
CloseUnlocked == TRUE

CloseLocked == MutexFree

CloseSet ==
  /\ process = "running"
  /\ closer = "open"
  /\ CloseLocked
  /\ closing_' = TRUE
  /\ closer' = "notify"
  /\ UNCHANGED <<mtx_, queue_, failed_, written_, writer, obj, recorder, out_,
                 torn, accepted, calls, fileVars, readerVars>>

CloseNotify ==
  /\ process = "running"
  /\ closer = "notify"
  /\ closer' = "join"
  /\ NotifyOne
  /\ UNCHANGED <<mtx_, queue_, closing_, failed_, written_, obj, recorder,
                 out_, torn, accepted, calls, fileVars, readerVars>>

(* What of the stream has reached the disk when it breaks off: some of its  *)
(* first bytes.                                                             *)
DiskIsCut ==
  \E n \in 0..Len(out_), t \in BOOLEAN :
    /\ t => n < Len(out_) \/ torn \/ writer = "write"
    /\ disk' = SubSeq(out_, 1, n) /\ disk_torn' = t

(* out_->close() brings the rest of the stream to the disk, unless a write  *)
(* has failed: what is buffered may then be lost, which nobody checks.      *)
StreamCloses ==
  IF failed_ THEN DiskIsCut ELSE disk' = out_ /\ disk_torn' = torn

(* Fault: the file is closed while the writer still runs.                  *)
CloseFileUnjoined ==
  /\ process = "running"
  /\ closer = "join"
  /\ process' = "closed"
  /\ StreamCloses
  /\ UNCHANGED <<recorderVars, readerVars>>

(* join() returns, and the stream is closed.                                *)
CloseFile ==
  /\ process = "running"
  /\ closer = "join"
  /\ writer = "done"
  /\ process' = "closed"
  /\ StreamCloses
  /\ UNCHANGED <<recorderVars, readerVars>>

-----------------------------------------------------------------------------
(***************************************************************************)
(* MapperInputRecorder::writer_loop().                                     *)
(***************************************************************************)
WriterLock ==
  /\ process = "running"
  /\ writer = "lock"
  /\ MutexFree
  /\ mtx_' = TRUE
  /\ writer' = "predicate"
  /\ UNCHANGED <<queue_, closing_, failed_, written_, obj, recorder, closer,
                 out_, torn, accepted, calls, fileVars, readerVars>>

WriterBlock ==
  /\ process = "running"
  /\ writer = "predicate"
  /\ ~closing_ /\ queue_ = <<>>
  /\ writer' = "block"
  /\ UNCHANGED <<mtx_, queue_, closing_, failed_, written_, obj, recorder,
                 closer, out_, torn, accepted, calls, fileVars, readerVars>>

WriterBlocked ==
  /\ process = "running"
  /\ writer = "block"
  /\ mtx_' = FALSE
  /\ writer' = "blocked"
  /\ UNCHANGED <<queue_, closing_, failed_, written_, obj, recorder, closer,
                 out_, torn, accepted, calls, fileVars, readerVars>>

NothingLeft == queue_ = <<>>

WriterTake ==
  /\ process = "running"
  /\ writer = "predicate"
  /\ closing_ \/ queue_ # <<>>
  /\ IF NothingLeft
     THEN /\ writer' = "done"
          /\ UNCHANGED <<queue_, obj>>
     ELSE /\ writer' = "write"
          /\ obj' = Head(queue_)
          /\ queue_' = Tail(queue_)
  /\ mtx_' = FALSE
  /\ UNCHANGED <<closing_, failed_, written_, recorder, closer, out_, torn,
                 accepted, calls, fileVars, readerVars>>

WriterWrite ==
  /\ process = "running"
  /\ writer = "write"
  /\ out_' = Append(out_, obj)
  /\ writer' = "count"
  /\ UNCHANGED <<mtx_, queue_, closing_, failed_, written_, obj, recorder,
                 closer, torn, accepted, calls, fileVars, readerVars>>

WriterCount ==
  /\ process = "running"
  /\ writer = "count"
  /\ MutexFree
  /\ written_' = written_ + 1
  /\ writer' = "lock"
  /\ UNCHANGED <<mtx_, queue_, closing_, failed_, obj, recorder, closer, out_,
                 torn, accepted, calls, fileVars, readerVars>>

(* The write throws, e.g. with a full disk, maybe after some of its bytes.  *)
WriterThrows ==
  /\ process = "running"
  /\ writer = "write"
  /\ torn' \in BOOLEAN
  /\ writer' = "fail"
  /\ UNCHANGED <<mtx_, queue_, closing_, failed_, written_, obj, recorder,
                 closer, out_, accepted, calls, fileVars, readerVars>>

WriterFail ==
  /\ process = "running"
  /\ writer = "fail"
  /\ MutexFree
  /\ failed_' = TRUE
  /\ queue_' = <<>>
  /\ writer' = "done"
  /\ UNCHANGED <<mtx_, closing_, written_, obj, recorder, closer, out_, torn,
                 accepted, calls, fileVars, readerVars>>

-----------------------------------------------------------------------------
(* The recording process is killed.                                         *)
Kill ==
  /\ process = "running"
  /\ process' = "killed"
  /\ DiskIsCut
  /\ UNCHANGED <<recorderVars, readerVars>>

-----------------------------------------------------------------------------
(***************************************************************************)
(* MapperInputReader, in another process.                                  *)
(***************************************************************************)
ReadEntry ==
  /\ process # "running" /\ reader # "throw"
  /\ ~truncated_
  /\ read_ < Len(disk)
  /\ read_' = read_ + 1
  /\ reader' = "entry"
  /\ UNCHANGED <<recorderVars, fileVars, truncated_>>

(* Also for a partial entry so short that ReadObject() sees the end.        *)
ReadEnd ==
  /\ process # "running" /\ reader # "throw"
  /\ truncated_ \/ read_ = Len(disk)
  /\ reader' = "nothing"
  /\ UNCHANGED <<recorderVars, fileVars, read_, truncated_>>

ReadPartial ==
  /\ process # "running" /\ reader # "throw"
  /\ ~truncated_
  /\ read_ = Len(disk) /\ disk_torn
  /\ IF read_ > 0
     THEN truncated_' = TRUE /\ reader' = "nothing"
     ELSE truncated_' = FALSE /\ reader' = "throw"
  /\ UNCHANGED <<recorderVars, fileVars, read_>>

(* Another reader of the same file.                                         *)
Reopen ==
  /\ process # "running"
  /\ read_' = 0 /\ truncated_' = FALSE /\ reader' = "entry"
  /\ UNCHANGED <<recorderVars, fileVars>>

-----------------------------------------------------------------------------
Writer ==
  \/ WriterLock \/ WriterBlock \/ WriterBlocked \/ WriterTake \/ WriterWrite
  \/ WriterCount \/ WriterThrows \/ WriterFail

Closer == CloseSet \/ CloseNotify \/ CloseFile

Reader == ReadEntry \/ ReadEnd \/ ReadPartial \/ Reopen

Next ==
  \/ \E t \in Threads : RecordQueue(t) \/ RecordNotify(t)
  \/ Closer
  \/ Writer
  \/ Kill
  \/ Reader

Spec == Init /\ [][Next]_vars

(* The scheduler lets every thread run on; nothing else has to happen: not  *)
(* a call of record() or close(), nor a write error.                        *)
Fairness ==
  /\ \A t \in Threads : WF_vars(RecordNotify(t))
  /\ WF_vars(CloseNotify) /\ WF_vars(CloseFile)
  /\ WF_vars(Writer)

FairSpec == Spec /\ Fairness

-----------------------------------------------------------------------------
(***************************************************************************)
(* Properties.                                                             *)
(***************************************************************************)
(* The types of the variables (MapperInputLog.h:93-104).                    *)
TypeOK ==
  /\ mtx_ \in BOOLEAN
  /\ queue_ \in Seq(1..MaxCalls)
  /\ closing_ \in BOOLEAN /\ failed_ \in BOOLEAN
  /\ written_ \in Nat
  /\ writer \in {"lock", "predicate", "block", "blocked", "write", "count",
                 "fail", "done"}
  /\ obj \in 0..MaxCalls
  /\ recorder \in [Threads -> {"idle", "notify"}]
  /\ closer \in {"open", "notify", "join"}
  /\ out_ \in Seq(1..MaxCalls) /\ torn \in BOOLEAN
  /\ process \in {"running", "closed", "killed"}
  /\ disk \in Seq(1..MaxCalls) /\ disk_torn \in BOOLEAN
  /\ read_ \in Nat /\ truncated_ \in BOOLEAN
  /\ reader \in {"entry", "nothing", "throw"}
  /\ accepted \in Seq(1..MaxCalls) /\ calls \in 0..MaxCalls

(* The promise of the class, seen from outside: see InputLogContract.       *)
Phase ==
  CASE process = "killed"                -> "cut"
    [] process = "closed" /\ failed_     -> "cut"
    [] process = "closed" /\ ~failed_    -> "stored"
    [] process = "running" /\ failed_    -> "failed"
    [] process = "running" /\ ~failed_   ->
         IF closing_ THEN "closing" ELSE "open"

Contract == INSTANCE InputLogContract
              WITH Entries <- 1..MaxCalls, phase <- Phase, stored <- disk

(* The recorder and its writer keep the contract of the log, whichever      *)
(* threads record, fail to write, close or are killed in whatever order     *)
(* (MapperInputLog.cpp:210-291): nothing is lost, reordered or accepted     *)
(* after the end.                                                           *)
KeepsContract == Contract!Spec

(* The count that finalize() reports (Mapper.cpp:950-953), which the writer *)
(* advances behind its writes, is that of the entries in the file.  If the  *)
(* recording failed, the file may have fewer, as the stream may have lost   *)
(* what it had buffered, but never more (MapperInputLog.cpp:244-249, 278-   *)
(* 289).                                                                    *)
CountCoversFile ==
  process = "closed" =>
    /\ Len(disk) <= written_
    /\ ~failed_ => Len(disk) = written_

(* However a recording ended, a reader that ran to the end of its file has  *)
(* got all the complete entries in it, and tells of an incomplete one, or   *)
(* throws, only if it was cut short; if it was closed and had no error, the *)
(* reader has got everything that was accepted                              *)
(* (MapperInputLog.cpp:301-319).                                            *)
ReplayComplete ==
  /\ reader = "nothing" => read_ = Len(disk)
  /\ truncated_ \/ reader = "throw" => process = "killed" \/ failed_
  /\ reader = "nothing" /\ process = "closed" /\ ~failed_ => read_ = Len(accepted)

(* close() waits for the disk, but never for a notification that came       *)
(* before the writer waited for it (MapperInputLog.cpp:239-246, 270-277).   *)
CloseReturns == closer = "notify" ~> process # "running"

(* An accepted entry is written without the help of a later call, unless    *)
(* the recording ends by an error or by a kill.                             *)
EntriesGetWritten ==
  \A n \in 1..MaxCalls :
    (\E i \in DOMAIN accepted : accepted[i] = n) ~>
      \/ \E i \in DOMAIN out_ : out_[i] = n
      \/ failed_ \/ process = "killed"
=============================================================================
