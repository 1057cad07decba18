---------------------------- MODULE InputLogProofs ----------------------------
(***************************************************************************)
(* The recording keeps its contract and its writer sleeps through nothing, *)
(* for any number of threads and calls.                                    *)
(***************************************************************************)
EXTENDS InputLog, SequenceTheorems, TLAPS

Taken == IF writer \in {"write", "fail"} THEN 1 ELSE 0

(* The stream has the first of the accepted entries; what follows is in the *)
(* hands of the writer, then in the queue, unless a write has failed.       *)
StreamIsPrefix ==
  /\ Len(out_) <= Len(accepted)
  /\ \A i \in 1..Len(out_) : out_[i] = accepted[i]

NothingLost ==
  ~failed_ =>
    /\ Len(accepted) = Len(out_) + Taken + Len(queue_)
    /\ Taken = 1 => obj = accepted[Len(out_) + 1]
    /\ \A i \in 1..Len(queue_) : queue_[i] = accepted[Len(out_) + Taken + i]

(* How the flags, the counter and the writer's position go together.        *)
WriterAgrees ==
  /\ written_ + (IF writer = "count" THEN 1 ELSE 0) = Len(out_)
  /\ failed_ => writer = "done"
  /\ writer = "done" /\ ~failed_ => closing_ /\ queue_ = <<>>
  /\ torn => failed_ \/ writer = "fail"
  /\ closer = "open" <=> ~closing_

(* The file is that of the stream, or the first part of it if it broke off; *)
(* its reader has not gone past its end.                                    *)
FileAgrees ==
  /\ process = "running" =>
       disk = <<>> /\ read_ = 0 /\ ~truncated_ /\ reader = "entry"
  /\ process = "closed" =>
       /\ closing_ /\ writer = "done" /\ Len(disk) <= Len(out_)
       /\ ~failed_ => disk = out_ /\ ~disk_torn
  /\ read_ <= Len(disk)
  /\ reader = "nothing" \/ truncated_ => read_ = Len(disk)
  /\ truncated_ \/ reader = "throw" => disk_torn

(* The writer does not sleep through what it waits for: if it is blocked    *)
(* with an entry in the queue or the recording closing, the thread that     *)
(* brought it has yet to notify (MapperInputLog.cpp:225-246, 268-277).      *)
WriterIsWoken ==
  writer = "blocked" =>
    /\ queue_ # <<>> => \E t \in Threads : recorder[t] = "notify"
    /\ closing_ => closer = "notify"

(* What the writer's wait has seen under mtx_ still holds when it blocks.   *)
SeenUnderMutex ==
  /\ writer \in {"predicate", "block"} => mtx_
  /\ writer = "block" => ~closing_ /\ queue_ = <<>>

IInv ==
  /\ TypeOK /\ StreamIsPrefix /\ NothingLost /\ WriterAgrees /\ FileAgrees
  /\ SeenUnderMutex /\ WriterIsWoken

LEMMA InitInvariant == Init => IInv
<1> SUFFICES ASSUME Init PROVE IInv
  OBVIOUS
<1>1. TypeOK
  <2>1. <<>> \in Seq(1..MaxCalls)
    BY EmptySeq
  <2>2. 0 \in 0..MaxCalls
    BY CallsAssumption
  <2> QED BY <2>1, <2>2 DEF Init, TypeOK
<1>2. StreamIsPrefix /\ NothingLost
  BY DEF Init, StreamIsPrefix, NothingLost, Taken
<1>3. WriterAgrees /\ FileAgrees
  BY DEF Init, WriterAgrees, FileAgrees
<1>4. SeenUnderMutex /\ WriterIsWoken
  BY DEF Init, SeenUnderMutex, WriterIsWoken
<1> QED BY <1>1, <1>2, <1>3, <1>4 DEF IInv

(* A stream that breaks off leaves some of its first entries.               *)
LEMMA CutTyped ==
  ASSUME TypeOK, DiskIsCut
  PROVE  /\ disk' \in Seq(1..MaxCalls) /\ disk_torn' \in BOOLEAN
         /\ Len(disk') <= Len(out_)
<1>0. out_ \in Seq(1..MaxCalls) /\ Len(out_) \in Nat
  BY LenProperties DEF TypeOK
<1>1. PICK n \in 0..Len(out_), t \in BOOLEAN :
           disk' = SubSeq(out_, 1, n) /\ disk_torn' = t
  BY DEF DiskIsCut
<1>2. \A i \in 1..n : i \in 1..Len(out_)
  BY <1>0
<1>3. \A i \in 1..n : out_[i] \in 1..MaxCalls
  BY <1>0, <1>2, ElementOfSeq
<1>4. SubSeq(out_, 1, n) \in Seq(1..MaxCalls) /\ Len(SubSeq(out_, 1, n)) = n
  BY <1>0, <1>3, SubSeqProperties
<1> QED BY <1>0, <1>1, <1>4

(* Every step keeps the types.                                              *)
LEMMA TypeStep == ASSUME IInv, [Next]_vars PROVE TypeOK'
<1>0. TypeOK /\ NothingLost /\ WriterAgrees
  BY DEF IInv
<1> USE <1>0 DEF TypeOK, fileVars, readerVars
<1>1. ASSUME NEW t \in Threads, RecordQueue(t) PROVE TypeOK'
  <2>1. calls' \in 1..MaxCalls
    BY <1>1, CallsAssumption DEF RecordQueue
  <2>2. Append(queue_, calls') \in Seq(1..MaxCalls)
        /\ Append(accepted, calls') \in Seq(1..MaxCalls)
    BY <2>1, AppendProperties
  <2>3. calls' \in 0..MaxCalls
    BY <2>1
  <2>4. CASE Refuses
    BY <1>1, <2>3, <2>4 DEF RecordQueue
  <2>5. CASE ~Refuses
    <3>1. recorder' \in [Threads -> {"idle", "notify"}]
      BY <1>1, <2>5 DEF RecordQueue
    <3>2. queue_' \in Seq(1..MaxCalls) /\ accepted' \in Seq(1..MaxCalls)
      BY <1>1, <2>2, <2>5 DEF RecordQueue
    <3> QED BY <1>1, <2>3, <3>1, <3>2 DEF RecordQueue
  <2> QED BY <2>4, <2>5
<1>2. ASSUME NEW t \in Threads, RecordNotify(t) PROVE TypeOK'
  BY <1>2 DEF RecordNotify, NotifyOne
<1>3. CASE CloseSet \/ CloseNotify
  BY <1>3 DEF CloseSet, CloseNotify, NotifyOne
<1>4. CASE CloseFile
  <2>1. disk' \in Seq(1..MaxCalls) /\ disk_torn' \in BOOLEAN
    BY <1>4, CutTyped DEF CloseFile, StreamCloses
  <2> QED BY <1>4, <2>1 DEF CloseFile, recorderVars
<1>5. CASE WriterLock \/ WriterBlock \/ WriterBlocked
  BY <1>5 DEF WriterLock, WriterBlock, WriterBlocked
<1>6. CASE WriterTake
  <2>1. queue_ # <<>> => Head(queue_) \in 1..MaxCalls /\ Tail(queue_) \in Seq(1..MaxCalls)
    BY HeadTailProperties
  <2>2. CASE NothingLeft
    BY <1>6, <2>2 DEF WriterTake
  <2>3. CASE ~NothingLeft
    <3>1. obj' = Head(queue_) /\ queue_' = Tail(queue_)
      BY <1>6, <2>3 DEF WriterTake
    <3>2. queue_' \in Seq(1..MaxCalls) /\ obj' \in 1..MaxCalls
      BY <2>1, <2>3, <3>1 DEF NothingLeft
    <3>3. obj' \in 0..MaxCalls
      BY <3>2, CallsAssumption
    <3> QED BY <1>6, <2>3, <3>2, <3>3 DEF WriterTake
  <2> QED BY <2>2, <2>3
<1>7. CASE WriterWrite
  <2>1. obj = accepted[Len(out_) + 1] /\ Len(out_) + 1 \in 1..Len(accepted)
    BY <1>7 DEF WriterWrite, NothingLost, Taken, WriterAgrees
  <2>2. obj \in 1..MaxCalls
    BY <2>1, ElementOfSeq
  <2>3. Append(out_, obj) \in Seq(1..MaxCalls)
    BY <2>2, AppendProperties
  <2> QED BY <1>7, <2>3 DEF WriterWrite
<1>8. CASE WriterCount
  BY <1>8 DEF WriterCount
<1>9. CASE WriterThrows
  BY <1>9 DEF WriterThrows
<1>10. CASE WriterFail
  BY <1>10 DEF WriterFail
<1>11. CASE Kill
  BY <1>11, CutTyped DEF Kill, recorderVars
<1>12. CASE ReadEntry \/ ReadEnd
  BY <1>12 DEF ReadEntry, ReadEnd, recorderVars
<1>13. CASE ReadPartial
  BY <1>13 DEF ReadPartial, recorderVars
<1>14. CASE Reopen
  BY <1>14 DEF Reopen, recorderVars
<1>15. CASE UNCHANGED vars
  BY <1>15 DEF vars, recorderVars
<1> QED BY <1>1, <1>2, <1>3, <1>4, <1>5, <1>6, <1>7, <1>8, <1>9, <1>10, <1>11, <1>12,
        <1>13, <1>14, <1>15 DEF Next, Closer, Writer, Reader

(* The stream only gets what is next in the order of acceptance.            *)
LEMMA ContentStep ==
  ASSUME IInv, [Next]_vars
  PROVE  StreamIsPrefix' /\ NothingLost'
<1>0. TypeOK /\ StreamIsPrefix /\ NothingLost /\ WriterAgrees
  BY DEF IInv
<1> USE DEF StreamIsPrefix, NothingLost
<1>q. queue_ \in Seq(1..MaxCalls) /\ out_ \in Seq(1..MaxCalls)
      /\ accepted \in Seq(1..MaxCalls)
  BY <1>0 DEF TypeOK
<1>1. ASSUME NEW t \in Threads, RecordQueue(t) PROVE StreamIsPrefix' /\ NothingLost'
  <2>1. CASE Refuses
    BY <1>0, <1>1, <2>1 DEF RecordQueue, Taken
  <2>2. CASE ~Refuses
    <3>1. calls' \in 1..MaxCalls
      BY <1>0, <1>1, CallsAssumption DEF RecordQueue, TypeOK
    <3>2. queue_' = Append(queue_, calls') /\ accepted' = Append(accepted, calls')
          /\ UNCHANGED <<failed_, writer, obj, out_>>
      BY <1>1, <2>2 DEF RecordQueue
    <3>3. ~failed_
      BY <2>2 DEF Refuses
    <3>4. /\ Len(accepted') = Len(accepted) + 1
          /\ \A i \in 1..Len(accepted) : accepted'[i] = accepted[i]
          /\ accepted'[Len(accepted) + 1] = calls'
      BY <1>q, <3>1, <3>2, AppendProperties
    <3>5. /\ Len(queue_') = Len(queue_) + 1
          /\ \A i \in 1..Len(queue_) : queue_'[i] = queue_[i]
          /\ queue_'[Len(queue_) + 1] = calls'
      BY <1>q, <3>1, <3>2, AppendProperties
    <3>6. Taken' = Taken /\ Taken \in 0..1
      BY <3>2 DEF Taken
    <3>7. Len(accepted) \in Nat /\ Len(queue_) \in Nat /\ Len(out_) \in Nat
      BY <1>q, LenProperties
    <3>8. StreamIsPrefix'
      BY <1>0, <3>2, <3>4, <3>7
    <3>9. \A i \in 1..Len(queue_') : queue_'[i] = accepted'[Len(out_') + Taken' + i]
      <4> SUFFICES ASSUME NEW i \in 1..(Len(queue_) + 1)
                   PROVE  queue_'[i] = accepted'[Len(out_) + Taken + i]
        BY <3>2, <3>5, <3>6
      <4>1. Len(accepted) = Len(out_) + Taken + Len(queue_)
        BY <1>0, <3>3
      <4>2. CASE i = Len(queue_) + 1
        <5>1. Len(out_) + Taken + i = Len(accepted) + 1
          BY <3>6, <3>7, <4>1, <4>2
        <5> QED BY <3>4, <3>5, <4>2, <5>1
      <4>3. CASE i \in 1..Len(queue_)
        <5>1. Len(out_) + Taken + i \in 1..Len(accepted)
          BY <3>6, <3>7, <4>1, <4>3
        <5>2. queue_[i] = accepted[Len(out_) + Taken + i]
          BY <1>0, <3>3, <4>3
        <5> QED BY <3>4, <3>5, <4>3, <5>1, <5>2
      <4> QED BY <3>7, <4>2, <4>3
    <3>10. Len(accepted') = Len(out_') + Taken' + Len(queue_')
      BY <1>0, <3>2, <3>3, <3>4, <3>5, <3>6, <3>7
    <3>11. Taken' = 1 => obj' = accepted'[Len(out_') + 1]
      <4>1. Taken = 1 => Len(out_) + 1 \in 1..Len(accepted)
        BY <1>0, <3>3, <3>7
      <4> QED BY <1>0, <3>2, <3>3, <3>4, <3>6, <4>1
    <3> QED BY <3>8, <3>9, <3>10, <3>11
  <2> QED BY <2>1, <2>2
<1>2. ASSUME NEW t \in Threads, RecordNotify(t) PROVE StreamIsPrefix' /\ NothingLost'
  BY <1>0, <1>2 DEF RecordNotify, NotifyOne, Taken
<1>3. CASE Closer
  BY <1>0, <1>3
     DEF Closer, CloseSet, CloseNotify, CloseFile, NotifyOne, recorderVars, Taken
<1>4. CASE WriterLock \/ WriterBlock \/ WriterBlocked \/ WriterCount
  BY <1>0, <1>4 DEF WriterLock, WriterBlock, WriterBlocked, WriterCount, Taken
<1>5. CASE WriterTake
  <2>1. CASE NothingLeft
    BY <1>0, <1>5, <2>1 DEF WriterTake, Taken
  <2>2. CASE ~NothingLeft
    <3>1. obj' = Head(queue_) /\ queue_' = Tail(queue_) /\ writer = "predicate"
          /\ writer' = "write" /\ UNCHANGED <<failed_, out_, accepted>>
      BY <1>5, <2>2 DEF WriterTake
    <3>2. /\ Len(queue_) >= 1
          /\ Head(queue_) = queue_[1]
          /\ Len(Tail(queue_)) = Len(queue_) - 1
          /\ \A i \in 1..Len(Tail(queue_)) : Tail(queue_)[i] = queue_[i + 1]
      BY <1>q, <2>2, HeadTailProperties DEF NothingLeft
    <3>3. Taken = 0 /\ Taken' = 1
      BY <3>1 DEF Taken
    <3>4. Len(queue_) \in Nat /\ Len(out_) \in Nat
      BY <1>q, LenProperties
    <3>5. CASE failed_
      BY <1>0, <3>1, <3>5
    <3>6. CASE ~failed_
      <4>1. Len(accepted) = Len(out_) + Len(queue_)
            /\ \A i \in 1..Len(queue_) : queue_[i] = accepted[Len(out_) + i]
        BY <1>0, <3>3, <3>4, <3>6
      <4>2. obj' = accepted[Len(out_) + 1]
        BY <3>1, <3>2, <3>4, <4>1
      <4>3. \A i \in 1..Len(queue_') : queue_'[i] = accepted[Len(out_) + 1 + i]
        BY <3>1, <3>2, <3>4, <4>1
      <4>4. Len(accepted) = Len(out_) + 1 + Len(queue_')
        <5>1. Len(queue_') = Len(queue_) - 1
          BY <3>1, <3>2
        <5> QED BY <3>4, <4>1, <5>1
      <4> QED BY <1>0, <3>1, <3>3, <4>2, <4>3, <4>4
    <3> QED BY <3>5, <3>6
  <2> QED BY <2>1, <2>2
<1>6. CASE WriterWrite
  <2>1. out_' = Append(out_, obj) /\ writer = "write" /\ writer' = "count"
        /\ UNCHANGED <<failed_, queue_, accepted>>
    BY <1>6 DEF WriterWrite
  <2>2. ~failed_ /\ obj = accepted[Len(out_) + 1] /\ Len(out_) + 1 \in 1..Len(accepted)
    BY <1>0, <1>q, <2>1 DEF WriterAgrees, Taken
  <2>3. obj \in 1..MaxCalls
    BY <1>q, <2>2, ElementOfSeq
  <2>4. Len(out_') = Len(out_) + 1 /\ out_'[Len(out_) + 1] = obj
        /\ \A i \in 1..Len(out_) : out_'[i] = out_[i]
    BY <1>q, <2>1, <2>3, AppendProperties
  <2> QED BY <1>0, <1>q, <2>1, <2>2, <2>4 DEF Taken
<1>7. CASE WriterThrows \/ WriterFail
  BY <1>0, <1>7 DEF WriterThrows, WriterFail, Taken
<1>8. CASE Kill \/ Reader
  BY <1>0, <1>8
     DEF Kill, Reader, ReadEntry, ReadEnd, ReadPartial, Reopen, recorderVars, Taken
<1>9. CASE UNCHANGED vars
  BY <1>0, <1>9 DEF vars, recorderVars, Taken
<1> QED BY <1>1, <1>2, <1>3, <1>4, <1>5, <1>6, <1>7, <1>8, <1>9 DEF Next, Writer

(* The flags, the counter and the writer's position.                        *)
LEMMA WriterStep == ASSUME IInv, [Next]_vars PROVE WriterAgrees'
<1>0. TypeOK /\ WriterAgrees
  BY DEF IInv
<1>q. written_ \in Nat /\ out_ \in Seq(1..MaxCalls)
  BY <1>0 DEF TypeOK
<1> USE DEF WriterAgrees
<1>1. ASSUME NEW t \in Threads, RecordQueue(t) PROVE WriterAgrees'
  BY <1>0, <1>1 DEF RecordQueue, Refuses
<1>2. ASSUME NEW t \in Threads, RecordNotify(t) PROVE WriterAgrees'
  BY <1>0, <1>2 DEF RecordNotify, NotifyOne
<1>3. CASE Closer
  BY <1>0, <1>3 DEF Closer, CloseSet, CloseNotify, CloseFile, NotifyOne, recorderVars
<1>4. CASE WriterLock \/ WriterBlock \/ WriterBlocked
  BY <1>0, <1>4 DEF WriterLock, WriterBlock, WriterBlocked
<1>5. CASE WriterTake
  BY <1>0, <1>5 DEF WriterTake, NothingLeft
<1>6. CASE WriterWrite
  <2>1. Len(out_') = Len(out_) + 1
    BY <1>6, <1>q DEF WriterWrite
  <2> QED BY <1>0, <1>6, <1>q, <2>1 DEF WriterWrite
<1>7. CASE WriterCount
  BY <1>0, <1>7, <1>q DEF WriterCount
<1>8. CASE WriterThrows \/ WriterFail
  BY <1>0, <1>8 DEF WriterThrows, WriterFail
<1>9. CASE Kill \/ Reader
  BY <1>0, <1>9 DEF Kill, Reader, ReadEntry, ReadEnd, ReadPartial, Reopen, recorderVars
<1>10. CASE UNCHANGED vars
  BY <1>0, <1>10 DEF vars, recorderVars
<1> QED BY <1>1, <1>2, <1>3, <1>4, <1>5, <1>6, <1>7, <1>8, <1>9, <1>10 DEF Next, Writer

(* The file and its reader.                                                 *)
LEMMA FileStep == ASSUME IInv, [Next]_vars PROVE FileAgrees'
<1>0. TypeOK /\ WriterAgrees /\ FileAgrees
  BY DEF IInv
<1>q. read_ \in Nat /\ out_ \in Seq(1..MaxCalls) /\ disk \in Seq(1..MaxCalls)
  BY <1>0 DEF TypeOK
<1> USE DEF FileAgrees
<1>1. ASSUME NEW t \in Threads, RecordQueue(t) \/ RecordNotify(t) PROVE FileAgrees'
  BY <1>0, <1>1 DEF RecordQueue, RecordNotify, fileVars, readerVars
<1>2. CASE CloseSet \/ CloseNotify
  BY <1>0, <1>2 DEF CloseSet, CloseNotify, fileVars, readerVars
<1>3. CASE CloseFile
  <2>1. /\ process = "running" /\ process' = "closed" /\ writer = "done" /\ closing_
        /\ UNCHANGED <<failed_, closing_, writer, out_, read_, truncated_, reader>>
    BY <1>0, <1>3 DEF CloseFile, WriterAgrees, recorderVars, readerVars
  <2>2. Len(out_) \in Nat
    BY <1>q, LenProperties
  <2>3. CASE failed_
    <3>1. disk' \in Seq(1..MaxCalls) /\ Len(disk') <= Len(out_)
      BY <1>0, <1>3, <2>3, CutTyped DEF CloseFile, StreamCloses
    <3>2. Len(disk') >= 0
      BY <3>1, LenProperties
    <3> QED BY <1>0, <2>1, <2>3, <3>1, <3>2
  <2>4. CASE ~failed_
    <3>1. disk' = out_ /\ disk_torn' = torn /\ ~torn
      BY <1>0, <1>3, <2>1, <2>4 DEF CloseFile, StreamCloses, WriterAgrees
    <3> QED BY <1>0, <2>1, <2>2, <2>4, <3>1
  <2> QED BY <2>3, <2>4
<1>4. CASE Writer
  BY <1>0, <1>4 DEF Writer, WriterLock, WriterBlock, WriterBlocked, WriterTake, WriterWrite,
    WriterCount, WriterThrows, WriterFail, fileVars, readerVars
<1>5. CASE Kill
  <2>1. disk' \in Seq(1..MaxCalls)
    BY <1>0, <1>5, CutTyped DEF Kill
  <2>2. Len(disk') >= 0
    BY <2>1, LenProperties
  <2> QED BY <1>0, <1>5, <2>2 DEF Kill, readerVars
<1>6. CASE ReadEntry \/ ReadEnd \/ ReadPartial
  BY <1>0, <1>q, <1>6 DEF ReadEntry, ReadEnd, ReadPartial, recorderVars, fileVars
<1>7. CASE Reopen
  BY <1>0, <1>q, <1>7 DEF Reopen, recorderVars, fileVars
<1>8. CASE UNCHANGED vars
  BY <1>0, <1>8 DEF vars, recorderVars, fileVars, readerVars
<1> QED BY <1>1, <1>2, <1>3, <1>4, <1>5, <1>6, <1>7, <1>8 DEF Next, Closer, Reader

(* Who brings what the writer waits for needs mtx_, so the writer has seen  *)
(* it, or is blocked before it is notified.                                 *)
LEMMA WakeupStep == ASSUME IInv, [Next]_vars PROVE (SeenUnderMutex /\ WriterIsWoken)'
<1>0. TypeOK /\ WriterAgrees /\ SeenUnderMutex /\ WriterIsWoken
  BY DEF IInv
<1> USE DEF SeenUnderMutex, WriterIsWoken
<1>1. ASSUME NEW t \in Threads, RecordQueue(t)
      PROVE  (SeenUnderMutex /\ WriterIsWoken)'
  <2>1. ~mtx_ /\ UNCHANGED <<mtx_, writer, closing_, closer>>
    BY <1>1 DEF RecordQueue, RecordLocked, MutexFree
  <2>2. CASE Refuses
    BY <1>0, <1>1, <2>1, <2>2 DEF RecordQueue
  <2>3. CASE ~Refuses
    <3>1. recorder'[t] = "notify"
      BY <1>0, <1>1, <2>3 DEF RecordQueue, TypeOK
    <3> QED BY <1>0, <2>1, <3>1
  <2> QED BY <2>2, <2>3
<1>2. ASSUME NEW t \in Threads, RecordNotify(t)
      PROVE  (SeenUnderMutex /\ WriterIsWoken)'
  BY <1>0, <1>2 DEF RecordNotify, NotifyOne
<1>3. CASE CloseSet
  BY <1>0, <1>3 DEF CloseSet, CloseLocked, MutexFree
<1>4. CASE CloseNotify \/ CloseFile
  BY <1>0, <1>4 DEF CloseNotify, CloseFile, NotifyOne, recorderVars
<1>5. CASE WriterLock \/ WriterBlock \/ WriterWrite
  BY <1>0, <1>5 DEF WriterLock, WriterBlock, WriterWrite
<1>6. CASE WriterCount \/ WriterThrows \/ WriterFail
  BY <1>0, <1>6 DEF WriterCount, WriterThrows, WriterFail
<1>7. CASE WriterBlocked
  BY <1>0, <1>7 DEF WriterBlocked
<1>8. CASE WriterTake
  BY <1>0, <1>8 DEF WriterTake
<1>9. CASE Kill \/ Reader
  BY <1>0, <1>9 DEF Kill, Reader, ReadEntry, ReadEnd, ReadPartial, Reopen, recorderVars
<1>10. CASE UNCHANGED vars
  BY <1>0, <1>10 DEF vars, recorderVars
<1> QED BY <1>1, <1>2, <1>3, <1>4, <1>5, <1>6, <1>7, <1>8, <1>9, <1>10
        DEF Next, Closer, Writer

LEMMA Invariance == Spec => []IInv
<1>1. IInv /\ [Next]_vars => IInv'
  <2> SUFFICES ASSUME IInv, [Next]_vars PROVE IInv'
    OBVIOUS
  <2> QED BY TypeStep, ContentStep, WriterStep, FileStep, WakeupStep DEF IInv
<1> QED BY <1>1, InitInvariant, PTL DEF Spec

(* The types of the flags, the queue, the threads' positions and the file.  *)
THEOREM TypeCorrect == Spec => []TypeOK
BY Invariance, PTL DEF IInv

(* The writer never stays blocked on an entry or on the end of the          *)
(* recording without a notification that is still to come.                  *)
THEOREM WriterWoken == Spec => []WriterIsWoken
BY Invariance, PTL DEF IInv

(* The count that finalize() reports is that of the entries in the file, or *)
(* more if the recording failed, but never less.                            *)
THEOREM CountIsRight == Spec => []CountCoversFile
<1>1. IInv => CountCoversFile
  <2> SUFFICES ASSUME IInv, process = "closed"
               PROVE  Len(disk) <= written_ /\ (~failed_ => Len(disk) = written_)
    BY DEF CountCoversFile
  <2>1. written_ \in Nat /\ writer = "done" /\ Len(disk) <= Len(out_)
        /\ (~failed_ => disk = out_)
    BY DEF IInv, TypeOK, FileAgrees
  <2>2. written_ = Len(out_)
    BY <2>1 DEF IInv, WriterAgrees
  <2> QED BY <2>1, <2>2
<1> QED BY <1>1, Invariance, PTL

(* The stream at the end of a clean recording has all that was accepted.    *)
LEMMA StreamComplete ==
  ASSUME IInv, writer = "done", ~failed_
  PROVE  out_ = accepted
<1>1. out_ \in Seq(1..MaxCalls) /\ accepted \in Seq(1..MaxCalls)
  BY DEF IInv, TypeOK
<1>2. queue_ = <<>> /\ Taken = 0
  BY DEF IInv, WriterAgrees, Taken
<1>3. Len(accepted) = Len(out_)
  BY <1>1, <1>2 DEF IInv, NothingLost
<1>4. \A i \in 1..Len(out_) : out_[i] = accepted[i]
  BY DEF IInv, StreamIsPrefix
<1> QED BY <1>1, <1>3, <1>4, SeqEqual

(* What has been written is always some of the first accepted entries.      *)
LEMMA StreamCut ==
  ASSUME IInv, NEW n \in 0..Len(out_)
  PROVE  n \in 0..Len(accepted) /\ SubSeq(out_, 1, n) = SubSeq(accepted, 1, n)
<1>1. out_ \in Seq(1..MaxCalls) /\ accepted \in Seq(1..MaxCalls)
  BY DEF IInv, TypeOK
<1>2. Len(out_) \in Nat /\ Len(accepted) \in Nat /\ n \in Nat
  BY <1>1, LenProperties
<1>3. n <= Len(out_) /\ n <= Len(accepted)
  BY <1>2 DEF IInv, StreamIsPrefix
<1>4. \A i \in 1..n : out_[i] = accepted[i]
  BY <1>2, <1>3 DEF IInv, StreamIsPrefix
<1>5. \A i \in 1..n : out_[i] \in 1..MaxCalls /\ accepted[i] \in 1..MaxCalls
  <2>1. \A i \in 1..n : i \in 1..Len(out_) /\ i \in 1..Len(accepted)
    BY <1>2, <1>3
  <2> QED BY <1>1, <2>1, ElementOfSeq
<1>6. /\ SubSeq(out_, 1, n) \in Seq(1..MaxCalls)
      /\ Len(SubSeq(out_, 1, n)) = n
      /\ \A i \in 1..n : SubSeq(out_, 1, n)[i] = out_[i]
  BY <1>2, <1>5, SubSeqProperties
<1>7. /\ SubSeq(accepted, 1, n) \in Seq(1..MaxCalls)
      /\ Len(SubSeq(accepted, 1, n)) = n
      /\ \A i \in 1..n : SubSeq(accepted, 1, n)[i] = accepted[i]
  BY <1>2, <1>5, SubSeqProperties
<1>8. SubSeq(out_, 1, n) = SubSeq(accepted, 1, n)
  BY <1>4, <1>6, <1>7, SeqEqual
<1> QED BY <1>2, <1>3, <1>8

(* A reader gets all the complete entries of the file, everything that was  *)
(* accepted if the recording was clean, and tells of a cut only if there    *)
(* has been one.                                                            *)
THEOREM ReplayIsComplete == Spec => []ReplayComplete
<1>1. IInv => ReplayComplete
  <2> SUFFICES ASSUME IInv PROVE ReplayComplete
    OBVIOUS
  <2>1. truncated_ \/ reader = "throw" => process = "killed" \/ failed_
    BY DEF IInv, TypeOK, FileAgrees
  <2>2. reader = "nothing" => read_ = Len(disk)
    BY DEF IInv, FileAgrees
  <2>3. ASSUME reader = "nothing", process = "closed", ~failed_
        PROVE  read_ = Len(accepted)
    <3>1. writer = "done" /\ disk = out_
      BY <2>3 DEF IInv, FileAgrees
    <3> QED BY <2>2, <2>3, <3>1, StreamComplete
  <2> QED BY <2>1, <2>2, <2>3 DEF ReplayComplete
<1> QED BY <1>1, Invariance, PTL

-----------------------------------------------------------------------------
(***************************************************************************)
(* InputLog implements InputLogContract.                                   *)
(***************************************************************************)
LEMMA SamePhase ==
  ASSUME UNCHANGED <<process, failed_, closing_>>
  PROVE  Phase' = Phase
BY DEF Phase

LEMMA RunningPhase ==
  ASSUME process = "running"
  PROVE  Phase = IF failed_ THEN "failed" ELSE IF closing_ THEN "closing" ELSE "open"
BY DEF Phase

LEMMA Stutter ==
  ASSUME UNCHANGED <<process, failed_, closing_, accepted, disk>>
  PROVE  UNCHANGED Contract!vars
BY SamePhase DEF Contract!vars

LEMMA RecordImplements ==
  ASSUME IInv, NEW t \in Threads, RecordQueue(t)
  PROVE  [Contract!Next]_(Contract!vars)
<1>1. CASE Refuses
  BY <1>1, Stutter DEF RecordQueue, fileVars
<1>2. CASE ~Refuses
  <2>1. calls' \in 1..MaxCalls
    BY CallsAssumption DEF IInv, TypeOK, RecordQueue
  <2>2. process = "running" /\ ~failed_ /\ ~closing_
    BY <1>2 DEF RecordQueue, Refuses
  <2>3. Phase = "open" /\ Phase' = Phase /\ disk' = disk
    BY <2>2, RunningPhase, SamePhase DEF RecordQueue, fileVars
  <2>4. accepted' = Append(accepted, calls')
    BY <1>2 DEF RecordQueue
  <2>5. Contract!Accept
    BY <2>1, <2>3, <2>4 DEF Contract!Accept
  <2> QED BY <2>5 DEF Contract!Next
<1> QED BY <1>1, <1>2

LEMMA CloseImplements ==
  ASSUME IInv, CloseSet
  PROVE  [Contract!Next]_(Contract!vars)
<1>1. process = "running" /\ process' = process /\ failed_' = failed_
      /\ ~closing_ /\ closing_' /\ accepted' = accepted /\ disk' = disk
  BY DEF CloseSet, IInv, WriterAgrees, fileVars
<1>2. CASE failed_
  <2>1. Phase = "failed" /\ Phase' = "failed"
    BY <1>1, <1>2 DEF Phase
  <2> QED BY <1>1, <2>1 DEF Contract!vars
<1>3. CASE ~failed_
  <2>1. Phase = "open" /\ Phase' = "closing"
    BY <1>1, <1>3 DEF Phase
  <2>2. Contract!Close
    BY <1>1, <2>1 DEF Contract!Close
  <2> QED BY <2>2 DEF Contract!Next
<1> QED BY <1>2, <1>3

LEMMA EndImplements ==
  ASSUME IInv, CloseFile
  PROVE  [Contract!Next]_(Contract!vars)
<1>1. process = "running" /\ process' = "closed" /\ failed_' = failed_
      /\ accepted' = accepted /\ StreamCloses /\ writer = "done"
  BY DEF CloseFile, recorderVars
<1>2. CASE failed_
  <2>1. Phase = "failed" /\ Phase' = "cut"
    BY <1>1, <1>2 DEF Phase
  <2>2. PICK n \in 0..Len(out_) : disk' = SubSeq(out_, 1, n)
    BY <1>1, <1>2 DEF StreamCloses, DiskIsCut
  <2>3. n \in 0..Len(accepted) /\ disk' = SubSeq(accepted, 1, n)
    BY <2>2, StreamCut
  <2>4. Contract!Cut
    BY <1>1, <2>1, <2>3 DEF Contract!Cut
  <2> QED BY <2>4 DEF Contract!Next
<1>3. CASE ~failed_
  <2>1. closing_ /\ out_ = accepted /\ disk' = out_
    BY <1>1, <1>3, StreamComplete DEF IInv, WriterAgrees, StreamCloses
  <2>2. Phase = "closing" /\ Phase' = "stored"
    BY <1>1, <1>3, <2>1 DEF Phase
  <2>3. Contract!Store
    BY <1>1, <2>1, <2>2 DEF Contract!Store
  <2> QED BY <2>3 DEF Contract!Next
<1> QED BY <1>2, <1>3

LEMMA FailImplements ==
  ASSUME IInv, WriterFail
  PROVE  [Contract!Next]_(Contract!vars)
<1>1. process = "running" /\ process' = process /\ ~failed_ /\ failed_'
      /\ accepted' = accepted /\ disk' = disk
  BY DEF WriterFail, fileVars, IInv, WriterAgrees
<1>2. Phase \in {"open", "closing"} /\ Phase' = "failed"
  BY <1>1 DEF Phase
<1>3. Contract!Fail
  BY <1>1, <1>2 DEF Contract!Fail
<1> QED BY <1>3 DEF Contract!Next

LEMMA KillImplements ==
  ASSUME IInv, Kill
  PROVE  [Contract!Next]_(Contract!vars)
<1>1. process = "running" /\ process' = "killed" /\ accepted' = accepted
  BY DEF Kill, recorderVars
<1>2. Phase \in {"open", "closing", "failed"} /\ Phase' = "cut"
  BY <1>1 DEF Phase
<1>3. PICK n \in 0..Len(out_) : disk' = SubSeq(out_, 1, n)
  BY DEF Kill, DiskIsCut
<1>4. n \in 0..Len(accepted) /\ disk' = SubSeq(accepted, 1, n)
  BY <1>3, StreamCut
<1>5. Contract!Cut
  BY <1>1, <1>2, <1>4 DEF Contract!Cut
<1> QED BY <1>5 DEF Contract!Next

LEMMA StepImplements ==
  ASSUME IInv, [Next]_vars
  PROVE  [Contract!Next]_(Contract!vars)
<1>1. ASSUME NEW t \in Threads, RecordQueue(t) PROVE [Contract!Next]_(Contract!vars)
  BY <1>1, RecordImplements
<1>2. ASSUME NEW t \in Threads, RecordNotify(t) PROVE [Contract!Next]_(Contract!vars)
  BY <1>2, Stutter DEF RecordNotify, fileVars
<1>3. CASE CloseSet \/ CloseFile \/ WriterFail \/ Kill
  BY <1>3, CloseImplements, EndImplements, FailImplements, KillImplements
<1>4. CASE CloseNotify
  BY <1>4, Stutter DEF CloseNotify, fileVars
<1>5. CASE WriterLock \/ WriterBlock \/ WriterBlocked \/ WriterTake
  BY <1>5, Stutter DEF WriterLock, WriterBlock, WriterBlocked, WriterTake, fileVars
<1>6. CASE WriterWrite \/ WriterCount \/ WriterThrows
  BY <1>6, Stutter DEF WriterWrite, WriterCount, WriterThrows, fileVars
<1>7. CASE Reader
  BY <1>7, Stutter DEF Reader, ReadEntry, ReadEnd, ReadPartial, Reopen, recorderVars,
    fileVars
<1>8. CASE UNCHANGED vars
  BY <1>8, Stutter DEF vars, recorderVars, fileVars
<1> QED BY <1>1, <1>2, <1>3, <1>4, <1>5, <1>6, <1>7, <1>8 DEF Next, Closer, Writer

(* Whatever the order of records, write errors, close() and a kill, the     *)
(* file has the accepted entries in order: all of them after a clean close. *)
THEOREM Implements == Spec => KeepsContract
<1>1. Init => Contract!Init
  BY DEF Init, Contract!Init, Phase
<1>2. IInv /\ [Next]_vars => [Contract!Next]_(Contract!vars)
  BY StepImplements
<1> QED BY <1>1, <1>2, Invariance, PTL DEF Spec, KeepsContract, Contract!Spec
=============================================================================
