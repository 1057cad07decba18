------------------------ MODULE LoopClosureWaitProofs ------------------------
(***************************************************************************)
(* wait_for_loop_closure_idle() covers the requests made before it, and no *)
(* wakeup is lost, for any number of clients, requests and periods.        *)
(***************************************************************************)
EXTENDS LoopClosureWait, TLAPS

Evaluating == {"load_running", "load_first", "load_second", "is_idle", "not_idle"}

(* A client that evaluates isIdle holds lc_idle_mtx_.                       *)
IdleMutexHeld == \A c \in Clients : client[c] \in Evaluating => lc_idle_mtx_ = c

(* A request is seen in lc_force_scan_ until it is taken and in lc_busy_    *)
(* while the scan that took it runs; a wait awaits open requests only.      *)
RequestsTracked ==
  /\ \A c \in Clients : /\ request[c] = "pending" => lc_force_scan_
                        /\ request[c] = "taken" => thread = "scan"
  /\ thread \in {"take", "scan", "idle"} => lc_busy_
  /\ thread \in {"loop", "lock", "load_exit", "load_force", "block", "blocked",
                 "unlock", "woken", "busy", "take", "scan", "idle", "idle_notify",
                 "exit"} => lc_thread_running_
  /\ \A c, d \in Clients : d \in awaited[c] => request[d] # "none"

(* After it has seen lc_force_scan_ clear, a client that awaits a request   *)
(* will see lc_busy_ set: the busy flag is cleared under lc_idle_mtx_ only. *)
AwaitedSeen ==
  \A c \in Clients :
    /\ client[c] = "load_second" => awaited[c] = {} \/ lc_busy_
    /\ client[c] \in {"is_idle", "returned"} =>
         awaited[c] = {} \/ ~lc_thread_running_

(* No thread sleeps through what it waits for.  If the loop is blocked with *)
(* a request or the exit flag set, who set it has yet to notify; if a       *)
(* client is blocked, there is a request or a scan that it waits for, or    *)
(* the loop has yet to notify (Mapper_LoopClosure.cpp:66-128).              *)
NoWakeupLost ==
  /\ thread = "blocked" =>
       /\ lc_force_scan_ => \E c \in Clients : client[c] = "notify"
       /\ lc_should_exit_ => stop \in {"set", "locked"}
  /\ \A c \in Clients :
       client[c] = "blocked" =>
         \/ thread \in {"idle_notify", "exit_notify"}
         \/ lc_thread_running_ /\ (lc_force_scan_ \/ lc_busy_)

(* What the loop has seen since it took lc_wakeup_mtx_ still holds when it  *)
(* blocks, but for an exit flag whose setter has yet to take the mutex.     *)
LoopWakeup ==
  /\ thread \in {"load_exit", "load_force", "block", "unlock"} =>
       lc_wakeup_mtx_ = LoopCloser
  /\ lc_should_exit_ => stop # "running"
  /\ thread \in {"load_force", "block"} /\ lc_should_exit_ => stop = "set"
  /\ thread = "block" => ~lc_force_scan_
  /\ thread = "blocked" =>
       /\ lc_force_scan_ => \E c \in Clients : client[c] = "notify"
       /\ lc_should_exit_ => stop \in {"set", "locked"}

(* What a client has seen since it took lc_idle_mtx_ still holds when it    *)
(* blocks, and until the loop is about to notify.                           *)
ClientWakeup ==
  \A c \in Clients :
    /\ client[c] \in {"load_first", "load_second", "not_idle"} => lc_thread_running_
    /\ client[c] = "not_idle" => lc_force_scan_ \/ lc_busy_
    /\ client[c] = "blocked" =>
         \/ thread \in {"idle_notify", "exit_notify"}
         \/ lc_thread_running_ /\ (lc_force_scan_ \/ lc_busy_)

IInv ==
  TypeOK /\ IdleMutexHeld /\ RequestsTracked /\ AwaitedSeen /\ LoopWakeup /\ ClientWakeup

LEMMA InitInvariant == Init => IInv
<1> SUFFICES ASSUME Init PROVE IInv
  OBVIOUS
<1>1. TypeOK
  <2>1. requests \in [Clients -> 0..MaxRequests] /\ periods \in 0..MaxPeriods
    BY BoundsAssumption DEF Init
  <2>2. thread \in {"loop", "done"}
    BY DEF Init
  <2> QED BY <2>1, <2>2 DEF Init, TypeOK
<1>2. IdleMutexHeld /\ AwaitedSeen
  BY DEF Init, IdleMutexHeld, Evaluating, AwaitedSeen
<1>3. RequestsTracked
  BY DEF Init, RequestsTracked
<1>4. LoopWakeup /\ ClientWakeup
  BY DEF Init, LoopWakeup, ClientWakeup
<1> QED BY <1>1, <1>2, <1>3, <1>4 DEF IInv

(* The types are preserved by each step.                                    *)
LEMMA TypeStep == ASSUME TypeOK, [Next]_vars PROVE TypeOK'
<1> USE DEF TypeOK
<1>1. CASE LoopTest
  BY <1>1 DEF LoopTest, atomics, historyVars
<1>2. CASE WakeupLock \/ WakeupPredicate \/ WakeupBlock
  BY <1>2 DEF WakeupLock, WakeupPredicate, WakeupBlock, atomics, historyVars
<1>3. CASE SetBusy \/ Idle \/ Exit
  BY <1>3 DEF SetBusy, Idle, Exit, historyVars
<1>4. CASE Take
  <2>1. request' \in [Clients -> {"none", "pending", "taken"}]
    BY <1>4 DEF Take
  <2> QED BY <1>4, <2>1 DEF Take
<1>5. CASE ScanEnds
  <2>1. request' \in [Clients -> {"none", "pending", "taken"}]
    BY <1>5 DEF ScanEnds
  <2>2. awaited' \in [Clients -> SUBSET Clients]
    BY <1>5 DEF ScanEnds
  <2> QED BY <1>5, <2>1, <2>2 DEF ScanEnds, atomics
<1>6. CASE NotifyClients
  BY <1>6 DEF NotifyClients, NotifyIdle, atomics, historyVars
<1>7. CASE Period
  BY <1>7, BoundsAssumption DEF Period, atomics, historyVars
<1>8. CASE StopSet \/ StopLock
  BY <1>8 DEF StopSet, StopLock, atomics, historyVars
<1>9. CASE StopNotify
  BY <1>9 DEF StopNotify, NotifyWakeup, atomics, historyVars
<1>10. ASSUME NEW c \in Clients, Request(c) PROVE TypeOK'
  BY <1>10, BoundsAssumption DEF Request, atomics, historyVars
<1>11. ASSUME NEW c \in Clients, Client(c), ~Request(c) PROVE TypeOK'
  BY <1>11 DEF Client, RequestNotify, Wait, IdleLock, IsIdle, WaitUnlock, Timeout,
    GoOn, NotifyWakeup, atomics, historyVars
<1>12. CASE UNCHANGED vars
  BY <1>12 DEF vars, atomics, historyVars
<1> QED BY <1>1, <1>2, <1>3, <1>4, <1>5, <1>6, <1>7, <1>8, <1>9, <1>10, <1>11, <1>12
        DEF Next, LoopCloserThread, Stop

(* One client at a time evaluates isIdle.                                   *)
LEMMA MutexStep == ASSUME IInv, [Next]_vars PROVE IdleMutexHeld'
<1>0. TypeOK /\ IdleMutexHeld
  BY DEF IInv
<1> USE DEF TypeOK, IdleMutexHeld, Evaluating
<1>1. CASE LoopCloserThread
  BY <1>0, <1>1 DEF LoopCloserThread, LoopTest, WakeupLock, WakeupPredicate,
    WakeupBlock, SetBusy, Take, ScanEnds, Idle, Exit, NotifyClients, NotifyIdle
<1>2. CASE Period \/ Stop
  BY <1>0, <1>2 DEF Period, Stop, StopSet, StopLock, StopNotify
<1>3. ASSUME NEW c \in Clients, Client(c) PROVE IdleMutexHeld'
  BY <1>0, <1>3, ClientsAssumption DEF Client, Request, RequestNotify, Wait, IdleLock,
    IsIdle, WaitUnlock, Timeout, GoOn, IdleMutexFree
<1>4. CASE UNCHANGED vars
  BY <1>0, <1>4 DEF vars
<1> QED BY <1>1, <1>2, <1>3, <1>4 DEF Next

(* Every open request stays visible in one of the two flags.                *)
LEMMA RequestStep == ASSUME IInv, [Next]_vars PROVE RequestsTracked'
<1>0. TypeOK /\ RequestsTracked
  BY DEF IInv
<1> USE DEF TypeOK, RequestsTracked
<1>1. CASE LoopTest \/ WakeupLock \/ WakeupPredicate \/ WakeupBlock \/ SetBusy
  BY <1>0, <1>1 DEF LoopTest, WakeupLock, WakeupPredicate, WakeupBlock, SetBusy,
    atomics, historyVars
<1>2. CASE Take
  BY <1>0, <1>2 DEF Take
<1>3. CASE ScanEnds
  BY <1>0, <1>3 DEF ScanEnds, atomics
<1>4. CASE Idle \/ Exit \/ NotifyClients
  BY <1>0, <1>4 DEF Idle, Exit, NotifyClients, atomics, historyVars
<1>5. CASE Period \/ Stop
  BY <1>0, <1>5 DEF Period, Stop, StopSet, StopLock, StopNotify, NotifyWakeup, atomics,
    historyVars
<1>6. ASSUME NEW c \in Clients, Client(c) PROVE RequestsTracked'
  BY <1>0, <1>6 DEF Client, Request, RequestNotify, Wait, IdleLock, IsIdle, WaitUnlock,
    Timeout, GoOn, NotifyWakeup, atomics, historyVars
<1>7. CASE UNCHANGED vars
  BY <1>0, <1>7 DEF vars, atomics, historyVars
<1> QED BY <1>1, <1>2, <1>3, <1>4, <1>5, <1>6, <1>7 DEF Next, LoopCloserThread

(* What a client has seen stays true until it returns.                      *)
LEMMA AwaitedStep == ASSUME IInv, [Next]_vars PROVE AwaitedSeen'
<1>0. TypeOK /\ IdleMutexHeld /\ RequestsTracked /\ AwaitedSeen
  BY DEF IInv
<1> USE DEF TypeOK, AwaitedSeen
<1>1. CASE LoopTest \/ WakeupLock \/ WakeupPredicate \/ WakeupBlock \/ SetBusy \/ Take
  BY <1>0, <1>1 DEF LoopTest, WakeupLock, WakeupPredicate, WakeupBlock, SetBusy, Take,
    atomics, historyVars
<1>2. CASE ScanEnds
  BY <1>0, <1>2 DEF ScanEnds, atomics
<1>3. CASE Idle \/ Exit
  BY <1>0, <1>3, ClientsAssumption
    DEF Idle, Exit, IdleStoreLocked, IdleMutexFree, IdleMutexHeld, Evaluating, historyVars
<1>4. CASE NotifyClients
  BY <1>0, <1>4 DEF NotifyClients, NotifyIdle, atomics, historyVars
<1>5. CASE Period \/ Stop
  BY <1>0, <1>5 DEF Period, Stop, StopSet, StopLock, StopNotify, atomics, historyVars
<1>6. ASSUME NEW c \in Clients, IsIdle(c) PROVE AwaitedSeen'
  <2>1. awaited[c] # {} /\ ~lc_force_scan_ => lc_busy_
    BY <1>0 DEF RequestsTracked
  <2> QED BY <1>0, <1>6, <2>1 DEF IsIdle, IdleLoads, atomics, historyVars
<1>7. ASSUME NEW c \in Clients, Client(c), ~IsIdle(c) PROVE AwaitedSeen'
  BY <1>0, <1>7 DEF Client, Request, RequestNotify, Wait, IdleLock, WaitUnlock, Timeout,
    GoOn, atomics, historyVars
<1>8. CASE UNCHANGED vars
  BY <1>0, <1>8 DEF vars, atomics, historyVars
<1> QED BY <1>1, <1>2, <1>3, <1>4, <1>5, <1>6, <1>7, <1>8 DEF Next, LoopCloserThread

(* The loop does not block on a request or an exit flag that is set: both   *)
(* setters need the mutex that it holds.                                    *)
LEMMA LoopWakeupStep == ASSUME IInv, [Next]_vars PROVE LoopWakeup'
<1>0. TypeOK /\ LoopWakeup
  BY DEF IInv
<1> USE DEF TypeOK, LoopWakeup
<1>1. CASE LoopTest \/ WakeupLock
  BY <1>0, <1>1 DEF LoopTest, WakeupLock, WakeupMutexFree, atomics, historyVars
<1>2. CASE WakeupPredicate
  BY <1>0, <1>2 DEF WakeupPredicate, atomics, historyVars
<1>3. CASE WakeupBlock
  BY <1>0, <1>3 DEF WakeupBlock, atomics, historyVars
<1>4. CASE SetBusy \/ Take \/ ScanEnds \/ Idle \/ Exit \/ Period
  BY <1>0, <1>4 DEF SetBusy, Take, ScanEnds, Idle, Exit, Period, atomics, historyVars
<1>5. CASE NotifyClients
  BY <1>0, <1>5 DEF NotifyClients, atomics, historyVars
<1>6. CASE StopSet
  BY <1>0, <1>6 DEF StopSet, historyVars
<1>7. CASE StopLock
  BY <1>0, <1>7, ClientsAssumption
    DEF StopLock, StopLocked, WakeupMutexFree, LoopCloser, None, atomics, historyVars
<1>8. CASE StopNotify
  BY <1>0, <1>8 DEF StopNotify, NotifyWakeup, atomics, historyVars
<1>9. ASSUME NEW c \in Clients, Request(c) PROVE LoopWakeup'
  <2>1. client'[c] = "notify" /\ thread' = thread /\ stop' = stop
        /\ lc_should_exit_' = lc_should_exit_ /\ lc_wakeup_mtx_' = lc_wakeup_mtx_
    BY <1>0, <1>9 DEF Request
  <2>2. lc_wakeup_mtx_ # LoopCloser
    BY <1>9 DEF Request, RequestLocked, WakeupMutexFree, LoopCloser, None
  <2> QED BY <1>0, <2>1, <2>2
<1>10. ASSUME NEW c \in Clients, RequestNotify(c) PROVE LoopWakeup'
  BY <1>0, <1>10 DEF RequestNotify, NotifyWakeup, atomics, historyVars
<1>11. ASSUME NEW c \in Clients, Client(c), ~Request(c), ~RequestNotify(c)
       PROVE  LoopWakeup'
  <2>1. /\ UNCHANGED <<thread, stop, lc_should_exit_, lc_force_scan_, lc_wakeup_mtx_>>
        /\ client[c] # "notify"
        /\ \A d \in Clients \ {c} : client'[d] = client[d]
    BY <1>0, <1>11 DEF Client, Wait, IdleLock, IsIdle, WaitUnlock, Timeout, GoOn, atomics
  <2>2. \A d \in Clients : client[d] = "notify" => client'[d] = "notify"
    BY <2>1
  <2> QED BY <1>0, <2>1, <2>2
<1>12. CASE UNCHANGED vars
  BY <1>0, <1>12 DEF vars, atomics, historyVars
<1> QED BY <1>1, <1>2, <1>3, <1>4, <1>5, <1>6, <1>7, <1>8, <1>9, <1>10, <1>11, <1>12
        DEF Next, LoopCloserThread, Stop

(* A client does not block on a loop that is idle: the flags it has seen    *)
(* are cleared under the mutex that it holds, or by the scan that goes on.  *)
LEMMA ClientWakeupStep == ASSUME IInv, [Next]_vars PROVE ClientWakeup'
<1>0. TypeOK /\ IdleMutexHeld /\ RequestsTracked /\ ClientWakeup
  BY DEF IInv
<1> USE DEF TypeOK, ClientWakeup
<1>1. CASE LoopTest \/ WakeupLock \/ WakeupPredicate \/ WakeupBlock \/ SetBusy \/ ScanEnds
  BY <1>0, <1>1 DEF LoopTest, WakeupLock, WakeupPredicate, WakeupBlock, SetBusy, ScanEnds,
    atomics, historyVars
<1>2. CASE Take
  BY <1>0, <1>2 DEF Take, RequestsTracked
<1>3. CASE Idle \/ Exit
  BY <1>0, <1>3, ClientsAssumption
    DEF Idle, Exit, IdleStoreLocked, IdleMutexFree, IdleMutexHeld, Evaluating, historyVars
<1>4. CASE NotifyClients
  BY <1>0, <1>4 DEF NotifyClients, NotifyIdle, atomics, historyVars
<1>5. CASE Period \/ Stop
  BY <1>0, <1>5 DEF Period, Stop, StopSet, StopLock, StopNotify, NotifyWakeup, atomics,
    historyVars
<1>6. ASSUME NEW c \in Clients, IsIdle(c) PROVE ClientWakeup'
  BY <1>0, <1>6 DEF IsIdle, IdleLoads, atomics, historyVars
<1>7. ASSUME NEW c \in Clients, Client(c), ~IsIdle(c) PROVE ClientWakeup'
  BY <1>0, <1>7 DEF Client, Request, RequestNotify, Wait, IdleLock, WaitUnlock, Timeout,
    GoOn, NotifyWakeup, atomics, historyVars
<1>8. CASE UNCHANGED vars
  BY <1>0, <1>8 DEF vars, atomics, historyVars
<1> QED BY <1>1, <1>2, <1>3, <1>4, <1>5, <1>6, <1>7, <1>8 DEF Next, LoopCloserThread

LEMMA Invariance == Spec => []IInv
<1>1. IInv /\ [Next]_vars => IInv'
  <2> SUFFICES ASSUME IInv, [Next]_vars PROVE IInv'
    OBVIOUS
  <2>1. TypeOK'
    BY TypeStep DEF IInv
  <2> QED BY <2>1, MutexStep, RequestStep, AwaitedStep, LoopWakeupStep, ClientWakeupStep
          DEF IInv
<1> QED BY <1>1, InitInvariant, PTL DEF Spec

(* The types of the flags, the mutexes and the threads' positions.          *)
THEOREM TypeCorrect == Spec => []TypeOK
BY Invariance, PTL DEF IInv

(* A wait that returns true has outlasted every request that was open when  *)
(* it began, unless the loop closure thread has exited.                     *)
THEOREM WaitCovers == Spec => []WaitCoversRequests
<1>1. IInv => WaitCoversRequests
  BY DEF IInv, AwaitedSeen, WaitCoversRequests
<1> QED BY <1>1, Invariance, PTL

(* Neither the loop nor a client stays blocked on what it waits for without *)
(* a notification that is still to come.                                    *)
THEOREM WakeupsArrive == Spec => []NoWakeupLost
<1>1. IInv => NoWakeupLost
  BY DEF IInv, LoopWakeup, ClientWakeup, NoWakeupLost
<1> QED BY <1>1, Invariance, PTL
=============================================================================
