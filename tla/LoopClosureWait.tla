--------------------------- MODULE LoopClosureWait ---------------------------
(***************************************************************************)
(* The handshake of the loop closure thread with the threads that request  *)
(* a scan, wait until it is idle, or stop it (Mapper_LoopClosure.cpp:      *)
(* loop_closure_thread_loop(), request_loop_closure_scan(),                *)
(* wait_for_loop_closure_idle(), stop_loop_closure_thread()).              *)
(*                                                                         *)
(* Every access to an atomic and every critical section is a step of its   *)
(* own; so are the evaluation of a wait's predicate and the block that     *)
(* follows it, between which the mutex is held.  notify_all() moves the    *)
(* threads that are blocked; they take the mutex again afterwards.  A scan *)
(* is one step: GlobalMap has its inside.                                  *)
(***************************************************************************)
EXTENDS Integers, FiniteSets

CONSTANTS
  Clients,        \* the threads that request scans and wait
  MaxRequests,    \* bound: requests of a client
  MaxPeriods      \* bound: waits of the loop that end by their period

ASSUME BoundsAssumption == MaxRequests \in Nat /\ MaxPeriods \in Nat

LoopCloser == "lc"
None == "none"

ASSUME ClientsAssumption == LoopCloser \notin Clients /\ None \notin Clients

VARIABLES
  lc_thread_running_, lc_should_exit_, lc_force_scan_, lc_busy_,
  lc_wakeup_mtx_,   \* LoopCloser while its loop evaluates the wait's predicate
  lc_idle_mtx_,     \* the client that evaluates isIdle, or None
  thread,           \* where the loop closure thread is
  client,           \* client[c]: where client c is
  timeout,          \* timeout[c]: of its wait: "none", "running" or "passed"
  stop,             \* where stop_loop_closure_thread() is
  request,          \* history, request[c]: its last request is "pending", "taken"
                    \*   by a scan that still runs, or "none"
  awaited,          \* history, awaited[c]: the clients with a request not yet
                    \*   served when c began its wait, and not served since
  requests,         \* requests[c]: how many c has made
  periods           \* how many waits of the loop have ended by their period

atomics == <<lc_thread_running_, lc_should_exit_, lc_force_scan_, lc_busy_>>
historyVars == <<request, awaited, requests, periods>>
vars == <<atomics, lc_wakeup_mtx_, lc_idle_mtx_, thread, client, timeout, stop,
          historyVars>>

(* With or without a loop closure thread.                                   *)
Init ==
  /\ lc_thread_running_ \in BOOLEAN
  /\ thread = IF lc_thread_running_ THEN "loop" ELSE "done"
  /\ lc_should_exit_ = FALSE /\ lc_force_scan_ = FALSE /\ lc_busy_ = FALSE
  /\ lc_wakeup_mtx_ = None /\ lc_idle_mtx_ = None
  /\ client = [c \in Clients |-> "free"]
  /\ timeout = [c \in Clients |-> "none"]
  /\ stop = "running"
  /\ request = [c \in Clients |-> "none"]
  /\ awaited = [c \in Clients |-> {}]
  /\ requests = [c \in Clients |-> 0]
  /\ periods = 0

(* lc_wakeup_cv_.notify_all() and lc_idle_cv_.notify_all().                 *)
NotifyWakeup == thread' = IF thread = "blocked" THEN "lock" ELSE thread

NotifyIdle ==
  client' = [c \in Clients |-> IF client[c] = "blocked" THEN "lock" ELSE client[c]]

WakeupMutexFree == lc_wakeup_mtx_ = None
IdleMutexFree == lc_idle_mtx_ = None

-----------------------------------------------------------------------------
(***************************************************************************)
(* The loop closure thread.                                                *)
(***************************************************************************)
LoopTest ==
  /\ thread \in {"loop", "woken"}
  /\ thread' = CASE lc_should_exit_   -> "exit"
                 [] thread = "loop"   -> "lock"
                 [] thread = "woken"  -> "busy"
  /\ UNCHANGED <<atomics, lc_wakeup_mtx_, lc_idle_mtx_, client, timeout, stop,
                 historyVars>>

WakeupLock ==
  /\ thread = "lock"
  /\ WakeupMutexFree
  /\ lc_wakeup_mtx_' = LoopCloser
  /\ thread' = "load_exit"
  /\ UNCHANGED <<atomics, lc_idle_mtx_, client, timeout, stop, historyVars>>

(* The predicate of the wait: it loads two atomics, then blocks or returns. *)
WakeupPredicate ==
  /\ \/ /\ thread = "load_exit"
        /\ thread' = IF lc_should_exit_ THEN "unlock" ELSE "load_force"
     \/ /\ thread = "load_force"
        /\ thread' = IF lc_force_scan_ THEN "unlock" ELSE "block"
  /\ UNCHANGED <<atomics, lc_wakeup_mtx_, lc_idle_mtx_, client, timeout, stop,
                 historyVars>>

WakeupBlock ==
  /\ \/ thread = "block"  /\ thread' = "blocked"
     \/ thread = "unlock" /\ thread' = "woken"
  /\ lc_wakeup_mtx_' = None
  /\ UNCHANGED <<atomics, lc_idle_mtx_, client, timeout, stop, historyVars>>

(* The wait ends by its period, whatever its predicate says then.           *)
Period ==
  /\ thread = "blocked"
  /\ WakeupMutexFree
  /\ periods < MaxPeriods
  /\ periods' = periods + 1
  /\ thread' = "woken"
  /\ UNCHANGED <<atomics, lc_wakeup_mtx_, lc_idle_mtx_, client, timeout, stop,
                 request, awaited, requests>>

SetBusy ==
  /\ thread = "busy"
  /\ lc_busy_' = TRUE
  /\ thread' = "take"
  /\ UNCHANGED <<lc_thread_running_, lc_should_exit_, lc_force_scan_,
                 lc_wakeup_mtx_, lc_idle_mtx_, client, timeout, stop,
                 historyVars>>

(* lc_force_scan_.exchange(false): the scan serves all the requests so far. *)
Take ==
  /\ thread = "take"
  /\ lc_force_scan_' = FALSE
  /\ request' = [c \in Clients |-> IF request[c] = "pending" THEN "taken"
                                   ELSE request[c]]
  /\ thread' = "scan"
  /\ UNCHANGED <<lc_thread_running_, lc_should_exit_, lc_busy_, lc_wakeup_mtx_,
                 lc_idle_mtx_, client, timeout, stop, awaited, requests, periods>>

(* run_loop_closure_scan() returns, or throws what the loop catches.        *)
ScanEnds ==
  /\ thread = "scan"
  /\ request' = [c \in Clients |-> IF request[c] = "taken" THEN "none"
                                   ELSE request[c]]
  /\ awaited' = [c \in Clients |-> {d \in awaited[c] : request[d] # "taken"}]
  /\ thread' = "idle"
  /\ UNCHANGED <<atomics, lc_wakeup_mtx_, lc_idle_mtx_, client, timeout, stop,
                 requests, periods>>

IdleStoreUnlocked == TRUE                                          \* fault

IdleStoreLocked == IdleMutexFree

Idle ==
  /\ thread = "idle"
  /\ IdleStoreLocked
  /\ lc_busy_' = FALSE
  /\ thread' = "idle_notify"
  /\ UNCHANGED <<lc_thread_running_, lc_should_exit_, lc_force_scan_,
                 lc_wakeup_mtx_, lc_idle_mtx_, client, timeout, stop,
                 historyVars>>

Exit ==
  /\ thread = "exit"
  /\ IdleMutexFree
  /\ lc_busy_' = FALSE
  /\ lc_thread_running_' = FALSE
  /\ thread' = "exit_notify"
  /\ UNCHANGED <<lc_should_exit_, lc_force_scan_, lc_wakeup_mtx_, lc_idle_mtx_,
                 client, timeout, stop, historyVars>>

NotifyClients ==
  /\ \/ thread = "idle_notify" /\ thread' = "loop"
     \/ thread = "exit_notify" /\ thread' = "done"
  /\ NotifyIdle
  /\ UNCHANGED <<atomics, lc_wakeup_mtx_, lc_idle_mtx_, timeout, stop,
                 historyVars>>

-----------------------------------------------------------------------------
(***************************************************************************)
(* A client: request_loop_closure_scan(), wait_for_loop_closure_idle().    *)
(***************************************************************************)
RequestUnlocked == TRUE                                            \* fault

RequestLocked == WakeupMutexFree

Request(c) ==
  /\ client[c] = "free"
  /\ requests[c] < MaxRequests
  /\ RequestLocked
  /\ lc_force_scan_' = TRUE
  /\ client' = [client EXCEPT ![c] = "notify"]
  /\ request' = [request EXCEPT ![c] = "pending"]
  /\ requests' = [requests EXCEPT ![c] = @ + 1]
  /\ UNCHANGED <<lc_thread_running_, lc_should_exit_, lc_busy_, lc_wakeup_mtx_,
                 lc_idle_mtx_, thread, timeout, stop, awaited, periods>>

RequestNotify(c) ==
  /\ client[c] = "notify"
  /\ NotifyWakeup
  /\ client' = [client EXCEPT ![c] = "free"]
  /\ UNCHANGED <<atomics, lc_wakeup_mtx_, lc_idle_mtx_, timeout, stop,
                 historyVars>>

Wait(c) ==
  /\ client[c] = "free"
  /\ \E limit \in {"none", "running"} : timeout' = [timeout EXCEPT ![c] = limit]
  /\ client' = [client EXCEPT ![c] = "lock"]
  /\ awaited' = [awaited EXCEPT ![c] = {d \in Clients : request[d] # "none"}]
  /\ UNCHANGED <<atomics, lc_wakeup_mtx_, lc_idle_mtx_, thread, stop,
                 request, requests, periods>>

IdleLock(c) ==
  /\ client[c] = "lock"
  /\ IdleMutexFree
  /\ lc_idle_mtx_' = c
  /\ client' = [client EXCEPT ![c] = "load_running"]
  /\ UNCHANGED <<atomics, lc_wakeup_mtx_, thread, timeout, stop, historyVars>>

BusyLoadedFirst == <<lc_busy_, lc_force_scan_>>                    \* fault

(* The loads of isIdle after lc_thread_running_, in their order.            *)
IdleLoads == <<lc_force_scan_, lc_busy_>>

(* isIdle, one load a step.                                                 *)
IsIdle(c) ==
  /\ \/ /\ client[c] = "load_running"
        /\ client' = [client EXCEPT ![c] =
             IF lc_thread_running_ THEN "load_first" ELSE "is_idle"]
     \/ /\ client[c] = "load_first"
        /\ client' = [client EXCEPT ![c] =
             IF IdleLoads[1] THEN "not_idle" ELSE "load_second"]
     \/ /\ client[c] = "load_second"
        /\ client' = [client EXCEPT ![c] =
             IF IdleLoads[2] THEN "not_idle" ELSE "is_idle"]
  /\ UNCHANGED <<atomics, lc_wakeup_mtx_, lc_idle_mtx_, thread, timeout, stop,
                 historyVars>>

(* The wait returns true when idle, false after its timeout, or blocks.     *)
WaitUnlock(c) ==
  /\ lc_idle_mtx_' = None
  /\ \/ /\ client[c] = "is_idle"
        /\ client' = [client EXCEPT ![c] = "returned"]
     \/ /\ client[c] = "not_idle"
        /\ client' = [client EXCEPT ![c] =
                        IF timeout[c] = "passed" THEN "timed_out" ELSE "blocked"]
  /\ UNCHANGED <<atomics, lc_wakeup_mtx_, thread, timeout, stop, historyVars>>

Timeout(c) ==
  /\ client[c] = "blocked"
  /\ timeout[c] = "running"
  /\ timeout' = [timeout EXCEPT ![c] = "passed"]
  /\ client' = [client EXCEPT ![c] = "lock"]
  /\ UNCHANGED <<atomics, lc_wakeup_mtx_, lc_idle_mtx_, thread, stop,
                 historyVars>>

(* The caller goes on after its wait.                                       *)
GoOn(c) ==
  /\ client[c] \in {"returned", "timed_out"}
  /\ timeout' = [timeout EXCEPT ![c] = "none"]
  /\ client' = [client EXCEPT ![c] = "free"]
  /\ awaited' = [awaited EXCEPT ![c] = {}]
  /\ UNCHANGED <<atomics, lc_wakeup_mtx_, lc_idle_mtx_, thread, stop,
                 request, requests, periods>>

-----------------------------------------------------------------------------
(***************************************************************************)
(* stop_loop_closure_thread(); it then joins: thread = "done".             *)
(***************************************************************************)
StopSet ==
  /\ stop = "running"
  /\ stop' = "set"
  /\ lc_should_exit_' = TRUE
  /\ UNCHANGED <<lc_thread_running_, lc_force_scan_, lc_busy_, lc_wakeup_mtx_,
                 lc_idle_mtx_, thread, client, timeout, historyVars>>

StopUnlocked == TRUE                                               \* fault

StopLocked == WakeupMutexFree

(* Takes lc_wakeup_mtx_ and releases it at once.                            *)
StopLock ==
  /\ stop = "set"
  /\ StopLocked
  /\ stop' = "locked"
  /\ UNCHANGED <<atomics, lc_wakeup_mtx_, lc_idle_mtx_, thread, client, timeout,
                 historyVars>>

StopNotify ==
  /\ stop = "locked"
  /\ stop' = "join"
  /\ NotifyWakeup
  /\ UNCHANGED <<atomics, lc_wakeup_mtx_, lc_idle_mtx_, client, timeout,
                 historyVars>>

-----------------------------------------------------------------------------
LoopCloserThread ==
  \/ LoopTest \/ WakeupLock \/ WakeupPredicate \/ WakeupBlock
  \/ SetBusy \/ Take \/ ScanEnds \/ Idle \/ Exit \/ NotifyClients

Client(c) ==
  \/ Request(c) \/ RequestNotify(c)
  \/ Wait(c) \/ IdleLock(c) \/ IsIdle(c) \/ WaitUnlock(c) \/ Timeout(c)
  \/ GoOn(c)

Stop == StopSet \/ StopLock \/ StopNotify

Next == LoopCloserThread \/ Period \/ Stop \/ \E c \in Clients : Client(c)

Spec == Init /\ [][Next]_vars

(***************************************************************************)
(* The scheduler runs the loop closure thread, and what a client or the    *)
(* owner has begun; who waits for a mutex that is free time and again gets *)
(* it.  No wait is taken to end by its period or its timeout, and nobody   *)
(* has to call anything.                                                   *)
(***************************************************************************)
Fairness ==
  /\ WF_vars(LoopCloserThread) /\ SF_vars(WakeupLock \/ Idle \/ Exit)
  /\ WF_vars(StopNotify) /\ SF_vars(StopLock)
  /\ \A c \in Clients :
       /\ WF_vars(RequestNotify(c) \/ IsIdle(c) \/ WaitUnlock(c))
       /\ SF_vars(IdleLock(c))

FairSpec == Spec /\ Fairness

-----------------------------------------------------------------------------
(***************************************************************************)
(* Properties                                                              *)
(***************************************************************************)
TypeOK ==
  /\ lc_thread_running_ \in BOOLEAN /\ lc_should_exit_ \in BOOLEAN
  /\ lc_force_scan_ \in BOOLEAN /\ lc_busy_ \in BOOLEAN
  /\ lc_wakeup_mtx_ \in {LoopCloser, None}
  /\ lc_idle_mtx_ \in Clients \cup {None}
  /\ thread \in {"loop", "lock", "load_exit", "load_force", "block", "blocked",
                 "unlock", "woken", "busy", "take", "scan", "idle", "idle_notify",
                 "exit", "exit_notify", "done"}
  /\ client \in [Clients -> {"free", "notify", "lock", "load_running",
                             "load_first", "load_second", "is_idle", "not_idle",
                             "blocked", "returned", "timed_out"}]
  /\ timeout \in [Clients -> {"none", "running", "passed"}]
  /\ stop \in {"running", "set", "locked", "join"}
  /\ request \in [Clients -> {"none", "pending", "taken"}]
  /\ awaited \in [Clients -> SUBSET Clients]
  /\ requests \in [Clients -> 0..MaxRequests]
  /\ periods \in 0..MaxPeriods

(* When wait_for_loop_closure_idle() returns true, every scan that was      *)
(* requested before the wait began, by whatever thread, has ended, unless   *)
(* the loop closure thread has exited: the wait never returns in the gap    *)
(* between the request being consumed and the scan being marked as running. *)
WaitCoversRequests ==
  \A c \in Clients :
    client[c] = "returned" => awaited[c] = {} \/ ~lc_thread_running_

(* wait_for_loop_closure_idle() returns, without a timeout too: neither the *)
(* end of a scan nor the exit of the thread is missed by a client that is   *)
(* about to block.                                                          *)
WaitReturns ==
  \A c \in Clients : client[c] = "lock" ~> client[c] \in {"returned", "timed_out"}

(* A requested scan is run, without waiting for the period of the loop, or  *)
(* the thread exits.                                                        *)
RequestGetsScan ==
  \A c \in Clients :
    request[c] = "pending" ~> request[c] # "pending" \/ ~lc_thread_running_

(* stop_loop_closure_thread() gets to join the thread, without waiting for  *)
(* the period of the loop.                                                  *)
StopReturns == stop # "running" ~> thread = "done"
=============================================================================
