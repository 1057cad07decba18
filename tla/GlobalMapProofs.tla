-------------------------- MODULE GlobalMapProofs ---------------------------
(***************************************************************************)
(* The theorems about GlobalMap, for every value of its constants: the     *)
(* frames of the steps, the inductive invariant, and what follows from it. *)
(***************************************************************************)
EXTENDS GlobalMap, TLAPS

-----------------------------------------------------------------------------
(***************************************************************************)
(* What each step leaves alone: for a group of variables, the steps that   *)
(* may change it.  The proofs about a group look at these steps only.      *)
(***************************************************************************)
(* The map is changed by an insert, by the write back of a solve and by the  *)
(* merge of a loop; its callers hold state_mtx_ there.                      *)
LEMMA MapFrame ==
  ASSUME [Next]_vars
  PROVE  \/ UNCHANGED mapVars
         \/ \E f \in FrontEnds : InsertKeyframe(f)
         \/ \E t \in GraphThreads : SolveCommit(t)
         \/ \E t \in ScanThreads : MergeEdge(t)
<1>1. CASE Next
  <2>1. ASSUME NEW f \in FrontEnds, NotifyInserted(f) PROVE UNCHANGED mapVars
    BY <2>1 DEF NotifyInserted
  <2>2. ASSUME AttachGnss \/ AttachGravity \/ OptimizeNow \/ ScanNow \/ FinalizeBegin \/ Terminated PROVE UNCHANGED mapVars
    BY <2>2 DEF AttachGnss, AttachGravity, OptimizeNow, ScanNow, FinalizeBegin, Terminated, vars
  <2>3. ASSUME OptimizerThread PROVE UNCHANGED mapVars
    BY <2>3 DEF OptimizerThread, OptimizerExit, OptimizerWake, OptimizerTake
  <2>4. ASSUME LoopCloserThread PROVE UNCHANGED mapVars
    BY <2>4 DEF LoopCloserThread, LoopCloserExit, LoopCloserScan
  <2>5. ASSUME NEW t \in GraphThreads, Solve(t),
               ~SolveCommit(t) PROVE UNCHANGED mapVars
    BY <2>5 DEF Solve, SolveLock, SolveSnapshot, SolveFeedback, SolveCorrect
  <2>6. ASSUME NEW t \in ScanThreads, Scan(t),
               ~MergeEdge(t) PROVE UNCHANGED mapVars
    BY <2>6 DEF Scan, ScanLock, ScanTooEarly, ScanSnapshot, ScanAnalyze, ScanMerge,
      MergeDone, ScanNotify
  <2>7. ASSUME NEW t \in GraphThreads, SolveThrows(t) PROVE UNCHANGED mapVars
    BY <2>7 DEF SolveThrows
  <2>8. ASSUME NEW t \in GraphThreads, CorrectionThrows(t) PROVE UNCHANGED mapVars
    BY <2>8 DEF CorrectionThrows
  <2>9. ASSUME NEW t \in ScanThreads, ScanThrows(t) PROVE UNCHANGED mapVars
    BY <2>9 DEF ScanThrows
  <2>10. ASSUME Finalize PROVE UNCHANGED mapVars
    BY <2>10 DEF Finalize, StopLoopCloser, JoinLoopCloser, StopOptimizer, JoinOptimizer,
      FinalSolve, FinalScan, FinalScanned, FinalScanSkip, SaveOutputs
  <2> QED BY <1>1, <2>1, <2>2, <2>3, <2>4, <2>5, <2>6, <2>7, <2>8, <2>9, <2>10
    DEF Next, Throws
<1>2. CASE UNCHANGED vars
  BY <1>2 DEF vars
<1> QED BY <1>1, <1>2

(* GNSS readings come with inserts and observations; a solve writes back the *)
(* datum and the geo-reference.                                             *)
LEMMA GeoFrame ==
  ASSUME [Next]_vars
  PROVE  \/ UNCHANGED geoVars
         \/ \E f \in FrontEnds : InsertKeyframe(f)
         \/ AttachGnss
         \/ AttachGravity
         \/ \E t \in GraphThreads : SolveCommit(t)
<1>1. CASE Next
  <2>1. ASSUME NEW f \in FrontEnds, NotifyInserted(f) PROVE UNCHANGED geoVars
    BY <2>1 DEF NotifyInserted
  <2>2. ASSUME OptimizeNow \/ ScanNow \/ FinalizeBegin \/ Terminated PROVE UNCHANGED geoVars
    BY <2>2 DEF OptimizeNow, ScanNow, FinalizeBegin, Terminated, vars
  <2>3. ASSUME OptimizerThread PROVE UNCHANGED geoVars
    BY <2>3 DEF OptimizerThread, OptimizerExit, OptimizerWake, OptimizerTake
  <2>4. ASSUME LoopCloserThread PROVE UNCHANGED geoVars
    BY <2>4 DEF LoopCloserThread, LoopCloserExit, LoopCloserScan
  <2>5. ASSUME NEW t \in GraphThreads, Solve(t),
               ~SolveCommit(t) PROVE UNCHANGED geoVars
    BY <2>5 DEF Solve, SolveLock, SolveSnapshot, SolveFeedback, SolveCorrect
  <2>6. ASSUME NEW t \in ScanThreads, Scan(t) PROVE UNCHANGED geoVars
    BY <2>6 DEF Scan, ScanLock, ScanTooEarly, ScanSnapshot, ScanAnalyze, ScanMerge,
      MergeEdge, MergeDone, ScanNotify
  <2>7. ASSUME NEW t \in GraphThreads, SolveThrows(t) PROVE UNCHANGED geoVars
    BY <2>7 DEF SolveThrows
  <2>8. ASSUME NEW t \in GraphThreads, CorrectionThrows(t) PROVE UNCHANGED geoVars
    BY <2>8 DEF CorrectionThrows
  <2>9. ASSUME NEW t \in ScanThreads, ScanThrows(t) PROVE UNCHANGED geoVars
    BY <2>9 DEF ScanThrows
  <2>10. ASSUME Finalize PROVE UNCHANGED geoVars
    BY <2>10 DEF Finalize, StopLoopCloser, JoinLoopCloser, StopOptimizer, JoinOptimizer,
      FinalSolve, FinalScan, FinalScanned, FinalScanSkip, SaveOutputs
  <2> QED BY <1>1, <2>1, <2>2, <2>3, <2>4, <2>5, <2>6, <2>7, <2>8, <2>9, <2>10
    DEF Next, Throws
<1>2. CASE UNCHANGED vars
  BY <1>2 DEF vars
<1> QED BY <1>1, <1>2

(* The counters of the scans change at the snapshot and after the merge.    *)
LEMMA CountersFrame ==
  ASSUME [Next]_vars
  PROVE  \/ UNCHANGED lcVars
         \/ \E t \in ScanThreads : ScanSnapshot(t)
         \/ \E t \in ScanThreads : MergeDone(t)
<1>1. CASE Next
  <2>1. ASSUME NEW f \in FrontEnds, InsertKeyframe(f) \/ NotifyInserted(f) PROVE UNCHANGED lcVars
    BY <2>1 DEF InsertKeyframe, NotifyInserted
  <2>2. ASSUME AttachGnss \/ AttachGravity \/ OptimizeNow \/ ScanNow \/ FinalizeBegin \/ Terminated PROVE UNCHANGED lcVars
    BY <2>2 DEF AttachGnss, AttachGravity, OptimizeNow, ScanNow, FinalizeBegin, Terminated, vars
  <2>3. ASSUME OptimizerThread PROVE UNCHANGED lcVars
    BY <2>3 DEF OptimizerThread, OptimizerExit, OptimizerWake, OptimizerTake
  <2>4. ASSUME LoopCloserThread PROVE UNCHANGED lcVars
    BY <2>4 DEF LoopCloserThread, LoopCloserExit, LoopCloserScan
  <2>5. ASSUME NEW t \in GraphThreads, Solve(t) PROVE UNCHANGED lcVars
    BY <2>5 DEF Solve, SolveLock, SolveSnapshot, SolveCommit, SolveFeedback,
      SolveCorrect
  <2>6. ASSUME NEW t \in ScanThreads, Scan(t),
               ~ScanSnapshot(t),
               ~MergeDone(t) PROVE UNCHANGED lcVars
    BY <2>6 DEF Scan, ScanLock, ScanTooEarly, ScanAnalyze, ScanMerge, MergeEdge,
      ScanNotify
  <2>7. ASSUME NEW t \in GraphThreads, SolveThrows(t) PROVE UNCHANGED lcVars
    BY <2>7 DEF SolveThrows
  <2>8. ASSUME NEW t \in GraphThreads, CorrectionThrows(t) PROVE UNCHANGED lcVars
    BY <2>8 DEF CorrectionThrows
  <2>9. ASSUME NEW t \in ScanThreads, ScanThrows(t) PROVE UNCHANGED lcVars
    BY <2>9 DEF ScanThrows
  <2>10. ASSUME Finalize PROVE UNCHANGED lcVars
    BY <2>10 DEF Finalize, StopLoopCloser, JoinLoopCloser, StopOptimizer, JoinOptimizer,
      FinalSolve, FinalScan, FinalScanned, FinalScanSkip, SaveOutputs
  <2> QED BY <1>1, <2>1, <2>2, <2>3, <2>4, <2>5, <2>6, <2>7, <2>8, <2>9, <2>10
    DEF Next, Throws
<1>2. CASE UNCHANGED vars
  BY <1>2 DEF vars
<1> QED BY <1>1, <1>2

(* Feedback and corrections are sent by the end of a solve only.            *)
LEMMA OutFrame ==
  ASSUME [Next]_vars
  PROVE  \/ UNCHANGED <<outVars, fused, announced, lost>>
         \/ \E t \in GraphThreads : SolveFeedback(t)
         \/ \E t \in GraphThreads : SolveCorrect(t)
         \/ \E t \in GraphThreads : CorrectionThrows(t)
<1> USE DEF historyVars
<1>1. CASE Next
  <2>1. ASSUME NEW f \in FrontEnds, InsertKeyframe(f) \/ NotifyInserted(f) PROVE UNCHANGED <<outVars, fused, announced, lost>>
    BY <2>1 DEF InsertKeyframe, NotifyInserted
  <2>2. ASSUME AttachGnss \/ AttachGravity \/ OptimizeNow \/ ScanNow \/ FinalizeBegin \/ Terminated PROVE UNCHANGED <<outVars, fused, announced, lost>>
    BY <2>2 DEF AttachGnss, AttachGravity, OptimizeNow, ScanNow, FinalizeBegin, Terminated, vars
  <2>3. ASSUME OptimizerThread PROVE UNCHANGED <<outVars, fused, announced, lost>>
    BY <2>3 DEF OptimizerThread, OptimizerExit, OptimizerWake, OptimizerTake
  <2>4. ASSUME LoopCloserThread PROVE UNCHANGED <<outVars, fused, announced, lost>>
    BY <2>4 DEF LoopCloserThread, LoopCloserExit, LoopCloserScan
  <2>5. ASSUME NEW t \in GraphThreads, Solve(t),
               ~SolveFeedback(t),
               ~SolveCorrect(t) PROVE UNCHANGED <<outVars, fused, announced, lost>>
    BY <2>5 DEF Solve, SolveLock, SolveSnapshot, SolveCommit
  <2>6. ASSUME NEW t \in ScanThreads, Scan(t) PROVE UNCHANGED <<outVars, fused, announced, lost>>
    BY <2>6 DEF Scan, ScanLock, ScanTooEarly, ScanSnapshot, ScanAnalyze, ScanMerge,
      MergeEdge, MergeDone, ScanNotify
  <2>7. ASSUME NEW t \in GraphThreads, SolveThrows(t) PROVE UNCHANGED <<outVars, fused, announced, lost>>
    BY <2>7 DEF SolveThrows
  <2>8. ASSUME NEW t \in ScanThreads, ScanThrows(t) PROVE UNCHANGED <<outVars, fused, announced, lost>>
    BY <2>8 DEF ScanThrows
  <2>9. ASSUME Finalize PROVE UNCHANGED <<outVars, fused, announced, lost>>
    BY <2>9 DEF Finalize, StopLoopCloser, JoinLoopCloser, StopOptimizer, JoinOptimizer,
      FinalSolve, FinalScan, FinalScanned, FinalScanSkip, SaveOutputs
  <2> QED BY <1>1, <2>1, <2>2, <2>3, <2>4, <2>5, <2>6, <2>7, <2>8, <2>9
    DEF Next, Throws
<1>2. CASE UNCHANGED vars
  BY <1>2 DEF vars
<1> QED BY <1>1, <1>2

(* The input of a solve is taken at its snapshot and dropped when it ends.  *)
LEMMA SolveFrame ==
  ASSUME [Next]_vars
  PROVE  \/ UNCHANGED <<solve, solved>>
         \/ \E t \in GraphThreads : SolveSnapshot(t)
         \/ \E t \in GraphThreads : SolveCommit(t)
         \/ \E t \in GraphThreads : SolveCorrect(t)
         \/ \E t \in GraphThreads : SolveThrows(t)
         \/ \E t \in GraphThreads : CorrectionThrows(t)
<1> USE DEF historyVars, localVars
<1>1. CASE Next
  <2>1. ASSUME NEW f \in FrontEnds, InsertKeyframe(f) \/ NotifyInserted(f) PROVE UNCHANGED <<solve, solved>>
    BY <2>1 DEF InsertKeyframe, NotifyInserted
  <2>2. ASSUME AttachGnss \/ AttachGravity \/ OptimizeNow \/ ScanNow \/ FinalizeBegin \/ Terminated PROVE UNCHANGED <<solve, solved>>
    BY <2>2 DEF AttachGnss, AttachGravity, OptimizeNow, ScanNow, FinalizeBegin, Terminated, vars
  <2>3. ASSUME OptimizerThread PROVE UNCHANGED <<solve, solved>>
    BY <2>3 DEF OptimizerThread, OptimizerExit, OptimizerWake, OptimizerTake
  <2>4. ASSUME LoopCloserThread PROVE UNCHANGED <<solve, solved>>
    BY <2>4 DEF LoopCloserThread, LoopCloserExit, LoopCloserScan
  <2>5. ASSUME NEW t \in GraphThreads, Solve(t),
               ~SolveSnapshot(t),
               ~SolveCommit(t),
               ~SolveCorrect(t) PROVE UNCHANGED <<solve, solved>>
    BY <2>5 DEF Solve, SolveLock, SolveFeedback
  <2>6. ASSUME NEW t \in ScanThreads, Scan(t) PROVE UNCHANGED <<solve, solved>>
    BY <2>6 DEF Scan, ScanLock, ScanTooEarly, ScanSnapshot, ScanAnalyze, ScanMerge,
      MergeEdge, MergeDone, ScanNotify
  <2>7. ASSUME NEW t \in ScanThreads, ScanThrows(t) PROVE UNCHANGED <<solve, solved>>
    BY <2>7 DEF ScanThrows
  <2>8. ASSUME Finalize PROVE UNCHANGED <<solve, solved>>
    BY <2>8 DEF Finalize, StopLoopCloser, JoinLoopCloser, StopOptimizer, JoinOptimizer,
      FinalSolve, FinalScan, FinalScanned, FinalScanSkip, SaveOutputs
  <2> QED BY <1>1, <2>1, <2>2, <2>3, <2>4, <2>5, <2>6, <2>7, <2>8
    DEF Next, Throws
<1>2. CASE UNCHANGED vars
  BY <1>2 DEF vars
<1> QED BY <1>1, <1>2

(* The locals of a scan change from its call to its return.                 *)
LEMMA ScanFrame ==
  ASSUME [Next]_vars
  PROVE  \/ UNCHANGED <<scanVars, examined>>
         \/ LoopCloserScan
         \/ ScanNow
         \/ FinalScan
         \/ \E t \in ScanThreads : ScanTooEarly(t)
         \/ \E t \in ScanThreads : ScanSnapshot(t)
         \/ \E t \in ScanThreads : ScanAnalyze(t)
         \/ \E t \in ScanThreads : MergeEdge(t)
         \/ \E t \in ScanThreads : MergeDone(t)
         \/ \E t \in ScanThreads : ScanNotify(t)
         \/ \E t \in ScanThreads : ScanThrows(t)
<1> USE DEF historyVars, localVars
<1>1. CASE Next
  <2>1. ASSUME NEW f \in FrontEnds, InsertKeyframe(f) \/ NotifyInserted(f) PROVE UNCHANGED <<scanVars, examined>>
    BY <2>1 DEF InsertKeyframe, NotifyInserted
  <2>2. ASSUME AttachGnss \/ AttachGravity \/ OptimizeNow \/ FinalizeBegin \/ Terminated PROVE UNCHANGED <<scanVars, examined>>
    BY <2>2 DEF AttachGnss, AttachGravity, OptimizeNow, FinalizeBegin, Terminated, vars
  <2>3. ASSUME OptimizerThread PROVE UNCHANGED <<scanVars, examined>>
    BY <2>3 DEF OptimizerThread, OptimizerExit, OptimizerWake, OptimizerTake
  <2>4. ASSUME LoopCloserThread, ~LoopCloserScan PROVE UNCHANGED <<scanVars, examined>>
    BY <2>4 DEF LoopCloserThread, LoopCloserExit
  <2>5. ASSUME NEW t \in GraphThreads, Solve(t) PROVE UNCHANGED <<scanVars, examined>>
    BY <2>5 DEF Solve, SolveLock, SolveSnapshot, SolveCommit, SolveFeedback,
      SolveCorrect
  <2>6. ASSUME NEW t \in ScanThreads, Scan(t),
               ~ScanTooEarly(t),
               ~ScanSnapshot(t),
               ~ScanAnalyze(t),
               ~MergeEdge(t),
               ~MergeDone(t),
               ~ScanNotify(t) PROVE UNCHANGED <<scanVars, examined>>
    BY <2>6 DEF Scan, ScanLock, ScanMerge
  <2>7. ASSUME NEW t \in GraphThreads, SolveThrows(t) PROVE UNCHANGED <<scanVars, examined>>
    BY <2>7 DEF SolveThrows
  <2>8. ASSUME NEW t \in GraphThreads, CorrectionThrows(t) PROVE UNCHANGED <<scanVars, examined>>
    BY <2>8 DEF CorrectionThrows
  <2>9. ASSUME Finalize, ~FinalScan PROVE UNCHANGED <<scanVars, examined>>
    BY <2>9 DEF Finalize, StopLoopCloser, JoinLoopCloser, StopOptimizer, JoinOptimizer,
      FinalSolve, FinalScanned, FinalScanSkip, SaveOutputs
  <2> QED BY <1>1, <2>1, <2>2, <2>3, <2>4, <2>5, <2>6, <2>7, <2>8, <2>9
    DEF Next, Throws
<1>2. CASE UNCHANGED vars
  BY <1>2 DEF vars
<1> QED BY <1>1, <1>2

(* The mutexes are taken and released inside solves and scans.              *)
LEMMA LockFrame ==
  ASSUME [Next]_vars
  PROVE  \/ UNCHANGED lockVars
         \/ \E t \in GraphThreads : SolveLock(t)
         \/ \E t \in GraphThreads : SolveSnapshot(t)
         \/ \E t \in GraphThreads : SolveCorrect(t)
         \/ \E t \in GraphThreads : SolveThrows(t)
         \/ \E t \in GraphThreads : CorrectionThrows(t)
         \/ \E t \in ScanThreads : ScanLock(t)
         \/ \E t \in ScanThreads : ScanTooEarly(t)
         \/ \E t \in ScanThreads : ScanSnapshot(t)
         \/ \E t \in ScanThreads : ScanThrows(t)
         \/ \E t \in ScanThreads : ScanMerge(t)
         \/ \E t \in ScanThreads : MergeDone(t)
         \/ \E t \in ScanThreads : ScanNotify(t)
<1>1. CASE Next
  <2>1. ASSUME NEW f \in FrontEnds, InsertKeyframe(f) \/ NotifyInserted(f) PROVE UNCHANGED lockVars
    BY <2>1 DEF InsertKeyframe, NotifyInserted
  <2>2. ASSUME AttachGnss \/ AttachGravity \/ OptimizeNow \/ ScanNow \/ FinalizeBegin \/ Terminated PROVE UNCHANGED lockVars
    BY <2>2 DEF AttachGnss, AttachGravity, OptimizeNow, ScanNow, FinalizeBegin, Terminated, vars
  <2>3. ASSUME OptimizerThread PROVE UNCHANGED lockVars
    BY <2>3 DEF OptimizerThread, OptimizerExit, OptimizerWake, OptimizerTake
  <2>4. ASSUME LoopCloserThread PROVE UNCHANGED lockVars
    BY <2>4 DEF LoopCloserThread, LoopCloserExit, LoopCloserScan
  <2>5. ASSUME NEW t \in GraphThreads, Solve(t),
               ~SolveLock(t),
               ~SolveSnapshot(t),
               ~SolveCorrect(t) PROVE UNCHANGED lockVars
    BY <2>5 DEF Solve, SolveCommit, SolveFeedback
  <2>6. ASSUME NEW t \in ScanThreads, Scan(t),
               ~ScanLock(t),
               ~ScanTooEarly(t),
               ~ScanSnapshot(t),
               ~ScanMerge(t),
               ~MergeDone(t),
               ~ScanNotify(t) PROVE UNCHANGED lockVars
    BY <2>6 DEF Scan, ScanAnalyze, MergeEdge
  <2>7. ASSUME Finalize PROVE UNCHANGED lockVars
    BY <2>7 DEF Finalize, StopLoopCloser, JoinLoopCloser, StopOptimizer, JoinOptimizer,
      FinalSolve, FinalScan, FinalScanned, FinalScanSkip, SaveOutputs
  <2> QED BY <1>1, <2>1, <2>2, <2>3, <2>4, <2>5, <2>6, <2>7
    DEF Next, Throws
<1>2. CASE UNCHANGED vars
  BY <1>2 DEF vars
<1> QED BY <1>1, <1>2

(* No thread enters or changes its place in the part of a solve that has an  *)
(* input.                                                                   *)
SolvingUnchanged ==
  \A t \in GraphThreads :
    pc'[t] \in {"solve_commit", "solve_feedback", "solve_correct"} => pc'[t] = pc[t]

(* The steps inside that part.                                              *)
LEMMA SolvingFrame ==
  ASSUME ControlTypeOK, [Next]_vars
  PROVE  \/ SolvingUnchanged
         \/ \E t \in GraphThreads : SolveSnapshot(t)
         \/ \E t \in GraphThreads : SolveCommit(t)
         \/ \E t \in GraphThreads : SolveFeedback(t)
<1> USE DEF SolvingUnchanged, ControlTypeOK, controlVars, GoTo, CallScan,
        SolveReturn, ScanReturn, GraphThreads, ScanThreads, Threads
<1>1. CASE Next
  <2>1. ASSUME NEW f \in FrontEnds, InsertKeyframe(f) \/ NotifyInserted(f) PROVE SolvingUnchanged
    BY <2>1 DEF InsertKeyframe, NotifyInserted
  <2>2. ASSUME AttachGnss \/ AttachGravity \/ OptimizeNow \/ ScanNow \/ FinalizeBegin \/ Terminated PROVE SolvingUnchanged
    BY <2>2 DEF AttachGnss, AttachGravity, OptimizeNow, ScanNow, FinalizeBegin, Terminated, vars
  <2>3. ASSUME OptimizerThread PROVE SolvingUnchanged
    BY <2>3 DEF OptimizerThread, OptimizerExit, OptimizerWake, OptimizerTake
  <2>4. ASSUME LoopCloserThread PROVE SolvingUnchanged
    BY <2>4 DEF LoopCloserThread, LoopCloserExit, LoopCloserScan
  <2>5. ASSUME NEW t \in GraphThreads, Solve(t),
               ~SolveSnapshot(t),
               ~SolveCommit(t),
               ~SolveFeedback(t) PROVE SolvingUnchanged
    BY <2>5 DEF Solve, SolveLock, SolveCorrect
  <2>6. ASSUME NEW t \in ScanThreads, Scan(t) PROVE SolvingUnchanged
    BY <2>6 DEF Scan, ScanLock, ScanTooEarly, ScanSnapshot, ScanAnalyze, ScanMerge,
      MergeEdge, MergeDone, ScanNotify
  <2>7. ASSUME NEW t \in GraphThreads, SolveThrows(t) PROVE SolvingUnchanged
    BY <2>7 DEF SolveThrows
  <2>8. ASSUME NEW t \in GraphThreads, CorrectionThrows(t) PROVE SolvingUnchanged
    BY <2>8 DEF CorrectionThrows
  <2>9. ASSUME NEW t \in ScanThreads, ScanThrows(t) PROVE SolvingUnchanged
    BY <2>9 DEF ScanThrows
  <2>10. ASSUME Finalize PROVE SolvingUnchanged
    BY <2>10 DEF Finalize, StopLoopCloser, JoinLoopCloser, StopOptimizer, JoinOptimizer,
      FinalSolve, FinalScan, FinalScanned, FinalScanSkip, SaveOutputs
  <2> QED BY <1>1, <2>1, <2>2, <2>3, <2>4, <2>5, <2>6, <2>7, <2>8, <2>9, <2>10
    DEF Next, Throws
<1>2. CASE UNCHANGED vars
  BY <1>2 DEF vars
<1> QED BY <1>1, <1>2

(* The phase of the run is the owner's.                                     *)
LEMMA PhaseFrame ==
  ASSUME [Next]_vars PROVE UNCHANGED phase \/ FinalizeBegin \/ Finalize
<1> USE DEF controlVars
<1>1. ASSUME NEW f \in FrontEnds, InsertKeyframe(f) \/ NotifyInserted(f)
      PROVE UNCHANGED phase
  BY <1>1 DEF InsertKeyframe, NotifyInserted
<1>2. CASE AttachGnss \/ AttachGravity \/ OptimizeNow \/ ScanNow \/ Terminated
           \/ UNCHANGED vars
  BY <1>2 DEF AttachGnss, AttachGravity, OptimizeNow, ScanNow, Terminated, vars
<1>3. CASE OptimizerThread \/ LoopCloserThread
  BY <1>3 DEF OptimizerThread, OptimizerExit, OptimizerWake, OptimizerTake,
              LoopCloserThread, LoopCloserExit, LoopCloserScan
<1>4. ASSUME NEW t \in GraphThreads, Solve(t) \/ SolveThrows(t) \/ CorrectionThrows(t)
      PROVE UNCHANGED phase
  BY <1>4 DEF Solve, SolveLock, SolveSnapshot, SolveCommit, SolveFeedback,
              SolveCorrect, SolveThrows, CorrectionThrows
<1>5. ASSUME NEW t \in ScanThreads, Scan(t) \/ ScanThrows(t) PROVE UNCHANGED phase
  BY <1>5 DEF Scan, ScanLock, ScanTooEarly, ScanSnapshot, ScanAnalyze, ScanMerge,
              MergeEdge, MergeDone, ScanNotify, ScanThrows
<1> QED BY <1>1, <1>2, <1>3, <1>4, <1>5 DEF Next, Throws

(* The abort flag is the owner's; it is clear again for the final passes.   *)
LEMMA AbortFrame ==
  ASSUME [Next]_vars
  PROVE  (UNCHANGED lc_should_exit_ /\ ~JoinOptimizer) \/ StopLoopCloser \/ JoinOptimizer
<1> USE DEF flagVars
<1>1. ASSUME NEW f \in FrontEnds, InsertKeyframe(f) \/ NotifyInserted(f)
      PROVE UNCHANGED lc_should_exit_
  BY <1>1 DEF InsertKeyframe, NotifyInserted
<1>2. CASE AttachGnss \/ AttachGravity \/ OptimizeNow \/ ScanNow \/ FinalizeBegin
           \/ Terminated \/ UNCHANGED vars
  BY <1>2 DEF AttachGnss, AttachGravity, OptimizeNow, ScanNow, FinalizeBegin,
              Terminated, vars
<1>3. CASE OptimizerThread \/ LoopCloserThread
  BY <1>3 DEF OptimizerThread, OptimizerExit, OptimizerWake, OptimizerTake,
              LoopCloserThread, LoopCloserExit, LoopCloserScan
<1>4. ASSUME NEW t \in GraphThreads, Solve(t) \/ SolveThrows(t) \/ CorrectionThrows(t)
      PROVE UNCHANGED lc_should_exit_
  BY <1>4 DEF Solve, SolveLock, SolveSnapshot, SolveCommit, SolveFeedback,
              SolveCorrect, SolveThrows, CorrectionThrows
<1>5. ASSUME NEW t \in ScanThreads, Scan(t) \/ ScanThrows(t)
      PROVE UNCHANGED lc_should_exit_
  BY <1>5 DEF Scan, ScanLock, ScanTooEarly, ScanSnapshot, ScanAnalyze, ScanMerge,
              MergeEdge, MergeDone, ScanNotify, ScanThrows
<1>6. CASE Finalize
  BY <1>6 DEF Finalize, JoinLoopCloser, StopOptimizer, FinalSolve, FinalScan,
              FinalScanned, FinalScanSkip, SaveOutputs
<1> QED BY <1>1, <1>2, <1>3, <1>4, <1>5, <1>6 DEF Next, Throws

(* A step of the end that has thrown is not forgotten; and the passes are   *)
(* counted by finalize() only.                                              *)
LEMMA FailedFrame == ASSUME [Next]_vars PROVE failed => failed'
<1> USE DEF historyVars
<1>1. ASSUME NEW f \in FrontEnds, InsertKeyframe(f) \/ NotifyInserted(f)
      PROVE UNCHANGED failed
  BY <1>1 DEF InsertKeyframe, NotifyInserted
<1>2. CASE AttachGnss \/ AttachGravity \/ OptimizeNow \/ ScanNow \/ FinalizeBegin
           \/ Terminated \/ UNCHANGED vars
  BY <1>2 DEF AttachGnss, AttachGravity, OptimizeNow, ScanNow, FinalizeBegin,
              Terminated, vars
<1>3. CASE OptimizerThread \/ LoopCloserThread
  BY <1>3 DEF OptimizerThread, OptimizerExit, OptimizerWake, OptimizerTake,
              LoopCloserThread, LoopCloserExit, LoopCloserScan
<1>4. ASSUME NEW t \in GraphThreads, Solve(t) \/ SolveThrows(t) \/ CorrectionThrows(t)
      PROVE failed => failed'
  BY <1>4 DEF Solve, SolveLock, SolveSnapshot, SolveCommit, SolveFeedback,
              SolveCorrect, SolveThrows, CorrectionThrows
<1>5. ASSUME NEW t \in ScanThreads, Scan(t) \/ ScanThrows(t)
      PROVE failed => failed'
  BY <1>5 DEF Scan, ScanLock, ScanTooEarly, ScanSnapshot, ScanAnalyze, ScanMerge,
              MergeEdge, MergeDone, ScanNotify, ScanThrows
<1>6. CASE Finalize
  BY <1>6 DEF Finalize, StopLoopCloser, JoinLoopCloser, StopOptimizer, JoinOptimizer,
              FinalSolve, FinalScan, FinalScanned, FinalScanSkip, SaveOutputs
<1> QED BY <1>1, <1>2, <1>3, <1>4, <1>5, <1>6 DEF Next, Throws

LEMMA RoundFrame == ASSUME [Next]_vars, ~FinalScanned PROVE UNCHANGED round
<1> USE DEF controlVars
<1>1. ASSUME NEW f \in FrontEnds, InsertKeyframe(f) \/ NotifyInserted(f)
      PROVE UNCHANGED round
  BY <1>1 DEF InsertKeyframe, NotifyInserted
<1>2. CASE AttachGnss \/ AttachGravity \/ OptimizeNow \/ ScanNow \/ FinalizeBegin
           \/ Terminated \/ UNCHANGED vars
  BY <1>2 DEF AttachGnss, AttachGravity, OptimizeNow, ScanNow, FinalizeBegin,
              Terminated, vars
<1>3. CASE OptimizerThread \/ LoopCloserThread
  BY <1>3 DEF OptimizerThread, OptimizerExit, OptimizerWake, OptimizerTake,
              LoopCloserThread, LoopCloserExit, LoopCloserScan
<1>4. ASSUME NEW t \in GraphThreads, Solve(t) \/ SolveThrows(t) \/ CorrectionThrows(t)
      PROVE UNCHANGED round
  BY <1>4 DEF Solve, SolveLock, SolveSnapshot, SolveCommit, SolveFeedback,
              SolveCorrect, SolveThrows, CorrectionThrows
<1>5. ASSUME NEW t \in ScanThreads, Scan(t) \/ ScanThrows(t) PROVE UNCHANGED round
  BY <1>5 DEF Scan, ScanLock, ScanTooEarly, ScanSnapshot, ScanAnalyze, ScanMerge,
              MergeEdge, MergeDone, ScanNotify, ScanThrows
<1>6. CASE Finalize
  BY <1>6 DEF Finalize, StopLoopCloser, JoinLoopCloser, StopOptimizer, JoinOptimizer,
              FinalSolve, FinalScan, FinalScanSkip, SaveOutputs
<1> QED BY <1>1, <1>2, <1>3, <1>4, <1>5, <1>6 DEF Next, Throws

-----------------------------------------------------------------------------
(***************************************************************************)
(* The invariant and its proof, one group of variables after the other.    *)
(***************************************************************************)
SolveSection == {"solve_snapshot", "solve_commit", "solve_feedback",
                 "solve_correct"}

ScanSection == {"scan_snapshot", "scan_analyze", "scan_merge", "scan_merging",
                "scan_notify"}

(* The holders of the mutexes are the threads inside the sections.          *)
MutualExclusion ==
  /\ \A t \in GraphThreads : pc[t] \in SolveSection => solve_mtx_ = t
  /\ \A t \in ScanThreads : pc[t] \in ScanSection => lc_scan_mtx_ = t
  /\ \A t \in ScanThreads : pc[t] = "scan_merging" <=> state_mtx_ = t

(* a is the input of a solve that has no more of the map than b.            *)
NoMoreThan(a, b) ==
  a.n <= b.n /\ a.loops <= b.loops /\ a.gnss <= b.gnss /\ a.gravity <= b.gravity

(* The input of a running solve is a prefix of the map, not older than the  *)
(* last committed one until it is committed, and that one afterwards.       *)
SolveInputsOfMap ==
  /\ NoMoreThan(solved, SolveInput)
  /\ \A t \in GraphThreads :
       /\ pc[t] = "solve_commit" =>
            /\ solve[t].n >= 1
            /\ NoMoreThan(solved, solve[t]) /\ NoMoreThan(solve[t], SolveInput)
            /\ solve[t].datum = geodetic_datum_
       /\ pc[t] \in {"solve_feedback", "solve_correct"} =>
            /\ solve[t].n >= 1
            /\ solved = solve[t]

RoundsLeft ==
  phase = "final_scanned" => round < loop_closure_finalize_rounds

IInv == TypeOK /\ MutualExclusion /\ SolveInputsOfMap /\ RoundsLeft

LEMMA GeoType == ASSUME IInv, [Next]_vars PROVE GeoTypeOK'
<1>0. GeoTypeOK /\ SolveTypeOK
  BY DEF IInv, TypeOK
<1>1. CASE UNCHANGED geoVars
  BY <1>0, <1>1 DEF GeoTypeOK, geoVars
<1>2. ASSUME NEW f \in FrontEnds, InsertKeyframe(f) PROVE GeoTypeOK'
  BY <1>0, <1>2, BoundsAssumption DEF GeoTypeOK, InsertKeyframe
<1>3. CASE AttachGnss \/ AttachGravity
  BY <1>0, <1>3 DEF GeoTypeOK, AttachGnss, AttachGravity
<1>4. ASSUME NEW t \in GraphThreads, SolveCommit(t) PROVE GeoTypeOK'
  <2>1. PICK datum \in ResultDatums(solve[t]) :
          /\ geodetic_datum_' = IF datum # None THEN datum ELSE geodetic_datum_
          /\ \/ georef_' = georef_
             \/ datum # None /\ georef_' = datum
    BY <1>4 DEF SolveCommit
  <2>2. datum \in Datums \cup {None}
    BY <1>0 DEF ResultDatums, SolveTypeOK, SolveInputs
  <2> QED BY <1>0, <1>4, <2>1, <2>2 DEF GeoTypeOK, SolveCommit
<1> QED BY <1>1, <1>2, <1>3, <1>4, GeoFrame

LEMMA CountersType == ASSUME IInv, [Next]_vars PROVE CountersTypeOK'
<1>0. CountersTypeOK /\ MapTypeOK /\ ScanTypeOK
  BY DEF IInv, TypeOK
<1>1. CASE UNCHANGED lcVars
  BY <1>0, <1>1 DEF CountersTypeOK, lcVars
<1>2. ASSUME NEW t \in ScanThreads, ScanSnapshot(t) PROVE CountersTypeOK'
  <2>1. Len(keyframes_) \in Nat
    BY <1>0 DEF MapTypeOK
  <2>2. \/ lc_incremental_scans_' = lc_incremental_scans_
        \/ lc_incremental_scans_' = IncrementalScans(FullScan(forceFullScan[t]))
    BY <1>2 DEF ScanSnapshot
  <2>3. lc_kf_count_at_last_scan_' = Len(keyframes_) /\ UNCHANGED lc_snapshot_size_at_last_scan_
    BY <1>2 DEF ScanSnapshot
  <2> QED BY <1>0, <2>1, <2>2, <2>3, ParametersAssumption DEF CountersTypeOK, IncrementalScans, FullScan
<1>3. ASSUME NEW t \in ScanThreads, MergeDone(t) PROVE CountersTypeOK'
  BY <1>0, <1>3 DEF CountersTypeOK, MergeDone, ScanTypeOK, Snapshots
<1> QED BY <1>1, <1>2, <1>3, CountersFrame

LEMMA FlagType == ASSUME IInv, [Next]_vars PROVE FlagTypeOK'
<1>0. FlagTypeOK
  BY DEF IInv, TypeOK
<1> USE DEF FlagTypeOK, flagVars, historyVars, NewData
<1>1. ASSUME NEW f \in FrontEnds, InsertKeyframe(f) PROVE FlagTypeOK'
  BY <1>0, <1>1 DEF InsertKeyframe
<1>2. ASSUME NEW f \in FrontEnds, NotifyInserted(f) PROVE FlagTypeOK'
  BY <1>0, <1>2 DEF NotifyInserted
<1>3. CASE AttachGnss \/ AttachGravity \/ OptimizeNow \/ ScanNow \/ FinalizeBegin \/ Terminated
  BY <1>0, <1>3 DEF AttachGnss, AttachGravity, OptimizeNow, ScanNow, FinalizeBegin, Terminated, vars
<1>4. CASE OptimizerThread \/ LoopCloserThread
  BY <1>0, <1>4 DEF OptimizerThread, OptimizerExit, OptimizerWake, OptimizerTake,
                    LoopCloserThread, LoopCloserExit, LoopCloserScan
<1>5. ASSUME NEW t \in GraphThreads, Solve(t) PROVE FlagTypeOK'
  BY <1>0, <1>5 DEF Solve, SolveLock, SolveSnapshot, SolveCommit, SolveFeedback, SolveCorrect
<1>6. ASSUME NEW t \in ScanThreads, Scan(t) PROVE FlagTypeOK'
  BY <1>0, <1>6 DEF Scan, ScanLock, ScanTooEarly, ScanSnapshot, ScanAnalyze, ScanMerge,
                    MergeEdge, MergeDone, ScanNotify
<1>7. CASE Throws
  BY <1>0, <1>7 DEF Throws, SolveThrows, CorrectionThrows, ScanThrows, InFinalSteps
<1>8. CASE Finalize
  BY <1>0, <1>8 DEF Finalize, StopLoopCloser, JoinLoopCloser, StopOptimizer, JoinOptimizer, FinalSolve, FinalScan, FinalScanned, FinalScanSkip, SaveOutputs, OptimizerToldToExit, AbortCleared
<1>9. CASE UNCHANGED vars
  BY <1>0, <1>9 DEF vars
<1> QED BY <1>1, <1>2, <1>3, <1>4, <1>5, <1>6, <1>7, <1>8, <1>9 DEF Next

LEMMA OutType == ASSUME IInv, [Next]_vars PROVE OutTypeOK'
<1>0. OutTypeOK /\ MapTypeOK /\ SolveTypeOK /\ SolveInputsOfMap
  BY DEF IInv, TypeOK
<1>1. CASE UNCHANGED <<outVars, fused, announced, lost>>
  BY <1>0, <1>1 DEF OutTypeOK, outVars
<1>2. ASSUME NEW t \in GraphThreads, SolveFeedback(t) PROVE OutTypeOK'
  <2>1. keyframes_[solve[t].n].stamp \in 1..MaxStamp
    <3>1. solve[t].n \in 1..Len(keyframes_)
      BY <1>0, <1>2 DEF SolveInputsOfMap, SolveFeedback, NoMoreThan, SolveInput,
                        SolveTypeOK, SolveInputs
    <3>2. keyframes_[solve[t].n] \in Keyframe
      BY <1>0, <3>1 DEF MapTypeOK
    <3> QED BY <3>2 DEF Keyframe
  <2>2. UNCHANGED <<loops_in_last_correction_, announced, lost>>
    BY <1>2 DEF SolveFeedback
  <2>3. \/ UNCHANGED <<last_feedback_stamp_, fused>>
        \/ /\ fused' = Append(fused, keyframes_[solve[t].n].stamp)
           /\ last_feedback_stamp_' = keyframes_[solve[t].n].stamp
    BY <1>2 DEF SolveFeedback
  <2>4. CASE UNCHANGED <<last_feedback_stamp_, fused>>
    BY <1>0, <2>2, <2>4 DEF OutTypeOK
  <2>5. CASE /\ fused' = Append(fused, keyframes_[solve[t].n].stamp)
             /\ last_feedback_stamp_' = keyframes_[solve[t].n].stamp
    <3>1. fused' \in Seq(1..MaxStamp)
      BY <1>0, <2>1, <2>5 DEF OutTypeOK
    <3>2. last_feedback_stamp_' \in 0..MaxStamp
      BY <2>1, <2>5, BoundsAssumption
    <3> QED BY <1>0, <2>2, <3>1, <3>2 DEF OutTypeOK
  <2> QED BY <2>3, <2>4, <2>5
<1>3. ASSUME NEW t \in GraphThreads, SolveCorrect(t) \/ CorrectionThrows(t) PROVE OutTypeOK'
  <2>1. solve[t].loops \in Nat
    BY <1>0 DEF SolveTypeOK, SolveInputs
  <2>2. UNCHANGED <<last_feedback_stamp_, fused>>
    BY <1>3 DEF SolveCorrect, CorrectionThrows
  <2>3. \/ UNCHANGED <<loops_in_last_correction_, announced, lost>>
        \/ /\ NewLoops(t) > 0
           /\ loops_in_last_correction_' = solve[t].loops
           /\ \/ announced' = announced + NewLoops(t) /\ lost' = lost
              \/ announced' = announced /\ lost' = lost + NewLoops(t)
    BY <1>3 DEF SolveCorrect, CorrectionThrows
  <2> QED BY <1>0, <2>1, <2>2, <2>3 DEF OutTypeOK, NewLoops
<1> QED BY <1>1, <1>2, <1>3, OutFrame

LEMMA SolveType == ASSUME IInv, [Next]_vars PROVE SolveTypeOK'
<1>0. SolveTypeOK /\ MapTypeOK /\ GeoTypeOK
  BY DEF IInv, TypeOK
<1>a. NoSolve \in SolveInputs /\ SolveInput \in SolveInputs
  BY <1>0 DEF NoSolve, SolveInput, SolveInputs, MapTypeOK, GeoTypeOK
<1>1. CASE UNCHANGED <<solve, solved>>
  BY <1>0, <1>1 DEF SolveTypeOK
<1>2. ASSUME NEW t \in GraphThreads, SolveCommit(t) PROVE SolveTypeOK'
  BY <1>0, <1>2 DEF SolveTypeOK, SolveCommit, localVars
<1>3. ASSUME NEW t \in GraphThreads,
             SolveSnapshot(t) \/ SolveCorrect(t) \/ SolveThrows(t) \/ CorrectionThrows(t)
      PROVE SolveTypeOK'
  <2>1. /\ UNCHANGED solved
        /\ \/ solve' = [solve EXCEPT ![t] = NoSolve]
           \/ solve' = [solve EXCEPT ![t] = SolveInput]
    BY <1>3 DEF SolveSnapshot, SolveCorrect, SolveThrows, CorrectionThrows, SolveReturn, historyVars
  <2> QED BY <1>0, <1>a, <2>1 DEF SolveTypeOK
<1> QED BY <1>1, <1>2, <1>3, SolveFrame

LEMMA ScanType == ASSUME IInv, [Next]_vars PROVE ScanTypeOK'
<1>0. ScanTypeOK /\ MapTypeOK
  BY DEF IInv, TypeOK
<1>1. CASE UNCHANGED <<scanVars, examined>>
  BY <1>0, <1>1 DEF ScanTypeOK, scanVars
<1>2. ASSUME NEW t \in ScanThreads, NEW force \in BOOLEAN, CallScan(t, force),
             UNCHANGED examined
      PROVE ScanTypeOK'
  BY <1>0, <1>2 DEF ScanTypeOK, CallScan
<1>3. CASE LoopCloserScan \/ ScanNow \/ FinalScan
  BY <1>2, <1>3 DEF LoopCloserScan, ScanNow, FinalScan, ScanThreads, historyVars
<1>4. ASSUME NEW t \in ScanThreads, ScanReturn(t), UNCHANGED examined
      PROVE ScanTypeOK'
  BY <1>0, <1>4 DEF ScanTypeOK, ScanReturn, NoSnapshot, Snapshots
<1>5. ASSUME NEW t \in ScanThreads,
             ScanTooEarly(t) \/ ScanThrows(t) \/ ScanNotify(t)
      PROVE ScanTypeOK'
  BY <1>4, <1>5 DEF ScanTooEarly, ScanThrows, ScanNotify, historyVars
<1>6. ASSUME NEW t \in ScanThreads, MergeDone(t) PROVE ScanTypeOK'
  <2>1. UNCHANGED examined /\ (ScanReturn(t) \/ UNCHANGED scanVars)
    BY <1>6 DEF MergeDone, historyVars
  <2> QED BY <1>0, <1>4, <2>1 DEF ScanTypeOK, scanVars
<1>7. ASSUME NEW t \in ScanThreads, ScanSnapshot(t) PROVE ScanTypeOK'
  <2> DEFINE pairs == PairsToExamine(Len(keyframes_),
                        FirstNewKeyframe(FullScan(forceFullScan[t])))
  <2>1. [n |-> Len(keyframes_), pairs |-> pairs] \in Snapshots
    BY <1>0 DEF MapTypeOK, Snapshots, PairsToExamine
  <2>2. UNCHANGED examined
    BY <1>7 DEF ScanSnapshot, historyVars
  <2>3. \/ ScanReturn(t)
        \/ /\ snapshot' = [snapshot EXCEPT ![t] = [n |-> Len(keyframes_), pairs |-> pairs]]
           /\ UNCHANGED <<forceFullScan, edges, merged>>
    BY <1>7 DEF ScanSnapshot
  <2> QED BY <1>0, <1>4, <2>1, <2>2, <2>3 DEF ScanTypeOK
<1>8. ASSUME NEW t \in ScanThreads, ScanAnalyze(t) PROVE ScanTypeOK'
  <2>1. PICK found \in Detections(snapshot[t].n) : edges' = [edges EXCEPT ![t] = found]
    BY <1>8 DEF ScanAnalyze
  <2>2. found \in Seq(LoopEdge)
    <3>1. snapshot[t].n \in Nat
      BY <1>0 DEF ScanTypeOK, Snapshots
    <3>2. Edges(snapshot[t].n) \subseteq LoopEdge
      BY <3>1 DEF Edges, LoopEdge
    <3>3. PICK k \in 0..MaxEdges : found \in [1..k -> Edges(snapshot[t].n)]
      BY DEF Detections
    <3>4. found \in [1..k -> LoopEdge] /\ k \in Nat
      BY <3>2, <3>3, BoundsAssumption
    <3> QED BY <3>4
  <2>3. snapshot[t].pairs \in SUBSET (Nat \X Nat)
    BY <1>0 DEF ScanTypeOK, Snapshots
  <2>4. examined' \in SUBSET (Nat \X Nat)
    BY <1>0, <1>8, <2>3 DEF ScanTypeOK, ScanAnalyze
  <2> QED BY <1>0, <1>8, <2>1, <2>2, <2>4 DEF ScanTypeOK, ScanAnalyze
<1>9. ASSUME NEW t \in ScanThreads, MergeEdge(t) PROVE ScanTypeOK'
  <2>1. /\ edges' = [edges EXCEPT ![t] = Tail(edges[t])]
        /\ edges[t] # <<>>
        /\ merged' = merged \/ merged' = [merged EXCEPT ![t] = merged[t] + 1]
        /\ UNCHANGED <<forceFullScan, snapshot, examined>>
    BY <1>9 DEF MergeEdge, historyVars
  <2>2. Tail(edges[t]) \in Seq(LoopEdge)
    <3>1. edges[t] \in Seq(LoopEdge)
      BY <1>0 DEF ScanTypeOK
    <3> QED BY <2>1, <3>1
  <2>3. edges' \in [ScanThreads -> Seq(LoopEdge)]
    BY <1>0, <2>1, <2>2 DEF ScanTypeOK
  <2>4. merged' \in [ScanThreads -> Nat]
    BY <1>0, <2>1 DEF ScanTypeOK
  <2> QED BY <1>0, <2>1, <2>3, <2>4 DEF ScanTypeOK
<1> QED BY <1>1, <1>3, <1>5, <1>6, <1>7, <1>8, <1>9, ScanFrame

LEMMA MapType == ASSUME IInv, [Next]_vars PROVE MapTypeOK'
<1>0. MapTypeOK /\ ScanTypeOK
  BY DEF IInv, TypeOK
<1>1. CASE UNCHANGED mapVars
  BY <1>0, <1>1 DEF MapTypeOK, mapVars, KeyframeIds
<1>2. ASSUME NEW f \in FrontEnds, InsertKeyframe(f) PROVE MapTypeOK'
  <2>1. PICK kf \in Keyframe : /\ keyframes_' = Append(keyframes_, kf)
                               /\ pose_in_map' = Append(pose_in_map, InitialPose(kf))
    BY <1>2 DEF InsertKeyframe
  <2>2. InitialPose(kf) \in Poses
    <3>1. CASE keyframes_ = <<>>
      BY <3>1 DEF InitialPose, Keyframe
    <3>2. CASE keyframes_ # <<>>
      <4>1. Len(keyframes_) \in KeyframeIds /\ Len(pose_in_map) = Len(keyframes_)
        BY <3>2, <1>0 DEF MapTypeOK, KeyframeIds
      <4>2. Last(keyframes_) \in Keyframe /\ Last(pose_in_map) \in Poses
        BY <4>1, <1>0 DEF Last, MapTypeOK, KeyframeIds
      <4> QED BY <3>2, <4>2, PosesAssumption DEF InitialPose, Chained, Keyframe
    <3> QED BY <3>1, <3>2
  <2>3. keyframes_' \in Seq(Keyframe) /\ Len(keyframes_') = Len(keyframes_) + 1
    BY <2>1, <1>0 DEF MapTypeOK
  <2>4. pose_in_map' \in [1..Len(keyframes_') -> Poses]
    <3>1. pose_in_map \in Seq(Poses) /\ Len(pose_in_map) = Len(keyframes_)
      BY <1>0 DEF MapTypeOK, KeyframeIds
    <3>2. pose_in_map' \in Seq(Poses) /\ Len(pose_in_map') = Len(keyframes_')
      BY <2>1, <2>2, <2>3, <3>1
    <3> QED BY <3>2
  <2>5. UNCHANGED <<loops_, loop_pairs_, rejected_loop_pairs_>>
    BY <1>2 DEF InsertKeyframe
  <2> QED BY <2>3, <2>4, <2>5, <1>0 DEF MapTypeOK, KeyframeIds
<1>3. ASSUME NEW t \in GraphThreads, SolveCommit(t) PROVE MapTypeOK'
  BY <1>0, <1>3 DEF MapTypeOK, KeyframeIds, SolveCommit, Estimates
<1>4. ASSUME NEW t \in ScanThreads, MergeEdge(t) PROVE MapTypeOK'
  <2> DEFINE e == Head(edges[t])
  <2>1. e \in LoopEdge
    <3>1. edges[t] \in Seq(LoopEdge) /\ edges[t] # <<>>
      BY <1>0, <1>4 DEF ScanTypeOK, MergeEdge
    <3> QED BY <3>1
  <2>2. Pair(e) \in Nat \X Nat
    BY <2>1 DEF Pair, LoopEdge
  <2>3. /\ UNCHANGED <<keyframes_, pose_in_map>>
        /\ loops_' = loops_ \/ loops_' = Append(loops_, e)
        /\ loop_pairs_' = loop_pairs_ \/ loop_pairs_' = loop_pairs_ \cup {Pair(e)}
        /\ \/ rejected_loop_pairs_' = rejected_loop_pairs_
           \/ rejected_loop_pairs_' = rejected_loop_pairs_ \cup {Pair(e)}
    BY <1>4 DEF MergeEdge
  <2> HIDE DEF e
  <2>4. loops_' \in Seq(LoopEdge)
    BY <1>0, <2>1, <2>3 DEF MapTypeOK
  <2>5. loop_pairs_' \in SUBSET (Nat \X Nat)
    BY <1>0, <2>2, <2>3 DEF MapTypeOK
  <2>6. rejected_loop_pairs_' \in SUBSET (Nat \X Nat)
    BY <1>0, <2>2, <2>3 DEF MapTypeOK
  <2> QED BY <1>0, <2>3, <2>4, <2>5, <2>6 DEF MapTypeOK, KeyframeIds
<1> QED BY <1>1, <1>2, <1>3, <1>4, MapFrame

LEMMA LockType == ASSUME IInv, [Next]_vars PROVE LockTypeOK'
<1>0. LockTypeOK
  BY DEF IInv, TypeOK
<1>1. CASE UNCHANGED lockVars
  BY <1>0, <1>1 DEF LockTypeOK, lockVars
<1>2. ASSUME NEW t \in GraphThreads,
             \/ SolveLock(t) \/ SolveSnapshot(t) \/ SolveCorrect(t)
             \/ SolveThrows(t) \/ CorrectionThrows(t)
      PROVE LockTypeOK'
  BY <1>0, <1>2 DEF LockTypeOK, SolveLock, SolveSnapshot, SolveCorrect, SolveThrows,
                    CorrectionThrows, SolveReturn, lockVars
<1>3. ASSUME NEW t \in ScanThreads,
             \/ ScanLock(t) \/ ScanTooEarly(t) \/ ScanSnapshot(t) \/ ScanThrows(t)
             \/ ScanMerge(t) \/ MergeDone(t) \/ ScanNotify(t)
      PROVE LockTypeOK'
  BY <1>0, <1>3 DEF LockTypeOK, ScanLock, ScanTooEarly, ScanSnapshot, ScanThrows,
                    ScanMerge, MergeDone, ScanNotify, ScanReturn
<1> QED BY <1>1, <1>2, <1>3, LockFrame

LEMMA ControlType == ASSUME IInv, [Next]_vars PROVE ControlTypeOK' /\ RoundsLeft'
<1>0. ControlTypeOK /\ RoundsLeft
  BY DEF IInv, TypeOK
<1> USE DEF ControlTypeOK, RoundsLeft, controlVars, GoTo, PCs, Phases, Threads
<1>1. ASSUME NEW f \in FrontEnds, InsertKeyframe(f) \/ NotifyInserted(f)
      PROVE ControlTypeOK' /\ RoundsLeft'
  BY <1>0, <1>1 DEF InsertKeyframe, NotifyInserted
<1>2. CASE AttachGnss \/ AttachGravity \/ Terminated
  BY <1>0, <1>2 DEF AttachGnss, AttachGravity, Terminated, vars
<1>3. CASE OptimizeNow \/ ScanNow \/ FinalizeBegin
  BY <1>0, <1>3 DEF OptimizeNow, ScanNow, FinalizeBegin, CallScan, OwnerIn
<1>4. CASE OptimizerThread \/ LoopCloserThread
  BY <1>0, <1>4 DEF OptimizerThread, OptimizerExit, OptimizerWake, OptimizerTake,
                    LoopCloserThread, LoopCloserExit, LoopCloserScan, CallScan
<1>5. ASSUME NEW t \in GraphThreads, Solve(t) PROVE ControlTypeOK' /\ RoundsLeft'
  BY <1>0, <1>5 DEF Solve, SolveLock, SolveSnapshot, SolveCommit, SolveFeedback,
                    SolveCorrect, SolveReturn, GraphThreads
<1>6. ASSUME NEW t \in ScanThreads, Scan(t) PROVE ControlTypeOK' /\ RoundsLeft'
  BY <1>0, <1>6 DEF Scan, ScanLock, ScanTooEarly, ScanSnapshot, ScanAnalyze, ScanMerge,
                    MergeEdge, MergeDone, ScanNotify, ScanReturn, ScanThreads
<1>7. CASE Throws
  BY <1>0, <1>7 DEF Throws, SolveThrows, CorrectionThrows, ScanThrows, SolveReturn,
                    ScanReturn, GraphThreads, ScanThreads
<1>8. CASE Finalize
  BY <1>0, <1>8, ParametersAssumption
     DEF Finalize, StopLoopCloser, JoinLoopCloser, StopOptimizer, JoinOptimizer,
         FinalSolve, FinalScan, FinalScanned, FinalScanSkip, SaveOutputs, CallScan, OwnerIn
<1>9. CASE UNCHANGED vars
  BY <1>0, <1>9 DEF vars
<1> QED BY <1>1, <1>2, <1>3, <1>4, <1>5, <1>6, <1>7, <1>8, <1>9 DEF Next

LEMMA Locking == ASSUME IInv, [Next]_vars PROVE MutualExclusion'
<1>0. ControlTypeOK /\ MutualExclusion /\ LockTypeOK
  BY DEF IInv, TypeOK
<1> USE DEF MutualExclusion, ControlTypeOK, LockTypeOK, GoTo, lockVars, controlVars,
            SolveSection, ScanSection, GraphThreads, ScanThreads, Threads, None
<1>1. ASSUME NEW f \in FrontEnds, InsertKeyframe(f) \/ NotifyInserted(f)
      PROVE MutualExclusion'
  BY <1>0, <1>1 DEF InsertKeyframe, NotifyInserted
<1>2. CASE AttachGnss \/ AttachGravity \/ Terminated
  BY <1>0, <1>2 DEF AttachGnss, AttachGravity, Terminated, vars
<1>3. CASE OptimizeNow \/ ScanNow \/ FinalizeBegin
  BY <1>0, <1>3 DEF OptimizeNow, ScanNow, FinalizeBegin, CallScan, OwnerIn
<1>4. CASE OptimizerThread \/ LoopCloserThread
  BY <1>0, <1>4 DEF OptimizerThread, OptimizerExit, OptimizerWake, OptimizerTake,
                    LoopCloserThread, LoopCloserExit, LoopCloserScan, CallScan
<1>5. ASSUME NEW t \in GraphThreads, Solve(t) PROVE MutualExclusion'
  <2>1. CASE SolveLock(t)
    BY <1>0, <2>1 DEF SolveLock, NoOtherSolve
  <2>2. CASE SolveReturn(t) /\ pc[t] \in SolveSection
    BY <1>0, <2>2 DEF SolveReturn
  <2>3. CASE SolveSnapshot(t) /\ ~SolveReturn(t)
    BY <1>0, <2>3 DEF SolveSnapshot
  <2>4. CASE SolveCommit(t) \/ SolveFeedback(t)
    BY <1>0, <2>4 DEF SolveCommit, SolveFeedback
  <2> QED BY <1>5, <2>1, <2>2, <2>3, <2>4 DEF Solve, SolveSnapshot, SolveCorrect
<1>6. ASSUME NEW t \in ScanThreads, Scan(t) PROVE MutualExclusion'
  BY <1>0, <1>6 DEF Scan, ScanLock, ScanTooEarly, ScanSnapshot, ScanAnalyze, ScanMerge,
                    MergeEdge, MergeDone, ScanNotify, ScanReturn
<1>7. CASE Throws
  <2>1. ASSUME NEW t \in GraphThreads, SolveReturn(t), pc[t] \in SolveSection
        PROVE MutualExclusion'
    BY <1>0, <2>1 DEF SolveReturn
  <2>2. ASSUME NEW t \in ScanThreads, ScanThrows(t) PROVE MutualExclusion'
    BY <1>0, <2>2 DEF ScanThrows, ScanReturn
  <2> QED BY <1>7, <2>1, <2>2 DEF Throws, SolveThrows, CorrectionThrows
<1>8. CASE Finalize
  BY <1>0, <1>8
     DEF Finalize, StopLoopCloser, JoinLoopCloser, StopOptimizer, JoinOptimizer,
         FinalSolve, FinalScan, FinalScanned, FinalScanSkip, SaveOutputs, CallScan,
         OwnerIn
<1>9. CASE UNCHANGED vars
  BY <1>0, <1>9 DEF vars
<1> QED BY <1>1, <1>2, <1>3, <1>4, <1>5, <1>6, <1>7, <1>8, <1>9 DEF Next

LEMMA MapGrows ==
  ASSUME IInv, [Next]_vars
  PROVE  /\ SolveInput \in SolveInputs /\ SolveInput' \in SolveInputs
         /\ NoMoreThan(SolveInput, SolveInput')
<1> DEFINE MoreOfMap == Len(keyframes_) <= Len(keyframes_') /\ Len(loops_) <= Len(loops_')
<1> DEFINE MoreReadings == gnss <= gnss' /\ gravity <= gravity'
<1>0. MapTypeOK /\ GeoTypeOK /\ MapTypeOK' /\ GeoTypeOK'
  BY MapType, GeoType DEF IInv, TypeOK
<1>1. SolveInput \in SolveInputs /\ SolveInput' \in SolveInputs
  BY <1>0 DEF SolveInput, SolveInputs, MapTypeOK, GeoTypeOK
<1>2. MoreOfMap
  <2>0. Len(keyframes_) \in Nat /\ Len(loops_) \in Nat
    BY <1>0 DEF MapTypeOK
  <2>1. CASE UNCHANGED mapVars
    BY <2>0, <2>1 DEF mapVars
  <2>2. ASSUME NEW f \in FrontEnds, InsertKeyframe(f) PROVE MoreOfMap
    BY <1>0, <2>0, <2>2 DEF InsertKeyframe, MapTypeOK
  <2>3. ASSUME NEW t \in GraphThreads, SolveCommit(t) PROVE MoreOfMap
    BY <2>0, <2>3 DEF SolveCommit
  <2>4. ASSUME NEW t \in ScanThreads, MergeEdge(t) PROVE MoreOfMap
    BY <1>0, <2>0, <2>4 DEF MergeEdge, MapTypeOK
  <2> QED BY <2>1, <2>2, <2>3, <2>4, MapFrame
<1>3. MoreReadings
  <2>0. gnss \in Nat /\ gravity \in Nat
    BY <1>0 DEF GeoTypeOK
  <2>1. CASE UNCHANGED geoVars
    BY <2>0, <2>1 DEF geoVars
  <2>2. ASSUME NEW f \in FrontEnds, InsertKeyframe(f) PROVE MoreReadings
    BY <2>0, <2>2, BoundsAssumption DEF InsertKeyframe
  <2>3. CASE AttachGnss \/ AttachGravity
    BY <1>0, <2>0, <2>3 DEF AttachGnss, AttachGravity, MapTypeOK
  <2>4. ASSUME NEW t \in GraphThreads, SolveCommit(t) PROVE MoreReadings
    BY <2>0, <2>4 DEF SolveCommit
  <2> QED BY <2>1, <2>2, <2>3, <2>4, GeoFrame
<1> QED BY <1>1, <1>2, <1>3 DEF NoMoreThan, SolveInput

LEMMA NoMoreThanOrder ==
  ASSUME NEW a \in SolveInputs, NEW b \in SolveInputs, NEW c \in SolveInputs
  PROVE  /\ NoMoreThan(a, a)
         /\ NoMoreThan(a, b) /\ NoMoreThan(b, c) => NoMoreThan(a, c)
BY DEF NoMoreThan, SolveInputs

LEMMA SolveInputsStay == ASSUME IInv, [Next]_vars PROVE SolveInputsOfMap'
<1>0. /\ MapTypeOK /\ GeoTypeOK /\ SolveTypeOK /\ ControlTypeOK
      /\ SolveInputsOfMap /\ MutualExclusion
  BY DEF IInv, TypeOK
<1>1. /\ SolveInput \in SolveInputs /\ SolveInput' \in SolveInputs
      /\ NoMoreThan(SolveInput, SolveInput')
  BY MapGrows
<1>2. solved \in SolveInputs /\ \A t \in GraphThreads : solve[t] \in SolveInputs
  BY <1>0 DEF SolveTypeOK
<1>3. ASSUME NEW t \in GraphThreads, SolveSnapshot(t) PROVE SolveInputsOfMap'
  <2>1. pc[t] = "solve_snapshot" /\ UNCHANGED <<geodetic_datum_, solved>>
    BY <1>3 DEF SolveSnapshot, geoVars, historyVars
  <2>2. \A u \in GraphThreads \ {t} : pc[u] \notin SolveSection
    BY <1>0, <2>1 DEF MutualExclusion, SolveSection
  <2>3. \A u \in GraphThreads \ {t} : pc'[u] = pc[u]
    BY <1>0, <1>3 DEF SolveSnapshot, SolveReturn, GoTo, ControlTypeOK, GraphThreads, Threads
  <2>4. NoMoreThan(solved, SolveInput')
    BY <1>0, <1>1, <1>2, NoMoreThanOrder DEF SolveInputsOfMap
  <2>5. CASE pc'[t] = "ready"
    BY <2>1, <2>2, <2>3, <2>4, <2>5 DEF SolveInputsOfMap, SolveSection
  <2>6. CASE solve'[t] = SolveInput /\ keyframes_ # <<>> /\ pc'[t] = "solve_commit"
    <3>1. SolveInput.n >= 1 /\ SolveInput.datum = geodetic_datum_
      BY <1>0, <2>6 DEF SolveInput, MapTypeOK
    <3>2. NoMoreThan(solved, SolveInput)
      BY <1>0 DEF SolveInputsOfMap
    <3> QED BY <1>1, <2>1, <2>2, <2>3, <2>4, <2>6, <3>1, <3>2
            DEF SolveInputsOfMap, SolveSection
  <2> QED BY <1>0, <1>3, <2>5, <2>6
          DEF SolveSnapshot, SolveReturn, GoTo, ControlTypeOK, SolveTypeOK, GraphThreads, Threads
<1>4. ASSUME NEW t \in GraphThreads, SolveCommit(t) PROVE SolveInputsOfMap'
  <2>1. pc[t] = "solve_commit" /\ solved' = solve[t] /\ UNCHANGED solve
    BY <1>4 DEF SolveCommit, localVars
  <2>2. \A u \in GraphThreads \ {t} : pc[u] \notin SolveSection
    BY <1>0, <2>1 DEF MutualExclusion, SolveSection
  <2>3. pc'[t] = "solve_feedback" /\ \A u \in GraphThreads \ {t} : pc'[u] = pc[u]
    BY <1>0, <1>4 DEF SolveCommit, GoTo, ControlTypeOK, GraphThreads, Threads
  <2>4. solve[t].n >= 1 /\ NoMoreThan(solve[t], SolveInput)
    BY <1>0, <2>1 DEF SolveInputsOfMap
  <2>5. NoMoreThan(solved', SolveInput')
    BY <1>1, <1>2, <2>1, <2>4, NoMoreThanOrder
  <2> QED BY <2>1, <2>2, <2>3, <2>4, <2>5 DEF SolveInputsOfMap, SolveSection
<1>5. ASSUME NEW t \in GraphThreads, SolveFeedback(t) PROVE SolveInputsOfMap'
  <2>1. pc[t] = "solve_feedback" /\ UNCHANGED <<geodetic_datum_, solve, solved>>
    BY <1>5 DEF SolveFeedback, localVars, geoVars
  <2>2. \A u \in GraphThreads \ {t} : pc[u] \notin SolveSection
    BY <1>0, <2>1 DEF MutualExclusion, SolveSection
  <2>3. pc'[t] = "solve_correct" /\ \A u \in GraphThreads \ {t} : pc'[u] = pc[u]
    BY <1>0, <1>5 DEF SolveFeedback, GoTo, ControlTypeOK, GraphThreads, Threads
  <2>4. NoMoreThan(solved, SolveInput')
    BY <1>0, <1>1, <1>2, NoMoreThanOrder DEF SolveInputsOfMap
  <2> QED BY <1>0, <2>1, <2>2, <2>3, <2>4 DEF SolveInputsOfMap, SolveSection
<1>6. ASSUME SolvingUnchanged, \A t \in GraphThreads : ~SolveSnapshot(t) /\ ~SolveCommit(t)
      PROVE SolveInputsOfMap'
  <2>1. geodetic_datum_' = geodetic_datum_
    BY <1>6, GeoFrame DEF geoVars, InsertKeyframe, AttachGnss, AttachGravity
  <2> DEFINE Kept == /\ solved' = solved
                     /\ \A t \in GraphThreads : solve'[t] = solve[t] \/ pc'[t] = "ready"
  <2>2. Kept
    <3>1. CASE UNCHANGED <<solve, solved>>
      BY <3>1
    <3>2. ASSUME NEW t \in GraphThreads,
                 SolveCorrect(t) \/ SolveThrows(t) \/ CorrectionThrows(t)
          PROVE Kept
      <4>1. /\ solved' = solved
            /\ solve' = [solve EXCEPT ![t] = NoSolve]
            /\ pc' = [pc EXCEPT ![t] = "ready"]
        BY <3>2 DEF SolveCorrect, SolveThrows, CorrectionThrows, SolveReturn, GoTo
      <4> QED BY <1>0, <4>1 DEF SolveTypeOK, ControlTypeOK, GraphThreads, Threads
    <3> QED BY <1>6, <3>1, <3>2, SolveFrame
  <2>3. NoMoreThan(solved, SolveInput')
    BY <1>0, <1>1, <1>2, NoMoreThanOrder DEF SolveInputsOfMap
  <2>4. ASSUME NEW t \in GraphThreads, pc'[t] = "solve_commit"
        PROVE /\ solve'[t].n >= 1 /\ solve'[t].datum = geodetic_datum_'
              /\ NoMoreThan(solved', solve'[t]) /\ NoMoreThan(solve'[t], SolveInput')
    <3>1. pc[t] = "solve_commit" /\ solve'[t] = solve[t]
      BY <1>6, <2>2, <2>4 DEF SolvingUnchanged
    <3>2. /\ solve[t].n >= 1 /\ solve[t].datum = geodetic_datum_
          /\ NoMoreThan(solved, solve[t]) /\ NoMoreThan(solve[t], SolveInput)
      BY <1>0, <3>1 DEF SolveInputsOfMap
    <3> QED BY <1>1, <1>2, <2>1, <2>2, <3>1, <3>2, NoMoreThanOrder
  <2>5. ASSUME NEW t \in GraphThreads, pc'[t] \in {"solve_feedback", "solve_correct"}
        PROVE solve'[t].n >= 1 /\ solved' = solve'[t]
    <3>1. pc[t] \in {"solve_feedback", "solve_correct"} /\ solve'[t] = solve[t]
      BY <1>6, <2>2, <2>5 DEF SolvingUnchanged
    <3> QED BY <1>0, <2>2, <3>1 DEF SolveInputsOfMap
  <2> QED BY <2>2, <2>3, <2>4, <2>5 DEF SolveInputsOfMap
<1> QED BY <1>0, <1>3, <1>4, <1>5, <1>6, SolvingFrame

LEMMA InitInvariant == Init => IInv
<1> SUFFICES ASSUME Init PROVE IInv
  OBVIOUS
<1>1. MapTypeOK
  BY DEF Init, MapTypeOK, KeyframeIds
<1>2. GeoTypeOK /\ LockTypeOK /\ FlagTypeOK
  BY DEF Init, GeoTypeOK, LockTypeOK, FlagTypeOK
<1>3. CountersTypeOK
  BY ParametersAssumption DEF Init, CountersTypeOK
<1>4. OutTypeOK
  BY BoundsAssumption DEF Init, OutTypeOK
<1>5. ControlTypeOK
  BY ParametersAssumption DEF Init, ControlTypeOK, PCs, Phases
<1>6. SolveTypeOK
  BY DEF Init, SolveTypeOK, NoSolve, SolveInputs
<1>7. ScanTypeOK
  BY DEF Init, ScanTypeOK, NoSnapshot, Snapshots
<1>8. MutualExclusion
  BY DEF Init, MutualExclusion, SolveSection, ScanSection, GraphThreads, ScanThreads,
         Threads, None
<1>9. SolveInputsOfMap
  BY DEF Init, SolveInputsOfMap, NoMoreThan, SolveInput, NoSolve, GraphThreads, Threads
<1>10. RoundsLeft
  BY DEF Init, RoundsLeft
<1> QED BY <1>1, <1>2, <1>3, <1>4, <1>5, <1>6, <1>7, <1>8, <1>9, <1>10 DEF IInv, TypeOK

(* What the runs check of TypeOK holds for every value of the constants.    *)
LEMMA Invariance == Spec => []IInv
<1>1. Init => IInv
  BY InitInvariant
<1>2. IInv /\ [Next]_vars => IInv'
  <2> SUFFICES ASSUME IInv, [Next]_vars PROVE IInv'
    OBVIOUS
  <2>1. TypeOK'
    BY MapType, GeoType, LockType, FlagType, CountersType, OutType, ControlType,
       SolveType, ScanType DEF TypeOK
  <2> QED BY <2>1, Locking, SolveInputsStay, ControlType DEF IInv
<1> QED BY <1>1, <1>2, PTL DEF Spec

-----------------------------------------------------------------------------
(* The types of the state of Mapper, and the limit of the counter of        *)
(* incremental scans.                                                       *)
THEOREM TypeCorrect == Spec => []TypeOK
BY Invariance, PTL DEF IInv

(* At most one thread is in solve_global_graph() past its lock, at most one *)
(* in run_loop_closure_scan(), and the merge of the loops holds state_mtx_. *)
THEOREM MutexesExclude == Spec => []MutualExclusion
BY Invariance, PTL DEF IInv

-----------------------------------------------------------------------------
(* What a solve writes back, at the moment it does.                         *)
LEMMA CommitOf ==
  ASSUME IInv, NEW t \in GraphThreads, SolveCommit(t)
  PROVE  /\ NoMoreThan(solved, solved') /\ solved' = solve[t]
         /\ solve[t].datum = geodetic_datum_
         /\ solve[t] \in SolveInputs /\ solved \in SolveInputs
BY DEF IInv, SolveInputsOfMap, SolveCommit, TypeOK, SolveTypeOK

(* No solve undoes the result of one that knew more of the map:             *)
(* solve_mtx_ is taken before the snapshot and held until the write back.   *)
THEOREM SolvesAdvance == Spec => SolvesNeverGoBack
<1> DEFINE Advance == /\ solved'.n >= solved.n
                      /\ solved'.loops >= solved.loops
                      /\ solved'.gnss >= solved.gnss
                      /\ solved'.gravity >= solved.gravity
<1>1. IInv /\ [Next]_vars => [Advance]_vars
  <2> SUFFICES ASSUME IInv, [Next]_vars PROVE Advance
    OBVIOUS
  <2>1. solved \in SolveInputs
    BY DEF IInv, TypeOK, SolveTypeOK
  <2>2. CASE solved' = solved
    BY <2>1, <2>2 DEF SolveInputs
  <2>3. ASSUME NEW t \in GraphThreads, SolveCommit(t) PROVE Advance
    BY <2>1, <2>3, CommitOf DEF NoMoreThan, SolveInputs
  <2> QED BY <2>2, <2>3, SolveFrame
          DEF SolveSnapshot, SolveCorrect, SolveThrows, CorrectionThrows, historyVars
<1> QED BY <1>1, Invariance, PTL DEF Spec, SolvesNeverGoBack

(* Once a solve has fixed the geodetic datum, no later one moves it: the    *)
(* datum was in the input of every solve that is still to be written back.  *)
THEOREM DatumFixed == Spec => DatumNeverMoves
<1> DEFINE Stays == geodetic_datum_ # None => geodetic_datum_' = geodetic_datum_
<1>1. IInv /\ [Next]_vars => [Stays]_vars
  <2> SUFFICES ASSUME IInv, [Next]_vars PROVE Stays
    OBVIOUS
  <2>1. CASE geodetic_datum_' = geodetic_datum_
    BY <2>1
  <2>2. ASSUME NEW t \in GraphThreads, SolveCommit(t) PROVE Stays
    BY <2>2, CommitOf DEF SolveCommit, ResultDatums
  <2> QED BY <2>1, <2>2, GeoFrame DEF geoVars, InsertKeyframe, AttachGnss, AttachGravity
<1> QED BY <1>1, Invariance, PTL DEF Spec, DatumNeverMoves

(* The geo-reference that is published refers to the datum of the map, not  *)
(* to the one that another solve has picked.                                *)
THEOREM GeorefMatchesDatum == Spec => []GeorefOnDatum
<1>1. Init => GeorefOnDatum
  BY DEF Init, GeorefOnDatum
<1>2. IInv /\ GeorefOnDatum /\ [Next]_vars => GeorefOnDatum'
  <2> SUFFICES ASSUME IInv, GeorefOnDatum, [Next]_vars PROVE GeorefOnDatum'
    OBVIOUS
  <2>1. CASE UNCHANGED <<geodetic_datum_, georef_>>
    BY <2>1 DEF GeorefOnDatum
  <2>2. ASSUME NEW t \in GraphThreads, SolveCommit(t) PROVE GeorefOnDatum'
    <3>1. PICK datum \in ResultDatums(solve[t]) :
            /\ geodetic_datum_' = IF datum # None THEN datum ELSE geodetic_datum_
            /\ georef_' = georef_ \/ (datum # None /\ georef_' = datum)
      BY <2>2 DEF SolveCommit
    <3>2. solve[t].datum = geodetic_datum_
      BY <2>2, CommitOf
    <3> QED BY <3>1, <3>2 DEF GeorefOnDatum, ResultDatums
  <2> QED BY <2>1, <2>2, GeoFrame DEF geoVars, InsertKeyframe, AttachGnss, AttachGravity
<1> QED BY <1>1, <1>2, Invariance, PTL DEF Spec

-----------------------------------------------------------------------------
(* A new keyframe starts chained, a write back chains the keyframes its     *)
(* solve did not have, and nothing else moves a pose.                       *)
THEOREM TailStaysChained == Spec => []TailChained
<1>1. Init => TailChained
  BY DEF Init, TailChained, KeyframeIds
<1>2. IInv /\ TailChained /\ [Next]_vars => TailChained'
  <2> SUFFICES ASSUME IInv, TailChained, [Next]_vars PROVE TailChained'
    OBVIOUS
  <2>0. MapTypeOK /\ SolveTypeOK
    BY DEF IInv, TypeOK
  <2>1. ASSUME solved' = solved, UNCHANGED <<keyframes_, pose_in_map>>
        PROVE TailChained'
    BY <2>1 DEF TailChained, KeyframeIds
  <2>2. ASSUME NEW f \in FrontEnds, InsertKeyframe(f) PROVE TailChained'
    <3>1. PICK kf \in Keyframe : /\ keyframes_' = Append(keyframes_, kf)
                                 /\ pose_in_map' = Append(pose_in_map, InitialPose(kf))
      BY <2>2 DEF InsertKeyframe
    <3>2. solved' = solved
      BY <2>2 DEF InsertKeyframe, historyVars
    <3>3. Len(keyframes_) \in Nat /\ Len(keyframes_') = Len(keyframes_) + 1
      BY <2>0, <3>1 DEF MapTypeOK
    <3>4. pose_in_map \in Seq(Poses) /\ Len(pose_in_map) = Len(keyframes_)
      BY <2>0 DEF MapTypeOK, KeyframeIds
    <3>5. ASSUME NEW i \in KeyframeIds' \ {1}, i > solved'.n
          PROVE pose_in_map'[i] =
                  Chained(keyframes_'[i - 1], pose_in_map'[i - 1], keyframes_'[i])
      <4>1. CASE i <= Len(keyframes_)
        <5>1. i \in KeyframeIds \ {1} /\ i - 1 \in 1..Len(keyframes_)
          BY <3>3, <3>5, <4>1 DEF KeyframeIds
        <5>2. /\ keyframes_'[i] = keyframes_[i] /\ keyframes_'[i - 1] = keyframes_[i - 1]
              /\ pose_in_map'[i] = pose_in_map[i]
              /\ pose_in_map'[i - 1] = pose_in_map[i - 1]
          BY <2>0, <3>1, <3>4, <5>1 DEF MapTypeOK, KeyframeIds
        <5> QED BY <3>2, <3>5, <5>1, <5>2 DEF TailChained
      <4>2. CASE i = Len(keyframes_) + 1
        <5>1. keyframes_ # <<>> /\ i - 1 = Len(keyframes_) /\ Len(keyframes_) >= 1
          BY <2>0, <3>3, <3>5, <4>2 DEF MapTypeOK, KeyframeIds
        <5>2. /\ keyframes_'[i] = kf /\ keyframes_'[i - 1] = Last(keyframes_)
              /\ pose_in_map'[i] = InitialPose(kf)
              /\ pose_in_map'[i - 1] = Last(pose_in_map)
          BY <2>0, <3>1, <3>4, <4>2, <5>1 DEF MapTypeOK, Last
        <5> QED BY <5>1, <5>2 DEF InitialPose
      <4> QED BY <3>3, <3>5, <4>1, <4>2 DEF KeyframeIds
    <3> QED BY <3>5 DEF TailChained
  <2>3. ASSUME NEW t \in GraphThreads, SolveCommit(t) PROVE TailChained'
    <3>1. solved' = solve[t] /\ keyframes_' = keyframes_
      BY <2>3 DEF SolveCommit
    <3>2. pose_in_map' \in Estimates(solve[t].n)
      BY <2>3 DEF SolveCommit
    <3> QED BY <3>1, <3>2 DEF TailChained, Estimates, KeyframeIds
  <2>4. ASSUME NEW t \in ScanThreads, MergeEdge(t) PROVE TailChained'
    BY <2>1, <2>4 DEF MergeEdge, historyVars
  <2>5. CASE UNCHANGED mapVars
    <3>1. ASSUME solved' = solved PROVE TailChained'
      BY <2>1, <2>5, <3>1 DEF mapVars
    <3> QED BY <2>3, <3>1, SolveFrame
            DEF SolveSnapshot, SolveCorrect, SolveThrows, CorrectionThrows, historyVars
  <2> QED BY <2>2, <2>3, <2>4, <2>5, MapFrame
<1> QED BY <1>1, <1>2, Invariance, PTL DEF Spec

-----------------------------------------------------------------------------
FedUpToLast ==
  /\ FedOnceInOrder
  /\ \A i \in DOMAIN fused : fused[i] <= last_feedback_stamp_

(* A pose goes to the state estimator only when it is newer than the last   *)
(* one that did, and is then the last one: send_feedback() repeats nothing  *)
(* and never goes back in time.                                             *)
THEOREM FeedbackInOrder == Spec => []FedOnceInOrder
<1>1. Init => FedUpToLast
  BY DEF Init, FedUpToLast, FedOnceInOrder
<1>2. IInv /\ FedUpToLast /\ [Next]_vars => FedUpToLast'
  <2> SUFFICES ASSUME IInv, FedUpToLast, [Next]_vars PROVE FedUpToLast'
    OBVIOUS
  <2>0. OutTypeOK /\ OutTypeOK'
    BY OutType DEF IInv, TypeOK
  <2>1. CASE UNCHANGED <<last_feedback_stamp_, fused>>
    BY <2>1 DEF FedUpToLast, FedOnceInOrder
  <2>2. ASSUME NEW stamp, ~AlreadyFed(stamp), fused' = Append(fused, stamp),
               last_feedback_stamp_' = stamp
        PROVE FedUpToLast'
    <3>1. /\ stamp \in Nat /\ last_feedback_stamp_ \in Nat /\ fused \in Seq(Nat)
          /\ last_feedback_stamp_ < stamp
      BY <2>0, <2>2, BoundsAssumption DEF OutTypeOK, AlreadyFed
    <3>2. Len(fused) \in Nat /\ DOMAIN fused' = 1..(Len(fused) + 1)
      BY <2>2, <3>1
    <3>3. \A i \in DOMAIN fused : fused'[i] = fused[i] /\ fused[i] < stamp
      BY <2>2, <3>1 DEF FedUpToLast
    <3>4. fused'[Len(fused) + 1] = stamp
      BY <2>2, <3>1
    <3>5. DOMAIN fused = 1..Len(fused)
      BY <3>1
    <3>6. FedOnceInOrder'
      BY <3>2, <3>3, <3>4, <3>5 DEF FedUpToLast, FedOnceInOrder
    <3>7. \A i \in DOMAIN fused' : fused'[i] <= stamp
      BY <3>1, <3>2, <3>3, <3>4, <3>5
    <3> QED BY <2>2, <3>6, <3>7 DEF FedUpToLast
  <2>3. ASSUME NEW t \in GraphThreads, SolveFeedback(t) PROVE FedUpToLast'
    BY <2>1, <2>2, <2>3 DEF SolveFeedback
  <2> QED BY <2>1, <2>3, OutFrame DEF outVars, SolveCorrect, CorrectionThrows
<1> QED BY <1>1, <1>2, Invariance, PTL DEF Spec, FedUpToLast

-----------------------------------------------------------------------------
(* loop_pairs_ is the set of the pairs of loops_: a merge looks its pair up *)
(* and adds the loop under one state_mtx_, whatever the detector returns    *)
(* and whoever scans; and keyframes are never removed.                      *)
THEOREM LoopsAndPairs == Spec => []LoopsMatchPairs
<1>1. Init => LoopsMatchPairs
  BY DEF Init, LoopsMatchPairs
<1>2. IInv /\ LoopsMatchPairs /\ [Next]_vars => LoopsMatchPairs'
  <2> SUFFICES ASSUME IInv, LoopsMatchPairs, [Next]_vars PROVE LoopsMatchPairs'
    OBVIOUS
  <2>0. MapTypeOK /\ ScanTypeOK
    BY DEF IInv, TypeOK
  <2>1. ASSUME UNCHANGED <<loops_, loop_pairs_>>, Len(keyframes_') >= Len(keyframes_),
               Len(keyframes_') \in Nat
        PROVE LoopsMatchPairs'
    <3>1. \A p \in loop_pairs_ : p[2] \in Nat
      BY <2>0 DEF MapTypeOK
    <3> QED BY <2>0, <2>1, <3>1 DEF LoopsMatchPairs, MapTypeOK
  <2>2. ASSUME NEW t \in ScanThreads, MergeEdge(t) PROVE LoopsMatchPairs'
    <3> DEFINE e == Head(edges[t])
    <3>1. UNCHANGED keyframes_
      BY <2>2 DEF MergeEdge
    <3>2. CASE UNCHANGED <<loops_, loop_pairs_>>
      BY <2>0, <2>1, <3>1, <3>2 DEF MapTypeOK
    <3>3. CASE ~Skipped(e) /\ loop_pairs_' = loop_pairs_ \cup {Pair(e)}
               /\ loops_' = Append(loops_, e)
      <4>1. e \in LoopEdge
        BY <2>0, <2>2 DEF ScanTypeOK, MergeEdge
      <4> HIDE DEF e
      <4>2. Pair(e)[1] < Pair(e)[2] /\ Pair(e)[2] <= Len(keyframes_)
        BY <2>0, <3>3, <4>1 DEF Skipped, Pair, LoopEdge, MapTypeOK
      <4>3. Pair(e) \notin loop_pairs_
        BY <3>3 DEF Skipped
      <4>4. /\ DOMAIN loops_ = 1..Len(loops_) /\ Len(loops_) \in Nat
            /\ DOMAIN loops_' = 1..(Len(loops_) + 1)
            /\ loops_'[Len(loops_) + 1] = e
            /\ \A i \in DOMAIN loops_ : loops_'[i] = loops_[i]
        BY <2>0, <3>3, <4>1 DEF MapTypeOK
      <4>5. \A i \in DOMAIN loops_ : Pair(loops_[i]) # Pair(e)
        BY <4>3 DEF LoopsMatchPairs
      <4>6. loop_pairs_' = {Pair(loops_'[i]) : i \in DOMAIN loops_'}
        BY <3>3, <4>4 DEF LoopsMatchPairs
      <4>7. \A i, j \in DOMAIN loops_' :
              Pair(loops_'[i]) = Pair(loops_'[j]) => i = j
        BY <4>4, <4>5 DEF LoopsMatchPairs
      <4>8. \A p \in loop_pairs_' : p[1] < p[2] /\ p[2] <= Len(keyframes_')
        BY <3>1, <3>3, <4>2 DEF LoopsMatchPairs
      <4> QED BY <4>6, <4>7, <4>8 DEF LoopsMatchPairs
    <3> QED BY <2>2, <3>2, <3>3 DEF MergeEdge
  <2>3. CASE UNCHANGED mapVars
    BY <2>0, <2>1, <2>3 DEF mapVars, MapTypeOK
  <2>4. ASSUME NEW f \in FrontEnds, InsertKeyframe(f) PROVE LoopsMatchPairs'
    BY <2>0, <2>1, <2>4 DEF InsertKeyframe, MapTypeOK
  <2>5. ASSUME NEW t \in GraphThreads, SolveCommit(t) PROVE LoopsMatchPairs'
    BY <2>0, <2>1, <2>5 DEF SolveCommit, MapTypeOK
  <2> QED BY <2>2, <2>3, <2>4, <2>5, MapFrame
<1> QED BY <1>1, <1>2, Invariance, PTL DEF Spec

-----------------------------------------------------------------------------
(***************************************************************************)
(* The end of a run of GlobalMap, for every value of its constants: what   *)
(* finalize() leaves has been solved, and its loops have been announced.   *)
(***************************************************************************)
FinalPhases == {"final_scan", "final_scanned", "save", "saved"}
AfterJoins == {"final_solve"} \cup FinalPhases

(* The owner joins the loop closure thread and then the optimizer thread,   *)
(* and works alone from then on; in a pass it is in a solve or in a scan.   *)
ThreadsJoined ==
  /\ finalized_ <=> phase # "running"
  /\ phase \in {"stop_optimizer", "join_optimizer"} \cup AfterJoins => pc["lc"] = "done"
  /\ phase \in AfterJoins => pc["optimizer"] = "done"
  /\ phase \notin {"running", "final_scan", "final_scanned"} => pc["owner"] = "ready"
  /\ phase = "final_scan" => pc["owner"] \in SolveSection \cup {"solve_lock", "ready"}
  /\ phase = "final_scanned" => pc["owner"] \in ScanSection \cup {"scan_lock", "ready"}

LEMMA Joined == ASSUME IInv, ThreadsJoined, [Next]_vars PROVE ThreadsJoined'
<1>0. ControlTypeOK
  BY DEF IInv, TypeOK
<1> USE DEF ThreadsJoined, ControlTypeOK, GoTo, flagVars, controlVars, Threads,
            FinalPhases, AfterJoins, SolveSection, ScanSection
<1>1. ASSUME NEW f \in FrontEnds, InsertKeyframe(f) \/ NotifyInserted(f)
      PROVE ThreadsJoined'
  BY <1>0, <1>1 DEF InsertKeyframe, NotifyInserted
<1>2. CASE AttachGnss \/ AttachGravity \/ Terminated
  BY <1>0, <1>2 DEF AttachGnss, AttachGravity, Terminated, vars
<1>3. CASE OptimizeNow \/ ScanNow \/ FinalizeBegin
  BY <1>0, <1>3 DEF OptimizeNow, ScanNow, FinalizeBegin, CallScan, OwnerIn
<1>4. CASE OptimizerThread \/ LoopCloserThread
  BY <1>0, <1>4 DEF OptimizerThread, OptimizerExit, OptimizerWake, OptimizerTake,
                    LoopCloserThread, LoopCloserExit, LoopCloserScan, CallScan
<1>5. ASSUME NEW t \in GraphThreads, Solve(t) PROVE ThreadsJoined'
  BY <1>0, <1>5 DEF Solve, SolveLock, SolveSnapshot, SolveCommit, SolveFeedback,
                    SolveCorrect, SolveReturn, GraphThreads
<1>6. ASSUME NEW t \in ScanThreads, Scan(t) PROVE ThreadsJoined'
  BY <1>0, <1>6 DEF Scan, ScanLock, ScanTooEarly, ScanSnapshot, ScanAnalyze, ScanMerge,
                    MergeEdge, MergeDone, ScanNotify, ScanReturn, ScanThreads
<1>7. CASE Throws
  BY <1>0, <1>7 DEF Throws, SolveThrows, CorrectionThrows, ScanThrows, SolveReturn,
                    ScanReturn, GraphThreads, ScanThreads
<1>8. CASE Finalize
  BY <1>0, <1>8
     DEF Finalize, StopLoopCloser, JoinLoopCloser, StopOptimizer, JoinOptimizer,
         FinalSolve, FinalScan, FinalScanned, FinalScanSkip, SaveOutputs, CallScan, OwnerIn
<1>9. CASE UNCHANGED vars
  BY <1>0, <1>9 DEF vars
<1> QED BY <1>1, <1>2, <1>3, <1>4, <1>5, <1>6, <1>7, <1>8, <1>9 DEF Next

-----------------------------------------------------------------------------
(* What a step of the end of the run may change of the map and its solves.  *)
endVars == <<mapVars, geoVars, outVars, pc["owner"], phase, solve["owner"],
             merged["owner"], solved, announced, lost, failed>>

(* After the joins the map is closed, and all that goes on is the owner.    *)
LEMMA FinalSteps ==
  ASSUME IInv, ThreadsJoined, phase \in FinalPhases, [Next]_vars
  PROVE  \/ UNCHANGED endVars
         \/ Solve("owner") \/ SolveThrows("owner") \/ CorrectionThrows("owner")
         \/ Scan("owner") \/ ScanThrows("owner")
         \/ FinalScan \/ FinalScanned \/ FinalScanSkip \/ SaveOutputs
<1>1. finalized_ /\ pc["lc"] = "done" /\ pc["optimizer"] = "done"
  BY DEF ThreadsJoined, FinalPhases, AfterJoins
<1>2. ASSUME NEW f \in FrontEnds, InsertKeyframe(f) \/ NotifyInserted(f)
      PROVE UNCHANGED endVars
  BY <1>1, <1>2 DEF InsertKeyframe, AcceptsInput, NotifyInserted, endVars, localVars,
                    scanVars, historyVars
<1>3. CASE AttachGnss \/ AttachGravity \/ OptimizeNow \/ ScanNow \/ FinalizeBegin
           \/ Terminated \/ UNCHANGED vars
  BY <1>1, <1>3 DEF AttachGnss, AttachGravity, AcceptsInput, OptimizeNow, ScanNow,
                    FinalizeBegin, Terminated, OwnerIn, FinalPhases, endVars, vars,
                    controlVars, localVars, scanVars, historyVars
<1>4. CASE OptimizerThread \/ LoopCloserThread
  BY <1>1, <1>4 DEF OptimizerThread, OptimizerExit, OptimizerWake, OptimizerTake,
                    LoopCloserThread, LoopCloserExit, LoopCloserScan
<1>5. ASSUME NEW t \in GraphThreads, Solve(t) \/ SolveThrows(t) \/ CorrectionThrows(t)
      PROVE t = "owner"
  BY <1>1, <1>5 DEF Solve, SolveLock, SolveSnapshot, SolveCommit, SolveFeedback,
                    SolveCorrect, SolveThrows, CorrectionThrows, GraphThreads
<1>6. ASSUME NEW t \in ScanThreads, Scan(t) \/ ScanThrows(t) PROVE t = "owner"
  BY <1>1, <1>6 DEF Scan, ScanLock, ScanTooEarly, ScanSnapshot, ScanAnalyze, ScanMerge,
                    MergeEdge, MergeDone, ScanNotify, ScanThrows, ScanThreads
<1>7. CASE Finalize
  BY <1>7 DEF Finalize, StopLoopCloser, JoinLoopCloser, StopOptimizer, JoinOptimizer,
              FinalSolve, OwnerIn, FinalPhases
<1> QED BY <1>2, <1>3, <1>4, <1>5, <1>6, <1>7 DEF Next, Throws

-----------------------------------------------------------------------------
(* All the loops but the last ones are in the last solve, and nothing else  *)
(* is missing in it.                                                        *)
MapSolved(new) ==
  /\ solved.n = Len(keyframes_)
  /\ solved.loops + new = Len(loops_)
  /\ keyframes_ # <<>> => solved.gnss = gnss /\ solved.gravity = gravity

LoopsAnnounced == local_map_corrections => loops_in_last_correction_ = solved.loops

(* From the write back of its solves on, finalize() has all of the map      *)
(* solved but the loops of the pass it is in.                               *)
FinallySolved ==
  phase \in FinalPhases /\ ~failed =>
    /\ pc["owner"] = "solve_commit" => solve["owner"] = SolveInput
    /\ pc["owner"] \in {"solve_feedback", "solve_correct"} => MapSolved(0)
    /\ phase = "final_scanned" => MapSolved(merged["owner"]) /\ LoopsAnnounced
    /\ phase # "final_scanned" /\ pc["owner"] = "ready" => MapSolved(0) /\ LoopsAnnounced

(* The count of announced loops is what was told of them, or lost, and      *)
(* none of them is new to the poses.                                        *)
AddedUp ==
  /\ announced + lost = loops_in_last_correction_
  /\ loops_in_last_correction_ <= solved.loops

EndInv == ThreadsJoined /\ LoopsMatchPairs /\ AddedUp /\ FinallySolved

LEMMA AddsUp == ASSUME IInv, AddedUp, [Next]_vars PROVE AddedUp'
<1>0. /\ OutTypeOK /\ SolveTypeOK
      /\ \A t \in GraphThreads :
           pc[t] \in {"solve_feedback", "solve_correct"} => solved = solve[t]
  BY DEF IInv, TypeOK, SolveInputsOfMap
<1>1. solved' = solved \/ \E t \in GraphThreads : SolveCommit(t)
  BY SolveFrame DEF SolveSnapshot, SolveCorrect, SolveThrows, CorrectionThrows, historyVars
<1>2. ASSUME NEW t \in GraphThreads, SolveCommit(t) PROVE AddedUp'
  <2>1. solved.loops <= solved'.loops /\ solved.loops \in Nat /\ solved'.loops \in Nat
    BY <1>0, <1>2, CommitOf DEF NoMoreThan, SolveInputs
  <2>2. UNCHANGED <<loops_in_last_correction_, announced, lost>>
    BY <1>2 DEF SolveCommit, outVars
  <2> QED BY <1>0, <2>1, <2>2 DEF AddedUp, OutTypeOK
<1>3. ASSUME NEW t \in GraphThreads, SolveCorrect(t) \/ CorrectionThrows(t) PROVE AddedUp'
  <2>1. solved' = solved /\ solved = solve[t] /\ solved.loops \in Nat
    BY <1>0, <1>3 DEF SolveCorrect, CorrectionThrows, SolveTypeOK, SolveInputs
  <2>2. \/ UNCHANGED <<loops_in_last_correction_, announced, lost>>
        \/ /\ loops_in_last_correction_' = solve[t].loops
           /\ \/ announced' = announced + NewLoops(t) /\ lost' = lost
              \/ announced' = announced /\ lost' = lost + NewLoops(t)
    BY <1>3 DEF SolveCorrect, CorrectionThrows
  <2> QED BY <1>0, <2>1, <2>2 DEF AddedUp, OutTypeOK, NewLoops
<1>4. ASSUME solved' = solved,
             \/ UNCHANGED <<outVars, fused, announced, lost>>
             \/ \E t \in GraphThreads : SolveFeedback(t)
      PROVE AddedUp'
  BY <1>4 DEF AddedUp, outVars, SolveFeedback
<1> QED BY <1>1, <1>2, <1>3, <1>4, OutFrame

(* Before the first keyframe there is nothing to solve.                     *)
LEMMA EmptyMapSolved ==
  ASSUME IInv, LoopsMatchPairs, AddedUp, keyframes_ = <<>>
  PROVE  MapSolved(0) /\ LoopsAnnounced
<1>0. MapTypeOK /\ OutTypeOK /\ SolveTypeOK /\ NoMoreThan(solved, SolveInput)
  BY DEF IInv, TypeOK, SolveInputsOfMap
<1>1. loop_pairs_ = {}
  <2>1. \A p \in loop_pairs_ : p[1] \in Nat /\ p[2] \in Nat
    BY <1>0 DEF MapTypeOK
  <2> QED BY <2>1 DEF LoopsMatchPairs
<1>2. Len(loops_) = 0
  <2>1. DOMAIN loops_ = {}
    BY <1>1 DEF LoopsMatchPairs
  <2> QED BY <1>0, <2>1 DEF MapTypeOK
<1>3. solved.n = 0 /\ solved.loops = 0
  BY <1>0, <1>2 DEF NoMoreThan, SolveInput, SolveTypeOK, SolveInputs
<1> QED BY <1>0, <1>2, <1>3 DEF MapSolved, LoopsAnnounced, AddedUp, OutTypeOK

(* ... and its steps during the solve of a pass.                            *)
LEMMA FinalSolveStep ==
  ASSUME IInv, EndInv, phase \in FinalPhases,
         Solve("owner") \/ SolveThrows("owner") \/ CorrectionThrows("owner")
  PROVE  FinallySolved'
<1>0. /\ ControlTypeOK /\ SolveTypeOK /\ MapTypeOK /\ GeoTypeOK /\ OutTypeOK
      /\ SolveInputsOfMap /\ "owner" \in GraphThreads
      /\ ThreadsJoined /\ FinallySolved /\ AddedUp
  BY DEF IInv, TypeOK, EndInv, GraphThreads
<1>1. phase = "final_scan" /\ phase' = phase
  BY <1>0 DEF ThreadsJoined, FinalPhases, SolveSection, ScanSection, Solve, SolveLock,
    SolveSnapshot, SolveCommit, SolveFeedback, SolveCorrect, SolveThrows, CorrectionThrows
<1> USE DEF GoTo, ControlTypeOK, Threads
<1>2. CASE SolveLock("owner")
  BY <1>0, <1>1, <1>2 DEF SolveLock, FinallySolved
<1>3. CASE SolveSnapshot("owner")
  <2>1. UNCHANGED <<mapVars, geoVars, outVars, solved, failed>>
    BY <1>3 DEF SolveSnapshot, historyVars
  <2>2. CASE keyframes_ = <<>> /\ pc'["owner"] = "ready"
    <3>1. MapSolved(0) /\ LoopsAnnounced
      BY <2>2, EmptyMapSolved DEF EndInv
    <3>2. MapSolved(0)' /\ LoopsAnnounced'
      BY <2>1, <3>1 DEF MapSolved, LoopsAnnounced, mapVars, geoVars, outVars
    <3> QED BY <1>1, <2>2, <3>2 DEF FinallySolved
  <2>3. CASE pc'["owner"] = "solve_commit" /\ solve'["owner"] = SolveInput
    <3>1. SolveInput' = SolveInput
      BY <2>1 DEF SolveInput, mapVars, geoVars
    <3> QED BY <1>1, <2>3, <3>1 DEF FinallySolved
  <2> QED BY <1>0, <1>3, <2>2, <2>3 DEF SolveSnapshot, SolveReturn, SolveTypeOK
<1>4. CASE SolveCommit("owner")
  <2>1. /\ pc["owner"] = "solve_commit" /\ pc'["owner"] = "solve_feedback"
        /\ solved' = solve["owner"]
        /\ UNCHANGED <<keyframes_, loops_, gnss, gravity, failed>>
    BY <1>0, <1>4 DEF SolveCommit, FinallySolved
  <2>2. ~failed => MapSolved(0)'
    BY <1>0, <1>1, <2>1 DEF FinallySolved, FinalPhases, MapSolved, SolveInput, MapTypeOK
  <2> QED BY <1>1, <2>1, <2>2 DEF FinallySolved
<1>5. CASE SolveFeedback("owner")
  <2>1. /\ pc["owner"] = "solve_feedback" /\ pc'["owner"] = "solve_correct"
        /\ UNCHANGED <<mapVars, geoVars, solved, failed>>
    BY <1>0, <1>5 DEF SolveFeedback
  <2>2. ~failed => MapSolved(0)'
    BY <1>0, <1>1, <2>1 DEF FinallySolved, FinalPhases, MapSolved, mapVars, geoVars
  <2> QED BY <1>1, <2>1, <2>2 DEF FinallySolved
<1>6. CASE SolveCorrect("owner")
  <2>1. /\ pc["owner"] = "solve_correct" /\ pc'["owner"] = "ready"
        /\ UNCHANGED <<mapVars, geoVars, solved, failed>>
    BY <1>0, <1>6 DEF SolveCorrect, SolveReturn
  <2>2. ~failed => MapSolved(0)'
    BY <1>0, <1>1, <2>1 DEF FinallySolved, FinalPhases, MapSolved, mapVars, geoVars
  <2>3. solved = solve["owner"] /\ solved.loops \in Nat
    BY <1>0, <2>1 DEF SolveInputsOfMap, SolveTypeOK, SolveInputs
  <2>4. LoopsAnnounced'
    BY <1>0, <1>6, <2>1, <2>3
       DEF SolveCorrect, NewLoops, LoopsAnnounced, AddedUp, OutTypeOK
  <2> QED BY <1>1, <2>1, <2>2, <2>4 DEF FinallySolved
<1>7. CASE SolveThrows("owner") \/ CorrectionThrows("owner")
  <2>1. failed'
    BY <1>1, <1>7 DEF SolveThrows, CorrectionThrows, InFinalSteps
  <2> QED BY <2>1 DEF FinallySolved
<1> QED BY <1>2, <1>3, <1>4, <1>5, <1>6, <1>7 DEF Solve

(* A loop that a pass merges is counted in its result; nothing else of the  *)
(* map changes in it.                                                       *)
LEMMA FinalScanStep ==
  ASSUME IInv, EndInv, phase \in FinalPhases, Scan("owner") \/ ScanThrows("owner")
  PROVE  FinallySolved'
<1>n. [Next]_vars
  BY DEF Next, Throws, ScanThreads
<1>0. /\ ControlTypeOK /\ SolveTypeOK /\ MapTypeOK /\ ScanTypeOK
      /\ ThreadsJoined /\ FinallySolved /\ "owner" \in ScanThreads
  BY DEF IInv, TypeOK, EndInv, ScanThreads
<1>1. phase = "final_scanned" /\ phase' = phase
  <2>1. pc["owner"] \in ScanSection \cup {"scan_lock"}
    BY DEF Scan, ScanLock, ScanTooEarly, ScanSnapshot, ScanAnalyze, ScanMerge, MergeEdge,
      MergeDone, ScanNotify, ScanThrows, ScanSection
  <2>2. phase = "final_scanned"
    BY <1>0, <2>1 DEF ThreadsJoined, FinalPhases, SolveSection, ScanSection
  <2>3. phase' = phase
    BY PhaseFrame, <1>n, <2>1 DEF FinalizeBegin, Finalize, StopLoopCloser, JoinLoopCloser,
      StopOptimizer, JoinOptimizer, FinalSolve, FinalScan, FinalScanned, FinalScanSkip,
      SaveOutputs, OwnerIn, ScanSection
  <2> QED BY <2>2, <2>3
<1>2. CASE ScanThrows("owner")
  <2>1. failed'
    BY <1>1, <1>2 DEF ScanThrows, InFinalSteps
  <2> QED BY <2>1 DEF FinallySolved
<1>3. CASE Scan("owner")
  <2>1. UNCHANGED <<keyframes_, geoVars, outVars, solved, failed>>
    BY <1>3 DEF Scan, ScanLock, ScanTooEarly, ScanSnapshot, ScanAnalyze, ScanMerge,
      MergeEdge, MergeDone, ScanNotify, mapVars, historyVars
  <2>2. \/ UNCHANGED <<loops_, merged>>
        \/ /\ Len(loops_') = Len(loops_) + 1
           /\ merged'["owner"] = merged["owner"] + 1
    <3>1. CASE MergeEdge("owner")
      <4>1. Len(loops_) \in Nat /\ \A e : Len(Append(loops_, e)) = Len(loops_) + 1
        BY <1>0 DEF MapTypeOK
      <4> QED BY <1>0, <3>1, <4>1 DEF MergeEdge, ScanTypeOK
    <3> QED BY <1>3, <3>1 DEF Scan, ScanLock, ScanTooEarly, ScanSnapshot, ScanAnalyze,
            ScanMerge, MergeDone, ScanNotify, ScanReturn, mapVars, localVars, scanVars
  <2>3. ~failed => MapSolved(merged["owner"]) /\ LoopsAnnounced
    BY <1>0, <1>1 DEF FinallySolved, FinalPhases
  <2>4. ~failed => MapSolved(merged["owner"])'
    BY <1>0, <2>1, <2>2, <2>3 DEF MapSolved, geoVars, ScanTypeOK, SolveTypeOK,
      SolveInputs, MapTypeOK
  <2>5. ~failed => LoopsAnnounced'
    BY <2>1, <2>3 DEF LoopsAnnounced, outVars
  <2>6. pc'["owner"] \notin {"solve_commit", "solve_feedback", "solve_correct"}
    BY <1>0, <1>3 DEF Scan, ScanLock, ScanTooEarly, ScanSnapshot, ScanAnalyze, ScanMerge,
      MergeEdge, MergeDone, ScanNotify, ScanReturn, GoTo, ControlTypeOK, controlVars,
      Threads
  <2> QED BY <1>1, <2>1, <2>4, <2>5, <2>6 DEF FinallySolved
<1> QED BY <1>2, <1>3

LEMMA FinalStep == ASSUME IInv, EndInv, [Next]_vars PROVE FinallySolved'
<1>0. /\ ControlTypeOK /\ SolveTypeOK /\ MapTypeOK /\ ScanTypeOK
      /\ ThreadsJoined /\ FinallySolved
  BY DEF IInv, TypeOK, EndInv
<1>1. CASE phase \notin FinalPhases
  <2>1. FinalSolve \/ phase' \notin FinalPhases
    BY <1>1, PhaseFrame
       DEF FinalPhases, FinalizeBegin, Finalize, StopLoopCloser, JoinLoopCloser,
           StopOptimizer, JoinOptimizer, FinalScan, FinalScanned, FinalScanSkip,
           SaveOutputs, OwnerIn
  <2>2. CASE FinalSolve
    BY <1>0, <2>2 DEF FinalSolve, FinallySolved, GoTo, ControlTypeOK, Threads
  <2>3. CASE phase' \notin FinalPhases
    BY <2>3 DEF FinallySolved
  <2> QED BY <2>1, <2>2, <2>3
<1>2. CASE phase \in FinalPhases
  <2>1. ASSUME UNCHANGED endVars PROVE FinallySolved'
    BY <1>0, <2>1 DEF endVars, FinallySolved, MapSolved, LoopsAnnounced, SolveInput,
      mapVars, geoVars, outVars
  <2>2. CASE FinalScan
    <3>1. /\ UNCHANGED <<mapVars, geoVars, outVars, solved, failed>>
          /\ phase = "final_scan" /\ pc["owner"] = "ready"
          /\ phase' = "final_scanned" /\ pc'["owner"] = "scan_lock"
          /\ merged'["owner"] = 0
      BY <1>0, <2>2 DEF FinalScan, CallScan, OwnerIn, GoTo, ControlTypeOK, ScanTypeOK,
                        Threads, ScanThreads, historyVars
    <3>2. ~failed => MapSolved(0) /\ LoopsAnnounced
      BY <1>0, <3>1 DEF FinallySolved, FinalPhases
    <3>3. ~failed => MapSolved(0)' /\ LoopsAnnounced'
      BY <3>1, <3>2 DEF MapSolved, LoopsAnnounced, mapVars, geoVars, outVars
    <3> QED BY <3>1, <3>3 DEF FinallySolved, MapSolved
  <2>3. CASE FinalScanned
    <3>1. /\ UNCHANGED <<mapVars, geoVars, outVars, solved, failed>>
          /\ phase = "final_scanned" /\ pc["owner"] = "ready"
          /\ \/ /\ merged["owner"] = 0 /\ phase' = "save" /\ pc'["owner"] = "ready"
             \/ phase' = "final_scan" /\ pc'["owner"] = "solve_lock"
      BY <1>0, <2>3 DEF FinalScanned, OwnerIn, GoTo, ControlTypeOK, Threads, historyVars
    <3>2. ~failed => MapSolved(merged["owner"]) /\ LoopsAnnounced
      BY <1>0, <3>1 DEF FinallySolved, FinalPhases
    <3>3. ~failed /\ merged["owner"] = 0 => MapSolved(0)' /\ LoopsAnnounced'
      BY <3>1, <3>2 DEF MapSolved, LoopsAnnounced, mapVars, geoVars, outVars
    <3> QED BY <3>1, <3>3 DEF FinallySolved
  <2>4. CASE FinalScanSkip \/ SaveOutputs
    <3>1. /\ UNCHANGED <<mapVars, geoVars, outVars, solved, failed>>
          /\ phase # "final_scanned" /\ pc["owner"] = "ready"
          /\ phase' # "final_scanned" /\ pc'["owner"] = "ready"
      BY <2>4 DEF FinalScanSkip, SaveOutputs, OwnerIn, controlVars, historyVars
    <3>2. ~failed => MapSolved(0) /\ LoopsAnnounced
      BY <1>0, <1>2, <3>1 DEF FinallySolved
    <3>3. ~failed => MapSolved(0)' /\ LoopsAnnounced'
      BY <3>1, <3>2 DEF MapSolved, LoopsAnnounced, mapVars, geoVars, outVars
    <3> QED BY <3>1, <3>3 DEF FinallySolved
  <2> QED BY <1>2, <2>1, <2>2, <2>3, <2>4, FinalSteps, FinalSolveStep, FinalScanStep
          DEF EndInv
<1> QED BY <1>1, <1>2

-----------------------------------------------------------------------------
LEMMA EndInvariance == Spec => []EndInv
<1>1. Init => EndInv
  BY DEF Init, EndInv, ThreadsJoined, LoopsMatchPairs, AddedUp, FinallySolved,
         FinalPhases, AfterJoins, NoSolve
<1>2. IInv /\ LoopsMatchPairs /\ LoopsMatchPairs' /\ EndInv /\ [Next]_vars => EndInv'
  BY Joined, AddsUp, FinalStep DEF EndInv
<1> QED BY <1>1, <1>2, Invariance, LoopsAndPairs, PTL DEF Spec

(* Every keyframe, reading and loop is in the last solve when the outputs   *)
(* are saved, and the loops are announced, unless a final step threw:       *)
(* finalize() in Mapper.cpp.                                                *)
THEOREM OutputsSolved == Spec => []OutputsAreSolved
<1>1. IInv /\ EndInv => OutputsAreSolved
  <2> SUFFICES ASSUME IInv, EndInv, phase = "saved", ~failed PROVE MapSolved(0)
    BY DEF OutputsAreSolved, MapSolved, IInv, TypeOK, SolveTypeOK, SolveInputs
  <2> QED BY DEF EndInv, ThreadsJoined, FinallySolved, FinalPhases, AfterJoins
<1> QED BY <1>1, Invariance, EndInvariance, PTL

(* No loop is announced twice and none is lost without a throw: what the    *)
(* corrections told of adds up, notify_local_map_corrections in Mapper.cpp. *)
THEOREM CorrectionsSum == Spec => []CorrectionsAddUp
<1>1. IInv /\ EndInv => CorrectionsAddUp
  <2> SUFFICES ASSUME IInv, EndInv PROVE CorrectionsAddUp
    OBVIOUS
  <2>1. /\ announced + lost = loops_in_last_correction_
        /\ loops_in_last_correction_ <= solved.loops
    BY DEF EndInv, AddedUp
  <2>2. local_map_corrections /\ phase = "saved" /\ ~failed
          => loops_in_last_correction_ = solved.loops /\ solved.loops = Len(loops_)
    <3>1. MapTypeOK /\ SolveTypeOK
      BY DEF IInv, TypeOK
    <3>2. phase = "saved" /\ ~failed => MapSolved(0) /\ LoopsAnnounced
      BY DEF EndInv, ThreadsJoined, FinallySolved, FinalPhases, AfterJoins
    <3> QED BY <3>1, <3>2 DEF MapSolved, LoopsAnnounced, SolveTypeOK, SolveInputs
  <2> QED BY <2>1, <2>2 DEF CorrectionsAddUp
<1> QED BY <1>1, Invariance, EndInvariance, PTL

-----------------------------------------------------------------------------
(***************************************************************************)
(* The mapper implements the abstract map of KeyframeMap, for every value  *)
(* of its constants.                                                       *)
(***************************************************************************)
absVars == <<keyframes_, pose_in_map, loops_, gnss, gravity, solved,
             geodetic_datum_, finalized_, failed>>

LEMMA Stutter ==
  ASSUME UNCHANGED absVars, (phase = "saved") = (phase' = "saved")
  PROVE  UNCHANGED Map!vars
BY DEF absVars, Map!vars

LEMMA InsertImplements ==
  ASSUME IInv, NEW f \in FrontEnds, InsertKeyframe(f) PROVE Map!Insert
<1>0. MapTypeOK /\ GeoTypeOK
  BY DEF IInv, TypeOK
<1>1. PICK kf \in Keyframe :
        /\ keyframes_ # <<>> => kf.stamp > Last(keyframes_).stamp
        /\ keyframes_' = Append(keyframes_, kf)
        /\ pose_in_map' = Append(pose_in_map, InitialPose(kf))
  BY DEF InsertKeyframe
<1>2. Len(pose_in_map) = Len(keyframes_) /\ Len(keyframes_) \in Nat
  BY <1>0 DEF MapTypeOK, KeyframeIds
<1>3. keyframes_ = <<>> <=> Len(keyframes_) = 0
  BY <1>0 DEF MapTypeOK
<1>4. /\ Len(keyframes_) > 0 => kf.stamp > keyframes_[Len(keyframes_)].stamp
      /\ pose_in_map' = Append(pose_in_map,
           IF Len(keyframes_) = 0 THEN kf.pose_in_source
           ELSE Chained(keyframes_[Len(keyframes_)], pose_in_map[Len(keyframes_)], kf))
  BY <1>1, <1>2, <1>3 DEF InitialPose, Last
<1>5. gnss' >= gnss /\ gravity' >= gravity
  BY <1>0, BoundsAssumption DEF InsertKeyframe, GeoTypeOK
<1>6. /\ ~finalized_
      /\ UNCHANGED <<loops_, solved, geodetic_datum_, finalized_, failed, phase>>
  BY DEF InsertKeyframe, AcceptsInput, historyVars
<1>7. Map!MoreReadings
  BY <1>5 DEF Map!MoreReadings
<1> QED BY <1>1, <1>4, <1>6, <1>7 DEF Map!Insert

LEMMA ObserveImplements ==
  ASSUME IInv, AttachGnss \/ AttachGravity PROVE Map!Observe
<1>0. MapTypeOK /\ GeoTypeOK
  BY DEF IInv, TypeOK
<1>1. gnss' >= gnss /\ gravity' >= gravity
  BY <1>0, BoundsAssumption DEF AttachGnss, AttachGravity, GeoTypeOK
<1>2. /\ ~finalized_
      /\ UNCHANGED <<keyframes_, pose_in_map, loops_, solved, geodetic_datum_, finalized_,
                     failed, phase>>
  BY DEF AttachGnss, AttachGravity, AcceptsInput, mapVars, historyVars, controlVars,
    flagVars
<1> QED BY <1>1, <1>2 DEF Map!Observe, Map!MoreReadings

(* The solved prefix goes forward, and the keyframes behind it are chained. *)
LEMMA ReviseImplements ==
  ASSUME IInv, ThreadsJoined, NEW t \in GraphThreads, SolveCommit(t)
  PROVE  Map!Revise
<1>0. /\ MapTypeOK /\ GeoTypeOK /\ SolveTypeOK
      /\ NoMoreThan(solve[t], SolveInput) /\ solve[t].n >= 1
  BY DEF IInv, TypeOK, SolveInputsOfMap, SolveCommit
<1>1. /\ solved' = solve[t] /\ NoMoreThan(solved, solve[t])
      /\ solve[t] \in SolveInputs /\ solved \in SolveInputs
      /\ solve[t].datum = geodetic_datum_
  BY CommitOf
<1>2. phase # "saved" /\ phase' = phase
  BY DEF ThreadsJoined, AfterJoins, FinalPhases, GraphThreads, SolveCommit
<1>3. UNCHANGED <<keyframes_, loops_, gnss, gravity, finalized_, failed>>
  BY DEF SolveCommit, flagVars
<1>4. /\ pose_in_map' \in [DOMAIN keyframes_ -> Poses]
      /\ \A i \in DOMAIN keyframes_ : i > solved'.n =>
           pose_in_map'[i] = Chained(keyframes_[i - 1], pose_in_map'[i - 1], keyframes_[i])
  BY <1>0, <1>1 DEF SolveCommit, Estimates, KeyframeIds, MapTypeOK
<1>5. geodetic_datum_' \in IF geodetic_datum_ = None THEN Datums \cup {None}
                           ELSE {geodetic_datum_}
  <2>1. PICK datum \in ResultDatums(solve[t]) :
          geodetic_datum_' = IF datum # None THEN datum ELSE geodetic_datum_
    BY DEF SolveCommit
  <2> QED BY <1>0, <1>1, <2>1 DEF ResultDatums, GeoTypeOK
<1>6. /\ solved.n <= solved'.n /\ solved'.n <= Len(keyframes_)
      /\ solved.loops <= solved'.loops /\ solved'.loops <= Len(loops_)
      /\ solved.gnss <= solved'.gnss /\ solved'.gnss <= gnss
      /\ solved.gravity <= solved'.gravity /\ solved'.gravity <= gravity
      /\ solved'.n > 0 /\ solved' \in SolveInputs
  BY <1>0, <1>1 DEF NoMoreThan, SolveInput, SolveInputs
<1>7. [n |-> solved'.n, loops |-> solved'.loops, gnss |-> solved'.gnss,
       gravity |-> solved'.gravity]
        \in [n : solved.n .. Len(keyframes_), loops : solved.loops .. Len(loops_),
             gnss : solved.gnss .. gnss, gravity : solved.gravity .. gravity]
  BY <1>0, <1>1, <1>6 DEF SolveInputs, MapTypeOK, GeoTypeOK
<1> QED BY <1>2, <1>3, <1>4, <1>5, <1>6, <1>7 DEF Map!Revise, Map!Whole

(* A merged loop is between two keyframes that no loop closes.              *)
LEMMA CloseLoopImplements ==
  ASSUME IInv, EndInv, NEW t \in ScanThreads, MergeEdge(t)
  PROVE  Map!CloseLoop \/ UNCHANGED Map!vars
<1> DEFINE e == Head(edges[t])
<1>0. MapTypeOK /\ ScanTypeOK /\ LoopsMatchPairs
  BY DEF IInv, TypeOK, EndInv
<1>1. /\ phase # "saved" /\ phase' = phase
      /\ UNCHANGED <<keyframes_, pose_in_map, gnss, gravity, solved, geodetic_datum_,
                     finalized_, failed>>
  BY DEF EndInv, ThreadsJoined, AfterJoins, FinalPhases, ScanThreads, MergeEdge,
    geoVars, flagVars, historyVars, controlVars
<1>2. CASE UNCHANGED loops_
  BY <1>1, <1>2, Stutter DEF absVars
<1>3. CASE ~Skipped(e) /\ loops_' = Append(loops_, e)
  <2>1. e \in LoopEdge
    BY <1>0 DEF ScanTypeOK, MergeEdge
  <2> HIDE DEF e
  <2>2. /\ e \in [from : DOMAIN keyframes_, to : DOMAIN keyframes_]
        /\ e.from # e.to
    BY <1>0, <1>3, <2>1 DEF Skipped, LoopEdge, MapTypeOK
  <2>3. ASSUME NEW i \in DOMAIN loops_ PROVE Map!Ends(loops_[i]) # Map!Ends(e)
    <3>1. loops_[i] \in LoopEdge
      BY <1>0, <2>3 DEF MapTypeOK
    <3>2. Pair(loops_[i]) # Pair(e)
      BY <1>0, <1>3, <2>3 DEF Skipped, LoopsMatchPairs
    <3>3. Pair(loops_[i])[1] # Pair(e)[1] \/ Pair(loops_[i])[2] # Pair(e)[2]
      BY <3>2 DEF Pair
    <3> QED BY <2>1, <3>1, <3>3 DEF Pair, LoopEdge, Map!Ends
  <2> QED BY <1>1, <1>3, <2>2, <2>3 DEF Map!CloseLoop
<1> QED BY <1>2, <1>3 DEF MergeEdge

LEMMA FailImplements ==
  ASSUME IInv, ThreadsJoined, Throws PROVE Map!Fail \/ UNCHANGED Map!vars
<1>1. /\ UNCHANGED <<keyframes_, pose_in_map, loops_, gnss, gravity, solved,
                     geodetic_datum_, finalized_, phase>>
      /\ failed' = (failed \/ InFinalSteps)
  BY DEF Throws, SolveThrows, CorrectionThrows, ScanThrows, mapVars, geoVars, flagVars
<1>2. CASE UNCHANGED failed
  BY <1>1, <1>2, Stutter DEF absVars
<1>3. CASE failed' # failed
  <2>1. failed \in BOOLEAN
    BY DEF IInv, TypeOK, FlagTypeOK
  <2>2. finalized_ /\ phase # "saved" /\ failed' = TRUE
    BY <1>1, <1>3, <2>1 DEF InFinalSteps, ThreadsJoined
  <2> QED BY <1>1, <2>2 DEF Map!Fail
<1> QED BY <1>2, <1>3

(* The outputs of a run whose final steps did not fail are those of all of  *)
(* its map, solved.                                                         *)
LEMMA SaveImplements == ASSUME IInv, EndInv, SaveOutputs PROVE Map!Save
<1>1. /\ UNCHANGED <<keyframes_, pose_in_map, loops_, gnss, gravity, solved,
                     geodetic_datum_, finalized_, failed>>
      /\ phase = "save" /\ pc["owner"] = "ready" /\ phase' = "saved"
  BY DEF SaveOutputs, OwnerIn, mapVars, geoVars, flagVars, historyVars
<1>2. finalized_
  BY <1>1 DEF EndInv, ThreadsJoined
<1>3. ~failed => MapSolved(0)
  BY <1>1 DEF EndInv, FinallySolved, FinalPhases
<1>4. MapTypeOK /\ SolveTypeOK
  BY DEF IInv, TypeOK
<1>5. \/ failed \/ keyframes_ = <<>>
      \/ /\ solved.n = Len(keyframes_) /\ solved.loops = Len(loops_)
         /\ solved.gnss = gnss /\ solved.gravity = gravity
  BY <1>3, <1>4 DEF MapSolved, SolveTypeOK, SolveInputs, MapTypeOK
<1> QED BY <1>1, <1>2, <1>5 DEF Map!Save, Map!Whole

LEMMA FinalizeImplements ==
  ASSUME IInv, EndInv, FinalizeBegin \/ Finalize
  PROVE  [Map!Next]_(Map!vars)
<1> USE DEF mapVars, geoVars, flagVars, historyVars, absVars
<1>1. CASE FinalizeBegin
  <2>1. /\ UNCHANGED <<keyframes_, pose_in_map, loops_, gnss, gravity, solved,
                       geodetic_datum_, failed>>
        /\ phase = "running" /\ phase' = "stop_lc" /\ finalized_' = TRUE
    BY <1>1 DEF FinalizeBegin, OwnerIn
  <2>2. ~finalized_
    BY <2>1 DEF EndInv, ThreadsJoined
  <2> QED BY <2>1, <2>2 DEF Map!Close, Map!Next
<1>2. CASE StopLoopCloser \/ JoinLoopCloser \/ StopOptimizer \/ JoinOptimizer \/ FinalSolve
  BY <1>2, Stutter DEF StopLoopCloser, JoinLoopCloser, StopOptimizer, JoinOptimizer,
    FinalSolve, OwnerIn
<1>3. CASE FinalScan \/ FinalScanned \/ FinalScanSkip
  BY <1>3, Stutter DEF FinalScan, FinalScanned, FinalScanSkip, OwnerIn
<1>4. CASE SaveOutputs
  BY <1>4, SaveImplements DEF Map!Next
<1> QED BY <1>1, <1>2, <1>3, <1>4 DEF Finalize

LEMMA StepImplements ==
  ASSUME IInv, EndInv, [Next]_vars PROVE [Map!Next]_(Map!vars)
<1>0. ThreadsJoined
  BY DEF EndInv
<1> USE DEF Map!Next
<1>1. ASSUME NEW f \in FrontEnds, InsertKeyframe(f) PROVE [Map!Next]_(Map!vars)
  BY <1>1, InsertImplements
<1>2. ASSUME NEW f \in FrontEnds, NotifyInserted(f) PROVE [Map!Next]_(Map!vars)
  BY <1>2, Stutter DEF NotifyInserted, absVars, mapVars, geoVars, flagVars, historyVars
<1>3. CASE AttachGnss \/ AttachGravity
  BY <1>3, ObserveImplements
<1>4. ASSUME NEW t \in GraphThreads, SolveCommit(t) PROVE [Map!Next]_(Map!vars)
  BY <1>0, <1>4, ReviseImplements
<1>5. ASSUME NEW t \in ScanThreads, MergeEdge(t) PROVE [Map!Next]_(Map!vars)
  BY <1>5, CloseLoopImplements
<1>6. CASE Throws
  BY <1>0, <1>6, FailImplements
<1>7. CASE FinalizeBegin \/ Finalize
  BY <1>7, FinalizeImplements
<1>8. CASE OptimizeNow \/ ScanNow \/ Terminated \/ UNCHANGED vars
  BY <1>8, Stutter DEF OptimizeNow, ScanNow, Terminated, vars, absVars, mapVars, geoVars,
    flagVars, controlVars, historyVars
<1>9. CASE OptimizerThread \/ LoopCloserThread
  BY <1>9, Stutter DEF OptimizerThread, OptimizerExit, OptimizerWake, OptimizerTake,
    LoopCloserThread, LoopCloserExit, LoopCloserScan, absVars, mapVars, geoVars, flagVars,
    controlVars, historyVars
<1>10. ASSUME NEW t \in GraphThreads, Solve(t), ~SolveCommit(t)
       PROVE [Map!Next]_(Map!vars)
  BY <1>10, Stutter DEF Solve, SolveLock, SolveSnapshot, SolveFeedback, SolveCorrect,
    absVars, mapVars, geoVars, flagVars, historyVars, controlVars
<1>11. ASSUME NEW t \in ScanThreads, Scan(t), ~MergeEdge(t)
       PROVE [Map!Next]_(Map!vars)
  BY <1>11, Stutter DEF Scan, ScanLock, ScanTooEarly, ScanSnapshot, ScanAnalyze,
    ScanMerge, MergeDone, ScanNotify, absVars, mapVars, geoVars, flagVars, historyVars,
    controlVars
<1> QED BY <1>1, <1>2, <1>3, <1>4, <1>5, <1>6, <1>7, <1>8, <1>9, <1>10, <1>11 DEF Next

(* Whatever the order of inserts, solves, scans and throws, the map only    *)
(* grows, its solves go forward with the newest keyframes chained behind,   *)
(* and finalize() saves all of it, solved, unless a final step threw.       *)
THEOREM Implements == Spec => KeepsMap
<1>1. Init => Map!Init
  BY DEF Init, Map!Init, Map!Whole, NoSolve
<1>2. IInv /\ EndInv /\ [Next]_vars => [Map!Next]_(Map!vars)
  BY StepImplements
<1> QED BY <1>1, <1>2, Invariance, EndInvariance, PTL DEF Spec, KeepsMap, Map!Spec

-----------------------------------------------------------------------------
(***************************************************************************)
(* No pair of keyframes escapes the loop detector, for every value of the  *)
(* constants of GlobalMap: the incremental scans cover what full scans     *)
(* would, and the passes of finalize() cover the whole map.                *)
(***************************************************************************)
(* The phases before finalize() aborts the running scan.                    *)
EarlyPhases == {"running", "stop_lc"}

AllCovered(n) == \A p \in PairsUpTo(n) : Covered(p)

(* The scans that nothing aborts: those before, and the passes at the end.  *)
Complete(t) == phase \in EarlyPhases \/ (t = "owner" /\ phase = "final_scanned")

ScanCovers(t) ==
  Complete(t) =>
    /\ pc[t] = "scan_analyze" =>
         \A p \in PairsUpTo(snapshot[t].n) : p \in snapshot[t].pairs \/ Covered(p)
    /\ pc[t] \in {"scan_merge", "scan_merging"} => AllCovered(snapshot[t].n)

ForcedPasses ==
  phase = "final_scanned" /\ pc["owner"] \in {"scan_lock", "scan_snapshot"}
    => forceFullScan["owner"]

CoverInv ==
  /\ phase \in EarlyPhases \cup AfterJoins => ~lc_should_exit_
  /\ phase \in EarlyPhases => AllCovered(lc_snapshot_size_at_last_scan_)
  /\ \A t \in ScanThreads : ScanCovers(t)
  /\ ForcedPasses

LEMMA CoveredStays ==
  ASSUME IInv, [Next]_vars, NEW p, Covered(p) PROVE Covered(p)'
<1>1. loop_pairs_ \subseteq loop_pairs_' /\ rejected_loop_pairs_ \subseteq rejected_loop_pairs_'
  BY MapFrame DEF mapVars, InsertKeyframe, SolveCommit, MergeEdge
<1>2. examined \subseteq examined'
  BY ScanFrame DEF LoopCloserScan, ScanNow, FinalScan, ScanTooEarly, ScanSnapshot,
    ScanAnalyze, MergeEdge, MergeDone, ScanNotify, ScanThrows, historyVars
<1> QED BY <1>1, <1>2 DEF Covered

LEMMA AllCoveredStays ==
  ASSUME IInv, [Next]_vars, NEW n, AllCovered(n), NEW m, m = n PROVE AllCovered(m)'
BY CoveredStays DEF AllCovered, PairsUpTo

LEMMA PhaseOrder ==
  ASSUME [Next]_vars
  PROVE  /\ phase' \in EarlyPhases => phase \in EarlyPhases
         /\ phase' = "final_scanned" => phase = "final_scanned" \/ FinalScan
BY PhaseFrame DEF EarlyPhases, FinalizeBegin, Finalize, StopLoopCloser, JoinLoopCloser,
  StopOptimizer, JoinOptimizer, FinalSolve, FinalScan, FinalScanned, FinalScanSkip,
  SaveOutputs, OwnerIn

(* A pass that begins keeps its flag until its snapshot.                    *)
LEMMA ForceFrame ==
  ASSUME IInv, [Next]_vars, ~FinalScan, phase = "final_scanned",
         pc'["owner"] \in {"scan_lock", "scan_snapshot"}
  PROVE  /\ forceFullScan'["owner"] = forceFullScan["owner"]
         /\ pc["owner"] \in {"scan_lock", "scan_snapshot"}
<1>0. ControlTypeOK /\ ScanTypeOK
  BY DEF IInv, TypeOK
<1> USE DEF ControlTypeOK, ScanTypeOK, GoTo, controlVars, localVars, scanVars, Threads,
            ScanThreads
<1>1. ASSUME NEW f \in FrontEnds, InsertKeyframe(f) \/ NotifyInserted(f)
      PROVE UNCHANGED <<pc, forceFullScan>>
  BY <1>1 DEF InsertKeyframe, NotifyInserted
<1>2. CASE AttachGnss \/ AttachGravity \/ Terminated \/ UNCHANGED vars
  BY <1>2 DEF AttachGnss, AttachGravity, Terminated, vars
<1>3. ~(OptimizeNow \/ ScanNow \/ FinalizeBegin)
  BY DEF OptimizeNow, ScanNow, FinalizeBegin, OwnerIn
<1>4. CASE OptimizerThread \/ LoopCloserThread
  BY <1>0, <1>4 DEF OptimizerThread, OptimizerExit, OptimizerWake, OptimizerTake,
                    LoopCloserThread, LoopCloserExit, LoopCloserScan, CallScan
<1>5. ASSUME NEW t \in GraphThreads, Solve(t) \/ SolveThrows(t) \/ CorrectionThrows(t)
      PROVE pc'["owner"] = pc["owner"] /\ forceFullScan'["owner"] = forceFullScan["owner"]
  BY <1>0, <1>5 DEF Solve, SolveLock, SolveSnapshot, SolveCommit, SolveFeedback,
                    SolveCorrect, SolveReturn, SolveThrows, CorrectionThrows, GraphThreads
<1>6. ASSUME NEW t \in ScanThreads, Scan(t) \/ ScanThrows(t)
      PROVE /\ forceFullScan'["owner"] = forceFullScan["owner"]
            /\ pc["owner"] \in {"scan_lock", "scan_snapshot"}
  BY <1>0, <1>6 DEF Scan, ScanLock, ScanTooEarly, ScanSnapshot, ScanAnalyze, ScanMerge,
                    MergeEdge, MergeDone, ScanNotify, ScanThrows, ScanReturn
<1>7. CASE Finalize
  BY <1>0, <1>7 DEF Finalize, StopLoopCloser, JoinLoopCloser, StopOptimizer, JoinOptimizer,
                    FinalSolve, FinalScanned, FinalScanSkip, SaveOutputs, OwnerIn
<1> QED BY <1>1, <1>2, <1>3, <1>4, <1>5, <1>6, <1>7 DEF Next, Throws

(* Where a scan thread goes, and what it takes with it.                     *)
Stays(t) == pc'[t] = pc[t] /\ snapshot'[t] = snapshot[t]
Leaves(t) == pc'[t] \notin {"scan_analyze", "scan_merge", "scan_merging"}

LEMMA ScanPlaces ==
  ASSUME IInv, [Next]_vars, NEW t \in ScanThreads
  PROVE  Stays(t) \/ Leaves(t) \/ ScanSnapshot(t) \/ ScanAnalyze(t) \/ ScanMerge(t)
<1>0. ControlTypeOK /\ ScanTypeOK
  BY DEF IInv, TypeOK
<1> USE DEF ControlTypeOK, ScanTypeOK, Stays, Leaves, GoTo, controlVars, localVars,
            scanVars, Threads, ScanThreads
<1>1. ASSUME NEW f \in FrontEnds, InsertKeyframe(f) \/ NotifyInserted(f)
      PROVE Stays(t)
  BY <1>1 DEF InsertKeyframe, NotifyInserted
<1>2. CASE AttachGnss \/ AttachGravity \/ FinalizeBegin \/ Terminated \/ UNCHANGED vars
  BY <1>2 DEF AttachGnss, AttachGravity, FinalizeBegin, Terminated, vars
<1>3. CASE OptimizeNow \/ ScanNow
  BY <1>0, <1>3 DEF OptimizeNow, ScanNow, CallScan, OwnerIn
<1>4. CASE OptimizerThread \/ LoopCloserThread
  BY <1>0, <1>4 DEF OptimizerThread, OptimizerExit, OptimizerWake, OptimizerTake,
                    LoopCloserThread, LoopCloserExit, LoopCloserScan, CallScan
<1>5. ASSUME NEW u \in GraphThreads, Solve(u) \/ SolveThrows(u) \/ CorrectionThrows(u)
      PROVE Stays(t) \/ Leaves(t)
  BY <1>0, <1>5 DEF Solve, SolveLock, SolveSnapshot, SolveCommit, SolveFeedback,
                    SolveCorrect, SolveReturn, SolveThrows, CorrectionThrows, GraphThreads
<1>6. ASSUME NEW u \in ScanThreads, Scan(u) \/ ScanThrows(u), u # t
      PROVE Stays(t)
  BY <1>0, <1>6 DEF Scan, ScanLock, ScanTooEarly, ScanSnapshot, ScanAnalyze, ScanMerge,
                    MergeEdge, MergeDone, ScanNotify, ScanThrows, ScanReturn
<1>7. CASE ScanLock(t) \/ ScanTooEarly(t) \/ MergeEdge(t) \/ MergeDone(t) \/ ScanNotify(t)
           \/ ScanThrows(t)
  BY <1>0, <1>7 DEF ScanLock, ScanTooEarly, MergeEdge, MergeDone, ScanNotify, ScanThrows,
                    ScanReturn
<1>8. CASE Finalize
  BY <1>0, <1>8 DEF Finalize, StopLoopCloser, JoinLoopCloser, StopOptimizer, JoinOptimizer,
         FinalSolve, FinalScan, FinalScanned, FinalScanSkip, SaveOutputs, CallScan, OwnerIn
<1> QED BY <1>1, <1>2, <1>3, <1>4, <1>5, <1>6, <1>7, <1>8 DEF Next, Throws, Scan

(* A scan reads, at its snapshot, which pairs it has to examine.            *)
LEMMA SnapshotCovers ==
  ASSUME IInv, CoverInv, NEW t \in ScanThreads, ScanSnapshot(t) PROVE ScanCovers(t)'
<1> DEFINE n == Len(keyframes_)
           full == FullScan(forceFullScan[t])
           first == FirstNewKeyframe(full)
<1>n. [Next]_vars
  BY DEF Next, Scan
<1>0. ControlTypeOK /\ ScanTypeOK /\ MapTypeOK /\ CountersTypeOK
  BY DEF IInv, TypeOK
<1>1. phase' = phase /\ UNCHANGED <<loop_pairs_, rejected_loop_pairs_, examined>>
  BY DEF ScanSnapshot, mapVars, historyVars
<1>2. \/ pc'[t] = "ready"
      \/ snapshot'[t] = [n |-> n, pairs |-> PairsToExamine(n, first)]
         /\ pc'[t] = "scan_analyze"
  BY <1>0 DEF ScanSnapshot, ScanReturn, GoTo, ControlTypeOK, ScanTypeOK, Threads,
              ScanThreads
<1>3. ASSUME Complete(t), NEW p \in PairsUpTo(n)
      PROVE  p \in PairsToExamine(n, first) \/ Covered(p)
  <2>1. n \in Nat /\ lc_snapshot_size_at_last_scan_ \in Nat
    BY <1>0 DEF MapTypeOK, CountersTypeOK
  <2>2. p \in (1..n) \X (1..n) /\ p[1] < p[2] /\ p[1] \in Nat /\ p[2] \in Nat
        /\ p[1] >= 1 /\ p[2] >= 1
    BY <1>3, <2>1 DEF PairsUpTo
  <2>3. CASE p[2] > first
    BY <2>2, <2>3 DEF PairsToExamine, Covered
  <2>4. CASE ~(p[2] > first)
    <3>1. ~full /\ first = lc_snapshot_size_at_last_scan_
      BY <2>2, <2>4 DEF FirstNewKeyframe
    <3>2. phase \in EarlyPhases
      BY <1>3, <3>1 DEF Complete, FullScan, CoverInv, ForcedPasses, ScanSnapshot
    <3>3. p \in PairsUpTo(lc_snapshot_size_at_last_scan_)
      <4>1. p = <<p[1], p[2]>>
        BY <2>2
      <4>2. p[1] \in 1..lc_snapshot_size_at_last_scan_
            /\ p[2] \in 1..lc_snapshot_size_at_last_scan_
        BY <2>1, <2>2, <2>4, <3>1
      <4> QED BY <2>2, <4>1, <4>2 DEF PairsUpTo
    <3> QED BY <3>2, <3>3 DEF CoverInv, AllCovered
  <2> QED BY <2>3, <2>4
<1>4. CASE pc'[t] = "ready"
  BY <1>4 DEF ScanCovers
<1>5. CASE snapshot'[t] = [n |-> n, pairs |-> PairsToExamine(n, first)]
           /\ pc'[t] = "scan_analyze"
  <2>1. /\ snapshot'[t].n = n /\ snapshot'[t].pairs = PairsToExamine(n, first)
        /\ Complete(t)' = Complete(t)
        /\ \A p : Covered(p)' = Covered(p)
    BY <1>1, <1>5 DEF Complete, Covered
  <2> HIDE DEF n, first
  <2>2. Complete(t)' => \A p \in PairsUpTo(n) :
                          p \in snapshot'[t].pairs \/ Covered(p)'
    BY <1>3, <2>1
  <2> QED BY <1>5, <2>1, <2>2 DEF ScanCovers, PairsUpTo
<1> QED BY <1>2, <1>4, <1>5

LEMMA AnalyzeCovers ==
  ASSUME IInv, CoverInv, NEW t \in ScanThreads, ScanAnalyze(t) PROVE ScanCovers(t)'
<1>0. ControlTypeOK
  BY DEF IInv, TypeOK
<1>1. /\ pc[t] = "scan_analyze" /\ pc'[t] = "scan_merge" /\ phase' = phase
      /\ UNCHANGED <<loop_pairs_, rejected_loop_pairs_, snapshot, lc_should_exit_>>
  BY <1>0 DEF ScanAnalyze, mapVars, flagVars, GoTo, ControlTypeOK, Threads, ScanThreads
<1>2. Complete(t)' = Complete(t)
  BY <1>1 DEF Complete
<1>3. ASSUME Complete(t) PROVE AllCovered(snapshot[t].n)'
  <2>1. ~lc_should_exit_
    BY <1>3 DEF CoverInv, Complete, AfterJoins, FinalPhases
  <2>2. examined' = examined \cup snapshot[t].pairs
    BY <2>1 DEF ScanAnalyze
  <2>3. \A p \in PairsUpTo(snapshot[t].n) : p \in snapshot[t].pairs \/ Covered(p)
    BY <1>1, <1>3 DEF CoverInv, ScanCovers
  <2> QED BY <1>1, <2>2, <2>3 DEF AllCovered, Covered, PairsUpTo
<1> QED BY <1>1, <1>2, <1>3 DEF ScanCovers

LEMMA ScanStep ==
  ASSUME IInv, CoverInv, [Next]_vars, NEW t \in ScanThreads PROVE ScanCovers(t)'
<1>0. ControlTypeOK /\ ScanCovers(t)
  BY DEF IInv, TypeOK, CoverInv
<1>1. CASE ScanSnapshot(t)
  BY <1>1, SnapshotCovers
<1>2. CASE ScanAnalyze(t)
  BY <1>2, AnalyzeCovers
<1>3. CASE ScanMerge(t)
  <2>1. /\ pc[t] = "scan_merge" /\ pc'[t] = "scan_merging" /\ phase' = phase
        /\ snapshot' = snapshot
    BY <1>0, <1>3 DEF ScanMerge, GoTo, ControlTypeOK, Threads, ScanThreads, localVars,
                      scanVars
  <2>2. Complete(t)' => AllCovered(snapshot[t].n)
    BY <1>0, <2>1 DEF ScanCovers, Complete
  <2>3. Complete(t)' => AllCovered(snapshot[t].n)'
    BY <2>1, <2>2, AllCoveredStays
  <2> QED BY <2>1, <2>3 DEF ScanCovers
<1>4. CASE Stays(t)
  <2>1. Complete(t)' => Complete(t) \/ pc'[t] = "scan_lock"
    BY <1>0, PhaseOrder
       DEF Complete, FinalScan, CallScan, GoTo, ControlTypeOK, Threads
  <2>2. CASE ~Complete(t)
    BY <2>1, <2>2 DEF ScanCovers
  <2>3. CASE Complete(t)
    <3>1. pc'[t] = "scan_analyze" =>
            \A p \in PairsUpTo(snapshot[t].n) : p \in snapshot'[t].pairs \/ Covered(p)'
      BY <1>0, <1>4, <2>3, CoveredStays DEF ScanCovers, Stays
    <3>2. pc'[t] \in {"scan_merge", "scan_merging"} => AllCovered(snapshot[t].n)'
      BY <1>0, <1>4, <2>3, CoveredStays DEF ScanCovers, Stays, AllCovered, PairsUpTo
    <3>3. snapshot'[t].n = snapshot[t].n
      BY <1>4 DEF Stays
    <3> QED BY <3>1, <3>2, <3>3 DEF ScanCovers, AllCovered, PairsUpTo
  <2> QED BY <2>2, <2>3
<1>5. CASE Leaves(t)
  BY <1>5 DEF ScanCovers, Leaves
<1> QED BY <1>1, <1>2, <1>3, <1>4, <1>5, ScanPlaces

LEMMA CoverStep == ASSUME IInv, CoverInv, [Next]_vars PROVE CoverInv'
<1>0. ControlTypeOK /\ ScanTypeOK
  BY DEF IInv, TypeOK
<1>1. phase' \in EarlyPhases \cup AfterJoins => ~lc_should_exit_'
  <2>1. CASE UNCHANGED lc_should_exit_ /\ ~JoinOptimizer
    BY <2>1, PhaseFrame DEF CoverInv, EarlyPhases, AfterJoins, FinalPhases, FinalizeBegin,
       Finalize, StopLoopCloser, JoinLoopCloser, StopOptimizer, FinalSolve,
       FinalScan, FinalScanned, FinalScanSkip, SaveOutputs, OwnerIn
  <2>2. CASE StopLoopCloser
    BY <2>2 DEF StopLoopCloser, EarlyPhases, AfterJoins, FinalPhases
  <2>3. CASE JoinOptimizer
    BY <2>3 DEF JoinOptimizer, AbortCleared
  <2> QED BY <2>1, <2>2, <2>3, AbortFrame
<1>2. phase' \in EarlyPhases => AllCovered(lc_snapshot_size_at_last_scan_)'
  <2> SUFFICES ASSUME phase' \in EarlyPhases
      PROVE AllCovered(lc_snapshot_size_at_last_scan_)'
    OBVIOUS
  <2>1. phase \in EarlyPhases
    BY PhaseOrder
  <2>2. CASE lc_snapshot_size_at_last_scan_' = lc_snapshot_size_at_last_scan_
    BY <2>1, <2>2, CoveredStays DEF CoverInv, AllCovered, PairsUpTo
  <2>3. ASSUME NEW t \in ScanThreads, MergeDone(t)
        PROVE AllCovered(lc_snapshot_size_at_last_scan_)'
    <3>1. pc[t] = "scan_merging" /\ lc_snapshot_size_at_last_scan_' = snapshot[t].n
      BY <2>3 DEF MergeDone
    <3>2. AllCovered(snapshot[t].n)
      BY <2>1, <3>1 DEF CoverInv, ScanCovers, Complete
    <3> QED BY <3>1, <3>2, CoveredStays DEF AllCovered, PairsUpTo
  <2> QED BY <2>2, <2>3, CountersFrame DEF lcVars, ScanSnapshot
<1>3. ForcedPasses'
  <2> SUFFICES ASSUME phase' = "final_scanned", pc'["owner"] \in {"scan_lock", "scan_snapshot"}
      PROVE forceFullScan'["owner"]
    BY DEF ForcedPasses
  <2>1. CASE FinalScan
    BY <1>0, <2>1 DEF FinalScan, CallScan, ScanTypeOK, ScanThreads
  <2>2. CASE ~FinalScan
    <3>1. phase = "final_scanned"
      BY <2>2, PhaseOrder
    <3>2. /\ forceFullScan'["owner"] = forceFullScan["owner"]
          /\ pc["owner"] \in {"scan_lock", "scan_snapshot"}
      BY <2>2, <3>1, ForceFrame
    <3> QED BY <3>1, <3>2 DEF CoverInv, ForcedPasses
  <2> QED BY <2>1, <2>2
<1> QED BY <1>1, <1>2, <1>3, ScanStep DEF CoverInv

LEMMA CoverInvariance == Spec => []CoverInv
<1>1. Init => CoverInv
  BY DEF Init, CoverInv, AllCovered, PairsUpTo, ScanCovers, ForcedPasses, EarlyPhases,
         AfterJoins, FinalPhases, ScanThreads, Threads
<1>2. IInv /\ CoverInv /\ [Next]_vars => CoverInv'
  BY CoverStep
<1> QED BY <1>1, <1>2, Invariance, PTL DEF Spec

(* Full scans and incremental ones alike leave no pair unexamined, whichever*)
(* scans threw in between: run_loop_closure_scan() in MapperLoopClosure.cpp.*)
THEOREM ScansCover == Spec => []ScanCoverage
<1>1. CoverInv => ScanCoverage
  BY DEF CoverInv, ScanCoverage, AllCovered, EarlyPhases
<1> QED BY <1>1, CoverInvariance, PTL

-----------------------------------------------------------------------------
(* A pass looks at all of the closed map, from its snapshot on.             *)
PassCovers ==
  phase = "final_scanned" /\ ~failed =>
    /\ pc["owner"] \in {"scan_analyze", "scan_merge", "scan_merging"} =>
         snapshot["owner"].n = Len(keyframes_)
    /\ pc["owner"] \in {"scan_notify", "ready"} => AllCovered(Len(keyframes_))

(* One pass has covered the map, whatever ends the passes.                  *)
RoundsCover ==
  /\ round > 0 => phase \in FinalPhases
  /\ round > 0 /\ ~failed => AllCovered(Len(keyframes_))

SavedCovered ==
  /\ phase \in {"save", "saved"} /\ ~failed
  /\ loop_closure_enabled /\ loop_closure_finalize_rounds > 0
  => AllCovered(Len(keyframes_))

PassInv == PassCovers /\ RoundsCover /\ SavedCovered

(* The steps of the end of the run keep the keyframes, and what is covered. *)
LEMMA ClosedCovered ==
  ASSUME IInv, ThreadsJoined, [Next]_vars, phase \in FinalPhases
  PROVE  /\ UNCHANGED keyframes_
         /\ AllCovered(Len(keyframes_)) => AllCovered(Len(keyframes_))'
<1>1. finalized_
  BY DEF ThreadsJoined, FinalPhases
<1>2. UNCHANGED keyframes_
  BY <1>1, MapFrame DEF mapVars, InsertKeyframe, AcceptsInput, SolveCommit, MergeEdge
<1> QED BY <1>2, CoveredStays DEF AllCovered, PairsUpTo

(* During a pass the owner does nothing but the scan.                       *)
LEMMA OwnerFrame ==
  ASSUME IInv, ThreadsJoined, [Next]_vars, phase = "final_scanned",
         phase' = "final_scanned"
  PROVE  \/ UNCHANGED <<pc["owner"], snapshot["owner"]>>
         \/ Scan("owner") \/ ScanThrows("owner")
<1>0. pc["lc"] = "done" /\ pc["optimizer"] = "done" /\ pc["owner"] \notin SolveSection
      /\ pc["owner"] # "solve_lock"
  BY DEF ThreadsJoined, AfterJoins, FinalPhases, SolveSection, ScanSection
<1>1. ASSUME NEW f \in FrontEnds, InsertKeyframe(f) \/ NotifyInserted(f)
      PROVE UNCHANGED <<pc, snapshot>>
  BY <1>1 DEF InsertKeyframe, NotifyInserted, localVars, scanVars
<1>2. CASE AttachGnss \/ AttachGravity \/ Terminated \/ UNCHANGED vars
  BY <1>2 DEF AttachGnss, AttachGravity, Terminated, vars, localVars, scanVars, controlVars
<1>3. ~(OptimizeNow \/ ScanNow \/ FinalizeBegin)
  BY DEF OptimizeNow, ScanNow, FinalizeBegin, OwnerIn
<1>4. ~(OptimizerThread \/ LoopCloserThread)
  BY <1>0 DEF OptimizerThread, OptimizerExit, OptimizerWake, OptimizerTake,
              LoopCloserThread, LoopCloserExit, LoopCloserScan
<1>5. ASSUME NEW t \in GraphThreads, Solve(t) \/ SolveThrows(t) \/ CorrectionThrows(t)
      PROVE FALSE
  BY <1>0, <1>5 DEF Solve, SolveLock, SolveSnapshot, SolveCommit, SolveFeedback,
    SolveCorrect, SolveThrows, CorrectionThrows, GraphThreads, SolveSection
<1>6. ASSUME NEW t \in ScanThreads, Scan(t) \/ ScanThrows(t) PROVE t = "owner"
  BY <1>0, <1>6 DEF Scan, ScanLock, ScanTooEarly, ScanSnapshot, ScanAnalyze, ScanMerge,
              MergeEdge, MergeDone, ScanNotify, ScanThrows, ScanThreads
<1>7. ~Finalize
  BY DEF Finalize, StopLoopCloser, JoinLoopCloser, StopOptimizer, JoinOptimizer,
         FinalSolve, FinalScan, FinalScanned, FinalScanSkip, SaveOutputs, OwnerIn
<1> QED BY <1>1, <1>2, <1>3, <1>4, <1>5, <1>6, <1>7 DEF Next, Throws

LEMMA PassStep ==
  ASSUME IInv, EndInv, CoverInv, PassInv, [Next]_vars PROVE PassCovers'
<1> SUFFICES ASSUME phase' = "final_scanned", ~failed' PROVE PassCovers'
  BY DEF PassCovers
<1>0. /\ ControlTypeOK /\ ScanTypeOK /\ MapTypeOK /\ FlagTypeOK /\ ThreadsJoined
      /\ PassCovers /\ "owner" \in ScanThreads
  BY DEF IInv, TypeOK, EndInv, PassInv, ScanThreads
<1>1. CASE FinalScan
  BY <1>0, <1>1 DEF FinalScan, CallScan, GoTo, ControlTypeOK, Threads, PassCovers
<1>2. CASE ~FinalScan
  <2>1. phase = "final_scanned"
    BY <1>2, PhaseOrder
  <2>2. ~failed
    BY <1>0, FailedFrame
  <2>3. /\ UNCHANGED keyframes_
        /\ AllCovered(Len(keyframes_)) => AllCovered(Len(keyframes_))'
    BY <1>0, <2>1, ClosedCovered DEF FinalPhases
  <2>4. CASE ScanSnapshot("owner")
    <3>1. \/ /\ Len(keyframes_) < 2 /\ pc'["owner"] = "ready"
          \/ /\ pc'["owner"] = "scan_analyze"
             /\ snapshot'["owner"].n = Len(keyframes_)
      BY <1>0, <2>4 DEF ScanSnapshot, ScanReturn, GoTo, ControlTypeOK, ScanTypeOK,
                        Threads, ScanThreads
    <3>2. Len(keyframes_) < 2 => AllCovered(Len(keyframes_))
      BY <1>0 DEF AllCovered, PairsUpTo, MapTypeOK
    <3> QED BY <2>3, <3>1, <3>2 DEF PassCovers
  <2>5. CASE ScanTooEarly("owner") \/ ScanThrows("owner")
    BY <2>1, <2>5 DEF ScanTooEarly, ScanThrows, InFinalSteps, CoverInv, ForcedPasses
  <2>6. CASE MergeDone("owner")
    <3>1. AllCovered(Len(keyframes_))
      BY <1>0, <2>1, <2>2, <2>6
         DEF MergeDone, PassCovers, CoverInv, ScanCovers, Complete
    <3>2. pc'["owner"] \in {"scan_notify", "ready"}
      BY <1>0, <2>6 DEF MergeDone, ScanReturn, GoTo, ControlTypeOK, Threads
    <3> QED BY <2>3, <3>1, <3>2 DEF PassCovers
  <2>7. CASE ScanNotify("owner")
    BY <1>0, <2>1, <2>2, <2>3, <2>7
       DEF ScanNotify, ScanReturn, GoTo, ControlTypeOK, Threads, PassCovers
  <2>8. CASE ScanAnalyze("owner") \/ ScanMerge("owner") \/ MergeEdge("owner")
             \/ ScanLock("owner")
    BY <1>0, <2>1, <2>2, <2>3, <2>8
       DEF ScanAnalyze, ScanMerge, MergeEdge, ScanLock, GoTo, ControlTypeOK, Threads,
           PassCovers, scanVars, localVars, controlVars
  <2>9. CASE UNCHANGED <<pc["owner"], snapshot["owner"]>>
    BY <2>1, <2>2, <2>3, <2>9, <1>0 DEF PassCovers
  <2> QED BY <1>0, <1>2, <2>1, <2>4, <2>5, <2>6, <2>7, <2>8, <2>9, OwnerFrame DEF Scan
<1> QED BY <1>1, <1>2

LEMMA RoundsStep ==
  ASSUME IInv, EndInv, CoverInv, PassInv, [Next]_vars
  PROVE  RoundsCover' /\ SavedCovered'
<1>0. /\ ControlTypeOK /\ ThreadsJoined /\ PassCovers /\ RoundsCover /\ SavedCovered
      /\ round \in Nat /\ loop_closure_finalize_rounds \in Nat
  BY ParametersAssumption DEF IInv, TypeOK, EndInv, PassInv, ControlTypeOK
<1>1. failed => failed'
  BY FailedFrame
<1>2. phase \in FinalPhases =>
        /\ phase' \in FinalPhases
        /\ AllCovered(Len(keyframes_)) => AllCovered(Len(keyframes_))'
  BY <1>0, ClosedCovered, PhaseFrame DEF FinalPhases, FinalizeBegin, Finalize,
     StopLoopCloser, JoinLoopCloser, StopOptimizer, JoinOptimizer, FinalSolve, FinalScan,
     FinalScanned, FinalScanSkip, SaveOutputs, OwnerIn
<1>3. CASE FinalScanned
  <2>1. phase \in FinalPhases /\ (~failed => AllCovered(Len(keyframes_)))
    BY <1>0, <1>3 DEF FinalScanned, OwnerIn, PassCovers, FinalPhases
  <2> QED BY <1>1, <1>2, <2>1 DEF RoundsCover, SavedCovered
<1>4. CASE FinalScanSkip
  <2>1. /\ phase \in FinalPhases /\ round' = round
        /\ loop_closure_enabled /\ loop_closure_finalize_rounds > 0 => round > 0
    BY <1>0, <1>4 DEF FinalScanSkip, OwnerIn, FinalPhases
  <2> QED BY <1>0, <1>1, <1>2, <2>1 DEF RoundsCover, SavedCovered
<1>5. CASE ~FinalScanned /\ ~FinalScanSkip
  <2>1. round' = round
    BY <1>5, RoundFrame
  <2>2. phase' \in {"save", "saved"} => phase \in {"save", "saved"}
    BY <1>5, PhaseFrame DEF FinalizeBegin, Finalize, StopLoopCloser, JoinLoopCloser,
       StopOptimizer, JoinOptimizer, FinalSolve, FinalScan, SaveOutputs, OwnerIn
  <2> QED BY <1>0, <1>1, <1>2, <2>1, <2>2 DEF RoundsCover, SavedCovered, FinalPhases
<1> QED BY <1>3, <1>4, <1>5

LEMMA PassInvariance == Spec => []PassInv
<1>1. Init => PassInv
  BY DEF Init, PassInv, PassCovers, RoundsCover, SavedCovered
<1>2. IInv /\ EndInv /\ CoverInv /\ PassInv /\ [Next]_vars => PassInv'
  BY PassStep, RoundsStep DEF PassInv
<1> QED BY <1>1, <1>2, Invariance, EndInvariance, CoverInvariance, PTL DEF Spec

(* What finalize() saves has had every pair of its keyframes examined, also *)
(* when the exit of the scan thread cut its last scan short.                *)
THEOREM FinalScansCover == Spec => []FinalCoverage
<1>1. PassInv => FinalCoverage
  BY DEF PassInv, SavedCovered, FinalCoverage, AllCovered
<1> QED BY <1>1, PassInvariance, PTL
=============================================================================
