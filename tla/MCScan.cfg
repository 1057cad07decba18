\* Fallible scans of the loop closure thread, of the owner and of finalize();
\* a gravity reading that asks for no solve.
SPECIFICATION Spec
CONSTANTS
  Poses <- MCPoses
  Compose <- MCCompose
  Between <- MCBetween
  NumPoses = 1
  FrontEnds = {f1}
  SourceFrames = {lidar}
  Datums = {}
  MaxStamp = 3
  MaxGnss = 0
  MaxGravity = 1
  MaxEdges = 1
  MayFail = TRUE
  SyncSolves = FALSE
  SyncScans = TRUE
  enable_optimizer_thread = FALSE
  loop_closure_enabled = TRUE
  enable_loop_closure_thread = TRUE
  loop_closure_incremental = TRUE
  loop_closure_odometry_check = TRUE
  loop_closure_full_scan_every_n = 1
  loop_closure_min_new_keyframes = 1
  loop_closure_finalize_rounds = 1
  feedback_to_state_estimator = FALSE
  local_map_corrections = FALSE
INVARIANTS
  TypeOK
  OutputsAreSolved
  LoopsMatchPairs
  ScanCoverage
  FinalCoverage
