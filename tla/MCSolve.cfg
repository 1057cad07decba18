\* Fallible solves of the optimizer thread, of the owner and of finalize(), with
\* the scans of the owner adding loops meanwhile.
SPECIFICATION Spec
CONSTANTS
  Poses <- MCPoses
  Compose <- MCCompose
  Between <- MCBetween
  NumPoses = 1
  FrontEnds = {f1}
  SourceFrames = {lidar}
  Datums = {}
  MaxStamp = 3
  MaxGnss = 0
  MaxGravity = 0
  MaxEdges = 1
  MayFail = TRUE
  SyncSolves = TRUE
  SyncScans = TRUE
  enable_optimizer_thread = TRUE
  loop_closure_enabled = TRUE
  enable_loop_closure_thread = FALSE
  loop_closure_incremental = FALSE
  loop_closure_odometry_check = FALSE
  loop_closure_full_scan_every_n = 0
  loop_closure_min_new_keyframes = 1
  loop_closure_finalize_rounds = 2
  feedback_to_state_estimator = FALSE
  local_map_corrections = TRUE
INVARIANTS
  CorrectionsAddUp
  OutputsAreSolved
PROPERTIES
  KeepsMap
