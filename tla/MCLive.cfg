\* Everything is solved and finalize() returns, when nothing throws.
SPECIFICATION FairSpec
CONSTANTS
  Poses <- MCPoses
  Compose <- MCCompose
  Between <- MCBetween
  NumPoses = 1
  FrontEnds = {f1}
  SourceFrames = {lidar}
  Datums = {}
  MaxStamp = 2
  MaxGnss = 1
  MaxGravity = 0
  MaxEdges = 1
  MayFail = FALSE
  SyncSolves = FALSE
  SyncScans = FALSE
  enable_optimizer_thread = TRUE
  loop_closure_enabled = TRUE
  enable_loop_closure_thread = TRUE
  loop_closure_incremental = FALSE
  loop_closure_odometry_check = FALSE
  loop_closure_full_scan_every_n = 0
  loop_closure_min_new_keyframes = 1
  loop_closure_finalize_rounds = 2
  feedback_to_state_estimator = FALSE
  local_map_corrections = FALSE
PROPERTIES
  EverythingGetsSolved
  FinalizeTerminates
