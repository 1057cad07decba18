\* Keyframes of two source frames and a GNSS reading against two threads that
\* solve and finalize(), without loop closure.
SPECIFICATION Spec
CONSTANTS
  Poses <- MCPoses
  Compose <- MCCompose
  Between <- MCBetween
  NumPoses = 2
  FrontEnds = {f1}
  SourceFrames = {lidar, camera}
  Datums = {d1, d2}
  MaxStamp = 3
  MaxGnss = 1
  MaxGravity = 0
  MaxEdges = 0
  MayFail = FALSE
  SyncSolves = TRUE
  SyncScans = FALSE
  enable_optimizer_thread = TRUE
  loop_closure_enabled = FALSE
  enable_loop_closure_thread = FALSE
  loop_closure_incremental = FALSE
  loop_closure_odometry_check = FALSE
  loop_closure_full_scan_every_n = 0
  loop_closure_min_new_keyframes = 1
  loop_closure_finalize_rounds = 0
  feedback_to_state_estimator = TRUE
  local_map_corrections = FALSE
SYMMETRY MCSymmetry
INVARIANTS
  TailChained
  GeorefOnDatum
  FedOnceInOrder
PROPERTIES
  DatumNeverMoves
