\* Two runs save their outputs with the same names, each of which may fail once
\* or be killed; two runs of mola-mapper-reoptimize are in between or after.
SPECIFICATION Spec
CONSTANTS
  Inputs <- MCInputs
  Words = {"odom1", "odom2", "datum", "guess"}
  use_gyro = TRUE
  use_gnss = TRUE
  use_imu_gravity = TRUE
  georef_min_gnss_factors = 2
  max_xyz = 1
  max_xyz_per_100m = 3
  max_ang_deg = 5
  max_ang_deg_per_100m = 3
  MaxSaves = 2
  MaxFailures = 1
INVARIANTS
  LoadsWhatWasSaved
  LoadedIsWellPosed
  ChainFitsOdometry
  FailuresAreContained
  ReoptimizedAgree
  VerdictIgnoresDirection
CHECK_DEADLOCK FALSE
