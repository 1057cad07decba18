\* What the comment on the second try says.
SPECIFICATION Spec
CONSTANTS
  a = a
  b = b
  GyroImus = {}
  GravityImus = {a, b}
  gyro_max_gap = 2
  GYRO_KEEP = 0
  imu_gravity_window = 2
  imu_gravity_min_samples = 2
  GRAVITY_KEEP = 1
  FrontEndLag = 1
  MaxTime = 6
  MaxKeyframes = 2
  MaxReadings = 5
INVARIANTS
  WholeWindowAveraged
SYMMETRY ImuSymmetry
CHECK_DEADLOCK FALSE
