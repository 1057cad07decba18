\* Readings of two IMUs, in any order, and keyframes ahead of them or behind.
SPECIFICATION Spec
CONSTANTS
  a = a
  b = b
  GyroImus = {a, b}
  GravityImus = {a, b}
  gyro_max_gap = 2
  GYRO_KEEP = 3
  imu_gravity_window = 2
  imu_gravity_min_samples = 2
  GRAVITY_KEEP = 1
  FrontEndLag = 1
  MaxTime = 5
  MaxKeyframes = 2
  MaxReadings = 4
INVARIANTS
  GravityComplete
  GravityWaits
PROPERTIES
  RotationFromReadings
SYMMETRY ImuSymmetry
CHECK_DEADLOCK FALSE
