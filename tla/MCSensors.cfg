\* GNSS readings in any order and the images of two cameras, with keyframes
\* that come late.
SPECIFICATION Spec
CONSTANTS
  UseGnss = TRUE
  Cameras = {"front", "rear"}
  KeptCameras = {"rear"}
  gnss_max_time_offset = 2
  image_max_time_offset = 2
  FRONT_END_LAG_MARGIN = 1
  FrontEndLag = 1
  MaxTime = 6
  MaxKeyframes = 3
  MaxReadings = 3
INVARIANTS
  NearestAttached
  GnssWaits
  DroppedMissNoNewKeyframe
  OutputsHaveFiles
PROPERTIES
  WrittenIsFinal
CHECK_DEADLOCK FALSE
