\* What the comment on dropped images says, of every keyframe.
SPECIFICATION Spec
CONSTANTS
  UseGnss = FALSE
  Cameras = {"front", "rear"}
  KeptCameras = {"rear"}
  gnss_max_time_offset = 0
  image_max_time_offset = 1
  FRONT_END_LAG_MARGIN = 1
  FrontEndLag = 1
  MaxTime = 6
  MaxKeyframes = 3
  MaxReadings = 3
INVARIANTS
  DroppedMissNoKeyframe
CHECK_DEADLOCK FALSE
