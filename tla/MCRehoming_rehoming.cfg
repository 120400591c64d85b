SPECIFICATION RehomingSpec
CONSTANTS
  NumJoints = 2
  ActiveJoints = {0, 1}
  kinType = "INVERSE_ONLY"
  HomingConfigs <- TwoInPlace
  HOME_DELAY = 0
  Commands = {"ENABLE", "HOME", "JOG", "COORD", "FREE", "SET_LINE", "PROBE", "DISABLE", "ABORT", "TELEOP", "SET_TELEOP_VECTOR", "UNHOME"}
  LimitInputs = {{}}
  HomeSwitchInputs = {FALSE}
  FaultInputs = {FALSE}
  EnableInputs = {TRUE}
  WheelInputs = {{}, {1}}
  ProbeInputs = {FALSE}
  FeedInputs = {TRUE}
PROPERTY CoordNeedsRehoming
