SPECIFICATION RehomingSpec
CONSTANTS
  NumJoints = 2
  ActiveJoints = {0, 1}
  kinType = "INVERSE_ONLY"
  HomingConfigs <- TwoInPlace
  HOME_DELAY = 0
  Commands = {"ENABLE", "HOME", "JOG", "COORD", "FREE", "RIGID_TAP"}
  LimitInputs = {{}}
  HomeSwitchInputs = {FALSE}
  FaultInputs = {FALSE}
  EnableInputs = {TRUE}
  WheelInputs = {{}}
  ProbeInputs = {FALSE}
  FeedInputs = {TRUE}
INVARIANT TravelIsMarked
