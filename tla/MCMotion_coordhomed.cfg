SPECIFICATION Spec
CONSTANTS
  NumJoints = 1
  ActiveJoints = {0}
  kinType = "BOTH"
  HomingConfigs <- HomeInPlace
  HOME_DELAY = 1
  Commands = {"ENABLE", "HOME", "UNHOME", "COORD"}
  LimitInputs = {{}}
  HomeSwitchInputs = {FALSE, TRUE}
  FaultInputs = {FALSE}
  EnableInputs = {TRUE}
  WheelInputs = {{}}
  ProbeInputs = {FALSE}
  FeedInputs = {TRUE}
PROPERTY CoordNeedsHomed
