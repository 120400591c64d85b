SPECIFICATION Spec
CONSTANTS
  NumJoints = 1
  ActiveJoints = {0}
  kinType = "IDENTITY"
  HomingConfigs <- HomeInPlace
  HOME_DELAY = 1
  Commands = {"ENABLE", "COORD", "FREE", "TELEOP", "SET_LINE"}
  LimitInputs = {{}}
  HomeSwitchInputs = {FALSE, TRUE}
  FaultInputs = {FALSE}
  EnableInputs = {TRUE}
  WheelInputs = {{}}
  ProbeInputs = {FALSE}
  FeedInputs = {TRUE}
PROPERTY CoordStartsEmpty
