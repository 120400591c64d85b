SPECIFICATION Spec
CONSTANTS
  NumJoints = 1
  ActiveJoints = {0}
  kinType = "INVERSE_ONLY"
  HomingConfigs <- HomeInPlace
  HOME_DELAY = 1
  Commands = {"ENABLE", "DISABLE", "HOME", "COORD", "SET_LINE"}
  LimitInputs = {{}}
  HomeSwitchInputs = {FALSE, TRUE}
  FaultInputs = {FALSE}
  EnableInputs = {TRUE}
  WheelInputs = {{}}
  ProbeInputs = {FALSE}
  FeedInputs = {TRUE}
PROPERTY EnableStartsInFree
