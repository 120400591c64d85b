SPECIFICATION Spec
CONSTANTS
  NumJoints = 1
  ActiveJoints = {0}
  kinType = "IDENTITY"
  HomingConfigs <- SearchConfigs
  HOME_DELAY = 1
  Commands = {"ENABLE", "HOME"}
  LimitInputs = {{}}
  HomeSwitchInputs = {FALSE, TRUE}
  FaultInputs = {FALSE}
  EnableInputs = {TRUE}
  WheelInputs = {{}}
  ProbeInputs = {FALSE}
  FeedInputs = {TRUE}
INVARIANT LimitsCheckedAfterHoming
