SPECIFICATION Spec
CONSTANTS
  NumJoints = 1
  ActiveJoints = {0}
  kinType = "IDENTITY"
  HomingConfigs <- HomeInPlace
  HOME_DELAY = 1
  Commands = {"ENABLE", "DISABLE", "HOME", "UNHOME", "ABORT", "JOG", "COORD", "FREE", "SET_LINE", "PROBE", "RIGID_TAP", "CLEAR_PROBE_FLAGS"}
  LimitInputs = {{}, {"pos"}}
  HomeSwitchInputs = {FALSE, TRUE}
  FaultInputs = {FALSE, TRUE}
  EnableInputs = {FALSE, TRUE}
  WheelInputs = {{}, {0}}
  ProbeInputs = {FALSE, TRUE}
  FeedInputs = {FALSE, TRUE}
INVARIANT ProbingInCoord
INVARIANT CoordStartsFromCommand
