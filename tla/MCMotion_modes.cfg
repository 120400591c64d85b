SPECIFICATION Spec
CONSTANTS
  NumJoints = 1
  ActiveJoints = {0}
  kinType = "INVERSE_ONLY"
  HomingConfigs <- HomeInPlace
  HOME_DELAY = 1
  Commands = {"ENABLE", "DISABLE", "HOME", "ABORT", "JOG", "COORD", "FREE", "TELEOP", "OVERRIDE_LIMITS", "SET_LINE", "SET_TELEOP_VECTOR"}
  LimitInputs = {{}, {"neg"}}
  HomeSwitchInputs = {FALSE, TRUE}
  FaultInputs = {FALSE}
  EnableInputs = {TRUE}
  WheelInputs = {{}, {0}}
  ProbeInputs = {FALSE}
  FeedInputs = {TRUE}
INVARIANT OneJogSource
INVARIANT OverrideEndsWithMove
INVARIANT JogForgetsHome
PROPERTY LeavesFreeAtRest
