SPECIFICATION FairSpec
CONSTANTS
  NumJoints = 2
  ActiveJoints = {0, 1}
  kinType = "IDENTITY"
  HomingConfigs <- TwoStepConfigs
  HOME_DELAY = 0
  Commands = {"ENABLE", "DISABLE", "HOME_ALL", "HOME", "ABORT", "COORD"}
  LimitInputs = {{}}
  HomeSwitchInputs = {FALSE, TRUE}
  FaultInputs = {FALSE}
  EnableInputs = {TRUE}
  WheelInputs = {{}}
  ProbeInputs = {FALSE}
  FeedInputs = {TRUE}
INVARIANT SequenceInOrder
PROPERTY HomeAllTerminates
