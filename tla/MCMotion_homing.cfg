SPECIFICATION FairSpec
CONSTANTS
  NumJoints = 1
  ActiveJoints = {0}
  kinType = "IDENTITY"
  HomingConfigs <- AllConfigs
  HOME_DELAY = 1
  Commands = {"ENABLE", "DISABLE", "HOME", "ABORT", "AXIS_ABORT", "JOG", "COORD", "FREE"}
  LimitInputs = {{}, {"neg"}}
  HomeSwitchInputs = {FALSE, TRUE}
  FaultInputs = {FALSE}
  EnableInputs = {TRUE}
  WheelInputs = {{}, {0}}
  ProbeInputs = {FALSE}
  FeedInputs = {TRUE}
INVARIANT TypeOK
INVARIANT HomedIsReferenced
INVARIANT HomingOwnsLimits
INVARIANT HomingIsReported
PROPERTY NoJogWhileHoming
PROPERTY PauseStartsAfresh
PROPERTY HomingTerminates
