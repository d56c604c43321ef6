SPECIFICATION FairSpec
CONSTANTS
  Profiles = {"f"}
  K = 2
  Knob <- MCKnob
  Params <- MCParams
  NotANumber = NotANumber
  Edits <- MCEdits
  Down <- MCDown
  Up <- MCUp
  Cap = 1
  Bottom <- MCBottom
  Floor = 0
  HandoffCap = 1
  ArmN = 2
  ArmMax = 4
  MonitorN = 2
  Wait = 1
  StartLevel <- MCStartLevel
  ReopenLevel = 1
  TopLevel = 1
  NoProfile = "none"
INVARIANTS TypeOK BaselineBehindProbe WatchesIffDone
PROPERTIES CandidateNotBaseline TrialIsJudged
CHECK_DEADLOCK FALSE
