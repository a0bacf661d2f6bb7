SPECIFICATION FairTimersSpec
CONSTANTS
  Main = "main"
  Handlers = {"lua"}
  Start <- Starts
  Interval = {2, 3}
  DTime = {1, 2}
  MaxTimers = 2
  MaxCalls = 2
  MaxDepth = 4
CHECK_DEADLOCK FALSE
INVARIANTS
  TimersTypeOK
  ClockExact
  OwnIdentifier
PROPERTY
  TimersFire
