\* One topic, window and worker per part; two targets, runners, issues and windows
\* where they compete.
CONSTANTS
  BubbleTexts = {"think", "footer"}
  Working = "think"
  MaxRoutes = 2
  MaxRuns = 1
  MaxContents = 1
  BubbleFaults = 1
  Targets <- TwoTargets
  OpenIssues = {"i1", "i2"}
  MaxStamp = 3
  BridgeFaults = 2
  Runners <- TwoRunners
  Grace = 2
  MaxTime = 5
  RunnerFaults = 1
  Windows = {"w1", "w2"}
  Delays = 2
  MaxInputs = 2
  MaxFaults = 3
  ChoiceWindows = {"w1", "w2"}
  Messages = {1, 2, 3}
  MaxPending = 2
  MaxDisturbances = 2
  HealthIssues = {"memory", "disk"}
  Cooldown = 3
  Stable = 2
  HealthFaults = 2
  Interval = 3
  Deadline = 2
  MaxPushes = 2
  UpdateFaults = 2
  MaxMessages = 4
  NodeFaults = 3
SPECIFICATION ServicesSpec
INVARIANTS NoStray RetriedOnce ScheduledHasTask ChosenOnce RecoveryIsTrue NoGap
PROPERTIES BubbleEnds RepeatsOnlyAfterFault StopsOnlyIdle EventuallyRuns Resubscribes
\* A behaviour may use up its bounds: nobody types, no issue is edited.
CHECK_DEADLOCK FALSE
