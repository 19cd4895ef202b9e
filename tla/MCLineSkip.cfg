CONSTANTS
  Topics = {t1}
  Transcript <- SharedLine
  RetryLimit = 0
  RefusalLimit = 1
  GroupLimit = 3
  MaxFaults = 0
  MaxNotices = 0
  Events = {"send", "refusal"}
SPECIFICATION Spec
INVARIANT SkippedWasReceived
CHECK_DEADLOCK FALSE
