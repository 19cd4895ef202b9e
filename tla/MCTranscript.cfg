CONSTANTS
  Topics = {t1}
  Transcript <- OnePerLine
  RetryLimit = 1
  RefusalLimit = 2
  GroupLimit = 3
  MaxFaults = 2
  MaxNotices = 1
  Events = {"timeout", "slow", "send", "flood", "refusal", "rebind", "stop", "grace", "crash"}
SPECIFICATION LiveSpec
INVARIANTS NothingLost InOrder AwaitedIsQueued OnlyFaultsRepeat
PROPERTY EveryLineArrives
CHECK_DEADLOCK FALSE
