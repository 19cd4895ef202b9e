\* Three updates of two topics, two at a time, with crashes and a store that fails.
CONSTANTS
    k1 = k1
    k2 = k2
    None = None
    Topics = {k1, k2}
    MaxUpdates = 3
    MaxConcurrent = 2
    Failures = {"crash", "store", "raise"}
SPECIFICATION FairSpec
INVARIANTS OneAtATime RegistryCounts
PROPERTIES TopicOrder SkippedWasHandled CompletedIsSkipped DeliveredIsProcessed
CHECK_DEADLOCK FALSE
