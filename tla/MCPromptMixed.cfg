\* The first prompt of one topic while the window of another is created.
CONSTANTS
  t1 = t1
  t2 = t2
  Threads = {t1, t2}
  NoTopic = NoTopic
  MaxTexts = 2
  MaxOpened = 2
SPECIFICATION PickersSpec
INVARIANT PromptReachesItsTopic
CHECK_DEADLOCK FALSE
