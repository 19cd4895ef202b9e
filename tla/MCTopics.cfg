\* Two topics: their registry with two windows, or their pickers with one.
CONSTANTS
  Topics = {t1, t2}
  MaxWindows = 2
  Sessions = {s1, s2}
  Dirs = {d1}
  DirOf <- OneDir
  None = None
  MaxEvents = 2
  Events = {"die", "reboot", "dead", "limit", "close", "unbind", "clear", "remote", "pick", "restart", "guess"}
  Threads = {t1, t2}
  NoTopic = None
  MaxTexts = 2
  MaxOpened = 1
SPECIFICATION TopicsSpec
INVARIANTS RegistryAgrees KeptForRecovery FirstPromptOnce
PROPERTY BoundByOwnButton
SYMMETRY Perms
CHECK_DEADLOCK FALSE
