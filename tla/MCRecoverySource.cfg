CONSTANTS
  Topics = {t1, t2}
  MaxWindows = 2
  Sessions = {s1, s2}
  Dirs = {d1}
  DirOf <- OneDir
  None = None
  MaxEvents = 2
  Events = {"die", "reboot", "dead","unhealthy", "limit", "close", "unbind", "clear", "remote", "pick", "restart", "guess"}
SPECIFICATION Spec
INVARIANT KeptForRecovery
SYMMETRY Perms
CHECK_DEADLOCK FALSE
