\* Everything leaves the spool in the end.
CONSTANTS
    r1 = r1
    w1 = w1
    w2 = w2
    None = None
    Routes = {r1}
    Windows = {w1, w2}
    MaxActiveTurns = 2
    MaxPrompts = 2
    QueueLimit = 2
    Events = {"native", "rebind", "discard", "expiry", "send_error"}
SPECIFICATION FairSpec
PROPERTIES SubmittedIsRetired QueuedIsResolved
CHECK_DEADLOCK FALSE
