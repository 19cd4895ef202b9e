\* Crashes, stops, restarts, lost windows and failing tasks.
CONSTANTS
    r1 = r1
    w1 = w1
    w2 = w2
    None = None
    Routes = {r1}
    Windows = {w1, w2}
    MaxActiveTurns = 1
    MaxPrompts = 3
    QueueLimit = 2
    Events = {"native", "rebind", "restart", "stop", "agent_failure", "refresh_error"}
SPECIFICATION Spec
INVARIANTS AtMostOnce ReservationIsUsed
PROPERTIES DeliversPrompts
CHECK_DEADLOCK FALSE
