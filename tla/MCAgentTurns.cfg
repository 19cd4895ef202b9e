\* Two topics, one turn slot, a poller that sees old panes and hibernates.
CONSTANTS
    r1 = r1
    r2 = r2
    w1 = w1
    w2 = w2
    None = None
    Routes = {r1, r2}
    Windows = {w1, w2}
    MaxActiveTurns = 1
    MaxPrompts = 2
    QueueLimit = 2
    Events = {"slow_capture", "hibernate", "agent_failure"}
SPECIFICATION TurnSpec
INVARIANTS DispatchesWithinLimit
PROPERTIES HibernatesOnlyIdle
