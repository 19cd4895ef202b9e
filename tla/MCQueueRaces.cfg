\* One topic, two windows, three prompts: drains, handlers, discards and rebinds race.
CONSTANTS
    r1 = r1
    w1 = w1
    w2 = w2
    None = None
    Routes = {r1}
    Windows = {w1, w2}
    MaxActiveTurns = 1
    MaxPrompts = 3
    QueueLimit = 2
    Events = {"native", "discard", "rebind", "expiry", "send_error", "store"}
SPECIFICATION Spec
INVARIANTS TypeOK SubmittedIsWatched QueuedIsHeld HeldIsStored HeldHasDrain PendingCoversQueue
PROPERTIES InOrder
CHECK_DEADLOCK FALSE
