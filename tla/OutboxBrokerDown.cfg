\* A dispatch while the broker is away.
CONSTANTS
    Events = {e1}
    Sessions = {s1}
    Scripts = {}
    Limit = 2
    MaxRetries = 0
    MaxRequests = 1
    MaxRefusals = 0
    MaxCrashes = 0
    NoEvent = NoEvent
    Free = Free
SPECIFICATION Spec
INVARIANTS SentIsPublished
CHECK_DEADLOCK FALSE
