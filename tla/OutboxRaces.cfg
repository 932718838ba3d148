\* A request over HTTP beside the replay script, three requests in all, two failed sends of each event
\* and a kill of the process.
CONSTANTS
    Events = {e1, e2}
    Sessions = {s1, s2}
    Scripts = {s2}
    Limit = 2
    MaxRetries = 1
    MaxRequests = 3
    MaxRefusals = 2
    MaxCrashes = 1
    NoEvent = NoEvent
    Free = Free
SPECIFICATION FairSpec
INVARIANTS TypeOK ResendHasACause GivenUpAfterRetries
PROPERTIES ImplementsEventDelivery RequestsEnd
CHECK_DEADLOCK FALSE
