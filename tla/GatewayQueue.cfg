SPECIFICATION Spec
CONSTANTS
    Key = {k1}
    Worker = {w1, w2}
    Producer = {p1, p2}
    NoKey = NoKey
    NoEvent = NoEvent
    MaxVersion = 2
    MaxGen = 2
    RequeueCap = 1
    MaxRetries <- Unlimited
    Versioned = TRUE
    HasTransform = TRUE
    HasRetryIf = FALSE
    Forcing = TRUE
    Pruning = TRUE
SYMMETRY Interchangeable
INVARIANTS TypeOK Serialized NoLostWork ForceNeverStranded BackoffHasRetry NoHandleInBackoff PreservedNotTransformed
PROPERTIES DeleteIsTerminal CompactsOnlyHandled
CHECK_DEADLOCK FALSE
