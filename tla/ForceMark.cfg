SPECIFICATION Spec
CONSTANTS
    Key = {k1}
    Worker = {w1}
    Producer = {p1}
    NoKey = NoKey
    NoEvent = NoEvent
    MaxVersion = 1
    MaxGen = 2
    RequeueCap = 1
    MaxRetries <- Unlimited
    Versioned = TRUE
    HasTransform = TRUE
    HasRetryIf = FALSE
    Forcing = TRUE
    Pruning = TRUE
PROPERTY ForceConsumedByAttempt
CHECK_DEADLOCK FALSE
