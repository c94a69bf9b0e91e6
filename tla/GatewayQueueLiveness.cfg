SPECIFICATION FairSpec
CONSTANTS
    Key = {k1}
    Worker = {w1, w2}
    Producer = {p1}
    NoKey = NoKey
    NoEvent = NoEvent
    MaxVersion = 1
    MaxGen = 2
    RequeueCap = 1
    MaxRetries <- Unlimited
    Versioned = TRUE
    HasTransform = TRUE
    HasRetryIf = TRUE
    Forcing = TRUE
    Pruning = FALSE
PROPERTIES ImplementsDesiredState RetryIsDurable StopDrains
CHECK_DEADLOCK FALSE
