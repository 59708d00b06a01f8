SPECIFICATION FairSpec
CONSTANTS
    Events = {1, 2}
    NoEvent = NoEvent
    Ticks = {k1, k2}
    Admins = {a1}
    MaxAttempts = 2
    LostReplies = TRUE
    DbErrors = TRUE
    MaxDelivered = 2
    MaxRetries = 1
    MaxRestarts = 1
INVARIANTS TypeOK PostsMatchRows ProcessingIsOwned
PROPERTY EventSettles
CHECK_DEADLOCK FALSE
