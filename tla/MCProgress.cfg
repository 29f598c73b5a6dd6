CONSTANTS
    \* Outbox
    Keys = {"a", "b"}
    UnknownKinds = {"b"}
    Drainers = {"i", "j"}
    OUTBOX_MAX_ATTEMPTS = 2
    OUTBOX_BATCH_SIZE = 1
    MaxOutboxCrashes = 1
    MaxTellings = 2
    \* Alerts
    Families = {"d", "n", "c"}
    Watches <- MCWatches
    Sampled = {"d"}
    SAMPLE_LIMIT = 1
    OwnNotice = {"n"}
    UrgentFamilies = {"n", "c"}
    Position <- MCPosition
    TEXT_BUDGET = 1
    URGENT_REMINDER = 3
    REMINDER = 3
    CLEAR_AFTER = 3
    MaxTickFailures = 1
    \* Session
    Accounts = {"a", "b"}
    MaxTokens = 2
    MaxTrouble = 3
    \* Console
    MaxRowChanges = 5
    MaxBeats = 2
SPECIFICATION MCFairSpec
PROPERTIES
    EveryMessageEnds EveryConditionIsTold EveryUserGetsIn DecisionIsShown
CHECK_DEADLOCK FALSE
