\* The export of one shard: batches of two, one retry, events of two days.
SPECIFICATION Spec
CONSTANTS
    BatchSize = 2
    RetryAttempts = 1
    MaxRecords = 3
    LastDay = 1
    Undated = Undated
INVARIANTS
    TypeOK
    NoHealthyEventLost
    OneObjectPerEvent
PROPERTIES
    GivenUpAfterRetries
    ShardAdvances
    HealthyEventsArrive
CHECK_DEADLOCK FALSE
