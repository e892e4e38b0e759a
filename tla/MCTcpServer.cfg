SPECIFICATION Spec
CONSTANTS
    Fds = {1, 2}
    MaxConnections = 2
    Configs <- MCConfigs
INVARIANTS WakeupDue DeferredWithinLimit InterestExact DeliveredToOwner GracefulSendsAll
PROPERTIES KeepsPromise
CHECK_DEADLOCK FALSE
