SPECIFICATION Spec
CONSTANTS
    Event <- MCEvent
    exprStartAt = 1
    exprEndAt = 6
    slotSize = 2
    Nodes <- MCNodes
    Pkgs <- MCPkgs
    Configs <- MCConfigs
    ContactTables <- MCTables
    Traffics <- MCTraffics
    Estimates <- MCEstimates
    pkgSize = 1
    neighborThreshold = 1
INVARIANTS TypeOK StorageConsistent SingleCopy SentIsDelivered ForemostDelivery
PROPERTIES LostOnlyWhenFull HandedOverOnce PromiseKept ConsumedInOrder MeetingDelivers
CHECK_DEADLOCK FALSE
