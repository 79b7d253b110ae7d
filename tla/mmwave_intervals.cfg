SPECIFICATION Spec
CONSTANTS
    Cars = {c1, c2, c3}
    None = None
    SELECT_TIME = 2
    Graphs <- AnyGraph
    RateTables <- CarRates
    Lookups <- CarLookups
    BEACON_NUM = 3
    RESET = 9
    DATA_TIME = 6
    comm_time = 1
    BEACON_INTERVAL = 1
    PacketNums <- LeftRange
SYMMETRY Symmetry
INVARIANTS TypeOK RecordFound NoDanglingRecord FinishedNotLinked
PROPERTIES DataOnlyFalls
