SPECIFICATION Spec
CONSTANTS
    Cars = {c1, c2, c3, c4}
    None = None
    Protocol = "comnet"
    SELECT_TIME = 4
    magic_number = 2
    MatchIds = {1, 2}
    Graphs <- AllKnown
    RateTables <- SharedRates
SYMMETRY Symmetry
INVARIANTS RoundSymmetric NoNullRead
PROPERTIES LinksNeverFewer ThroughputNeverDrops MatchingHolds
CHECK_DEADLOCK FALSE
