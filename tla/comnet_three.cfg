SPECIFICATION Spec
CONSTANTS
    Cars = {c1, c2, c3}
    None = None
    Protocol = "comnet"
    SELECT_TIME = 3
    magic_number = 3
    MatchIds = {1, 2}
    Graphs <- AnyGraph
    RateTables <- OwnRates
SYMMETRY Symmetry
INVARIANTS TypeOK PartnerKnown IsolatedPairLinks
PROPERTIES RateNeverDrops
CHECK_DEADLOCK FALSE
