SPECIFICATION Spec
CONSTANTS
    Cars = {c1, c2, c3, c4}
    None = None
    Protocol = "random"
    SELECT_TIME = 3
    magic_number = 1
    MatchIds = {1}
    Graphs <- AnyGraph
    RateTables <- OneRate
SYMMETRY Symmetry
INVARIANTS PartnerKnown RoundSymmetric IsolatedPairLinks
PROPERTIES LinksStay MatchingHolds
CHECK_DEADLOCK FALSE
