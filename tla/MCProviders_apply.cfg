CONSTANTS
    Applicants = {"a"}
    LpCalls = {"c", "d"}
    LpOrders = {"o"}
    Forms = {"f", "g"}
    Notes = {"none", "n"}
    MaxLpMoves = 5
SPECIFICATION LpSpec
INVARIANT SanctionOutlivesApplication
CHECK_DEADLOCK FALSE
