CONSTANTS
    Calls = {"c"}
    Ops = {"refresh"}
    Raisers = {"user"}
    Matches = {TRUE}
    MaxTx = 5
    MaxFaults = 1
SPECIFICATION MCSpec
INVARIANTS
    SettlementIsTrue BoundOnceSeen RowIsNotAheadOfChain LossCountedOnce LatestVerdictShown
CHECK_DEADLOCK FALSE
