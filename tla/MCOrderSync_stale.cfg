CONSTANTS
    c1 = c1
    Calls = {c1}
    Ops = {"refresh"}
    Raisers = {"user", "lp"}
    Matches = {TRUE}
    MaxTx = 3
    MaxFaults = 0
SPECIFICATION Spec
PROPERTIES OpenDisputeStaysOpen
CHECK_DEADLOCK FALSE
