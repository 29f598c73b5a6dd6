CONSTANTS
    c1 = c1
    Calls = {c1}
    Ops = {"cancel"}
    Raisers = {"user"}
    Matches = {TRUE}
    MaxTx = 1
    MaxFaults = 0
SPECIFICATION Spec
PROPERTIES SettledRowStaysSettled
CHECK_DEADLOCK FALSE
