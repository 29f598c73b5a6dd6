\* One trade; one order with one dispute and one crash or failed step.
CONSTANTS
    DAY = 2
    HOUR = 1
    MIN_PAY_WINDOW = 1
    TradeIds = {t1}
    Users = {pat, rec, adm, res, plat, att}
    EscrowContract = escrow
    PlatformWallet = plat
    Attestor = att
    Parties = {pat, rec}
    LpWallets = {plat}
    Admins = {adm, res}
    Resolvers = {adm, res}
    Pauses = {TRUE, FALSE}
    Flows = {"TopUp", "Withdraw"}
    Amounts = {1}
    LpFees = {250}
    PlatformFees = {500}
    DisputeWindows = {1}
    PayWindows = {1}
    ConfirmWindows = {3}
    TotalWindows = {4}
    EarlyLists <- MCEarlyLists
    Supply = 1
    MaxTime = 2
    MaxCreate = 0
    \* the order row
    Calls = {"c"}
    Ops = {"refresh", "expire"}
    Raisers = {"user"}
    Matches = {TRUE}
    MaxTx = 3
    MaxFaults = 1
SPECIFICATION MCFairSpec
PROPERTIES EveryTradeSettles SettlementReachesTheRow
CHECK_DEADLOCK FALSE
