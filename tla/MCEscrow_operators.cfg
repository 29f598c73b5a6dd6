\* The claim that no operator is ever a party to an open trade.
CONSTANTS
    DAY = 2
    HOUR = 1
    MIN_PAY_WINDOW = 1
    TradeIds = {t1}
    Users = {pat, rec, adm, res, plat, att}
    EscrowContract = escrow
    PlatformWallet = plat
    Attestor = att
    Parties = {pat, rec}
    LpWallets = {plat}
    Admins = {pat, rec, adm, res}
    Resolvers = {pat, rec, adm, res}
    Pauses = {TRUE, FALSE}
    Flows = {"TopUp", "Withdraw"}
    Amounts = {199}
    LpFees = {250}
    PlatformFees = {500}
    DisputeWindows = {2}
    PayWindows = {1}
    ConfirmWindows = {3}
    TotalWindows = {4}
    EarlyLists <- NoEarlyLists
    Supply = 200
    MaxTime = 1
    MaxCreate = 0
SPECIFICATION Spec
INVARIANT OperatorsAreNotParties
CHECK_DEADLOCK FALSE
