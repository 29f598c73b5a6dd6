\* One trade, every dispute round, titles that rotate, late verdicts.
CONSTANTS
    DAY = 2
    HOUR = 1
    MIN_PAY_WINDOW = 1
    TradeIds = {t1}
    Users = {pat, rec, adm, res, plat, att}
    EscrowContract = escrow
    PlatformWallet = plat
    Attestor = att
    Parties = {pat, rec}
    LpWallets = {plat}
    Admins = {adm, pat}
    Resolvers = {res, pat}
    Pauses = {FALSE}
    Flows = {"TopUp", "Withdraw"}
    Amounts = {199}
    LpFees = {250}
    PlatformFees = {500}
    DisputeWindows = {2}
    PayWindows = {1}
    ConfirmWindows = {3}
    TotalWindows = {4}
    EarlyLists <- MCEarlyLists
    Supply = 200
    MaxTime = 8
    MaxCreate = 0
SPECIFICATION Spec
INVARIANTS
    RemedyCeiling
    RemedyFloor
PROPERTIES
    LiabilityIsFinal
    PromptVerdictKeepsGrace
    ImplementsCustody
    NoPartyJudges
    DisputeSpendsASlot
CHECK_DEADLOCK FALSE
