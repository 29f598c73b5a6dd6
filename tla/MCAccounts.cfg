CONSTANTS
    None = None
    \* Opening
    Calls = {"c", "d"}
    Instances = {"i", "j"}
    Persons = {"p", "q"}
    Lps = {"l"}
    Sessions = {"s"}
    Owner <- MCOwner
    Flows = {"TOP_UP", "WITHDRAW"}
    Amounts = {1}
    MinOrder = 1
    MaxOrder = 1
    TIER_THRESHOLDS <- MCThresholds
    DailyLimit <- MCLimit
    Stakes = {1, 2}
    MinStake = 1
    MAX_REF_ATTEMPTS = 2
    MaxQuotes = 2
    MaxLost = 1
    MaxMoves = 2
    \* Kyc
    KycRefs = {"r", "s"}
    KycCalls = {"k", "m"}
    KycInstances = {"i"}
    PersonOf <- MCPersonOf
    Payloads <- MCPayloads
    SessionBudget = 1
    MaxSessions = 2
    MaxMail = 2
    MaxKycMoves = 2
    \* SignIn
    Wallets = {"w", "x", "y"}
    FirstWallets = {"w", "x"}
    SignCalls = {"s", "t"}
    SECOND = 2
    ChallengeTtl = 1
    LINK_CHALLENGE_TTL = 1
    WALLET_CAP = 2
    MaxTime = 3
    MaxChallenges = 2
    MaxLinkChallenges = 1
    MaxPersons = 2
    \* Providers
    Applicants = {"a"}
    LpCalls = {"c", "d"}
    LpOrders = {"o"}
    Forms = {"f", "g"}
    Notes = {"none", "n"}
    MaxLpMoves = 4
SPECIFICATION MCSpec
INVARIANTS
    OrdersAreCovered UnlinkedIsUndone
    FundsNeedApproval AdviceIsTrue
    ChallengeSpentOnce PersonKeepsAWallet
    StoodDownHoldsNothingNew
CHECK_DEADLOCK FALSE
