\* One trade and one staking party; the shortest cool-down the contract accepts.
\* A stake comes in halves of the trade, so that a slash may span what is staked
\* and what is unbonding.
\* Two deposits of two sizes between three users, one of them the platform.
CONSTANTS
    DAY = 1
    HOUR = 1
    MIN_PAY_WINDOW = 1
    TradeIds = {t1}
    Users = {pat, rec, adm, res, plat, att, bonds}
    EscrowContract = escrow
    PlatformWallet = plat
    Attestor = att
    Parties = {pat, rec}
    LpWallets = {pat}
    Admins = {adm}
    Resolvers = {res}
    Pauses = {FALSE}
    Flows = {"TopUp"}
    Amounts = {2}
    LpFees = {0}
    PlatformFees = {0}
    DisputeWindows = {1}
    PayWindows = {1}
    ConfirmWindows = {2}
    TotalWindows = {3}
    EarlyLists <- MCEarlyLists
    Supply = 2
    MaxTime = 4
    MaxCreate = 0
    StakingContract = bonds
    Lps = {pat}
    StakingOperators = {res}
    StakeAmounts = {1}
    MinStakes = {1}
    Cooldowns = {4, 5}
    VaultTrades = {t1, t2}
    VaultUsers = {pat, rec, plat}
    VaultAmounts = {40, 199}
    VaultLpFees = {250}
    VaultPlatformFee = 500
    VaultSupply = 240
SPECIFICATION MCSpec
INVARIANTS
    BondOutlivesRemedy
    BondsAreFunded
    SlashIsJustified
    HeldInFull
PROPERTIES
    FilingStands
CHECK_DEADLOCK FALSE
