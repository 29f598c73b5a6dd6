CONSTANTS
    \* Realtime
    Sockets = {"s", "t", "u"}
    Joins = {"j", "k"}
    MAX_SOCKETS_PER_ADDRESS = 2
    CONNECT_RATE_LIMIT = 3
    JOIN_ORDER_RATE_LIMIT = 2
    MaxSocketMoves = 5
    \* Settings
    Operators = {"a", "b"}
    Values <- MCValues
    FirstRow <- MCFirst
    Tiers = {"BRONZE", "GOLD"}
    DefaultLimit <- MCDefault
    MAX_DAILY_LIMIT_USDC = 9
    UNIT = 2
    BPS = 100
    DEVIATION = 1
    ChainFee = 2
    ChainWallet = "w"
    Cooldown = 8
    MIN_USABLE_PAY = 1
    MAX_PAY = 5
    MAX_TOTAL = 9
    TAIL = 3
    MaxCommits = 2
    MaxEdits = 1
    \* Prices
    Requests = {"r", "s"}
    SourcePrices = {100, 150}
    FirstPrice = 100
    MarketRows <- MCMarketRows
    FirstMarket <- MCFirstMarket
    MaxAsks = 3
    PRICE_STALE = 1
    DEVIATION_BPS = 200
    CACHE_TTL = 1
    MaxTick = 2
    MaxEditsMade = 1
    MaxFetches = 2
    \* QuoteForm
    Typeable = {0, 2, 4}
    Rates = {1, 2}
    FiatPrices = {7, 8}
    HOLD = 1
    MaxQuotesMade = 2
    MaxQuoteTick = 2
    MaxTyping = 2
    \* Attest
    AttOrders = {"o", "p"}
    AttCalls = {"c", "d"}
    Moments = {1}
    MaxAttestations = 2
    MaxMishaps = 1
    \* Submission
    MaxPresses = 3
    \* Files
    Trades = {"o", "p"}
    Proofs = {"c", "d"}
    Rrns = {"r"}
    RETENTION = 0
    MaxKeys = 3
    MaxTroubles = 1
    MaxDays = 0
    \* Interactive
    Browsers = {"b", "c"}
    LINK_TTL = 2
    TTL = 2
    ABSOLUTE_TTL = 4
    CLAIM_WINDOW = 2
    MaxInstant = 8
    \* Screens
    SIGN_BY = 1
    FUND_BY = 1
    PAY = 2
    CONFIRM = 4
    GRACE = 1
    POST_WINDOW = 1
    MaxClock = 5
    Disputants = {"lp", "resolver"}
SPECIFICATION MCSpec
INVARIANTS
    RoomsFollowRole
    ConfigIsCoherent
    EditHeededWithinTTL
    OrderIsAsReviewed
    AttestationIsRecorded
    PageIsHonest
    ProofIsOnFile
    SessionEndsInADay
    
PROPERTIES
    GoodBackupIsKept
CHECK_DEADLOCK FALSE
