\* Half seconds; the challenge is good for a whole second.
CONSTANTS
    Wallets = {"w"}
    FirstWallets = {"w"}
    SignCalls = {"s"}
    SECOND = 2
    ChallengeTtl = 1
    LINK_CHALLENGE_TTL = 1
    WALLET_CAP = 2
    MaxTime = 3
    MaxChallenges = 1
    MaxLinkChallenges = 0
    MaxPersons = 1
SPECIFICATION SSpec
INVARIANT LoginIsSingleUse
CHECK_DEADLOCK FALSE
