------------------------------- MODULE Staking -------------------------------
(***************************************************************************)
(* The staking contract, contracts/staking/src/lib.rs: the bonds liquidity *)
(* providers post, and the slashing that compensates the victim of a       *)
(* settlement the escrow's resolver overturned.                            *)
(*                                                                         *)
(* The contract reads the escrow's dispute_view of a trade; here that      *)
(* reading is the variable `views', a function on the trades the escrow    *)
(* knows, which EscrowStaking ties to the escrow's own state.  The token   *)
(* balances and the clock are shared with it.                              *)
(***************************************************************************)
EXTENDS Integers

CONSTANTS
    DAY, TradeIds,
    StakingContract,            \* the contract's own address
    Users,
    Lps,                        \* addresses that stake
    StakingOperators,           \* candidates for admin and resolver
    Pauses,                     \* candidates for Config.paused
    StakeAmounts,               \* amounts callers pass to stake and request_unstake
    MinStakes, Cooldowns        \* candidates for the Config fields of that name

MAX_COOLDOWN_SECS == 90 * DAY

\* Variant: a cool-down equal to the longest remedy, a tie decided by order.
MIN_COOLDOWN_SECS_tie == 4 * DAY

MIN_COOLDOWN_SECS == 4 * DAY + 1

VARIABLES
    scfg,       \* the contract's Config
    stakes,     \* StakeInfo of every address
    slashed,    \* total slashed so far for each trade
    views,      \* dispute_view of every trade the escrow knows
    bal,        \* USDC balances
    now         \* ledger timestamp

StakeInfo == [staked : Nat, unbonding : Nat, unbond_available_at : Nat]

Larger(a, b) == IF a >= b THEN a ELSE b

Move(b, from, to, amount) ==
    [[b EXCEPT ![from] = @ - amount] EXCEPT ![to] = @ + amount]

AcceptedConfig(c) ==
    /\ MIN_COOLDOWN_SECS <= c.cooldown_secs /\ c.cooldown_secs <= MAX_COOLDOWN_SECS
    /\ c.min_stake > 0

StakingConfigInputs ==
    [admin : StakingOperators, resolver : StakingOperators,
     min_stake : MinStakes, cooldown_secs : Cooldowns, paused : Pauses]

\* The constructor; an address that never staked reads as zeros.
StakingInit ==
    /\ scfg \in {c \in StakingConfigInputs : AcceptedConfig(c) /\ ~c.paused}
    /\ stakes = [a \in Lps |-> [staked |-> 0, unbonding |-> 0, unbond_available_at |-> 0]]
    /\ slashed = [id \in TradeIds |-> 0]

set_config(c) ==
    /\ AcceptedConfig(c)
    /\ scfg' = c
    /\ UNCHANGED <<stakes, slashed, views, bal, now>>

set_paused(p) ==
    /\ scfg' = [scfg EXCEPT !.paused = p]
    /\ UNCHANGED <<stakes, slashed, views, bal, now>>

stake(lp, amount) ==
    /\ ~scfg.paused
    /\ amount > 0
    /\ amount <= bal[lp]
    /\ stakes' = [stakes EXCEPT ![lp] = [@ EXCEPT !.staked = stakes[lp].staked + amount]]
    /\ bal' = Move(bal, lp, StakingContract, amount)
    /\ UNCHANGED <<scfg, slashed, views, now>>

request_unstake(lp, amount) ==
    /\ amount > 0
    /\ amount <= stakes[lp].staked
    /\ stakes' = [stakes EXCEPT ![lp] =
         [staked |-> @.staked - amount,
          unbonding |-> @.unbonding + amount,
          unbond_available_at |-> Larger(@.unbond_available_at, now + scfg.cooldown_secs)]]
    /\ UNCHANGED <<scfg, slashed, views, bal, now>>

\* Variant: the claimed amount is not taken off the books.
claim_unstake_keeps_books(lp) ==
    /\ stakes[lp].unbonding > 0
    /\ now >= stakes[lp].unbond_available_at
    /\ stakes[lp].unbonding <= bal[StakingContract]
    /\ bal' = Move(bal, StakingContract, lp, stakes[lp].unbonding)
    /\ UNCHANGED <<scfg, stakes, slashed, views, now>>

claim_unstake(lp) ==
    /\ stakes[lp].unbonding > 0
    /\ now >= stakes[lp].unbond_available_at
    /\ stakes[lp].unbonding <= bal[StakingContract]
    /\ stakes' = [stakes EXCEPT ![lp] = [@ EXCEPT !.unbonding = 0]]
    /\ bal' = Move(bal, StakingContract, lp, stakes[lp].unbonding)
    /\ UNCHANGED <<scfg, slashed, views, now>>

\* Staked funds go first, then those unbonding.
AfterSlash(info, amount) ==
    LET fromStaked == IF amount <= info.staked THEN amount ELSE info.staked
        left == info.unbonding - (amount - fromStaked)
    IN [staked |-> info.staked - fromStaked,
        unbonding |-> left,
        unbond_available_at |-> IF left = 0 THEN 0 ELSE info.unbond_available_at]

Culprit(v) == IF v.released THEN v.recipient ELSE v.provider
Victim(v) == IF v.released THEN v.provider ELSE v.recipient

\* Variant: a pending or failed claim is enough.
Slashable_without_verdict(v) ==
    ~v.pre_settlement /\ v.post_settle_raised /\ now <= v.slash_deadline

Slashable(v) ==
    /\ ~v.pre_settlement
    /\ v.post_settle_raised
    /\ v.liability_established
    /\ now <= v.slash_deadline

slash(lp, id, amount, caller) ==
    LET v == views[id] IN
    /\ caller \in {scfg.resolver, scfg.admin}
    /\ amount > 0
    /\ id \in DOMAIN views
    /\ Slashable(v)
    /\ lp = Culprit(v)
    /\ amount <= v.amount - slashed[id]
    /\ amount <= stakes[lp].staked + stakes[lp].unbonding
    /\ amount <= bal[StakingContract]
    /\ stakes' = [stakes EXCEPT ![lp] = AfterSlash(@, amount)]
    /\ slashed' = [slashed EXCEPT ![id] = @ + amount]
    /\ bal' = Move(bal, StakingContract, Victim(v), amount)
    /\ UNCHANGED <<scfg, views, now>>

LpStep(lp) ==
    \/ \E amount \in StakeAmounts : stake(lp, amount)
    \/ \E amount \in StakeAmounts : request_unstake(lp, amount)
    \/ claim_unstake(lp)

ConfigStep ==
    \/ \E c \in StakingConfigInputs : set_config(c)
    \/ \E p \in Pauses : set_paused(p)
=============================================================================
