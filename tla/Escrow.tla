------------------------------- MODULE Escrow -------------------------------
(***************************************************************************)
(* The escrow contract, contracts/escrow/src/lib.rs.                       *)
(*                                                                         *)
(* A trade holds a provider's USDC until the recipient's fiat payment is   *)
(* confirmed, the trade is refunded, or a dispute is decided.  One action  *)
(* per entry point; an invocation is atomic and a refused call changes     *)
(* nothing, so the code's early returns are guards.  require_auth() is the *)
(* caller's signature: an action whose caller matters takes it as a        *)
(* parameter, and a co-signature is a Boolean parameter.                   *)
(*                                                                         *)
(* Left out as data: fiat amount and currency, the token address (the      *)
(* contract refuses to change it), storage lifetimes, published events.    *)
(* confirmer is always usdc_provider (create_trade refuses anything else). *)
(***************************************************************************)
EXTENDS Integers, FiniteSets, FiniteSetsExt

CONSTANTS
    DAY, HOUR, MIN_PAY_WINDOW,  \* 86400, 3600 and 600 seconds in the code
    TradeIds,                   \* trade identifiers
    Users,                      \* account addresses: parties, wallets, operators
    EscrowContract,             \* the contract's own address
    PlatformWallet, Attestor    \* the two addresses set_config may not change

\* What callers may pass; each is a set of candidate arguments.
CONSTANTS
    Parties,                    \* addresses that open or receive trades
    LpWallets,                  \* addresses named to receive the LP fee
    Admins, Resolvers,          \* candidates for the two titles
    Pauses,                     \* candidates for Config.paused
    Flows, Amounts, LpFees, PlatformFees,
    DisputeWindows,             \* candidates for Config.dispute_window
    PayWindows, ConfirmWindows, TotalWindows,  \* deadlines, relative to now
    EarlyLists,                 \* candidates for early_release_providers
    Supply,                     \* initial USDC balance of every party
    MaxTime,                    \* bound: the clock idles no later than this
    MaxCreate                   \* bound: trades are opened no later than this

ASSUME TimeAssumption ==
    /\ DAY \in Nat /\ HOUR \in Nat /\ MIN_PAY_WINDOW \in Nat
    /\ 0 < HOUR /\ HOUR <= DAY
    /\ 0 < MIN_PAY_WINDOW /\ MIN_PAY_WINDOW <= DAY

ASSUME AddressAssumption ==
    /\ Parties \subseteq Users /\ LpWallets \subseteq Users
    /\ Admins \subseteq Users /\ Resolvers \subseteq Users
    /\ PlatformWallet \in Users /\ Attestor \in Users
    /\ EscrowContract \notin Users
    /\ EarlyLists \subseteq SUBSET Users

ASSUME InputAssumption ==
    /\ Flows \subseteq {"TopUp", "Withdraw"}
    /\ Amounts \subseteq Int /\ LpFees \subseteq Nat /\ PlatformFees \subseteq Nat
    /\ DisputeWindows \subseteq Nat /\ Pauses \subseteq BOOLEAN
    /\ PayWindows \subseteq Int /\ ConfirmWindows \subseteq Int /\ TotalWindows \subseteq Int
    /\ Supply \in Nat /\ MaxTime \in Nat /\ MaxCreate \in Nat

RESOLVER_WINDOW == DAY
POST_VERDICT_GRACE == RESOLVER_WINDOW
MAX_PAY_WINDOW == DAY
MAX_TOTAL_WINDOW == 30 * DAY
ATTEST_GRACE_SECS == HOUR
MIN_DISPUTE_WINDOW == ATTEST_GRACE_SECS
MAX_DISPUTE_WINDOW == DAY
MAX_LP_FEE_BPS == 500
MAX_PLATFORM_FEE_BPS == 500
MAX_EARLY_RELEASE_PROVIDERS == 20

VARIABLES
    cfg,        \* the contract's Config
    trades,     \* the stored trades, a function on the ids created so far
    bal,        \* USDC balance of every address
    now         \* ledger timestamp

vars == <<cfg, trades, bal, now>>

Status == {"Funded", "FiatPaid", "Released", "Refunded", "Disputed"}
SettledStatus == {"Released", "Refunded"}
Flow == {"TopUp", "Withdraw"}
ResolveOutcome == {"Release", "Refund"}
Role == {"provider", "recipient", "resolver"}
Nobody == "nobody"
NoStatus == "none"

Trade ==
    [status : Status, usdc_provider : Users, usdc_recipient : Users,
     usdc_amount : Nat, flow : Flow, platform_fee_bps : Nat, lp_fee_bps : Nat,
     lp_wallet : Users, pay_deadline : Nat, confirm_deadline : Nat,
     dispute_deadline : Nat, disputed_by : Users \cup {Nobody},
     resolver_deadline : Nat, settled_at : Nat,
     pre_dispute_status : SettledStatus \cup {"Funded", NoStatus},
     post_settle_used : SUBSET Role, post_settle_deadline : Nat,
     slash_deadline : Nat, liability_established : BOOLEAN,
     dispute_window : Nat]

Config ==
    [admin : Users, resolver : Users, default_platform_fee_bps : Nat,
     paused : BOOLEAN, dispute_window : Nat,
     early_release_providers : SUBSET Users]

Min2(a, b) == IF a <= b THEN a ELSE b
Max2(a, b) == IF a >= b THEN a ELSE b

-----------------------------------------------------------------------------
(* Token transfers and the fee split *)

Transfer(b, from, to, amount) ==
    [[b EXCEPT ![from] = @ - amount] EXCEPT ![to] = @ + amount]

platform_fee(t) == (t.usdc_amount * t.platform_fee_bps) \div 10000
lp_fee(t) == (t.usdc_amount * t.lp_fee_bps) \div 10000
net(t) == t.usdc_amount - platform_fee(t) - lp_fee(t)

\* A transfer of a zero fee, which the code skips, changes no balance.
PayRelease(b, t) ==
    Transfer(Transfer(Transfer(b, EscrowContract, PlatformWallet, platform_fee(t)),
                      EscrowContract, t.lp_wallet, lp_fee(t)),
             EscrowContract, t.usdc_recipient, net(t))

PayRefund(b, t) == Transfer(b, EscrowContract, t.usdc_provider, t.usdc_amount)

-----------------------------------------------------------------------------
(* Configuration *)

WellFormed(c) ==
    /\ Cardinality(c.early_release_providers) <= MAX_EARLY_RELEASE_PROVIDERS
    /\ c.admin # c.resolver /\ c.admin # Attestor /\ c.resolver # Attestor
    /\ c.default_platform_fee_bps <= MAX_PLATFORM_FEE_BPS
    /\ MIN_DISPUTE_WINDOW <= c.dispute_window
    /\ c.dispute_window <= MAX_DISPUTE_WINDOW

ConfigInputs ==
    [admin : Admins, resolver : Resolvers,
     default_platform_fee_bps : PlatformFees, paused : Pauses,
     dispute_window : DisputeWindows, early_release_providers : EarlyLists]

\* The constructor.
Init ==
    /\ cfg \in {c \in [admin : Admins, resolver : Resolvers,
                       default_platform_fee_bps : PlatformFees, paused : {FALSE},
                       dispute_window : DisputeWindows,
                       early_release_providers : {{}}] : WellFormed(c)}
    /\ trades = [i \in {} |-> {}]
    /\ bal = [a \in Users \cup {EscrowContract} |->
                IF a \in Parties THEN Supply ELSE 0]
    /\ now = 0

set_config(c) ==
    /\ WellFormed(c)
    /\ cfg' = c
    /\ UNCHANGED <<trades, bal, now>>

set_paused(p) ==
    /\ cfg' = [cfg EXCEPT !.paused = p]
    /\ UNCHANGED <<trades, bal, now>>

-----------------------------------------------------------------------------
(* Opening a trade *)

OperatorTitle(a) == a \in {cfg.resolver, Attestor, cfg.admin}

\* The record create_trade stores: the terms it was given, the fee and the window
\* of the configuration of the day, and nothing yet of a payment or a dispute.
NewTrade(provider, recipient, amount, flow, lpBps, lpWallet, pay, confirm, dispute) ==
    [status |-> "Funded", usdc_provider |-> provider,
     usdc_recipient |-> recipient, usdc_amount |-> amount, flow |-> flow,
     platform_fee_bps |-> cfg.default_platform_fee_bps,
     lp_fee_bps |-> lpBps, lp_wallet |-> lpWallet,
     pay_deadline |-> pay, confirm_deadline |-> confirm,
     dispute_deadline |-> dispute, disputed_by |-> Nobody,
     resolver_deadline |-> 0, settled_at |-> 0,
     pre_dispute_status |-> NoStatus, post_settle_used |-> {},
     post_settle_deadline |-> 0, slash_deadline |-> 0,
     liability_established |-> FALSE, dispute_window |-> cfg.dispute_window]

create_trade(id, provider, recipient, amount, flow, lpBps, lpWallet, pay, confirm, dispute) ==
    /\ ~cfg.paused
    /\ id \notin DOMAIN trades
    /\ amount > 0
    /\ provider # recipient
    /\ ~OperatorTitle(provider) /\ ~OperatorTitle(recipient)
    /\ cfg.default_platform_fee_bps + lpBps < 10000
    /\ lpBps <= MAX_LP_FEE_BPS
    /\ now < pay /\ pay < confirm /\ confirm < dispute
    /\ now + MIN_PAY_WINDOW <= pay
    /\ pay <= now + MAX_PAY_WINDOW
    /\ dispute <= now + MAX_TOTAL_WINDOW
    /\ amount <= bal[provider]
    /\ trades' = [i \in DOMAIN trades \cup {id} |->
         IF i # id THEN trades[i]
         ELSE NewTrade(provider, recipient, amount, flow, lpBps, lpWallet,
                       pay, confirm, dispute)]
    /\ bal' = Transfer(bal, provider, EscrowContract, amount)
    /\ UNCHANGED <<cfg, now>>

-----------------------------------------------------------------------------
(* Payment, release and refund *)

Put(id, t) == trades' = [trades EXCEPT ![id] = t]

\* Until when a deposit may be attested, and after which it may be refunded.
AttestDeadline(t) == Min2(t.confirm_deadline, t.pay_deadline + ATTEST_GRACE_SECS)

MarkDeadline(t, caller) ==
    CASE caller = Attestor /\ t.flow = "TopUp" -> AttestDeadline(t)
      [] OTHER -> IF t.flow = "TopUp" THEN t.pay_deadline ELSE t.confirm_deadline

mark_fiat_paid(id, caller) ==
    LET t == trades[id] IN
    /\ t.status = "Funded"
    /\ \/ caller = Attestor /\ t.flow = "TopUp" /\ ~cfg.paused
       \/ caller = t.usdc_recipient /\ ~(caller = Attestor /\ t.flow = "TopUp")
    /\ now <= MarkDeadline(t, caller)
    /\ Put(id, [t EXCEPT !.status = "FiatPaid"])
    /\ UNCHANGED <<cfg, bal, now>>

Settle(t, status) ==
    [t EXCEPT !.status = status,
              !.settled_at = now,
              !.post_settle_deadline = now + t.dispute_window,
              !.slash_deadline = now + t.dispute_window]

SettleRelease(id, t) ==
    /\ t.usdc_amount <= bal[EscrowContract]
    /\ Put(id, Settle(t, "Released"))
    /\ bal' = PayRelease(bal, t)

do_refund(id, t) ==
    /\ t.usdc_amount <= bal[EscrowContract]
    /\ Put(id, Settle(t, "Refunded"))
    /\ bal' = PayRefund(bal, t)

release_from_funded(id) ==
    LET t == trades[id] IN
    /\ t.status = "Funded"
    /\ ~cfg.paused
    /\ t.flow = "TopUp"
    /\ t.usdc_provider \in cfg.early_release_providers
    /\ now <= AttestDeadline(t)
    /\ SettleRelease(id, t)
    /\ UNCHANGED <<cfg, now>>

confirm_and_release(id) ==
    /\ trades[id].status = "FiatPaid"
    /\ SettleRelease(id, trades[id])
    /\ UNCHANGED <<cfg, now>>

RefundOpensAt(t) ==
    IF t.flow = "TopUp" THEN AttestDeadline(t) ELSE t.confirm_deadline

\* Variant: a trade whose payment was reported may be refunded too.
refund_if_paid(id) ==
    /\ trades[id].status \in {"Funded", "FiatPaid"}
    /\ now > RefundOpensAt(trades[id])
    /\ do_refund(id, trades[id])
    /\ UNCHANGED <<cfg, now>>

\* Variant: the pause stops refunds.
refund_unless_paused(id) ==
    /\ ~cfg.paused
    /\ trades[id].status = "Funded"
    /\ now > RefundOpensAt(trades[id])
    /\ do_refund(id, trades[id])
    /\ UNCHANGED <<cfg, now>>

refund(id) ==
    /\ trades[id].status = "Funded"
    /\ now > RefundOpensAt(trades[id])
    /\ do_refund(id, trades[id])
    /\ UNCHANGED <<cfg, now>>

cancel(id) ==
    /\ trades[id].status = "Funded"
    /\ do_refund(id, trades[id])
    /\ UNCHANGED <<cfg, now>>

-----------------------------------------------------------------------------
(* Disputes *)

RoleOf(t, by) ==
    CASE by = t.usdc_provider -> "provider"
      [] by = t.usdc_recipient -> "recipient"
      [] OTHER -> "resolver"

\* Variant: the slot looked up by title, where it is spent by party.
SlotFree_by_title(t, by) ==
    (IF by = cfg.resolver THEN "resolver" ELSE RoleOf(t, by)) \notin t.post_settle_used

SlotFree(t, by) == RoleOf(t, by) \notin t.post_settle_used

raise_dispute(id, by) ==
    LET t == trades[id]
        disputed == [t EXCEPT !.status = "Disputed", !.disputed_by = by,
                              !.resolver_deadline = now + RESOLVER_WINDOW]
    IN
    /\ \/ /\ t.status = "FiatPaid"
          /\ by \in {cfg.resolver, t.usdc_provider, t.usdc_recipient}
          /\ Put(id, disputed)
       \/ /\ t.status = "Funded"
          /\ ~cfg.paused
          /\ t.flow = "TopUp"
          /\ now <= t.dispute_deadline
          /\ by = cfg.resolver
          /\ Put(id, [disputed EXCEPT !.pre_dispute_status = "Funded"])
       \/ /\ t.status \in SettledStatus
          /\ SlotFree(t, by)
          /\ now <= t.post_settle_deadline
          /\ by \in {cfg.resolver, t.usdc_provider, t.usdc_recipient}
          /\ Put(id, [disputed EXCEPT
               !.pre_dispute_status = t.status,
               !.slash_deadline = Max2(t.slash_deadline, now + RESOLVER_WINDOW),
               !.post_settle_used = @ \cup {RoleOf(t, by)}])
    /\ UNCHANGED <<cfg, bal, now>>

\* Variants: one resolver window short; counted from the verdict.
Ceiling_one_window(t) == t.post_settle_deadline + RESOLVER_WINDOW + POST_VERDICT_GRACE
Ceiling_from_verdict(t) == now + 2 * RESOLVER_WINDOW + POST_VERDICT_GRACE

Ceiling(t) == t.post_settle_deadline + 2 * RESOLVER_WINDOW + POST_VERDICT_GRACE

\* The party holding the money a settlement moved.
Holder(t) ==
    IF t.pre_dispute_status = "Released" THEN t.usdc_recipient ELSE t.usdc_provider

Upheld(t, outcome) == (t.pre_dispute_status = "Released") <=> (outcome = "Release")

\* Variant: an earlier finding of liability does not stand in the way.
Exonerates_despite_liability(t, outcome) ==
    Upheld(t, outcome) /\ t.disputed_by # Holder(t)

\* A claim against the holder failed, and no earlier one was upheld.
Exonerates(t, outcome) ==
    /\ Upheld(t, outcome)
    /\ t.disputed_by # Holder(t)
    /\ ~t.liability_established

\* Variant: each verdict replaces the finding of the one before.
LiabilityAfter_last_verdict(t, outcome) == ~Upheld(t, outcome)

LiabilityAfter(t, outcome) == t.liability_established \/ ~Upheld(t, outcome)

\* resolve on a trade disputed after settlement: a verdict, and no money.
PostSettleVerdict(t, outcome) ==
    LET judged ==
          IF Exonerates(t, outcome)
          THEN [t EXCEPT !.slash_deadline = 0]
          ELSE [t EXCEPT
                 !.liability_established = LiabilityAfter(t, outcome),
                 !.slash_deadline =
                    Max2(@, Min2(now + POST_VERDICT_GRACE, Ceiling(t)))]
    IN [judged EXCEPT !.status = t.pre_dispute_status,
                      !.pre_dispute_status = NoStatus]

IsAdminFallback(t, caller) == now > t.resolver_deadline /\ caller = cfg.admin

\* Variant: a title is enough, whoever holds it.
MayJudge_by_title(t, caller) == caller = cfg.resolver \/ IsAdminFallback(t, caller)

MayJudge(t, caller) ==
    /\ caller \notin {t.usdc_provider, t.usdc_recipient}
    /\ caller = cfg.resolver \/ IsAdminFallback(t, caller)

resolve(id, outcome, caller, attested) ==
    LET t == trades[id]
        cleared == [t EXCEPT !.pre_dispute_status = NoStatus]
    IN
    /\ t.status = "Disputed"
    /\ MayJudge(t, caller)
    /\ \/ /\ t.pre_dispute_status \in SettledStatus
          /\ Put(id, PostSettleVerdict(t, outcome))
          /\ UNCHANGED bal
       \/ /\ t.pre_dispute_status \in {"Funded", NoStatus}
          /\ t.pre_dispute_status = "Funded" =>
               attested \/ (IsAdminFallback(t, caller) /\ outcome = "Refund")
          /\ \/ outcome = "Refund" /\ do_refund(id, cleared)
             \/ outcome = "Release" /\ SettleRelease(id, cleared)
    /\ UNCHANGED <<cfg, now>>

-----------------------------------------------------------------------------
(* The dispute_view other contracts read *)

Effective(t) == IF t.pre_dispute_status = NoStatus THEN t.status ELSE t.pre_dispute_status

dispute_view(t) ==
    [is_disputed |-> t.status = "Disputed",
     provider |-> t.usdc_provider,
     recipient |-> t.usdc_recipient,
     amount |-> t.usdc_amount,
     pre_settlement |-> Effective(t) \notin SettledStatus,
     released |-> Effective(t) = "Released",
     post_settle_raised |-> t.post_settle_used # {},
     liability_established |-> t.liability_established,
     slash_deadline |-> t.slash_deadline]

-----------------------------------------------------------------------------
(* The clock and the next-state relation *)

\* A trade some deadline of which is still ahead.
Pending(t) ==
    CASE t.status = "Funded" -> now <= t.confirm_deadline
      [] t.status = "FiatPaid" -> FALSE
      [] t.status = "Disputed" -> now <= t.resolver_deadline
      [] OTHER -> now <= t.post_settle_deadline

Tick ==
    /\ now < MaxTime \/ \E id \in DOMAIN trades : Pending(trades[id])
    /\ now' = now + 1
    /\ UNCHANGED <<cfg, trades, bal>>

CreateSome ==
    \E id \in TradeIds, p, r \in Parties, a \in Amounts, f \in Flows, b \in LpFees,
       w \in LpWallets, d1 \in PayWindows, d2 \in ConfirmWindows, d3 \in TotalWindows :
      /\ now <= MaxCreate
      /\ create_trade(id, p, r, a, f, b, w, now + d1, now + d2, now + d3)

TradeStep(id) ==
    \/ \E c \in Users : mark_fiat_paid(id, c)
    \/ release_from_funded(id)
    \/ confirm_and_release(id)
    \/ refund(id)
    \/ cancel(id)
    \/ \E by \in Users : raise_dispute(id, by)
    \/ \E o \in ResolveOutcome, c \in Users, s \in BOOLEAN : resolve(id, o, c, s)

Next ==
    \/ \E c \in ConfigInputs : set_config(c)
    \/ \E p \in Pauses : set_paused(p)
    \/ CreateSome
    \/ \E id \in DOMAIN trades : TradeStep(id)
    \/ Tick

Spec == Init /\ [][Next]_vars

-----------------------------------------------------------------------------
(* What the contract promises *)

Settled(t) == Effective(t) \in SettledStatus

\* The state has its type.
TypeOK ==
    /\ cfg \in Config
    /\ DOMAIN trades \subseteq TradeIds
    /\ trades \in [DOMAIN trades -> Trade]
    /\ bal \in [Users \cup {EscrowContract} -> Nat]
    /\ now \in Nat

\* The remedy against a settlement ends at most four days after it, however
\* many rounds of dispute follow and however late a verdict comes
\* (the ceiling in resolve; the staking cool-down is built on it).
RemedyCeiling ==
    \A id \in DOMAIN trades :
      Settled(trades[id]) => trades[id].slash_deadline <= trades[id].settled_at + 4 * DAY

\* A party found liable stays within reach at least until the dispute window
\* closes: no later round of dispute, decided either way, takes it back
\* (resolve clears slash_deadline only while no liability is recorded).
RemedyFloor ==
    \A id \in DOMAIN trades :
      trades[id].liability_established =>
        /\ Settled(trades[id])
        /\ trades[id].post_settle_used # {}
        /\ trades[id].slash_deadline >= trades[id].post_settle_deadline

\* A recorded liability is never withdrawn, and from then on the time left to
\* act on it is never shortened (resolve, raise_dispute).
LiabilityIsFinal ==
    [][\A id \in DOMAIN trades : trades[id].liability_established =>
         /\ trades'[id].liability_established
         /\ trades'[id].slash_deadline >= trades[id].slash_deadline]_vars

\* A verdict that overturns a settlement within a day of the resolver's
\* deadline, so also the administrator's fallback, leaves a full grace period
\* to act on it: the ceiling only cuts verdicts later than that.
PromptVerdictKeepsGrace ==
    [][\A id \in DOMAIN trades :
         (/\ ~trades[id].liability_established /\ trades'[id].liability_established
          /\ now <= trades[id].resolver_deadline + RESOLVER_WINDOW)
         => trades'[id].slash_deadline >= now + POST_VERDICT_GRACE]_vars

\* Every dispute raised after settlement spends a slot that was free, so there
\* are at most three, whoever holds the resolver's title at the time.
DisputeSpendsASlot ==
    [][\A id \in DOMAIN trades :
         (trades[id].status \in SettledStatus /\ trades'[id].status = "Disputed")
         => Cardinality(trades'[id].post_settle_used)
              = Cardinality(trades[id].post_settle_used) + 1]_vars

Outsider(t, a) == a \notin {t.usdc_provider, t.usdc_recipient}

\* No verdict comes from a party to the trade, even while a party holds the
\* resolver's or the administrator's title: a dispute ends only when some
\* outsider holds the resolver's title, or the administrator's past the deadline.
NoPartyJudges ==
    [][\A id \in DOMAIN trades :
         (trades[id].status = "Disputed" /\ trades'[id].status # "Disputed")
         => \/ Outsider(trades[id], cfg.resolver)
            \/ (Outsider(trades[id], cfg.admin) /\ now > trades[id].resolver_deadline)]_vars

\* What SECURITY.md says of the two titles: neither is ever held by a party to
\* a trade in progress.  create_trade checks it; set_config does not.
OperatorsAreNotParties ==
    \A id \in DOMAIN trades :
      ~Settled(trades[id]) =>
        {cfg.admin, cfg.resolver}
          \cap {trades[id].usdc_provider, trades[id].usdc_recipient} = {}

\* The mapping of a trade to the promise's view of it.
Terms(t) ==
    [provider |-> t.usdc_provider, recipient |-> t.usdc_recipient,
     amount |-> t.usdc_amount, flow |-> t.flow,
     platform_fee_bps |-> t.platform_fee_bps, lp_fee_bps |-> t.lp_fee_bps,
     lp_wallet |-> t.lp_wallet, pay_deadline |-> t.pay_deadline,
     confirm_deadline |-> t.confirm_deadline,
     dispute_deadline |-> t.dispute_deadline, dispute_window |-> t.dispute_window]

Stage(t) ==
    CASE Effective(t) = "Released" -> "released"
      [] Effective(t) = "Refunded" -> "refunded"
      [] t.status = "Disputed" -> "contested"
      [] t.status = "FiatPaid" -> "claimed"
      [] OTHER -> "open"

Promise == INSTANCE EscrowCustody WITH
             terms <- [i \in DOMAIN trades |-> Terms(trades[i])],
             stage <- [i \in DOMAIN trades |-> Stage(trades[i])]

\* Every deposit is held once and paid out once, in full, on the terms it was
\* made on; money claimed as paid for goes back only through a dispute.
ImplementsCustody == Promise!CSpec

-----------------------------------------------------------------------------
(* Progress *)

\* The administrator's fallback, on its signature alone.
AdminVerdict(id) ==
    \E o \in ResolveOutcome :
      IsAdminFallback(trades[id], cfg.admin) /\ resolve(id, o, cfg.admin, FALSE)

\* The recipient of a trade reported paid complains.
RecipientComplains(id) ==
    trades[id].status = "FiatPaid" /\ raise_dispute(id, trades[id].usdc_recipient)

Known(id) == id \in DOMAIN trades

\* Time passes; anyone may send refund; the administrator answers a dispute the
\* resolver left; a recipient whose payment is not confirmed complains.
Fairness ==
    /\ WF_vars(Tick)
    /\ \A id \in TradeIds :
         /\ WF_vars(Known(id) /\ refund(id))
         /\ WF_vars(Known(id) /\ AdminVerdict(id))
         /\ WF_vars(Known(id) /\ RecipientComplains(id))

FairSpec == Spec /\ Fairness

\* No trade is trapped: whatever the pause, the provider, the resolver and the
\* attestor do or fail to do, each one ends settled, for good, its rounds of
\* dispute included.
EveryTradeSettles ==
    \A id \in TradeIds :
      Known(id) ~> [](Known(id) /\ trades[id].status \in SettledStatus)
=============================================================================
