------------------------------ MODULE Screens ------------------------------
(***************************************************************************)
(* What the four screens of an order offer, and what becomes of it:        *)
(*   web     the customer's order page, web/components/OrderStatus.tsx     *)
(*   lp      the provider's card, lp/app/assignments/page.tsx              *)
(*   admin   the operator's card, admin/app/orders/page.tsx                *)
(*   hosted  the SEP-24 page, coordinator sep24/sep24.service.ts           *)
(* A screen shows a copy of the order it fetched at some moment, and tests *)
(* its deadlines against the clock as it draws.  It draws when what it     *)
(* fetched has changed, or when something else on it does; only the web    *)
(* page keeps timers, for the deadlines of the payment.  The hosted page   *)
(* is drawn by the server and stands until it is reloaded.                 *)
(* Every control leads to a handler of the coordinator that has a gate of  *)
(* its own (order/order-tx.service.ts and others), and then to the escrow, *)
(* which has its guards.  Time is in units longer than a polling interval. *)
(*                                                                         *)
(* The escrow and the row that follows it are kept to what the screens     *)
(* tell apart; Escrow and OrderSync model them in full.  Left out: what a  *)
(* screen hides while its own call is in flight, wording, amounts.         *)
(***************************************************************************)
EXTENDS Integers

CONSTANTS
    SIGN_BY,            \* the coordinator builds a funding transaction before this
    FUND_BY,            \* the escrow takes one until this: pay deadline - MIN_PAY_WINDOW
    PAY, CONFIRM,       \* the trade's pay and confirm deadlines
    GRACE,              \* ATTEST_GRACE_SECS
    POST_WINDOW,        \* the dispute window after a settlement
    Disputants,         \* who raises disputes, of user, lp and resolver
    MaxClock            \* bound: the clock stops here

ASSUME ScreenTimes ==
    /\ {SIGN_BY, FUND_BY, PAY, CONFIRM, GRACE, POST_WINDOW, MaxClock} \subseteq Nat
    /\ 0 < SIGN_BY /\ SIGN_BY <= FUND_BY /\ FUND_BY < PAY /\ PAY < CONFIRM
    /\ 0 < GRACE /\ 0 < POST_WINDOW
    /\ Disputants \subseteq {"user", "lp", "resolver"}

VARIABLES
    flow,       \* "TOP_UP" or "WITHDRAW"
    clock,
    esc,        \* the trade in the escrow
    ord,            \* the order's row
    requireProof,   \* the Config flag, as it stands: a payout is marked only with a proof
    view            \* a screen: its kind, its copy, whether it was fetched in this
                    \* unit of time, and when it was drawn

screenVars == <<flow, clock, esc, ord, requireProof, view>>

Settlements == {"RELEASED", "REFUNDED"}
PreChain == {"MATCHED", "AWAITING_ONCHAIN"}
Kinds == {"web", "lp", "admin", "hosted"}


-----------------------------------------------------------------------------
(* The trade in the escrow *)

NoTrade ==
    [status |-> "none", pre |-> "none", settled |-> FALSE, until |-> 0, liable |-> FALSE,
     used |-> {}, verdict |-> "none", judged |-> FALSE]

\* The contract's own reckoning: until when a deposit may be attested, and after
\* which a trade may be refunded.
AttestDeadline == IF PAY + GRACE < CONFIRM THEN PAY + GRACE ELSE CONFIRM
RefundOpensAt == IF flow = "TOP_UP" THEN AttestDeadline ELSE CONFIRM

ChainOnly == UNCHANGED <<flow, clock, ord, requireProof, view>>

Settle(t, s) ==
    [t EXCEPT !.status = s, !.pre = "none", !.settled = TRUE, !.until = clock + POST_WINDOW]

CreateTrade ==
    /\ esc.status = "none" /\ ord.status \in PreChain /\ clock <= FUND_BY
    /\ esc' = [esc EXCEPT !.status = "FUNDED"]
    /\ ChainOnly

\* The payer's own word, until its deadline, or the attestor's on a deposit.
MarkTaken(by) ==
    /\ esc.status = "FUNDED"
    /\ IF by = "attestor" THEN flow = "TOP_UP" /\ clock <= AttestDeadline
       ELSE clock <= (IF flow = "TOP_UP" THEN PAY ELSE CONFIRM)

MarkPaid ==
    /\ \E by \in {"payer", "attestor"} : MarkTaken(by)
    /\ esc' = [esc EXCEPT !.status = "FIAT_PAID"]
    /\ ChainOnly

ReleaseTrade ==
    /\ esc.status = "FIAT_PAID"
    /\ esc' = Settle(esc, "RELEASED")
    /\ ChainOnly

RefundTrade ==
    /\ esc.status = "FUNDED" /\ clock > RefundOpensAt
    /\ esc' = Settle(esc, "REFUNDED")
    /\ ChainOnly

\* Open to the parties and the resolver once the payment is marked, to the
\* resolver on a deposit before that, and once to each after settlement.
RaiseTaken(by) ==
    \/ esc.status = "FIAT_PAID"
    \/ esc.status = "FUNDED" /\ flow = "TOP_UP" /\ by = "resolver" /\ clock <= CONFIRM + POST_WINDOW
    \/ esc.status \in Settlements /\ by \notin esc.used /\ clock <= esc.until

RaiseDispute(by) ==
    /\ RaiseTaken(by)
    /\ esc' = IF esc.status \in Settlements
              THEN [esc EXCEPT !.status = "DISPUTED", !.pre = esc.status, !.used = @ \cup {by}]
              ELSE [esc EXCEPT !.status = "DISPUTED"]
    /\ ChainOnly

buildResolveTx == ord.status = "DISPUTED"

\* The settlement left the money with the provider, so the customer is the one short.
LeftWithProvider(s) ==
    (flow = "TOP_UP" /\ s = "REFUNDED") \/ (flow = "WITHDRAW" /\ s = "RELEASED")

\* Signed from the console, so once the row shows the dispute.
\* A verdict before settlement moves the money; one after it only finds for or
\* against the settlement.
ResolveTrade(outcome) ==
    LET told(p) == IF esc.verdict = "pre" THEN "pre" ELSE p IN
    /\ esc.status = "DISPUTED" /\ buildResolveTx
    /\ esc' = IF esc.pre = "none"
              THEN [Settle(esc, outcome) EXCEPT !.verdict = told("pre"), !.judged = TRUE]
              ELSE [esc EXCEPT !.status = esc.pre, !.pre = "none",
                      !.verdict = told("post"), !.liable = @ \/ outcome # esc.pre]
    /\ ChainOnly

-----------------------------------------------------------------------------
(* The order's row *)

\* Variant: the refund's opening taken for the confirm deadline on both flows.
refundOpensAtConfirm == CONFIRM

refundOpensAt ==
    IF flow = "TOP_UP" /\ PAY + GRACE < CONFIRM THEN PAY + GRACE ELSE CONFIRM

Row(o) == ord' = o /\ UNCHANGED <<flow, clock, esc, requireProof, view>>

\* A time stamp is kept as far as it is read: before or after the settlement.
Stamp == IF ~esc.settled THEN "before" ELSE "after"

disputeStampFor(o) == IF o.filed THEN o.disputeAt ELSE Stamp

\* A verdict closes the round of dispute it decides, unless a later round is
\* already open when a verdict after settlement is read.
ClosesDispute == esc.verdict = "pre" \/ (esc.verdict = "post" /\ esc.status # "DISPUTED")

\* The indexer, or a refresh: the row takes the trade's status.  One that passed
\* through a settlement it did not see may have missed its date.
FollowChain ==
    /\ esc.status # "none"
    /\ ord.status # esc.status \/ esc.verdict # "none"
    /\ \E seen \in BOOLEAN :
         LET base == [ord EXCEPT !.status = esc.status,
                        !.settled = IF esc.status \in Settlements \/ seen \/ esc.verdict = "pre"
                                    THEN esc.settled ELSE @,
                        !.until = IF esc.status \in Settlements \/ seen \/ esc.verdict = "pre"
                                  THEN esc.until ELSE @]
             closed == IF ClosesDispute THEN [base EXCEPT !.filed = FALSE] ELSE base
         IN ord' = IF esc.status = "DISPUTED" /\ (ord.status # "DISPUTED" \/ ClosesDispute)
                   THEN [closed EXCEPT !.disputeAt = disputeStampFor(closed)] ELSE closed
    /\ esc' = [esc EXCEPT !.verdict = "none"]
    /\ UNCHANGED <<flow, clock, requireProof, view>>

ExpireOrder ==
    /\ ord.status \in PreChain /\ esc.status = "none" /\ clock > FUND_BY
    /\ Row([ord EXCEPT !.status = "EXPIRED"])

canDispute(o) ==
    \/ o.status = "FIAT_PAID"
    \/ o.status \in Settlements /\ o.settled /\ clock <= o.until

MayFile(o) == canDispute(o) /\ ~o.filed

postDispute ==
    /\ MayFile(ord)
    /\ Row([ord EXCEPT !.filed = TRUE, !.disputeAt = Stamp])

MayClaim(o) ==
    flow = "TOP_UP" /\ o.status = "FUNDED" /\ ~o.claimed /\ clock <= refundOpensAt

claimPaid == MayClaim(ord) /\ Row([ord EXCEPT !.claimed = TRUE])

UploadProof ==
    /\ flow = "WITHDRAW" /\ ord.status = "FUNDED" /\ ~ord.proof
    /\ Row([ord EXCEPT !.proof = TRUE])

-----------------------------------------------------------------------------
(* The copy a screen fetches *)

\* serializeOrderBase: until when the server would take a dispute, if it would.
postSettleDisputeDeadline(o) ==
    IF o.status \in Settlements /\ ~o.filed /\ canDispute(o) THEN o.until ELSE 0

serializeOrderBase(o) == [o EXCEPT !.until = postSettleDisputeDeadline(o)]

isTerminal(s) == s \in Settlements \cup {"CANCELLED", "EXPIRED", "DISPUTED"}

\* settledRefreshSecs and the reloads of the drawn pages.
StandsStill(s) == s \in Settlements \cup {"EXPIRED", "CANCELLED"}

Signing(v) == v.kind = "hosted" /\ flow = "WITHDRAW" /\ v.o.status \in PreChain \cup {"FIAT_PAID"}

\* The operator's list has no interval: it is fetched when a message says so.
Polls(v) ==
    CASE v.kind = "web" -> ~isTerminal(v.o.status)
      [] v.kind = "lp" -> TRUE
      [] v.kind = "admin" -> FALSE
      [] v.kind = "hosted" -> ~StandsStill(v.o.status) /\ ~Signing(v)

\* The fields of the copy its screen reads.
Copy(k) ==
    LET o == serializeOrderBase(ord) IN
    CASE k = "web" -> [status |-> o.status, until |-> o.until]
      [] k = "lp" -> [status |-> o.status, until |-> o.until, proof |-> o.proof, require |-> requireProof]
      [] k = "admin" -> [status |-> o.status, settled |-> o.settled, disputeAt |-> o.disputeAt]
      [] k = "hosted" -> [status |-> o.status, claimed |-> o.claimed]

FreshView(k) == [kind |-> k, o |-> Copy(k), fresh |-> TRUE, drawn |-> clock]

ScreenOnly == UNCHANGED <<flow, clock, esc, ord, requireProof>>

\* The interval has passed, a realtime message came, or the page is loaded again.
\* A copy like the last one draws nothing anew; the hosted page is loaded whole.
RefetchView ==
    /\ view' = [FreshView(view.kind) EXCEPT
                  !.drawn = IF view.kind # "hosted" /\ view.o = Copy(view.kind) THEN view.drawn ELSE clock]
    /\ ScreenOnly

\* Something else on the screen changed: a field was typed in, a panel unfolded,
\* the page was left and opened again.
Redraw == view.kind # "hosted" /\ view' = [view EXCEPT !.drawn = clock] /\ ScreenOnly

-----------------------------------------------------------------------------
(* What a screen offers *)

\* at: when the screen was drawn.
canPostSettleDispute(o, at) == o.status \in Settlements /\ o.until # 0 /\ o.until > at

\* Tested as the page draws, and a timer draws it when the deadline comes.
paymentWindowClosed == clock >= PAY

If(c, what) == IF c THEN what ELSE {}

\* The order page, panel by panel.
DepositPanel(o) ==
    If(flow = "TOP_UP" /\ o.status = "FUNDED" /\ ~paymentWindowClosed, {"pay", "markPaid"})

LockPanel(o) == If(flow = "WITHDRAW" /\ o.status \in PreChain, {"lock"})

ReleasePanel(o) == If(flow = "WITHDRAW" /\ o.status = "FIAT_PAID", {"release", "file"})

AwaitingPanel(o) == If(flow = "TOP_UP" /\ o.status = "FIAT_PAID", {"file"})

SettledPanel(o, at) == If(canPostSettleDispute(o, at), {"file"})

WebOffers(o, at) ==
    DepositPanel(o) \cup LockPanel(o) \cup ReleasePanel(o) \cup AwaitingPanel(o) \cup SettledPanel(o, at)

\* The provider's card of an assignment.
LockAction(o) == If(flow = "TOP_UP" /\ o.status \in PreChain, {"lock"})

ReceiptAction(o, at) ==
    If(flow = "TOP_UP" /\ o.status = "FUNDED" /\ at <= refundOpensAt, {"receipt"})

ConfirmReleaseSheet(o) == If(flow = "TOP_UP" /\ o.status = "FIAT_PAID", {"release"})

PayoutSection(o) ==
    If(flow = "WITHDRAW" /\ o.status = "FUNDED" /\ (o.require => o.proof), {"markPaid"})

DisputeAction(o, at) == If(o.status = "FIAT_PAID" \/ canPostSettleDispute(o, at), {"raise"})

LpOffers(o, at) ==
    LockAction(o) \cup ReceiptAction(o, at) \cup ConfirmReleaseSheet(o) \cup PayoutSection(o)
      \cup DisputeAction(o, at)

attestBy == IF PAY + GRACE < CONFIRM THEN PAY + GRACE ELSE CONFIRM

DisputedAfterSettling(o) == o.disputeAt = "after" /\ o.settled

providerDefaulted(o) ==
    /\ LeftWithProvider(o.status) \/ (o.status = "DISPUTED" /\ o.settled)
    /\ DisputedAfterSettling(o)

\* The operator's card of an order.
ResolveActions(o) == If(o.status = "DISPUTED", {"resolve"})

AttestAction(o, at) == If(flow = "TOP_UP" /\ o.status = "FUNDED" /\ at < attestBy, {"attest"})

SlashAction(o) == If(providerDefaulted(o), {"slash"})

AdminOffers(o, at) == ResolveActions(o) \cup AttestAction(o, at) \cup SlashAction(o)

\* Which page the server draws; identity is taken as settled, Kyc is about that.
interactiveScreen(o) ==
    LET withdrawing == flow = "WITHDRAW" IN
    CASE o.status \in PreChain -> IF withdrawing THEN "sign_funding" ELSE "waiting_on_escrow"
      [] o.status = "FUNDED" ->
           IF withdrawing THEN "waiting_on_fiat"
           ELSE IF o.claimed THEN "claim_received" ELSE "instructions"
      [] o.status = "REFUNDED" /\ ~withdrawing ->
           IF o.claimed THEN "refunded_claimed" ELSE "refunded_unclaimed"
      [] o.status = "FIAT_PAID" /\ withdrawing -> "sign_release"
      [] OTHER -> "settled"

paymentLine(o, at) == flow = "TOP_UP" /\ o.status = "FUNDED" /\ ~o.claimed /\ at < PAY

\* The page is as it was when it was drawn.
HostedOffers(o, at) ==
    LET screen == interactiveScreen(o) IN
    If(screen = "sign_funding" /\ at < SIGN_BY, {"lock"})
      \cup If(screen = "sign_release", {"release"})
      \cup If(screen = "instructions" /\ paymentLine(o, at), {"pay", "claim"})
      \cup If(screen = "instructions" /\ at <= refundOpensAt, {"claim"})

Offers(v) ==
    CASE v.kind = "web" -> WebOffers(v.o, v.drawn)
      [] v.kind = "lp" -> LpOffers(v.o, v.drawn)
      [] v.kind = "admin" -> AdminOffers(v.o, v.drawn)
      [] v.kind = "hosted" -> HostedOffers(v.o, v.drawn)

-----------------------------------------------------------------------------
(* What the coordinator and the escrow make of a control *)

buildCreateTradeTx == ord.status \in PreChain /\ clock < SIGN_BY
buildMarkFiatPaidTx == ord.status = "FUNDED" /\ (flow = "WITHDRAW" /\ requireProof => ord.proof)
buildConfirmReleaseTx == ord.status = "FIAT_PAID"
buildRaiseDisputeTx == canDispute(ord)

\* How long after a finding, and how much, are Escrow's and Staking's subjects.
buildSlashTx == (LeftWithProvider(ord.status) \/ ord.status = "DISPUTED") /\ esc.liable

attestFiatPaid == flow = "TOP_UP" /\ ord.status = "FUNDED" /\ clock <= refundOpensAt

\* The provider's signed receipt: what the chain says, then the attestor's road.
confirmReceiptAsProvider ==
    esc.status = "FIAT_PAID" \/ (esc.status = "FUNDED" /\ attestFiatPaid)

Admits(c) ==
    CASE c = "pay" -> TRUE
      [] c = "lock" -> buildCreateTradeTx
      [] c = "markPaid" -> buildMarkFiatPaidTx
      [] c = "receipt" -> confirmReceiptAsProvider
      [] c = "attest" -> attestFiatPaid
      [] c = "release" -> buildConfirmReleaseTx
      [] c = "raise" -> buildRaiseDisputeTx
      [] c = "file" -> MayFile(ord)
      [] c = "resolve" -> buildResolveTx
      [] c = "slash" -> buildSlashTx
      [] c = "claim" -> MayClaim(ord)

\* The provider raises a dispute, the customer files one and then signs it.  The
\* controls that sign nothing do not reach the escrow.
EscrowTakes(c) ==
    CASE c = "lock" -> esc.status = "none" /\ clock <= FUND_BY
      [] c = "markPaid" -> MarkTaken("payer")
      [] c \in {"receipt", "attest"} -> MarkTaken("attestor")
      [] c = "release" -> esc.status = "FIAT_PAID"
      [] c = "resolve" -> esc.status = "DISPUTED"
      [] c = "raise" -> RaiseTaken("lp")
      [] c = "slash" -> esc.liable
      [] c = "file" -> RaiseTaken("user")
      [] c \in {"pay", "claim"} -> TRUE

-----------------------------------------------------------------------------
(* The specification *)

NewOrder ==
    [status |-> "MATCHED", settled |-> FALSE, until |-> 0, filed |-> FALSE,
     disputeAt |-> "none", claimed |-> FALSE, proof |-> FALSE]

ScrInit ==
    /\ flow \in {"TOP_UP", "WITHDRAW"}
    /\ clock = 0
    /\ esc = NoTrade
    /\ ord = NewOrder
    /\ requireProof \in BOOLEAN
    /\ \E k \in Kinds : view = FreshView(k)

\* A screen that polls has fetched within the unit of time that ends.
TimePasses ==
    /\ clock < MaxClock
    /\ Polls(view) => view.fresh
    /\ clock' = clock + 1
    /\ view' = [view EXCEPT !.fresh = FALSE]
    /\ UNCHANGED <<flow, esc, ord, requireProof>>

ScrNext ==
    \/ CreateTrade \/ MarkPaid \/ ReleaseTrade \/ RefundTrade
    \/ \E by \in Disputants : RaiseDispute(by)
    \/ \E s \in Settlements : ResolveTrade(s)
    \/ FollowChain \/ ExpireOrder
    \/ postDispute \/ claimPaid \/ UploadProof
    \/ RefetchView \/ Redraw
    \/ TimePasses

ScrSpec == ScrInit /\ [][ScrNext]_screenVars

-----------------------------------------------------------------------------
(* What the screens promise *)

\* The row says what the escrow says, the screen what the row says, and a screen
\* without timers has just been drawn.
InStep == /\ ord.status = esc.status \/ (esc.status = "none" /\ ord.status \in PreChain)
          /\ esc.verdict = "none"
          /\ view.o = Copy(view.kind)
          /\ view.kind # "web" => view.drawn = clock

\* What a screen in step offers is taken: the coordinator's own gate lets it
\* through, and a signature it asks for is one the escrow takes at that moment,
\* so the last instant each screen works out for itself is never past the
\* contract's own.  Offered more widely than taken, and refused when pressed, are
\* the funding button past its cut-off, the slash panel before a finding, a
\* dispute already filed, a dispute of a settlement its party has disputed
\* before, and the provider's late report of a payout.
\* And no screen, however it lags within its polling interval, invites a customer
\* to send money to an escrow that anyone may by then return to the provider.
OffersHold ==
    /\ InStep => \A c \in Offers(view) :
         /\ c \in {"lock", "slash"} \/ (c = "file" /\ ord.filed) \/ Admits(c)
         /\ \/ c = "lock" /\ view.kind # "hosted"
            \/ c = "markPaid" /\ view.kind = "lp"
            \/ c = "raise" /\ "lp" \in esc.used
            \/ c = "file" /\ "user" \in esc.used
            \/ c = "slash"
            \/ EscrowTakes(c)
    /\ "pay" \in Offers(view) =>
         /\ ~(esc.status = "FUNDED" /\ clock > RefundOpensAt)
         /\ esc.status = "REFUNDED" => esc.judged

=============================================================================
