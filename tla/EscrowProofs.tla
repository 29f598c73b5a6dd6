---------------------------- MODULE EscrowProofs ----------------------------
(***************************************************************************)
(* Proofs about the escrow contract, for every set of users, trades,       *)
(* amounts, fees and windows.                                              *)
(*                                                                         *)
(* The inductive invariant adds to the type what each stored trade owes to *)
(* its history: the window it was opened with, that nothing about a remedy *)
(* is written before settlement, and where slash_deadline may lie after.   *)
(***************************************************************************)
EXTENDS Escrow, FiniteSetTheorems, TLAPS

\* What holds of a stored trade at time n.
TradeInv(t, n) ==
    /\ t.dispute_window <= MAX_DISPUTE_WINDOW
    /\ t.platform_fee_bps <= MAX_PLATFORM_FEE_BPS
    /\ t.lp_fee_bps <= MAX_LP_FEE_BPS
    /\ t.status # "Disputed" => t.pre_dispute_status = NoStatus
    /\ ~Settled(t) => /\ ~t.liability_established
                      /\ t.post_settle_used = {}
    /\ Settled(t) => /\ t.settled_at <= n
                     /\ t.post_settle_deadline = t.settled_at + t.dispute_window
                     /\ t.slash_deadline <= Ceiling(t)
                     /\ t.status = "Disputed" =>
                          t.resolver_deadline <= t.post_settle_deadline + RESOLVER_WINDOW
    /\ (Settled(t) /\ t.status = "Disputed") =>
         t.slash_deadline >= t.post_settle_deadline /\ t.post_settle_used # {}
    /\ t.liability_established =>
         t.slash_deadline >= t.post_settle_deadline /\ t.post_settle_used # {}

ConfigInv ==
    /\ cfg.dispute_window <= MAX_DISPUTE_WINDOW
    /\ cfg.default_platform_fee_bps <= MAX_PLATFORM_FEE_BPS

IInv ==
    /\ TypeOK
    /\ ConfigInv
    /\ \A id \in DOMAIN trades : TradeInv(trades[id], now)

-----------------------------------------------------------------------------
(* Lemmas on the fee split *)

\* Each fee is a natural number no larger than its share rounded down.
LEMMA ShareBounds ==
    ASSUME NEW a \in Nat, NEW b \in Nat
    PROVE  /\ (a * b) \div 10000 \in Nat
           /\ 10000 * ((a * b) \div 10000) <= a * b
<1>1. a * b \in Nat
  OBVIOUS
<1> QED
  BY <1>1

\* The two fees never exceed a tenth of the amount, so the recipient is owed at
\* least nine tenths of it (split_fees under the caps of create_trade).
LEMMA FeeBounds ==
    ASSUME NEW t \in Trade,
           t.platform_fee_bps <= MAX_PLATFORM_FEE_BPS, t.lp_fee_bps <= MAX_LP_FEE_BPS
    PROVE  /\ platform_fee(t) \in Nat /\ lp_fee(t) \in Nat /\ net(t) \in Nat
           /\ 10 * net(t) >= 9 * t.usdc_amount
<1> DEFINE a == t.usdc_amount
           p == t.platform_fee_bps
           l == t.lp_fee_bps
<1>1. a \in Nat /\ p \in Nat /\ l \in Nat
  BY DEF Trade
<1>2. p <= 500 /\ l <= 500
  BY DEF MAX_PLATFORM_FEE_BPS, MAX_LP_FEE_BPS
<1>3. a * p <= a * 500 /\ a * l <= a * 500
  <2> HIDE DEF a, p, l
  <2> QED BY <1>1, <1>2
<1>4. /\ platform_fee(t) \in Nat /\ 10000 * platform_fee(t) <= a * p
      /\ lp_fee(t) \in Nat /\ 10000 * lp_fee(t) <= a * l
  BY <1>1, ShareBounds DEF platform_fee, lp_fee
<1>5. net(t) = a - platform_fee(t) - lp_fee(t)
  BY DEF net
<1> HIDE DEF a, p, l
<1>6. 10000 * platform_fee(t) <= 500 * a /\ 10000 * lp_fee(t) <= 500 * a
  BY <1>1, <1>3, <1>4
<1>7. net(t) \in Nat /\ 10 * net(t) >= 9 * a
  BY <1>1, <1>4, <1>5, <1>6
<1> QED
  BY <1>4, <1>7 DEF a
-----------------------------------------------------------------------------
(* Lemmas on payments *)

Address == Users \cup {EscrowContract}

\* The three payments of a release, in the order the code makes them, give each
\* address the sum of the shares it is named for, even if it is named twice.
LEMMA ReleasePays ==
    ASSUME NEW b \in [Address -> Int], NEW t \in Trade,
           t.platform_fee_bps <= MAX_PLATFORM_FEE_BPS, t.lp_fee_bps <= MAX_LP_FEE_BPS
    PROVE  PayRelease(b, t) =
             [x \in Address |-> b[x] + Promise!ReleaseGain(Terms(t), x)]
<1> DEFINE fee == platform_fee(t)
           lp == lp_fee(t)
           rest == net(t)
           b1 == Transfer(b, EscrowContract, PlatformWallet, fee)
           b2 == Transfer(b1, EscrowContract, t.lp_wallet, lp)
           b3 == Transfer(b2, EscrowContract, t.usdc_recipient, rest)
<1>1. fee \in Nat /\ lp \in Nat /\ rest \in Nat
  BY FeeBounds
<1>2. /\ PlatformWallet \in Users /\ t.lp_wallet \in Users /\ t.usdc_recipient \in Users
      /\ EscrowContract \notin Users
  BY AddressAssumption DEF Trade
<1>b. /\ PlatformWallet \in Address /\ PlatformWallet # EscrowContract
      /\ t.lp_wallet \in Address /\ t.lp_wallet # EscrowContract
      /\ t.usdc_recipient \in Address /\ t.usdc_recipient # EscrowContract
      /\ EscrowContract \in Address
  BY <1>2 DEF Address
<1>a. t.usdc_amount \in Int /\ rest = t.usdc_amount - fee - lp
  BY DEF net, Trade
<1>3. \A x : Promise!ReleaseGain(Terms(t), x) =
          (IF x = PlatformWallet THEN fee ELSE 0)
        + (IF x = t.lp_wallet THEN lp ELSE 0)
        + (IF x = t.usdc_recipient THEN t.usdc_amount - fee - lp ELSE 0)
        - (IF x = EscrowContract THEN t.usdc_amount ELSE 0)
  BY DEF Promise!ReleaseGain, Promise!Share, Terms, platform_fee, lp_fee
<1>4. PayRelease(b, t) = b3
  BY DEF PayRelease
<1> HIDE DEF fee, lp, rest
<1>5. /\ b1 \in [Address -> Int]
      /\ \A x \in Address : b1[x] = b[x] + (IF x = PlatformWallet THEN fee ELSE 0)
                                        - (IF x = EscrowContract THEN fee ELSE 0)
  BY <1>1, <1>b DEF Transfer
<1> HIDE DEF b1
<1>6. /\ b2 \in [Address -> Int]
      /\ \A x \in Address : b2[x] = b1[x] + (IF x = t.lp_wallet THEN lp ELSE 0)
                                         - (IF x = EscrowContract THEN lp ELSE 0)
  BY <1>1, <1>b, <1>5 DEF Transfer
<1> HIDE DEF b2
<1>7. /\ b3 \in [Address -> Int]
      /\ \A x \in Address : b3[x] = b2[x] + (IF x = t.usdc_recipient THEN rest ELSE 0)
                                         - (IF x = EscrowContract THEN rest ELSE 0)
  BY <1>1, <1>b, <1>6 DEF Transfer
<1> HIDE DEF b3
<1>8. ASSUME NEW x \in Address
      PROVE  b3[x] = b[x] + Promise!ReleaseGain(Terms(t), x)
  <2> DEFINE gain == Promise!ReleaseGain(Terms(t), x)
             p == IF x = PlatformWallet THEN fee ELSE 0
             l == IF x = t.lp_wallet THEN lp ELSE 0
             r == IF x = t.usdc_recipient THEN rest ELSE 0
             e(n) == IF x = EscrowContract THEN n ELSE 0
  <2>1. b[x] \in Int /\ b1[x] \in Int /\ b2[x] \in Int /\ b3[x] \in Int
    BY <1>5, <1>6, <1>7
  <2>2. gain = p + l + r - e(t.usdc_amount)
    BY <1>3, <1>a
  <2>3. b3[x] = b[x] + p - e(fee) + l - e(lp) + r - e(rest)
    BY <1>5, <1>6, <1>7
  <2>4. p \in Int /\ l \in Int /\ r \in Int
    BY <1>1
  <2>5. /\ e(fee) \in Int /\ e(lp) \in Int /\ e(rest) \in Int
        /\ e(t.usdc_amount) = e(fee) + e(lp) + e(rest)
    BY <1>1, <1>a
  <2> HIDE DEF gain, p, l, r, e
  <2>6. b3[x] = b[x] + gain
    BY <2>1, <2>2, <2>3, <2>4, <2>5
  <2> QED
    BY <2>6 DEF gain
<1> QED
  BY <1>4, <1>7, <1>8

\* A refund gives the whole deposit back to the provider.
LEMMA RefundPays ==
    ASSUME NEW b \in [Address -> Int], NEW t \in Trade
    PROVE  PayRefund(b, t) =
             [x \in Address |-> b[x] + Promise!RefundGain(Terms(t), x)]
<1>1. t.usdc_provider \in Users /\ EscrowContract \notin Users /\ t.usdc_amount \in Nat
  BY AddressAssumption DEF Trade
<1>2. \A x : Promise!RefundGain(Terms(t), x) =
          (IF x = t.usdc_provider THEN t.usdc_amount ELSE 0)
        - (IF x = EscrowContract THEN t.usdc_amount ELSE 0)
  BY DEF Promise!RefundGain, Terms
<1>3. /\ PayRefund(b, t) \in [Address -> Int]
      /\ \A x \in Address : PayRefund(b, t)[x] =
           b[x] + (IF x = t.usdc_provider THEN t.usdc_amount ELSE 0)
                - (IF x = EscrowContract THEN t.usdc_amount ELSE 0)
  <2>1. t.usdc_provider \in Address /\ EscrowContract \in Address
        /\ t.usdc_provider # EscrowContract
    BY <1>1 DEF Address
  <2> QED
    BY <1>1, <2>1 DEF PayRefund, Transfer
<1> QED
  BY <1>1, <1>2, <1>3

\* Neither payment overdraws an address, if the contract holds the deposit.
LEMMA PaymentsKeepType ==
    ASSUME NEW b \in [Address -> Nat], NEW t \in Trade,
           t.platform_fee_bps <= MAX_PLATFORM_FEE_BPS, t.lp_fee_bps <= MAX_LP_FEE_BPS,
           t.usdc_amount <= b[EscrowContract]
    PROVE  PayRelease(b, t) \in [Address -> Nat] /\ PayRefund(b, t) \in [Address -> Nat]
<1>1. t.usdc_amount \in Nat /\ EscrowContract \notin Users
      /\ PlatformWallet \in Users /\ t.lp_wallet \in Users /\ t.usdc_recipient \in Users
      /\ t.usdc_provider \in Users
  BY AddressAssumption DEF Trade
<1>2. platform_fee(t) \in Nat /\ lp_fee(t) \in Nat /\ net(t) \in Nat
  BY FeeBounds
<1>3. net(t) = t.usdc_amount - platform_fee(t) - lp_fee(t)
  BY DEF net
<1>4. \A x : Promise!ReleaseGain(Terms(t), x) =
          (IF x = PlatformWallet THEN platform_fee(t) ELSE 0)
        + (IF x = t.lp_wallet THEN lp_fee(t) ELSE 0)
        + (IF x = t.usdc_recipient THEN t.usdc_amount - platform_fee(t) - lp_fee(t) ELSE 0)
        - (IF x = EscrowContract THEN t.usdc_amount ELSE 0)
  BY DEF Promise!ReleaseGain, Promise!Share, Terms, platform_fee, lp_fee
<1>5. \A x : Promise!RefundGain(Terms(t), x) =
          (IF x = t.usdc_provider THEN t.usdc_amount ELSE 0)
        - (IF x = EscrowContract THEN t.usdc_amount ELSE 0)
  BY DEF Promise!RefundGain, Terms
<1>6. b \in [Address -> Int]
  OBVIOUS
<1>7. \A x \in Address : b[x] + Promise!ReleaseGain(Terms(t), x) \in Nat
  BY <1>1, <1>2, <1>3, <1>4 DEF Address
<1>8. \A x \in Address : b[x] + Promise!RefundGain(Terms(t), x) \in Nat
  BY <1>1, <1>5 DEF Address
<1> QED
  BY <1>6, <1>7, <1>8, ReleasePays, RefundPays
-----------------------------------------------------------------------------
(* What each way of changing one trade does to its invariant *)

\* Storing a good record under a known id keeps the invariant.
LEMMA PutKeeps ==
    ASSUME IInv, NEW id \in DOMAIN trades, NEW t \in Trade, TradeInv(t, now),
           Put(id, t), UNCHANGED <<cfg, now>>, bal' \in [Address -> Nat]
    PROVE  IInv'
<1>1. /\ trades' = [trades EXCEPT ![id] = t]
      /\ DOMAIN trades' = DOMAIN trades
      /\ trades' \in [DOMAIN trades -> Trade]
  BY DEF Put, IInv, TypeOK
<1>2. TypeOK'
  BY <1>1 DEF IInv, TypeOK, Address
<1>3. ConfigInv'
  BY DEF IInv, ConfigInv
<1>4. \A i \in DOMAIN trades : TradeInv(trades'[i], now)
  <2> SUFFICES ASSUME NEW i \in DOMAIN trades PROVE TradeInv(trades'[i], now)
    OBVIOUS
  <2>1. CASE i = id
    BY <2>1, <1>1 DEF IInv, TypeOK
  <2>2. CASE i # id
    BY <2>2, <1>1 DEF IInv, TypeOK
  <2> QED BY <2>1, <2>2
<1>5. \A i \in DOMAIN trades' : TradeInv(trades'[i], now')
  BY <1>1, <1>4
<1>6. (\A i \in DOMAIN trades : TradeInv(trades[i], now))'
  BY <1>5 DEF TradeInv, Settled, Effective, Ceiling
<1> QED
  BY <1>2, <1>3, <1>6 DEF IInv

\* Settling a trade starts its remedy at the dispute window it was opened with.
LEMMA SettleKeeps ==
    ASSUME NEW t \in Trade, NEW s \in SettledStatus, now \in Nat,
           TradeInv(t, now), ~Settled(t), t.pre_dispute_status = NoStatus
    PROVE  Settle(t, s) \in Trade /\ TradeInv(Settle(t, s), now)
<1>1. Settle(t, s) \in Trade
  <2> DEFINE d == now + t.dispute_window
  <2>1. d \in Nat /\ s \in Status
    BY DEF Trade, Status, SettledStatus
  <2> DEFINE t1 == [t EXCEPT !.status = s]
             t2 == [t1 EXCEPT !.settled_at = now]
             t3 == [t2 EXCEPT !.post_settle_deadline = d]
             t4 == [t3 EXCEPT !.slash_deadline = d]
  <2>2. Settle(t, s) = t4
    BY DEF Settle
  <2> HIDE DEF d
  <2>3. t1 \in Trade
    BY <2>1 DEF Trade
  <2> HIDE DEF t1
  <2>4. t2 \in Trade
    BY <2>3 DEF Trade
  <2> HIDE DEF t2
  <2>5. t3 \in Trade
    BY <2>1, <2>4 DEF Trade
  <2> HIDE DEF t3
  <2>6. t4 \in Trade
    BY <2>1, <2>5 DEF Trade
  <2> QED
    BY <2>2, <2>6
<1>2. DAY \in Nat /\ t.dispute_window \in Nat /\ t.dispute_window <= DAY
  BY TimeAssumption DEF Trade, TradeInv, MAX_DISPUTE_WINDOW
<1>3. TradeInv(Settle(t, s), now)
  BY <1>2 DEF Settle, Trade, Status, SettledStatus, TradeInv, Settled, Effective,
       Ceiling, RESOLVER_WINDOW, POST_VERDICT_GRACE, NoStatus
<1> QED BY <1>1, <1>3

\* A verdict after settlement moves slash_deadline up, or clears it when no
\* liability stands; the ceiling holds either way.
LEMMA VerdictKeeps ==
    ASSUME NEW t \in Trade, NEW o \in ResolveOutcome, now \in Nat, TradeInv(t, now),
           t.status = "Disputed", t.pre_dispute_status \in SettledStatus
    PROVE  PostSettleVerdict(t, o) \in Trade /\ TradeInv(PostSettleVerdict(t, o), now)
<1> DEFINE v == PostSettleVerdict(t, o)
<1>1. DAY \in Nat /\ now \in Nat /\ t.slash_deadline \in Nat
      /\ t.post_settle_deadline \in Nat
  BY TimeAssumption DEF Trade
<1>2. Settled(t)
  BY DEF Settled, Effective, SettledStatus, NoStatus
<1>3. Ceiling(t) \in Nat /\ Ceiling(t) >= t.post_settle_deadline
  BY <1>1 DEF Ceiling, RESOLVER_WINDOW, POST_VERDICT_GRACE
<1>4. LiabilityAfter(t, o) \in BOOLEAN
  BY DEF LiabilityAfter, Upheld, Trade
<1>5. CASE Exonerates(t, o)
  <2>1. v = [t EXCEPT !.slash_deadline = 0, !.status = t.pre_dispute_status,
                      !.pre_dispute_status = NoStatus]
    BY <1>5 DEF PostSettleVerdict, Trade
  <2>2. v \in Trade
    <3>1. t.pre_dispute_status \in Status /\ 0 \in Nat
      BY DEF Status, SettledStatus
    <3> QED
      BY ZenonT(60), <2>1, <3>1, ZenonT(40) DEF Trade
  <2>3. ~t.liability_established
    BY <1>5 DEF Exonerates
  <2>4. TradeInv(v, now)
    BY <2>1, <2>3, <1>1, <1>2 DEF Trade, TradeInv, Settled, Effective, SettledStatus,
         NoStatus, Ceiling, RESOLVER_WINDOW, POST_VERDICT_GRACE
  <2> QED BY <2>2, <2>4
<1>6. CASE ~Exonerates(t, o)
  <2> DEFINE d == Max2(t.slash_deadline, Min2(now + POST_VERDICT_GRACE, Ceiling(t)))
  <2>1. v = [t EXCEPT !.liability_established = LiabilityAfter(t, o),
                      !.slash_deadline = d, !.status = t.pre_dispute_status,
                      !.pre_dispute_status = NoStatus]
    BY <1>6 DEF PostSettleVerdict, Trade
  <2>2. /\ d \in Nat /\ d >= t.slash_deadline
        /\ t.slash_deadline <= Ceiling(t) => d <= Ceiling(t)
    BY <1>1, <1>3 DEF Max2, Min2, POST_VERDICT_GRACE, RESOLVER_WINDOW
  <2> HIDE DEF d
  <2>3. v \in Trade
    BY ZenonT(60), <2>1, <2>2, <1>4, ZenonT(40) DEF Trade, Status, SettledStatus
  <2>4. TradeInv(v, now)
    BY <2>1, <2>2, <1>1, <1>2 DEF Trade, TradeInv, Settled, Effective, SettledStatus,
         NoStatus, Ceiling, RESOLVER_WINDOW, POST_VERDICT_GRACE
  <2> QED BY <2>3, <2>4
<1> QED BY <1>5, <1>6
-----------------------------------------------------------------------------
(* Every step keeps the invariant *)

\* The constructor establishes the invariant.
LEMMA InitInv == Init => IInv
<1> SUFFICES ASSUME Init PROVE IInv
  OBVIOUS
<1>1. /\ trades = [i \in {} |-> {}] /\ DOMAIN trades = {} /\ now = 0
      /\ trades \in [DOMAIN trades -> Trade]
  BY DEF Init
<1>2. bal \in [Users \cup {EscrowContract} -> Nat]
  BY InputAssumption DEF Init
<1>3. /\ cfg \in Config /\ ConfigInv
  BY Zenon, AddressAssumption, InputAssumption DEF Init, Config, ConfigInv, WellFormed
<1> QED
  BY <1>1, <1>2, <1>3 DEF IInv, TypeOK

\* set_config keeps the window and the fee within the bounds it checks.
LEMMA ConfigKeeps ==
    ASSUME IInv, NEW c \in ConfigInputs, set_config(c) PROVE IInv'
<1>1. c \in Config /\ cfg' = c /\ UNCHANGED <<trades, bal, now>> /\ WellFormed(c)
  BY Zenon, AddressAssumption, InputAssumption DEF ConfigInputs, Config, set_config
<1>2. TypeOK' /\ ConfigInv'
  BY <1>1 DEF IInv, TypeOK, ConfigInv, WellFormed
<1>3. (\A id \in DOMAIN trades : TradeInv(trades[id], now))'
  BY <1>1 DEF IInv, TradeInv, Settled, Effective, Ceiling
<1> QED
  BY <1>2, <1>3 DEF IInv

\* set_paused touches no bound the invariant is about.
LEMMA PauseKeeps ==
    ASSUME IInv, NEW p \in Pauses, set_paused(p) PROVE IInv'
<1>1. cfg' = [cfg EXCEPT !.paused = p] /\ UNCHANGED <<trades, bal, now>>
  BY DEF set_paused
<1>2. p \in BOOLEAN /\ cfg \in Config
  BY InputAssumption DEF IInv, TypeOK
<1>3. cfg' \in Config /\ cfg'.dispute_window = cfg.dispute_window
      /\ cfg'.default_platform_fee_bps = cfg.default_platform_fee_bps
  BY <1>1, <1>2 DEF Config
<1>4. TypeOK' /\ ConfigInv'
  BY <1>1, <1>3 DEF IInv, TypeOK, ConfigInv
<1>5. (\A id \in DOMAIN trades : TradeInv(trades[id], now))'
  BY <1>1 DEF IInv, TradeInv, Settled, Effective, Ceiling
<1> QED
  BY <1>4, <1>5 DEF IInv

\* The passing of time keeps the invariant: no trade settles in the future.
LEMMA TickKeeps == ASSUME IInv, Tick PROVE IInv'
<1>1. now' = now + 1 /\ UNCHANGED <<cfg, trades, bal>> /\ now \in Nat
  BY DEF Tick, IInv, TypeOK
<1>2. TypeOK' /\ ConfigInv'
  BY <1>1 DEF IInv, TypeOK, ConfigInv
<1>3. \A id \in DOMAIN trades : TradeInv(trades[id], now + 1)
  <2> SUFFICES ASSUME NEW id \in DOMAIN trades PROVE TradeInv(trades[id], now + 1)
    OBVIOUS
  <2>1. trades[id] \in Trade /\ TradeInv(trades[id], now)
    BY DEF IInv, TypeOK
  <2>2. trades[id].settled_at \in Nat
    BY Zenon, <2>1 DEF Trade
  <2> QED
    BY <1>1, <2>1, <2>2 DEF TradeInv
<1>4. (\A id \in DOMAIN trades : TradeInv(trades[id], now))'
  BY ZenonT(60), <1>1, <1>3 DEF TradeInv, Settled, Effective, Ceiling
<1> QED
  BY <1>2, <1>4 DEF IInv

\* A new trade latches the configuration's window and fee, within their bounds.
LEMMA CreateKeeps ==
    ASSUME IInv, NEW id \in TradeIds, NEW p \in Parties, NEW r \in Parties,
           NEW a \in Amounts, NEW f \in Flows, NEW b \in LpFees, NEW w \in LpWallets,
           NEW d1 \in Int, NEW d2 \in Int, NEW d3 \in Int,
           create_trade(id, p, r, a, f, b, w, d1, d2, d3)
    PROVE  IInv'
<1> DEFINE t == NewTrade(p, r, a, f, b, w, d1, d2, d3)
<1>1. /\ a > 0 /\ a <= bal[p] /\ b <= MAX_LP_FEE_BPS
      /\ now < d1 /\ d1 < d2 /\ d2 < d3
      /\ trades' = [i \in DOMAIN trades \cup {id} |-> IF i # id THEN trades[i] ELSE t]
      /\ bal' = Transfer(bal, p, EscrowContract, a)
      /\ UNCHANGED <<cfg, now>>
  BY DEF create_trade
<1>2. /\ p \in Users /\ r \in Users /\ w \in Users /\ f \in Flow /\ b \in Nat
      /\ a \in Nat /\ EscrowContract \notin Users
  BY <1>1, AddressAssumption, InputAssumption DEF Flow
<1>3. d1 \in Nat /\ d2 \in Nat /\ d3 \in Nat
  BY <1>1 DEF IInv, TypeOK
<1>4. cfg.dispute_window \in Nat /\ cfg.default_platform_fee_bps \in Nat
  BY ZenonT(60) DEF IInv, TypeOK, Config
<1>5. t \in Trade
  BY <1>2, <1>3, <1>4 DEF NewTrade, Trade, Status, Role
<1>6. TradeInv(t, now)
  BY Zenon, <1>1 DEF NewTrade, TradeInv, IInv, ConfigInv, Settled, Effective, SettledStatus, NoStatus
<1> HIDE DEF t
<1>7. bal' \in [Users \cup {EscrowContract} -> Nat]
  BY <1>1, <1>2 DEF Transfer, IInv, TypeOK
<1>8. TypeOK'
  BY <1>1, <1>5, <1>7 DEF IInv, TypeOK
<1>9. ConfigInv'
  BY <1>1 DEF IInv, ConfigInv
<1>10. \A i \in DOMAIN trades' : TradeInv(trades'[i], now)
  BY <1>1, <1>6 DEF IInv
<1>11. (\A i \in DOMAIN trades : TradeInv(trades[i], now))'
  BY ZenonT(60), <1>1, <1>10, ZenonT(40) DEF TradeInv, Settled, Effective, Ceiling
<1> QED
  BY <1>8, <1>9, <1>11 DEF IInv
\* A release or a refund of an unsettled trade keeps the invariant, whichever
\* entry point makes it.
LEMMA SettlementKeeps ==
    ASSUME IInv, NEW id \in DOMAIN trades, NEW t \in Trade, TradeInv(t, now),
           ~Settled(t), t.pre_dispute_status = NoStatus,
           SettleRelease(id, t) \/ do_refund(id, t), UNCHANGED <<cfg, now>>
    PROVE  IInv'
<1>1. now \in Nat /\ bal \in [Address -> Nat]
  BY DEF IInv, TypeOK, Address
<1>2. t.platform_fee_bps <= MAX_PLATFORM_FEE_BPS /\ t.lp_fee_bps <= MAX_LP_FEE_BPS
  BY DEF TradeInv
<1>3. CASE SettleRelease(id, t)
  <2>1. Settle(t, "Released") \in Trade /\ TradeInv(Settle(t, "Released"), now)
    BY <1>1, SettleKeeps DEF SettledStatus
  <2>2. bal' \in [Address -> Nat]
    BY <1>1, <1>2, <1>3, PaymentsKeepType DEF SettleRelease
  <2> QED
    BY <1>3, <2>1, <2>2, PutKeeps DEF SettleRelease
<1>4. CASE do_refund(id, t)
  <2>1. Settle(t, "Refunded") \in Trade /\ TradeInv(Settle(t, "Refunded"), now)
    BY <1>1, SettleKeeps DEF SettledStatus
  <2>2. bal' \in [Address -> Nat]
    BY <1>1, <1>2, <1>4, PaymentsKeepType DEF do_refund
  <2> QED
    BY <1>4, <2>1, <2>2, PutKeeps DEF do_refund
<1> QED
  BY <1>3, <1>4

\* Raising a dispute keeps the invariant: after settlement it buys a day of
\* remedy, and only before post_settle_deadline, so the ceiling stands.
LEMMA DisputeKeeps ==
    ASSUME IInv, NEW id \in DOMAIN trades, NEW by \in Users, raise_dispute(id, by)
    PROVE  IInv'
<1> DEFINE t == trades[id]
           rd == now + RESOLVER_WINDOW
           u == [t EXCEPT !.status = "Disputed", !.disputed_by = by,
                          !.resolver_deadline = rd]
<1>1. t \in Trade /\ TradeInv(t, now) /\ now \in Nat /\ bal' \in [Address -> Nat]
      /\ UNCHANGED <<cfg, now>>
  BY DEF IInv, TypeOK, Address, raise_dispute
<1>2. DAY \in Nat /\ rd \in Nat
  BY <1>1, TimeAssumption DEF RESOLVER_WINDOW
<1> HIDE DEF t, rd
<1>3. u \in Trade
  BY Zenon, <1>1, <1>2 DEF Trade, Status
<1>4. CASE t.status = "FiatPaid" /\ Put(id, u)
  <2>1. TradeInv(u, now)
    BY <1>1, <1>4 DEF TradeInv, Trade, Settled, Effective, SettledStatus, NoStatus
  <2> QED
    BY <1>1, <1>3, <1>4, <2>1, PutKeeps
<1>5. CASE t.status = "Funded" /\ Put(id, [u EXCEPT !.pre_dispute_status = "Funded"])
  <2> DEFINE x == [u EXCEPT !.pre_dispute_status = "Funded"]
  <2>1. x \in Trade
    <3> HIDE DEF u
    <3> QED BY <1>3 DEF Trade
  <2>2. TradeInv(x, now)
    BY <1>1, <1>5 DEF TradeInv, Trade, Settled, Effective, SettledStatus, NoStatus
  <2> QED
    BY <1>1, <1>5, <2>1, <2>2, PutKeeps
<1>6. CASE /\ t.status \in SettledStatus
           /\ now <= t.post_settle_deadline
           /\ Put(id, [u EXCEPT
               !.pre_dispute_status = t.status,
               !.slash_deadline = Max2(t.slash_deadline, rd),
               !.post_settle_used = @ \cup {RoleOf(t, by)}])
  <2> DEFINE m == Max2(t.slash_deadline, rd)
             pu == t.post_settle_used \cup {RoleOf(t, by)}
             x1 == [u EXCEPT !.pre_dispute_status = t.status]
             x2 == [x1 EXCEPT !.slash_deadline = m]
             x == [x2 EXCEPT !.post_settle_used = pu]
  <2>1. /\ t.slash_deadline \in Nat /\ t.post_settle_deadline \in Nat
        /\ t.settled_at \in Nat /\ t.dispute_window \in Nat
    BY <1>1 DEF Trade
  <2>2. m \in Nat /\ m >= rd /\ (m = t.slash_deadline \/ m = rd)
    BY <1>2, <2>1 DEF Max2
  <2>3. pu \in SUBSET Role /\ pu # {}
    BY <1>1 DEF RoleOf, Role, Trade
  <2>4. t.pre_dispute_status = NoStatus /\ Settled(t)
    BY <1>1, <1>6 DEF TradeInv, SettledStatus, Settled, Effective
  <2>5. /\ t.post_settle_deadline = t.settled_at + t.dispute_window
        /\ t.settled_at <= now /\ t.dispute_window <= DAY
        /\ t.slash_deadline <= Ceiling(t)
    BY <1>1, <2>4 DEF TradeInv, MAX_DISPUTE_WINDOW
  <2>6. rd = now + DAY /\ Ceiling(t) = t.post_settle_deadline + 3 * DAY
    BY <1>2, <2>1 DEF rd, RESOLVER_WINDOW, Ceiling, POST_VERDICT_GRACE
  <2>7. m <= Ceiling(t) /\ m >= t.post_settle_deadline
        /\ rd <= t.post_settle_deadline + RESOLVER_WINDOW
    BY <1>1, <1>2, <1>6, <2>1, <2>2, <2>5, <2>6 DEF RESOLVER_WINDOW
  <2>8. u.post_settle_used = t.post_settle_used /\ u.slash_deadline = t.slash_deadline
    BY <1>1 DEF Trade
  <2>9. [u EXCEPT !.pre_dispute_status = t.status, !.slash_deadline = m,
                  !.post_settle_used = @ \cup {RoleOf(t, by)}] = x
    BY <1>1 DEF Trade
  <2>10. x1 \in Trade
    <3> HIDE DEF u
    <3> QED BY <1>3, <1>6 DEF Trade
  <2>11. x2 \in Trade
    <3> HIDE DEF x1, m
    <3> QED BY <2>2, <2>10 DEF Trade
  <2>12. x \in Trade
    <3> HIDE DEF x2, pu
    <3> QED BY <2>3, <2>11 DEF Trade
  <2> HIDE DEF m, pu
  <2>13. TradeInv(x, now)
    BY SMTT(30), <1>1, <1>2, <1>6, <2>1, <2>2, <2>3, <2>4, <2>5, <2>7
    DEF TradeInv, Trade, Settled, Effective, SettledStatus, NoStatus, Ceiling
  <2> HIDE DEF x
  <2> QED
    BY <1>1, <1>6, <2>9, <2>12, <2>13, PutKeeps DEF m
<1> QED
  BY <1>4, <1>5, <1>6 DEF raise_dispute, t, rd
\* A verdict keeps the invariant, before settlement and after.
LEMMA ResolveKeeps ==
    ASSUME IInv, NEW id \in DOMAIN trades, NEW o \in ResolveOutcome, NEW c \in Users,
           NEW s \in BOOLEAN, resolve(id, o, c, s)
    PROVE  IInv'
<1> DEFINE t == trades[id]
           u == [t EXCEPT !.pre_dispute_status = NoStatus]
<1>1. t \in Trade /\ TradeInv(t, now) /\ now \in Nat /\ bal \in [Address -> Nat]
  BY DEF IInv, TypeOK, Address
<1>2. t.status = "Disputed" /\ UNCHANGED <<cfg, now>>
  BY DEF resolve
<1>3. CASE /\ t.pre_dispute_status \in SettledStatus
           /\ Put(id, PostSettleVerdict(t, o))
           /\ UNCHANGED bal
  <2>1. PostSettleVerdict(t, o) \in Trade /\ TradeInv(PostSettleVerdict(t, o), now)
    BY <1>1, <1>2, <1>3, VerdictKeeps
  <2> QED
    BY ZenonT(60), <1>1, <1>2, <1>3, <2>1, PutKeeps
<1>4. CASE /\ t.pre_dispute_status \in {"Funded", NoStatus}
           /\ do_refund(id, u) \/ SettleRelease(id, u)
  <2> HIDE DEF t
  <2>1. u \in Trade /\ u.pre_dispute_status = NoStatus
    BY <1>1 DEF Trade
  <2>2. ~Settled(t) /\ ~Settled(u)
    BY <1>1, <1>2, <1>4 DEF Settled, Effective, SettledStatus, NoStatus, Trade
  <2>3. TradeInv(u, now)
    BY <1>1, <1>2, <2>2 DEF TradeInv, Trade
  <2> HIDE DEF u
  <2> QED
    BY <1>2, <1>4, <2>1, <2>2, <2>3, SettlementKeeps
<1> QED
  BY <1>3, <1>4 DEF resolve

\* Every entry point that works on one trade keeps the invariant.
LEMMA TradeStepKeeps ==
    ASSUME IInv, NEW id \in DOMAIN trades, TradeStep(id) PROVE IInv'
<1> DEFINE t == trades[id]
<1>1. t \in Trade /\ TradeInv(t, now) /\ now \in Nat /\ bal \in [Address -> Nat]
  BY ZenonT(60) DEF IInv, TypeOK, Address
<1>2. t.status \in {"Funded", "FiatPaid"} => ~Settled(t) /\ t.pre_dispute_status = NoStatus
  BY <1>1 DEF TradeInv, Settled, Effective, SettledStatus, NoStatus
<1>3. ASSUME NEW c \in Users, mark_fiat_paid(id, c) PROVE IInv'
  <2> DEFINE u == [t EXCEPT !.status = "FiatPaid"]
  <2>1. t.status = "Funded" /\ Put(id, u) /\ UNCHANGED <<cfg, bal, now>>
    BY <1>3 DEF mark_fiat_paid
  <2> HIDE DEF t
  <2>2. u \in Trade
    BY <1>1 DEF Trade, Status
  <2>3. TradeInv(u, now)
    BY Zenon, <1>1, <1>2, <2>1 DEF TradeInv, Trade, Settled, Effective, SettledStatus, NoStatus
  <2> HIDE DEF u
  <2> QED
    BY <1>1, <2>1, <2>2, <2>3, PutKeeps
<1>4. CASE release_from_funded(id)
  BY Zenon, <1>1, <1>2, <1>4, SettlementKeeps DEF release_from_funded
<1>5. CASE confirm_and_release(id)
  BY Zenon, <1>1, <1>2, <1>5, SettlementKeeps DEF confirm_and_release
<1>6. CASE refund(id)
  BY ZenonT(60), <1>1, <1>2, <1>6, SettlementKeeps DEF refund
<1>7. CASE cancel(id)
  BY <1>1, <1>2, <1>7, SettlementKeeps DEF cancel
<1>8. ASSUME NEW by \in Users, raise_dispute(id, by) PROVE IInv'
  BY <1>8, DisputeKeeps
<1>9. ASSUME NEW o \in ResolveOutcome, NEW c \in Users, NEW s \in BOOLEAN,
             resolve(id, o, c, s)
      PROVE  IInv'
  BY <1>9, ResolveKeeps
<1> QED
  BY <1>3, <1>4, <1>5, <1>6, <1>7, <1>8, <1>9 DEF TradeStep

\* The invariant is inductive.
LEMMA NextInv == IInv /\ [Next]_vars => IInv'
<1> SUFFICES ASSUME IInv, [Next]_vars PROVE IInv'
  OBVIOUS
<1>1. ASSUME NEW c \in ConfigInputs, set_config(c) PROVE IInv'
  BY <1>1, ConfigKeeps
<1>2. ASSUME NEW p \in Pauses, set_paused(p) PROVE IInv'
  BY <1>2, PauseKeeps
<1>3. CASE CreateSome
  <2>1. PICK id \in TradeIds, p \in Parties, r \in Parties, a \in Amounts, f \in Flows,
             b \in LpFees, w \in LpWallets, d1 \in PayWindows, d2 \in ConfirmWindows,
             d3 \in TotalWindows :
               create_trade(id, p, r, a, f, b, w, now + d1, now + d2, now + d3)
    BY <1>3 DEF CreateSome
  <2>2. now + d1 \in Int /\ now + d2 \in Int /\ now + d3 \in Int
    BY InputAssumption DEF IInv, TypeOK
  <2> QED
    BY <2>1, <2>2, CreateKeeps
<1>4. ASSUME NEW id \in DOMAIN trades, TradeStep(id) PROVE IInv'
  BY <1>4, TradeStepKeeps
<1>5. CASE Tick
  BY SMTT(30), <1>5, TickKeeps
<1>6. CASE UNCHANGED vars
  BY <1>6 DEF vars, IInv, TypeOK, ConfigInv, TradeInv, Settled, Effective, Ceiling
<1> QED
  BY <1>1, <1>2, <1>3, <1>4, <1>5, <1>6 DEF Next

\* The invariant holds in every reachable state of the escrow.
THEOREM Invariance == Spec => []IInv
  BY InitInv, NextInv, PTL DEF Spec

\* Every reachable state of the escrow has its type; in particular no payment
\* overdraws an account.
THEOREM TypeCorrect == Spec => []TypeOK
<1>1. IInv => TypeOK
  BY DEF IInv
<1> QED
  BY <1>1, Invariance, PTL

\* The deadline of a remedy lies under the ceiling, and the ceiling within four
\* days of the settlement (resolve, raise_dispute).
LEMMA CeilingHolds == IInv => RemedyCeiling
<1> SUFFICES ASSUME IInv, NEW id \in DOMAIN trades, Settled(trades[id])
             PROVE  trades[id].slash_deadline <= trades[id].settled_at + 4 * DAY
  BY DEF RemedyCeiling
<1> DEFINE t == trades[id]
<1>1. t \in Trade /\ TradeInv(t, now) /\ DAY \in Nat
  BY ZenonT(60), TimeAssumption DEF IInv, TypeOK
<1>2. /\ t.slash_deadline \in Nat /\ t.settled_at \in Nat
      /\ t.dispute_window \in Nat /\ t.post_settle_deadline \in Nat
  BY <1>1 DEF Trade
<1>3. /\ t.dispute_window <= MAX_DISPUTE_WINDOW
      /\ t.post_settle_deadline = t.settled_at + t.dispute_window
      /\ t.slash_deadline <= Ceiling(t)
  BY ZenonT(60), <1>1, Zenon DEF TradeInv
<1>4. Ceiling(t) = t.post_settle_deadline + 3 * DAY
  BY <1>1, <1>2 DEF Ceiling, RESOLVER_WINDOW, POST_VERDICT_GRACE
<1> HIDE DEF t
<1>5. t.slash_deadline <= t.settled_at + 4 * DAY
  BY SMTT(30), <1>1, <1>2, <1>3, <1>4 DEF MAX_DISPUTE_WINDOW
<1> QED
  BY <1>5 DEF t

\* The remedy against a settlement ends at most four days after it.
THEOREM RemedyIsBounded == Spec => []RemedyCeiling
  BY CeilingHolds, Invariance, PTL

\* A party found liable stays within reach until the dispute window closes.
THEOREM LiabilityStandsInWindow == Spec => []RemedyFloor
<1>1. IInv => RemedyFloor
  BY DEF IInv, TradeInv, RemedyFloor
<1> QED
  BY <1>1, Invariance, PTL
-----------------------------------------------------------------------------
(* What a step may do to a trade *)

\* Somebody who may judge t exists.
HasJudge(t) == \E c \in Users : MayJudge(t, c)

\* The ways a step changes a trade from t to u, as far as remedies go.
Change(t, u) ==
    \/ t.status # "Disputed" /\ ~Settled(t) /\ ~t.liability_established /\ ~u.liability_established
    \/ t.status = "Disputed" /\ ~Settled(t) /\ HasJudge(t)
         /\ ~t.liability_established /\ ~u.liability_established
    \/ /\ t.status \in SettledStatus /\ u.status = "Disputed"
       /\ u.liability_established = t.liability_established
       /\ u.slash_deadline >= t.slash_deadline
       /\ \E r \in Role \ t.post_settle_used : u.post_settle_used = t.post_settle_used \cup {r}
    \/ /\ t.status = "Disputed" /\ Settled(t) /\ HasJudge(t)
       /\ \E o \in ResolveOutcome : u = PostSettleVerdict(t, o)

\* Every entry point that works on one trade changes it in one of these ways and
\* leaves the others alone.
LEMMA TradeStepChanges ==
    ASSUME IInv, NEW id \in DOMAIN trades, TradeStep(id)
    PROVE  \E u : Put(id, u) /\ Change(trades[id], u)
<1> DEFINE t == trades[id]
<1>1. t \in Trade /\ TradeInv(t, now) /\ now \in Nat
  BY ZenonT(60) DEF IInv, TypeOK
<1>2. t.status \in {"Funded", "FiatPaid"} => t.status # "Disputed" /\ ~Settled(t)
  BY <1>1 DEF TradeInv, Settled, Effective, SettledStatus, NoStatus
<1>3. \A s : Settle(t, s).liability_established = t.liability_established
  BY <1>1 DEF Settle, Trade
<1>4. ~Settled(t) => ~t.liability_established
  BY <1>1 DEF TradeInv
<1>5. ASSUME NEW c \in Users, mark_fiat_paid(id, c)
      PROVE  \E u : Put(id, u) /\ Change(t, u)
  <2>1. t.status = "Funded" /\ Put(id, [t EXCEPT !.status = "FiatPaid"])
    BY <1>5 DEF mark_fiat_paid
  <2>2. [t EXCEPT !.status = "FiatPaid"].liability_established = t.liability_established
    BY <1>1 DEF Trade
  <2> QED
    BY Zenon, <1>2, <1>4, <2>1, <2>2 DEF Change
<1>6. ASSUME t.status \in {"Funded", "FiatPaid"}, SettleRelease(id, t) \/ do_refund(id, t)
      PROVE  \E u : Put(id, u) /\ Change(t, u)
  <2>1. \E s : Put(id, Settle(t, s))
    BY <1>6 DEF SettleRelease, do_refund
  <2> QED
    BY ZenonT(60), <1>2, <1>3, <1>4, <1>6, <2>1 DEF Change
<1>7. ASSUME NEW by \in Users, raise_dispute(id, by)
      PROVE  \E u : Put(id, u) /\ Change(t, u)
  <2> DEFINE d == [t EXCEPT !.status = "Disputed", !.disputed_by = by,
                            !.resolver_deadline = now + RESOLVER_WINDOW]
             d1 == [d EXCEPT !.pre_dispute_status = "Funded"]
             d2 == [d EXCEPT
                      !.pre_dispute_status = t.status,
                      !.slash_deadline = Max2(t.slash_deadline, now + RESOLVER_WINDOW),
                      !.post_settle_used = @ \cup {RoleOf(t, by)}]
  <2>1. /\ d.liability_established = t.liability_established
        /\ d1.liability_established = t.liability_established
    BY <1>1 DEF Trade
  <2>2. /\ d2.liability_established = t.liability_established /\ d2.status = "Disputed"
        /\ d2.slash_deadline = Max2(t.slash_deadline, now + RESOLVER_WINDOW)
        /\ d2.post_settle_used = t.post_settle_used \cup {RoleOf(t, by)}
    BY <1>1 DEF Trade
  <2>3. Max2(t.slash_deadline, now + RESOLVER_WINDOW) >= t.slash_deadline
    BY <1>1, TimeAssumption DEF Max2, Trade, RESOLVER_WINDOW
  <2>4. \/ t.status = "FiatPaid" /\ Put(id, d)
        \/ t.status = "Funded" /\ Put(id, d1)
        \/ t.status \in SettledStatus /\ Put(id, d2) /\ SlotFree(t, by)
    BY <1>7 DEF raise_dispute
  <2>5. RoleOf(t, by) \in Role
    BY DEF RoleOf, Role
  <2> HIDE DEF d, d1, d2
  <2> QED
    BY ZenonT(60), <1>2, <1>4, <2>1, <2>2, <2>3, <2>4, <2>5 DEF Change, SlotFree
<1>8. ASSUME NEW o \in ResolveOutcome, NEW c \in Users, NEW s \in BOOLEAN,
             resolve(id, o, c, s)
      PROVE  \E u : Put(id, u) /\ Change(t, u)
  <2> DEFINE u == [t EXCEPT !.pre_dispute_status = NoStatus]
  <2>1. t.status = "Disputed" /\ HasJudge(t)
    BY Zenon, <1>8 DEF resolve, HasJudge
  <2>2. CASE t.pre_dispute_status \in SettledStatus /\ Put(id, PostSettleVerdict(t, o))
    <3>1. Settled(t)
      BY <2>2 DEF Settled, Effective, SettledStatus, NoStatus
    <3> QED
      BY ZenonT(60), <2>1, <2>2, <3>1 DEF Change
  <2>3. CASE /\ t.pre_dispute_status \in {"Funded", NoStatus}
             /\ do_refund(id, u) \/ SettleRelease(id, u)
    <3>1. ~Settled(t)
      BY <2>1, <2>3 DEF Settled, Effective, SettledStatus, NoStatus
    <3>2. \E x : Put(id, Settle(u, x))
      BY <2>3 DEF SettleRelease, do_refund
    <3>3. \A x : Settle(u, x).liability_established = t.liability_established
      BY Zenon, <1>1 DEF Settle, Trade
    <3> QED
      BY <1>4, <2>1, <3>1, <3>2, <3>3 DEF Change
  <2> QED
    BY <1>8, <2>2, <2>3 DEF resolve
<1>9. CASE release_from_funded(id)
  BY Zenon, <1>6, <1>9 DEF release_from_funded
<1>10. CASE confirm_and_release(id)
  BY Zenon, <1>6, <1>10 DEF confirm_and_release
<1>11. CASE refund(id)
  BY ZenonT(60), <1>6, <1>11 DEF refund
<1>12. CASE cancel(id)
  BY <1>6, <1>12 DEF cancel
<1> QED
  BY <1>5, <1>7, <1>8, <1>9, <1>10, <1>11, <1>12 DEF TradeStep

\* Any step leaves a given trade as it is or changes it in one of these ways.
LEMMA StepChanges ==
    ASSUME IInv, [Next]_vars, NEW j \in DOMAIN trades
    PROVE  trades'[j] = trades[j] \/ Change(trades[j], trades'[j])
<1>1. CASE UNCHANGED trades
  BY ZenonT(60), <1>1
<1>2. CASE CreateSome
  BY <1>2 DEF CreateSome, create_trade
<1>3. ASSUME NEW id \in DOMAIN trades, TradeStep(id)
      PROVE  trades'[j] = trades[j] \/ Change(trades[j], trades'[j])
  <2>1. PICK u : Put(id, u) /\ Change(trades[id], u)
    BY <1>3, TradeStepChanges
  <2>2. trades' = [trades EXCEPT ![id] = u]
    BY <2>1 DEF Put
  <2> QED
    BY <2>1, <2>2 DEF IInv, TypeOK
<1> QED
  BY <1>1, <1>2, <1>3 DEF Next, vars, set_config, set_paused, Tick
\* A verdict on a settled trade: the deadline and the finding after it.
LEMMA VerdictEffect ==
    ASSUME NEW t \in Trade, NEW o \in ResolveOutcome, now \in Nat, TradeInv(t, now)
    PROVE  LET u == PostSettleVerdict(t, o) IN
           /\ t.liability_established =>
                u.liability_established /\ u.slash_deadline >= t.slash_deadline
           /\ (~t.liability_established /\ u.liability_established) =>
                u.slash_deadline >= Min2(now + POST_VERDICT_GRACE, Ceiling(t))
<1> DEFINE u == PostSettleVerdict(t, o)
           m == Min2(now + POST_VERDICT_GRACE, Ceiling(t))
           d == Max2(t.slash_deadline, m)
<1>1. DAY \in Nat /\ t.slash_deadline \in Nat /\ t.post_settle_deadline \in Nat
      /\ t.liability_established \in BOOLEAN
  BY ZenonT(60), TimeAssumption DEF Trade
<1>2. m \in Int /\ d >= t.slash_deadline /\ d >= m
  BY <1>1 DEF Max2, Min2, Ceiling, POST_VERDICT_GRACE, RESOLVER_WINDOW
<1>3. CASE Exonerates(t, o)
  <2>1. ~t.liability_established /\ u.liability_established = t.liability_established
    BY <1>3 DEF Exonerates, PostSettleVerdict, Trade
  <2> QED
    BY <2>1
<1>4. CASE ~Exonerates(t, o)
  <2>1. u.liability_established = LiabilityAfter(t, o) /\ u.slash_deadline = d
    BY <1>4 DEF PostSettleVerdict, Trade
  <2>2. t.liability_established => LiabilityAfter(t, o)
    BY DEF LiabilityAfter
  <2> HIDE DEF u, m, d
  <2>3. /\ t.liability_established =>
             u.liability_established /\ u.slash_deadline >= t.slash_deadline
        /\ u.slash_deadline >= m
    BY ZenonT(60), <1>2, <2>1, <2>2
  <2> QED
    BY <2>3 DEF u, m
<1> QED
  BY <1>3, <1>4

\* No step of the escrow withdraws a recorded liability.
LEMMA LiabilityStep ==
    ASSUME IInv, [Next]_vars, NEW id \in DOMAIN trades, trades[id].liability_established
    PROVE  /\ trades'[id].liability_established
           /\ trades'[id].slash_deadline >= trades[id].slash_deadline
<1>1. trades[id] \in Trade /\ TradeInv(trades[id], now) /\ now \in Nat
  BY DEF IInv, TypeOK
<1>2. CASE trades'[id] = trades[id]
  BY <1>1, <1>2 DEF Trade
<1>3. CASE Change(trades[id], trades'[id])
  BY Zenon, <1>1, <1>3, VerdictEffect DEF Change
<1> QED
  BY <1>2, <1>3, StepChanges

\* A recorded liability is never withdrawn, nor the time to act on it shortened.
THEOREM LiabilityStands == Spec => LiabilityIsFinal
<1> DEFINE A == \A id \in DOMAIN trades : trades[id].liability_established =>
                   /\ trades'[id].liability_established
                   /\ trades'[id].slash_deadline >= trades[id].slash_deadline
<1>1. ASSUME IInv, [Next]_vars PROVE A
  BY ZenonT(60), <1>1, LiabilityStep
<1>2. IInv /\ [Next]_vars => [A]_vars
  BY <1>1
<1> QED
  BY <1>2, Invariance, PTL DEF Spec, LiabilityIsFinal

\* A verdict within a day of the resolver's deadline leaves a full grace period.
THEOREM GraceIsKept == Spec => PromptVerdictKeepsGrace
<1> DEFINE A == \A id \in DOMAIN trades :
                  (/\ ~trades[id].liability_established /\ trades'[id].liability_established
                   /\ now <= trades[id].resolver_deadline + RESOLVER_WINDOW)
                  => trades'[id].slash_deadline >= now + POST_VERDICT_GRACE
<1>1. ASSUME IInv, [Next]_vars PROVE A
  <2> SUFFICES ASSUME NEW id \in DOMAIN trades,
                      ~trades[id].liability_established, trades'[id].liability_established,
                      now <= trades[id].resolver_deadline + RESOLVER_WINDOW
               PROVE  trades'[id].slash_deadline >= now + POST_VERDICT_GRACE
    OBVIOUS
  <2> DEFINE t == trades[id]
             u == trades'[id]
  <2>1. t \in Trade /\ TradeInv(t, now) /\ now \in Nat /\ DAY \in Nat
    BY <1>1, TimeAssumption DEF IInv, TypeOK
  <2>2. Change(t, u)
    BY <1>1, StepChanges
  <2>3. PICK o \in ResolveOutcome :
          t.status = "Disputed" /\ Settled(t) /\ u = PostSettleVerdict(t, o)
    BY Zenon, <2>2 DEF Change
  <2>4. u.slash_deadline >= Min2(now + POST_VERDICT_GRACE, Ceiling(t))
    BY ZenonT(60), <2>1, <2>3, VerdictEffect
  <2>5. t.resolver_deadline <= t.post_settle_deadline + RESOLVER_WINDOW
    BY <2>1, <2>3 DEF TradeInv
  <2>6. t.resolver_deadline \in Nat /\ t.post_settle_deadline \in Nat
    BY ZenonT(60), <2>1 DEF Trade
  <2>7. Min2(now + POST_VERDICT_GRACE, Ceiling(t)) = now + POST_VERDICT_GRACE
    BY <2>1, <2>5, <2>6 DEF Min2, Ceiling, POST_VERDICT_GRACE, RESOLVER_WINDOW
  <2> QED
    BY <2>4, <2>7
<1>2. IInv /\ [Next]_vars => [A]_vars
  BY <1>1
<1> QED
  BY <1>2, Invariance, PTL DEF Spec, PromptVerdictKeepsGrace

\* No verdict comes from a party to the trade, whatever title it holds.
THEOREM PartiesNeverJudge == Spec => NoPartyJudges
<1> DEFINE A == \A id \in DOMAIN trades :
                  (trades[id].status = "Disputed" /\ trades'[id].status # "Disputed")
                  => \/ Outsider(trades[id], cfg.resolver)
                     \/ (Outsider(trades[id], cfg.admin) /\ now > trades[id].resolver_deadline)
<1>1. ASSUME IInv, [Next]_vars PROVE A
  <2> SUFFICES ASSUME NEW id \in DOMAIN trades,
                      trades[id].status = "Disputed", trades'[id].status # "Disputed"
               PROVE  \/ Outsider(trades[id], cfg.resolver)
                      \/ (Outsider(trades[id], cfg.admin) /\ now > trades[id].resolver_deadline)
    OBVIOUS
  <2>1. Change(trades[id], trades'[id])
    BY ZenonT(60), <1>1, StepChanges
  <2>2. HasJudge(trades[id])
    BY SMTT(30), <2>1 DEF Change, SettledStatus
  <2> QED
    BY <2>2 DEF HasJudge, MayJudge, IsAdminFallback, Outsider
<1>2. IInv /\ [Next]_vars => [A]_vars
  BY <1>1
<1> QED
  BY <1>2, Invariance, PTL DEF Spec, NoPartyJudges

\* Each dispute of a settlement spends a slot that was free, so that there are
\* no more of them than roles, whoever holds the titles (raise_dispute).
THEOREM SlotsAreSpent == Spec => DisputeSpendsASlot
<1> DEFINE A == \A id \in DOMAIN trades :
                  (trades[id].status \in SettledStatus /\ trades'[id].status = "Disputed")
                  => Cardinality(trades'[id].post_settle_used)
                       = Cardinality(trades[id].post_settle_used) + 1
<1>1. ASSUME IInv, [Next]_vars PROVE A
  <2> SUFFICES ASSUME NEW id \in DOMAIN trades,
                      trades[id].status \in SettledStatus, trades'[id].status = "Disputed"
               PROVE  Cardinality(trades'[id].post_settle_used)
                        = Cardinality(trades[id].post_settle_used) + 1
    OBVIOUS
  <2> DEFINE t == trades[id]
             u == trades'[id]
  <2>1. t.status # "Disputed" /\ Settled(t)
    <3>1. t.status # "Disputed"
      BY DEF SettledStatus
    <3>2. t.pre_dispute_status = NoStatus
      BY Zenon, <1>1, <3>1 DEF IInv, TradeInv
    <3> QED BY Zenon, <3>1, <3>2 DEF Settled, Effective
  <2>2. Change(t, u)
    <3>1. u = t \/ Change(t, u)
      BY Zenon, <1>1, StepChanges
    <3> QED BY Zenon, <2>1, <3>1
  <2>3. PICK r \in Role \ t.post_settle_used : u.post_settle_used = t.post_settle_used \cup {r}
    BY ZenonT(60), <2>1, <2>2 DEF Change
  <2>4. t.post_settle_used \subseteq Role
    <3>1. t \in Trade
      BY Zenon, <1>1 DEF IInv, TypeOK
    <3> QED BY ONLY <3>1 DEF Trade
  <2>5. IsFiniteSet(Role)
    <3>1. IsFiniteSet({"provider"})
      BY Zenon, FS_Singleton
    <3>2. IsFiniteSet({"provider"} \cup {"recipient"})
      BY Zenon, <3>1, FS_AddElement
    <3>3. IsFiniteSet(({"provider"} \cup {"recipient"}) \cup {"resolver"})
      BY Zenon, <3>2, FS_AddElement
    <3>4. Role = ({"provider"} \cup {"recipient"}) \cup {"resolver"}
      BY DEF Role
    <3> QED BY Zenon, <3>3, <3>4
  <2>6. IsFiniteSet(t.post_settle_used)
    BY Zenon, <2>4, <2>5, FS_Subset
  <2>7. Cardinality(t.post_settle_used \cup {r}) = Cardinality(t.post_settle_used) + 1
    BY ZenonT(60), <2>3, <2>6, FS_AddElement
  <2> QED BY ZenonT(60), <2>3, <2>7
<1>2. IInv /\ [Next]_vars => [A]_vars
  BY <1>1
<1> QED
  BY <1>2, Invariance, PTL DEF Spec, DisputeSpendsASlot

=============================================================================
