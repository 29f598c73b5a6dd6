--------------------------- MODULE ContractProofs ---------------------------
(***************************************************************************)
(* What the two contracts promise together, for any number of trades,      *)
(* users, amounts and fees.                                                *)
(*                                                                         *)
(* First, the escrow implements the custody promise of EscrowCustody.  A   *)
(* step of the escrow is a stutter of the promise (configuration, time,    *)
(* everything about a dispute after settlement) or one of its five moves.  *)
(* The mapping reads the stage off a trade's status and the status saved   *)
(* when it was disputed; the argument is that the saved status is written  *)
(* and cleared exactly so that a settled stage is never left.              *)
(*                                                                         *)
(* Second, a bond outlives the remedy it stands for, and is cut only for a *)
(* settlement that was overturned.  The inductive invariant says where the *)
(* bond behind a settlement is while a remedy may still come: all of it is *)
(* still staked, or what is unbonding cannot be claimed before the last    *)
(* possible remedy.                                                        *)
(***************************************************************************)
EXTENDS EscrowStaking, EscrowProofs

-----------------------------------------------------------------------------
(* The custody promise *)

AllTerms == [i \in DOMAIN trades |-> Terms(trades[i])]
AllStages == [i \in DOMAIN trades |-> Stage(trades[i])]

\* Storing a trade on the same terms changes one stage.
LEMMA PutMaps ==
    ASSUME IInv, NEW id \in DOMAIN trades, NEW u, Put(id, u), Terms(u) = Terms(trades[id])
    PROVE  /\ AllTerms' = AllTerms
           /\ AllStages' = [AllStages EXCEPT ![id] = Stage(u)]
           /\ DOMAIN trades' = DOMAIN trades
<1>1. trades' = [trades EXCEPT ![id] = u] /\ DOMAIN trades' = DOMAIN trades
  BY DEF Put, IInv, TypeOK
<1>2. /\ trades'[id] = u
      /\ \A i \in DOMAIN trades : i # id => trades'[i] = trades[i]
  BY <1>1 DEF IInv, TypeOK
<1>3. AllTerms' = [i \in DOMAIN trades' |-> Terms(trades'[i])]
  BY DEF AllTerms, Terms
<1>4. AllStages' = [i \in DOMAIN trades' |-> Stage(trades'[i])]
  BY DEF AllStages, Stage, Effective
<1>5. \A i \in DOMAIN trades : Terms(trades'[i]) = Terms(trades[i])
  BY <1>2
<1>6. AllTerms' = AllTerms
  BY <1>1, <1>3, <1>5 DEF AllTerms
<1>7. \A i \in DOMAIN trades :
        Stage(trades'[i]) = IF i = id THEN Stage(u) ELSE Stage(trades[i])
  BY <1>2
<1>8. AllStages' = [AllStages EXCEPT ![id] = Stage(u)]
  BY Zenon, <1>1, <1>4, <1>7 DEF AllStages
<1> QED
  BY <1>1, <1>6, <1>8

\* A step that changes no trade and no balance is a stutter.
LEMMA Stutters ==
    ASSUME UNCHANGED <<trades, bal>> PROVE UNCHANGED Promise!custodyVars
<1>1. AllTerms' = AllTerms /\ AllStages' = AllStages
  BY DEF AllTerms, AllStages, Terms, Stage, Effective
<1> QED
  BY <1>1 DEF Promise!custodyVars, AllTerms, AllStages

\* The stage of a trade, by its status.
LEMMA StageOf ==
    ASSUME NEW t \in Trade, TradeInv(t, now)
    PROVE  /\ t.status = "Funded" => Stage(t) = "open"
           /\ t.status = "FiatPaid" => Stage(t) = "claimed"
           /\ t.status = "Released" => Stage(t) = "released"
           /\ t.status = "Refunded" => Stage(t) = "refunded"
           /\ (t.status = "Disputed" /\ ~Settled(t)) => Stage(t) = "contested"
  BY DEF Stage, Effective, Settled, SettledStatus, TradeInv, NoStatus, Trade, Status

\* A settled stage depends on the settlement alone.
LEMMA SettledStage ==
    ASSUME NEW t, NEW u, Effective(u) = Effective(t), Effective(t) \in SettledStatus
    PROVE  Stage(u) = Stage(t)
<1>1. CASE Effective(t) = "Released"
  BY <1>1 DEF Stage
<1>2. CASE Effective(t) = "Refunded"
  BY <1>2 DEF Stage
<1> QED
  BY <1>1, <1>2 DEF SettledStatus

\* Settling an unsettled trade is a release or a refund of the promise.
LEMMA SettlementMaps ==
    ASSUME IInv, NEW id \in DOMAIN trades, NEW t \in Trade, TradeInv(t, now),
           ~Settled(t), t.pre_dispute_status = NoStatus,
           Terms(t) = Terms(trades[id]),
           Stage(trades[id]) \in {"open", "claimed", "contested"},
           \/ SettleRelease(id, t)
           \/ do_refund(id, t) /\ Stage(trades[id]) # "claimed"
    PROVE  Promise!Release(id) \/ Promise!Refund(id)
<1>1. bal \in [Address -> Int] /\ bal \in [Address -> Nat] /\ DOMAIN bal = Address
  BY DEF IInv, TypeOK, Address
<1>2. t.platform_fee_bps <= MAX_PLATFORM_FEE_BPS /\ t.lp_fee_bps <= MAX_LP_FEE_BPS
  BY DEF TradeInv
<1>3. \A s : Terms(Settle(t, s)) = Terms(t)
  BY DEF Settle, Terms, Trade
<1>4. AllTerms[id] = Terms(t) /\ AllStages[id] = Stage(trades[id])
  BY DEF AllTerms, AllStages
<1>5. CASE SettleRelease(id, t)
  <2>1. Stage(Settle(t, "Released")) = "released"
    BY DEF Settle, Stage, Effective, Trade, NoStatus
  <2>2. AllTerms' = AllTerms /\ AllStages' = [AllStages EXCEPT ![id] = "released"]
    BY <1>3, <1>5, <2>1, PutMaps DEF SettleRelease
  <2>3. bal' = [x \in DOMAIN bal |-> bal[x] + Promise!ReleaseGain(AllTerms[id], x)]
    BY <1>1, <1>2, <1>4, <1>5, ReleasePays DEF SettleRelease
  <2> QED
    BY <1>4, <2>2, <2>3 DEF Promise!Release, Promise!Advance, Promise!Held, AllTerms, AllStages
<1>6. CASE do_refund(id, t) /\ Stage(trades[id]) # "claimed"
  <2>1. Stage(Settle(t, "Refunded")) = "refunded"
    BY DEF Settle, Stage, Effective, Trade, NoStatus
  <2>2. AllTerms' = AllTerms /\ AllStages' = [AllStages EXCEPT ![id] = "refunded"]
    BY <1>3, <1>6, <2>1, PutMaps DEF do_refund
  <2>3. bal' = [x \in DOMAIN bal |-> bal[x] + Promise!RefundGain(AllTerms[id], x)]
    BY <1>1, <1>4, <1>6, RefundPays DEF do_refund
  <2> QED
    BY <1>4, <1>6, <2>2, <2>3 DEF Promise!Refund, Promise!Advance, AllTerms, AllStages
<1> QED
  BY <1>5, <1>6
\* Opening a trade is a deposit.
LEMMA CreateMaps ==
    ASSUME IInv, NEW id \in TradeIds, NEW p \in Parties, NEW r \in Parties,
           NEW a \in Amounts, NEW f \in Flows, NEW b \in LpFees, NEW w \in LpWallets,
           NEW d1 \in Int, NEW d2 \in Int, NEW d3 \in Int,
           create_trade(id, p, r, a, f, b, w, d1, d2, d3)
    PROVE  Promise!Deposit(id)
<1>1. /\ id \notin DOMAIN trades /\ a > 0
      /\ DOMAIN trades' = DOMAIN trades \cup {id}
      /\ \A i \in DOMAIN trades : trades'[i] = trades[i]
      /\ bal' = Transfer(bal, p, EscrowContract, a)
  BY DEF create_trade
<1>2. /\ trades'[id].usdc_provider = p /\ trades'[id].usdc_amount = a
      /\ trades'[id].status = "Funded" /\ trades'[id].pre_dispute_status = NoStatus
  BY DEF create_trade, NewTrade
<1>3. AllTerms' = [i \in DOMAIN trades' |-> Terms(trades'[i])]
  BY DEF AllTerms, Terms
<1>4. AllStages' = [i \in DOMAIN trades' |-> Stage(trades'[i])]
  BY ZenonT(60) DEF AllStages, Stage, Effective
<1>5. /\ AllTerms'[id].provider = p /\ AllTerms'[id].amount = a
      /\ DOMAIN AllTerms' = DOMAIN AllTerms \cup {id} /\ DOMAIN AllTerms = DOMAIN trades
      /\ \A i \in DOMAIN AllTerms : AllTerms'[i] = AllTerms[i]
  BY <1>1, <1>2, <1>3 DEF AllTerms, Terms
<1>6. Stage(trades'[id]) = "open"
  BY <1>2 DEF Stage, Effective, NoStatus
<1>7. \A i \in DOMAIN trades \cup {id} :
        Stage(trades'[i]) = IF i = id THEN "open" ELSE AllStages[i]
  BY <1>1, <1>6 DEF AllStages
<1>8. AllStages' = [i \in DOMAIN AllStages \cup {id} |-> IF i = id THEN "open" ELSE AllStages[i]]
  BY <1>1, <1>4, <1>7 DEF AllStages
<1>9. bal \in [Address -> Int] /\ DOMAIN bal = Address
      /\ p \in Address /\ EscrowContract \in Address /\ p # EscrowContract /\ a \in Int
  BY AddressAssumption, InputAssumption DEF IInv, TypeOK, Address
<1>10. \A x : Promise!RefundGain(AllTerms'[id], x) =
           (IF x = p THEN a ELSE 0) - (IF x = EscrowContract THEN a ELSE 0)
  BY <1>5 DEF Promise!RefundGain
<1>11. \A x \in Address : Transfer(bal, p, EscrowContract, a)[x] =
           bal[x] - Promise!RefundGain(AllTerms'[id], x)
  BY <1>9, <1>10 DEF Transfer
<1>12. Transfer(bal, p, EscrowContract, a) \in [Address -> Int]
  BY <1>9 DEF Transfer
<1>13. bal' = [x \in DOMAIN bal |-> bal[x] - Promise!RefundGain(AllTerms'[id], x)]
  BY <1>1, <1>9, <1>11, <1>12
<1> QED
  BY <1>1, <1>5, <1>8, <1>13 DEF Promise!Deposit, AllTerms, AllStages

\* Raising a dispute contests an unsettled trade and leaves a settled one settled.
LEMMA DisputeMaps ==
    ASSUME IInv, NEW id \in DOMAIN trades, NEW by \in Users, raise_dispute(id, by)
    PROVE  Promise!Contest(id) \/ UNCHANGED Promise!custodyVars
<1> DEFINE t == trades[id]
           d == [t EXCEPT !.status = "Disputed", !.disputed_by = by,
                          !.resolver_deadline = now + RESOLVER_WINDOW]
           d1 == [d EXCEPT !.pre_dispute_status = "Funded"]
           d2 == [d EXCEPT
                    !.pre_dispute_status = t.status,
                    !.slash_deadline = Max2(t.slash_deadline, now + RESOLVER_WINDOW),
                    !.post_settle_used = @ \cup {RoleOf(t, by)}]
<1>1. t \in Trade /\ TradeInv(t, now) /\ UNCHANGED bal
  BY DEF IInv, TypeOK, raise_dispute
<1>2. \/ t.status = "FiatPaid" /\ Put(id, d)
      \/ t.status = "Funded" /\ Put(id, d1)
      \/ t.status \in SettledStatus /\ Put(id, d2)
  BY DEF raise_dispute
<1>3. Terms(d) = Terms(t) /\ Terms(d1) = Terms(t) /\ Terms(d2) = Terms(t)
  BY <1>1 DEF Terms, Trade
<1>4. t.status # "Disputed" => t.pre_dispute_status = NoStatus
  BY <1>1 DEF TradeInv
<1>5. t.status = "FiatPaid" => Stage(d) = "contested" /\ Stage(t) = "claimed"
  BY <1>1, <1>4 DEF Stage, Effective, Trade, NoStatus
<1>6. t.status = "Funded" => Stage(d1) = "contested" /\ Stage(t) = "open"
  BY <1>1, <1>4 DEF Stage, Effective, Trade, NoStatus
<1>7. t.status \in SettledStatus => Stage(d2) = Stage(t)
  <2>1. t.status \in SettledStatus => Effective(d2) = t.status /\ Effective(t) = t.status
    BY <1>1, <1>4 DEF Effective, Trade, NoStatus, SettledStatus
  <2> QED
    BY <2>1, SettledStage
<1>8. AllStages[id] = Stage(t)
  BY DEF AllStages
<1> HIDE DEF d, d1, d2, t
<1>9. CASE t.status = "FiatPaid" /\ Put(id, d)
  <2>1. AllTerms' = AllTerms /\ AllStages' = [AllStages EXCEPT ![id] = "contested"]
    BY <1>3, <1>5, <1>9, PutMaps DEF t
  <2> QED
    BY <1>1, <1>5, <1>8, <1>9, <2>1 DEF Promise!Contest, Promise!Advance, AllTerms, AllStages
<1>10. CASE t.status = "Funded" /\ Put(id, d1)
  <2>1. AllTerms' = AllTerms /\ AllStages' = [AllStages EXCEPT ![id] = "contested"]
    BY <1>3, <1>6, <1>10, PutMaps DEF t
  <2> QED
    BY <1>1, <1>6, <1>8, <1>10, <2>1 DEF Promise!Contest, Promise!Advance, AllTerms, AllStages
<1>11. CASE t.status \in SettledStatus /\ Put(id, d2)
  <2>1. AllTerms' = AllTerms /\ AllStages' = [AllStages EXCEPT ![id] = AllStages[id]]
    BY <1>3, <1>7, <1>8, <1>11, PutMaps DEF t
  <2>2. AllStages' = AllStages
    BY Zenon, <2>1 DEF AllStages
  <2> QED
    BY <1>1, <2>1, <2>2 DEF Promise!custodyVars, AllTerms, AllStages
<1> QED
  BY <1>2, <1>9, <1>10, <1>11

\* A verdict settles an unsettled trade; after settlement it moves nothing.
LEMMA ResolveMaps ==
    ASSUME IInv, NEW id \in DOMAIN trades, NEW o \in ResolveOutcome, NEW c \in Users,
           NEW s \in BOOLEAN, resolve(id, o, c, s)
    PROVE  Promise!Release(id) \/ Promise!Refund(id) \/ UNCHANGED Promise!custodyVars
<1> DEFINE t == trades[id]
           u == [t EXCEPT !.pre_dispute_status = NoStatus]
           v == PostSettleVerdict(t, o)
<1>1. t \in Trade /\ TradeInv(t, now) /\ t.status = "Disputed"
  BY DEF IInv, TypeOK, resolve
<1>2. CASE t.pre_dispute_status \in SettledStatus /\ Put(id, v) /\ UNCHANGED bal
  <2>1. /\ Terms(v) = Terms(t)
        /\ v.status = t.pre_dispute_status /\ v.pre_dispute_status = NoStatus
    BY <1>1 DEF PostSettleVerdict, Terms, Trade
  <2>2. Stage(v) = Stage(t)
    BY <1>2, <2>1, SettledStage DEF Effective, NoStatus, SettledStatus
  <2>3. AllStages[id] = Stage(t)
    BY DEF AllStages
  <2> HIDE DEF v
  <2>4. AllTerms' = AllTerms /\ AllStages' = [AllStages EXCEPT ![id] = AllStages[id]]
    BY <1>2, <2>1, <2>2, <2>3, PutMaps
  <2>5. AllStages' = AllStages
    BY Zenon, <2>4 DEF AllStages
  <2> QED
    BY Zenon, <1>2, <2>4, <2>5 DEF Promise!custodyVars, AllTerms, AllStages
<1>3. CASE /\ t.pre_dispute_status \in {"Funded", NoStatus}
           /\ do_refund(id, u) \/ SettleRelease(id, u)
  <2>1. u \in Trade /\ u.pre_dispute_status = NoStatus /\ Terms(u) = Terms(t)
    BY <1>1 DEF Trade, Terms
  <2>2. ~Settled(t) /\ ~Settled(u)
    BY <1>1, <1>3 DEF Settled, Effective, SettledStatus, NoStatus, Trade
  <2>3. TradeInv(u, now)
    BY <1>1, <2>2 DEF TradeInv, Trade
  <2>4. Stage(t) = "contested"
    BY <1>1, <2>2, StageOf
  <2> HIDE DEF u
  <2> QED
    BY Zenon, <1>3, <2>1, <2>2, <2>3, <2>4, SettlementMaps
<1> QED
  BY <1>2, <1>3 DEF resolve

\* Every entry point that works on one trade is a move of the promise or a stutter.
LEMMA TradeStepMaps ==
    ASSUME IInv, NEW id \in DOMAIN trades, TradeStep(id)
    PROVE  Promise!CNext \/ UNCHANGED Promise!custodyVars
<1> DEFINE t == trades[id]
<1>1. t \in Trade /\ TradeInv(t, now)
  BY DEF IInv, TypeOK
<1>2. t.status \in {"Funded", "FiatPaid"} => ~Settled(t) /\ t.pre_dispute_status = NoStatus
  BY <1>1 DEF TradeInv, Settled, Effective, SettledStatus, NoStatus
<1>3. id \in DOMAIN AllStages /\ AllStages[id] = Stage(t)
  BY DEF AllStages
<1>4. ASSUME NEW c \in Users, mark_fiat_paid(id, c) PROVE Promise!Claim(id)
  <2> DEFINE u == [t EXCEPT !.status = "FiatPaid"]
  <2>1. t.status = "Funded" /\ Put(id, u) /\ UNCHANGED bal
    BY <1>4 DEF mark_fiat_paid
  <2>2. Terms(u) = Terms(t) /\ Stage(u) = "claimed" /\ Stage(t) = "open"
    BY <1>1, <1>2, <2>1 DEF Terms, Stage, Effective, Trade, NoStatus
  <2> HIDE DEF u
  <2>3. AllTerms' = AllTerms /\ AllStages' = [AllStages EXCEPT ![id] = "claimed"]
    BY Zenon, <2>1, <2>2, PutMaps
  <2> QED
    BY <1>3, <2>1, <2>2, <2>3 DEF Promise!Claim, Promise!Advance, AllTerms, AllStages
<1>5. CASE release_from_funded(id)
  BY Zenon, <1>1, <1>2, <1>3, <1>5, SettlementMaps, StageOf
  DEF release_from_funded, Promise!CNext, AllStages
<1>6. CASE confirm_and_release(id)
  BY Zenon, <1>1, <1>2, <1>3, <1>6, SettlementMaps, StageOf
  DEF confirm_and_release, Promise!CNext, AllStages
<1>7. CASE refund(id)
  BY ZenonT(60), <1>1, <1>2, <1>3, <1>7, SettlementMaps, StageOf DEF refund, Promise!CNext, AllStages
<1>8. CASE cancel(id)
  BY <1>1, <1>2, <1>3, <1>8, SettlementMaps, StageOf DEF cancel, Promise!CNext, AllStages
<1>9. ASSUME NEW by \in Users, raise_dispute(id, by)
      PROVE  Promise!Contest(id) \/ UNCHANGED Promise!custodyVars
  BY <1>9, DisputeMaps
<1>10. ASSUME NEW o \in ResolveOutcome, NEW c \in Users, NEW s \in BOOLEAN,
              resolve(id, o, c, s)
       PROVE  Promise!Release(id) \/ Promise!Refund(id) \/ UNCHANGED Promise!custodyVars
  BY <1>10, ResolveMaps
<1> QED
  BY SMTT(30), <1>3, <1>4, <1>5, <1>6, <1>7, <1>8, <1>9, <1>10
  DEF TradeStep, Promise!CNext, AllStages

\* Every deposit is held once and paid out once, in full, on the terms it was made
\* on, and one whose payment was claimed goes back only through a dispute.
THEOREM CustodyRefinement == Spec => ImplementsCustody
<1>1. Init => Promise!CInit
  <2> SUFFICES ASSUME Init PROVE Promise!CInit
    OBVIOUS
  <2>1. DOMAIN trades = {}
    BY DEF Init
  <2>2. AllTerms = [i \in {} |-> {}] /\ AllStages = [i \in {} |-> {}]
    BY <2>1 DEF AllTerms, AllStages
  <2>3. bal \in [Users \cup {EscrowContract} -> Nat] /\ bal[EscrowContract] = 0
    BY AddressAssumption, InputAssumption DEF Init
  <2> QED
    BY <2>2, <2>3 DEF Promise!CInit, AllTerms, AllStages
<1>2. IInv /\ [Next]_vars => [Promise!CNext]_Promise!custodyVars
  <2> SUFFICES ASSUME IInv, [Next]_vars
               PROVE  Promise!CNext \/ UNCHANGED Promise!custodyVars
    OBVIOUS
  <2>1. CASE UNCHANGED <<trades, bal>>
    BY <2>1, Stutters
  <2>2. CASE CreateSome
    <3>1. PICK id \in TradeIds, p \in Parties, r \in Parties, a \in Amounts, f \in Flows,
               b \in LpFees, w \in LpWallets, d1 \in PayWindows, d2 \in ConfirmWindows,
               d3 \in TotalWindows :
                 create_trade(id, p, r, a, f, b, w, now + d1, now + d2, now + d3)
      BY <2>2 DEF CreateSome
    <3>2. now + d1 \in Int /\ now + d2 \in Int /\ now + d3 \in Int
      BY InputAssumption DEF IInv, TypeOK
    <3>3. Promise!Deposit(id)
      BY <3>1, <3>2, CreateMaps
    <3> QED
      BY <3>3 DEF Promise!CNext
  <2>3. ASSUME NEW id \in DOMAIN trades, TradeStep(id)
        PROVE  Promise!CNext \/ UNCHANGED Promise!custodyVars
    BY <2>3, TradeStepMaps
  <2> QED
    BY <2>1, <2>2, <2>3 DEF Next, vars, set_config, set_paused, Tick
<1> QED
  BY <1>1, <1>2, Invariance, PTL DEF Spec, ImplementsCustody, Promise!CSpec

-----------------------------------------------------------------------------
(* Where the bond behind a settlement is *)

BondType ==
    /\ scfg.cooldown_secs \in Nat /\ scfg.cooldown_secs > 4 * DAY
    /\ stakes \in [Lps -> Bond!StakeInfo]
    /\ slashed \in [TradeIds -> Nat]
    /\ backing \in [TradeIds -> Nat]

\* The bond info behind a settlement at time s covers b as long as a remedy may come.
Covers(info, s, b) ==
    \/ info.staked >= b
    \/ info.staked + info.unbonding >= b /\ info.unbond_available_at > s + 4 * DAY

Covered(t, b) ==
    now <= t.settled_at + 4 * DAY =>
      IF HolderOf(t) \in Lps THEN Covers(stakes[HolderOf(t)], t.settled_at, b) ELSE b = 0

AllCovered == \A id \in DOMAIN trades : Settled(trades[id]) => Covered(trades[id], backing[id])

BondInv == IInv /\ BondType /\ AllCovered /\ SlashIsJustified

-----------------------------------------------------------------------------
(* What a step of the escrow leaves of a settlement *)

\* What a settlement leaves for good: who holds the money, how much, since when.
Kept(t, u) ==
    /\ Settled(u) /\ Effective(u) = Effective(t)
    /\ u.usdc_provider = t.usdc_provider /\ u.usdc_recipient = t.usdc_recipient
    /\ u.usdc_amount = t.usdc_amount /\ u.settled_at = t.settled_at

\* A settled trade can only be disputed again, and a verdict returns it to the
\* status it was settled at (raise_dispute, resolve).
LEMMA SettledTradeStep ==
    ASSUME IInv, NEW id \in DOMAIN trades, TradeStep(id), Settled(trades[id])
    PROVE  \E u : Put(id, u) /\ Kept(trades[id], u)
<1> DEFINE t == trades[id]
<1>1. t \in Trade /\ TradeInv(t, now)
  BY DEF IInv, TypeOK
<1>2. t.status \notin {"Funded", "FiatPaid"}
  BY <1>1 DEF TradeInv, Settled, Effective, SettledStatus, NoStatus
<1>3. CASE \E by \in Users : raise_dispute(id, by)
  <2>1. PICK by \in Users : raise_dispute(id, by)
    BY <1>3
  <2> DEFINE d == [t EXCEPT !.status = "Disputed", !.disputed_by = by,
                            !.resolver_deadline = now + RESOLVER_WINDOW]
             u == [d EXCEPT
                     !.pre_dispute_status = t.status,
                     !.slash_deadline = Max2(t.slash_deadline, now + RESOLVER_WINDOW),
                     !.post_settle_used = @ \cup {RoleOf(t, by)}]
  <2>2. t.status \in SettledStatus /\ Put(id, u)
    BY <1>2, <2>1 DEF raise_dispute
  <2>3. /\ u.status = "Disputed" /\ u.pre_dispute_status = t.status
        /\ u.usdc_provider = t.usdc_provider /\ u.usdc_recipient = t.usdc_recipient
        /\ u.usdc_amount = t.usdc_amount /\ u.settled_at = t.settled_at
    BY <1>1 DEF Trade
  <2>4. t.pre_dispute_status = NoStatus
    BY Zenon, <1>1, <2>2 DEF TradeInv, SettledStatus
  <2> HIDE DEF u
  <2>5. Kept(t, u)
    BY Zenon, <2>2, <2>3, <2>4 DEF Kept, Settled, Effective, SettledStatus, NoStatus
  <2> QED BY <2>2, <2>5
<1>4. CASE \E o \in ResolveOutcome, c \in Users, s \in BOOLEAN : resolve(id, o, c, s)
  <2>1. PICK o \in ResolveOutcome, c \in Users, s \in BOOLEAN : resolve(id, o, c, s)
    BY <1>4
  <2>2. t.status = "Disputed" /\ t.pre_dispute_status \in SettledStatus /\ Put(id, PostSettleVerdict(t, o))
    BY SMTT(30), <2>1 DEF resolve, Settled, Effective, SettledStatus, NoStatus
  <2> DEFINE u == PostSettleVerdict(t, o)
  <2>3. /\ u.status = t.pre_dispute_status /\ u.pre_dispute_status = NoStatus
        /\ u.usdc_provider = t.usdc_provider /\ u.usdc_recipient = t.usdc_recipient
        /\ u.usdc_amount = t.usdc_amount /\ u.settled_at = t.settled_at
    <3>1. CASE Exonerates(t, o)
      BY <1>1, <3>1 DEF PostSettleVerdict, Trade
    <3>2. CASE ~Exonerates(t, o)
      BY <1>1, <3>2 DEF PostSettleVerdict, Trade
    <3> QED BY <3>1, <3>2
  <2> HIDE DEF u
  <2>4. Kept(t, u)
    BY <2>2, <2>3 DEF Kept, Settled, Effective, SettledStatus, NoStatus
  <2> QED BY <2>2, <2>4 DEF u
<1> QED
  BY <1>2, <1>3, <1>4 DEF TradeStep, mark_fiat_paid, release_from_funded, confirm_and_release, refund, cancel

\* A settled trade stays settled the way it was, whatever the escrow does.
LEMMA SettlementKept ==
    ASSUME IInv, [Next]_vars, NEW j \in DOMAIN trades, Settled(trades[j])
    PROVE  j \in DOMAIN trades' /\ Kept(trades[j], trades'[j])
<1>1. CASE UNCHANGED trades
  BY <1>1 DEF Kept
<1>2. CASE CreateSome
  BY <1>2 DEF CreateSome, create_trade, Kept
<1>3. ASSUME NEW id \in DOMAIN trades, TradeStep(id)
      PROVE  j \in DOMAIN trades' /\ Kept(trades[j], trades'[j])
  <2>1. PICK u : Put(id, u) /\ (id = j => Kept(trades[j], u))
    BY <1>3, SettledTradeStep, TradeStepChanges
  <2>2. trades' = [trades EXCEPT ![id] = u]
    BY <2>1 DEF Put
  <2> QED BY <2>1, <2>2 DEF IInv, TypeOK, Kept
<1> QED
  BY <1>1, <1>2, <1>3 DEF Next, vars, set_config, set_paused, Tick

\* Whoever would pay for a settlement stays the same with it.
LEMMA HolderKept ==
    ASSUME NEW t, NEW u, Kept(t, u)
    PROVE  HolderOf(u) = HolderOf(t)
BY Zenon DEF Kept, HolderOf, Bond!Culprit, dispute_view

\* A trade is created funded and undisputed (create_trade).
LEMMA NewTradeIsFunded ==
    ASSUME NEW p, NEW r, NEW a, NEW f, NEW b, NEW w, NEW d1, NEW d2, NEW d3
    PROVE  /\ NewTrade(p, r, a, f, b, w, d1, d2, d3).status = "Funded"
           /\ NewTrade(p, r, a, f, b, w, d1, d2, d3).pre_dispute_status = NoStatus
  BY Zenon DEF NewTrade

\* Only the clock's own step moves it, forward; a new trade is not settled.
LEMMA EscrowMoves ==
    ASSUME IInv, [Next]_vars
    PROVE  /\ now' >= now /\ now' \in Nat /\ DOMAIN trades \subseteq DOMAIN trades'
           /\ \A id \in DOMAIN trades' \ DOMAIN trades : ~Settled(trades'[id])
<1>0. now \in Nat /\ trades \in [DOMAIN trades -> Trade]
  BY DEF IInv, TypeOK
<1>1. CASE UNCHANGED trades /\ (UNCHANGED now \/ now' = now + 1)
  BY <1>0, <1>1
<1>2. CASE CreateSome
  <2>1. PICK id \in TradeIds, p \in Parties, r \in Parties, a \in Amounts, f \in Flows,
             b \in LpFees, w \in LpWallets, d1 \in PayWindows, d2 \in ConfirmWindows,
             d3 \in TotalWindows :
               create_trade(id, p, r, a, f, b, w, now + d1, now + d2, now + d3)
    BY <1>2 DEF CreateSome
  <2>a. UNCHANGED now /\ DOMAIN trades' = DOMAIN trades \cup {id}
    BY <2>1 DEF create_trade
  <2>2. trades'[id].status = "Funded" /\ trades'[id].pre_dispute_status = NoStatus
    <3>1. trades'[id] = NewTrade(p, r, a, f, b, w, now + d1, now + d2, now + d3)
      BY <2>1 DEF create_trade
    <3> QED BY ONLY ZenonT(60), <3>1, NewTradeIsFunded
  <2>3. ~Settled(trades'[id])
    BY <2>2 DEF Settled, Effective, SettledStatus
  <2> QED BY <1>0, <2>a, <2>3
<1>3. ASSUME NEW id \in DOMAIN trades, TradeStep(id)
      PROVE  UNCHANGED now /\ DOMAIN trades' = DOMAIN trades
  <2>1. UNCHANGED now
    BY Zenon, <1>3 DEF TradeStep, mark_fiat_paid, release_from_funded, confirm_and_release, refund, cancel,
                raise_dispute, resolve
  <2>2. PICK u : Put(id, u)
    BY <1>3, TradeStepChanges
  <2> QED BY <1>0, <2>1, <2>2 DEF Put
<1> QED
  BY <1>0, <1>1, <1>2, <1>3 DEF Next, vars, set_config, set_paused, Tick

\* What has to be shown of every settlement after a step.
LEMMA CoveredNext ==
    ASSUME \A id \in DOMAIN trades' : Settled(trades'[id]) =>
             (now' <= trades'[id].settled_at + 4 * DAY =>
                IF HolderOf(trades'[id]) \in Lps
                THEN Covers(stakes'[HolderOf(trades'[id])], trades'[id].settled_at, backing'[id])
                ELSE backing'[id] = 0)
    PROVE  AllCovered'
BY Zenon DEF AllCovered, Covered, Covers, HolderOf, Settled, Effective, dispute_view, Bond!Culprit

-----------------------------------------------------------------------------
(* The steps *)

\* A step of the escrow: what settles now has the bond behind it that is staked.
LEMMA EscrowStepKeeps ==
    ASSUME BondInv, EscrowStep
    PROVE  BondInv'
<1>0. /\ IInv /\ BondType /\ [Next]_vars /\ UNCHANGED <<scfg, stakes, slashed>> /\ IInv'
      /\ backing' = [id \in TradeIds |->
           IF JustSettled(id) THEN StakeOf(HolderOf(trades'[id])) ELSE backing[id]]
  BY NextInv DEF BondInv, EscrowStep
<1>1. \A a : StakeOf(a) \in Nat
  BY <1>0 DEF BondType, StakeOf, Bond!StakeInfo
<1>2. BondType'
  BY <1>0, <1>1 DEF BondType, Bond!StakeInfo
<1>3. now \in Nat /\ DOMAIN trades \subseteq TradeIds /\ DOMAIN trades' \subseteq TradeIds /\ DAY \in Nat
      /\ \A id \in DOMAIN trades' : trades'[id].settled_at \in Nat
  BY Zenon, <1>0, TimeAssumption DEF IInv, TypeOK, Trade
<1>4. AllCovered'
  <2>1. ASSUME NEW id \in DOMAIN trades', Settled(trades'[id])
        PROVE  now' <= trades'[id].settled_at + 4 * DAY =>
                 IF HolderOf(trades'[id]) \in Lps
                 THEN Covers(stakes[HolderOf(trades'[id])], trades'[id].settled_at, backing'[id])
                 ELSE backing'[id] = 0
    <3>1. id \in DOMAIN trades /\ id \in TradeIds /\ now' >= now /\ now' \in Nat
      BY Zenon, <1>0, <1>3, <2>1, EscrowMoves
    <3>2. CASE Settled(trades[id])
      <4>1. Kept(trades[id], trades'[id]) /\ backing'[id] = backing[id]
        BY Zenon, <1>0, <3>1, <3>2, SettlementKept DEF JustSettled
      <4>2. HolderOf(trades'[id]) = HolderOf(trades[id]) /\ trades'[id].settled_at = trades[id].settled_at
        BY Zenon, <4>1, HolderKept DEF Kept
      <4>3. Covered(trades[id], backing[id])
        BY <3>1, <3>2 DEF BondInv, AllCovered
      <4>4. now' <= trades'[id].settled_at + 4 * DAY => now <= trades[id].settled_at + 4 * DAY
        BY SMTT(30), <1>3, <2>1, <3>1, <4>2
      <4> QED BY Zenon, <4>1, <4>2, <4>3, <4>4 DEF Covered
    <3>3. CASE ~Settled(trades[id])
      <4>1. backing'[id] = StakeOf(HolderOf(trades'[id]))
        BY Zenon, <1>0, <2>1, <3>1, <3>3 DEF JustSettled
      <4> QED BY <1>1, <4>1 DEF Covers, StakeOf
    <3> QED BY Zenon, <3>2, <3>3
  <2> QED BY Zenon, <1>0, <2>1, CoveredNext
<1>5. SlashIsJustified'
  <2>1. ASSUME NEW id \in TradeIds, slashed[id] > 0
        PROVE  /\ id \in DOMAIN trades' /\ Settled(trades'[id]) /\ trades'[id].liability_established
               /\ slashed[id] <= trades'[id].usdc_amount
    <3>1. /\ id \in DOMAIN trades /\ Settled(trades[id]) /\ trades[id].liability_established
          /\ slashed[id] <= trades[id].usdc_amount
      BY SMTT(30), <2>1 DEF BondInv, SlashIsJustified
    <3> QED BY Zenon, <1>0, <3>1, SettlementKept, LiabilityStep DEF Kept
  <2> QED BY Zenon, <1>0, <2>1 DEF SlashIsJustified
<1> QED BY ZenonT(60), <1>0, <1>2, <1>4, <1>5 DEF BondInv

\* A step that changes no trade leaves the escrow's invariant, if it moves
\* tokens the payer has.
LEMMA TokensMoved ==
    ASSUME IInv, UNCHANGED <<cfg, trades, now>>,
           \/ UNCHANGED bal
           \/ \E a, b \in Users, n \in Nat : n <= bal[a] /\ bal' = Bond!Move(bal, a, b, n)
    PROVE  IInv'
<1>0. bal \in [Address -> Nat]
  BY DEF IInv, TypeOK, Address
<1>1. bal' \in [Address -> Nat]
  <2>1. ASSUME NEW a \in Address, NEW b \in Address, NEW n \in Nat, n <= bal[a], bal' = Bond!Move(bal, a, b, n)
        PROVE  bal' \in [Address -> Nat]
    <3> DEFINE c == [bal EXCEPT ![a] = @ - n]
    <3>1. c \in [Address -> Nat]
      BY <1>0, <2>1
    <3>2. bal' = [c EXCEPT ![b] = @ + n]
      BY Zenon, <2>1 DEF Bond!Move
    <3> HIDE DEF c
    <3> QED BY <3>1, <3>2
  <2> QED BY <1>0, <2>1 DEF Address
<1> QED BY <1>1 DEF IInv, TypeOK, ConfigInv, Address, TradeInv, Settled, Effective, Ceiling

\* What the staking contract does to the bond of one address.
LEMMA BondsKeep ==
    ASSUME BondInv, IInv', BondType', UNCHANGED <<trades, slashed, now>>, NEW lp \in Lps, NEW i \in Bond!StakeInfo,
           stakes' = [stakes EXCEPT ![lp] = i],
           \A id \in DOMAIN trades :
             /\ HolderOf(trades[id]) = lp /\ Settled(trades[id]) /\ now <= trades[id].settled_at + 4 * DAY
                /\ Covers(stakes[lp], trades[id].settled_at, backing[id])
                => Covers(i, trades[id].settled_at, backing'[id])
             /\ HolderOf(trades[id]) # lp => backing'[id] = backing[id]
    PROVE  BondInv'
<1>1. stakes \in [Lps -> Bond!StakeInfo]
  BY Zenon DEF BondInv, BondType
<1>2. ASSUME NEW id \in DOMAIN trades, Settled(trades[id]), now <= trades[id].settled_at + 4 * DAY
      PROVE  IF HolderOf(trades[id]) \in Lps
             THEN Covers(stakes'[HolderOf(trades[id])], trades[id].settled_at, backing'[id])
             ELSE backing'[id] = 0
  <2>1. IF HolderOf(trades[id]) \in Lps
        THEN Covers(stakes[HolderOf(trades[id])], trades[id].settled_at, backing[id])
        ELSE backing[id] = 0
    BY Zenon, <1>2 DEF BondInv, AllCovered, Covered
  <2>2. CASE HolderOf(trades[id]) = lp
    BY Zenon, <1>1, <1>2, <2>1, <2>2
  <2>3. CASE HolderOf(trades[id]) # lp
    BY Zenon, <1>1, <2>1, <2>3
  <2> QED BY Zenon, <2>2, <2>3
<1>3. AllCovered'
  BY ZenonT(60), <1>2, CoveredNext
<1>4. SlashIsJustified'
  BY DEF BondInv, SlashIsJustified, Settled, Effective
<1> QED BY Zenon, <1>3, <1>4 DEF BondInv

\* Staking, unstaking and claiming: what is unbonding cannot be claimed before
\* the last remedy against a settlement that came before the request.
LEMMA LpStepKeeps ==
    ASSUME BondInv, NEW lp \in Lps, Bond!LpStep(lp), UNCHANGED <<cfg, trades, backing>>
    PROVE  BondInv'
<1>0. /\ IInv /\ BondType /\ now \in Nat /\ DAY \in Nat /\ lp \in Users /\ StakingContract \in Users
      /\ stakes[lp] \in Bond!StakeInfo /\ stakes \in [Lps -> Bond!StakeInfo] /\ scfg.cooldown_secs \in Nat
      /\ scfg.cooldown_secs > 4 * DAY
  BY SMTT(30), TimeAssumption, StakingAssumption, AddressAssumption DEF BondInv, BondType, IInv, TypeOK
<1>t. ASSUME NEW id \in DOMAIN trades
      PROVE  /\ trades[id].settled_at \in Nat /\ backing[id] \in Nat
             /\ Settled(trades[id]) => trades[id].settled_at <= now
  BY <1>0 DEF IInv, TypeOK, TradeInv, Trade, BondType
<1>1. ASSUME NEW n \in StakeAmounts, Bond!stake(lp, n) PROVE BondInv'
  <2> DEFINE i == [stakes[lp] EXCEPT !.staked = @ + n]
  <2>1. n \in Nat /\ n <= bal[lp] /\ stakes' = [stakes EXCEPT ![lp] = i] /\ UNCHANGED <<scfg, slashed, now>>
        /\ bal' = Bond!Move(bal, lp, StakingContract, n)
    <3>1. n \in Nat
      BY <1>1, StakingAssumption DEF Bond!stake
    <3>2. stakes' = [stakes EXCEPT ![lp] = i]
      BY <1>1 DEF Bond!stake
    <3> QED BY Zenon, <1>1, <3>1, <3>2 DEF Bond!stake
  <2>2. /\ i \in Bond!StakeInfo /\ i.staked = stakes[lp].staked + n /\ i.unbonding = stakes[lp].unbonding
        /\ i.unbond_available_at = stakes[lp].unbond_available_at
    BY <1>0, <2>1 DEF Bond!StakeInfo
  <2> HIDE DEF i
  <2>3. IInv'
    BY Zenon, <1>0, <2>1, TokensMoved
  <2>4. BondType'
    BY ZenonT(60), <1>0, <2>1, <2>2 DEF BondType
  <2>5. \A s \in Nat, b \in Nat : Covers(stakes[lp], s, b) => Covers(i, s, b)
    BY <1>0, <2>1, <2>2 DEF Covers, Bond!StakeInfo
  <2> QED BY ZenonT(60), <1>t, <2>1, <2>2, <2>3, <2>4, <2>5, BondsKeep
<1>2. ASSUME NEW n \in StakeAmounts, Bond!request_unstake(lp, n) PROVE BondInv'
  <2> DEFINE i == [staked |-> stakes[lp].staked - n, unbonding |-> stakes[lp].unbonding + n,
                   unbond_available_at |-> Bond!Larger(stakes[lp].unbond_available_at, now + scfg.cooldown_secs)]
  <2>1. n \in Nat /\ n <= stakes[lp].staked /\ stakes' = [stakes EXCEPT ![lp] = i]
        /\ UNCHANGED <<scfg, slashed, now, bal>>
    BY SMTT(30), <1>2, StakingAssumption DEF Bond!request_unstake
  <2>2. /\ i \in Bond!StakeInfo /\ i.staked + i.unbonding = stakes[lp].staked + stakes[lp].unbonding
        /\ i.unbond_available_at >= stakes[lp].unbond_available_at
        /\ i.unbond_available_at >= now + scfg.cooldown_secs
    BY <1>0, <2>1 DEF Bond!StakeInfo, Bond!Larger
  <2> HIDE DEF i
  <2>3. IInv'
    BY Zenon, <1>0, <2>1, TokensMoved
  <2>4. BondType'
    BY ZenonT(60), <1>0, <2>1, <2>2 DEF BondType
  <2>5. \A s \in Nat, b \in Nat : s <= now /\ Covers(stakes[lp], s, b) => Covers(i, s, b)
    BY <1>0, <2>1, <2>2 DEF Covers, Bond!StakeInfo
  <2> QED BY ZenonT(60), <1>t, <2>1, <2>2, <2>3, <2>4, <2>5, BondsKeep
<1>3. CASE Bond!claim_unstake(lp)
  <2> DEFINE i == [stakes[lp] EXCEPT !.unbonding = 0]
  <2>1. stakes' = [stakes EXCEPT ![lp] = i] /\ UNCHANGED <<scfg, slashed, now>>
        /\ now >= stakes[lp].unbond_available_at /\ stakes[lp].unbonding <= bal[StakingContract]
        /\ bal' = Bond!Move(bal, StakingContract, lp, stakes[lp].unbonding)
    BY <1>3 DEF Bond!claim_unstake
  <2>2. /\ i \in Bond!StakeInfo /\ i.staked = stakes[lp].staked
        /\ stakes[lp].unbonding \in Nat /\ stakes[lp].unbond_available_at \in Nat
    BY <1>0 DEF Bond!StakeInfo
  <2> HIDE DEF i
  <2>3. IInv'
    BY SMTT(30), <1>0, <2>1, <2>2, TokensMoved
  <2>4. BondType'
    BY SMTT(30), <1>0, <2>1, <2>2 DEF BondType
  <2>5. \A s \in Nat, b \in Nat : now <= s + 4 * DAY /\ Covers(stakes[lp], s, b) => Covers(i, s, b)
    BY <1>0, <2>1, <2>2 DEF Covers, Bond!StakeInfo
  <2> QED BY ZenonT(60), <1>t, <2>1, <2>2, <2>3, <2>4, <2>5, BondsKeep
<1> QED BY ZenonT(60), <1>1, <1>2, <1>3 DEF Bond!LpStep

\* A new configuration keeps the cool-down longer than the longest remedy.
LEMMA ConfigStepKeeps ==
    ASSUME BondInv, Bond!ConfigStep, UNCHANGED <<cfg, trades, backing>>
    PROVE  BondInv'
<1>1. UNCHANGED <<stakes, slashed, bal, now>>
  BY DEF Bond!ConfigStep, Bond!set_config, Bond!set_paused
<1>2. scfg'.cooldown_secs \in Nat /\ scfg'.cooldown_secs > 4 * DAY
  <2>1. ASSUME NEW c \in Bond!StakingConfigInputs, Bond!set_config(c)
        PROVE  scfg'.cooldown_secs \in Nat /\ scfg'.cooldown_secs > 4 * DAY
    <3>1. scfg' = c /\ c.cooldown_secs \in Nat
      BY Zenon, <2>1, StakingAssumption DEF Bond!set_config, Bond!StakingConfigInputs
    <3>2. 4 * DAY + 1 <= c.cooldown_secs
      BY <2>1 DEF Bond!set_config, Bond!AcceptedConfig, Bond!MIN_COOLDOWN_SECS
    <3> QED BY <3>1, <3>2, TimeAssumption
  <2>2. ASSUME NEW p \in Pauses, Bond!set_paused(p) PROVE scfg'.cooldown_secs = scfg.cooldown_secs
    BY <2>2 DEF Bond!set_paused
  <2> QED BY <2>1, <2>2 DEF Bond!ConfigStep, BondInv, BondType
<1>3. IInv'
  BY <1>1, TokensMoved DEF BondInv
<1>4. BondType'
  BY SMTT(30), <1>1, <1>2 DEF BondInv, BondType
<1>5. AllCovered'
  BY Zenon, <1>1, CoveredNext DEF BondInv, AllCovered, Covered
<1>6. SlashIsJustified'
  BY <1>1 DEF BondInv, SlashIsJustified, Settled, Effective
<1> QED BY <1>3, <1>4, <1>5, <1>6 DEF BondInv

\* A slash takes from every settlement behind the bond no more than it takes
\* from the bond, staked funds first.
LEMMA SlashCovers ==
    ASSUME NEW i \in Bond!StakeInfo, NEW n \in Nat, n <= i.staked + i.unbonding, DAY \in Nat
    PROVE  /\ Bond!AfterSlash(i, n) \in Bond!StakeInfo
           /\ \A s \in Nat, b \in Nat : Covers(i, s, b) => Covers(Bond!AfterSlash(i, n), s, Max2(0, b - n))
<1> DEFINE from == IF n <= i.staked THEN n ELSE i.staked
           left == i.unbonding - (n - from)
           j == Bond!AfterSlash(i, n)
<1>1. i.staked \in Nat /\ i.unbonding \in Nat /\ i.unbond_available_at \in Nat
  BY DEF Bond!StakeInfo
<1>2. /\ j = [staked |-> i.staked - from, unbonding |-> left,
              unbond_available_at |-> IF left = 0 THEN 0 ELSE i.unbond_available_at]
  BY DEF Bond!AfterSlash
<1>3. from \in Nat /\ from <= i.staked /\ left \in Nat
  BY <1>1
<1>4. j \in Bond!StakeInfo
  BY SMTT(30), <1>1, <1>2, <1>3 DEF Bond!StakeInfo
<1>5. /\ j.staked = i.staked - from /\ j.unbonding = left
      /\ j.unbonding # 0 => j.unbond_available_at = i.unbond_available_at
      /\ j.staked + j.unbonding = i.staked + i.unbonding - n
      /\ j.staked \in Nat /\ j.unbonding \in Nat
      /\ n <= i.staked => j.staked = i.staked - n
  BY <1>1, <1>2, <1>3
<1> HIDE DEF j, from, left
<1>6. ASSUME NEW s \in Nat, NEW b \in Nat, Covers(i, s, b) PROVE Covers(j, s, Max2(0, b - n))
  <2>1. Max2(0, b - n) \in Nat /\ (Max2(0, b - n) = 0 \/ Max2(0, b - n) = b - n)
    BY DEF Max2
  <2>2. CASE i.staked >= b
    BY <1>1, <1>5, <2>1, <2>2 DEF Covers, Max2
  <2>3. CASE i.staked + i.unbonding >= b /\ i.unbond_available_at > s + 4 * DAY
    <3>1. CASE j.unbonding = 0
      BY SMTT(30), <1>1, <1>5, <2>1, <2>3, <3>1 DEF Covers
    <3>2. CASE j.unbonding # 0
      BY <1>1, <1>5, <2>1, <2>3, <3>2 DEF Covers
    <3> QED BY Zenon, <3>1, <3>2
  <2> QED BY <1>6, <2>2, <2>3 DEF Covers
<1> QED BY <1>4, <1>6 DEF j

\* A slash keeps the bond behind every settlement, counts against the trade it
\* is for and comes only after a verdict.
LEMMA SlashStepKeeps ==
    ASSUME BondInv, SlashStep
    PROVE  BondInv'
<1>a. PICK lp \in Lps, id \in DOMAIN trades, c \in StakingOperators :
        \E n \in 1..trades[id].usdc_amount :
        /\ UNCHANGED <<cfg, trades>> /\ Bond!slash(lp, id, n, c)
        /\ backing' = [i \in TradeIds |->
             IF i \in DOMAIN trades /\ Settled(trades[i]) /\ HolderOf(trades[i]) = lp
             THEN Max2(0, backing[i] - n) ELSE backing[i]]
  BY Zenon DEF SlashStep
<1>1. PICK n \in 1..trades[id].usdc_amount :
        /\ UNCHANGED <<cfg, trades>> /\ Bond!slash(lp, id, n, c)
        /\ backing' = [i \in TradeIds |->
             IF i \in DOMAIN trades /\ Settled(trades[i]) /\ HolderOf(trades[i]) = lp
             THEN Max2(0, backing[i] - n) ELSE backing[i]]
  BY Zenon, <1>a
<1> DEFINE t == trades[id]
           v == dispute_view(t)
           info == Bond!AfterSlash(stakes[lp], n)
<1>0. /\ IInv /\ BondType /\ now \in Nat /\ DAY \in Nat /\ StakingContract \in Users
      /\ stakes \in [Lps -> Bond!StakeInfo] /\ stakes[lp] \in Bond!StakeInfo
      /\ slashed \in [TradeIds -> Nat] /\ backing \in [TradeIds -> Nat] /\ id \in TradeIds
      /\ t \in Trade /\ DOMAIN trades \subseteq TradeIds
  BY TimeAssumption, StakingAssumption DEF BondInv, BondType, IInv, TypeOK
<1>2. [i \in DOMAIN trades |-> dispute_view(trades[i])][id] = v
  OBVIOUS
<1>3. /\ n > 0 /\ Bond!Slashable(v) /\ lp = Bond!Culprit(v) /\ n <= v.amount - slashed[id]
      /\ n <= stakes[lp].staked + stakes[lp].unbonding /\ n <= bal[StakingContract]
      /\ stakes' = [stakes EXCEPT ![lp] = info] /\ slashed' = [slashed EXCEPT ![id] = @ + n]
      /\ bal' = Bond!Move(bal, StakingContract, Bond!Victim(v), n) /\ UNCHANGED <<scfg, now>>
  BY Zenon, <1>1, <1>2 DEF Bond!slash
<1>4. n \in Nat
  <2>1. trades[id].usdc_amount \in Nat
    BY Zenon, <1>0 DEF t, Trade
  <2> QED BY ONLY <2>1, n \in 1..trades[id].usdc_amount
<1>5. Settled(t) /\ t.liability_established /\ v.amount = t.usdc_amount /\ Bond!Victim(v) \in Users
  BY Zenon, <1>0, <1>3 DEF Bond!Slashable, Bond!Victim, dispute_view, Settled, Trade
<1> HIDE DEF v, info, t
<1>6. IInv'
  BY ZenonT(60), <1>0, <1>1, <1>3, <1>4, <1>5, TokensMoved
<1>7. info \in Bond!StakeInfo /\ \A s \in Nat, b \in Nat : Covers(stakes[lp], s, b) => Covers(info, s, Max2(0, b - n))
  BY SMTT(30), <1>0, <1>3, <1>4, SlashCovers DEF info
<1>8. BondType'
  <2>1. \A b \in Nat : Max2(0, b - n) \in Nat
    BY <1>4 DEF Max2
  <2>2. backing' \in [TradeIds -> Nat]
    BY ZenonT(60), <1>0, <1>1, <2>1
  <2>3. slashed' \in [TradeIds -> Nat]
    BY <1>0, <1>3, <1>4
  <2>4. stakes' \in [Lps -> Bond!StakeInfo]
    BY Zenon, <1>0, <1>3, <1>7
  <2> QED BY SMTT(30), <1>0, <1>3, <2>2, <2>3, <2>4 DEF BondType
<1>9. AllCovered'
  <2>1. ASSUME NEW j \in DOMAIN trades, Settled(trades[j]), now <= trades[j].settled_at + 4 * DAY
        PROVE  IF HolderOf(trades[j]) \in Lps
               THEN Covers(stakes'[HolderOf(trades[j])], trades[j].settled_at, backing'[j])
               ELSE backing'[j] = 0
    <3>1. IF HolderOf(trades[j]) \in Lps
          THEN Covers(stakes[HolderOf(trades[j])], trades[j].settled_at, backing[j])
          ELSE backing[j] = 0
      BY Zenon, <2>1 DEF BondInv, AllCovered, Covered
    <3>2. j \in TradeIds /\ backing[j] \in Nat /\ trades[j].settled_at \in Nat
      BY ZenonT(60), <1>0 DEF IInv, TypeOK, Trade
    <3>3. CASE HolderOf(trades[j]) = lp
      <4>1. backing'[j] = Max2(0, backing[j] - n) /\ stakes'[lp] = info
        BY ZenonT(60), <1>0, <1>1, <1>3, <2>1, <3>2, <3>3
      <4> QED BY <1>7, <3>1, <3>2, <3>3, <4>1
    <3>4. CASE HolderOf(trades[j]) # lp
      BY ZenonT(60), <1>0, <1>1, <1>3, <3>1, <3>2, <3>4
    <3> QED BY Zenon, <3>3, <3>4
  <2>2. trades' = trades /\ now' = now
    BY Zenon, <1>1, <1>3
  <2> QED BY Zenon, <2>1, <2>2, CoveredNext
<1>10. SlashIsJustified'
  <2>1. ASSUME NEW j \in TradeIds, slashed'[j] > 0
        PROVE  /\ j \in DOMAIN trades /\ Settled(trades[j]) /\ trades[j].liability_established
               /\ slashed'[j] <= trades[j].usdc_amount
    <3>1. CASE j = id
      <4>1. slashed'[j] = slashed[id] + n /\ t.usdc_amount \in Nat
        BY ZenonT(60), <1>0, <1>3, <3>1 DEF Trade
      <4>2. slashed'[j] <= t.usdc_amount
        BY SMTT(30), <1>0, <1>3, <1>4, <1>5, <4>1
      <4> QED BY Zenon, <1>5, <3>1, <4>2 DEF t
    <3>2. CASE j # id
      <4>1. slashed'[j] = slashed[j]
        BY <1>0, <1>3, <3>2
      <4> QED BY <2>1, <4>1 DEF BondInv, SlashIsJustified
    <3> QED BY Zenon, <3>1, <3>2
  <2> QED BY Zenon, <1>1, <2>1 DEF SlashIsJustified, Settled, Effective
<1> QED BY Zenon, <1>6, <1>8, <1>9, <1>10 DEF BondInv

-----------------------------------------------------------------------------
(* Theorems *)

\* Where the bond behind every settlement is, in every reachable state of the
\* two contracts.
THEOREM BondInvariant == ESSpec => []BondInv
<1>1. ESInit => BondInv
  <2> SUFFICES ASSUME ESInit PROVE BondInv
    OBVIOUS
  <2>1. IInv /\ DOMAIN trades = {}
    BY Zenon, InitInv DEF ESInit, Init
  <2>2. scfg.cooldown_secs \in Nat /\ 4 * DAY + 1 <= scfg.cooldown_secs
    BY Zenon, StakingAssumption DEF ESInit, Bond!StakingInit, Bond!StakingConfigInputs, Bond!AcceptedConfig,
                             Bond!MIN_COOLDOWN_SECS
  <2>3. scfg.cooldown_secs > 4 * DAY
    BY <2>2, TimeAssumption
  <2>4. BondType
    BY <2>2, <2>3 DEF ESInit, Bond!StakingInit, BondType, Bond!StakeInfo
  <2>5. AllCovered /\ SlashIsJustified
    BY <2>1 DEF ESInit, Bond!StakingInit, AllCovered, SlashIsJustified
  <2> QED BY Zenon, <2>1, <2>4, <2>5 DEF BondInv
<1>2. BondInv /\ [ESNext]_allVars => BondInv'
  <2> SUFFICES ASSUME BondInv, [ESNext]_allVars PROVE BondInv'
    OBVIOUS
  <2>1. CASE EscrowStep
    BY <2>1, EscrowStepKeeps
  <2>2. CASE BondStep
    BY <2>2, ConfigStepKeeps, LpStepKeeps DEF BondStep
  <2>3. CASE SlashStep
    BY <2>3, SlashStepKeeps
  <2>4. CASE UNCHANGED allVars
    <3>1. UNCHANGED <<cfg, trades, bal, now, scfg, stakes, slashed, backing>>
      BY <2>4 DEF allVars, vars
    <3>2. IInv'
      BY Zenon, <3>1, TokensMoved DEF BondInv
    <3>3. AllCovered'
      BY ZenonT(60), <3>1, CoveredNext DEF BondInv, AllCovered, Covered
    <3>4. BondType' /\ SlashIsJustified'
      BY <3>1 DEF BondInv, BondType, SlashIsJustified, Settled, Effective
    <3> QED BY Zenon, <3>2, <3>3, <3>4 DEF BondInv
  <2> QED BY <2>1, <2>2, <2>3, <2>4 DEF ESNext
<1> QED BY <1>1, <1>2, PTL DEF ESSpec

\* What a party had staked when a settlement in its favour happened stays
\* within reach for as long as that settlement can be acted on
\* (request_unstake, claim_unstake and slash; the ceiling of resolve).
THEOREM BondOutlivesRemedyHolds == ESSpec => []BondOutlivesRemedy
<1>1. ASSUME BondInv PROVE BondOutlivesRemedy
  <2> SUFFICES ASSUME NEW id \in DOMAIN trades, Settled(trades[id]), now <= trades[id].slash_deadline
               PROVE  BondOf(HolderOf(trades[id])) >= backing[id]
    BY Zenon DEF BondOutlivesRemedy
  <2>1. /\ trades[id].slash_deadline <= trades[id].settled_at + 4 * DAY /\ now \in Nat /\ DAY \in Nat
        /\ trades[id].slash_deadline \in Nat /\ trades[id].settled_at \in Nat /\ backing[id] \in Nat
    BY ZenonT(60), <1>1, CeilingHolds, TimeAssumption DEF BondInv, RemedyCeiling, IInv, TypeOK, Trade, BondType
  <2>2. now <= trades[id].settled_at + 4 * DAY
    BY <2>1
  <2>3. Covered(trades[id], backing[id]) /\ stakes \in [Lps -> Bond!StakeInfo]
    BY Zenon, <1>1 DEF BondInv, AllCovered, BondType
  <2>4. CASE HolderOf(trades[id]) \in Lps
    <3>1. Covers(stakes[HolderOf(trades[id])], trades[id].settled_at, backing[id])
      BY Zenon, <2>2, <2>3, <2>4 DEF Covered
    <3>2. stakes[HolderOf(trades[id])].staked \in Nat /\ stakes[HolderOf(trades[id])].unbonding \in Nat
      <4>1. stakes[HolderOf(trades[id])] \in Bond!StakeInfo
        BY Zenon, <2>3, <2>4
      <4> QED BY ONLY <4>1 DEF Bond!StakeInfo
    <3>3. PICK i : i = stakes[HolderOf(trades[id])]
      BY Zenon
    <3>4. i.staked + i.unbonding >= backing[id]
      BY <2>1, <3>1, <3>2, <3>3 DEF Covers
    <3> QED BY Zenon, <2>4, <3>3, <3>4 DEF BondOf
  <2>5. CASE HolderOf(trades[id]) \notin Lps
    <3>1. backing[id] = 0 /\ BondOf(HolderOf(trades[id])) = 0
      BY Zenon, <2>2, <2>3, <2>5 DEF Covered, BondOf
    <3> QED BY ONLY <3>1
  <2> QED BY Zenon, <2>4, <2>5
<1> QED BY <1>1, BondInvariant, PTL

\* A bond is cut only for a settlement a verdict overturned, and by no more
\* than the trade moved (slash).
THEOREM SlashIsJustifiedHolds == ESSpec => []SlashIsJustified
<1>1. BondInv => SlashIsJustified
  BY DEF BondInv
<1> QED BY <1>1, BondInvariant, PTL
=============================================================================
