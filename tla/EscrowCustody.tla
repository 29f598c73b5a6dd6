---------------------------- MODULE EscrowCustody ----------------------------
(***************************************************************************)
(* What the escrow contract promises about the money, whatever the         *)
(* deadlines, titles and verdicts behind it: a deposit is held once, is    *)
(* paid out once and in full, on terms fixed when it was made, and the     *)
(* way out depends only on the stage the trade has reached.                *)
(*                                                                         *)
(*   open      deposited; may be claimed, contested, released or refunded  *)
(*   claimed   fiat reported paid; never refunded without being contested  *)
(*   contested disputed before settlement; ends released or refunded       *)
(*   released, refunded   final                                            *)
(***************************************************************************)
EXTENDS Integers, FiniteSetsExt

CONSTANTS TradeIds, Users, EscrowContract, PlatformWallet

VARIABLES
    terms,      \* the terms of each deposit made so far
    stage,      \* its stage
    bal         \* balances

custodyVars == <<terms, stage, bal>>

Held == {"open", "claimed", "contested"}

Share(amount, bps) == (amount * bps) \div 10000

\* What address a gains when the deposit d is released, and when refunded.
ReleaseGain(d, a) ==
    LET fee == Share(d.amount, d.platform_fee_bps)
        lp == Share(d.amount, d.lp_fee_bps)
    IN  (IF a = PlatformWallet THEN fee ELSE 0)
      + (IF a = d.lp_wallet THEN lp ELSE 0)
      + (IF a = d.recipient THEN d.amount - fee - lp ELSE 0)
      - (IF a = EscrowContract THEN d.amount ELSE 0)

RefundGain(d, a) ==
    (IF a = d.provider THEN d.amount ELSE 0)
  - (IF a = EscrowContract THEN d.amount ELSE 0)

CInit ==
    /\ terms = [i \in {} |-> {}]
    /\ stage = [i \in {} |-> {}]
    /\ bal \in [Users \cup {EscrowContract} -> Nat]
    /\ bal[EscrowContract] = 0

Deposit(id) ==
    /\ id \notin DOMAIN terms
    /\ DOMAIN terms' = DOMAIN terms \cup {id}
    /\ \A i \in DOMAIN terms : terms'[i] = terms[i]
    /\ stage' = [i \in DOMAIN stage \cup {id} |-> IF i = id THEN "open" ELSE stage[i]]
    /\ LET d == terms'[id] IN
       /\ d.amount > 0
       /\ bal' = [a \in DOMAIN bal |-> bal[a] - RefundGain(d, a)]

Advance(id, from, to) ==
    /\ stage[id] \in from
    /\ stage' = [stage EXCEPT ![id] = to]
    /\ UNCHANGED terms

Claim(id) == Advance(id, {"open"}, "claimed") /\ UNCHANGED bal

Contest(id) == Advance(id, {"open", "claimed"}, "contested") /\ UNCHANGED bal

Release(id) ==
    /\ Advance(id, Held, "released")
    /\ bal' = [a \in DOMAIN bal |-> bal[a] + ReleaseGain(terms[id], a)]

\* Variant: a refund does not look at the stage it starts from.
Refund_any_stage(id) ==
    /\ Advance(id, {"open", "contested", "released"}, "refunded")
    /\ bal' = [a \in DOMAIN bal |-> bal[a] + RefundGain(terms[id], a)]

Refund(id) ==
    /\ Advance(id, {"open", "contested"}, "refunded")
    /\ bal' = [a \in DOMAIN bal |-> bal[a] + RefundGain(terms[id], a)]

CNext ==
    \/ \E id \in TradeIds : Deposit(id)
    \/ \E id \in DOMAIN stage : Claim(id) \/ Contest(id) \/ Release(id) \/ Refund(id)

CSpec == CInit /\ [][CNext]_custodyVars

\* The balance is the sum of the deposits still held: what the contract owes is
\* there, and nothing paid out of one trade comes from another's deposit.
HeldInFull ==
    bal[EscrowContract] =
      MapThenSumSet(LAMBDA id : terms[id].amount,
                    {id \in DOMAIN stage : stage[id] \in Held})
=============================================================================
