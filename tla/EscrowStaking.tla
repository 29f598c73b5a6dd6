---------------------------- MODULE EscrowStaking ----------------------------
(***************************************************************************)
(* The two contracts together: the staking contract reads the escrow's     *)
(* dispute_view across the contract boundary inside slash, and both move   *)
(* the same token under the same ledger clock.                             *)
(*                                                                         *)
(* `backing' is a history variable: for each settled trade, how much of    *)
(* the bond its money-holder had staked when it settled has not yet been   *)
(* slashed, on this trade or another.                                      *)
(***************************************************************************)
EXTENDS Escrow

CONSTANTS StakingContract, Lps, StakingOperators, StakeAmounts, MinStakes, Cooldowns

ASSUME StakingAssumption ==
    /\ StakingContract \in Users
    /\ StakingContract \notin Parties \cup LpWallets \cup {PlatformWallet}
    /\ Lps \subseteq Parties /\ StakingOperators \subseteq Users
    /\ StakeAmounts \subseteq Int /\ MinStakes \subseteq Int /\ Cooldowns \subseteq Nat

VARIABLES scfg, stakes, slashed, backing

Bond == INSTANCE Staking WITH
          views <- [id \in DOMAIN trades |-> dispute_view(trades[id])]

allVars == <<vars, scfg, stakes, slashed, backing>>

\* Who would pay if the settlement of t were overturned.
HolderOf(t) == Bond!Culprit(dispute_view(t))

StakeOf(a) == IF a \in Lps THEN stakes[a].staked ELSE 0
BondOf(a) == IF a \in Lps THEN stakes[a].staked + stakes[a].unbonding ELSE 0

JustSettled(id) ==
    /\ id \in DOMAIN trades /\ ~Settled(trades[id]) /\ Settled(trades'[id])

ESInit ==
    /\ Init
    /\ Bond!StakingInit
    /\ backing = [id \in TradeIds |-> 0]

EscrowStep ==
    /\ Next
    /\ backing' = [id \in TradeIds |->
         IF JustSettled(id) THEN StakeOf(HolderOf(trades'[id])) ELSE backing[id]]
    /\ UNCHANGED <<scfg, stakes, slashed>>

BondStep ==
    /\ UNCHANGED <<cfg, trades, backing>>
    /\ Bond!ConfigStep \/ \E lp \in Lps : Bond!LpStep(lp)

SlashStep ==
    \E lp \in Lps, id \in DOMAIN trades, caller \in StakingOperators :
    \E amount \in 1..trades[id].usdc_amount :
      /\ UNCHANGED <<cfg, trades>>
      /\ Bond!slash(lp, id, amount, caller)
      /\ backing' = [i \in TradeIds |->
           IF i \in DOMAIN trades /\ Settled(trades[i]) /\ HolderOf(trades[i]) = lp
           THEN Max2(0, backing[i] - amount) ELSE backing[i]]

ESNext == EscrowStep \/ BondStep \/ SlashStep

ESSpec == ESInit /\ [][ESNext]_allVars

-----------------------------------------------------------------------------
(* What the two contracts promise together *)

\* What a party had staked when a settlement in its favour happened stays
\* within the resolver's reach for as long as that settlement can still be
\* acted on: requesting an unstake after it cannot outrun the slash, because
\* the cool-down is longer than the longest remedy the escrow can produce.
BondOutlivesRemedy ==
    \A id \in DOMAIN trades :
      (Settled(trades[id]) /\ now <= trades[id].slash_deadline)
      => BondOf(HolderOf(trades[id])) >= backing[id]

\* The staking contract holds exactly the bonds and what is unbonding.
BondsAreFunded ==
    bal[StakingContract] = MapThenSumSet(BondOf, Lps)

\* A bond is cut only for a settlement the escrow's verdict overturned, and all
\* the cuts for one trade together never exceed what the trade moved.
SlashIsJustified ==
    \A id \in TradeIds : slashed[id] > 0 =>
      /\ id \in DOMAIN trades
      /\ Settled(trades[id])
      /\ trades[id].liability_established
      /\ slashed[id] <= trades[id].usdc_amount
=============================================================================
