----------------------------- MODULE MCRemedies ------------------------------
(* What stands behind a complaint, three things side by side: the two        *)
(* contracts on one trade, the custody promise on several deposits that      *)
(* share payees and the contract's balance, and a filing on an order row.    *)
(* `part' says which one runs, the others stay as they start.                *)
EXTENDS EscrowStaking

CONSTANTS VaultTrades, VaultUsers, VaultAmounts, VaultLpFees, VaultPlatformFee, VaultSupply

VARIABLES part, terms, stage, held,
    chain, feed, row, cursor, applied, ix, calls, cache, losses, faults, written

MCEarlyLists == {{}}

Vault == INSTANCE EscrowCustody WITH TradeIds <- VaultTrades, Users <- VaultUsers, bal <- held

vaultVars == <<terms, stage, held>>

VaultTerms ==
    {d \in [provider : VaultUsers, recipient : VaultUsers, amount : VaultAmounts,
            platform_fee_bps : {VaultPlatformFee}, lp_fee_bps : VaultLpFees, lp_wallet : VaultUsers] :
       d.provider # d.recipient}

VaultDeposit(id) ==
    \E d \in VaultTerms :
      /\ d.amount <= held[d.provider]
      /\ terms' = [i \in DOMAIN terms \cup {id} |-> IF i = id THEN d ELSE terms[i]]
      /\ Vault!Deposit(id)

VaultNext ==
    \/ \E id \in VaultTrades : VaultDeposit(id)
    \/ \E id \in DOMAIN stage :
         Vault!Claim(id) \/ Vault!Contest(id) \/ Vault!Release(id) \/ Vault!Refund(id)

Order == INSTANCE OrderSync WITH Calls <- {"c"}, Ops <- {"file"}, Raisers <- {"user"},
           Matches <- {TRUE}, MaxTx <- 3, MaxFaults <- 1

orderVars == <<chain, feed, row, cursor, applied, ix, calls, cache, losses, faults, written>>

MCInit ==
    /\ part \in {"contracts", "vault", "filing"}
    /\ ESInit
    /\ held = [a \in VaultUsers \cup {EscrowContract} |-> IF a = EscrowContract THEN 0 ELSE VaultSupply]
    /\ Vault!CInit
    /\ Order!Init

MCNext ==
    \/ part = "contracts" /\ ESNext /\ UNCHANGED <<part, vaultVars, orderVars>>
    \/ part = "vault" /\ VaultNext /\ UNCHANGED <<part, allVars, orderVars>>
    \/ part = "filing" /\ Order!Next /\ UNCHANGED <<part, allVars, vaultVars>>

MCSpec == MCInit /\ [][MCNext]_<<part, allVars, vaultVars, orderVars>>

(* The escrow's balance is the sum of the deposits still held, on several    *)
(* trades at once (create_trade and the settlements of the escrow contract): *)
(* nothing paid out of one trade comes from another's deposit.               *)
HeldInFull == Vault!HeldInFull

(* A filing on record is never replaced by another party's, and leaves the   *)
(* row only with the first application of a verdict: a replayed verdict does *)
(* not touch the filing of a later round (postDispute, closeDisputeRound).   *)
FilingStands == Order!FilingStands
=============================================================================
