------------------------------- MODULE MCLive --------------------------------
(* Trades and order rows on their way to a settlement.  `part' says which    *)
(* runs: one trade of the contract; one order row through a dispute with a   *)
(* reader; one order row under every job and operation in turn.              *)
EXTENDS Escrow

CONSTANTS Calls, Ops, Raisers, Matches, MaxTx, MaxFaults

VARIABLES part, chain, feed, row, cursor, applied, ix, calls, cache, losses, faults, written

rowVars == <<chain, feed, row, cursor, applied, ix, calls, cache, losses, faults, written>>
MCVars == <<part, vars, rowVars>>

MCEarlyLists == {{}, Parties}

Disputes == INSTANCE OrderSync
Jobs == INSTANCE OrderSync WITH MaxTx <- 2,
          Ops <- {"refresh", "cancel", "expire", "autorefund", "reconcile", "attest", "file"}


MCInit ==
    /\ part \in {"trade", "disputes", "jobs"}
    /\ Init /\ Disputes!Init
    /\ part # "trade" => cfg.admin = CHOOSE a \in Admins : TRUE

MCNext ==
    \/ part = "trade" /\ Next /\ UNCHANGED <<part, rowVars>>
    \/ part = "disputes" /\ Disputes!Next /\ UNCHANGED <<part, vars>>
    \/ part = "jobs" /\ Jobs!Next /\ UNCHANGED <<part, vars>>

\* Each part under the fairness of its own module.
TradePart(A) == part = "trade" /\ A /\ UNCHANGED <<part, rowVars>>
RowPart(A) == part # "trade" /\ A /\ UNCHANGED <<part, vars>>
MCFairness ==
    /\ WF_MCVars(TradePart(Tick) \/ RowPart(Disputes!IndexerStep))
    /\ \A id \in TradeIds :
         /\ WF_MCVars(TradePart(Known(id) /\ refund(id)))
         /\ WF_MCVars(TradePart(Known(id) /\ AdminVerdict(id)))
         /\ WF_MCVars(TradePart(Known(id) /\ RecipientComplains(id)))

MCFairSpec == MCInit /\ [][MCNext]_MCVars /\ MCFairness

(* What a run of the rows has to show: OrderSync's property of that name.    *)
SettlementReachesTheRow == Disputes!SettlementReachesTheRow
=============================================================================
