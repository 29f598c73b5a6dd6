----------------------------- MODULE OrderSync ------------------------------
(***************************************************************************)
(* One order row of the coordinator and everything that writes it from the *)
(* chain: the indexer, the refresh behind every read of an order, and the  *)
(* operations that cancel, expire, refund, recover, attest and file.       *)
(*                                                                         *)
(* A step runs from one await to the next.  What a writer read before an   *)
(* await it still holds after it, so between its read of the row, its read *)
(* of the chain and its write any other writer may act.  A database        *)
(* statement or transaction is one step.  The process may crash; the row,  *)
(* the cursor and the ledger of applied verdicts survive.                  *)
(*                                                                         *)
(* Left out as data: amounts, deadlines and their clock (an operation that *)
(* waits for one may begin at any time), the text of a filing, and         *)
(* notifications, whose failures the code swallows.                        *)
(***************************************************************************)
EXTENDS TradeFeed

CONSTANTS
    Calls,       \* slots for operations in flight
    Ops,         \* the operations that may run
    MaxFaults    \* bound: crashes and failed indexer steps

VARIABLES
    row,         \* the order row
    cursor,      \* IndexerState.cursor, as a position in feed
    applied,     \* IndexedEvent: positions of the verdicts already claimed
    ix,          \* the indexer's poll: its place and what it read
    calls,       \* the operations in flight
    cache,       \* statusCache: <<>> or <<the last view read>>
    losses,      \* disputesLost of the user and of the provider
    faults,      \* crashes and failed indexer steps so far
    written      \* history: position of the verdict the row records

syncVars == <<row, cursor, applied, ix, calls, cache, losses, faults, written>>
vars == <<feedVars, syncVars>>

-----------------------------------------------------------------------------
(* Statuses *)

BOUND_ON_CHAIN == ChainStatuses
PRE_CHAIN_STATUSES == {"CREATED", "MATCHED", "AWAITING_ONCHAIN"}
REFRESH_FROM_CHAIN_STATUSES ==
    {"MATCHED", "AWAITING_ONCHAIN", "FUNDED", "FIAT_PAID", "DISPUTED"}
STATUS_ORDER == <<"CREATED", "MATCHED", "AWAITING_ONCHAIN", "FUNDED", "FIAT_PAID",
                  "DISPUTED", "RELEASED", "REFUNDED", "EXPIRED", "CANCELLED">>

notYetBoundOnChain(s) == s \notin BOUND_ON_CHAIN

indexOf(s) == CHOOSE i \in DOMAIN STATUS_ORDER : STATUS_ORDER[i] = s

isAhead(new, current) == indexOf(new) > indexOf(current)

EVENT_STATUS ==
    [trade_created |-> "FUNDED", fiat_paid |-> "FIAT_PAID", released |-> "RELEASED",
     early_released |-> "RELEASED", refunded |-> "REFUNDED", disputed |-> "DISPUTED"]

STATUS_BEFORE_without_dispute(target) ==
    PRE_CHAIN_STATUSES \cup {"EXPIRED", "CANCELLED"} \cup
    {s \in {"FUNDED", "FIAT_PAID"} : indexOf(s) < indexOf(target)}

\* The statuses from which an event may move the row to its target.
STATUS_BEFORE(target) ==
    PRE_CHAIN_STATUSES \cup {"EXPIRED", "CANCELLED"} \cup
    {s \in {"FUNDED", "FIAT_PAID", "DISPUTED"} : indexOf(s) < indexOf(target)}

-----------------------------------------------------------------------------
(* Reading the chain *)

NoView == [status |-> "NONE", liable |-> FALSE, matches |-> FALSE]

\* What get_trade returns now; NoView stands for null.
getTradeStatusStrict ==
    [status |-> chain.status, liable |-> chain.liable,
     matches |-> chain.matches /\ chain.status # "NONE"]

\* The cached read answers v: from the cache, or from the chain and then kept.
\* A failed read is kept as null.
getTradeStatus(v) ==
    \/ cache = <<v>> /\ UNCHANGED cache
    \/ /\ cache = <<>>
       /\ v \in {getTradeStatusStrict, NoView}
       /\ cache' = <<v>>

\* What a cached read may answer.
Readable == {getTradeStatusStrict, NoView} \cup {cache[i] : i \in DOMAIN cache}

\* Four seconds pass.
CacheExpires ==
    /\ cache # <<>>
    /\ cache' = <<>>
    /\ UNCHANGED <<feedVars, row, cursor, applied, ix, calls, losses, faults, written>>

\* An order not yet tied to a trade accepts only one that carries its terms.
tradeBindsToOrder(v, s) == notYetBoundOnChain(s) => v.matches

settlementFieldsFrom_no_outcome(v, r) ==
    IF v.status \notin SettledStatuses THEN r
    ELSE [r EXCEPT !.settledAt = TRUE, !.liable = v.liable]

settlementFieldsFrom(v, r) ==
    IF v.status \notin SettledStatuses THEN r
    ELSE [r EXCEPT !.settledStatus = v.status, !.settledAt = TRUE, !.liable = v.liable]

\* The row as an operation that trusts the view v writes it.
Mirror(v, r) == [settlementFieldsFrom(v, r) EXCEPT !.status = v.status]

-----------------------------------------------------------------------------
(* The indexer *)

NoCall == [op |-> "none", by |-> Null, pc |-> "idle", seen |-> Null, ok |-> FALSE,
           view |-> NoView]
IdleIx == [pc |-> "idle", pos |-> 0, last |-> 0, seen |-> Null, view |-> NoView]

Init ==
    /\ FeedInit
    /\ row = [status |-> "MATCHED", settledStatus |-> Null, settledAt |-> FALSE,
              hash |-> 0, resolution |-> Null, liable |-> FALSE, disputeBy |-> Null,
              onChainDisputedBy |-> Null, disputeLossAccrued |-> FALSE]
    /\ cursor = 0
    /\ applied = {}
    /\ ix = IdleIx
    /\ calls = [c \in Calls |-> NoCall]
    /\ cache = <<>>
    /\ losses = [user |-> 0, lp |-> 0] /\ faults = 0 /\ written = 0

ev == feed[ix.pos]
Settling == ev.name \in {"released", "early_released", "refunded"}

\* The for loop of index: the next event of the batch, or its end.
NextEvent ==
    IF ix.pos < ix.last
    THEN [IdleIx EXCEPT !.pc = "row", !.pos = ix.pos + 1, !.last = ix.last]
    ELSE [IdleIx EXCEPT !.pc = "store", !.pos = ix.pos, !.last = ix.last]

At(pc) == [ix EXCEPT !.pc = pc]

\* poll: one at a time; the events after the cursor.
Poll ==
    /\ ix.pc = "idle"
    /\ cursor < Len(feed)
    /\ ix' = [IdleIx EXCEPT !.pc = "row", !.pos = cursor + 1, !.last = Len(feed)]
    /\ UNCHANGED <<feedVars, row, cursor, applied, calls, cache, losses, faults, written>>

\* Where applyEvent goes with an order it found at status s with hash h: a
\* verdict, a settlement and a dispute of a settled order read the chain first;
\* a settlement the row already shows only lacks its hash.
Branch(s, h) ==
    IF ev.name = "resolved" THEN "read"
    ELSE LET target == EVENT_STATUS[ev.name] IN
      CASE ev.name = "disputed" -> IF s \in SettledStatuses THEN "read" ELSE "write"
        [] Settling /\ s = target /\ h = 0 -> "backfill"
        [] s \in STATUS_BEFORE(target) -> IF Settling THEN "read" ELSE "write"
        [] OTHER -> "skip"

Goto(pc, s) ==
    ix' = IF pc = "skip" THEN NextEvent ELSE [At(pc) EXCEPT !.seen = s]

\* applyEvent loads the order; one not yet bound must match the trade first.
LoadOrder ==
    /\ ix.pc = "row"
    /\ IF notYetBoundOnChain(row.status)
       THEN Goto("bind", row.status)
       ELSE Goto(Branch(row.status, row.hash), row.status)
    /\ UNCHANGED <<feedVars, row, cursor, applied, calls, cache, losses, faults, written>>

\* bindTradeToOrder.  An unbound order is at no settled status, so its hash
\* does not matter to the branch.
BindTradeToOrder ==
    /\ ix.pc = "bind"
    /\ IF getTradeStatusStrict.matches
       THEN Goto(Branch(ix.seen, 0), ix.seen)
       ELSE ix' = NextEvent
    /\ UNCHANGED <<feedVars, row, cursor, applied, calls, cache, losses, faults, written>>

\* The read for a settlement's deadlines: whatever it says, the event is applied.
ReadForDeadlines ==
    /\ ix.pc = "read"
    /\ Settling \/ (ev.name = "resolved" /\ ~ev.post)
    /\ \E v \in Readable : getTradeStatus(v)
    /\ ix' = At("write")
    /\ UNCHANGED <<feedVars, row, cursor, applied, calls, losses, faults, written>>

\* A dispute of a settled order is applied only while the chain shows it.
ReadForDispute ==
    /\ ix.pc = "read" /\ ev.name = "disputed"
    /\ ix' = IF chain.status = "DISPUTED" THEN At("write") ELSE NextEvent
    /\ UNCHANGED <<feedVars, row, cursor, applied, calls, cache, losses, faults, written>>

\* A verdict after settlement is claimed and dropped if a later round is open.
ReadForVerdict ==
    /\ ix.pc = "read" /\ ev.name = "resolved" /\ ev.post
    /\ IF chain.status \in SettledStatuses
       THEN /\ ix' = [At("write") EXCEPT !.view = getTradeStatusStrict]
            /\ UNCHANGED applied
       ELSE /\ ix' = NextEvent
            /\ applied' = applied \cup {ix.pos}
    /\ UNCHANGED <<feedVars, row, cursor, calls, cache, losses, faults, written>>

\* A status event: a guarded write; a settlement that lost the race looks
\* whether the row still lacks the hash.
WriteStatus ==
    /\ ix.pc = "write" /\ ev.name \notin {"disputed", "resolved"}
    /\ LET target == EVENT_STATUS[ev.name]
           moved == [row EXCEPT !.status = target]
       IN  IF row.status \in STATUS_BEFORE(target)
           THEN /\ row' = IF ~Settling THEN moved
                          ELSE [moved EXCEPT !.settledStatus = target, !.settledAt = TRUE,
                                             !.hash = ev.tx]
                /\ ix' = NextEvent
           ELSE /\ ix' = IF Settling THEN At("backfill") ELSE NextEvent
                /\ UNCHANGED row
    /\ UNCHANGED <<feedVars, cursor, applied, calls, cache, losses, faults, written>>

BackfillSettlementHash ==
    /\ ix.pc = "backfill"
    /\ row' = IF row.status = EVENT_STATUS[ev.name] /\ row.hash = 0
              THEN [row EXCEPT !.hash = ev.tx] ELSE row
    /\ ix' = NextEvent
    /\ UNCHANGED <<feedVars, cursor, applied, calls, cache, losses, faults, written>>

WriteDispute ==
    /\ ix.pc = "write" /\ ev.name = "disputed"
    /\ IF row.status \in (IF ix.seen \in SettledStatuses THEN SettledStatuses
                          ELSE STATUS_BEFORE("DISPUTED"))
       THEN row' = [row EXCEPT !.status = "DISPUTED"] /\ ix' = At("meta")
       ELSE UNCHANGED row /\ ix' = NextEvent
    /\ UNCHANGED <<feedVars, cursor, applied, calls, cache, losses, faults, written>>

ReconcileDisputeMetadata ==
    /\ ix.pc = "meta"
    /\ row' = [row EXCEPT !.onChainDisputedBy = ev.by]
    /\ ix' = NextEvent
    /\ UNCHANGED <<feedVars, cursor, applied, calls, cache, losses, faults, written>>

VerdictName == IF ev.released THEN "released" ELSE "refunded"

closeDisputeRound(r) == [r EXCEPT !.disputeBy = Null, !.onChainDisputedBy = Null]

VerdictMayWrite_settled_only(target) == row.status = target /\ row.resolution = Null

\* The rows a verdict before settlement may write: one no verdict has reached.
VerdictMayWrite(target) ==
    row.status \in STATUS_BEFORE(target) \cup {target} /\ row.resolution = Null

Unclaimed_always(pos) == TRUE

\* claimEvent: the first to insert the event's id applies the verdict.
Unclaimed(pos) == pos \notin applied

\* applyResolvedEvent: claim, write and close the round in one transaction.
\* Before settlement the write is guarded; after it, it is not, and the status
\* is the one read before the transaction.
WriteVerdict ==
    /\ ix.pc = "write" /\ ev.name = "resolved"
    /\ LET target == IF ev.released THEN "RELEASED" ELSE "REFUNDED"
           verdict == IF ev.post
                      THEN Mirror(ix.view, row)
                      ELSE [row EXCEPT !.status = target, !.settledStatus = target,
                                       !.settledAt = TRUE, !.hash = ev.tx]
       IN  IF Unclaimed(ix.pos) /\ (ev.post \/ VerdictMayWrite(target))
           THEN /\ row' = closeDisputeRound([verdict EXCEPT !.resolution = VerdictName])
                /\ written' = ix.pos
                /\ ix' = At("accrue")
           ELSE /\ ix' = NextEvent
                /\ UNCHANGED <<row, written>>
    /\ applied' = applied \cup {ix.pos}
    /\ UNCHANGED <<feedVars, cursor, calls, cache, losses, faults>>

\* The loser of a verdict.  The order is a top-up: the user loses a refund, and
\* the provider a release (a withdrawal is the mirror image).
Loser(resolution) == IF resolution = "refunded" THEN "user" ELSE "lp"

accrue_unflagged ==
    /\ row' = [row EXCEPT !.disputeLossAccrued = TRUE]
    /\ losses' = [losses EXCEPT ![Loser(VerdictName)] = @ + 1]

\* Every verdict has a loser, and the indexer counts one loss in an order's life.
accrue ==
    /\ row' = [row EXCEPT !.disputeLossAccrued = TRUE]
    /\ losses' = IF row.disputeLossAccrued THEN losses
                 ELSE [losses EXCEPT ![Loser(VerdictName)] = @ + 1]

AccrueDisputeLoss ==
    /\ ix.pc = "accrue"
    /\ accrue
    /\ ix' = NextEvent
    /\ UNCHANGED <<feedVars, cursor, applied, calls, cache, faults, written>>

\* An error while accruing is logged and swallowed.
AccrualFails ==
    /\ ix.pc = "accrue" /\ faults < MaxFaults
    /\ faults' = faults + 1
    /\ ix' = NextEvent
    /\ UNCHANGED <<feedVars, row, cursor, applied, calls, cache, losses, written>>

StoreCursor ==
    /\ ix.pc = "store"
    /\ cursor' = ix.last
    /\ ix' = IdleIx
    /\ UNCHANGED <<feedVars, row, applied, calls, cache, losses, faults, written>>

\* A read or a statement fails: the poll ends and the cursor stays.
PollFails ==
    /\ ix.pc # "idle" /\ faults < MaxFaults
    /\ faults' = faults + 1
    /\ ix' = IdleIx
    /\ UNCHANGED <<feedVars, row, cursor, applied, calls, cache, losses, written>>

IndexerStep ==
    \/ Poll \/ LoadOrder \/ BindTradeToOrder
    \/ ReadForDeadlines \/ ReadForDispute \/ ReadForVerdict
    \/ WriteStatus \/ BackfillSettlementHash \/ WriteDispute
    \/ ReconcileDisputeMetadata \/ WriteVerdict \/ AccrueDisputeLoss \/ StoreCursor

-----------------------------------------------------------------------------
(* The operations of the coordinator *)

\* Jobs that skip a tick while the previous one runs, and attestations, of
\* which an order has at most one in flight.
OneAtATime == {"expire", "autorefund", "reconcile", "attest"}

\* The rows each operation starts from.
Candidate(op) ==
    CASE op \in {"refresh", "cancel"} -> row.status \in REFRESH_FROM_CHAIN_STATUSES
      [] op = "expire" -> row.status \in PRE_CHAIN_STATUSES
      [] op \in {"autorefund", "attest"} -> row.status = "FUNDED"
      [] op = "reconcile" -> /\ row.status \in {"CANCELLED", "EXPIRED"}
                             /\ row.hash = 0 /\ ~row.settledAt
      [] op = "file" -> TRUE

canDispute(r) ==
    r.status = "FIAT_PAID" \/ (r.status \in SettledStatuses /\ r.settledAt)

\* Whether a filing goes on from the row it holds; building the transaction
\* asks only whether the order can be disputed.
MayFile(op, r) == canDispute(r) /\ (op = "file" => r.disputeBy = Null)

\* An operation holding the row: a filing refreshes an order that can have
\* moved on, the attestation goes straight to the chain.
Holding(op, by) ==
    [NoCall EXCEPT !.op = op, !.by = by, !.seen = row.status,
       !.ok = op \in {"file", "build"} /\ MayFile(op, row),
       !.pc = CASE op = "attest" -> "submit"
                [] op \in {"file", "build"} /\ row.status \notin REFRESH_FROM_CHAIN_STATUSES
                     -> "check"
                [] OTHER -> "read"]

Become(c, s) == calls' = [calls EXCEPT ![c] = s]
Step(c, pc) == Become(c, [calls[c] EXCEPT !.pc = pc])
Return(c) == Become(c, NoCall)

Begin(c) ==
    /\ calls[c].pc = "idle"
    /\ \E op \in Ops :
         /\ Candidate(op)
         /\ op \in OneAtATime => \A d \in Calls : calls[d].op # op
         /\ \E by \in (IF op = "file" THEN {"user", "lp"} ELSE {Null}) :
              Become(c, Holding(op, by))
    /\ UNCHANGED <<feedVars, row, cursor, applied, ix, cache, losses, faults, written>>

\* An operation gives up: a read, a simulation or a submission failed, a window
\* closed, or the caller went away.  A submission may have landed all the same.
CallFails(c) ==
    /\ calls[c].pc # "idle"
    /\ Return(c)
    /\ UNCHANGED <<feedVars, row, cursor, applied, ix, cache, losses, faults, written>>

\* refreshOrderStatus, on its own and inside a filing: a cached read, and a
\* write only if the chain is ahead of the row that was read.
Refreshing == {"refresh", "file", "build"}

RefreshRead(c) ==
    /\ calls[c].pc = "read" /\ calls[c].op \in Refreshing
    /\ \E v \in Readable :
         /\ getTradeStatus(v)
         /\ LET s == calls[c].seen IN
            CASE v # NoView /\ tradeBindsToOrder(v, s) /\ isAhead(v.status, s) ->
                   Become(c, [calls[c] EXCEPT !.pc = "write", !.view = v])
              [] OTHER -> IF calls[c].op = "refresh" THEN Return(c) ELSE Step(c, "check")
    /\ UNCHANGED <<feedVars, row, cursor, applied, ix, losses, faults, written>>

RefreshWrite(c) ==
    /\ calls[c].pc = "write" /\ calls[c].op \in Refreshing
    /\ row' = IF row.status = calls[c].seen THEN Mirror(calls[c].view, row) ELSE row
    /\ IF calls[c].op = "refresh" THEN Return(c) ELSE Step(c, "reread")
    /\ UNCHANGED <<feedVars, cursor, applied, ix, cache, losses, faults, written>>

\* A filing after its refresh: it checks the order it now holds, then builds
\* the transaction, which loads, refreshes and checks the order once more.
FileCheck(c) ==
    /\ calls[c].pc \in {"check", "reread"}
    /\ LET op == calls[c].op
           ok == IF calls[c].pc = "reread" THEN MayFile(op, row) ELSE calls[c].ok
       IN  CASE ~ok -> Return(c)
             [] ok /\ op = "file" -> Become(c, Holding("build", calls[c].by))
             [] ok /\ op = "build" -> Step(c, "simulate")
    /\ UNCHANGED <<feedVars, row, cursor, applied, ix, cache, losses, faults, written>>

\* The network simulates raise_dispute.  A refusal for the trade's state drops
\* the cached view.
FileSimulate(c) ==
    /\ calls[c].pc = "simulate"
    /\ IF Raisable(calls[c].by)
       THEN Step(c, "claim") /\ UNCHANGED cache
       ELSE /\ Return(c)
            /\ cache' = IF chain.status = "DISPUTED" THEN <<>> ELSE cache
    /\ UNCHANGED <<feedVars, row, cursor, applied, ix, losses, faults, written>>

\* postDispute records the filing if no other is on record.
FileClaim(c) ==
    /\ calls[c].pc = "claim"
    /\ row' = IF row.disputeBy = Null THEN [row EXCEPT !.disputeBy = calls[c].by] ELSE row
    /\ Return(c)
    /\ UNCHANGED <<feedVars, cursor, applied, ix, cache, losses, faults, written>>

\* cancelOrder: a strict read.  A chain that is ahead is written to the row
\* whatever the row has become; otherwise the order is cancelled if it still
\* can be.
CancelRead(c) ==
    /\ calls[c].pc = "read" /\ calls[c].op = "cancel"
    /\ LET v == getTradeStatusStrict
           s == calls[c].seen
       IN  CASE v # NoView /\ tradeBindsToOrder(v, s) /\ isAhead(v.status, s) ->
                  Become(c, [calls[c] EXCEPT !.pc = "overwrite", !.view = v])
             [] OTHER -> IF s \in PRE_CHAIN_STATUSES THEN Step(c, "write") ELSE Return(c)
    /\ UNCHANGED <<feedVars, row, cursor, applied, ix, cache, losses, faults, written>>

CancelOverwrite(c) ==
    /\ calls[c].pc = "overwrite"
    /\ row' = Mirror(calls[c].view, row)
    /\ Return(c)
    /\ UNCHANGED <<feedVars, cursor, applied, ix, cache, losses, faults, written>>

CloseIfPreChain_always(status) == [row EXCEPT !.status = status]

\* An order not yet on chain is closed; any other is left as it is.
CloseIfPreChain(status) ==
    IF row.status \in PRE_CHAIN_STATUSES THEN [row EXCEPT !.status = status] ELSE row

CancelWrite(c) ==
    /\ calls[c].pc = "write" /\ calls[c].op = "cancel"
    /\ row' = CloseIfPreChain("CANCELLED")
    /\ Return(c)
    /\ UNCHANGED <<feedVars, cursor, applied, ix, cache, losses, faults, written>>

\* A provider stands down, or a hosted session opened a second order: orders
\* not yet on chain are cancelled in one statement, without reading the chain.
StandDown ==
    /\ row.status \in PRE_CHAIN_STATUSES
    /\ row' = [row EXCEPT !.status = "CANCELLED"]
    /\ UNCHANGED <<feedVars, cursor, applied, ix, calls, cache, losses, faults, written>>

\* expireStaleOrders: only an order whose trade is absent or is not its own.
ExpireRead(c) ==
    /\ calls[c].pc = "read" /\ calls[c].op = "expire"
    /\ IF getTradeStatusStrict.matches THEN Return(c) ELSE Step(c, "write")
    /\ UNCHANGED <<feedVars, row, cursor, applied, ix, cache, losses, faults, written>>

ExpireWrite(c) ==
    /\ calls[c].pc = "write" /\ calls[c].op = "expire"
    /\ row' = CloseIfPreChain("EXPIRED")
    /\ Return(c)
    /\ UNCHANGED <<feedVars, cursor, applied, ix, cache, losses, faults, written>>

\* autoRefundExpired and reconcileOrphanedEscrows read the chain, submit a
\* refund, and record it.
Refunding == {"autorefund", "reconcile"}

RefundRead(c) ==
    /\ calls[c].pc = "read" /\ calls[c].op \in Refunding
    /\ IF chain.status = "FUNDED" THEN Step(c, "submit") ELSE Return(c)
    /\ UNCHANGED <<feedVars, row, cursor, applied, ix, cache, losses, faults, written>>

\* The transaction lands, or is refused because the trade has moved on; a poll
\* that times out on a landed one is CallFails afterwards.
RefundSubmit(c) ==
    /\ calls[c].pc = "submit" /\ calls[c].op \in Refunding
    /\ \/ /\ Refund
          /\ Step(c, IF calls[c].op = "autorefund" THEN "readback" ELSE "write")
       \/ /\ chain.status # "FUNDED"
          /\ Return(c)
          /\ UNCHANGED feedVars
    /\ UNCHANGED <<row, cursor, applied, ix, cache, losses, faults, written>>

\* The deadlines are read back; a failed read leaves them out.
RefundReadBack(c) ==
    /\ calls[c].pc = "readback"
    /\ \E v \in {getTradeStatusStrict, NoView} :
         Become(c, [calls[c] EXCEPT !.pc = "write", !.view = v])
    /\ UNCHANGED <<feedVars, row, cursor, applied, ix, cache, losses, faults, written>>

AutoRefundWrite(c) ==
    /\ calls[c].pc = "write" /\ calls[c].op = "autorefund"
    /\ row' = IF row.status # "FUNDED" THEN row
              ELSE settlementFieldsFrom(calls[c].view,
                     [row EXCEPT !.status = "REFUNDED", !.settledStatus = "REFUNDED",
                                 !.settledAt = TRUE, !.hash = chain.tx])
    /\ Return(c)
    /\ UNCHANGED <<feedVars, cursor, applied, ix, cache, losses, faults, written>>

ReconcileWrite(c) ==
    /\ calls[c].pc = "write" /\ calls[c].op = "reconcile"
    /\ row' = [row EXCEPT !.hash = IF @ = 0 THEN chain.tx ELSE @, !.settledAt = TRUE]
    /\ Return(c)
    /\ UNCHANGED <<feedVars, cursor, applied, ix, cache, losses, faults, written>>

\* attestFiatPaidOnce: submit mark_fiat_paid and move the row if it is still
\* FUNDED.
AttestSubmit_unconfirmed(c) ==
    /\ calls[c].pc = "submit" /\ calls[c].op = "attest"
    /\ MarkFiatPaid \/ UNCHANGED feedVars
    /\ Step(c, "write")
    /\ UNCHANGED <<row, cursor, applied, ix, cache, losses, faults, written>>

AttestSubmit(c) ==
    /\ calls[c].pc = "submit" /\ calls[c].op = "attest"
    /\ \/ MarkFiatPaid /\ Step(c, "write")
       \/ /\ chain.status # "FUNDED"
          /\ Return(c)
          /\ UNCHANGED feedVars
    /\ UNCHANGED <<row, cursor, applied, ix, cache, losses, faults, written>>

AttestWrite(c) ==
    /\ calls[c].pc = "write" /\ calls[c].op = "attest"
    /\ row' = IF row.status = "FUNDED" THEN [row EXCEPT !.status = "FIAT_PAID"] ELSE row
    /\ Return(c)
    /\ UNCHANGED <<feedVars, cursor, applied, ix, cache, losses, faults, written>>

\* At start-up the user's losses are set from the settled rows that show one.
backfillDisputesLost ==
    IF row.status \in SettledStatuses /\ row.resolution # Null /\ Loser(row.resolution) = "user"
    THEN /\ row' = [row EXCEPT !.disputeLossAccrued = TRUE]
         /\ losses' = [losses EXCEPT !.user = 1]
    ELSE UNCHANGED <<row, losses>>

\* The process restarts: polls, operations in flight and the cache are gone.  It
\* recounts before it listens, and goes on without the recount if that fails.
Crash ==
    /\ faults < MaxFaults
    /\ faults' = faults + 1
    /\ ix' = IdleIx
    /\ calls' = [c \in DOMAIN calls |-> NoCall]
    /\ cache' = <<>>
    /\ backfillDisputesLost \/ UNCHANGED <<row, losses>>
    /\ UNCHANGED <<feedVars, cursor, applied, written>>

CallStep(c) ==
    \/ Begin(c) \/ CallFails(c)
    \/ RefreshRead(c) \/ RefreshWrite(c)
    \/ FileCheck(c) \/ FileSimulate(c) \/ FileClaim(c)
    \/ CancelRead(c) \/ CancelOverwrite(c) \/ CancelWrite(c)
    \/ ExpireRead(c) \/ ExpireWrite(c)
    \/ RefundRead(c) \/ RefundSubmit(c) \/ RefundReadBack(c)
    \/ AutoRefundWrite(c) \/ ReconcileWrite(c)
    \/ AttestSubmit(c) \/ AttestWrite(c)

Next ==
    \/ FeedNext /\ UNCHANGED syncVars
    \/ IndexerStep \/ AccrualFails \/ PollFails
    \/ \E c \in Calls : CallStep(c)
    \/ StandDown \/ CacheExpires \/ Crash

Spec == Init /\ [][Next]_vars

\* The poll runs every ten seconds and every step of it ends.  Nothing else is
\* fair: a refresh needs a reader, a refund a configured signer.
Fairness == WF_vars(IndexerStep)

-----------------------------------------------------------------------------
(* Properties *)

\* Whatever order the writers come in, a settlement on the row is the one on
\* chain of the order's own trade: the outcome, the status if settled, and the
\* settling transaction.
SettlementIsTrue ==
    /\ row.settledStatus # Null => chain.matches /\ row.settledStatus = chain.settled
    /\ row.status \in SettledStatuses => row.status = row.settledStatus
    /\ row.hash \in {0, chain.tx}

\* Once the cursor has passed the funding of the order's own trade, the order
\* is on chain for good, though it was cancelled or expired while the trade
\* was being funded (the guarded closing writes, STATUS_BEFORE).
BoundOnceSeen ==
    cursor >= 1 /\ chain.matches => ~notYetBoundOnChain(row.status)

\* The row never claims a stage its own trade has not been in: a trade opened
\* under the order's id with other terms never moves it (bindTradeToOrder,
\* tradeBindsToOrder, expireStaleOrders), and no caller's payment mark or refund
\* is shown that did not land (attestFiatPaidOnce, autoRefundExpired).
RowIsNotAheadOfChain ==
    ~notYetBoundOnChain(row.status) => chain.matches /\ row.status \in chain.past

\* An order costs a party one loss at most, and only one a verdict gave it,
\* however many verdicts it has, however often they are replayed and whatever the
\* recount at start-up finds (disputeLossAccrued, backfillDisputesLost).
LossCountedOnce ==
    /\ row.disputeLossAccrued <=> losses.user + losses.lp > 0
    /\ \A p \in {"user", "lp"} :
         /\ losses[p] <= 1
         /\ losses[p] = 1 => \E i \in applied :
                Loser(IF feed[i].released THEN "released" ELSE "refunded") = p

\* A filing on record is never replaced by another party's, and leaves the row
\* only with the first application of a verdict: a replayed verdict does not
\* touch the filing of a later round (postDispute, closeDisputeRound).
FilingStands ==
    [][row.disputeBy # Null /\ row'.disputeBy # row.disputeBy =>
         row'.disputeBy = Null /\ written' > written]_vars

\* When the indexer has caught up and no dispute is open, the row shows the
\* latest verdict and the liability it left, whatever rounds were dropped on
\* the way (applyResolvedEvent).
LatestVerdictShown ==
    LET verdicts == {i \in DOMAIN feed : feed[i].name = "resolved"} IN
    (chain.matches /\ cursor = Len(feed) /\ chain.status # "DISPUTED" /\ verdicts # {}) =>
      /\ \A i \in verdicts : (\A j \in verdicts : j <= i) =>
           row.resolution = IF feed[i].released THEN "released" ELSE "refunded"
      /\ row.liable = chain.liable

KeepsSettlement ==
    row.status \in SettledStatuses => row'.status \in SettledStatuses \cup {"DISPUTED"}

\* A row that shows a settlement leaves it only for a dispute of it: no writer
\* takes it back to an earlier stage (SECURITY.md, "Guarded writes").
SettledRowStaysSettled == [][KeepsSettlement]_vars

\* A dispute the indexer has recorded stays on the row until the chain decides
\* it: no reader with an older view closes it (refreshOrderStatus).
OpenDisputeStaysOpen ==
    [][row.status = "DISPUTED" /\ chain.status = "DISPUTED" /\ cursor = Len(feed)
         /\ UNCHANGED chain => row'.status = "DISPUTED"]_vars

\* A settlement of the order's own trade reaches the row and stays, through
\* crashes and failed polls (poll, index).
SettlementReachesTheRow ==
    (chain.settled # Null /\ chain.matches) ~> [](row.settledStatus = chain.settled)
=============================================================================
