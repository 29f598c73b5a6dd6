----------------------------- MODULE Providers -----------------------------
(***************************************************************************)
(* The accounts of liquidity providers: applying, being registered,        *)
(* approved, suspended or revoked by an administrator, presence, the match *)
(* of an order to a provider, and the sweep that expires an order nobody   *)
(* funded and takes a silent provider offline.  Requests overlap: each     *)
(* reads the row, waits (for the network, or for its transaction) and      *)
(* writes later.                                                           *)
(***************************************************************************)
EXTENDS Integers

CONSTANTS
    Applicants,  \* wallets that are or may become providers
    LpCalls,     \* requests that may be in flight together
    LpOrders,    \* orders that may be opened
    Forms,       \* what an application says: contact and proof of liquidity
    Notes,       \* what an administrator writes beside a decision
    MaxLpMoves   \* bound: requests started and moves of the surroundings

VARIABLES
    lp,        \* Lp row of each wallet, or NoLp
    lpOrders,  \* Order rows, or NoOrder
    lpCalls,   \* requests in flight
    audit,     \* latest AuditLog entry of each wallet: the status before and after
    overtaken, \* matches that were in flight when their provider was stood down
    lpMoves    \* moves made so far

lpVars == <<lp, lpOrders, lpCalls, audit, overtaken, lpMoves>>

NoLp == [status |-> "NONE"]
NoOrder == [status |-> "NONE"]
LpIdle == [at |-> "idle"]
Decisions == {"APPROVED", "SUSPENDED", "REVOKED"}
StoodDown == {"SUSPENDED", "REVOKED"}
PRE_CHAIN == {"MATCHED", "AWAITING_ONCHAIN"}

Entry(before, after) == [before |-> before, after |-> after]

NewLp(status, form, note) ==
    [status |-> status, form |-> form, note |-> note, dated |-> status = "APPROVED",
     online |-> FALSE, reachable |-> FALSE, methods |-> 0]

LpInit ==
    /\ lp \in [Applicants -> {NoLp, [NewLp("APPROVED", CHOOSE f \in Forms : TRUE, "none") EXCEPT !.online = TRUE,
                                     !.reachable = TRUE, !.methods = 1]}]
    /\ lpOrders = [o \in LpOrders |-> NoOrder]
    /\ lpCalls = [c \in LpCalls |-> LpIdle]
    /\ audit = [p \in Applicants |-> Entry("NONE", lp[p].status)]
    /\ overtaken = {}
    /\ lpMoves = 0

LpMoving == lpMoves < MaxLpMoves /\ lpMoves' = lpMoves + 1

StartCall(c, q) ==
    /\ lpCalls[c] = LpIdle
    /\ LpMoving
    /\ lpCalls' = [lpCalls EXCEPT ![c] = q]

EndCall(c) == lpCalls' = [lpCalls EXCEPT ![c] = LpIdle]

SetLp(p, row) == lp' = [lp EXCEPT ![p] = row]

----------------------------------------------------------------------------
(* Applying and registering: the row is read first, written after the      *)
(* ledger has said whether the wallet can hold USDC.                       *)

StartApply(c, p, f) ==
    /\ lp[p].status \notin StoodDown
    /\ StartCall(c, [at |-> "apply", lp |-> p, form |-> f, existed |-> lp[p] # NoLp])
    /\ UNCHANGED <<lp, lpOrders, audit, overtaken>>

\* The update is by address alone; the insert fails when a row has appeared.
FinishApply(c) ==
    LET q == lpCalls[c] IN
    /\ q.at = "apply"
    /\ EndCall(c)
    /\ q.existed \/ lp[q.lp] = NoLp
    /\ SetLp(q.lp, IF q.existed
                   THEN [lp[q.lp] EXCEPT !.form = q.form, !.status = "PENDING", !.dated = FALSE]
                   ELSE NewLp("PENDING", q.form, "none"))
    /\ UNCHANGED <<lpOrders, audit, overtaken, lpMoves>>

StartRegister(c, p, f, status) ==
    /\ lp[p] = NoLp
    /\ StartCall(c, [at |-> "register", lp |-> p, form |-> f, status |-> status])
    /\ UNCHANGED <<lp, lpOrders, audit, overtaken>>

FinishRegister(c) ==
    LET q == lpCalls[c] IN
    /\ q.at = "register"
    /\ EndCall(c)
    /\ lp[q.lp] = NoLp
    /\ SetLp(q.lp, NewLp(q.status, q.form, "registered"))
    /\ audit' = [audit EXCEPT ![q.lp] = Entry("NONE", q.status)]
    /\ UNCHANGED <<lpOrders, overtaken, lpMoves>>

\* A refusal: no trustline, a row where none was, the row or an order moved on.
RefuseLpCall(c) ==
    /\ lpCalls[c] # LpIdle
    /\ EndCall(c)
    /\ UNCHANGED <<lp, lpOrders, audit, overtaken, lpMoves>>

----------------------------------------------------------------------------
(* An administrator's decision: one transaction that reads the row, writes *)
(* it if it is still what was read, cancels what is not on chain yet and   *)
(* records the decision.                                                   *)

StartDecision(c, p, status, note) ==
    /\ lp[p] # NoLp
    /\ ~ (lp[p].status = status /\ note \in {"none", lp[p].note})
    /\ StartCall(c, [at |-> "decide", lp |-> p, status |-> status, note |-> note, read |-> lp[p]])
    /\ UNCHANGED <<lp, lpOrders, audit, overtaken>>

StillAsRead(row, read) == row.status = read.status /\ row.note = read.note /\ row.form = read.form

Matching(p) == {c \in LpCalls : lpCalls[c].at = "match" /\ lpCalls[c].lp = p}

CommitDecision(c) ==
    LET q == lpCalls[c] IN
    /\ q.at = "decide"
    /\ StillAsRead(lp[q.lp], q.read)
    /\ SetLp(q.lp, [lp[q.lp] EXCEPT !.status = q.status,
                                    !.note = IF q.note = "none" THEN q.read.note ELSE q.note,
                                    !.dated = (q.status = "APPROVED" /\ q.read.status # "APPROVED") \/ q.read.dated])
    /\ lpOrders' = [o \in LpOrders |->
            IF /\ q.status \in StoodDown
               /\ lpOrders[o].status \in PRE_CHAIN
               /\ lpOrders[o].lp = q.lp
            THEN [lpOrders[o] EXCEPT !.status = "CANCELLED"]
            ELSE lpOrders[o]]
    /\ audit' = [audit EXCEPT ![q.lp] = Entry(q.read.status, q.status)]
    /\ overtaken' = IF q.status \in StoodDown
                    THEN overtaken \cup {lpCalls[d].order : d \in Matching(q.lp)}
                    ELSE overtaken
    /\ EndCall(c)
    /\ UNCHANGED lpMoves

----------------------------------------------------------------------------
(* What an approved provider does.                                         *)

\* Every order of the provider has now been followed by a sign of life.
Beat(p) ==
    lpOrders' = [o \in LpOrders |-> IF lpOrders[o] # NoOrder /\ lpOrders[o].lp = p
                                    THEN [lpOrders[o] EXCEPT !.silent = FALSE] ELSE lpOrders[o]]

Heartbeat(p) ==
    /\ lp[p].status = "APPROVED"
    /\ \E o \in LpOrders : lpOrders[o] # NoOrder /\ lpOrders[o].silent
    /\ Beat(p)
    /\ UNCHANGED <<lp, lpCalls, audit, overtaken, lpMoves>>

SetAvailability(p) ==
    /\ lp[p].status = "APPROVED"
    /\ LpMoving
    /\ SetLp(p, [lp[p] EXCEPT !.online = ~ @])
    /\ UNCHANGED <<lpOrders, lpCalls, audit, overtaken>>

SetAlertEmail(p) ==
    /\ lp[p].status = "APPROVED"
    /\ LpMoving
    /\ SetLp(p, [lp[p] EXCEPT !.reachable = ~ @])
    /\ UNCHANGED <<lpOrders, lpCalls, audit, overtaken>>

\* Adding, switching off or deleting a payment method; what counts is how
\* many are active.
SetPaymentMethods(p) ==
    /\ lp[p].status = "APPROVED"
    /\ LpMoving
    /\ SetLp(p, [lp[p] EXCEPT !.methods = 1 - @])
    /\ UNCHANGED <<lpOrders, lpCalls, audit, overtaken>>

----------------------------------------------------------------------------
(* Matching an order and expiring it.                                      *)

\* The match without the condition on the provider's status.
MatchableByPresence(p) == lp[p] # NoLp /\ lp[p].online /\ lp[p].methods > 0

Matchable(p) == lp[p] # NoLp /\ lp[p].status = "APPROVED" /\ lp[p].online /\ lp[p].methods > 0

StartMatch(c, p, o, flow) ==
    /\ Matchable(p)
    /\ lpOrders[o] = NoOrder
    /\ \A d \in LpCalls : lpCalls[d].at = "match" => lpCalls[d].order # o
    /\ StartCall(c, [at |-> "match", lp |-> p, order |-> o, flow |-> flow])
    /\ UNCHANGED <<lp, lpOrders, audit, overtaken>>

\* The transaction that inserts the order reads the provider's bond again, not
\* its status.
FinishMatch(c) ==
    LET q == lpCalls[c] IN
    /\ q.at = "match"
    /\ lpOrders' = [lpOrders EXCEPT ![q.order] =
            [status |-> "MATCHED", lp |-> q.lp, flow |-> q.flow, silent |-> TRUE]]
    /\ EndCall(c)
    /\ UNCHANGED <<lp, audit, overtaken, lpMoves>>

\* The order is funded, or its person cancels it.
OrderMoves(o, status) ==
    /\ lpOrders[o].status \in PRE_CHAIN
    /\ LpMoving
    /\ lpOrders' = [lpOrders EXCEPT ![o] = [@ EXCEPT !.status = status]]
    /\ UNCHANGED <<lp, lpCalls, audit, overtaken>>

\* The sweep: the order is a candidate when it is read, and may have moved
\* when it is written.  A foreign trade under its id leaves the provider alone.
StartExpiry(c, o, foreign) ==
    /\ lpOrders[o].status \in PRE_CHAIN
    /\ StartCall(c, [at |-> "expire", order |-> o, foreign |-> foreign])
    /\ UNCHANGED <<lp, lpOrders, audit, overtaken>>

ExpireOrder(c) ==
    LET q == lpCalls[c] o == q.order IN
    /\ q.at = "expire"
    /\ lpOrders[o].status \in PRE_CHAIN
    /\ lpOrders' = [lpOrders EXCEPT ![o] = [@ EXCEPT !.status = "EXPIRED"]]
    /\ lpCalls' = [lpCalls EXCEPT ![c] =
            IF ~ q.foreign /\ lpOrders[o].flow = "TOP_UP" THEN [at |-> "penalise", order |-> o] ELSE LpIdle]
    /\ UNCHANGED <<lp, audit, overtaken, lpMoves>>

\* The update asks the row again whether the provider has been silent.
Penalise(c) ==
    LET q == lpCalls[c] IN
    /\ q.at = "penalise"
    /\ LET o == lpOrders[q.order] p == o.lp IN
       SetLp(p, IF lp[p].online /\ o.silent /\ lp[p].reachable
                THEN [lp[p] EXCEPT !.online = FALSE] ELSE lp[p])
    /\ EndCall(c)
    /\ UNCHANGED <<lpOrders, audit, overtaken, lpMoves>>

----------------------------------------------------------------------------
LpNext ==
    \/ \E c \in LpCalls, p \in Applicants, f \in Forms :
        \/ StartApply(c, p, f)
        \/ \E s \in {"APPROVED", "PENDING"} : StartRegister(c, p, f, s)
    \/ \E c \in LpCalls, p \in Applicants, s \in Decisions, n \in Notes : StartDecision(c, p, s, n)
    \/ \E c \in LpCalls, o \in LpOrders :
        \/ \E p \in Applicants, w \in {"TOP_UP", "WITHDRAWAL"} : StartMatch(c, p, o, w)
        \/ \E b \in BOOLEAN : StartExpiry(c, o, b)
    \/ \E c \in LpCalls :
        \/ FinishApply(c)
        \/ FinishRegister(c)
        \/ CommitDecision(c)
        \/ FinishMatch(c)
        \/ ExpireOrder(c)
        \/ Penalise(c)
        \/ RefuseLpCall(c)
    \/ \E p \in Applicants :
        \/ Heartbeat(p)
        \/ SetAvailability(p)
        \/ SetAlertEmail(p)
        \/ SetPaymentMethods(p)
    \/ \E o \in LpOrders, s \in {"AWAITING_ONCHAIN", "FUNDED", "CANCELLED"} : OrderMoves(o, s)

LpSpec == LpInit /\ [][LpNext]_lpVars

----------------------------------------------------------------------------
(* Every decision on record tells what the row was and what it became: a   *)
(* decision is never written over a row that another administrator, or the *)
(* applicant, changed since it was read (AdminService.setStatus, register).*)
AuditIsTrue ==
    [][\A p \in Applicants :
        audit'[p] # audit[p] => audit'[p] = Entry(lp[p].status, lp'[p].status)]_lpVars

(* A provider that is stood down keeps no order that is not on chain yet,  *)
(* but for a match that was already in flight when the decision was        *)
(* written: setStatus cancels the others and pickLp offers no more of them.*)
StoodDownHoldsNothingNew ==
    \A o \in LpOrders :
        /\ lpOrders[o].status \in PRE_CHAIN
        /\ lp[lpOrders[o].lp].status \in StoodDown
        => o \in overtaken

(* The sweep takes a provider offline only for an order it let lapse       *)
(* without a sign of life since the order was opened, and only if it could *)
(* be told: a heartbeat that arrives while the sweep runs saves it.        *)
PenaltyNeedsSilence ==
    [][\A p \in Applicants :
        lp[p] # NoLp /\ lp[p].online /\ ~ lp'[p].online /\ lpMoves' = lpMoves
        => /\ lp[p].reachable
           /\ \E o \in LpOrders : /\ lpOrders[o].status = "EXPIRED"
                                  /\ lpOrders[o].lp = p
                                  /\ lpOrders[o].silent]_lpVars

(* A wallet that an administrator has suspended or revoked does not clear  *)
(* that by applying (LpService.apply): it is PENDING again only when the   *)
(* last decision on it, if there is one, approved it.                      *)
SanctionOutlivesApplication ==
    \A p \in Applicants :
        lp[p].status = "PENDING" => audit[p].after \notin StoodDown
=============================================================================
