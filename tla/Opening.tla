------------------------------ MODULE Opening ------------------------------
(***************************************************************************)
(* Opening an order: a quote is created, an order is created from it       *)
(* (createFromQuote), a provider is matched (pickLp), and, when the request*)
(* comes from the hosted pages (SEP-24), the order is tied to the          *)
(* transaction the person is filling in, or undone.  Requests run          *)
(* concurrently on one or more coordinator instances.  Every read that is  *)
(* made before an await is kept in the request and used later, the part    *)
(* under the person's and the provider's advisory locks is one step, and an*)
(* instance may stop between any two steps.                                *)
(***************************************************************************)
EXTENDS Integers, Sequences, FiniteSets, FiniteSetsExt

CONSTANTS Calls, Instances, Persons, Lps, Sessions,
    Owner,              \* the person behind each provider's wallet
    Flows, Amounts, MinOrder, MaxOrder,
    TIER_THRESHOLDS,    \* completed trades each level above NEW asks for
    DailyLimit,         \* what a level may open in 24 hours
    Stakes, MinStake,   \* what a provider may have staked, what makes it eligible
    MAX_REF_ATTEMPTS,
    MaxQuotes, MaxLost, MaxMoves, None

\* None is SQL's NULL: no row, no identifier.
ASSUME NoneIsNull ==
    None \notin Nat \cup Sessions \cup [person : Persons, flow : Flows, order : Nat \cup {None}]

VARIABLES quotes, orders, sessions, calls, identity, lost, approved, staked, peak, orphans, moves

oVars == <<quotes, orders, sessions, calls, identity, lost, approved, staked, peak, orphans, moves>>

IdleCall == [at |-> "idle"]
OrderIds == DOMAIN orders

OInit ==
    /\ quotes = <<>>
    /\ orders = <<>>
    /\ sessions = [s \in Sessions |-> None]
    /\ calls = [c \in Calls |-> IdleCall]
    /\ identity = [p \in Persons |-> "accepted"]
    /\ lost = [p \in Persons |-> 0]
    /\ approved = [l \in Lps |-> TRUE]
    /\ staked \in [Lps -> Stakes]
    /\ peak = staked
    /\ orphans = {}
    /\ moves = 0

----------------------------------------------------------------------------
(* What an order costs its provider and its person.                        *)

SumAmounts(S) == MapThenSumSet(LAMBDA o : orders[o].amount, S)

\* The rows lpExposure sums: not walked away from, not settled with the user
\* holding the money, and still within reach of a slash.
Exposes(o) ==
    /\ o.status # "CANCELLED"
    /\ ~(o.status = "RELEASED" /\ o.flow = "TOP_UP")
    /\ ~(o.status = "REFUNDED" /\ o.flow = "WITHDRAW")
    /\ o.settled => o.tail

lpExposure(l) == SumAmounts({o \in OrderIds : orders[o].lp = l /\ Exposes(orders[o])})

\* The rows used24hBaseUnits sums.
Uses(o) == o.recent /\ o.status \notin {"CANCELLED", "REFUNDED"}

used24h(p) == SumAmounts({o \in OrderIds : orders[o].person = p /\ Uses(orders[o])})

computeTier(completed, disputesLost) ==
    Max({0, Cardinality({k \in DOMAIN TIER_THRESHOLDS : completed >= TIER_THRESHOLDS[k]}) - disputesLost})

getReputation(p) ==
    computeTier(Cardinality({o \in OrderIds : orders[o].person = p /\ orders[o].status = "RELEASED"}), lost[p])

assertIdentityVerified(p) == identity[p] = "accepted"

----------------------------------------------------------------------------
(* Moves of the surroundings (the chain, the operators, the vendor, time, a*)
(* collision, an instance that stops) are counted, up to a bound.          *)

Moving == moves < MaxMoves /\ moves' = moves + 1

----------------------------------------------------------------------------
(* Quotes and sessions.                                                    *)

NewQuote(p, f, a) == [person |-> p, flow |-> f, amount |-> a, used |-> FALSE]

Quotable(p, a) ==
    /\ Len(quotes) < MaxQuotes
    /\ a \in MinOrder .. MaxOrder
    /\ used24h(p) + a <= DailyLimit[getReputation(p)]

CreateQuote(p, f, a) ==
    /\ Quotable(p, a)
    /\ quotes' = Append(quotes, NewQuote(p, f, a))
    /\ UNCHANGED <<orders, sessions, calls, identity, lost, approved, staked, peak, orphans, moves>>

\* openInteractive: a transaction row without an order.
OpenInteractive(s, p, f) ==
    /\ sessions[s] = None
    /\ sessions' = [sessions EXCEPT ![s] = [person |-> p, flow |-> f, order |-> None]]
    /\ UNCHANGED <<quotes, orders, calls, identity, lost, approved, staked, peak, orphans, moves>>

----------------------------------------------------------------------------
(* A request to open an order.                                             *)

Become(c, r) == calls' = [calls EXCEPT ![c] = r]
Forget(c) == Become(c, IdleCall)
NewCall(at, i, s, p) ==
    [at |-> at, inst |-> i, session |-> s, person |-> p, quote |-> 0,
     limit |-> 0, lp |-> None, bond |-> 0, order |-> 0, tries |-> 0]

\* POST /orders: the quote is read, and belongs to the caller.
PostOrder(c, i, q) ==
    /\ calls[c] = IdleCall
    /\ Become(c, [NewCall("check", i, None, quotes[q].person) EXCEPT !.quote = q])
    /\ UNCHANGED <<quotes, orders, sessions, identity, lost, approved, staked, peak, orphans, moves>>

\* submitAmount: one press at a time for a transaction on an instance, on a
\* transaction that has no order, from the screen that asks for an amount; the
\* amount named is quoted at once.
SubmitAmount(c, i, s, a) ==
    /\ calls[c] = IdleCall
    /\ \A d \in Calls : calls[d] # IdleCall => ~(calls[d].inst = i /\ calls[d].session = s)
    /\ sessions[s] # None
    /\ sessions[s].order = None
    /\ assertIdentityVerified(sessions[s].person)
    /\ Quotable(sessions[s].person, a)
    /\ quotes' = Append(quotes, NewQuote(sessions[s].person, sessions[s].flow, a))
    /\ Become(c, [NewCall("check", i, s, sessions[s].person) EXCEPT !.quote = Len(quotes) + 1])
    /\ UNCHANGED <<orders, sessions, identity, lost, approved, staked, peak, orphans, moves>>

\* createFromQuote up to the match: the daily limit is read here and kept.
CheckQuote(c) ==
    LET r == calls[c]
        q == quotes[r.quote]
        limit == DailyLimit[getReputation(r.person)]
    IN  /\ r.at = "check"
        /\ used24h(r.person) + q.amount <= limit
        /\ assertIdentityVerified(r.person)
        /\ Become(c, [r EXCEPT !.at = "pick", !.limit = limit])
        /\ UNCHANGED <<quotes, orders, sessions, identity, lost, approved, staked, peak, orphans, moves>>

\* pickLp: the bond is read from the chain here and kept.  The order in which
\* candidates are tried decides nothing the properties see, because the stake
\* of any of them may be unreadable and the next one is then taken.
PickLp(c, l) ==
    LET r == calls[c]
    IN  /\ r.at = "pick"
        /\ approved[l]
        /\ Owner[l] # r.person
        /\ staked[l] >= MinStake
        /\ lpExposure(l) + quotes[r.quote].amount <= staked[l]
        /\ Become(c, [r EXCEPT !.at = "commit", !.lp = l, !.bond = staked[l]])
        /\ UNCHANGED <<quotes, orders, sessions, identity, lost, approved, staked, peak, orphans, moves>>

\* Mutants of the locked checks, each without one of them.
NoExposureCheck(c) ==
    LET r == calls[c]
    IN  used24h(r.person) + quotes[r.quote].amount <= r.limit /\ assertIdentityVerified(r.person) /\ ~quotes[r.quote].used

\* The locked checks, in the order the transaction makes them.
Admissible(c) ==
    LET r == calls[c]
        a == quotes[r.quote].amount
    IN  /\ lpExposure(r.lp) + a <= r.bond
        /\ used24h(r.person) + a <= r.limit
        /\ assertIdentityVerified(r.person)
        /\ ~quotes[r.quote].used

NewOrder(c) ==
    LET r == calls[c]
        q == quotes[r.quote]
    IN  [quote |-> r.quote, session |-> r.session, person |-> r.person, lp |-> r.lp,
         flow |-> q.flow, amount |-> q.amount, status |-> "MATCHED",
         settled |-> FALSE, tail |-> TRUE, recent |-> TRUE,
         released |-> FALSE, freedBond |-> FALSE, freedLimit |-> FALSE]

\* The transaction commits: the quote is spent and the order row exists.
CommitOrder(c) ==
    LET r == calls[c]
    IN  /\ r.at = "commit"
        /\ Admissible(c)
        /\ quotes' = [quotes EXCEPT ![r.quote].used = TRUE]
        /\ orders' = Append(orders, NewOrder(c))
        /\ IF r.session = None THEN Forget(c)
           ELSE Become(c, [NewCall("link", r.inst, r.session, r.person) EXCEPT !.order = Len(orders) + 1])
        /\ UNCHANGED <<sessions, identity, lost, approved, staked, peak, orphans, moves>>

\* A transfer reference that is taken rolls the transaction back, the spent
\* quote included, and a top-up tries again.
RefCollides(c) ==
    LET r == calls[c]
    IN  /\ Moving
        /\ r.at = "commit"
        /\ Admissible(c)
        /\ quotes[r.quote].flow = "TOP_UP"
        /\ IF r.tries + 1 < MAX_REF_ATTEMPTS THEN Become(c, [r EXCEPT !.tries = @ + 1])
           ELSE Forget(c)
        /\ UNCHANGED <<quotes, orders, sessions, identity, lost, approved, staked, peak, orphans>>

\* Any check that fails, a quote past its expiry, a pause, a missing trustline
\* or an unreadable chain ends the request before it has written anything.
RefuseCall(c) ==
    /\ calls[c].at \in {"check", "pick", "commit"}
    /\ Forget(c)
    /\ UNCHANGED <<quotes, orders, sessions, identity, lost, approved, staked, peak, orphans, moves>>

\* Mutant: an order that lost the race for its transaction is left alone.
LinkOrLeave(c) ==
    LET r == calls[c]
    IN  /\ r.at = "link"
        /\ sessions' = IF sessions[r.session].order = None
                       THEN [sessions EXCEPT ![r.session].order = r.order] ELSE sessions
        /\ Forget(c)
        /\ UNCHANGED <<quotes, orders, identity, lost, approved, staked, peak, orphans, moves>>

\* The transaction takes the order only while it has none.
LinkOrder(c) ==
    LET r == calls[c]
    IN  /\ r.at = "link"
        /\ IF sessions[r.session].order = None
           THEN /\ sessions' = [sessions EXCEPT ![r.session].order = r.order]
                /\ Forget(c)
           ELSE /\ Become(c, [r EXCEPT !.at = "undo"])
                /\ UNCHANGED sessions
        /\ UNCHANGED <<quotes, orders, identity, lost, approved, staked, peak, orphans, moves>>

----------------------------------------------------------------------------
(* Orders afterwards.  A row that leaves one of the two sums is marked, so *)
(* that a row that comes back can be told from one that never left.        *)

Marked(o) == [o EXCEPT !.freedBond = @ \/ ~Exposes(o), !.freedLimit = @ \/ ~Uses(o),
                       !.released = @ \/ o.status = "RELEASED"]
SetStatus(o, st) == [orders EXCEPT ![o] = Marked([@ EXCEPT !.status = st])]

\* A second order for the same transaction is cancelled while still MATCHED.
UndoOrder(c) ==
    LET r == calls[c]
    IN  /\ r.at = "undo"
        /\ orders' = IF orders[r.order].status = "MATCHED" THEN SetStatus(r.order, "CANCELLED") ELSE orders
        /\ Forget(c)
        /\ UNCHANGED <<quotes, sessions, identity, lost, approved, staked, peak, orphans, moves>>

\* What the chain can make of a row (the indexer's STATUS_BEFORE, and its
\* dispute handler for a settled trade): a trade that lands late reopens a
\* closed row.  FUNDED stands for FIAT_PAID too and CANCELLED for EXPIRED: no
\* sum here tells them apart.
STATUS_BEFORE ==
    [FUNDED |-> {"MATCHED", "CANCELLED"},
     DISPUTED |-> {"MATCHED", "FUNDED", "CANCELLED", "RELEASED", "REFUNDED"},
     RELEASED |-> {"MATCHED", "FUNDED", "DISPUTED", "CANCELLED"},
     REFUNDED |-> {"MATCHED", "FUNDED", "DISPUTED", "CANCELLED"}]

FollowChain(o, st) ==
    /\ Moving
    /\ orders[o].status \in STATUS_BEFORE[st]
    /\ orders' = [orders EXCEPT ![o] =
                    Marked([@ EXCEPT !.status = st, !.tail = TRUE,
                                     !.settled = orders[o].settled \/ st \in {"RELEASED", "REFUNDED"}])]
    /\ UNCHANGED <<quotes, sessions, calls, identity, lost, approved, staked, peak, orphans>>

\* cancelOrder by a party, expireStaleOrders by the sweep.
CloseUnfunded(o) ==
    /\ Moving
    /\ orders[o].status = "MATCHED"
    /\ orders' = SetStatus(o, "CANCELLED")
    /\ UNCHANGED <<quotes, sessions, calls, identity, lost, approved, staked, peak, orphans>>

\* Time passes: a day since the order was created, the end of its slash reach.
AgeOrder(o) ==
    /\ Moving
    /\ orders[o].recent
    /\ orders' = [orders EXCEPT ![o] = Marked([@ EXCEPT !.recent = FALSE])]
    /\ UNCHANGED <<quotes, sessions, calls, identity, lost, approved, staked, peak, orphans>>

TailPasses(o) ==
    /\ Moving
    /\ orders[o].settled /\ orders[o].tail
    /\ orders' = [orders EXCEPT ![o] = Marked([@ EXCEPT !.tail = FALSE])]
    /\ UNCHANGED <<quotes, sessions, calls, identity, lost, approved, staked, peak, orphans>>

----------------------------------------------------------------------------
(* Everything else that moves under a request.                             *)

\* setStatus: a provider stood down loses the orders that are not on chain.
SetLpStatus(l, ok) ==
    /\ Moving
    /\ approved[l] # ok
    /\ approved' = [approved EXCEPT ![l] = ok]
    /\ orders' = [o \in OrderIds |->
                    IF ~ok /\ orders[o].lp = l /\ orders[o].status = "MATCHED"
                    THEN Marked([orders[o] EXCEPT !.status = "CANCELLED"]) ELSE orders[o]]
    /\ UNCHANGED <<quotes, sessions, calls, identity, lost, staked, peak, orphans>>

\* stake and request_unstake on the staking contract.
StakeChanges(l, v) ==
    /\ Moving
    /\ staked[l] # v
    /\ staked' = [staked EXCEPT ![l] = v]
    /\ peak' = [peak EXCEPT ![l] = Max({@, v})]
    /\ UNCHANGED <<quotes, orders, sessions, calls, identity, lost, approved, orphans>>

\* applyDelivery writes a refusal.
IdentityRefused(p) ==
    /\ Moving
    /\ identity[p] = "accepted"
    /\ identity' = [identity EXCEPT ![p] = "refused"]
    /\ UNCHANGED <<quotes, orders, sessions, calls, lost, approved, staked, peak, orphans>>

DisputeLost(p) ==
    /\ Moving
    /\ lost[p] < MaxLost
    /\ lost' = [lost EXCEPT ![p] = @ + 1]
    /\ UNCHANGED <<quotes, orders, sessions, calls, identity, approved, staked, peak, orphans>>

\* An instance stops: its requests are gone, and with them the link or the
\* undo of an order already created.
InstanceStops(i) ==
    LET mine == {c \in Calls : calls[c] # IdleCall /\ calls[c].inst = i}
    IN  /\ Moving
        /\ mine # {}
        /\ calls' = [c \in Calls |-> IF c \in mine THEN IdleCall ELSE calls[c]]
        /\ orphans' = orphans \cup {calls[c].order : c \in {d \in mine : calls[d].at \in {"link", "undo"}}}
        /\ UNCHANGED <<quotes, orders, sessions, identity, lost, approved, staked, peak>>

----------------------------------------------------------------------------
CallStep(c) ==
    \/ CheckQuote(c)
    \/ \E l \in Lps : PickLp(c, l)
    \/ CommitOrder(c) \/ RefCollides(c) \/ RefuseCall(c) \/ LinkOrder(c) \/ UndoOrder(c)

Begin(c, i) ==
    \/ \E q \in DOMAIN quotes : PostOrder(c, i, q)
    \/ \E s \in Sessions, a \in Amounts : SubmitAmount(c, i, s, a)

RowMoves(o) ==
    \/ \E st \in DOMAIN STATUS_BEFORE : FollowChain(o, st)
    \/ CloseUnfunded(o) \/ AgeOrder(o) \/ TailPasses(o)

ONext ==
    \/ \E p \in Persons, f \in Flows, a \in Amounts : CreateQuote(p, f, a)
    \/ \E s \in Sessions, p \in Persons, f \in Flows : OpenInteractive(s, p, f)
    \/ \E c \in Calls : CallStep(c) \/ \E i \in Instances : Begin(c, i)
    \/ \E o \in OrderIds : RowMoves(o)
    \/ \E l \in Lps : (\E ok \in BOOLEAN : SetLpStatus(l, ok)) \/ \E v \in Stakes : StakeChanges(l, v)
    \/ \E p \in Persons : IdentityRefused(p) \/ DisputeLost(p)
    \/ \E i \in Instances : InstanceStops(i)

OSpec == OInit /\ [][ONext]_oVars

----------------------------------------------------------------------------
(* Properties.                                                             *)

\* What every order rests on is its own, whatever requests race and however
\* often a reference collision rolls a transaction back: a quote opens one
\* order; the orders matched to a provider that have counted against its bond
\* ever since stay within what it has had staked; and what a person has opened
\* in a day stays within the limit of the highest tier they reached.  The
\* stake and the tier are read before the locks are taken (createFromQuote).
OrdersAreCovered ==
    /\ \A q \in DOMAIN quotes :
         Cardinality({o \in OrderIds : orders[o].quote = q}) = IF quotes[q].used THEN 1 ELSE 0
    /\ \A l \in Lps :
         SumAmounts({o \in OrderIds : orders[o].lp = l /\ Exposes(orders[o]) /\ ~orders[o].freedBond}) <= peak[l]
    /\ \A p \in Persons :
         SumAmounts({o \in OrderIds : orders[o].person = p /\ Uses(orders[o]) /\ ~orders[o].freedLimit})
            <= DailyLimit[computeTier(Cardinality({o \in OrderIds : orders[o].person = p /\ orders[o].released}), 0)]

\* An order of a hosted transaction that is not the transaction's order does
\* not keep holding provider capacity unfunded: a request is still about to
\* tie it or cancel it, or the instance that would have has stopped.
UnlinkedIsUndone ==
    \A o \in OrderIds :
        (orders[o].session # None /\ sessions[orders[o].session].order # o /\ orders[o].status = "MATCHED")
            => o \in orphans \/ \E c \in Calls : calls[c] # IdleCall /\ calls[c].at \in {"link", "undo"} /\ calls[c].order = o

=============================================================================
