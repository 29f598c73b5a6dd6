----------------------------- MODULE TradeFeed ------------------------------
(***************************************************************************)
(* One trade of the escrow contract as the coordinator sees it: the status *)
(* get_trade returns and the stream of events the contract publishes.      *)
(* Deadlines, titles and money are Escrow's; here an entry point is        *)
(* enabled in the statuses its code accepts and appends the events it      *)
(* publishes, stamped with the number of the transaction.                  *)
(***************************************************************************)
EXTENDS Integers, Sequences

CONSTANTS
    Raisers,     \* who may dispute: members of {"user", "lp", "resolver"}
    Matches,     \* whether the trade under this id may carry the order's terms
    MaxTx        \* bound: no dispute is raised after this many transactions

ASSUME MatchesAssumption == Matches \subseteq BOOLEAN

Null == "null"
ChainStatuses == {"FUNDED", "FIAT_PAID", "DISPUTED", "RELEASED", "REFUNDED"}
SettledStatuses == {"RELEASED", "REFUNDED"}

VARIABLES
    chain,       \* the trade: status, what it settled as, the settling
                 \*   transaction, spent dispute slots, liability, match, past
    feed         \* the events published so far, in order

feedVars == <<chain, feed>>

FeedInit ==
    /\ \E m \in Matches :
         chain = [status |-> "NONE", settled |-> Null, tx |-> 0, used |-> {},
                  liable |-> FALSE, matches |-> m, past |-> {}]
    /\ feed = <<>>

NextTx == IF feed = <<>> THEN 1 ELSE feed[Len(feed)].tx + 1

Event(name, by, released, post) ==
    [name |-> name, by |-> by, released |-> released, post |-> post, tx |-> NextTx]

Plain(name) == Event(name, Null, FALSE, FALSE)

\* The trade moves to a status and the transaction's events are published.
Publish(status, events) ==
    /\ chain' = [chain EXCEPT !.status = status, !.past = @ \cup {status}]
    /\ feed' = feed \o events

\* The trade settles: its outcome and the settling transaction are recorded.
Settle(outcome, events) ==
    /\ chain' = [chain EXCEPT !.status = outcome, !.past = @ \cup {outcome},
                              !.settled = outcome, !.tx = NextTx]
    /\ feed' = feed \o events

Fund ==
    /\ chain.status = "NONE"
    /\ Publish("FUNDED", <<Plain("trade_created")>>)

MarkFiatPaid ==
    /\ chain.status = "FUNDED"
    /\ Publish("FIAT_PAID", <<Plain("fiat_paid")>>)

\* release_from_funded and confirm_and_release.
Release ==
    \/ /\ chain.status = "FUNDED"
       /\ Settle("RELEASED", <<Plain("early_released")>>)
    \/ /\ chain.status = "FIAT_PAID"
       /\ Settle("RELEASED", <<Plain("released")>>)

\* refund and cancel: only a funded trade on which no payment was marked.
Refund ==
    /\ chain.status = "FUNDED"
    /\ Settle("REFUNDED", <<Plain("refunded")>>)

\* The statuses from which raise_dispute accepts by: the resolver also from a
\* funded trade, everyone once after settlement.
Raisable(by) ==
    \/ chain.status = "FIAT_PAID"
    \/ chain.status = "FUNDED" /\ by = "resolver"
    \/ chain.status \in SettledStatuses /\ by \notin chain.used

RaiseDispute(by) ==
    /\ Raisable(by)
    /\ chain' = [chain EXCEPT !.status = "DISPUTED", !.past = @ \cup {"DISPUTED"},
                   !.used = IF chain.settled = Null THEN @ ELSE @ \cup {by}]
    /\ feed' = Append(feed, Event("disputed", by, FALSE, FALSE))

\* A verdict before settlement moves the money; a refunding one publishes the
\* refund and then the verdict.  A verdict after settlement moves nothing: the
\* status returns to the settled one and an overturned settlement makes its
\* holder liable.
Resolve(released) ==
    /\ chain.status = "DISPUTED"
    /\ IF chain.settled = Null
       THEN IF released
            THEN Settle("RELEASED", <<Event("resolved", Null, TRUE, FALSE)>>)
            ELSE Settle("REFUNDED", <<Plain("refunded"), Event("resolved", Null, FALSE, FALSE)>>)
       ELSE /\ chain' = [chain EXCEPT !.status = chain.settled,
                           !.liable = @ \/ ((chain.settled = "RELEASED") # released)]
            /\ feed' = Append(feed, Event("resolved", Null, released, TRUE))

FeedNext ==
    \/ Fund \/ MarkFiatPaid \/ Release \/ Refund
    \/ \E by \in Raisers : NextTx <= MaxTx /\ RaiseDispute(by)
    \/ \E released \in BOOLEAN : Resolve(released)
=============================================================================
