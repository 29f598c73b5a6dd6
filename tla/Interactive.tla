---------------------------- MODULE Interactive -----------------------------
(***************************************************************************)
(* The session behind the hosted SEP-24 pages: sep24/sep24.controller.ts,  *)
(* sep24/interactive-token.ts, sep24/interactive-session.ts and the        *)
(* claim of Sep24Service.                                                  *)
(*                                                                         *)
(* The wallet opens a short-lived link.  Following it sets a session       *)
(* cookie; every page load renews the cookie's sliding expiry and keeps    *)
(* its absolute one.  The link is not spent by its use: until it expires   *)
(* each browser that follows it gets a session of its own.  A post uses    *)
(* the cookie without renewing it.  Claiming a payment reads the           *)
(* transaction first and writes it in a later step.                        *)
(***************************************************************************)
EXTENDS Naturals

CONSTANTS
    Browsers,       \* browsers the link is opened in
    LINK_TTL,       \* SEP24_INTERACTIVE_LINK_TTL_SECS
    TTL,            \* SEP24_INTERACTIVE_TTL_SECS
    ABSOLUTE_TTL,   \* SEP24_INTERACTIVE_ABSOLUTE_TTL_SECS
    CLAIM_WINDOW,   \* from the order to refundOpensAt
    MaxInstant      \* bound: how far the clock runs

ASSUME SessionTimes ==
    /\ LINK_TTL \in Nat \ {0}
    /\ TTL \in Nat \ {0}
    /\ ABSOLUTE_TTL \in Nat \ {0}
    /\ CLAIM_WINDOW \in Nat
    /\ LINK_TTL + ABSOLUTE_TTL < MaxInstant

VARIABLES
    instant,    \* the clock, from the moment openInteractive minted the link
    cookie,     \* per browser: the session cookie it holds
    posting,    \* per browser: the claim it has in flight
    permitted,  \* lookupPerson still knows the wallet
    deposit,    \* the order of the transaction: status, refundOpensAt, userClaimedPaidAt
    served      \* per browser: when a request of it was last served

interactiveVars == <<instant, cookie, posting, permitted, deposit, served>>

Unclaimed == MaxInstant + 1

NoCookie == [held |-> FALSE, exp |-> 0, abs |-> 0]

InteractiveInit ==
    /\ instant = 0
    /\ cookie = [b \in Browsers |-> NoCookie]
    /\ posting = [b \in Browsers |-> FALSE]
    /\ permitted = TRUE
    /\ deposit = [status |-> "none", refundAt |-> 0, claimedAt |-> Unclaimed]
    /\ served = [b \in Browsers |-> 0]

\* readInteractiveToken on a session: neither its own expiry nor the absolute
\* one has come.
Usable(b) == cookie[b].held /\ instant < cookie[b].exp /\ instant < cookie[b].abs

\* mintInteractiveToken as the link is exchanged: both expiries start now.
Minted == [held |-> TRUE, exp |-> instant + TTL, abs |-> instant + ABSOLUTE_TTL]

\* Mutant: a renewed session is a new session.
RenewedAfresh(b) == Minted

\* usableSession re-mints the session it read: a new sliding expiry under the
\* absolute expiry it already had.
Renewed(b) == [cookie[b] EXCEPT !.exp = instant + TTL]

\* GET interactive/:id?token=.  A browser that holds a session is sent to the
\* page as it is; otherwise sessionFromLink needs a live link and a wallet still
\* permitted, and the answer sets the cookie.
FollowLink(b) ==
    /\ ~Usable(b)
    /\ instant < LINK_TTL
    /\ permitted
    /\ cookie' = [cookie EXCEPT ![b] = Minted]
    /\ UNCHANGED <<instant, posting, permitted, deposit, served>>

\* GET interactive/:id.  The cookie is renewed before the page is rendered, and
\* stays renewed when the page is refused for the wallet's sake.
LoadPage(b) ==
    /\ Usable(b)
    /\ cookie' = [cookie EXCEPT ![b] = Renewed(b)]
    /\ served' = [served EXCEPT ![b] = IF permitted THEN instant ELSE @]
    /\ UNCHANGED <<instant, posting, permitted, deposit>>

\* submitAmount: an order is opened for a transaction that has none.
SubmitAmount(b) ==
    /\ Usable(b)
    /\ permitted
    /\ deposit.status = "none"
    /\ deposit' = [deposit EXCEPT !.status = "MATCHED", !.refundAt = instant + CLAIM_WINDOW]
    /\ served' = [served EXCEPT ![b] = instant]
    /\ UNCHANGED <<instant, cookie, posting, permitted>>

\* claimPaid up to its transaction: interactiveState admits the session and the
\* wallet, the row read is FUNDED and unclaimed, and the refund is not yet open.
StartClaim(b) ==
    /\ ~posting[b]
    /\ Usable(b)
    /\ permitted
    /\ deposit.status = "FUNDED"
    /\ deposit.claimedAt = Unclaimed
    /\ instant <= deposit.refundAt
    /\ posting' = [posting EXCEPT ![b] = TRUE]
    /\ served' = [served EXCEPT ![b] = instant]
    /\ UNCHANGED <<instant, cookie, permitted, deposit>>

\* The condition of claimPaid's updateMany.
ClaimStillOpen == deposit.status = "FUNDED" /\ deposit.claimedAt = Unclaimed

\* claimPaid's transaction.  A row that no longer matches is left alone, and the
\* claim is rolled back when no provider is on file to be told of it.
FinishClaim(b) ==
    /\ posting[b]
    /\ posting' = [posting EXCEPT ![b] = FALSE]
    /\ \E onFile \in BOOLEAN :
         deposit' = [deposit EXCEPT !.claimedAt = IF ClaimStillOpen /\ onFile THEN instant ELSE @]
    /\ UNCHANGED <<instant, cookie, permitted, served>>

\* revokeWallet: the wallet is no longer anyone's.
WalletRevoked ==
    /\ permitted
    /\ permitted' = FALSE
    /\ UNCHANGED <<instant, cookie, posting, deposit, served>>

\* The order follows the chain.
OrderMovesOn ==
    /\ \E s \in {<<"MATCHED", "FUNDED">>, <<"FUNDED", "FIAT_PAID">>} :
         /\ deposit.status = s[1]
         /\ deposit' = [deposit EXCEPT !.status = s[2]]
    /\ UNCHANGED <<instant, cookie, posting, permitted, served>>

\* Time passes; a browser drops a cookie at its maxAge, which is the TTL.
InstantPasses ==
    /\ instant < MaxInstant
    /\ instant' = instant + 1
    /\ cookie' = [b \in Browsers |-> IF instant + 1 < cookie[b].exp THEN cookie[b] ELSE NoCookie]
    /\ UNCHANGED <<posting, permitted, deposit, served>>

InteractiveNext ==
    \/ \E b \in Browsers :
         \/ FollowLink(b)
         \/ LoadPage(b)
         \/ SubmitAmount(b)
         \/ StartClaim(b)
         \/ FinishClaim(b)
    \/ WalletRevoked
    \/ OrderMovesOn
    \/ InstantPasses

InteractiveSpec == InteractiveInit /\ [][InteractiveNext]_interactiveVars

-----------------------------------------------------------------------------

\* However often its pages are reloaded, nothing is served to a hosted session
\* later than the link's life and one absolute lifetime after the wallet opened
\* it (usableSession carries abs through every renewal).
SessionEndsInADay ==
    \A b \in Browsers : served[b] < LINK_TTL + ABSOLUTE_TTL

\* The moment at which a depositor said they paid is never moved, by a second
\* browser or by a claim that was under way when the first landed: it is what a
\* resolver compares with the provider's statement (claimPaid).
ClaimStandsAsMade ==
    [][deposit.claimedAt # Unclaimed => deposit'.claimedAt = deposit.claimedAt]_interactiveVars
=============================================================================
