------------------------------- MODULE SignIn -------------------------------
(***************************************************************************)
(* Signing in and the wallets of a person.  A wallet signs a challenge (the*)
(* coordinator's own, or a SEP-10 transaction), the challenge is spent, the*)
(* wallet is tied to a person, and a token is minted.  A person may link   *)
(* further wallets by a link challenge and revoke them.  Requests are      *)
(* concurrent; the hourly pruning deletes what has expired.                *)
(***************************************************************************)
EXTENDS Integers, Sequences, FiniteSets

CONSTANTS Wallets, SignCalls,
    SECOND,              \* ticks in a second: SEP-10 bounds are whole seconds
    ChallengeTtl, LINK_CHALLENGE_TTL, \* whole seconds
    WALLET_CAP,
    FirstWallets,        \* wallets of the person who is there at the start
    MaxTime, MaxChallenges, MaxLinkChallenges, MaxPersons \* bounds

ASSUME SignInAssumption ==
    /\ SECOND \in Nat \ {0} /\ WALLET_CAP \in Nat \ {0}
    /\ {ChallengeTtl, LINK_CHALLENGE_TTL, MaxTime, MaxChallenges, MaxLinkChallenges, MaxPersons} \subseteq Nat
    /\ IsFiniteSet(Wallets) /\ FirstWallets \subseteq Wallets /\ Cardinality(FirstWallets) <= WALLET_CAP

VARIABLES
    clock,
    issued,     \* challenges handed out; they are not stored by the coordinator
    consumed,   \* ConsumedChallenge rows
    links,      \* WalletLink: wallet -> <<>> or <<[person, status]>>
    persons,    \* persons created so far
    challenges, \* WalletLinkChallenge rows
    scalls,     \* requests in flight
    spent,      \* how often each challenge was spent: 0, 1, or 2 for more than once
    linkUses    \* how often each link challenge linked a wallet

signVars == <<clock, issued, consumed, links, persons, challenges, scalls, spent, linkUses>>

Resting == [at |-> "idle"]

SInit ==
    /\ clock = 0
    /\ issued = {}
    /\ consumed = {}
    /\ links = [w \in Wallets |-> IF w \in FirstWallets THEN <<[person |-> 1, status |-> "ACTIVE"]>> ELSE <<>>]
    /\ persons = 1
    /\ challenges = {}
    /\ scalls = [s \in SignCalls |-> Resting]
    /\ spent = [n \in 1 .. MaxChallenges |-> 0]
    /\ linkUses = <<>>

Linked(w) == links[w] # <<>>
Link(w) == links[w][1]
Active(w) == Linked(w) /\ Link(w).status = "ACTIVE"
ActiveWallets(p) == {w \in Wallets : Active(w) /\ Link(w).person = p}
Serve(s, q) == scalls' = [scalls EXCEPT ![s] = q]
SetLink(w, p) == links' = [links EXCEPT ![w] = <<[person |-> p, status |-> "ACTIVE"]>>]

----------------------------------------------------------------------------
(* Challenges and tokens.                                                  *)

\* issueChallenge and buildChallenge.  A SEP-10 challenge ends at the end of a
\* whole second.
IssueChallenge(cls, w) ==
    LET n == Cardinality(issued) + 1
        exp == clock + ChallengeTtl * SECOND
    IN  /\ n <= MaxChallenges
        /\ issued' = issued \cup {[nonce |-> n, cls |-> cls, wallet |-> w,
                                  exp |-> IF cls = "sep10" THEN (exp \div SECOND) * SECOND ELSE exp]}
        /\ UNCHANGED <<clock, consumed, links, persons, challenges, scalls, spent, linkUses>>

\* verify and read: the time is compared before anything is awaited.
Unexpired(c) ==
    IF c.cls = "sep10" THEN clock \div SECOND <= c.exp \div SECOND ELSE c.exp > clock

Present(s, c) ==
    /\ scalls[s] = Resting
    /\ Unexpired(c)
    /\ Serve(s, [at |-> "consume", challenge |-> c])
    /\ UNCHANGED <<clock, issued, consumed, links, persons, challenges, spent, linkUses>>

\* consume: the nonce is the primary key of the row.
Consume(s) ==
    LET c == scalls[s].challenge
        known == \E row \in consumed : row.nonce = c.nonce
    IN  /\ scalls[s].at = "consume"
        /\ IF known
           THEN Serve(s, Resting) /\ UNCHANGED <<consumed, spent>>
           ELSE /\ consumed' = consumed \cup {[nonce |-> c.nonce, expiresAt |-> c.exp]}
                /\ spent' = [spent EXCEPT ![c.nonce] = IF @ < 2 THEN @ + 1 ELSE @]
                /\ Serve(s, [scalls[s] EXCEPT !.at = "prove"])
        /\ UNCHANGED <<clock, issued, links, persons, challenges, linkUses>>

\* proveWallet: read, then create a person and the link in one transaction
\* that loses to whoever linked the wallet first.
ProveWallet(s) ==
    /\ scalls[s].at = "prove"
    /\ Serve(s, [scalls[s] EXCEPT !.at = IF Linked(scalls[s].challenge.wallet) THEN "resolve" ELSE "create"])
    /\ UNCHANGED <<clock, issued, consumed, links, persons, challenges, spent, linkUses>>

CreatePerson(s) ==
    LET w == scalls[s].challenge.wallet
    IN  /\ scalls[s].at = "create"
        /\ IF Linked(w) THEN UNCHANGED <<links, persons>>
           ELSE /\ persons < MaxPersons
                /\ persons' = persons + 1
                /\ SetLink(w, persons + 1)
        /\ Serve(s, [scalls[s] EXCEPT !.at = "resolve"])
        /\ UNCHANGED <<clock, issued, consumed, challenges, spent, linkUses>>

\* resolveRole, or lookupPerson for SEP-10: a revoked wallet gets no token.
ResolveRole(s) ==
    /\ scalls[s].at = "resolve"
    /\ Serve(s, IF Active(scalls[s].challenge.wallet) THEN [scalls[s] EXCEPT !.at = "token"] ELSE Resting)
    /\ UNCHANGED <<clock, issued, consumed, links, persons, challenges, spent, linkUses>>

----------------------------------------------------------------------------
(* Further wallets: what a holder of a token asks for.                     *)

IssueLinkChallenge(s, w) ==
    LET n == Len(linkUses) + 1
        p == Link(scalls[s].challenge.wallet).person
    IN  /\ scalls[s].at = "token"
        /\ Active(scalls[s].challenge.wallet)
        /\ n <= MaxLinkChallenges
        /\ linkUses' = Append(linkUses, 0)
        /\ challenges' = challenges \cup {[nonce |-> n, person |-> p, wallet |-> w, used |-> FALSE,
                                          exp |-> clock + LINK_CHALLENGE_TTL * SECOND]}
        /\ UNCHANGED <<clock, issued, consumed, links, persons, scalls, spent>>

\* linkWallet up to its transaction.
StartLink(s, c) ==
    LET w == scalls[s].challenge.wallet
    IN  /\ scalls[s].at = "token"
        /\ Active(w)
        /\ ~c.used /\ c.person = Link(w).person /\ c.exp > clock
        /\ Serve(s, [at |-> "link", person |-> c.person, nonce |-> c.nonce, wallet |-> c.wallet])
        /\ UNCHANGED <<clock, issued, consumed, links, persons, challenges, spent, linkUses>>

\* What the transaction checks under the person's lock: the wallet is free or
\* the person's own, the cap, and that the challenge is still there unspent.
MayLink(q) ==
    /\ Linked(q.wallet) => Link(q.wallet).person = q.person
    /\ Active(q.wallet) \/ Cardinality(ActiveWallets(q.person)) < WALLET_CAP
    /\ \E c \in challenges : c.nonce = q.nonce /\ ~c.used

LinkWallet(s) ==
    LET q == scalls[s]
    IN  /\ q.at = "link"
        /\ Serve(s, Resting)
        /\ IF MayLink(q)
           THEN /\ SetLink(q.wallet, q.person)
                /\ challenges' = {IF c.nonce = q.nonce THEN [c EXCEPT !.used = TRUE] ELSE c : c \in challenges}
                /\ linkUses' = [linkUses EXCEPT ![q.nonce] = @ + 1]
           ELSE UNCHANGED <<links, challenges, linkUses>>
        /\ UNCHANGED <<clock, issued, consumed, persons, spent>>

\* revokeWallet up to its transaction, and the transaction.
StartRevoke(s, w) ==
    /\ scalls[s].at = "token"
    /\ Active(scalls[s].challenge.wallet)
    /\ Serve(s, [at |-> "revoke", person |-> Link(scalls[s].challenge.wallet).person, wallet |-> w])
    /\ UNCHANGED <<clock, issued, consumed, links, persons, challenges, spent, linkUses>>

\* Mutant: the last wallet may be revoked.
RevokeAny(q) == Active(q.wallet) /\ Link(q.wallet).person = q.person

MayRevoke(q) ==
    /\ Cardinality(ActiveWallets(q.person)) > 1
    /\ Active(q.wallet) /\ Link(q.wallet).person = q.person

RevokeWallet(s) ==
    LET q == scalls[s]
    IN  /\ q.at = "revoke"
        /\ Serve(s, Resting)
        /\ links' = IF MayRevoke(q) THEN [links EXCEPT ![q.wallet] = <<[@[1] EXCEPT !.status = "REVOKED"]>>] ELSE links
        /\ UNCHANGED <<clock, issued, consumed, persons, challenges, spent, linkUses>>

----------------------------------------------------------------------------
\* Mutant: what was spent is pruned a second early.
PruneEarly ==
    /\ consumed' = {row \in consumed : row.expiresAt >= clock + SECOND}
    /\ challenges' = challenges
    /\ UNCHANGED <<clock, issued, links, persons, scalls, spent, linkUses>>

\* pruneOldQuotes, for the two tables of this module.
PruneExpired ==
    /\ consumed' = {row \in consumed : row.expiresAt >= clock}
    /\ challenges' = {c \in challenges : c.exp >= clock}
    /\ UNCHANGED <<clock, issued, links, persons, scalls, spent, linkUses>>

SignTick ==
    /\ clock < MaxTime
    /\ clock' = clock + 1
    /\ UNCHANGED <<issued, consumed, links, persons, challenges, scalls, spent, linkUses>>

\* The request fails (a bad signature, the network), or the token is put away.
Leave(s) ==
    /\ scalls[s] # Resting
    /\ Serve(s, Resting)
    /\ UNCHANGED <<clock, issued, consumed, links, persons, challenges, spent, linkUses>>

SNext ==
    \/ \E cls \in {"session", "sep10"}, w \in Wallets : IssueChallenge(cls, w)
    \/ \E s \in SignCalls :
         \/ \E c \in issued : Present(s, c)
         \/ Consume(s) \/ ProveWallet(s) \/ CreatePerson(s) \/ ResolveRole(s) \/ Leave(s)
         \/ \E w \in Wallets : IssueLinkChallenge(s, w) \/ StartRevoke(s, w)
         \/ \E c \in challenges : StartLink(s, c)
         \/ LinkWallet(s) \/ RevokeWallet(s)
    \/ PruneExpired \/ SignTick

SSpec == SInit /\ [][SNext]_signVars

----------------------------------------------------------------------------
(* Properties.                                                             *)

\* Up to its expiry a sign-in challenge acts at most once, whatever requests
\* present it at the same time and whenever the pruning runs (consume,
\* pruneOldQuotes); and a link challenge, read before the transaction that
\* spends it, links one wallet at most, ever (linkWallet).
ChallengeSpentOnce ==
    /\ \A c \in issued : clock <= c.exp => spent[c.nonce] <= 1
    /\ \A n \in DOMAIN linkUses : linkUses[n] <= 1

\* SECURITY.md:504: "a login challenge is single use, on both doors".  The row
\* that says it is spent goes with its expiry; a request let in before that, or
\* a SEP-10 one in the challenge's last whole second, spends it again.
LoginIsSingleUse == \A n \in DOMAIN spent : spent[n] <= 1

\* A person with a wallet keeps at least one active wallet and never holds
\* more than the cap, whatever links and revocations race.
PersonKeepsAWallet ==
    \A w \in Wallets : Linked(w) =>
        Cardinality(ActiveWallets(Link(w).person)) \in 1 .. WALLET_CAP

\* A wallet never passes from one person to another: not when two sign-ins
\* create its person at the same time, nor when a link races a sign-in.
WalletKeepsItsPerson ==
    [][\A w \in Wallets : Linked(w) => links'[w] # <<>> /\ links'[w][1].person = Link(w).person]_signVars
=============================================================================
