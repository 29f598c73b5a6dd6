---------------------------- MODULE WalletProofs ----------------------------
(***************************************************************************)
(* Proofs about wallets: signing in (challenges act once, a person keeps a *)
(* wallet, a wallet keeps its person) and what a page says of a            *)
(* transaction it had signed and submitted, for any wallets, requests,     *)
(* caps, lifetimes and presses of a button.                                *)
(***************************************************************************)
EXTENDS SignIn, Submission, FiniteSetTheorems, TLAPS

SLink(n) == [person : 1 .. n, status : {"ACTIVE", "REVOKED"}]
SLinkChallenge(n) == [nonce : Nat, person : 1 .. n, wallet : Wallets, used : BOOLEAN, exp : Int]

\* The nonce tells the challenges apart and never comes again.
IssuedOK ==
    /\ IsFiniteSet(issued) /\ Cardinality(issued) <= MaxChallenges
    /\ \A c \in issued : c.nonce \in 1 .. Cardinality(issued) /\ c.wallet \in Wallets /\ c.exp \in Int
    /\ \A c, d \in issued : c.nonce = d.nonce => c = d

\* A challenge that was spent is on record until it has expired, so a second
\* spending comes after that.
SpentOK ==
    /\ clock \in Nat
    /\ DOMAIN spent = 1 .. MaxChallenges
    /\ \A n \in 1 .. MaxChallenges : /\ spent[n] \in {0, 1, 2}
                                     /\ n > Cardinality(issued) => spent[n] = 0
    /\ \A c \in issued : spent[c.nonce] # 0 => c.exp < clock \/ \E row \in consumed : row.nonce = c.nonce
    /\ \A c \in issued : spent[c.nonce] = 2 => c.exp < clock
    /\ \A row \in consumed : \E c \in issued : row.nonce = c.nonce /\ row.expiresAt = c.exp

\* A link challenge that is not marked used has linked nothing.
LinksOK ==
    /\ linkUses \in Seq({0, 1})
    /\ \A c \in challenges : /\ c \in SLinkChallenge(persons) /\ c.nonce \in DOMAIN linkUses
                             /\ ~c.used => linkUses[c.nonce] = 0

PersonsOK ==
    /\ persons \in Nat \ {0}
    /\ DOMAIN links = Wallets
    /\ \A w \in Wallets : Linked(w) => Link(w) \in SLink(persons)

SCallOK(q, known, n) ==
    /\ q.at \in {"idle", "consume", "prove", "create", "resolve", "token", "link", "revoke"}
    /\ q.at \in {"consume", "prove", "create", "resolve", "token"} =>
         DOMAIN q = {"at", "challenge"} /\ q.challenge \in known
    /\ q.at \in {"link", "revoke"} => q.wallet \in Wallets /\ q.person \in 1 .. n

SCallsOK ==
    /\ DOMAIN scalls = SignCalls
    /\ \A s \in SignCalls : SCallOK(scalls[s], issued, persons)

SignInv == IssuedOK /\ SpentOK /\ LinksOK /\ PersonsOK /\ SCallsOK /\ PersonKeepsAWallet

\* The wallets of a person are finitely many.
LEMMA WalletsFinite == \A p : IsFiniteSet(ActiveWallets(p)) /\ Cardinality(ActiveWallets(p)) \in Nat
<1> SUFFICES ASSUME NEW p
             PROVE  IsFiniteSet(ActiveWallets(p)) /\ Cardinality(ActiveWallets(p)) \in Nat
  OBVIOUS
<1>1. ActiveWallets(p) \subseteq Wallets /\ IsFiniteSet(Wallets)
  BY SignInAssumption DEF ActiveWallets
<1> QED BY <1>1, FS_Subset, FS_CardinalityType

\* Linking a wallet that is free or the person's own adds it to that person's
\* wallets and to nobody else's (SetLink).
LEMMA LinkingKeeps ==
    ASSUME PersonsOK, PersonKeepsAWallet, NEW w \in Wallets, NEW p \in 1 .. persons', SetLink(w, p),
           persons' \in Nat, persons <= persons',
           Linked(w) => Link(w).person = p,
           Active(w) \/ Cardinality(ActiveWallets(p)) < WALLET_CAP
    PROVE  PersonsOK' /\ PersonKeepsAWallet'
<1>1. /\ DOMAIN links = Wallets /\ links' = [links EXCEPT ![w] = <<[person |-> p, status |-> "ACTIVE"]>>]
      /\ persons \in Nat \ {0}
  BY DEF PersonsOK, SetLink
<1>2. /\ links'[w] = <<[person |-> p, status |-> "ACTIVE"]>>
      /\ \A v \in Wallets : v # w => links'[v] = links[v]
  BY <1>1
<1>3. /\ links'[w] # <<>> /\ links'[w][1].person = p /\ links'[w][1].status = "ACTIVE"
      /\ links'[w][1] \in SLink(persons')
  BY <1>2 DEF SLink
<1>4. \A v \in Wallets : v # w => (Linked(v)' <=> Linked(v)) /\ Link(v)' = Link(v) /\ (Active(v)' <=> Active(v))
  BY <1>2 DEF Linked, Link, Active
<1>5. PersonsOK'
  <2>1. ASSUME NEW v \in Wallets, Linked(v)' PROVE Link(v)' \in SLink(persons')
    <3>1. CASE v = w
      BY <1>3, <3>1 DEF Link
    <3>2. CASE v # w
      BY <1>1, <1>4, <2>1, <3>2 DEF PersonsOK, SLink
    <3> QED BY <3>1, <3>2
  <2> QED BY <1>1, <2>1 DEF PersonsOK
<1>6. Active(w)' /\ Link(w)'.person = p
  BY <1>3 DEF Active, Linked, Link
<1>7. ActiveWallets(p)' = ActiveWallets(p) \cup {w}
  BY <1>4, <1>6 DEF ActiveWallets
<1>8. \A x : x # p => ActiveWallets(x)' = ActiveWallets(x)
  <2> SUFFICES ASSUME NEW x, x # p PROVE ActiveWallets(x)' = ActiveWallets(x)
    OBVIOUS
  <2>1. w \notin ActiveWallets(x)' /\ w \notin ActiveWallets(x)
    BY <1>6 DEF ActiveWallets, Active
  <2> QED BY <1>4, <2>1 DEF ActiveWallets
<1>9. Cardinality(ActiveWallets(p) \cup {w}) \in 1 .. WALLET_CAP
  <2>1. CASE w \in ActiveWallets(p)
    <3>1. ActiveWallets(p) \cup {w} = ActiveWallets(p) /\ Linked(w) /\ Link(w).person = p
      BY <2>1 DEF ActiveWallets, Active
    <3> QED BY <3>1 DEF PersonKeepsAWallet
  <2>2. CASE w \notin ActiveWallets(p)
    <3>1. ~Active(w)
      BY <2>2 DEF ActiveWallets, Active
    <3>2. Cardinality(ActiveWallets(p) \cup {w}) = Cardinality(ActiveWallets(p)) + 1
      BY SMTT(30), <2>2, WalletsFinite, FS_AddElement
    <3> QED BY <3>1, <3>2, WalletsFinite, SignInAssumption
  <2> QED BY <2>1, <2>2
<1>10. ASSUME NEW v \in Wallets, Linked(v)'
       PROVE  Cardinality(ActiveWallets(Link(v).person))' \in 1 .. WALLET_CAP
  <2>0. PICK x : x = Link(v)'.person
    OBVIOUS
  <2>a. ActiveWallets(Link(v).person)' = ActiveWallets(x)'
    BY <2>0 DEF ActiveWallets
  <2>1. CASE x = p
    BY <1>7, <1>9, <2>a, <2>1
  <2>2. CASE x # p
    <3>1. v # w /\ Linked(v) /\ Link(v).person = x
      BY <1>4, <1>6, <1>10, <2>0, <2>2
    <3>2. Cardinality(ActiveWallets(x)) \in 1 .. WALLET_CAP
      BY <3>1 DEF PersonKeepsAWallet
    <3> QED BY <1>8, <2>a, <2>2, <3>2
  <2> QED BY <2>1, <2>2
<1> QED BY <1>5, <1>10 DEF PersonKeepsAWallet

\* Revoking one of several active wallets leaves the person one (revokeWallet).
LEMMA RevokingKeeps ==
    ASSUME PersonsOK, PersonKeepsAWallet, NEW q, MayRevoke(q), q.wallet \in Wallets,
           links' = [links EXCEPT ![q.wallet] = <<[@[1] EXCEPT !.status = "REVOKED"]>>], persons' = persons
    PROVE  PersonsOK' /\ PersonKeepsAWallet'
<1> DEFINE w == q.wallet
           p == q.person
           k == [links[w][1] EXCEPT !.status = "REVOKED"]
<1>1. DOMAIN links = Wallets /\ Active(w) /\ Linked(w) /\ Link(w).person = p /\ Link(w) \in SLink(persons)
      /\ Cardinality(ActiveWallets(p)) > 1
  BY DEF PersonsOK, MayRevoke, Active
<1>2. k \in SLink(persons) /\ k.status = "REVOKED" /\ k.person = p
  BY <1>1 DEF SLink, Link
<1>3. links' = [links EXCEPT ![w] = <<k>>]
  BY <1>1
<1> HIDE DEF k
<1>4. links'[w] = <<k>> /\ \A v \in Wallets : v # w => links'[v] = links[v]
  BY <1>1, <1>3
<1>5. links'[w] # <<>> /\ links'[w][1] = k
  BY <1>4
<1>6. \A v \in Wallets : v # w => (Linked(v)' <=> Linked(v)) /\ Link(v)' = Link(v) /\ (Active(v)' <=> Active(v))
  BY <1>4 DEF Linked, Link, Active
<1>7. ~Active(w)' /\ Link(w)' = k
  BY <1>2, <1>5 DEF Active, Link
<1>8. PersonsOK'
  <2>1. ASSUME NEW v \in Wallets, Linked(v)' PROVE Link(v)' \in SLink(persons)
    <3>1. CASE v = w
      BY <1>2, <1>7, <3>1
    <3>2. CASE v # w
      BY <1>6, <2>1, <3>2 DEF PersonsOK
    <3> QED BY <3>1, <3>2
  <2> QED BY <1>1, <1>3, <2>1 DEF PersonsOK
<1>9. ActiveWallets(p)' = ActiveWallets(p) \ {w}
  BY <1>6, <1>7 DEF ActiveWallets
<1>10. ASSUME NEW x, x # p PROVE ActiveWallets(x)' = ActiveWallets(x)
  <2>1. w \notin ActiveWallets(x)' /\ w \notin ActiveWallets(x)
    BY <1>1, <1>7, <1>10 DEF ActiveWallets
  <2> QED BY <1>6, <2>1 DEF ActiveWallets
<1>11. Cardinality(ActiveWallets(p) \ {w}) \in 1 .. WALLET_CAP
  <2>1. w \in ActiveWallets(p) /\ Cardinality(ActiveWallets(p)) \in 1 .. WALLET_CAP
    BY <1>1 DEF ActiveWallets, PersonKeepsAWallet
  <2>2. Cardinality(ActiveWallets(p) \ {w}) = Cardinality(ActiveWallets(p)) - 1
    BY Zenon, <2>1, WalletsFinite, FS_RemoveElement
  <2> QED BY <1>1, <2>1, <2>2, SignInAssumption
<1>12. ASSUME NEW v \in Wallets, Linked(v)'
       PROVE  Cardinality(ActiveWallets(Link(v).person))' \in 1 .. WALLET_CAP
  <2>0. PICK x : x = Link(v)'.person
    OBVIOUS
  <2>a. ActiveWallets(Link(v).person)' = ActiveWallets(x)'
    BY <2>0 DEF ActiveWallets
  <2>1. CASE x = p
    BY <1>9, <1>11, <2>a, <2>1
  <2>2. CASE x # p
    <3>1. v # w /\ Linked(v) /\ Link(v).person = x
      BY <1>2, <1>6, <1>7, <1>12, <2>0, <2>2
    <3>2. Cardinality(ActiveWallets(x)) \in 1 .. WALLET_CAP
      BY <3>1 DEF PersonKeepsAWallet
    <3> QED BY <1>10, <2>a, <2>2, <3>2
  <2> QED BY <2>1, <2>2
<1> QED BY <1>8, <1>12 DEF PersonKeepsAWallet

\* The first person starts with its wallets, and nothing is issued (SInit).
LEMMA SignInitially == SInit => SignInv
<1> SUFFICES ASSUME SInit PROVE SignInv
  OBVIOUS
<1>1. IssuedOK
  <2>1. IsFiniteSet({}) /\ Cardinality({}) = 0
    BY FS_EmptySet
  <2> QED BY <2>1, SignInAssumption DEF SInit, IssuedOK
<1>2. SpentOK
  BY DEF SInit, SpentOK
<1>3. LinksOK
  BY DEF SInit, LinksOK
<1>4. ASSUME NEW w \in Wallets
      PROVE  /\ Linked(w) <=> w \in FirstWallets
             /\ Linked(w) => Link(w) = [person |-> 1, status |-> "ACTIVE"]
  <2>1. CASE w \in FirstWallets
    <3>1. links[w] = <<[person |-> 1, status |-> "ACTIVE"]>>
      BY <2>1 DEF SInit
    <3> QED BY <2>1, <3>1 DEF Linked, Link
  <2>2. CASE w \notin FirstWallets
    BY <2>2 DEF SInit, Linked
  <2> QED BY <2>1, <2>2
<1>5. PersonsOK
  BY <1>4 DEF SInit, PersonsOK, SLink
<1>6. ActiveWallets(1) = FirstWallets
  BY <1>4, SignInAssumption DEF ActiveWallets, Active
<1>7. PersonKeepsAWallet
  <2> SUFFICES ASSUME NEW w \in Wallets, Linked(w)
               PROVE  Cardinality(ActiveWallets(Link(w).person)) \in 1 .. WALLET_CAP
    BY DEF PersonKeepsAWallet
  <2>1. Link(w).person = 1 /\ w \in FirstWallets
    BY <1>4
  <2>2. Cardinality(FirstWallets) # 0
    BY <1>6, <2>1, WalletsFinite, FS_EmptySet
  <2>3. Cardinality(FirstWallets) \in Nat /\ Cardinality(FirstWallets) <= WALLET_CAP
    BY <1>6, WalletsFinite, SignInAssumption
  <2> QED BY <1>6, <2>1, <2>2, <2>3, SignInAssumption
<1>8. SCallsOK
  BY DEF SInit, SCallsOK, SCallOK, Resting
<1> QED BY <1>1, <1>2, <1>3, <1>5, <1>7, <1>8 DEF SignInv

\* A request moves on while challenges and persons only increase (Serve).
LEMMA ServeKeeps ==
    ASSUME SCallsOK, NEW s \in SignCalls, NEW q, Serve(s, q), SCallOK(q, issued', persons'),
           issued \subseteq issued', persons \in Nat, persons' \in Nat, persons <= persons'
    PROVE  SCallsOK'
<1>1. /\ DOMAIN scalls' = SignCalls /\ scalls'[s] = q
      /\ \A t \in SignCalls : t # s => scalls'[t] = scalls[t]
  BY DEF SCallsOK, Serve
<1>2. ASSUME NEW t \in SignCalls, t # s PROVE SCallOK(scalls[t], issued', persons')
  BY <1>2 DEF SCallsOK, SCallOK
<1> QED BY <1>1, <1>2 DEF SCallsOK

\* Every request, the pruning and the clock keep the challenges spent once and
\* the wallets in order (AuthService, Sep10Service, PersonService).
LEMMA SignStep == SignInv /\ [SNext]_signVars => SignInv'
<1> SUFFICES ASSUME SignInv, [SNext]_signVars
             PROVE  SignInv'
  OBVIOUS
<1>0. /\ IssuedOK /\ SpentOK /\ LinksOK /\ PersonsOK /\ SCallsOK /\ PersonKeepsAWallet
      /\ persons \in Nat /\ clock \in Nat /\ Cardinality(issued) \in Nat /\ MaxChallenges \in Nat
  <2>1. IsFiniteSet(issued)
    BY DEF SignInv, IssuedOK
  <2> QED BY <2>1, FS_CardinalityType, SignInAssumption DEF SignInv, PersonsOK, SpentOK
<1>i. ASSUME UNCHANGED issued PROVE IssuedOK'
  BY <1>0, <1>i DEF IssuedOK
<1>s. ASSUME UNCHANGED <<clock, issued, consumed, spent>> PROVE SpentOK'
  BY <1>0, <1>s DEF SpentOK
<1>l. ASSUME UNCHANGED <<linkUses, challenges>>, persons' \in Nat, persons <= persons' PROVE LinksOK'
  BY <1>0, <1>l DEF LinksOK, SLinkChallenge
<1>p. ASSUME UNCHANGED <<links, persons>> PROVE PersonsOK' /\ PersonKeepsAWallet'
  BY <1>0, <1>p DEF PersonsOK, PersonKeepsAWallet, Linked, Link, ActiveWallets, Active
<1>c. ASSUME NEW s \in SignCalls PROVE SCallOK(scalls[s], issued, persons)
  BY <1>0 DEF SCallsOK
<1>q. ASSUME NEW s \in SignCalls, NEW q, Serve(s, q), SCallOK(q, issued, persons),
             UNCHANGED <<clock, issued, consumed, links, persons, challenges, spent, linkUses>>
      PROVE  SignInv'
  <2>1. SCallsOK'
    BY <1>0, <1>q, ServeKeeps
  <2>2. IssuedOK' /\ SpentOK' /\ LinksOK' /\ PersonsOK' /\ PersonKeepsAWallet'
    BY <1>0, <1>q, <1>i, <1>s, <1>l, <1>p
  <2> QED BY <2>1, <2>2 DEF SignInv
<1>1. ASSUME NEW cls \in {"session", "sep10"}, NEW w \in Wallets, IssueChallenge(cls, w)
      PROVE  SignInv'
  <2> DEFINE n == Cardinality(issued) + 1
             end == clock + ChallengeTtl * SECOND
             exp == IF cls = "sep10" THEN (end \div SECOND) * SECOND ELSE end
             new == [nonce |-> n, cls |-> cls, wallet |-> w, exp |-> exp]
  <2>1. /\ n <= MaxChallenges /\ issued' = issued \cup {new}
        /\ UNCHANGED <<clock, consumed, links, persons, challenges, scalls, spent, linkUses>>
    BY <1>1 DEF IssueChallenge
  <2>2. exp \in Int
    <3>1. ChallengeTtl * SECOND \in Nat
      BY SignInAssumption
    <3>2. end \in Int
      BY <1>0, <3>1
    <3> HIDE DEF end
    <3>3. (end \div SECOND) \in Int
      BY <3>2, SignInAssumption
    <3>4. (end \div SECOND) * SECOND \in Int
      BY <3>3, SignInAssumption
    <3> QED BY <3>2, <3>4
  <2>3. new.nonce = n /\ new.wallet = w /\ new.exp = exp
    OBVIOUS
  <2>4. \A c \in issued : c.nonce \in 1 .. Cardinality(issued)
    BY <1>0 DEF IssuedOK
  <2>5. new \notin issued
    BY <1>0, <2>3, <2>4
  <2> HIDE DEF new, exp
  <2>6. IsFiniteSet(issued') /\ Cardinality(issued') = n
    BY <1>0, <2>1, <2>5, FS_AddElement DEF IssuedOK
  <2>7. IssuedOK'
    <3>1. \A c \in issued' : c.nonce \in 1 .. n /\ c.wallet \in Wallets /\ c.exp \in Int
      BY <1>0, <2>1, <2>2, <2>3 DEF IssuedOK
    <3>2. \A c, d \in issued' : c.nonce = d.nonce => c = d
      BY <1>0, <2>1, <2>3, <2>4 DEF IssuedOK
    <3> QED BY Zenon, <2>1, <2>6, <3>1, <3>2 DEF IssuedOK
  <2>8. SpentOK'
    <3>1. spent[n] = 0
      BY <1>0, <2>1 DEF SpentOK
    <3>2. \A m \in 1 .. MaxChallenges : m > n => spent[m] = 0
      BY <1>0 DEF SpentOK
    <3>3. \A c \in issued' : /\ spent[c.nonce] # 0 => c.exp < clock \/ \E row \in consumed : row.nonce = c.nonce
                             /\ spent[c.nonce] = 2 => c.exp < clock
      BY <1>0, <2>1, <2>3, <3>1 DEF SpentOK
    <3>4. \A row \in consumed : \E c \in issued' : row.nonce = c.nonce /\ row.expiresAt = c.exp
      BY <1>0, <2>1 DEF SpentOK
    <3> QED BY <1>0, <2>1, <2>6, <3>2, <3>3, <3>4 DEF SpentOK
  <2>9. SCallsOK'
    BY <1>0, <2>1 DEF SCallsOK, SCallOK
  <2> QED BY <1>0, <1>l, <1>p, <2>1, <2>7, <2>8, <2>9 DEF SignInv
<1>2. ASSUME NEW s \in SignCalls, NEW c \in issued, Present(s, c)
      PROVE  SignInv'
  <2>1. SCallOK([at |-> "consume", challenge |-> c], issued, persons)
    BY DEF SCallOK
  <2> QED BY <1>2, <1>q, <2>1 DEF Present
<1>rest. \A known, n : SCallOK(Resting, known, n)
  BY DEF SCallOK, Resting
<1>at. ASSUME NEW s \in SignCalls, scalls[s].at \in {"consume", "prove", "create", "resolve", "token"},
              NEW a \in {"prove", "create", "resolve", "token"}
       PROVE  /\ SCallOK([scalls[s] EXCEPT !.at = a], issued, persons)
              /\ scalls[s].challenge \in issued /\ scalls[s].challenge.wallet \in Wallets
  <2>1. DOMAIN scalls[s] = {"at", "challenge"} /\ scalls[s].challenge \in issued
    BY <1>at, <1>c DEF SCallOK
  <2>2. /\ DOMAIN [scalls[s] EXCEPT !.at = a] = {"at", "challenge"}
        /\ [scalls[s] EXCEPT !.at = a].at = a
        /\ [scalls[s] EXCEPT !.at = a].challenge = scalls[s].challenge
    BY <2>1
  <2> QED BY <1>0, <2>1, <2>2 DEF SCallOK, IssuedOK
<1>3. ASSUME NEW s \in SignCalls, Consume(s)
      PROVE  SignInv'
  <2> DEFINE c == scalls[s].challenge
  <2>1. /\ scalls[s].at = "consume" /\ c \in issued
        /\ SCallOK([scalls[s] EXCEPT !.at = "prove"], issued, persons)
    BY Zenon, <1>3, <1>at DEF Consume
  <2>2. CASE \E row \in consumed : row.nonce = c.nonce
    BY <1>3, <1>q, <1>rest, <2>2 DEF Consume
  <2>3. CASE ~ \E row \in consumed : row.nonce = c.nonce
    <3>1. /\ consumed' = consumed \cup {[nonce |-> c.nonce, expiresAt |-> c.exp]}
          /\ spent' = [spent EXCEPT ![c.nonce] = IF @ < 2 THEN @ + 1 ELSE @]
          /\ Serve(s, [scalls[s] EXCEPT !.at = "prove"])
          /\ UNCHANGED <<clock, issued, links, persons, challenges, linkUses>>
      BY <1>3, <2>3 DEF Consume
    <3>2. c.nonce \in 1 .. MaxChallenges /\ c.exp \in Int /\ c.nonce \in 1 .. Cardinality(issued)
      BY <1>0, <2>1 DEF IssuedOK
    <3>3. spent[c.nonce] # 0 => c.exp < clock
      BY <1>0, <2>1, <2>3, <3>2 DEF SpentOK
    <3> HIDE DEF c
    <3>4. spent[c.nonce] \in {0, 1, 2} /\ DOMAIN spent = 1 .. MaxChallenges
      BY <1>0, <3>2 DEF SpentOK
    <3>5. /\ DOMAIN spent' = 1 .. MaxChallenges /\ spent'[c.nonce] \in {0, 1, 2}
          /\ spent'[c.nonce] = 2 => spent[c.nonce] # 0
          /\ \A n \in 1 .. MaxChallenges : n # c.nonce => spent'[n] = spent[n]
      BY <3>1, <3>2, <3>3, <3>4
    <3>6. \A n \in 1 .. MaxChallenges : /\ spent'[n] \in {0, 1, 2}
                                        /\ n > Cardinality(issued) => spent'[n] = 0
      BY <1>0, <3>2, <3>5 DEF SpentOK
    <3>7. ASSUME NEW d \in issued, spent'[d.nonce] # 0
          PROVE  d.exp < clock \/ \E row \in consumed' : row.nonce = d.nonce
      <4>1. CASE d.nonce = c.nonce
        <5> DEFINE new == [nonce |-> c.nonce, expiresAt |-> c.exp]
        <5>1. new \in consumed' /\ new.nonce = d.nonce
          BY <3>1, <4>1
        <5> HIDE DEF new
        <5> QED BY <5>1
      <4>2. CASE d.nonce # c.nonce
        <5>1. d.nonce \in 1 .. MaxChallenges
          BY <1>0 DEF IssuedOK
        <5> QED BY <1>0, <3>1, <3>5, <3>7, <4>2, <5>1 DEF SpentOK
      <4> QED BY <4>1, <4>2
    <3>11. ASSUME NEW d \in issued, spent'[d.nonce] = 2
           PROVE  d.exp < clock
      <4>1. d.nonce \in 1 .. MaxChallenges /\ (d.nonce = c.nonce => d = c)
        BY <1>0, <2>1 DEF IssuedOK
      <4> QED BY <1>0, <3>3, <3>5, <3>11, <4>1 DEF SpentOK
    <3>8. \A row \in consumed' : \E d \in issued : row.nonce = d.nonce /\ row.expiresAt = d.exp
      BY <1>0, <2>1, <3>1 DEF SpentOK, c
    <3>9. SpentOK'
      BY <1>0, <3>1, <3>5, <3>6, <3>7, <3>8, <3>11 DEF SpentOK
    <3>10. SCallsOK'
      BY <1>0, <2>1, <3>1, ServeKeeps
    <3> QED BY <1>0, <1>i, <1>l, <1>p, <3>1, <3>9, <3>10 DEF SignInv
  <2> QED BY <2>2, <2>3
<1>4. ASSUME NEW s \in SignCalls, ProveWallet(s)
      PROVE  SignInv'
  BY Zenon, <1>4, <1>q, <1>at DEF ProveWallet
<1>5. ASSUME NEW s \in SignCalls, CreatePerson(s)
      PROVE  SignInv'
  <2> DEFINE w == scalls[s].challenge.wallet
             q == [scalls[s] EXCEPT !.at = "resolve"]
  <2>1. w \in Wallets /\ SCallOK(q, issued, persons)
    BY Zenon, <1>5, <1>at DEF CreatePerson
  <2>2. Serve(s, q) /\ UNCHANGED <<clock, issued, consumed, challenges, spent, linkUses>>
    BY <1>5 DEF CreatePerson
  <2>3. CASE Linked(w)
    BY <1>5, <1>q, <2>1, <2>2, <2>3 DEF CreatePerson
  <2>4. CASE ~Linked(w)
    <3>1. persons' = persons + 1 /\ SetLink(w, persons + 1)
      BY <1>5, <2>4 DEF CreatePerson
    <3>2. ActiveWallets(persons + 1) = {}
      BY <1>0 DEF ActiveWallets, PersonsOK, Active, SLink
    <3>3. Cardinality(ActiveWallets(persons + 1)) < WALLET_CAP
      <4>1. Cardinality({}) = 0
        BY FS_EmptySet
      <4> QED BY <3>2, <4>1, SignInAssumption
    <3> HIDE DEF q, w
    <3>4. PersonsOK' /\ PersonKeepsAWallet'
      BY <1>0, <2>1, <2>4, <3>1, <3>3, LinkingKeeps
    <3>5. SCallOK(q, issued', persons')
      BY <1>0, <2>1, <2>2, <3>1 DEF SCallOK
    <3>6. SCallsOK'
      BY <1>0, <2>2, <3>1, <3>5, ServeKeeps
    <3> QED BY <1>0, <1>i, <1>s, <1>l, <2>2, <3>1, <3>4, <3>6 DEF SignInv
  <2> QED BY <2>3, <2>4
<1>6. ASSUME NEW s \in SignCalls, ResolveRole(s)
      PROVE  SignInv'
  BY Zenon, <1>6, <1>q, <1>at, <1>rest DEF ResolveRole
<1>7. ASSUME NEW s \in SignCalls, Leave(s)
      PROVE  SignInv'
  BY <1>7, <1>q, <1>rest DEF Leave
<1>8. ASSUME NEW s \in SignCalls, NEW w \in Wallets, IssueLinkChallenge(s, w)
      PROVE  SignInv'
  <2> DEFINE n == Len(linkUses) + 1
             p == Link(scalls[s].challenge.wallet).person
             new == [nonce |-> n, person |-> p, wallet |-> w, used |-> FALSE,
                     exp |-> clock + LINK_CHALLENGE_TTL * SECOND]
  <2>1. /\ linkUses' = Append(linkUses, 0) /\ challenges' = challenges \cup {new}
        /\ UNCHANGED <<clock, issued, consumed, links, persons, scalls, spent>>
        /\ scalls[s].at = "token" /\ Active(scalls[s].challenge.wallet)
    BY <1>8 DEF IssueLinkChallenge
  <2>2. scalls[s].challenge.wallet \in Wallets
    BY ZenonT(60), <1>at, <2>1
  <2>3. p \in 1 .. persons
    BY <1>0, <2>1, <2>2 DEF PersonsOK, Active, SLink
  <2>4. LINK_CHALLENGE_TTL * SECOND \in Nat
    BY SignInAssumption
  <2>5. Len(linkUses) \in Nat /\ DOMAIN linkUses = 1 .. Len(linkUses)
    BY SMTT(30), <1>0 DEF LinksOK
  <2>6. new \in SLinkChallenge(persons) /\ new.nonce = n /\ new.used = FALSE
    <3>1. clock + LINK_CHALLENGE_TTL * SECOND \in Int /\ n \in Nat
      BY <1>0, <2>4, <2>5
    <3> QED BY <2>3, <3>1 DEF SLinkChallenge
  <2>7. /\ linkUses' \in Seq({0, 1}) /\ DOMAIN linkUses' = 1 .. n /\ linkUses'[n] = 0
        /\ \A m \in DOMAIN linkUses : m \in DOMAIN linkUses' /\ linkUses'[m] = linkUses[m]
    <3>1. linkUses \in Seq({0, 1})
      BY <1>0 DEF LinksOK
    <3>2. linkUses' \in Seq({0, 1}) /\ Len(linkUses') = n
      BY <2>1, <3>1
    <3>3. DOMAIN linkUses' = 1 .. n
      BY <3>2
    <3>4. linkUses'[n] = 0 /\ \A m \in 1 .. Len(linkUses) : linkUses'[m] = linkUses[m]
      BY <2>1, <3>1
    <3> QED BY SMTT(30), <2>5, <3>2, <3>3, <3>4
  <2> HIDE DEF new
  <2>8. ASSUME NEW c \in challenges'
        PROVE  /\ c \in SLinkChallenge(persons) /\ c.nonce \in DOMAIN linkUses'
               /\ ~c.used => linkUses'[c.nonce] = 0
    <3>1. CASE c = new
      BY <2>5, <2>6, <2>7, <3>1
    <3>2. CASE c \in challenges
      BY <1>0, <2>7, <3>2 DEF LinksOK
    <3> QED BY <2>1, <3>1, <3>2
  <2>9. LinksOK'
    BY <2>1, <2>7, <2>8 DEF LinksOK
  <2>10. SCallsOK'
    BY <1>0, <2>1 DEF SCallsOK
  <2> QED BY SMTT(30), <1>0, <1>i, <1>s, <1>p, <2>1, <2>9, <2>10 DEF SignInv
<1>9. ASSUME NEW s \in SignCalls, NEW w \in Wallets, StartRevoke(s, w)
      PROVE  SignInv'
  <2>1. scalls[s].challenge.wallet \in Wallets
    BY ZenonT(60), <1>9, <1>at DEF StartRevoke
  <2>2. Link(scalls[s].challenge.wallet).person \in 1 .. persons
    BY <1>0, <1>9, <2>1 DEF StartRevoke, PersonsOK, Active, SLink
  <2>3. SCallOK([at |-> "revoke", person |-> Link(scalls[s].challenge.wallet).person, wallet |-> w], issued, persons)
    BY SMTT(30), <2>2 DEF SCallOK
  <2> QED BY <1>9, <1>q, <2>3 DEF StartRevoke
<1>10. ASSUME NEW s \in SignCalls, NEW c \in challenges, StartLink(s, c)
       PROVE  SignInv'
  <2>1. c.person \in 1 .. persons /\ c.wallet \in Wallets
    BY SMTT(30), <1>0 DEF LinksOK, SLinkChallenge
  <2>2. SCallOK([at |-> "link", person |-> c.person, nonce |-> c.nonce, wallet |-> c.wallet], issued, persons)
    BY <2>1 DEF SCallOK
  <2> QED BY <1>10, <1>q, <2>2 DEF StartLink
<1>11. ASSUME NEW s \in SignCalls, LinkWallet(s)
       PROVE  SignInv'
  <2> DEFINE q == scalls[s]
  <2>1. q.at = "link" /\ q.wallet \in Wallets /\ q.person \in 1 .. persons
    BY <1>11, <1>c DEF LinkWallet, SCallOK
  <2>2. Serve(s, Resting) /\ UNCHANGED <<clock, issued, consumed, persons, spent>>
    BY <1>11 DEF LinkWallet
  <2>3. CASE ~MayLink(q)
    BY <1>11, <1>q, <1>rest, <2>2, <2>3 DEF LinkWallet
  <2>4. CASE MayLink(q)
    <3>1. /\ SetLink(q.wallet, q.person)
          /\ challenges' = {IF c.nonce = q.nonce THEN [c EXCEPT !.used = TRUE] ELSE c : c \in challenges}
          /\ linkUses' = [linkUses EXCEPT ![q.nonce] = @ + 1]
      BY <1>11, <2>4 DEF LinkWallet
    <3>2. q.nonce \in DOMAIN linkUses /\ linkUses[q.nonce] = 0
      BY <1>0, <2>4 DEF LinksOK, MayLink
    <3> HIDE DEF q
    <3>3. PersonsOK' /\ PersonKeepsAWallet'
      BY <1>0, <2>1, <2>2, <2>4, <3>1, LinkingKeeps DEF MayLink
    <3>4. /\ linkUses' \in Seq({0, 1}) /\ DOMAIN linkUses' = DOMAIN linkUses
          /\ \A m \in DOMAIN linkUses : m # q.nonce => linkUses'[m] = linkUses[m]
      BY <1>0, <3>1, <3>2 DEF LinksOK
    <3>5. ASSUME NEW d \in challenges'
          PROVE  /\ d \in SLinkChallenge(persons) /\ d.nonce \in DOMAIN linkUses'
                 /\ ~d.used => linkUses'[d.nonce] = 0
      <4>1. PICK c \in challenges : d = IF c.nonce = q.nonce THEN [c EXCEPT !.used = TRUE] ELSE c
        BY <3>1
      <4>2. c \in SLinkChallenge(persons) /\ c.nonce \in DOMAIN linkUses /\ (~c.used => linkUses[c.nonce] = 0)
        BY <1>0 DEF LinksOK
      <4>3. CASE c.nonce = q.nonce
        <5>1. d = [c EXCEPT !.used = TRUE]
          BY <4>1, <4>3
        <5>2. d \in SLinkChallenge(persons) /\ d.used /\ d.nonce = c.nonce
          BY Zenon, <4>2, <5>1 DEF SLinkChallenge
        <5> QED BY <3>4, <4>2, <5>2
      <4>4. CASE c.nonce # q.nonce
        BY <3>4, <4>1, <4>2, <4>4
      <4> QED BY <4>3, <4>4
    <3>6. LinksOK'
      BY <2>2, <3>4, <3>5 DEF LinksOK
    <3>7. SCallsOK'
      BY <1>0, <1>rest, <2>2, ServeKeeps
    <3> QED BY <1>i, <1>s, <2>2, <3>3, <3>6, <3>7 DEF SignInv
  <2> QED BY <2>3, <2>4
<1>12. ASSUME NEW s \in SignCalls, RevokeWallet(s)
       PROVE  SignInv'
  <2> DEFINE q == scalls[s]
  <2>1. q.wallet \in Wallets
    BY <1>12, <1>c DEF RevokeWallet, SCallOK
  <2>2. Serve(s, Resting) /\ UNCHANGED <<clock, issued, consumed, persons, challenges, spent, linkUses>>
    BY <1>12 DEF RevokeWallet
  <2>3. CASE ~MayRevoke(q)
    BY <1>12, <1>q, <1>rest, <2>2, <2>3 DEF RevokeWallet
  <2>4. CASE MayRevoke(q)
    <3>1. links' = [links EXCEPT ![q.wallet] = <<[@[1] EXCEPT !.status = "REVOKED"]>>]
      BY <1>12, <2>4 DEF RevokeWallet
    <3> HIDE DEF q
    <3>2. PersonsOK' /\ PersonKeepsAWallet'
      BY Zenon, <1>0, <2>1, <2>2, <2>4, <3>1, RevokingKeeps
    <3>3. SCallsOK'
      BY <1>0, <1>rest, <2>2, ServeKeeps
    <3> QED BY <1>0, <1>i, <1>s, <1>l, <2>2, <3>2, <3>3 DEF SignInv
  <2> QED BY <2>3, <2>4
<1>13. CASE PruneExpired
  <2>1. /\ consumed' = {row \in consumed : row.expiresAt >= clock}
        /\ challenges' = {c \in challenges : c.exp >= clock}
        /\ UNCHANGED <<clock, issued, links, persons, scalls, spent, linkUses>>
    BY <1>13 DEF PruneExpired
  <2>2. ASSUME NEW c \in issued, spent[c.nonce] # 0
        PROVE  c.exp < clock \/ \E row \in consumed' : row.nonce = c.nonce
    <3>1. CASE c.exp < clock
      BY <3>1
    <3>2. CASE \E row \in consumed : row.nonce = c.nonce
      <4>1. PICK row \in consumed : row.nonce = c.nonce
        BY <3>2
      <4>2. row.expiresAt = c.exp /\ c.exp \in Int
        BY <1>0, <4>1 DEF SpentOK, IssuedOK
      <4>3. c.exp < clock \/ row.expiresAt >= clock
        BY <1>0, <4>2
      <4> QED BY <2>1, <4>1, <4>3
    <3> QED BY <1>0, <2>2, <3>1, <3>2 DEF SpentOK
  <2>3. SpentOK'
    BY <1>0, <2>1, <2>2 DEF SpentOK
  <2>4. LinksOK' /\ SCallsOK'
    BY <1>0, <2>1 DEF LinksOK, SCallsOK
  <2> QED BY <1>i, <1>p, <2>1, <2>3, <2>4 DEF SignInv
<1>14. CASE SignTick
  <2>1. clock' = clock + 1 /\ UNCHANGED <<issued, consumed, links, persons, challenges, scalls, spent, linkUses>>
    BY <1>14 DEF SignTick
  <2>2. \A c \in issued : c.exp \in Int
    BY <1>0 DEF IssuedOK
  <2>3. SpentOK'
    BY <1>0, <2>1, <2>2 DEF SpentOK
  <2>4. SCallsOK'
    BY <1>0, <2>1 DEF SCallsOK
  <2> QED BY <1>0, <1>i, <1>l, <1>p, <2>1, <2>3, <2>4 DEF SignInv
<1>15. CASE UNCHANGED signVars
  <2>1. SCallsOK'
    BY <1>0, <1>15 DEF SCallsOK, signVars
  <2> QED BY <1>0, <1>15, <1>i, <1>s, <1>l, <1>p, <2>1 DEF SignInv, signVars
<1> QED
  BY <1>1, <1>2, <1>3, <1>4, <1>5, <1>6, <1>7, <1>8, <1>9, <1>10, <1>11, <1>12, <1>13, <1>14, <1>15
     DEF SNext

\* The invariant holds of every reachable state of signing in.
LEMMA SignInvariant == SSpec => []SignInv
BY SignInitially, SignStep, PTL DEF SSpec

\* Up to its expiry a sign-in challenge acts at most once, whatever requests
\* present it and whenever the pruning runs (consume, pruneOldQuotes), and a
\* link challenge links one wallet at most (linkWallet).
THEOREM ChallengeSpentOnceHolds == SSpec => []ChallengeSpentOnce
<1>1. SignInv => ChallengeSpentOnce
  <2> SUFFICES ASSUME SignInv PROVE ChallengeSpentOnce
    OBVIOUS
  <2>1. \A c \in issued : c.nonce \in 1 .. MaxChallenges /\ c.exp \in Int /\ clock \in Nat
    <3>1. Cardinality(issued) \in Nat /\ Cardinality(issued) <= MaxChallenges
      BY FS_CardinalityType DEF SignInv, IssuedOK
    <3> QED BY <3>1, SignInAssumption DEF SignInv, IssuedOK, SpentOK
  <2>2. \A c \in issued : clock <= c.exp => spent[c.nonce] <= 1
    BY <2>1 DEF SignInv, SpentOK
  <2> QED BY <2>2 DEF SignInv, LinksOK, ChallengeSpentOnce
<1> QED BY <1>1, SignInvariant, PTL

\* A person with a wallet keeps at least one and never more than the cap,
\* whatever links and revocations race (linkWallet, revokeWallet, proveWallet).
THEOREM PersonKeepsAWalletHolds == SSpec => []PersonKeepsAWallet
<1>1. SignInv => PersonKeepsAWallet
  BY DEF SignInv
<1> QED BY <1>1, SignInvariant, PTL

\* A wallet never passes from one person to another (proveWallet, linkWallet).
THEOREM WalletKeepsItsPersonHolds == SSpec => WalletKeepsItsPerson
<1>1. ASSUME SignInv, [SNext]_signVars, NEW w \in Wallets, Linked(w)
      PROVE  links'[w] # <<>> /\ links'[w][1].person = Link(w).person
  <2>0. DOMAIN links = Wallets /\ Link(w) \in SLink(persons) /\ SCallsOK /\ IssuedOK
    BY <1>1 DEF SignInv, PersonsOK
  <2>1. ASSUME NEW v \in Wallets, NEW k, links' = [links EXCEPT ![v] = <<k>>], v = w => k.person = Link(w).person
        PROVE  links'[w] # <<>> /\ links'[w][1].person = Link(w).person
    <3>1. CASE v = w
      <4>1. links'[w] = <<k>>
        BY <2>0, <2>1, <3>1
      <4> QED BY <2>1, <3>1, <4>1
    <3>2. CASE v # w
      BY <1>1, <2>0, <2>1, <3>2 DEF Linked, Link
    <3> QED BY <3>1, <3>2
  <2>2. ASSUME NEW s \in SignCalls, CreatePerson(s)
        PROVE  links'[w] # <<>> /\ links'[w][1].person = Link(w).person
    <3>1. scalls[s].challenge.wallet \in Wallets
      BY <2>0, <2>2 DEF CreatePerson, SCallsOK, SCallOK, IssuedOK
    <3>2. CASE UNCHANGED links
      BY Zenon, <1>1, <3>2 DEF Linked, Link
    <3>3. CASE ~Linked(scalls[s].challenge.wallet) /\ SetLink(scalls[s].challenge.wallet, persons + 1)
      BY Zenon, <1>1, <2>1, <3>1, <3>3 DEF SetLink
    <3> QED BY <2>2, <3>2, <3>3 DEF CreatePerson
  <2>3. ASSUME NEW s \in SignCalls, LinkWallet(s)
        PROVE  links'[w] # <<>> /\ links'[w][1].person = Link(w).person
    <3>1. scalls[s].wallet \in Wallets
      BY <2>0, <2>3 DEF LinkWallet, SCallsOK, SCallOK
    <3>2. CASE UNCHANGED links
      BY <1>1, <3>2 DEF Linked, Link
    <3>3. CASE MayLink(scalls[s]) /\ SetLink(scalls[s].wallet, scalls[s].person)
      BY ZenonT(60), <1>1, <2>1, <3>1, <3>3 DEF SetLink, MayLink
    <3> QED BY <2>3, <3>2, <3>3 DEF LinkWallet
  <2>4. ASSUME NEW s \in SignCalls, RevokeWallet(s)
        PROVE  links'[w] # <<>> /\ links'[w][1].person = Link(w).person
    <3>1. scalls[s].wallet \in Wallets
      BY <2>0, <2>4 DEF RevokeWallet, SCallsOK, SCallOK
    <3>2. CASE UNCHANGED links
      BY <1>1, <3>2 DEF Linked, Link
    <3>3. CASE links' = [links EXCEPT ![scalls[s].wallet] = <<[@[1] EXCEPT !.status = "REVOKED"]>>]
      <4> DEFINE k == [links[scalls[s].wallet][1] EXCEPT !.status = "REVOKED"]
      <4>1. links' = [links EXCEPT ![scalls[s].wallet] = <<k>>]
        BY <2>0, <3>1, <3>3
      <4>2. scalls[s].wallet = w => k.person = Link(w).person
        BY <2>0 DEF SLink, Link
      <4> HIDE DEF k
      <4> QED BY Zenon, <2>1, <3>1, <4>1, <4>2
    <3> QED BY <2>4, <3>2, <3>3 DEF RevokeWallet
  <2>5. CASE UNCHANGED links
    BY <1>1, <2>5 DEF Linked, Link
  <2> QED
    BY Zenon, <1>1, <2>2, <2>3, <2>4, <2>5
       DEF SNext, signVars, IssueChallenge, Present, Consume, ProveWallet, ResolveRole, Leave,
           IssueLinkChallenge, StartRevoke, StartLink, PruneExpired, SignTick
<1>2. SignInv /\ [SNext]_signVars =>
        [\A w \in Wallets : Linked(w) => links'[w] # <<>> /\ links'[w][1].person = Link(w).person]_signVars
  BY <1>1
<1> QED BY <1>2, SignInvariant, PTL DEF SSpec, WalletKeepsItsPerson

-----------------------------------------------------------------------------
(* What a page says of a transaction. *)

Fates == Final \cup {"pending", "applied"}
Words == {"nothing", "sent", "unknown", "failed", "success"}

\* What may be said of a transaction in its present state.
TrueOf(word, fate) ==
    /\ word = "success" => fate = "applied"
    /\ word = "failed" /\ sender \in Careful => fate \in Final

SubmitInd ==
    /\ sender \in Pages
    /\ press \in {"idle", "sending", "polling"}
    /\ wire \in Seq(Fates) /\ told \in Seq(Words) /\ Len(told) = Len(wire)
    /\ \A t \in DOMAIN wire : TrueOf(told[t], wire[t])
    /\ press # "idle" => Len(wire) > 0 /\ told[Len(wire)] = "nothing"
    /\ press = "polling" => wire[Len(wire)] # "out"
    /\ press = "sending" => wire[Len(wire)] = "out"
    /\ stepDone \in BOOLEAN

\* Replacing one element of a sequence.
LEMMA ReplacesOne ==
    ASSUME NEW S, NEW s \in Seq(S), NEW i \in DOMAIN s, NEW e \in S
    PROVE  LET r == [s EXCEPT ![i] = e] IN
           /\ r \in Seq(S) /\ Len(r) = Len(s) /\ DOMAIN r = DOMAIN s
           /\ \A j \in DOMAIN s : r[j] = IF j = i THEN e ELSE s[j]
  OBVIOUS

\* Before the first press nothing is out.
LEMMA SubmitStart == SubmitInit => SubmitInd
<1>1. << >> \in Seq(Fates) /\ << >> \in Seq(Words) /\ Len(<< >>) = 0 /\ DOMAIN << >> = {}
  OBVIOUS
<1> QED BY Zenon, <1>1 DEF SubmitInit, SubmitInd

\* The network's first answer, or none, about the transaction being sent.
LEMMA SendingEnds ==
    ASSUME SubmitInd, press = "sending", NEW fate \in {"out", "pending", "dropped"}, NEW word \in Words,
           wire' = [wire EXCEPT ![This] = fate], told' = [told EXCEPT ![This] = word],
           TrueOf(word, fate), UNCHANGED <<sender, stepDone>>,
           press' = "idle" \/ (press' = "polling" /\ word = "nothing" /\ fate # "out")
    PROVE  SubmitInd'
<1> DEFINE n == Len(wire)
<1>1. /\ n \in DOMAIN wire /\ DOMAIN told = DOMAIN wire /\ wire[n] = "out" /\ DOMAIN wire = 1 .. n
  BY DEF SubmitInd
<1>2. /\ wire' \in Seq(Fates) /\ told' \in Seq(Words) /\ Len(wire') = n /\ Len(told') = n /\ DOMAIN wire' = DOMAIN wire
      /\ \A t \in DOMAIN wire : wire'[t] = IF t = n THEN fate ELSE wire[t]
      /\ \A t \in DOMAIN wire : told'[t] = IF t = n THEN word ELSE told[t]
  <2>1. fate \in Fates /\ wire' = [wire EXCEPT ![n] = fate] /\ told' = [told EXCEPT ![n] = word]
    BY DEF This, Fates, Final
  <2>2. wire \in Seq(Fates) /\ told \in Seq(Words) /\ Len(told) = n /\ Len(wire) = n
    BY DEF SubmitInd
  <2> HIDE DEF n
  <2>3. /\ wire' \in Seq(Fates) /\ Len(wire') = n /\ DOMAIN wire' = DOMAIN wire
        /\ \A t \in DOMAIN wire : wire'[t] = IF t = n THEN fate ELSE wire[t]
    BY ONLY Zenon, <1>1, <2>1, <2>2, ReplacesOne
  <2>4. word \in Words
    OBVIOUS
  <2>5. n \in DOMAIN told
    BY Zenon, <1>1
  <2>6. /\ told' \in Seq(Words) /\ Len(told') = Len(told)
        /\ \A t \in DOMAIN told : told'[t] = IF t = n THEN word ELSE told[t]
    BY ONLY ZenonT(60), <2>1, <2>2, <2>4, <2>5, ReplacesOne
  <2> QED BY ONLY Zenon, <1>1, <2>2, <2>3, <2>6
<1>3. \A t \in DOMAIN wire' : TrueOf(told'[t], wire'[t])
  <2> SUFFICES ASSUME NEW t \in DOMAIN wire PROVE TrueOf(told'[t], wire'[t])
    BY Zenon, <1>2
  <2>1. CASE t = n
    BY Zenon, <1>2, <2>1
  <2>2. CASE t # n
    BY ZenonT(60), <1>2, <2>2 DEF SubmitInd
  <2> QED BY <2>1, <2>2
<1>5. press' # "idle" => Len(wire') > 0 /\ told'[Len(wire')] = "nothing"
  BY <1>1, <1>2 DEF SubmitInd
<1>6. (press' = "polling" => wire'[Len(wire')] # "out") /\ press' # "sending"
  BY <1>1, <1>2
<1> QED
  BY SMTT(30), <1>2, <1>3, <1>5, <1>6 DEF SubmitInd, TrueOf

\* Every press, answer, poll and effect keeps what was said true.
LEMMA SubmitStep == SubmitInd /\ [SubmitNext]_submitVars => SubmitInd'
<1> SUFFICES ASSUME SubmitInd, [SubmitNext]_submitVars PROVE SubmitInd'
  OBVIOUS
<1> DEFINE n == Len(wire)
<1>0. n \in Nat /\ DOMAIN wire = 1 .. n /\ DOMAIN told = 1 .. n
  BY DEF SubmitInd
<1>1. CASE Press
  <2>1. wire' = Append(wire, "out") /\ told' = Append(told, "nothing") /\ press' = "sending" /\ UNCHANGED <<sender, stepDone>>
    BY <1>1 DEF Press
  <2>2. /\ wire' \in Seq(Fates) /\ told' \in Seq(Words) /\ Len(wire') = n + 1 /\ Len(told') = n + 1
        /\ DOMAIN wire' = 1 .. n + 1
        /\ wire'[n + 1] = "out" /\ told'[n + 1] = "nothing"
        /\ \A t \in 1 .. n : wire'[t] = wire[t] /\ told'[t] = told[t]
    BY <1>0, <2>1 DEF SubmitInd, Fates, Final, Words
  <2>3. \A t \in DOMAIN wire' : t = n + 1 \/ t \in DOMAIN wire
    BY <1>0, <2>2
  <2>4. \A t \in DOMAIN wire' : TrueOf(told'[t], wire'[t])
    BY <1>0, <2>2, <2>3 DEF SubmitInd, TrueOf
  <2> QED
    BY <1>0, <2>1, <2>2, <2>4 DEF SubmitInd, TrueOf
<1>2. CASE Sent
  <2>1. told = [told EXCEPT ![This] = "nothing"] /\ press = "sending"
    BY <1>0, <1>2 DEF Sent, SubmitInd, This
  <2>2. CASE sender \in Polling
    <3>1. press' = "polling" /\ told' = [told EXCEPT ![This] = "nothing"] /\ wire' = [wire EXCEPT ![This] = "pending"]
      BY <1>2, <2>1, <2>2 DEF Sent
    <3>2. TrueOf("nothing", "pending") /\ "nothing" \in Words /\ UNCHANGED <<sender, stepDone>>
      BY <1>2 DEF TrueOf, Words, Sent
    <3> QED BY Zenon, <2>1, <3>1, <3>2, SendingEnds
  <2>3. CASE sender \notin Polling
    <3>1. press' = "idle" /\ told' = [told EXCEPT ![This] = "sent"] /\ wire' = [wire EXCEPT ![This] = "pending"]
      BY <1>2, <2>3 DEF Sent, Says
    <3>2. TrueOf("sent", "pending") /\ "sent" \in Words /\ UNCHANGED <<sender, stepDone>>
      BY <1>2 DEF TrueOf, Words, Sent
    <3> QED BY Zenon, <2>1, <3>1, <3>2, SendingEnds
  <2> QED BY <2>2, <2>3
<1>3. CASE Duplicate \/ NoAnswer
  <2>1. PICK fate \in {"out", "pending"} : wire' = [wire EXCEPT ![This] = fate]
    BY <1>3 DEF Duplicate, NoAnswer
  <2>2. /\ press = "sending" /\ press' = "idle" /\ told' = [told EXCEPT ![This] = Unanswered(sender)]
        /\ UNCHANGED <<sender, stepDone>>
    BY <1>3 DEF Duplicate, NoAnswer, Says
  <2>3. TrueOf(Unanswered(sender), fate) /\ Unanswered(sender) \in Words
    BY DEF TrueOf, Unanswered, Words
  <2> QED BY Zenon, <2>1, <2>2, <2>3, SendingEnds
<1>4. CASE RefusedAtOnce
  <2>1. /\ press = "sending" /\ press' = "idle" /\ told' = [told EXCEPT ![This] = "failed"]
        /\ wire' = [wire EXCEPT ![This] = "dropped"] /\ UNCHANGED <<sender, stepDone>>
    BY <1>4 DEF RefusedAtOnce, Says
  <2>2. TrueOf("failed", "dropped") /\ "failed" \in Words
    BY DEF TrueOf, Words, Final
  <2> QED BY Zenon, <2>1, <2>2, SendingEnds
<1>5. CASE PollTx
  <2>1. PICK word \in {"success", "failed", "unknown"} :
          /\ told' = [told EXCEPT ![n] = word]
          /\ word = "success" => wire[n] = "applied"
          /\ word = "failed" => wire[n] = "failed"
    BY <1>5 DEF PollTx, Says, NotFound, This
  <2>2. press' = "idle" /\ UNCHANGED <<sender, wire, stepDone>>
    BY <1>5 DEF PollTx, Says
  <2>3. /\ told' \in Seq(Words) /\ Len(told') = n
        /\ \A t \in DOMAIN wire : told'[t] = IF t = n THEN word ELSE told[t]
    <3>1. told \in Seq(Words) /\ Len(told) = n /\ word \in Words
      BY DEF SubmitInd, Words
    <3>2. n \in DOMAIN told /\ DOMAIN told = DOMAIN wire
      BY <1>0, <1>5 DEF PollTx, SubmitInd
    <3> HIDE DEF n
    <3> QED BY ZenonT(60), <2>1, <3>1, <3>2, ReplacesOne
  <2>4. \A t \in DOMAIN wire : TrueOf(told'[t], wire[t])
    BY SMTT(30), <2>1, <2>3 DEF SubmitInd, TrueOf, Final
  <2> QED
    BY <2>2, <2>3, <2>4 DEF SubmitInd, TrueOf
<1>6. ASSUME NEW t \in DOMAIN wire, Lands(t) PROVE SubmitInd'
  <2>1. PICK fate \in {"applied", "dropped", "failed"} :
          /\ wire' = [wire EXCEPT ![t] = fate]
          /\ stepDone' \in {TRUE, stepDone}
    BY <1>6 DEF Lands
  <2>2. wire[t] = "pending" /\ UNCHANGED <<sender, press, told>>
    BY <1>6 DEF Lands
  <2>3. /\ wire' \in Seq(Fates) /\ Len(wire') = n /\ DOMAIN wire' = DOMAIN wire
        /\ \A u \in DOMAIN wire : wire'[u] = IF u = t THEN fate ELSE wire[u]
    BY <1>0, <2>1 DEF SubmitInd, Fates, Final
  <2>4. \A u \in DOMAIN wire : TrueOf(told[u], wire'[u])
    <3>1. TrueOf(told[t], wire[t])
      BY DEF SubmitInd
    <3>2. TrueOf(told[t], fate)
      BY <2>1, <2>2, <3>1 DEF TrueOf, Final
    <3> QED BY Zenon, <2>3, <3>2 DEF SubmitInd
  <2>6. /\ press = "polling" => wire'[n] # "out"
        /\ press = "sending" => wire'[n] = "out"
    BY <1>0, <2>1, <2>2, <2>3 DEF SubmitInd
  <2>7. stepDone' \in BOOLEAN
    BY Zenon, <2>1 DEF SubmitInd
  <2> QED
    BY <2>2, <2>3, <2>4, <2>6, <2>7 DEF SubmitInd, TrueOf
<1>7. CASE Reopened
  BY <1>7 DEF Reopened, SubmitInd, TrueOf
<1>8. CASE UNCHANGED submitVars
  BY <1>8 DEF submitVars, SubmitInd, TrueOf
<1> QED
  BY <1>1, <1>2, <1>3, <1>4, <1>5, <1>6, <1>7, <1>8 DEF SubmitNext

\* However often the button is pressed and however answers are lost, a success a
\* page claims is one, and what a provider's page calls failed has no effect.
THEOREM PagesAreHonest == SubmitSpec => []PageIsHonest
<1>1. ASSUME SubmitInd PROVE PageIsHonest
  BY <1>1 DEF SubmitInd, TrueOf, PageIsHonest
<1> QED BY <1>1, SubmitStart, SubmitStep, PTL DEF SubmitSpec

=============================================================================
