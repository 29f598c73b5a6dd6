---------------------------- MODULE MarketProofs ----------------------------
(***************************************************************************)
(* Proofs about the market of an order: the accounts of liquidity          *)
(* providers (what a decision takes away, what its audit entry says, whom  *)
(* the sweep takes offline), the settings a quote is made with, and the    *)
(* order a customer confirms, for any providers, orders, requests, prices, *)
(* lifetimes of a cache and amounts typed.                                 *)
(***************************************************************************)
EXTENDS Providers, Prices, QuoteForm, TLAPS

LpFields == {"status", "form", "note", "dated", "online", "reachable", "methods"}
OrderFields == {"status", "lp", "flow", "silent"}

\* What a request in flight relies on: a provider that was there stays there, a
\* matched order is not there yet, a provider stood down meanwhile has its match
\* noted, and only an expired order is penalised.
CallOK(q, rows, orders, noted) ==
    /\ q.at \in {"idle", "apply", "register", "decide", "match", "expire", "penalise"}
    /\ q.at \in {"apply", "register", "decide", "match"} => q.lp \in Applicants
    /\ q.at = "apply" /\ q.existed => rows[q.lp] # NoLp
    /\ q.at = "register" => q.status \notin StoodDown
    /\ q.at \in {"decide", "match"} => rows[q.lp] # NoLp
    /\ q.at \in {"match", "expire", "penalise"} => q.order \in LpOrders
    /\ q.at = "match" => /\ orders[q.order] = NoOrder
                         /\ rows[q.lp].status \in StoodDown => q.order \in noted
    /\ q.at = "penalise" => orders[q.order].status = "EXPIRED"

LpRowsOK ==
    /\ DOMAIN lp = Applicants
    /\ \A p \in Applicants : lp[p] = NoLp \/ DOMAIN lp[p] = LpFields

LpOrdersOK ==
    /\ DOMAIN lpOrders = LpOrders
    /\ \A o \in LpOrders : \/ lpOrders[o] = NoOrder
                           \/ /\ DOMAIN lpOrders[o] = OrderFields
                              /\ lpOrders[o].lp \in Applicants
                              /\ lp[lpOrders[o].lp] # NoLp

LpCallsOK ==
    /\ DOMAIN lpCalls = LpCalls
    /\ \A c \in LpCalls : CallOK(lpCalls[c], lp, lpOrders, overtaken)
    /\ \A c, d \in LpCalls :
         (lpCalls[c].at = "match" /\ lpCalls[d].at = "match" /\ c # d) => lpCalls[c].order # lpCalls[d].order

LpInv ==
    /\ LpRowsOK /\ LpOrdersOK /\ LpCallsOK
    /\ DOMAIN audit = Applicants
    /\ lpMoves \in Nat
    /\ StoodDownHoldsNothingNew

\* What is absent has no status the code looks for.
LEMMA AbsentStatus == NoLp.status = "NONE" /\ NoOrder.status = "NONE"
BY DEF NoLp, NoOrder

\* A registered provider is not an absent one.
LEMMA LpPresent == \A x : DOMAIN x = LpFields => x # NoLp
<1>1. DOMAIN NoLp = {"status"}
  BY DEF NoLp
<1> QED BY <1>1 DEF LpFields

\* An order on record is not an absent one.
LEMMA OrderPresent == \A x : DOMAIN x = OrderFields => x # NoOrder
<1>1. DOMAIN NoOrder = {"status"}
  BY DEF NoOrder
<1> QED BY <1>1 DEF OrderFields

\* At the start no request is in flight and no provider is stood down (LpInit).
LEMMA LpInitially == LpInit => LpInv
<1> SUFFICES ASSUME LpInit PROVE LpInv
  OBVIOUS
<1> DEFINE first == [NewLp("APPROVED", CHOOSE f \in Forms : TRUE, "none") EXCEPT !.online = TRUE,
                     !.reachable = TRUE, !.methods = 1]
<1>1. DOMAIN first = LpFields /\ first.status = "APPROVED"
  BY DEF NewLp, LpFields
<1>2. lp \in [Applicants -> {NoLp, first}]
  BY Zenon DEF LpInit
<1> HIDE DEF first
<1>3. LpRowsOK
  BY <1>1, <1>2 DEF LpRowsOK
<1>4. LpOrdersOK
  BY Zenon DEF LpInit, LpOrdersOK
<1>5. LpCallsOK
  BY Zenon DEF LpInit, LpCallsOK, CallOK, LpIdle
<1>6. StoodDownHoldsNothingNew
  BY Zenon DEF LpInit, StoodDownHoldsNothingNew, NoOrder, PRE_CHAIN
<1> QED BY Zenon, <1>3, <1>4, <1>5, <1>6 DEF LpInit, LpInv

\* A request in flight still stands after a step that removes no provider,
\* touches neither its order nor an expired one, and notes the matches of a
\* provider it stands down.
LEMMA CallKeeps ==
    ASSUME NEW q, CallOK(q, lp, lpOrders, overtaken),
           \A p \in Applicants : lp[p] # NoLp => lp'[p] # NoLp,
           \A p \in Applicants : (lp'[p].status \in StoodDown /\ q.at = "match" /\ q.lp = p) =>
                lp[p].status \in StoodDown \/ q.order \in overtaken',
           overtaken \subseteq overtaken',
           q.at = "match" => lpOrders'[q.order] = lpOrders[q.order],
           \A o \in LpOrders : lpOrders[o].status = "EXPIRED" => lpOrders'[o].status = "EXPIRED"
    PROVE  CallOK(q, lp', lpOrders', overtaken')
BY DEF CallOK

\* One request moves on or ends and the others still stand (StartCall, EndCall).
LEMMA CallsMove ==
    ASSUME LpCallsOK, NEW c \in LpCalls, NEW q, lpCalls' = [lpCalls EXCEPT ![c] = q],
           CallOK(q, lp', lpOrders', overtaken'),
           \A d \in LpCalls : (q.at = "match" /\ lpCalls[d].at = "match" /\ d # c) =>
                lpCalls[d].order # q.order,
           \A d \in LpCalls : d # c => CallOK(lpCalls[d], lp', lpOrders', overtaken')
    PROVE  LpCallsOK'
<1>1. /\ DOMAIN lpCalls' = LpCalls /\ lpCalls'[c] = q
      /\ \A d \in LpCalls : d # c => lpCalls'[d] = lpCalls[d]
  BY DEF LpCallsOK
<1>2. \A d \in LpCalls : CallOK(lpCalls'[d], lp', lpOrders', overtaken')
  BY <1>1
<1>3. \A d, e \in LpCalls :
        (lpCalls'[d].at = "match" /\ lpCalls'[e].at = "match" /\ d # e) => lpCalls'[d].order # lpCalls'[e].order
  BY <1>1 DEF LpCallsOK
<1> QED BY <1>1, <1>2, <1>3 DEF LpCallsOK

\* A request that ends asks for nothing.
LEMMA IdleIsOK == \A rows, orders, noted : CallOK(LpIdle, rows, orders, noted)
BY DEF CallOK, LpIdle

\* A request starts while everything else rests (StartCall).
LEMMA CallStarts ==
    ASSUME LpInv, NEW c \in LpCalls, NEW q, StartCall(c, q), UNCHANGED <<lp, lpOrders, audit, overtaken>>,
           CallOK(q, lp, lpOrders, overtaken),
           q.at = "match" => \A d \in LpCalls : lpCalls[d].at = "match" => lpCalls[d].order # q.order
    PROVE  LpInv'
<1>1. LpCallsOK'
  <2>1. lpCalls' = [lpCalls EXCEPT ![c] = q]
    BY DEF StartCall
  <2>2. \A d \in LpCalls : CallOK(lpCalls[d], lp', lpOrders', overtaken')
    BY DEF LpInv, LpCallsOK
  <2> QED BY Zenon, <2>1, <2>2, CallsMove DEF LpInv
<1>2. LpRowsOK' /\ LpOrdersOK' /\ StoodDownHoldsNothingNew'
  BY DEF LpInv, LpRowsOK, LpOrdersOK, StoodDownHoldsNothingNew
<1> QED BY <1>1, <1>2 DEF LpInv, StartCall, LpMoving

\* Every request, decision, match and sweep keeps what the requests in flight
\* rely on (LpService, AdminService.setStatus, the expiry sweep).
LEMMA LpStep == LpInv /\ [LpNext]_lpVars => LpInv'
<1> SUFFICES ASSUME LpInv, [LpNext]_lpVars
             PROVE  LpInv'
  OBVIOUS
<1>0. /\ LpRowsOK /\ LpOrdersOK /\ LpCallsOK /\ StoodDownHoldsNothingNew
      /\ DOMAIN lp = Applicants /\ DOMAIN lpOrders = LpOrders /\ DOMAIN lpCalls = LpCalls
      /\ DOMAIN audit = Applicants /\ lpMoves \in Nat
      /\ \A c \in LpCalls : CallOK(lpCalls[c], lp, lpOrders, overtaken)
  BY DEF LpInv, LpRowsOK, LpOrdersOK, LpCallsOK
<1>1. ASSUME NEW c \in LpCalls, NEW p \in Applicants, NEW f \in Forms, StartApply(c, p, f)
      PROVE  LpInv'
  BY Zenon, <1>0, <1>1, CallStarts DEF StartApply, CallOK
<1>2. ASSUME NEW c \in LpCalls, NEW p \in Applicants, NEW f \in Forms,
             NEW s \in {"APPROVED", "PENDING"}, StartRegister(c, p, f, s)
      PROVE  LpInv'
  BY <1>0, <1>2, CallStarts DEF StartRegister, CallOK, StoodDown
<1>3. ASSUME NEW c \in LpCalls, NEW p \in Applicants, NEW s \in Decisions, NEW n \in Notes,
             StartDecision(c, p, s, n)
      PROVE  LpInv'
  BY <1>0, <1>3, CallStarts DEF StartDecision, CallOK
<1>4. ASSUME NEW c \in LpCalls, NEW o \in LpOrders, NEW p \in Applicants, NEW w, StartMatch(c, p, o, w)
      PROVE  LpInv'
  BY <1>0, <1>4, CallStarts DEF StartMatch, Matchable, CallOK, StoodDown
<1>5. ASSUME NEW c \in LpCalls, NEW o \in LpOrders, NEW b \in BOOLEAN, StartExpiry(c, o, b)
      PROVE  LpInv'
  BY <1>0, <1>5, CallStarts DEF StartExpiry, CallOK
<1>r. ASSUME NEW p \in Applicants, NEW row, lp' = [lp EXCEPT ![p] = row], DOMAIN row = LpFields,
             row.status \in StoodDown => lp[p] # NoLp /\ lp[p].status = row.status,
             UNCHANGED <<lpOrders, overtaken>>
      PROVE  /\ LpRowsOK' /\ LpOrdersOK' /\ StoodDownHoldsNothingNew'
             /\ \A c \in LpCalls : CallOK(lpCalls[c], lp', lpOrders', overtaken')
  <2>1. lp'[p] = row /\ row # NoLp /\ \A s \in Applicants : s # p => lp'[s] = lp[s]
    BY <1>0, <1>r, LpPresent
  <2>2. LpRowsOK'
    BY <1>0, <1>r, <2>1 DEF LpRowsOK
  <2>3. LpOrdersOK'
    BY <1>0, <1>r, <2>1 DEF LpOrdersOK
  <2>4. \A s \in Applicants : lp'[s].status \in StoodDown => lp[s].status \in StoodDown
    BY <1>r, <2>1
  <2>5. ASSUME NEW o \in LpOrders, lpOrders[o].status \in PRE_CHAIN
        PROVE  lpOrders[o].lp \in Applicants
    BY <1>0, <2>5, AbsentStatus DEF LpOrdersOK, PRE_CHAIN
  <2>6. StoodDownHoldsNothingNew'
    BY <1>0, <1>r, <2>4, <2>5 DEF StoodDownHoldsNothingNew
  <2>7. ASSUME NEW c \in LpCalls
        PROVE  CallOK(lpCalls[c], lp', lpOrders', overtaken')
    BY Zenon, <1>0, <1>r, <2>1, <2>4, CallKeeps
  <2> QED BY <2>2, <2>3, <2>6, <2>7
<1>e. ASSUME NEW c \in LpCalls, EndCall(c),
             \A d \in LpCalls : CallOK(lpCalls[d], lp', lpOrders', overtaken')
      PROVE  LpCallsOK'
  <2>1. lpCalls' = [lpCalls EXCEPT ![c] = LpIdle]
    BY <1>e DEF EndCall
  <2>2. LpIdle.at # "match"
    BY DEF LpIdle
  <2> QED BY Zenon, <1>0, <1>e, <2>1, <2>2, CallsMove, IdleIsOK
<1>6. ASSUME NEW c \in LpCalls, FinishApply(c)
      PROVE  LpInv'
  <2> DEFINE q == lpCalls[c]
             row == IF q.existed
                    THEN [lp[q.lp] EXCEPT !.form = q.form, !.status = "PENDING", !.dated = FALSE]
                    ELSE NewLp("PENDING", q.form, "none")
  <2>1. q.lp \in Applicants /\ (q.existed => lp[q.lp] # NoLp)
    BY <1>0, <1>6 DEF FinishApply, CallOK
  <2>2. DOMAIN row = LpFields /\ row.status = "PENDING"
    <3>1. CASE q.existed
      BY <1>0, <2>1, <3>1 DEF LpRowsOK, LpFields
    <3>2. CASE ~q.existed
      BY <3>2 DEF NewLp, LpFields
    <3> QED BY <3>1, <3>2
  <2>3. lp' = [lp EXCEPT ![q.lp] = row] /\ EndCall(c) /\ UNCHANGED <<lpOrders, audit, overtaken, lpMoves>>
    BY <1>6 DEF FinishApply, SetLp
  <2> HIDE DEF q, row
  <2>4. /\ LpRowsOK' /\ LpOrdersOK' /\ StoodDownHoldsNothingNew'
        /\ \A d \in LpCalls : CallOK(lpCalls[d], lp', lpOrders', overtaken')
    BY Zenon, <1>r, <2>1, <2>2, <2>3 DEF StoodDown
  <2>5. LpCallsOK'
    BY Zenon, <1>e, <2>3, <2>4
  <2> QED BY <1>0, <2>3, <2>4, <2>5 DEF LpInv
<1>7. ASSUME NEW c \in LpCalls, FinishRegister(c)
      PROVE  LpInv'
  <2> DEFINE q == lpCalls[c]
             row == NewLp(q.status, q.form, "registered")
  <2>1. q.lp \in Applicants /\ q.status \notin StoodDown
    BY <1>0, <1>7 DEF FinishRegister, CallOK
  <2>2. DOMAIN row = LpFields /\ row.status = q.status
    BY DEF NewLp, LpFields
  <2>3. /\ lp' = [lp EXCEPT ![q.lp] = row] /\ EndCall(c) /\ UNCHANGED <<lpOrders, overtaken, lpMoves>>
        /\ DOMAIN audit' = Applicants
    BY <1>0, <1>7 DEF FinishRegister, SetLp
  <2> HIDE DEF q, row
  <2>4. /\ LpRowsOK' /\ LpOrdersOK' /\ StoodDownHoldsNothingNew'
        /\ \A d \in LpCalls : CallOK(lpCalls[d], lp', lpOrders', overtaken')
    BY Zenon, <1>r, <2>1, <2>2, <2>3
  <2>5. LpCallsOK'
    BY Zenon, <1>e, <2>3, <2>4
  <2> QED BY <1>0, <2>3, <2>4, <2>5 DEF LpInv
<1>8. ASSUME NEW c \in LpCalls, CommitDecision(c)
      PROVE  LpInv'
  <2> DEFINE q == lpCalls[c]
             row == [lp[q.lp] EXCEPT !.status = q.status,
                                     !.note = IF q.note = "none" THEN q.read.note ELSE q.note,
                                     !.dated = (q.status = "APPROVED" /\ q.read.status # "APPROVED") \/ q.read.dated]
             down == q.status \in StoodDown
  <2>1. q.at = "decide" /\ q.lp \in Applicants /\ lp[q.lp] # NoLp
    BY <1>0, <1>8 DEF CommitDecision, CallOK
  <2>2. DOMAIN row = LpFields /\ row.status = q.status
    BY <1>0, <2>1 DEF LpRowsOK, LpFields
  <2>3. /\ lp' = [lp EXCEPT ![q.lp] = row] /\ EndCall(c) /\ UNCHANGED lpMoves
        /\ DOMAIN audit' = Applicants
        /\ lpOrders' = [o \in LpOrders |->
              IF down /\ lpOrders[o].status \in PRE_CHAIN /\ lpOrders[o].lp = q.lp
              THEN [lpOrders[o] EXCEPT !.status = "CANCELLED"] ELSE lpOrders[o]]
        /\ overtaken' = IF down THEN overtaken \cup {lpCalls[d].order : d \in Matching(q.lp)} ELSE overtaken
    BY <1>0, <1>8 DEF CommitDecision, SetLp
  <2> HIDE DEF row
  <2>4. lp'[q.lp] = row /\ row # NoLp /\ \A s \in Applicants : s # q.lp => lp'[s] = lp[s]
    BY <1>0, <2>1, <2>2, <2>3, LpPresent
  <2>5. LpRowsOK'
    BY <1>0, <2>2, <2>3, <2>4 DEF LpRowsOK
  <2>6. ASSUME NEW o \in LpOrders
        PROVE  \/ lpOrders'[o] = lpOrders[o] /\ ~(down /\ lpOrders[o].status \in PRE_CHAIN /\ lpOrders[o].lp = q.lp)
               \/ /\ lpOrders[o].status \in PRE_CHAIN
                  /\ DOMAIN lpOrders'[o] = OrderFields /\ lpOrders'[o].lp = lpOrders[o].lp
                  /\ lpOrders'[o].status = "CANCELLED"
    <3>1. lpOrders[o].status \in PRE_CHAIN => DOMAIN lpOrders[o] = OrderFields
      BY <1>0, AbsentStatus DEF LpOrdersOK, PRE_CHAIN
    <3> QED BY <2>3, <3>1 DEF OrderFields
  <2>7. LpOrdersOK'
    <3>1. DOMAIN lpOrders' = LpOrders
      BY <2>3
    <3>2. ASSUME NEW o \in LpOrders
          PROVE  \/ lpOrders'[o] = NoOrder
                 \/ /\ DOMAIN lpOrders'[o] = OrderFields /\ lpOrders'[o].lp \in Applicants
                    /\ lp'[lpOrders'[o].lp] # NoLp
      BY <1>0, <2>4, <2>6, AbsentStatus DEF LpOrdersOK, PRE_CHAIN
    <3> QED BY <3>1, <3>2 DEF LpOrdersOK
  <2>8. StoodDownHoldsNothingNew'
    <3> SUFFICES ASSUME NEW o \in LpOrders, lpOrders'[o].status \in PRE_CHAIN,
                        lp'[lpOrders'[o].lp].status \in StoodDown
                 PROVE  o \in overtaken'
      BY DEF StoodDownHoldsNothingNew
    <3>1. /\ lpOrders'[o] = lpOrders[o]
          /\ ~(down /\ lpOrders[o].status \in PRE_CHAIN /\ lpOrders[o].lp = q.lp)
      BY <2>6 DEF PRE_CHAIN
    <3>2. lpOrders[o].lp \in Applicants
      BY <1>0, <3>1, AbsentStatus DEF LpOrdersOK, PRE_CHAIN
    <3>3. lpOrders[o].lp # q.lp
      BY <2>2, <2>4, <3>1
    <3>4. o \in overtaken
      BY SMTT(30), <1>0, <2>4, <3>1, <3>2, <3>3 DEF StoodDownHoldsNothingNew
    <3> QED BY <2>3, <3>4
  <2>9. ASSUME NEW d \in LpCalls
        PROVE  CallOK(lpCalls[d], lp', lpOrders', overtaken')
    <3>1. \A p \in Applicants : lp[p] # NoLp => lp'[p] # NoLp
      BY <2>4
    <3>2. overtaken \subseteq overtaken'
      BY <2>3
    <3>3. ASSUME NEW p \in Applicants, lp'[p].status \in StoodDown, lpCalls[d].at = "match", lpCalls[d].lp = p
          PROVE  lp[p].status \in StoodDown \/ lpCalls[d].order \in overtaken'
      BY <2>2, <2>3, <2>4, <3>3 DEF Matching
    <3>4. lpCalls[d].at = "match" => lpOrders'[lpCalls[d].order] = lpOrders[lpCalls[d].order]
      <4>1. lpCalls[d].at = "match" => lpCalls[d].order \in LpOrders /\ lpOrders[lpCalls[d].order] = NoOrder
        BY <1>0 DEF CallOK
      <4> QED BY <2>6, <4>1 DEF NoOrder, PRE_CHAIN
    <3>5. \A o \in LpOrders : lpOrders[o].status = "EXPIRED" => lpOrders'[o].status = "EXPIRED"
      BY <2>6 DEF PRE_CHAIN
    <3> QED BY <1>0, <3>1, <3>2, <3>3, <3>4, <3>5, CallKeeps
  <2>10. LpCallsOK'
    BY ZenonT(60), <1>e, <2>3, <2>9
  <2> QED BY <1>0, <2>3, <2>5, <2>7, <2>8, <2>10 DEF LpInv
<1>9. ASSUME NEW c \in LpCalls, RefuseLpCall(c)
      PROVE  LpInv'
  <2>1. EndCall(c) /\ UNCHANGED <<lp, lpOrders, audit, overtaken, lpMoves>>
    BY <1>9 DEF RefuseLpCall
  <2>2. \A d \in LpCalls : CallOK(lpCalls[d], lp', lpOrders', overtaken')
    BY <1>0, <2>1
  <2>3. LpCallsOK'
    BY <1>e, <2>1, <2>2
  <2>4. LpRowsOK' /\ LpOrdersOK' /\ StoodDownHoldsNothingNew'
    BY SMTT(30), <1>0, <2>1 DEF LpRowsOK, LpOrdersOK, StoodDownHoldsNothingNew
  <2> QED BY <1>0, <2>1, <2>3, <2>4 DEF LpInv
<1>o. ASSUME NEW o \in LpOrders, NEW ord, lpOrders' = [lpOrders EXCEPT ![o] = ord],
             DOMAIN ord = OrderFields, ord.lp \in Applicants, lp[ord.lp] # NoLp,
             ord.status \in PRE_CHAIN /\ lp[ord.lp].status \in StoodDown => o \in overtaken,
             lpOrders[o].status # "EXPIRED", UNCHANGED <<lp, overtaken>>
      PROVE  /\ LpRowsOK' /\ LpOrdersOK' /\ StoodDownHoldsNothingNew'
             /\ \A c \in LpCalls : (lpCalls[c].at = "match" => lpCalls[c].order # o) =>
                    CallOK(lpCalls[c], lp', lpOrders', overtaken')
  <2>1. lpOrders'[o] = ord /\ \A x \in LpOrders : x # o => lpOrders'[x] = lpOrders[x]
    BY <1>0, <1>o
  <2>2. LpRowsOK'
    BY <1>0, <1>o DEF LpRowsOK
  <2>3. LpOrdersOK'
    BY <1>0, <1>o, <2>1 DEF LpOrdersOK
  <2>4. StoodDownHoldsNothingNew'
    BY <1>0, <1>o, <2>1 DEF StoodDownHoldsNothingNew
  <2>5. ASSUME NEW c \in LpCalls, lpCalls[c].at = "match" => lpCalls[c].order # o
        PROVE  CallOK(lpCalls[c], lp', lpOrders', overtaken')
    <3>1. lpCalls[c].at = "match" => lpOrders'[lpCalls[c].order] = lpOrders[lpCalls[c].order]
      BY <1>0, <2>1, <2>5 DEF CallOK
    <3>2. \A x \in LpOrders : lpOrders[x].status = "EXPIRED" => lpOrders'[x].status = "EXPIRED"
      BY SMTT(30), <1>o, <2>1
    <3> QED BY ZenonT(60), <1>0, <1>o, <3>1, <3>2, CallKeeps
  <2> QED BY <2>2, <2>3, <2>4, <2>5
<1>10. ASSUME NEW c \in LpCalls, FinishMatch(c)
       PROVE  LpInv'
  <2> DEFINE q == lpCalls[c]
             ord == [status |-> "MATCHED", lp |-> q.lp, flow |-> q.flow, silent |-> TRUE]
  <2>1. /\ q.at = "match" /\ q.lp \in Applicants /\ q.order \in LpOrders /\ lp[q.lp] # NoLp
        /\ lpOrders[q.order] = NoOrder
        /\ lp[q.lp].status \in StoodDown => q.order \in overtaken
    BY Zenon, <1>0, <1>10 DEF FinishMatch, CallOK
  <2>2. DOMAIN ord = OrderFields /\ ord.lp = q.lp
    BY DEF OrderFields
  <2>3. lpOrders' = [lpOrders EXCEPT ![q.order] = ord] /\ EndCall(c) /\ UNCHANGED <<lp, audit, overtaken, lpMoves>>
    BY <1>10 DEF FinishMatch
  <2>4. lpOrders[q.order].status # "EXPIRED"
    BY <2>1 DEF NoOrder
  <2>5. \A d \in LpCalls : d # c => (lpCalls[d].at = "match" => lpCalls[d].order # q.order)
    BY <1>0, <2>1 DEF LpCallsOK
  <2> HIDE DEF q, ord
  <2>6. /\ LpRowsOK' /\ LpOrdersOK' /\ StoodDownHoldsNothingNew'
        /\ \A d \in LpCalls : d # c => CallOK(lpCalls[d], lp', lpOrders', overtaken')
    BY ZenonT(60), <1>o, <2>1, <2>2, <2>3, <2>4, <2>5
  <2>7. LpCallsOK'
    <3>1. lpCalls' = [lpCalls EXCEPT ![c] = LpIdle]
      BY <2>3 DEF EndCall
    <3>2. LpIdle.at # "match"
      BY DEF LpIdle
    <3> QED BY Zenon, <1>0, <2>6, <3>1, <3>2, CallsMove, IdleIsOK
  <2> QED BY SMTT(30), <1>0, <2>3, <2>6, <2>7 DEF LpInv
<1>p. ASSUME NEW o \in LpOrders, lpOrders[o].status \in PRE_CHAIN
      PROVE  /\ DOMAIN lpOrders[o] = OrderFields /\ lpOrders[o].lp \in Applicants /\ lp[lpOrders[o].lp] # NoLp
             /\ \A c \in LpCalls : lpCalls[c].at = "match" => lpCalls[c].order # o
  BY <1>0, <1>p, AbsentStatus DEF LpOrdersOK, PRE_CHAIN, CallOK
<1>11. ASSUME NEW c \in LpCalls, ExpireOrder(c)
       PROVE  LpInv'
  <2> DEFINE o == lpCalls[c].order
             ord == [lpOrders[o] EXCEPT !.status = "EXPIRED"]
             q == IF ~ lpCalls[c].foreign /\ lpOrders[o].flow = "TOP_UP"
                  THEN [at |-> "penalise", order |-> o] ELSE LpIdle
  <2>1. o \in LpOrders /\ lpOrders[o].status \in PRE_CHAIN
    BY <1>0, <1>11 DEF ExpireOrder, CallOK
  <2>2. DOMAIN ord = OrderFields /\ ord.lp = lpOrders[o].lp /\ ord.status = "EXPIRED"
    BY <2>1, <1>p DEF OrderFields
  <2>3. /\ lpOrders' = [lpOrders EXCEPT ![o] = ord] /\ UNCHANGED <<lp, audit, overtaken, lpMoves>>
        /\ lpCalls' = [lpCalls EXCEPT ![c] = q]
    BY <1>11 DEF ExpireOrder
  <2>4. q = LpIdle \/ q = [at |-> "penalise", order |-> o]
    OBVIOUS
  <2> HIDE DEF o, ord, q
  <2>5. /\ LpRowsOK' /\ LpOrdersOK' /\ StoodDownHoldsNothingNew'
        /\ \A d \in LpCalls : CallOK(lpCalls[d], lp', lpOrders', overtaken')
    BY Zenon, <1>o, <1>p, <2>1, <2>2, <2>3 DEF PRE_CHAIN
  <2>6. lpOrders'[o] = ord
    BY <1>0, <2>1, <2>3
  <2>7. CallOK(q, lp', lpOrders', overtaken') /\ q.at # "match"
    BY <2>1, <2>2, <2>4, <2>6, IdleIsOK DEF CallOK, LpIdle
  <2>8. LpCallsOK'
    BY Zenon, <1>0, <2>3, <2>5, <2>7, CallsMove
  <2> QED BY <1>0, <2>3, <2>5, <2>8 DEF LpInv
<1>12. ASSUME NEW c \in LpCalls, Penalise(c)
       PROVE  LpInv'
  <2> DEFINE o == lpOrders[lpCalls[c].order]
             p == o.lp
             row == IF lp[p].online /\ o.silent /\ lp[p].reachable
                    THEN [lp[p] EXCEPT !.online = FALSE] ELSE lp[p]
  <2>1. p \in Applicants /\ lp[p] # NoLp
    <3>1. lpCalls[c].order \in LpOrders /\ o.status = "EXPIRED"
      BY Zenon, <1>0, <1>12 DEF Penalise, CallOK
    <3> QED BY <1>0, <3>1, AbsentStatus DEF LpOrdersOK
  <2>2. DOMAIN row = LpFields /\ row.status = lp[p].status
    BY ZenonT(60), <1>0, <2>1 DEF LpRowsOK, LpFields
  <2>3. lp' = [lp EXCEPT ![p] = row] /\ EndCall(c) /\ UNCHANGED <<lpOrders, audit, overtaken, lpMoves>>
    BY <1>12 DEF Penalise, SetLp
  <2> HIDE DEF o, p, row
  <2>4. /\ LpRowsOK' /\ LpOrdersOK' /\ StoodDownHoldsNothingNew'
        /\ \A d \in LpCalls : CallOK(lpCalls[d], lp', lpOrders', overtaken')
    BY Zenon, <1>r, <2>1, <2>2, <2>3
  <2>5. LpCallsOK'
    BY Zenon, <1>e, <2>3, <2>4
  <2> QED BY SMTT(30), <1>0, <2>3, <2>4, <2>5 DEF LpInv
<1>13. ASSUME NEW p \in Applicants, Heartbeat(p)
       PROVE  LpInv'
  <2>1. /\ UNCHANGED <<lp, lpCalls, audit, overtaken, lpMoves>>
        /\ lpOrders' = [o \in LpOrders |-> IF lpOrders[o] # NoOrder /\ lpOrders[o].lp = p
                                           THEN [lpOrders[o] EXCEPT !.silent = FALSE] ELSE lpOrders[o]]
    BY <1>13 DEF Heartbeat, Beat
  <2>2. ASSUME NEW o \in LpOrders
        PROVE  \/ lpOrders'[o] = lpOrders[o]
               \/ /\ lpOrders[o] # NoOrder /\ DOMAIN lpOrders'[o] = OrderFields
                  /\ lpOrders'[o].lp = lpOrders[o].lp /\ lpOrders'[o].status = lpOrders[o].status
    BY <1>0, <2>1 DEF LpOrdersOK, OrderFields
  <2>3. LpRowsOK' /\ DOMAIN lpOrders' = LpOrders
    BY <1>0, <2>1 DEF LpRowsOK
  <2>4. LpOrdersOK'
    BY <1>0, <2>1, <2>2, <2>3 DEF LpOrdersOK
  <2>5. StoodDownHoldsNothingNew'
    BY <1>0, <2>1, <2>2 DEF StoodDownHoldsNothingNew
  <2>6. ASSUME NEW c \in LpCalls
        PROVE  CallOK(lpCalls[c], lp', lpOrders', overtaken')
    <3>1. lpCalls[c].at = "match" => lpOrders'[lpCalls[c].order] = lpOrders[lpCalls[c].order]
      BY <1>0, <2>2 DEF CallOK
    <3> QED BY <1>0, <2>1, <2>2, <3>1, CallKeeps
  <2>7. LpCallsOK'
    BY <1>0, <2>1, <2>6 DEF LpCallsOK
  <2> QED BY <1>0, <2>1, <2>3, <2>4, <2>5, <2>7 DEF LpInv
<1>14. ASSUME NEW p \in Applicants, SetAvailability(p) \/ SetAlertEmail(p) \/ SetPaymentMethods(p)
       PROVE  LpInv'
  <2>1. lp[p].status = "APPROVED" /\ UNCHANGED <<lpOrders, lpCalls, audit, overtaken>> /\ lpMoves' = lpMoves + 1
    BY <1>14 DEF SetAvailability, SetAlertEmail, SetPaymentMethods, LpMoving
  <2>2. DOMAIN lp[p] = LpFields
    BY <1>0, <2>1 DEF LpRowsOK, NoLp
  <2>3. PICK row : lp' = [lp EXCEPT ![p] = row] /\ DOMAIN row = LpFields /\ row.status = "APPROVED"
    <3>1. CASE SetAvailability(p)
      <4> DEFINE row == [lp[p] EXCEPT !.online = ~ @]
      <4>1. DOMAIN row = LpFields /\ row.status = "APPROVED"
        BY <2>1, <2>2 DEF LpFields
      <4>2. lp' = [lp EXCEPT ![p] = row]
        BY <3>1 DEF SetAvailability, SetLp
      <4> HIDE DEF row
      <4> QED BY Zenon, <4>1, <4>2
    <3>2. CASE SetAlertEmail(p)
      <4> DEFINE row == [lp[p] EXCEPT !.reachable = ~ @]
      <4>1. DOMAIN row = LpFields /\ row.status = "APPROVED"
        BY <2>1, <2>2 DEF LpFields
      <4>2. lp' = [lp EXCEPT ![p] = row]
        BY <3>2 DEF SetAlertEmail, SetLp
      <4> HIDE DEF row
      <4> QED BY Zenon, <4>1, <4>2
    <3>3. CASE SetPaymentMethods(p)
      <4> DEFINE row == [lp[p] EXCEPT !.methods = 1 - @]
      <4>1. DOMAIN row = LpFields /\ row.status = "APPROVED"
        BY <2>1, <2>2 DEF LpFields
      <4>2. lp' = [lp EXCEPT ![p] = row]
        BY <3>3 DEF SetPaymentMethods, SetLp
      <4> HIDE DEF row
      <4> QED BY Zenon, <4>1, <4>2
    <3> QED BY <1>14, <3>1, <3>2, <3>3
  <2>4. /\ LpRowsOK' /\ LpOrdersOK' /\ StoodDownHoldsNothingNew'
        /\ \A d \in LpCalls : CallOK(lpCalls[d], lp', lpOrders', overtaken')
    BY Zenon, <1>r, <2>1, <2>3 DEF StoodDown
  <2>5. LpCallsOK'
    BY <1>0, <2>1, <2>4 DEF LpCallsOK
  <2> QED BY <1>0, <2>1, <2>4, <2>5 DEF LpInv
<1>15. ASSUME NEW o \in LpOrders, NEW s \in {"AWAITING_ONCHAIN", "FUNDED", "CANCELLED"}, OrderMoves(o, s)
       PROVE  LpInv'
  <2> DEFINE ord == [lpOrders[o] EXCEPT !.status = s]
  <2>1. /\ lpOrders[o].status \in PRE_CHAIN /\ lpOrders' = [lpOrders EXCEPT ![o] = ord]
        /\ UNCHANGED <<lp, lpCalls, audit, overtaken>> /\ lpMoves' = lpMoves + 1
    BY <1>15 DEF OrderMoves, LpMoving
  <2>2. DOMAIN ord = OrderFields /\ ord.lp = lpOrders[o].lp
    BY <2>1, <1>p DEF OrderFields
  <2>3. lp[lpOrders[o].lp].status \in StoodDown => o \in overtaken
    BY <1>0, <2>1 DEF StoodDownHoldsNothingNew
  <2> HIDE DEF ord
  <2>4. /\ LpRowsOK' /\ LpOrdersOK' /\ StoodDownHoldsNothingNew'
        /\ \A d \in LpCalls : CallOK(lpCalls[d], lp', lpOrders', overtaken')
    BY Zenon, <1>o, <1>p, <2>1, <2>2, <2>3 DEF PRE_CHAIN
  <2>5. LpCallsOK'
    BY ZenonT(60), <1>0, <2>1, <2>4 DEF LpCallsOK
  <2> QED BY <1>0, <2>1, <2>4, <2>5 DEF LpInv
<1>16. CASE UNCHANGED lpVars
  BY <1>0, <1>16 DEF LpInv, lpVars, LpRowsOK, LpOrdersOK, LpCallsOK, StoodDownHoldsNothingNew
<1> QED
  BY <1>1, <1>2, <1>3, <1>4, <1>5, <1>6, <1>7, <1>8, <1>9, <1>10, <1>11, <1>12, <1>13, <1>14,
     <1>15, <1>16 DEF LpNext

\* The invariant holds of every reachable state of the providers' accounts.
LEMMA LpInvariant == LpSpec => []LpInv
BY LpInitially, LpStep, PTL DEF LpSpec

\* A provider that is stood down keeps no order that is not on chain yet, but
\* for a match in flight when the decision was written (setStatus, pickLp).
THEOREM StoodDownHolds == LpSpec => []StoodDownHoldsNothingNew
BY LpInvariant, PTL DEF LpInv

\* Every decision on record tells what the row was and what it became: it is
\* never written over a row that changed since it was read (setStatus, register).
THEOREM AuditHolds == LpSpec => AuditIsTrue
<1>1. ASSUME LpInv, [LpNext]_lpVars, NEW p \in Applicants, audit'[p] # audit[p]
      PROVE  audit'[p] = Entry(lp[p].status, lp'[p].status)
  <2>0. /\ LpRowsOK /\ DOMAIN lp = Applicants /\ DOMAIN audit = Applicants
        /\ \A c \in LpCalls : CallOK(lpCalls[c], lp, lpOrders, overtaken)
    BY <1>1 DEF LpInv, LpRowsOK, LpCallsOK
  <2>1. ASSUME NEW c \in LpCalls, FinishRegister(c)
        PROVE  audit'[p] = Entry(lp[p].status, lp'[p].status)
    <3>0. lpCalls[c].at = "register"
      BY Zenon, <2>1 DEF FinishRegister
    <3>1. lpCalls[c].lp \in Applicants
      BY Zenon, <2>0, <3>0 DEF CallOK
    <3>2. p = lpCalls[c].lp /\ audit'[p] = Entry("NONE", lpCalls[c].status)
      BY <1>1, <2>0, <2>1, <3>1 DEF FinishRegister
    <3>3. lp[p] = NoLp /\ lp'[p] = NewLp(lpCalls[c].status, lpCalls[c].form, "registered")
      BY <2>0, <2>1, <3>1, <3>2 DEF FinishRegister, SetLp
    <3> QED BY SMTT(30), <3>2, <3>3 DEF NoLp, NewLp
  <2>2. ASSUME NEW c \in LpCalls, CommitDecision(c)
        PROVE  audit'[p] = Entry(lp[p].status, lp'[p].status)
    <3> DEFINE q == lpCalls[c]
    <3>1. q.lp \in Applicants /\ lp[q.lp] # NoLp
      BY <2>0, <2>2 DEF CommitDecision, CallOK
    <3>2. p = q.lp /\ audit'[p] = Entry(q.read.status, q.status)
      BY <1>1, <2>0, <2>2, <3>1 DEF CommitDecision
    <3>3. lp[p].status = q.read.status
      BY <2>2, <3>2 DEF CommitDecision, StillAsRead
    <3>4. lp'[p].status = q.status
      BY <2>0, <2>2, <3>1, <3>2 DEF CommitDecision, SetLp, LpRowsOK, LpFields
    <3> QED BY <3>2, <3>3, <3>4
  <2>3. audit' # audit
    BY <1>1
  <2> QED
    BY ZenonT(60), <1>1, <2>1, <2>2, <2>3
       DEF LpNext, lpVars, StartApply, StartRegister, StartDecision, StartMatch, StartExpiry, FinishApply,
           FinishMatch, ExpireOrder, Penalise, RefuseLpCall, Heartbeat, SetAvailability, SetAlertEmail,
           SetPaymentMethods, OrderMoves
<1>2. LpInv /\ [LpNext]_lpVars =>
        [\A p \in Applicants : audit'[p] # audit[p] => audit'[p] = Entry(lp[p].status, lp'[p].status)]_lpVars
  BY Zenon, <1>1
<1> QED BY <1>2, LpInvariant, PTL DEF LpSpec, AuditIsTrue

\* The sweep takes a provider offline only for an order it let lapse in silence,
\* and only if it could be told (expireOrder, penaliseSilentLp).
THEOREM PenaltyHolds == LpSpec => PenaltyNeedsSilence
<1>1. ASSUME LpInv, [LpNext]_lpVars, NEW p \in Applicants,
             lp[p] # NoLp, lp[p].online, ~ lp'[p].online, lpMoves' = lpMoves
      PROVE  /\ lp[p].reachable
             /\ \E o \in LpOrders : /\ lpOrders[o].status = "EXPIRED"
                                    /\ lpOrders[o].lp = p
                                    /\ lpOrders[o].silent
  <2>0. /\ DOMAIN lp = Applicants /\ DOMAIN lp[p] = LpFields /\ LpOrdersOK
        /\ lpMoves' # lpMoves + 1
        /\ \A c \in LpCalls : CallOK(lpCalls[c], lp, lpOrders, overtaken)
    BY SMTT(30), <1>1 DEF LpInv, LpRowsOK, LpCallsOK
  <2>1. lp'[p] # lp[p]
    BY <1>1
  <2>2. ASSUME NEW c \in LpCalls, FinishApply(c)
        PROVE  FALSE
    <3>1. lpCalls[c].lp \in Applicants
      BY <2>0, <2>2 DEF FinishApply, CallOK
    <3>2. lpCalls[c].lp = p /\ lpCalls[c].existed
      BY <1>1, <2>0, <2>1, <2>2, <3>1 DEF FinishApply, SetLp
    <3>3. lp'[p] = [lp[p] EXCEPT !.form = lpCalls[c].form, !.status = "PENDING", !.dated = FALSE]
      BY SMTT(30), <2>0, <2>2, <3>2 DEF FinishApply, SetLp
    <3> QED BY <1>1, <2>0, <3>3 DEF LpFields
  <2>3. ASSUME NEW c \in LpCalls, FinishRegister(c)
        PROVE  FALSE
    <3>1. lpCalls[c].lp \in Applicants
      BY Zenon, <2>0, <2>3 DEF FinishRegister, CallOK
    <3> QED BY <1>1, <2>0, <2>1, <2>3, <3>1 DEF FinishRegister, SetLp
  <2>4. ASSUME NEW c \in LpCalls, CommitDecision(c)
        PROVE  FALSE
    <3>1. lpCalls[c].lp \in Applicants
      BY <2>0, <2>4 DEF CommitDecision, CallOK
    <3>2. lpCalls[c].lp = p
      BY <2>0, <2>1, <2>4, <3>1 DEF CommitDecision, SetLp
    <3>3. lp'[p].online = lp[p].online
      BY <2>0, <2>4, <3>2 DEF CommitDecision, SetLp, LpFields
    <3> QED BY <1>1, <3>3
  <2>5. ASSUME NEW c \in LpCalls, Penalise(c)
        PROVE  /\ lp[p].reachable
               /\ \E o \in LpOrders : /\ lpOrders[o].status = "EXPIRED"
                                      /\ lpOrders[o].lp = p
                                      /\ lpOrders[o].silent
    <3> DEFINE o == lpCalls[c].order
    <3>1. o \in LpOrders /\ lpOrders[o].status = "EXPIRED"
      BY ZenonT(60), <2>0, <2>5 DEF Penalise, CallOK
    <3>2. lpOrders[o].lp \in Applicants
      BY <2>0, <3>1, AbsentStatus DEF LpOrdersOK
    <3>3. lpOrders[o].lp = p /\ lpOrders[o].silent /\ lp[p].reachable
      BY Zenon, <2>0, <2>1, <2>5, <3>2 DEF Penalise, SetLp
    <3> QED BY <3>1, <3>3
  <2>6. lp' # lp
    BY <2>1
  <2> QED
    BY ZenonT(60), <1>1, <2>0, <2>2, <2>3, <2>4, <2>5, <2>6
       DEF LpNext, lpVars, StartApply, StartRegister, StartDecision, StartMatch, StartExpiry,
           FinishMatch, ExpireOrder, RefuseLpCall, Heartbeat, SetAvailability, SetAlertEmail,
           SetPaymentMethods, OrderMoves, LpMoving
<1>2. LpInv /\ [LpNext]_lpVars =>
        [\A p \in Applicants :
          lp[p] # NoLp /\ lp[p].online /\ ~ lp'[p].online /\ lpMoves' = lpMoves
          => /\ lp[p].reachable
             /\ \E o \in LpOrders : /\ lpOrders[o].status = "EXPIRED"
                                    /\ lpOrders[o].lp = p
                                    /\ lpOrders[o].silent]_lpVars
  BY SMTT(30), <1>1
<1> QED BY <1>2, LpInvariant, PTL DEF LpSpec, PenaltyNeedsSilence

-----------------------------------------------------------------------------
(* An edit is heeded within the life of a cache entry. *)

RequestFields == {"at", "reading", "since", "row", "version", "base", "price", "id"}

\* A row that was read at some moment: the edit that replaced it, if there was
\* one, came no earlier.
ReadBefore(when, version, made) ==
    /\ when \in Nat /\ version \in Nat
    /\ version \in DOMAIN made => made[version] >= when

\* A request in the middle of a read has read its row no later than now.
RequestIs(q, t, made) ==
    /\ DOMAIN q = RequestFields
    /\ q.reading \in BOOLEAN
    /\ q.reading => q.at \in Stages /\ q.since <= t /\ ReadBefore(q.since, q.version, made[CacheAt(q.at)])

PriceInd ==
    /\ tick \in Nat
    /\ DOMAIN edits = Caches
    /\ \A c \in Caches : edits[c] \in Seq(Nat)
    /\ DOMAIN entry = Caches
    /\ \A c \in Caches : ReadBefore(entry[c].at, entry[c].version, edits[c])
    /\ DOMAIN req = Requests
    /\ \A r \in Requests : RequestIs(req[r], tick, edits)
    /\ lag \in Int /\ EditHeededWithinTTL

\* A request that shares a fetch is waiting for it.
FetchWaits == \A r \in Requests : r \in fetch.for => req[r].at = "waiting"

\* While no row is edited and no time passes, only the requests, the caches and
\* what was answered need a look.
LEMMA PriceMoves ==
    ASSUME PriceInd, UNCHANGED <<edits, tick>>,
           DOMAIN req' = Requests, \A x \in Requests : RequestIs(req'[x], tick, edits),
           DOMAIN entry' = Caches, \A c \in Caches : ReadBefore(entry'[c].at, entry'[c].version, edits[c]),
           lag' \in Int, lag' < CACHE_TTL
    PROVE  PriceInd'
<1>1. EditHeededWithinTTL'
  BY Zenon DEF EditHeededWithinTTL
<1>2. edits' = edits /\ tick' = tick
  OBVIOUS
<1> QED BY Zenon, <1>1, <1>2 DEF PriceInd

\* Requests that stay as they were, or rely on nothing.
LEMMA RequestsSettle ==
    ASSUME PriceInd, UNCHANGED <<edits, entry, lag, tick>>, DOMAIN req' = Requests,
           \A x \in Requests : req'[x] = req[x] \/ (DOMAIN req'[x] = RequestFields /\ req'[x].reading = FALSE)
    PROVE  PriceInd'
<1>1. ASSUME NEW x \in Requests PROVE RequestIs(req'[x], tick, edits)
  BY Zenon DEF PriceInd, RequestIs
<1>2. edits' = edits /\ entry' = entry /\ lag' = lag /\ tick' = tick
  OBVIOUS
<1> QED BY Zenon, <1>1, <1>2, PriceMoves DEF PriceInd, EditHeededWithinTTL

\* A request that is not in the middle of a read relies on nothing.
LEMMA RequestSettles ==
    ASSUME PriceInd, NEW r \in Requests, NEW q, DOMAIN q = RequestFields, q.reading = FALSE,
           req' = [req EXCEPT ![r] = q],
           UNCHANGED <<edits, entry, lag, tick>>
    PROVE  PriceInd'
<1>1. DOMAIN req' = Requests /\ \A x \in Requests : req'[x] = IF x = r THEN q ELSE req[x]
  BY Zenon DEF PriceInd
<1> QED BY Zenon, <1>1, RequestsSettle

\* A request steps on to a record without a read under way.
LEMMA AdvanceSettles ==
    ASSUME NEW stage \in Stages, NEW row
    PROVE  DOMAIN Advance(stage, row) = RequestFields /\ Advance(stage, row).reading = FALSE
  BY DEF Advance, NewRequest, RequestFields, Stages

\* An edit made now leaves what was read before true: it is later than they are.
LEMMA EditIsLater ==
    ASSUME NEW made \in Seq(Nat), NEW t \in Nat
    PROVE  /\ Append(made, t) \in Seq(Nat)
           /\ \A when, v : when <= t /\ ReadBefore(when, v, made) => ReadBefore(when, v, Append(made, t))
<1>1. Append(made, t) \in Seq(Nat) /\ DOMAIN Append(made, t) = 1 .. Len(made) + 1 /\ DOMAIN made = 1 .. Len(made)
  OBVIOUS
<1>2. \A v \in DOMAIN Append(made, t) : Append(made, t)[v] = IF v \in DOMAIN made THEN made[v] ELSE t
  BY <1>1
<1>3. ASSUME NEW when, NEW v, when <= t, ReadBefore(when, v, made)
      PROVE  ReadBefore(when, v, Append(made, t))
  BY <1>2, <1>3 DEF ReadBefore
<1> QED BY <1>1, <1>3

\* Nothing is cached or asked at the start.
LEMMA PriceStart == PriceInit => PriceInd
<1> SUFFICES ASSUME PriceInit PROVE PriceInd
  OBVIOUS
<1>1. \A c \in Caches : edits[c] = << >> /\ entry[c] = NoEntry
  BY DEF PriceInit
<1>2. \A r \in Requests : req[r] = NewRequest
  BY DEF PriceInit
<1>3. DOMAIN NewRequest = RequestFields /\ NewRequest.reading = FALSE
  BY DEF NewRequest, RequestFields
<1>4. \A c \in Caches : edits[c] \in Seq(Nat) /\ ReadBefore(entry[c].at, entry[c].version, edits[c])
  <2>1. << >> \in Seq(Nat) /\ ReadBefore(NoEntry.at, NoEntry.version, << >>)
    BY DEF ReadBefore, NoEntry
  <2> QED BY Zenon, <1>1, <2>1
<1>5. tick \in Nat /\ lag \in Int /\ EditHeededWithinTTL
  BY CachesLive DEF PriceInit, EditHeededWithinTTL
<1>6. DOMAIN edits = Caches /\ DOMAIN entry = Caches /\ DOMAIN req = Requests
  BY DEF PriceInit
<1> QED
  BY Zenon, <1>2, <1>3, <1>4, <1>5, <1>6 DEF PriceInd, RequestIs

\* Every step keeps a row no younger than its stamp says (StartRead reads the
\* clock before the row), and what is answered within its time.
LEMMA PriceStep == PriceInd /\ FetchWaits /\ [PriceNext]_priceVars => PriceInd'
<1> SUFFICES ASSUME PriceInd, FetchWaits, [PriceNext]_priceVars PROVE PriceInd'
  OBVIOUS
<1>0. /\ tick \in Nat /\ DOMAIN edits = Caches /\ DOMAIN entry = Caches /\ DOMAIN req = Requests
      /\ \A c \in Caches : edits[c] \in Seq(Nat)
      /\ \A r \in Requests : DOMAIN req[r] = RequestFields
      /\ \A r \in Requests : CacheAt(req[r].at) \in Caches
  <2>1. \A r \in Requests : CacheAt(req[r].at) \in Caches
    BY DEF CacheAt, Caches
  <2> QED BY Zenon, <2>1 DEF PriceInd, RequestIs
<1>n. DOMAIN NewRequest = RequestFields /\ NewRequest.reading = FALSE
  BY SMTT(30) DEF NewRequest, RequestFields
<1>m. \A r \in Requests : req[r].at \notin Stages => req[r].reading = FALSE
  BY Zenon DEF PriceInd, RequestIs
<1>1. ASSUME NEW r \in Requests, Ask(r) PROVE PriceInd'
  <2>1. PICK stage \in {"enter", "config"} : req' = [req EXCEPT ![r] = [NewRequest EXCEPT !.at = stage]]
    BY Zenon, <1>1 DEF Ask
  <2>2. DOMAIN [NewRequest EXCEPT !.at = stage] = RequestFields /\ [NewRequest EXCEPT !.at = stage].reading = FALSE
    BY SMTT(30), <1>n DEF RequestFields
  <2> QED BY Zenon, <1>1, <2>1, <2>2, RequestSettles DEF Ask
<1>2. ASSUME NEW r \in Requests, ReadCached(r) PROVE PriceInd'
  <2> DEFINE c == CacheAt(req[r].at)
             q == Advance(req[r].at, entry[c].row)
  <2>1. DOMAIN q = RequestFields /\ q.reading = FALSE
    BY ZenonT(60), <1>2, AdvanceSettles DEF ReadCached
  <2>2. c \in Caches /\ ReadBefore(entry[c].at, entry[c].version, edits[c]) /\ tick - entry[c].at < CACHE_TTL
    BY <1>0, <1>2 DEF ReadCached, Fresh, PriceInd
  <2>3. lag' \in Int /\ lag' < CACHE_TTL
    <3>1. CASE entry[c].version \in DOMAIN edits[c]
      <4>1. lag' = tick - edits[c][entry[c].version]
        BY <1>2, <3>1 DEF ReadCached
      <4>2. edits[c][entry[c].version] \in Nat /\ edits[c][entry[c].version] >= entry[c].at /\ entry[c].at \in Nat
        <5> HIDE DEF c
        <5> QED BY ONLY SMTT(30), <1>0, <2>2, <3>1 DEF ReadBefore
      <4> HIDE DEF c
      <4>3. \A a, e, t \in Nat : e >= a /\ t - a < CACHE_TTL => t - e < CACHE_TTL /\ t - e \in Int
        BY SMTT(30), CachesLive
      <4> QED BY ONLY ZenonT(60), <1>0, <2>2, <4>1, <4>2, <4>3
    <3>2. CASE entry[c].version \notin DOMAIN edits[c]
      <4>1. lag' = 0
        BY Zenon, <1>2, <3>2 DEF ReadCached
      <4> QED BY ONLY <4>1, CachesLive
    <3> QED BY Zenon, <3>1, <3>2
  <2>4. DOMAIN req' = Requests /\ \A x \in Requests : req'[x] = IF x = r THEN q ELSE req[x]
    BY <1>0, <1>2 DEF ReadCached
  <2> HIDE DEF q
  <2>5. ASSUME NEW x \in Requests
        PROVE  RequestIs(req'[x], tick, edits)
    BY Zenon, <2>1, <2>4 DEF PriceInd, RequestIs
  <2>6. UNCHANGED <<edits, tick>> /\ entry' = entry
    BY Zenon, <1>2 DEF ReadCached
  <2> QED BY Zenon, <2>3, <2>4, <2>5, <2>6, PriceMoves DEF PriceInd
<1>3. ASSUME NEW r \in Requests, StartRead(r) PROVE PriceInd'
  <2> DEFINE c == CacheAt(req[r].at)
             q == [req[r] EXCEPT !.reading = TRUE, !.since = tick, !.row = rowOf[c], !.version = Len(edits[c]) + 1]
  <2>1. req' = [req EXCEPT ![r] = q] /\ req[r].at \in Stages /\ UNCHANGED <<edits, entry, lag, tick>>
    BY Zenon, <1>3 DEF StartRead
  <2>2. /\ DOMAIN q = RequestFields /\ q.reading = TRUE /\ q.at = req[r].at /\ q.since = tick
        /\ q.version = Len(edits[c]) + 1
    BY <1>0 DEF RequestFields
  <2>3. DOMAIN req' = Requests /\ \A x \in Requests : req'[x] = IF x = r THEN q ELSE req[x]
    BY <1>0, <2>1
  <2>4. ReadBefore(q.since, q.version, edits[CacheAt(q.at)])
    BY SMTT(30), <1>0, <2>2 DEF ReadBefore
  <2> HIDE DEF q
  <2>5. ASSUME NEW x \in Requests
        PROVE  RequestIs(req'[x], tick, edits)
    <3>1. CASE x = r
      <4>1. req'[x] = q
        BY Zenon, <2>3, <3>1
      <4>2. tick <= tick
        BY ONLY <1>0
      <4> QED BY Zenon, <2>1, <2>2, <2>4, <4>1, <4>2 DEF RequestIs
    <3>2. CASE x # r
      BY Zenon, <2>3, <3>2 DEF PriceInd
    <3> QED BY Zenon, <3>1, <3>2
  <2>6. UNCHANGED <<edits, tick>> /\ entry' = entry /\ lag' = lag
    BY <2>1
  <2> QED BY Zenon, <2>3, <2>5, <2>6, PriceMoves DEF PriceInd, EditHeededWithinTTL
<1>4. ASSUME NEW r \in Requests, FinishRead(r) PROVE PriceInd'
  <2> DEFINE c == CacheAt(req[r].at)
             q == Advance(req[r].at, req[r].row)
             n == [row |-> req[r].row, at |-> req[r].since, version |-> req[r].version]
  <2>1. DOMAIN q = RequestFields /\ q.reading = FALSE
    BY ZenonT(30), <1>4, AdvanceSettles DEF FinishRead, PriceInd, RequestIs
  <2>2. c \in Caches /\ ReadBefore(n.at, n.version, edits[c])
    <3>1. n.at = req[r].since /\ n.version = req[r].version
      OBVIOUS
    <3>2. ReadBefore(req[r].since, req[r].version, edits[c])
      BY Zenon, <1>4 DEF FinishRead, PriceInd, RequestIs
    <3> QED BY Zenon, <1>0, <3>1, <3>2
  <2>3. DOMAIN entry' = Caches /\ \A d \in Caches : entry'[d] = IF d = c THEN n ELSE entry[d]
    BY <1>0, <1>4 DEF FinishRead, StampOf
  <2>4. DOMAIN req' = Requests /\ \A x \in Requests : req'[x] = IF x = r THEN q ELSE req[x]
    BY <1>0, <1>4 DEF FinishRead
  <2> HIDE DEF q, n
  <2>5. ASSUME NEW x \in Requests
        PROVE  RequestIs(req'[x], tick, edits)
    BY Zenon, <2>1, <2>4 DEF PriceInd, RequestIs
  <2>6. \A d \in Caches : ReadBefore(entry'[d].at, entry'[d].version, edits[d])
    BY ZenonT(60), <2>2, <2>3 DEF PriceInd
  <2>7. UNCHANGED <<edits, tick>> /\ lag' = lag
    BY SMTT(30), <1>4 DEF FinishRead
  <2> QED BY Zenon, <2>3, <2>4, <2>5, <2>6, <2>7, PriceMoves DEF PriceInd, EditHeededWithinTTL
<1>5. ASSUME NEW c \in Caches, NEW row, Edit(c, row) PROVE PriceInd'
  <2>1. UNCHANGED <<req, lag, tick>>
    BY <1>5 DEF Edit
  <2>2. DOMAIN edits' = Caches /\ \A d \in Caches : edits'[d] = IF d = c THEN Append(edits[d], tick) ELSE edits[d]
    BY <1>0, <1>5 DEF Edit
  <2>3. DOMAIN entry' = Caches /\ \A d \in Caches : entry'[d] = IF d = c THEN NoEntry ELSE entry[d]
    BY <1>0, <1>5 DEF Edit
  <2>4. \A d \in Caches : edits'[d] \in Seq(Nat)
    BY Zenon, <1>0, <2>2, EditIsLater
  <2>5. ASSUME NEW d \in Caches, NEW when, NEW v, when <= tick, ReadBefore(when, v, edits[d])
        PROVE  ReadBefore(when, v, edits'[d])
    BY ZenonT(60), <1>0, <2>2, <2>5, EditIsLater
  <2>6. \A d \in Caches : ReadBefore(entry'[d].at, entry'[d].version, edits'[d])
    <3> SUFFICES ASSUME NEW d \in Caches PROVE ReadBefore(entry'[d].at, entry'[d].version, edits'[d])
      BY Zenon
    <3>1. CASE d = c
      <4>1. \A made \in Seq(Nat) : ReadBefore(NoEntry.at, NoEntry.version, made)
        BY SMTT(30) DEF ReadBefore, NoEntry
      <4> QED BY Zenon, <2>3, <2>4, <3>1, <4>1
    <3>2. CASE d # c
      BY Zenon, <2>2, <2>3, <3>2 DEF PriceInd
    <3> QED BY Zenon, <3>1, <3>2
  <2>7. ASSUME NEW x \in Requests PROVE RequestIs(req[x], tick, edits')
    BY Zenon, <1>0, <2>5 DEF PriceInd, RequestIs
  <2> QED BY Zenon, <1>0, <2>1, <2>2, <2>3, <2>4, <2>6, <2>7 DEF PriceInd, EditHeededWithinTTL
<1>6. ASSUME NEW r \in Requests, TakeOverride(r) \/ TakeRecent(r) PROVE PriceInd'
  <2>1. PICK price, row : Answer(r, price, row) /\ UNCHANGED <<edits, entry, lag, tick>>
    BY <1>6 DEF TakeOverride, TakeRecent
  <2> DEFINE q == IF assertPlausible(price, row) THEN [NewRequest EXCEPT !.at = "quoted", !.price = price] ELSE NewRequest
  <2>2. DOMAIN q = RequestFields /\ q.reading = FALSE
    BY <1>n DEF RequestFields
  <2>3. req' = [req EXCEPT ![r] = q]
    BY <2>1 DEF Answer
  <2> HIDE DEF q
  <2> QED BY ZenonT(60), <2>1, <2>2, <2>3, RequestSettles
<1>7. ASSUME NEW r \in Requests, JoinFetch(r) \/ Accept(r) PROVE PriceInd'
  <2>1. req[r].reading = FALSE
    BY <1>7, <1>m DEF JoinFetch, Accept, Stages
  <2>2. \E q : DOMAIN q = RequestFields /\ q.reading = FALSE /\ req' = [req EXCEPT ![r] = q]
    <3>1. CASE JoinFetch(r)
      <4> DEFINE q == [req[r] EXCEPT !.at = "waiting", !.base = priceCache.price]
      <4>1. DOMAIN q = RequestFields /\ q.reading = FALSE
        BY <1>0, <2>1 DEF RequestFields
      <4>2. req' = [req EXCEPT ![r] = q]
        BY Zenon, <3>1 DEF JoinFetch
      <4> QED BY Zenon, <4>1, <4>2
    <3>2. CASE Accept(r)
      <4> DEFINE q == [req[r] EXCEPT !.at = "store", !.since = tick]
      <4>1. DOMAIN q = RequestFields /\ q.reading = FALSE
        BY <1>0, <2>1 DEF RequestFields
      <4>2. req' = [req EXCEPT ![r] = q]
        BY Zenon, <3>2 DEF Accept
      <4> QED BY Zenon, <4>1, <4>2
    <3> QED BY Zenon, <1>7, <3>1, <3>2
  <2>3. UNCHANGED <<edits, entry, lag, tick>>
    BY <1>7 DEF JoinFetch, Accept
  <2> QED BY Zenon, <2>2, <2>3, RequestSettles
<1>8. ASSUME NEW r \in Requests, Implausible(r) \/ Hold(r) \/ Done(r) PROVE PriceInd'
  <2>1. req' = [req EXCEPT ![r] = NewRequest] /\ UNCHANGED <<edits, entry, lag, tick>>
    BY <1>8 DEF Implausible, Hold, Done
  <2> QED BY Zenon, <1>n, <2>1, RequestSettles
<1>9. ASSUME NEW r \in Requests, Store(r) PROVE PriceInd'
  <2> DEFINE q == [NewRequest EXCEPT !.at = "quoted", !.price = req[r].price]
  <2>1. DOMAIN q = RequestFields /\ q.reading = FALSE
    BY <1>n DEF RequestFields
  <2>2. req' = [req EXCEPT ![r] = q] /\ UNCHANGED <<edits, entry, lag, tick>>
    BY SMTT(30), <1>9 DEF Store
  <2> HIDE DEF q
  <2> QED BY Zenon, <2>1, <2>2, RequestSettles
<1>11. ASSUME (\E p \in SourcePrices : SourceAnswers(p)) \/ SourceFails PROVE PriceInd'
  <2>1. UNCHANGED <<edits, entry, lag, tick>> /\ DOMAIN req' = Requests
    BY Zenon, <1>11 DEF SourceAnswers, SourceFails
  <2>2. ASSUME NEW x \in Requests
        PROVE  req'[x] = req[x] \/ (DOMAIN req'[x] = RequestFields /\ req'[x].reading = FALSE)
    <3>1. CASE x \notin fetch.for
      BY Zenon, <1>11, <3>1 DEF SourceAnswers, SourceFails
    <3>2. CASE x \in fetch.for /\ SourceFails
      BY <1>n, <3>2 DEF SourceFails
    <3>3. ASSUME x \in fetch.for, NEW p \in SourcePrices, SourceAnswers(p)
          PROVE  DOMAIN req'[x] = RequestFields /\ req'[x].reading = FALSE
      <4>1. req'[x] = [req[x] EXCEPT !.at = "decide", !.price = p, !.id = fetch.id]
        BY ZenonT(60), <3>3 DEF SourceAnswers
      <4>2. req[x].reading = FALSE
        BY <1>m, <3>3 DEF FetchWaits, Stages
      <4> QED BY SMTT(30), <1>0, <4>1, <4>2 DEF RequestFields
    <3> QED BY ZenonT(60), <1>11, <3>1, <3>2, <3>3
  <2> QED BY Zenon, <2>1, <2>2, RequestsSettle
<1>12. ASSUME Tick PROVE PriceInd'
  <2>1. UNCHANGED <<edits, entry, req, lag>> /\ tick' = tick + 1
    BY <1>12 DEF Tick
  <2>2. ASSUME NEW x \in Requests, req[x].reading
        PROVE  req[x].since <= tick'
    <3>1. req[x].since <= tick /\ req[x].since \in Nat
      BY Zenon, <2>2 DEF PriceInd, RequestIs, ReadBefore
    <3> QED BY ONLY SMTT(30), <1>0, <2>1, <3>1
  <2>3. tick' \in Nat
    BY ONLY SMTT(30), <1>0, <2>1
  <2> QED
    BY Zenon, <1>0, <2>1, <2>2, <2>3 DEF PriceInd, RequestIs, EditHeededWithinTTL
<1>13. ASSUME UNCHANGED priceVars PROVE PriceInd'
  BY <1>13, RequestsSettle DEF priceVars, PriceInd
<1> QED
  BY Zenon, <1>1, <1>2, <1>3, <1>4, <1>5, <1>6, <1>7, <1>8, <1>9, <1>11, <1>12, <1>13 DEF PriceNext, Caches

\* Only a waiting request shares the fetch, and it waits until the fetch ends.
LEMMA FetchStep == PriceInd /\ FetchWaits /\ [PriceNext]_priceVars => FetchWaits'
<1> SUFFICES ASSUME PriceInd, FetchWaits, [PriceNext]_priceVars PROVE FetchWaits'
  OBVIOUS
<1>0. DOMAIN req = Requests /\ \A r \in Requests : DOMAIN req[r] = RequestFields
  BY Zenon DEF PriceInd, RequestIs
<1>1. ASSUME NEW r \in Requests, NEW q, req[r].at # "waiting", req' = [req EXCEPT ![r] = q], fetch' = fetch
      PROVE  FetchWaits'
  BY <1>0, <1>1 DEF FetchWaits
<1>2. ASSUME NEW r \in Requests,
             Ask(r) \/ ReadCached(r) \/ FinishRead(r) \/ TakeOverride(r) \/ TakeRecent(r)
      PROVE  FetchWaits'
  <2>1. fetch' = fetch /\ \E q : req' = [req EXCEPT ![r] = q]
    BY <1>2 DEF Ask, ReadCached, FinishRead, TakeOverride, TakeRecent, Answer
  <2>2. req[r].at # "waiting"
    BY <1>2 DEF Ask, ReadCached, FinishRead, TakeOverride, TakeRecent, PriceInd, RequestIs, Stages
  <2> QED BY Zenon, <1>1, <2>1, <2>2
<1>3. ASSUME NEW r \in Requests, Implausible(r) \/ Hold(r) \/ Store(r) \/ Done(r)
      PROVE  FetchWaits'
  <2>1. fetch' = fetch /\ \E q : req' = [req EXCEPT ![r] = q]
    BY <1>3 DEF Implausible, Hold, Store, Done
  <2>2. req[r].at # "waiting"
    BY <1>3 DEF Implausible, Hold, Store, Done
  <2> QED BY Zenon, <1>1, <2>1, <2>2
<1>4. ASSUME NEW r \in Requests, StartRead(r) PROVE FetchWaits'
  BY <1>0, <1>4 DEF StartRead, FetchWaits, Stages
<1>5. ASSUME NEW r \in Requests, Accept(r) PROVE FetchWaits'
  BY <1>0, <1>5 DEF Accept, FetchWaits
<1>6. ASSUME NEW r \in Requests, JoinFetch(r) PROVE FetchWaits'
  <2>1. \A x \in Requests : x \in fetch'.for => x \in fetch.for \/ x = r
    BY <1>6 DEF JoinFetch, FetchWaits
  <2>2. \A x \in Requests : req'[x].at = IF x = r THEN "waiting" ELSE req[x].at
    BY <1>0, <1>6 DEF JoinFetch, RequestFields
  <2> QED BY <2>1, <2>2 DEF FetchWaits
<1>7. ASSUME (\E p \in SourcePrices : SourceAnswers(p)) \/ SourceFails PROVE FetchWaits'
  <2>1. fetch' = NoFetch
    BY ZenonT(60), <1>7 DEF SourceAnswers, SourceFails
  <2> QED BY SMTT(30), <2>1 DEF NoFetch, FetchWaits
<1>8. ASSUME (\E c \in Caches : \E row : Edit(c, row)) \/ Tick \/ UNCHANGED priceVars PROVE FetchWaits'
  BY Zenon, <1>8 DEF Edit, Tick, priceVars, FetchWaits
<1> QED
  BY Zenon, <1>2, <1>3, <1>4, <1>5, <1>6, <1>7, <1>8 DEF PriceNext, Caches

\* For any requests, edits and prices, what a cache answers was in force less
\* than the cache's life ago (ConfigCache.read, MarketsService.cached).
THEOREM EditsAreHeeded == PriceSpec => []EditHeededWithinTTL
<1>1. PriceInit => PriceInd /\ FetchWaits
  <2>1. NoFetch.for = {}
    BY DEF NoFetch
  <2>2. PriceInit => fetch = NoFetch
    BY Zenon DEF PriceInit
  <2> QED BY Zenon, <2>1, <2>2, PriceStart DEF FetchWaits
<1>2. PriceInd /\ FetchWaits /\ [PriceNext]_priceVars => PriceInd' /\ FetchWaits'
  BY PriceStep, FetchStep
<1>3. PriceInd => EditHeededWithinTTL
  BY DEF PriceInd
<1> QED BY <1>1, <1>2, <1>3, PTL DEF PriceSpec

-----------------------------------------------------------------------------
(* The order placed is the one reviewed. *)

MadeQuote == [amount : Keys, price : FiatPrices, expires : Nat, used : BOOLEAN]

\* A quote the server made for an amount, and terms that are those of a quote.
ForAmount(q, amount, made) == q \in DOMAIN made /\ made[q].amount = amount
OnTerms(x, made) == ForAmount(x.quote, x.amount, made) /\ made[x.quote].price = x.price

FormInd ==
    /\ form \in {"buy", "sell"} /\ typed \in Entries /\ settled \in Entries /\ rate \in Rates /\ hour \in Nat
    /\ quotesMade \in Seq(MadeQuote)
    /\ DOMAIN asking = Keys /\ DOMAIN shown = Keys
    /\ \A k \in Keys : asking[k] \in {NoId, Refusal} \/ ForAmount(asking[k], k, quotesMade)
    /\ \A k \in Keys : shown[k] = NoId \/ ForAmount(shown[k], k, quotesMade)
    /\ reviewed = NoReview \/ ForAmount(reviewed.quote, reviewed.amount, quotesMade)
    /\ sending = NotSending \/ (DOMAIN sending = {"quote", "amount", "price", "at"} /\ OnTerms(sending, quotesMade))
    /\ \A o \in ordersMade : OnTerms(o, quotesMade)

\* What the page asks for is an amount with a place in the cache.
LEMMA KeyIsAKey == FormInd => Key \in Keys /\ Key = usdcAmount
  BY SMTT(30) DEF FormInd, Key, KeyOf, usdcAmount, Keys

\* The terms of a quote stand, whatever becomes of the others.
LEMMA TermsStand ==
    ASSUME NEW made, NEW more,
           \A q \in DOMAIN made : q \in DOMAIN more /\ more[q].amount = made[q].amount /\ more[q].price = made[q].price
    PROVE  /\ \A q, a : ForAmount(q, a, made) => ForAmount(q, a, more)
           /\ \A x : OnTerms(x, made) => OnTerms(x, more)
<1>1. ASSUME NEW q, NEW a, ForAmount(q, a, made) PROVE ForAmount(q, a, more)
  BY Zenon, <1>1 DEF ForAmount
<1>2. ASSUME NEW x, OnTerms(x, made) PROVE OnTerms(x, more)
  BY Zenon, <1>1, <1>2 DEF OnTerms, ForAmount
<1> QED BY Zenon, <1>1, <1>2

\* A request adds a quote for the amount on the page, and is asked for under its
\* key (createQuote).
LEMMA RequestAdds ==
    ASSUME FormInd, Request
    PROVE  /\ quotesMade' \in Seq(MadeQuote)
           /\ \A q \in DOMAIN quotesMade : q \in DOMAIN quotesMade' /\ quotesMade'[q] = quotesMade[q]
           /\ DOMAIN asking' = Keys
           /\ \A k \in Keys : asking'[k] = asking[k] \/ ForAmount(asking'[k], k, quotesMade')
<1>0. Key \in Keys /\ Key = usdcAmount /\ quotesMade \in Seq(MadeQuote) /\ DOMAIN asking = Keys
  BY Zenon, KeyIsAKey DEF FormInd
<1>1. PICK p \in FiatPrices :
        quotesMade' = Append(quotesMade, [amount |-> usdcAmount, price |-> p, expires |-> hour + HOLD, used |-> FALSE])
  BY Zenon DEF Request
<1> DEFINE n == [amount |-> usdcAmount, price |-> p, expires |-> hour + HOLD, used |-> FALSE]
<1>2. n \in MadeQuote /\ n.amount = Key
  <2>1. hour + HOLD \in Nat
    <3>1. hour \in Nat
      BY Zenon DEF FormInd
    <3> QED BY ONLY <3>1, HoldIsATime
  <2> QED BY <1>0, <2>1 DEF MadeQuote
<1> HIDE DEF n
<1>3. quotesMade' = Append(quotesMade, n)
  BY <1>1 DEF n
<1>4. /\ quotesMade' \in Seq(MadeQuote)
      /\ \A q \in DOMAIN quotesMade : q \in DOMAIN quotesMade' /\ quotesMade'[q] = quotesMade[q]
      /\ Len(quotesMade) + 1 \in DOMAIN quotesMade' /\ quotesMade'[Len(quotesMade) + 1] = n
  BY <1>0, <1>2, <1>3
<1>5. asking' = [asking EXCEPT ![Key] = Len(quotesMade) + 1]
  BY DEF Request
<1>6. \A k \in Keys : asking'[k] = IF k = Key THEN Len(quotesMade) + 1 ELSE asking[k]
  BY <1>0, <1>5
<1> HIDE DEF Key
<1>7. \A k \in Keys : asking'[k] = asking[k] \/ ForAmount(asking'[k], k, quotesMade')
  BY ZenonT(60), <1>2, <1>4, <1>6 DEF ForAmount
<1> QED BY ZenonT(60), <1>0, <1>4, <1>5, <1>7

\* The form starts without a quote.
LEMMA FormStart == FormInit => FormInd
<1> SUFFICES ASSUME FormInit PROVE FormInd
  OBVIOUS
<1>1. \A k \in Keys : asking[k] = NoId /\ shown[k] = NoId
  BY DEF FormInit
<1>2. typed \in Entries /\ settled \in Entries /\ quotesMade \in Seq(MadeQuote) /\ hour \in Nat
  BY DEF FormInit, Entries
<1> QED BY <1>1, <1>2 DEF FormInit, FormInd

\* Every step of the page and of the server keeps what is shown, pinned, sent and
\* ordered on the terms of its quote.
LEMMA FormStep == FormInd /\ [FormNext]_formVars => FormInd'
<1> SUFFICES ASSUME FormInd, [FormNext]_formVars PROVE FormInd'
  OBVIOUS
<1> USE DEF FormInd
<1>1. ASSUME NEW a \in Typeable, Type(a) PROVE FormInd'
  BY ZenonT(60), <1>1 DEF Type, Entries
<1>2. CASE DebounceFires
  BY ZenonT(60), <1>2 DEF DebounceFires
<1>3. ASSUME NEW r \in Rates, RateArrives(r) PROVE FormInd'
  BY ZenonT(60), <1>3 DEF RateArrives
<1>4. ASSUME Request, reviewed' = reviewed \/ reviewed' = NoReview,
             UNCHANGED <<form, typed, settled, rate, shown, sending, ordersMade, hour>>
      PROVE  FormInd'
  <2>1. /\ quotesMade' \in Seq(MadeQuote)
        /\ \A q \in DOMAIN quotesMade : q \in DOMAIN quotesMade' /\ quotesMade'[q] = quotesMade[q]
        /\ DOMAIN asking' = Keys
        /\ \A k \in Keys : asking'[k] = asking[k] \/ ForAmount(asking'[k], k, quotesMade')
    BY Zenon, <1>4, RequestAdds
  <2>2. /\ \A q, a : ForAmount(q, a, quotesMade) => ForAmount(q, a, quotesMade')
        /\ \A x : OnTerms(x, quotesMade) => OnTerms(x, quotesMade')
    BY Zenon, <2>1, TermsStand
  <2>3. \A k \in Keys : asking'[k] \in {NoId, Refusal} \/ ForAmount(asking'[k], k, quotesMade')
    BY Zenon, <2>1, <2>2
  <2>4. /\ \A k \in Keys : shown'[k] = NoId \/ ForAmount(shown'[k], k, quotesMade')
        /\ reviewed' = NoReview \/ ForAmount(reviewed'.quote, reviewed'.amount, quotesMade')
    BY Zenon, <1>4, <2>2
  <2>5. /\ sending' = NotSending
           \/ (DOMAIN sending' = {"quote", "amount", "price", "at"} /\ OnTerms(sending', quotesMade'))
        /\ \A o \in ordersMade' : OnTerms(o, quotesMade')
    BY Zenon, <1>4, <2>2
  <2>6. /\ form' \in {"buy", "sell"} /\ typed' \in Entries /\ settled' \in Entries /\ rate' \in Rates /\ hour' \in Nat
        /\ DOMAIN shown' = Keys
    BY Zenon, <1>4
  <2> QED BY ONLY <2>1, <2>3, <2>4, <2>5, <2>6 DEF FormInd, ForAmount, OnTerms
<1>5. CASE AskQuote
  BY Zenon, <1>4, <1>5 DEF AskQuote
<1>6. ASSUME NEW k \in Keys, QuoteArrives(k) PROVE FormInd'
  <2>1. ForAmount(asking[k], k, quotesMade)
    <3>1. asking[k] \in DOMAIN quotesMade /\ quotesMade \in Seq(MadeQuote)
      BY Zenon, <1>6 DEF QuoteArrives
    <3>2. asking[k] \notin {NoId, Refusal}
      BY ONLY <3>1 DEF NoId, Refusal
    <3> QED BY Zenon, <3>2
  <2>2. /\ DOMAIN asking' = Keys /\ \A j \in Keys : asking'[j] = IF j = k THEN NoId ELSE asking[j]
        /\ DOMAIN shown' = Keys /\ \A j \in Keys : shown'[j] = IF j = k THEN asking[k] ELSE shown[j]
        /\ UNCHANGED <<form, typed, settled, rate, reviewed, sending, quotesMade, ordersMade, hour>>
    BY Zenon, <1>6 DEF QuoteArrives
  <2> QED BY ZenonT(60), <2>1, <2>2 DEF ForAmount, OnTerms
<1>7. ASSUME NEW k \in Keys, QuoteLost(k) PROVE FormInd'
  <2>1. /\ DOMAIN asking' = Keys /\ \A j \in Keys : asking'[j] = IF j = k THEN Refusal ELSE asking[j]
        /\ UNCHANGED <<form, typed, settled, rate, shown, reviewed, sending, quotesMade, ordersMade, hour>>
    BY Zenon, <1>7 DEF QuoteLost
  <2> QED BY ZenonT(60), <2>1 DEF ForAmount, OnTerms
<1>8. CASE Continue
  <2>1. Key \in Keys /\ Key = usdcAmount
    BY Zenon, KeyIsAKey
  <2>2. ForAmount(shown[Key], Key, quotesMade)
    BY ZenonT(60), <1>8, <2>1 DEF Continue, canContinue
  <2>3. reviewed'.quote = shown[Key] /\ reviewed'.amount = Key
    BY <1>8, <2>1 DEF Continue
  <2> QED BY Zenon, <1>8, <2>2, <2>3 DEF Continue, ForAmount, OnTerms
<1>9. CASE Back
  BY ZenonT(60), <1>9 DEF Back, closeReview, ForAmount, OnTerms
<1>10. CASE ReviewExpires
  <2>1. CASE usdcAmount >= 1
    BY Zenon, <1>4, <1>10, <2>1 DEF ReviewExpires, closeReview
  <2>2. CASE ~(usdcAmount >= 1)
    BY ZenonT(60), <1>10, <2>2 DEF ReviewExpires, closeReview, ForAmount, OnTerms
  <2> QED BY Zenon, <2>1, <2>2
<1>11. CASE Confirm
  <2>1. /\ DOMAIN sending' = {"quote", "amount", "price", "at"}
        /\ sending'.quote = reviewed.quote /\ sending'.amount = reviewed.amount
        /\ sending'.price = quotesMade[reviewed.quote].price
    BY Zenon, <1>11 DEF Confirm, Submitted
  <2>2. ForAmount(reviewed.quote, reviewed.amount, quotesMade)
    BY Zenon, <1>11 DEF Confirm
  <2> QED BY Zenon, <1>11, <2>1, <2>2 DEF Confirm, ForAmount, OnTerms
<1>12. CASE OpenOrder
  <2>1. sending # NotSending
    BY <1>12 DEF OpenOrder, NotSending
  <2>2. DOMAIN sending = {"quote", "amount", "price", "at"} /\ OnTerms(sending, quotesMade)
    BY ZenonT(60), <2>1
  <2>3. /\ quotesMade' \in Seq(MadeQuote)
        /\ \A q \in DOMAIN quotesMade : q \in DOMAIN quotesMade' /\ quotesMade'[q].amount = quotesMade[q].amount
                                         /\ quotesMade'[q].price = quotesMade[q].price
    <3> DEFINE s == sending.quote
               u == [quotesMade[s] EXCEPT !.used = TRUE]
    <3>1. s \in DOMAIN quotesMade /\ quotesMade' = [quotesMade EXCEPT ![s] = u]
      BY <1>12, <2>2 DEF OpenOrder, OnTerms, ForAmount
    <3>2. u \in MadeQuote /\ u.amount = quotesMade[s].amount /\ u.price = quotesMade[s].price
      <4>1. quotesMade[s] \in MadeQuote
        BY <3>1
      <4> QED BY Zenon, <4>1 DEF MadeQuote
    <3> HIDE DEF s, u
    <3> QED BY <3>1, <3>2
  <2>4. /\ \A q, a : ForAmount(q, a, quotesMade) => ForAmount(q, a, quotesMade')
        /\ \A x : OnTerms(x, quotesMade) => OnTerms(x, quotesMade')
    BY Zenon, <2>3, TermsStand
  <2>5. /\ DOMAIN sending' = {"quote", "amount", "price", "at"} /\ sending'.quote = sending.quote
        /\ sending'.amount = sending.amount /\ sending'.price = sending.price
    BY <1>12, <2>2 DEF OpenOrder
  <2>6. OnTerms(sending, quotesMade') /\ OnTerms(sending', quotesMade')
    BY Zenon, <2>2, <2>4, <2>5 DEF OnTerms, ForAmount
  <2>7. \A o \in ordersMade' : OnTerms(o, quotesMade')
    BY Zenon, <1>12, <2>4, <2>6 DEF OpenOrder
  <2>8. /\ \A k \in Keys : asking[k] \in {NoId, Refusal} \/ ForAmount(asking[k], k, quotesMade')
        /\ \A k \in Keys : shown[k] = NoId \/ ForAmount(shown[k], k, quotesMade')
        /\ reviewed = NoReview \/ ForAmount(reviewed.quote, reviewed.amount, quotesMade')
    BY Zenon, <2>4
  <2>9. UNCHANGED <<form, typed, settled, rate, shown, asking, reviewed, hour>>
    BY <1>12 DEF OpenOrder
  <2> QED BY Zenon, <2>3, <2>5, <2>6, <2>7, <2>8, <2>9 DEF ForAmount, OnTerms
<1>13. CASE Opened \/ NotOpened
  <2>1. 0 \in Entries
    BY DEF Entries
  <2> QED BY ZenonT(60), <1>13, <2>1 DEF Opened, NotOpened, closeReview, ForAmount, OnTerms
<1>14. CASE TimeGoes
  <2>1. hour' = hour + 1 /\ hour \in Nat
    BY Zenon, <1>14 DEF TimeGoes
  <2>2. hour' \in Nat
    BY ONLY <2>1
  <2> QED BY Zenon, <1>14, <2>2 DEF TimeGoes, ForAmount, OnTerms
<1>15. CASE UNCHANGED formVars
  BY Zenon, <1>15 DEF formVars, ForAmount, OnTerms
<1> QED
  BY ZenonT(60), <1>1, <1>2, <1>3, <1>5, <1>6, <1>7, <1>8, <1>9, <1>10, <1>11, <1>12, <1>13, <1>14, <1>15 DEF FormNext

\* Whatever is typed under the sheet, however the rate moves and answers come
\* late, an order has the amount and the price the sheet displayed.
THEOREM OrdersAreAsReviewed == FormSpec => []OrderIsAsReviewed
<1>1. FormInd => OrderIsAsReviewed
  BY Zenon DEF FormInd, OrderIsAsReviewed, OnTerms, ForAmount
<1> QED BY <1>1, FormStart, FormStep, PTL DEF FormSpec

=============================================================================
