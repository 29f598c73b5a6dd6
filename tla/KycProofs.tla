----------------------------- MODULE KycProofs ------------------------------
(***************************************************************************)
(* Proofs about what stands before an order: customer verification (the    *)
(* gate, what a customer is shown, deliveries out of order) and the hosted *)
(* transaction an order is opened for, for any customers, requests,        *)
(* sessions, reports of the vendor, instances and orders.                  *)
(***************************************************************************)
EXTENDS Kyc, Opening, SequenceTheorems, TLAPS

KRow == [status : {"NEEDS_INFO", "PROCESSING", "ACCEPTED", "REJECTED"}, session : Nat,
         old : BOOLEAN, delivered : Nat, screened : BOOLEAN, verified : BOOLEAN]
KRequest == [at : {"incomplete", "opening", "commit", "redact"}, inst : KycInstances, ref : KycRefs, session : Nat]
KSession == [ref : KycRefs, inst : KycInstances, counted : BOOLEAN]
KMail == [session : Nat, payload : Payloads]

\* A row that was accepted by a delivery names it: an approval of the session
\* on the row, opened for this customer, with the screening the row claims.
Backed(r, row, made, letters) ==
    row.status = "ACCEPTED" =>
      /\ row.screened => row.delivered # 0
      /\ row.delivered # 0 =>
           /\ row.delivered \in DOMAIN letters
           /\ letters[row.delivered].session = row.session
           /\ made[row.session].ref = r
           /\ letters[row.delivered].payload.status = "Approved"
           /\ letters[row.delivered].payload.screening = IF row.screened THEN "clear" ELSE "none"

KRowsOK ==
    /\ DOMAIN kyc = KycRefs
    /\ \A r \in KycRefs : Has(r) => Row(r) \in KRow /\ Backed(r, Row(r), opened, mail)

KCallsOK ==
    /\ DOMAIN kcalls = KycCalls
    /\ \A c \in KycCalls : kcalls[c] = NoRequest \/ kcalls[c] \in KRequest

KMailOK ==
    /\ opened \in Seq(KSession)
    /\ mail \in Seq(KMail)
    /\ \A i \in DOMAIN mail : mail[i].session \in DOMAIN opened

KRefusedOK == \A p \in refused : StandsRefused(p)

KycInv == active \subseteq KycRefs /\ KRowsOK /\ KCallsOK /\ KMailOK /\ KRefusedOK

\* The vendor's report leads to acceptance only if it is an approval without
\* findings, and the row is marked screened only for a clear screening
\* (readDiditDecision).
LEMMA DecisionIsFaithful ==
    ASSUME NEW p \in Payloads
    PROVE  LET concl == readDiditDecision(p) IN
           /\ concl.status \in {"NEEDS_INFO", "PROCESSING", "ACCEPTED", "REJECTED"}
           /\ concl.screened \in BOOLEAN
           /\ concl.status = "ACCEPTED" =>
                /\ ~concl.notStarted
                /\ p.status = "Approved"
                /\ p.screening = IF concl.screened THEN "clear" ELSE "none"
<1>1. /\ p.status \in {"Approved", "Declined", "Not Started", "In Progress", "Expired"}
      /\ p.screening \in {"none", "clear", "notRun", "unclear", "hit"}
  BY Zenon, PayloadsAssumption
<1>2. CASE p.status = "Approved"
  BY Zenon, <1>1, <1>2 DEF readDiditDecision
<1>3. CASE p.status = "Declined"
  BY Zenon, <1>1, <1>3 DEF readDiditDecision
<1>4. CASE p.status \in {"Not Started", "In Progress", "Expired"}
  BY Zenon, <1>4 DEF readDiditDecision
<1> QED BY Zenon, <1>1, <1>2, <1>3, <1>4

\* A request that moves on keeps its shape (BecomeRequest).
LEMMA RequestMoves ==
    ASSUME KCallsOK, NEW c \in KycCalls, NEW q, q = NoRequest \/ q \in KRequest,
           BecomeRequest(c, q)
    PROVE  KCallsOK'
BY DEF KCallsOK, BecomeRequest

\* Writing one row keeps the rows and the refusals in order if the new row is
\* well founded and does not replace a refusal by anything else (Upsert).
LEMMA UpsertKeeps ==
    ASSUME KRowsOK, KRefusedOK, NEW r \in KycRefs, NEW row \in KRow,
           Backed(r, row, opened, mail), Upsert(r, row), UNCHANGED <<opened, mail>>,
           HasStatus(r, "REJECTED") => row.status = "REJECTED",
           \A p \in refused' : p \in refused \/ (row.status = "REJECTED" /\ p = PersonOf[r])
    PROVE  KRowsOK' /\ KRefusedOK'
<1>1. /\ kyc' = [kyc EXCEPT ![r] = <<row>>]
      /\ DOMAIN kyc = KycRefs
  BY DEF Upsert, KRowsOK
<1>2. kyc'[r] = <<row>> /\ \A s \in KycRefs : s # r => kyc'[s] = kyc[s]
  BY <1>1
<1>3. (kyc')[r][1] = row /\ kyc'[r] # <<>>
  BY <1>2
<1>4. ASSUME NEW s \in KycRefs, Has(s)'
      PROVE  Row(s)' \in KRow /\ Backed(s, Row(s)', opened, mail)
  <2>1. CASE s = r
    BY <1>3, <2>1 DEF Row
  <2>2. CASE s # r
    BY <1>2, <1>4, <2>2 DEF KRowsOK, Has, Row
  <2> QED BY <2>1, <2>2
<1>5. KRowsOK'
  BY <1>1, <1>4 DEF KRowsOK, Backed
<1>6. ASSUME NEW s \in KycRefs, HasStatus(s, "REJECTED")
      PROVE  HasStatus(s, "REJECTED")'
  BY <1>2, <1>3, <1>6 DEF HasStatus, Has, Row
<1>7. row.status = "REJECTED" => HasStatus(r, "REJECTED")'
  BY <1>3 DEF HasStatus, Has, Row
<1>8. KRefusedOK'
  BY <1>6, <1>7 DEF KRefusedOK, StandsRefused
<1> QED BY <1>5, <1>8

\* Rows that stay as they are remain well founded while sessions and
\* deliveries are added or forgotten by a counter (createSession, the vendor).
LEMMA RowsKeep ==
    ASSUME KRowsOK, KMailOK, KRefusedOK, UNCHANGED <<kyc, refused>>,
           \A i \in DOMAIN mail : i \in DOMAIN mail' /\ mail'[i] = mail[i],
           \A n \in DOMAIN opened : opened'[n].ref = opened[n].ref
    PROVE  KRowsOK' /\ KRefusedOK'
<1>1. ASSUME NEW r \in KycRefs, Has(r)
      PROVE  Backed(r, Row(r), opened', mail')
  BY SMTT(30), <1>1 DEF KRowsOK, KMailOK, Backed
<1>2. KRowsOK'
  BY <1>1 DEF KRowsOK, Has, Row, Backed
<1>3. KRefusedOK'
  BY DEF KRefusedOK, StandsRefused, HasStatus, Has, Row
<1> QED BY <1>2, <1>3

\* Nobody is verified at the start (KInit).
LEMMA KycInitially == KInit => KycInv
BY DEF KInit, KycInv, KRowsOK, KCallsOK, KMailOK, KRefusedOK, Has

\* Every request, delivery and change of the surroundings keeps the rows well
\* founded and the refusals on record (put, applyDelivery, forget).
LEMMA KycStep == KycInv /\ [KNext]_kycVars => KycInv'
<1> SUFFICES ASSUME KycInv, [KNext]_kycVars
             PROVE  KycInv'
  OBVIOUS
<1>0. /\ active \subseteq KycRefs /\ KRowsOK /\ KCallsOK /\ KMailOK /\ KRefusedOK
      /\ Len(opened) \in Nat /\ Len(mail) \in Nat
      /\ DOMAIN opened = 1 .. Len(opened) /\ DOMAIN mail = 1 .. Len(mail)
  BY DEF KycInv, KMailOK
<1>q. ASSUME UNCHANGED <<kyc, opened, mail, refused>>, active' \subseteq KycRefs, KCallsOK'
      PROVE  KycInv'
  <2>1. KRowsOK' /\ KRefusedOK'
    BY <1>0, <1>q, RowsKeep
  <2>2. KMailOK'
    BY <1>0, <1>q DEF KMailOK
  <2> QED BY <1>q, <2>1, <2>2 DEF KycInv
<1>c. ASSUME NEW c \in KycCalls, kcalls[c].at # "idle"
      PROVE  kcalls[c] \in KRequest
  BY <1>0, <1>c DEF KCallsOK, NoRequest
<1>1. ASSUME NEW c \in KycCalls, NEW i \in KycInstances, NEW r \in KycRefs,
             NEW complete \in BOOLEAN, Put(c, i, r, complete)
      PROVE  KycInv'
  <2>1. Request("incomplete", i, r, 0) \in KRequest /\ Request("opening", i, r, 0) \in KRequest
    BY DEF Request, KRequest
  <2>2. \/ UNCHANGED kcalls
        \/ BecomeRequest(c, Request("incomplete", i, r, 0))
        \/ BecomeRequest(c, Request("opening", i, r, 0))
    BY <1>1 DEF Put
  <2>3. KCallsOK'
    BY <1>0, <2>1, <2>2, RequestMoves DEF KCallsOK
  <2> QED BY <1>0, <1>1, <1>q, <2>3 DEF Put
<1>2. ASSUME NEW c \in KycCalls, NEW i \in KycInstances, NEW r \in KycRefs, ForgetRows(c, i, r)
      PROVE  KycInv'
  <2>1. KCallsOK'
    <3>1. Request("redact", i, r, 0) \in KRequest
      BY DEF Request, KRequest
    <3> QED BY <1>0, <1>2, <3>1, RequestMoves DEF ForgetRows, KCallsOK
  <2>2. /\ DOMAIN kyc' = KycRefs
        /\ \A s \in KycRefs : kyc'[s] = kyc[s] \/ (kyc'[s] = <<>> /\ ~HasStatus(s, "REJECTED"))
    BY <1>2 DEF ForgetRows
  <2>3. UNCHANGED <<opened, mail, refused, active>>
    BY Zenon, <1>2 DEF ForgetRows
  <2>4. KRowsOK'
    <3>1. ASSUME NEW s \in KycRefs, Has(s)' PROVE Has(s) /\ Row(s)' = Row(s)
      BY Zenon, <2>2, <3>1 DEF Has, Row
    <3>2. ASSUME NEW s \in KycRefs, NEW row, Backed(s, row, opened, mail) PROVE Backed(s, row, opened', mail')
      BY Zenon, <2>3, <3>2
    <3> QED BY Zenon, <1>0, <2>2, <3>1, <3>2 DEF KRowsOK
  <2>5. \A s \in KycRefs : HasStatus(s, "REJECTED") => HasStatus(s, "REJECTED")'
    BY <2>2 DEF HasStatus, Has, Row
  <2>6. KRefusedOK'
    BY <1>0, <2>3, <2>5 DEF KRefusedOK, StandsRefused
  <2>7. KMailOK'
    BY <1>0, <2>3 DEF KMailOK
  <2> QED BY <1>0, <2>1, <2>3, <2>4, <2>6, <2>7 DEF KycInv
<1>3. ASSUME NEW c \in KycCalls, RecordIncomplete(c)
      PROVE  KycInv'
  <2> DEFINE r == kcalls[c].ref
             row == IF Has(r) THEN [Row(r) EXCEPT !.status = "NEEDS_INFO", !.session = 0,
                                                  !.old = FALSE, !.verified = FALSE]
                    ELSE FreshRow("NEEDS_INFO", 0)
  <2>1. r \in KycRefs
    BY <1>3, <1>c DEF RecordIncomplete, KRequest
  <2>2. KCallsOK' /\ UNCHANGED <<active, opened, mail, refused>>
    BY <1>0, <1>3, RequestMoves DEF RecordIncomplete
  <2>3. CASE UNCHANGED kyc
    BY <1>0, <1>q, <2>2, <2>3
  <2>4. CASE kyc' # kyc
    <3>1. ~StandsRefused(PersonOf[r]) /\ Upsert(r, row)
      BY <1>3, <2>4 DEF RecordIncomplete
    <3>2. row \in KRow /\ row.status = "NEEDS_INFO"
      <4>1. CASE Has(r)
        <5>1. Row(r) \in KRow
          BY <1>0, <2>1, <4>1 DEF KRowsOK
        <5>2. row = [Row(r) EXCEPT !.status = "NEEDS_INFO", !.session = 0, !.old = FALSE, !.verified = FALSE]
          BY <4>1
        <5> HIDE DEF row
        <5> QED BY Zenon, <5>1, <5>2 DEF KRow
      <4>2. CASE ~Has(r)
        BY <4>2 DEF FreshRow, KRow
      <4> QED BY <4>1, <4>2
    <3>3. Backed(r, row, opened, mail)
      BY Zenon, <3>2 DEF Backed
    <3>4. ~HasStatus(r, "REJECTED")
      BY <2>1, <3>1 DEF StandsRefused
    <3> HIDE DEF r, row
    <3>5. KRowsOK' /\ KRefusedOK'
      BY <1>0, <2>1, <2>2, <3>1, <3>2, <3>3, <3>4, UpsertKeeps
    <3>6. KMailOK'
      BY <1>0, <2>2 DEF KMailOK
    <3> QED BY <1>0, <2>2, <3>5, <3>6 DEF KycInv
  <2> QED BY <2>3, <2>4
<1>4. ASSUME NEW c \in KycCalls, NEW s \in KSession,
             opened' = Append(opened, s), UNCHANGED <<kyc, mail, refused, active>>, KCallsOK'
      PROVE  KycInv'
  <2>1. /\ opened' \in Seq(KSession) /\ Len(opened') = Len(opened) + 1
        /\ \A n \in DOMAIN opened : n \in DOMAIN opened' /\ opened'[n] = opened[n]
    BY <1>0, <1>4 DEF KMailOK
  <2>2. KRowsOK' /\ KRefusedOK'
    BY <1>0, <1>4, <2>1, RowsKeep
  <2>3. KMailOK'
    BY <1>0, <1>4, <2>1 DEF KMailOK
  <2> QED BY <1>0, <1>4, <2>2, <2>3 DEF KycInv
<1>5. ASSUME NEW c \in KycCalls, SessionOpens(c)
      PROVE  KycInv'
  <2>1. kcalls[c] \in KRequest
    BY <1>5, <1>c DEF SessionOpens
  <2>2. [ref |-> kcalls[c].ref, inst |-> kcalls[c].inst, counted |-> TRUE] \in KSession
    BY <2>1 DEF KRequest, KSession
  <2>3. [kcalls[c] EXCEPT !.at = "commit", !.session = Len(opened) + 1] \in KRequest
    <3>1. Len(opened) + 1 \in Nat
      BY <1>0 DEF KMailOK
    <3> QED BY Zenon, <2>1, <3>1 DEF KRequest
  <2>4. KCallsOK'
    BY <1>0, <1>5, <2>3, RequestMoves DEF SessionOpens
  <2> QED BY <1>4, <1>5, <2>2, <2>4 DEF SessionOpens
<1>6. ASSUME NEW c \in KycCalls, NEW exists \in BOOLEAN, SessionFails(c, exists)
      PROVE  KycInv'
  <2>1. kcalls[c] \in KRequest
    BY <1>6, <1>c DEF SessionFails
  <2>2. [ref |-> kcalls[c].ref, inst |-> kcalls[c].inst, counted |-> FALSE] \in KSession
    BY <2>1 DEF KRequest, KSession
  <2>3. KCallsOK' /\ UNCHANGED <<kyc, mail, refused, active>>
    BY <1>0, <1>6, RequestMoves DEF SessionFails
  <2>4. CASE exists
    BY <1>4, <1>6, <2>2, <2>3, <2>4 DEF SessionFails
  <2>5. CASE ~exists
    BY <1>0, <1>6, <1>q, <2>3, <2>5 DEF SessionFails
  <2> QED BY <2>4, <2>5
<1>7. ASSUME NEW c \in KycCalls, CommitSession(c)
      PROVE  KycInv'
  <2> DEFINE r == kcalls[c].ref
             row == FreshRow("PROCESSING", kcalls[c].session)
  <2>1. kcalls[c] \in KRequest /\ r \in KycRefs
    BY Zenon, <1>7, <1>c DEF CommitSession, KRequest
  <2>2. KCallsOK' /\ UNCHANGED <<active, opened, mail, refused>>
    BY Zenon, <1>0, <1>7, RequestMoves DEF CommitSession
  <2>3. CASE UNCHANGED kyc
    BY <1>0, <1>q, <2>2, <2>3
  <2>4. CASE kyc' # kyc
    <3>1. ~StandsRefused(PersonOf[r]) /\ Upsert(r, row)
      BY <1>7, <2>4 DEF CommitSession
    <3>2. row \in KRow /\ row.status = "PROCESSING"
      BY SMTT(30), <2>1 DEF FreshRow, KRow, KRequest
    <3>3. Backed(r, row, opened, mail)
      BY <3>2 DEF Backed
    <3>4. ~HasStatus(r, "REJECTED")
      BY <2>1, <3>1 DEF StandsRefused
    <3> HIDE DEF r, row
    <3>5. KRowsOK' /\ KRefusedOK'
      BY <1>0, <2>1, <2>2, <3>1, <3>2, <3>3, <3>4, UpsertKeeps
    <3>6. KMailOK'
      BY <1>0, <2>2 DEF KMailOK
    <3> QED BY <1>0, <2>2, <3>5, <3>6 DEF KycInv
  <2> QED BY <2>3, <2>4
<1>8. ASSUME NEW c \in KycCalls, NEW st \in {"ACCEPTED", "REJECTED"}, StubDecides(c, st)
      PROVE  KycInv'
  <2> DEFINE r == kcalls[c].ref
             row == FreshRow(st, 0)
  <2>1. kcalls[c] \in KRequest /\ r \in KycRefs
    BY Zenon, <1>8, <1>c DEF StubDecides, KRequest
  <2>2. KCallsOK' /\ UNCHANGED <<active, opened, mail>>
    BY <1>0, <1>8, RequestMoves DEF StubDecides
  <2>3. CASE UNCHANGED <<kyc, refused>>
    BY <1>0, <1>q, <2>2, <2>3
  <2>4. CASE ~UNCHANGED <<kyc, refused>>
    <3>1. /\ ~StandsRefused(PersonOf[r]) /\ Upsert(r, row)
          /\ refused' = IF st = "REJECTED" THEN refused \cup {PersonOf[r]} ELSE refused
      BY <1>8, <2>4 DEF StubDecides
    <3>2. row \in KRow /\ row.status = st /\ row.delivered = 0 /\ ~row.screened
      BY DEF FreshRow, KRow
    <3>3. Backed(r, row, opened, mail)
      BY <3>2 DEF Backed
    <3>4. ~HasStatus(r, "REJECTED")
      BY <2>1, <3>1 DEF StandsRefused
    <3>7. \A p \in refused' : p \in refused \/ (row.status = "REJECTED" /\ p = PersonOf[r])
      BY <3>1, <3>2
    <3> HIDE DEF r, row
    <3>5. KRowsOK' /\ KRefusedOK'
      BY SMTT(30), <1>0, <2>1, <2>2, <3>1, <3>2, <3>3, <3>4, <3>7, UpsertKeeps
    <3>6. KMailOK'
      BY <1>0, <2>2 DEF KMailOK
    <3> QED BY <1>0, <2>2, <3>5, <3>6 DEF KycInv
  <2> QED BY SMTT(30), <2>3, <2>4
<1>9. ASSUME NEW at \in DOMAIN mail, ApplyDelivery(at)
      PROVE  KycInv'
  <2> DEFINE n == mail[at].session
             r == opened[n].ref
             concl == readDiditDecision(mail[at].payload)
             row == Delivered(r, n, at, concl)
  <2>1. /\ at \in Nat /\ at # 0 /\ n \in DOMAIN opened /\ n \in Nat
        /\ mail[at].payload \in Payloads /\ r \in KycRefs
    <3>1. at \in Nat /\ at # 0 /\ mail[at] \in KMail /\ n \in DOMAIN opened
      BY <1>0 DEF KMailOK
    <3>2. n \in Nat /\ opened[n] \in KSession
      BY SMTT(30), <1>0, <3>1 DEF KMailOK
    <3> QED BY <3>1, <3>2 DEF KMail, KSession
  <2>2. /\ Applies(r, n, at, concl) /\ Upsert(r, row)
        /\ refused' = IF concl.status = "REJECTED" THEN refused \cup {PersonOf[r]} ELSE refused
        /\ UNCHANGED <<active, opened, mail, kcalls>>
    BY <1>9 DEF ApplyDelivery
  <2>3. /\ concl.status \in {"NEEDS_INFO", "PROCESSING", "ACCEPTED", "REJECTED"}
        /\ concl.screened \in BOOLEAN
        /\ concl.status = "ACCEPTED" =>
             /\ ~concl.notStarted
             /\ mail[at].payload.status = "Approved"
             /\ mail[at].payload.screening = IF concl.screened THEN "clear" ELSE "none"
    BY SMTT(30), <2>1, DecisionIsFaithful
  <2>4. Has(r) => Row(r).delivered \in Nat
    BY SMTT(30), <1>0, <2>1 DEF KRowsOK, KRow
  <2>5. ~HasStatus(r, "REJECTED")
    BY <2>2 DEF Applies
  <2> HIDE DEF r, n, concl
  <2>6. /\ row \in KRow /\ row.status = concl.status /\ row.screened = concl.screened
        /\ row.session = n /\ (~concl.notStarted => row.delivered = at)
    BY Zenon, <2>1, <2>3, <2>4 DEF Delivered, FreshRow, KRow
  <2> HIDE DEF row
  <2>7. Backed(r, row, opened, mail)
    BY <2>1, <2>3, <2>6 DEF Backed, r, n
  <2>8. \A p \in refused' : p \in refused \/ (row.status = "REJECTED" /\ p = PersonOf[r])
    BY <2>2, <2>6
  <2>9. KRowsOK' /\ KRefusedOK'
    BY Zenon, <1>0, <2>1, <2>2, <2>5, <2>6, <2>7, <2>8, UpsertKeeps
  <2>10. KMailOK' /\ KCallsOK'
    BY <1>0, <2>2 DEF KMailOK, KCallsOK
  <2> QED BY <1>0, <2>2, <2>9, <2>10 DEF KycInv
<1>10. ASSUME NEW c \in KycCalls, Redact(c)
       PROVE  KycInv'
  <2> DEFINE p == PersonOf[kcalls[c].ref]
             redacted(s) == [Row(s) EXCEPT !.session = 0, !.screened = FALSE,
                                           !.verified = FALSE, !.old = FALSE]
  <2>1. KCallsOK' /\ UNCHANGED <<active, opened, mail, refused>>
    BY Zenon, <1>0, <1>10, RequestMoves DEF Redact
  <2>2. /\ DOMAIN kyc' = KycRefs
        /\ \A s \in KycRefs : \/ kyc'[s] = kyc[s]
                              \/ HasStatus(s, "REJECTED") /\ kyc'[s] = <<redacted(s)>>
    BY Zenon, <1>10 DEF Redact
  <2>3. ASSUME NEW s \in KycRefs, HasStatus(s, "REJECTED")
        PROVE  redacted(s) \in KRow /\ redacted(s).status = "REJECTED"
    BY ZenonT(60), <1>0, <2>3 DEF KRowsOK, HasStatus, KRow
  <2> HIDE DEF redacted
  <2>4. ASSUME NEW s \in KycRefs, Has(s)'
        PROVE  Row(s)' \in KRow /\ Backed(s, Row(s)', opened, mail)
    <3>1. CASE kyc'[s] = kyc[s]
      BY <1>0, <2>4, <3>1 DEF KRowsOK, Has, Row
    <3>2. CASE HasStatus(s, "REJECTED") /\ kyc'[s] = <<redacted(s)>>
      BY <2>3, <3>2 DEF Row, Backed
    <3> QED BY <2>2, <3>1, <3>2
  <2>5. KRowsOK'
    BY Zenon, <2>1, <2>2, <2>4 DEF KRowsOK, Backed
  <2>6. ASSUME NEW s \in KycRefs, HasStatus(s, "REJECTED")
        PROVE  HasStatus(s, "REJECTED")'
    BY SMTT(30), <2>2, <2>3, <2>6 DEF HasStatus, Has, Row
  <2>7. KRefusedOK' /\ KMailOK'
    BY <1>0, <2>1, <2>6 DEF KRefusedOK, KMailOK, StandsRefused
  <2> QED BY <1>0, <2>1, <2>5, <2>7 DEF KycInv
<1>11. ASSUME NEW n \in DOMAIN opened, NEW p \in Payloads, VendorReports(n, p)
       PROVE  KycInv'
  <2>1. [session |-> n, payload |-> p] \in KMail
    BY <1>0 DEF KMail
  <2>2. mail' = Append(mail, [session |-> n, payload |-> p]) /\ UNCHANGED <<kyc, active, opened, kcalls, refused>>
    BY <1>11 DEF VendorReports
  <2>3. /\ mail' \in Seq(KMail) /\ Len(mail') = Len(mail) + 1
        /\ \A i \in DOMAIN mail : i \in DOMAIN mail' /\ mail'[i] = mail[i]
        /\ mail'[Len(mail) + 1].session = n
    BY SMTT(30), <1>0, <2>1, <2>2 DEF KMailOK
  <2>4. KRowsOK' /\ KRefusedOK'
    BY <1>0, <2>2, <2>3, RowsKeep
  <2>5. ASSUME NEW i \in DOMAIN mail' PROVE mail'[i].session \in DOMAIN opened
    BY SMTT(30), <1>0, <2>3 DEF KMailOK
  <2>6. KMailOK' /\ KCallsOK'
    BY <1>0, <2>2, <2>3, <2>5 DEF KMailOK, KCallsOK
  <2> QED BY SMTT(30), <1>0, <2>2, <2>4, <2>6 DEF KycInv
<1>12. ASSUME NEW r \in KycRefs, LinkChanges(r)
       PROVE  KycInv'
  <2>1. KCallsOK'
    BY <1>0, <1>12 DEF LinkChanges, KCallsOK
  <2> QED BY <1>0, <1>12, <1>q, <2>1 DEF LinkChanges
<1>13. ASSUME NEW r \in KycRefs, RowAges(r)
       PROVE  KycInv'
  <2> DEFINE row == [Row(r) EXCEPT !.old = TRUE]
  <2>1. Upsert(r, row) /\ Has(r) /\ UNCHANGED <<active, opened, mail, kcalls, refused>>
    BY <1>13 DEF RowAges, Upsert
  <2>2. Row(r) \in KRow /\ Backed(r, Row(r), opened, mail)
    BY <1>0, <2>1 DEF KRowsOK
  <2>3. /\ row \in KRow /\ row.status = Row(r).status /\ row.session = Row(r).session
        /\ row.delivered = Row(r).delivered /\ row.screened = Row(r).screened
    BY Zenon, <2>2 DEF KRow
  <2> HIDE DEF row
  <2>4. Backed(r, row, opened, mail)
    BY <2>2, <2>3 DEF Backed
  <2>5. HasStatus(r, "REJECTED") => row.status = "REJECTED"
    BY <2>3 DEF HasStatus
  <2>6. KRowsOK' /\ KRefusedOK'
    BY Zenon, <1>0, <2>1, <2>3, <2>4, <2>5, UpsertKeeps
  <2>7. KMailOK' /\ KCallsOK'
    BY <1>0, <2>1 DEF KMailOK, KCallsOK
  <2> QED BY <1>0, <2>1, <2>6, <2>7 DEF KycInv
<1>s. ASSUME opened' \in [DOMAIN opened -> KSession],
             \A n \in DOMAIN opened : opened'[n].ref = opened[n].ref,
             UNCHANGED <<kyc, mail, refused, active>>, KCallsOK'
      PROVE  KycInv'
  <2>1. opened' \in Seq(KSession) /\ DOMAIN opened' = DOMAIN opened
    BY <1>0, <1>s, SeqDef
  <2>2. KRowsOK' /\ KRefusedOK'
    BY SMTT(30), <1>0, <1>s, RowsKeep
  <2>3. KMailOK'
    BY <1>0, <1>s, <2>1 DEF KMailOK
  <2> QED BY SMTT(30), <1>0, <1>s, <2>2, <2>3 DEF KycInv
<1>14. ASSUME NEW n \in DOMAIN opened, SessionAges(n)
       PROVE  KycInv'
  <2>1. \A m \in DOMAIN opened : opened[m] \in KSession
    BY <1>0 DEF KMailOK
  <2>2. opened' = [opened EXCEPT ![n] = [@ EXCEPT !.counted = FALSE]]
    BY <1>14 DEF SessionAges
  <2>3. [opened[n] EXCEPT !.counted = FALSE] \in KSession /\ [opened[n] EXCEPT !.counted = FALSE].ref = opened[n].ref
    BY Zenon, <2>1 DEF KSession
  <2>4. opened' \in [DOMAIN opened -> KSession] /\ \A m \in DOMAIN opened : opened'[m].ref = opened[m].ref
    BY <1>0, <2>1, <2>2, <2>3 DEF KMailOK
  <2>5. KCallsOK'
    BY <1>0, <1>14 DEF SessionAges, KCallsOK
  <2> QED BY <1>14, <1>s, <2>4, <2>5 DEF SessionAges
<1>15. ASSUME NEW i \in KycInstances, Restarts(i)
       PROVE  KycInv'
  <2>1. \A m \in DOMAIN opened : opened[m] \in KSession
    BY <1>0 DEF KMailOK
  <2>2. ASSUME NEW m \in DOMAIN opened
        PROVE  [opened[m] EXCEPT !.counted = FALSE] \in KSession /\ [opened[m] EXCEPT !.counted = FALSE].ref = opened[m].ref
    BY Zenon, <2>1 DEF KSession
  <2>3. opened' \in [DOMAIN opened -> KSession] /\ \A m \in DOMAIN opened : opened'[m].ref = opened[m].ref
    BY <1>15, <2>1, <2>2 DEF Restarts
  <2>4. KCallsOK'
    BY <1>0, <1>15 DEF Restarts, KCallsOK
  <2> QED BY SMTT(30), <1>15, <1>s, <2>3, <2>4 DEF Restarts
<1>16. CASE UNCHANGED kycVars
  <2>1. KCallsOK'
    BY <1>0, <1>16 DEF kycVars, KCallsOK
  <2> QED BY <1>0, <1>16, <1>q, <2>1 DEF kycVars
<1> QED
  BY <1>1, <1>2, <1>3, <1>5, <1>6, <1>7, <1>8, <1>9, <1>10, <1>11, <1>12, <1>13, <1>14,
     <1>15, <1>16 DEF KNext

\* The invariant holds of every reachable state of customer verification.
LEMMA KycInvariant == KSpec => []KycInv
BY KycInitially, KycStep, PTL DEF KSpec

\* Nobody who was ever refused passes the gate of the orders, and a row that
\* passes it carries the vendor's approval of its own session with the
\* screening that is required (identityVerified, applyDelivery, forget).
THEOREM FundsNeedApprovalHolds == KSpec => []FundsNeedApproval
<1>1. KycInv => FundsNeedApproval
  <2> SUFFICES ASSUME KycInv PROVE FundsNeedApproval
    OBVIOUS
  <2>1. \A p \in refused : ~identityVerified(p)
    BY SMTT(30) DEF KycInv, KRefusedOK, identityVerified
  <2>2. ASSUME NEW r \in KycRefs, acceptedForFunds(r)
        PROVE  /\ Row(r).delivered \in DOMAIN mail
               /\ mail[Row(r).delivered].session = Row(r).session
               /\ opened[Row(r).session].ref = r
               /\ mail[Row(r).delivered].payload.status = "Approved"
               /\ mail[Row(r).delivered].payload.screening \in
                    IF setup.requireAml THEN {"clear"} ELSE {"none", "clear"}
    <3>1. /\ Row(r).status = "ACCEPTED" /\ Backed(r, Row(r), opened, mail)
          /\ IF setup.requireAml THEN Row(r).screened ELSE Row(r).delivered # 0
      BY SMTT(30), <2>2 DEF KycInv, KRowsOK, acceptedForFunds, HasStatus
    <3> QED BY <3>1 DEF Backed
  <2> QED BY <2>1, <2>2 DEF FundsNeedApproval
<1> QED BY <1>1, KycInvariant, PTL

\* What a customer is shown is what submitting again or ordering will meet
\* (the GET /customer handler against put and identityVerified).
THEOREM AdviceIsTrueHolds == KSpec => []AdviceIsTrue
<1>1. KycInv => AdviceIsTrue
  <2> SUFFICES ASSUME KycInv, NEW r \in active
               PROVE  /\ shownStatus(r) = "ACCEPTED" => identityVerified(PersonOf[r])
                      /\ shownStatus(r) = "NEEDS_INFO" => ~Settled(r) /\ ~StandsRefused(PersonOf[r])
                      /\ shownStatus(r) = "REJECTED" => StandsRefused(PersonOf[r])
    BY DEF AdviceIsTrue
  <2>0. r \in KycRefs
    BY DEF KycInv
  <2>1. CASE ~Has(r)
    BY <2>1 DEF shownStatus, Settled, HasStatus, stillInFlight
  <2>2. CASE Has(r) /\ StandsRefused(PersonOf[r])
    BY <2>2 DEF shownStatus, HasStatus
  <2>3. CASE Has(r) /\ ~StandsRefused(PersonOf[r]) /\ HasStatus(r, "NEEDS_INFO")
    BY <2>3 DEF shownStatus, Settled, HasStatus, stillInFlight
  <2>4. CASE Has(r) /\ ~StandsRefused(PersonOf[r]) /\ ~HasStatus(r, "NEEDS_INFO")
    <3>1. shownStatus(r) = IF needsNewSession(r) THEN "NEEDS_INFO"
                           ELSE IF awaitingProvider(r) THEN "PROCESSING" ELSE Row(r).status
      BY <2>4 DEF shownStatus
    <3>2. Row(r).status # "NEEDS_INFO" /\ Row(r).status # "REJECTED"
      BY <2>0, <2>4 DEF HasStatus, StandsRefused
    <3>3. needsNewSession(r) => ~Settled(r)
      BY DEF needsNewSession, Settled, HasStatus, stillInFlight, staleAcceptance
    <3>4. Row(r).status = "ACCEPTED" /\ ~awaitingProvider(r) => acceptedForFunds(r)
      BY <2>4 DEF awaitingProvider, acceptedForFunds, HasStatus
    <3> QED BY <2>0, <2>4, <3>1, <3>2, <3>3, <3>4 DEF identityVerified
  <2> QED BY <2>1, <2>2, <2>3, <2>4
<1> QED BY <1>1, KycInvariant, PTL

\* Deliveries that arrive out of order never take a row back (applyDelivery).
THEOREM DeliveriesGoForwardHolds == KSpec => DeliveriesGoForward
<1>1. ASSUME KycInv, [KNext]_kycVars, NEW r \in KycRefs,
             Has(r), kyc'[r] # <<>>, kyc'[r][1].delivered < Row(r).delivered
      PROVE  kyc'[r][1].status = "REJECTED" \/ kyc'[r][1].delivered = 0
  <2>0. /\ DOMAIN kyc = KycRefs /\ Row(r) \in KRow /\ Row(r).delivered \in Nat /\ KCallsOK /\ KMailOK
    BY <1>1 DEF KycInv, KRowsOK, KRow
  <2>1. kyc'[r] # kyc[r]
    BY SMTT(30), <1>1, <2>0 DEF Row
  <2>c. ASSUME NEW c \in KycCalls, kcalls[c].at # "idle"
        PROVE  kcalls[c].ref \in KycRefs
    BY SMTT(30), <2>0, <2>c DEF KCallsOK, NoRequest, KRequest
  <2>f. \A st, n : FreshRow(st, n).delivered = 0
    BY Zenon DEF FreshRow
  <2>u. ASSUME NEW s \in KycRefs, NEW row, Upsert(s, row)
        PROVE  s = r /\ kyc'[r][1] = row
    BY SMTT(30), <2>0, <2>1, <2>u DEF Upsert
  <2>2. ASSUME NEW c \in KycCalls, NEW i \in KycInstances, NEW s \in KycRefs, ForgetRows(c, i, s)
        PROVE  FALSE
    BY Zenon, <1>1, <2>1, <2>2 DEF ForgetRows
  <2>3. ASSUME NEW c \in KycCalls, RecordIncomplete(c)
        PROVE  FALSE
    <3>1. kcalls[c].ref \in KycRefs
      BY <2>3, <2>c DEF RecordIncomplete
    <3>2. Upsert(kcalls[c].ref, IF Has(kcalls[c].ref)
                                THEN [Row(kcalls[c].ref) EXCEPT !.status = "NEEDS_INFO", !.session = 0,
                                                                !.old = FALSE, !.verified = FALSE]
                                ELSE FreshRow("NEEDS_INFO", 0))
      BY <2>1, <2>3 DEF RecordIncomplete
    <3>3. kyc'[r][1] = [Row(r) EXCEPT !.status = "NEEDS_INFO", !.session = 0, !.old = FALSE, !.verified = FALSE]
      BY Zenon, <1>1, <2>u, <3>1, <3>2
    <3>4. kyc'[r][1].delivered = Row(r).delivered
      BY SMTT(30), <2>0, <3>3 DEF KRow
    <3> QED BY <1>1, <2>0, <3>4
  <2>4. ASSUME NEW c \in KycCalls, CommitSession(c)
        PROVE  kyc'[r][1].delivered = 0
    <3>1. kcalls[c].ref \in KycRefs
      BY Zenon, <2>4, <2>c DEF CommitSession
    <3>2. Upsert(kcalls[c].ref, FreshRow("PROCESSING", kcalls[c].session))
      BY ZenonT(60), <2>1, <2>4 DEF CommitSession
    <3> QED BY Zenon, <2>f, <2>u, <3>1, <3>2
  <2>5. ASSUME NEW c \in KycCalls, NEW st \in {"ACCEPTED", "REJECTED"}, StubDecides(c, st)
        PROVE  kyc'[r][1].delivered = 0
    <3>1. kcalls[c].ref \in KycRefs
      BY Zenon, <2>5, <2>c DEF StubDecides
    <3>2. Upsert(kcalls[c].ref, FreshRow(st, 0))
      BY Zenon, <2>1, <2>5 DEF StubDecides
    <3> QED BY Zenon, <2>f, <2>u, <3>1, <3>2
  <2>6. ASSUME NEW at \in DOMAIN mail, ApplyDelivery(at)
        PROVE  kyc'[r][1].status = "REJECTED" \/ kyc'[r][1].delivered = 0
    <3> DEFINE n == mail[at].session
               s == opened[n].ref
               concl == readDiditDecision(mail[at].payload)
    <3>1. s \in KycRefs /\ at \in Nat
      <4>1. at \in Nat /\ n \in DOMAIN opened
        BY <2>0 DEF KMailOK
      <4>2. opened[n] \in KSession
        BY SMTT(30), <2>0, <4>1 DEF KMailOK
      <4> QED BY <4>1, <4>2 DEF KSession
    <3>2. Applies(s, n, at, concl) /\ Upsert(s, Delivered(s, n, at, concl))
      BY <2>6 DEF ApplyDelivery
    <3> HIDE DEF n, s, concl
    <3>3. s = r /\ kyc'[r][1] = Delivered(r, n, at, concl)
      <4>1. s = r /\ kyc'[r][1] = Delivered(s, n, at, concl)
        BY Zenon, <2>u, <3>1, <3>2
      <4> QED BY Zenon, <4>1
    <3>4. /\ kyc'[r][1].status = concl.status
          /\ kyc'[r][1].delivered = IF ~concl.notStarted THEN at ELSE Row(r).delivered
      BY ZenonT(60), <1>1, <3>3 DEF Delivered, FreshRow
    <3>5. concl.status = "REJECTED" \/ ~(Row(r).delivered > at)
      BY <1>1, <3>2, <3>3 DEF Applies
    <3> QED BY SMTT(30), <1>1, <2>0, <3>1, <3>4, <3>5
  <2>7. ASSUME NEW c \in KycCalls, Redact(c)
        PROVE  FALSE
    <3>1. kyc'[r][1] = [Row(r) EXCEPT !.session = 0, !.screened = FALSE, !.verified = FALSE, !.old = FALSE]
      BY Zenon, <2>1, <2>7 DEF Redact
    <3>2. kyc'[r][1].delivered = Row(r).delivered
      BY SMTT(30), <2>0, <3>1 DEF KRow
    <3> QED BY <1>1, <2>0, <3>2
  <2>8. ASSUME NEW s \in KycRefs, RowAges(s)
        PROVE  FALSE
    <3>1. Upsert(s, [Row(s) EXCEPT !.old = TRUE])
      BY <2>8 DEF RowAges, Upsert
    <3>2. kyc'[r][1] = [Row(r) EXCEPT !.old = TRUE]
      <4> DEFINE row == [Row(s) EXCEPT !.old = TRUE]
      <4>1. s = r /\ kyc'[r][1] = row
        <5> HIDE DEF row
        <5> QED BY <2>u, <3>1 DEF row
      <4> QED BY <4>1
    <3>3. kyc'[r][1].delivered = Row(r).delivered
      BY <2>0, <3>2 DEF KRow
    <3> QED BY <1>1, <2>0, <3>3
  <2>9. kyc' # kyc
    BY <2>1
  <2>10. /\ \A c, i, s, complete : Put(c, i, s, complete) => kyc' = kyc
         /\ \A c : SessionOpens(c) => kyc' = kyc
         /\ \A c, exists : SessionFails(c, exists) => kyc' = kyc
    <3>1. ASSUME NEW c, NEW i, NEW s, NEW complete, Put(c, i, s, complete)
          PROVE  kyc' = kyc
      BY Zenon, <3>1 DEF Put
    <3>2. ASSUME NEW c, SessionOpens(c)
          PROVE  kyc' = kyc
      BY Zenon, <3>2 DEF SessionOpens
    <3>3. ASSUME NEW c, NEW exists, SessionFails(c, exists)
          PROVE  kyc' = kyc
      BY Zenon, <3>3 DEF SessionFails
    <3> QED BY Zenon, <3>1, <3>2, <3>3
  <2>14. /\ \A n : SessionAges(n) => kyc' = kyc
         /\ \A n, q : VendorReports(n, q) => kyc' = kyc
         /\ \A s : LinkChanges(s) => kyc' = kyc
         /\ \A i : Restarts(i) => kyc' = kyc
    BY Zenon DEF SessionAges, VendorReports, LinkChanges, Restarts
  <2>11. UNCHANGED kycVars => kyc' = kyc
    BY DEF kycVars
  <2>12. ~(\E c \in KycCalls :
             \/ \E i \in KycInstances, s \in KycRefs :
                  (\E complete \in BOOLEAN : Put(c, i, s, complete)) \/ ForgetRows(c, i, s)
             \/ RecordIncomplete(c) \/ SessionOpens(c) \/ Redact(c)
             \/ \E exists \in BOOLEAN : SessionFails(c, exists))
    BY <2>2, <2>3, <2>7, <2>9, <2>10
  <2>13. ~ \/ \E n \in DOMAIN opened : SessionAges(n) \/ \E p \in Payloads : VendorReports(n, p)
           \/ \E s \in KycRefs : LinkChanges(s) \/ RowAges(s)
           \/ \E i \in KycInstances : Restarts(i)
    BY <2>8, <2>9, <2>14
  <2> QED BY ZenonT(60), <1>1, <2>4, <2>5, <2>6, <2>9, <2>11, <2>12, <2>13 DEF KNext
<1>2. KycInv /\ [KNext]_kycVars =>
        [\A r \in KycRefs : (Has(r) /\ kyc'[r] # <<>> /\ kyc'[r][1].delivered < Row(r).delivered) =>
           kyc'[r][1].status = "REJECTED" \/ kyc'[r][1].delivered = 0]_kycVars
  BY <1>1
<1> QED BY <1>2, KycInvariant, PTL DEF KSpec, DeliveriesGoForward

-----------------------------------------------------------------------------
(* An order that lost the race for its transaction is undone. *)

OrderKeys == {"quote", "session", "person", "lp", "flow", "amount", "status", "settled", "tail", "recent",
              "released", "freedBond", "freedLimit"}
CallKeys == {"at", "inst", "session", "person", "quote", "limit", "lp", "bond", "order", "tries"}
SessionRow == [person : Persons, flow : Flows, order : Nat \cup {None}]

\* A hosted transaction that is there, for a request or an order that names one.
Named(s, table) == s = None \/ (s \in Sessions /\ table[s] # None)

\* A request about to tie or to undo an order holds one made for its own
\* transaction.
Holds(k) == k # IdleCall /\ k.at \in {"link", "undo"}
CallStands(k, rows, table) ==
    k # IdleCall =>
      /\ DOMAIN k = CallKeys
      /\ Named(k.session, table)
      /\ Holds(k) => k.session # None /\ k.order \in DOMAIN rows /\ rows[k.order].session = k.session

IsTable(rows) == \E S : rows \in Seq(S)

OpenInd ==
    /\ IsTable(orders)
    /\ \A o \in OrderIds : DOMAIN orders[o] = OrderKeys /\ Named(orders[o].session, sessions)
    /\ DOMAIN sessions = Sessions /\ \A s \in Sessions : sessions[s] \in SessionRow \cup {None}
    /\ DOMAIN calls = Calls /\ \A c \in Calls : CallStands(calls[c], orders, sessions)

Undone == OpenInd /\ UnlinkedIsUndone

\* Replacing a row of a table (a row's update) touches that row alone.
LEMMA RowReplaced ==
    ASSUME NEW rows, IsTable(rows), NEW o \in DOMAIN rows, NEW r
    PROVE  LET new == [rows EXCEPT ![o] = r] IN
           IsTable(new) /\ DOMAIN new = DOMAIN rows /\ \A x \in DOMAIN rows : new[x] = IF x = o THEN r ELSE rows[x]
<1>1. PICK S : rows \in Seq(S)
  BY DEF IsTable
<1>2. [rows EXCEPT ![o] = r] \in Seq(S \cup {r})
  BY <1>1
<1> QED BY <1>1, <1>2 DEF IsTable

\* Adding a row to a table (an insert) gives it the next number and touches no
\* other row.
LEMMA RowAdded ==
    ASSUME NEW rows, IsTable(rows), NEW r
    PROVE  LET new == Append(rows, r)
               n == Len(rows) + 1
           IN  /\ IsTable(new) /\ DOMAIN new = DOMAIN rows \cup {n} /\ n \notin DOMAIN rows
               /\ new[n] = r /\ \A x \in DOMAIN rows : new[x] = rows[x]
<1>1. PICK S : rows \in Seq(S)
  BY DEF IsTable
<1>2. rows \in Seq(S \cup {r}) /\ r \in S \cup {r}
  BY <1>1
<1>3. Append(rows, r) \in Seq(S \cup {r})
  BY <1>2
<1> QED BY <1>2, <1>3 DEF IsTable

\* A marked row is the same order in the same state.
LEMMA MarkedKeeps ==
    ASSUME NEW x, DOMAIN x = OrderKeys
    PROVE  DOMAIN Marked(x) = OrderKeys /\ Marked(x).session = x.session /\ Marked(x).status = x.status
  BY DEF Marked, OrderKeys

\* No row, session or request is there at the start.
LEMMA OpenStart == OInit => Undone
<1> SUFFICES ASSUME OInit PROVE Undone
  OBVIOUS
<1>1. IsTable(orders) /\ OrderIds = {}
  BY DEF OInit, IsTable, OrderIds
<1> QED BY Zenon, <1>1 DEF OInit, Undone, OpenInd, UnlinkedIsUndone, CallStands

\* A request goes on without letting go of an order it holds.
LEMMA CallGoesOn ==
    ASSUME Undone, NEW c \in Calls, NEW k, calls' = [calls EXCEPT ![c] = k],
           CallStands(k, orders, sessions),
           Holds(calls[c]) => Holds(k) /\ k.order = calls[c].order,
           UNCHANGED <<orders, sessions, orphans>>
    PROVE  Undone'
<1>1. DOMAIN calls' = Calls /\ \A d \in Calls : calls'[d] = IF d = c THEN k ELSE calls[d]
  BY Zenon DEF Undone, OpenInd
<1>2. OpenInd'
  BY Zenon, <1>1 DEF Undone, OpenInd, OrderIds, CallStands, Holds, Named
<1>3. UnlinkedIsUndone'
  <2> SUFFICES ASSUME NEW y \in OrderIds, orders[y].session # None, sessions[orders[y].session].order # y,
                      orders[y].status = "MATCHED"
               PROVE  y \in orphans \/ \E d \in Calls : Holds(calls'[d]) /\ calls'[d].order = y
    BY Zenon DEF UnlinkedIsUndone, Holds, OrderIds
  <2>1. y \in orphans \/ \E d \in Calls : Holds(calls[d]) /\ calls[d].order = y
    BY Zenon DEF Undone, UnlinkedIsUndone, Holds
  <2> QED BY Zenon, <1>1, <2>1
<1> QED BY Zenon, <1>2, <1>3 DEF Undone

\* Rows move, each keeping its transaction, and none returns to MATCHED.
LEMMA RowsMove ==
    ASSUME Undone, IsTable(orders'), DOMAIN orders' = DOMAIN orders,
           \A o \in OrderIds : /\ DOMAIN orders'[o] = OrderKeys /\ orders'[o].session = orders[o].session
                               /\ orders'[o].status = "MATCHED" => orders[o].status = "MATCHED",
           UNCHANGED <<sessions, calls, orphans>>
    PROVE  Undone'
<1>1. OpenInd'
  BY Zenon DEF Undone, OpenInd, OrderIds, CallStands, Holds, Named
<1>2. UnlinkedIsUndone'
  BY ZenonT(60) DEF Undone, UnlinkedIsUndone, OrderIds
<1> QED BY <1>1, <1>2 DEF Undone

\* One row moves.
LEMMA RowMovesOn ==
    ASSUME Undone, NEW o \in OrderIds, NEW x, DOMAIN x = OrderKeys, x.session = orders[o].session,
           x.status = "MATCHED" => orders[o].status = "MATCHED",
           orders' = [orders EXCEPT ![o] = Marked(x)],
           UNCHANGED <<sessions, calls, orphans>>
    PROVE  Undone'
<1>1. /\ DOMAIN Marked(x) = OrderKeys /\ Marked(x).session = orders[o].session
      /\ Marked(x).status = "MATCHED" => orders[o].status = "MATCHED"
  BY Zenon, MarkedKeeps
<1>2. IsTable(orders) /\ o \in DOMAIN orders /\ \A y \in OrderIds : DOMAIN orders[y] = OrderKeys
  BY Zenon DEF Undone, OpenInd, OrderIds
<1>3. /\ IsTable(orders') /\ DOMAIN orders' = DOMAIN orders
      /\ \A y \in DOMAIN orders : orders'[y] = IF y = o THEN Marked(x) ELSE orders[y]
  BY Zenon, <1>2, RowReplaced
<1> QED BY Zenon, <1>1, <1>2, <1>3, RowsMove DEF OrderIds

\* The commit makes an order its request holds, or one of no transaction.
LEMMA CommitHolds ==
    ASSUME Undone, NEW c \in Calls, CommitOrder(c)
    PROVE  Undone'
<1> DEFINE r == calls[c]
           n == Len(orders) + 1
           x == NewOrder(c)
           k == IF r.session = None THEN IdleCall
                ELSE [NewCall("link", r.inst, r.session, r.person) EXCEPT !.order = n]
<1>1. r.at = "commit" /\ orders' = Append(orders, x) /\ calls' = [calls EXCEPT ![c] = k]
      /\ UNCHANGED <<sessions, orphans>>
  BY DEF CommitOrder, Forget, Become
<1>2. IdleCall.at = "idle"
  BY SMTT(30) DEF IdleCall
<1>3. DOMAIN x = OrderKeys /\ x.session = r.session
  BY DEF NewOrder, OrderKeys
<1>4. r.session # None => k # IdleCall /\ DOMAIN k = CallKeys /\ k.session = r.session /\ k.at = "link" /\ k.order = n
  BY DEF NewCall, CallKeys, IdleCall
<1>5. IsTable(orders)
  BY ZenonT(60) DEF Undone, OpenInd
<1> HIDE DEF x, k, n
<1>6. /\ IsTable(orders') /\ DOMAIN orders' = DOMAIN orders \cup {n} /\ n \notin DOMAIN orders
      /\ orders'[n] = x /\ \A y \in DOMAIN orders : orders'[y] = orders[y]
  <2>1. n = Len(orders) + 1 /\ orders' = Append(orders, x)
    BY Zenon, <1>1 DEF n
  <2> QED BY ONLY <1>5, <2>1, RowAdded
<1>7. DOMAIN calls' = Calls /\ \A d \in Calls : calls'[d] = IF d = c THEN k ELSE calls[d]
  BY Zenon, <1>1 DEF Undone, OpenInd
<1>8. r # IdleCall /\ ~Holds(r) /\ Named(r.session, sessions)
  <2>1. r # IdleCall /\ r.at # "link" /\ r.at # "undo"
    BY <1>1, <1>2
  <2> QED BY Zenon, <2>1 DEF Undone, OpenInd, CallStands, Holds
<1>9. r.session = None => k = IdleCall
  BY DEF k
<1>10. \A y \in OrderIds' : DOMAIN orders'[y] = OrderKeys /\ Named(orders'[y].session, sessions')
  BY ZenonT(60), <1>1, <1>3, <1>6, <1>8 DEF Undone, OpenInd, OrderIds, Named
<1>11. ASSUME NEW d \in Calls PROVE CallStands(calls'[d], orders', sessions')
  <2>1. CASE d # c
    BY Zenon, <1>1, <1>6, <1>7, <2>1 DEF Undone, OpenInd, CallStands, Named
  <2>2. CASE d = c
    BY ZenonT(60), <1>1, <1>3, <1>4, <1>6, <1>7, <1>8, <1>9, <2>2 DEF CallStands, Named
  <2> QED BY Zenon, <2>1, <2>2
<1>12. OpenInd'
  BY Zenon, <1>1, <1>6, <1>7, <1>10, <1>11 DEF Undone, OpenInd
<1>13. UnlinkedIsUndone'
  <2> SUFFICES ASSUME NEW y \in OrderIds', orders'[y].session # None, sessions'[orders'[y].session].order # y,
                      orders'[y].status = "MATCHED"
               PROVE  y \in orphans' \/ \E d \in Calls : Holds(calls'[d]) /\ calls'[d].order = y
    BY Zenon DEF UnlinkedIsUndone, Holds
  <2>1. CASE y = n
    <3>1. Holds(k) /\ k.order = y
      BY Zenon, <1>3, <1>4, <1>6, <2>1 DEF Holds
    <3> QED BY Zenon, <1>7, <3>1
  <2>2. CASE y # n
    <3>1. y \in orphans \/ \E d \in Calls : Holds(calls[d]) /\ calls[d].order = y
      BY ZenonT(60), <1>1, <1>6, <2>2 DEF Undone, UnlinkedIsUndone, Holds, OrderIds
    <3> QED BY Zenon, <1>1, <1>7, <1>8, <3>1
  <2> QED BY Zenon, <2>1, <2>2
<1> QED BY Zenon, <1>12, <1>13 DEF Undone

\* The link ties the order to a transaction without one, or turns to undoing it.
LEMMA LinkHolds ==
    ASSUME Undone, NEW c \in Calls, LinkOrder(c)
    PROVE  Undone'
<1> DEFINE r == calls[c]
           s == r.session
<1>0. r.at = "link" /\ UNCHANGED <<orders, orphans>>
  BY Zenon DEF LinkOrder
<1>1. r # IdleCall /\ Holds(r)
  BY <1>0 DEF IdleCall, Holds
<1>2. /\ DOMAIN r = CallKeys /\ s \in Sessions /\ sessions[s] # None /\ s # None
      /\ r.order \in DOMAIN orders /\ orders[r.order].session = s
  BY Zenon, <1>1 DEF Undone, OpenInd, CallStands, Named
<1>3. sessions[s] \in SessionRow
  BY Zenon, <1>2 DEF Undone, OpenInd
<1>4. CASE sessions[s].order # None
  <2> DEFINE k == [r EXCEPT !.at = "undo"]
  <2>1. calls' = [calls EXCEPT ![c] = k] /\ UNCHANGED sessions
    BY Zenon, <1>4 DEF LinkOrder, Become
  <2>2. DOMAIN k = CallKeys /\ k.at = "undo" /\ k.session = s /\ k.order = r.order
    BY <1>2 DEF CallKeys
  <2>3. k # IdleCall
    BY <2>2 DEF IdleCall
  <2> HIDE DEF k
  <2>4. CallStands(k, orders, sessions) /\ Holds(k)
    BY Zenon, <1>2, <2>2, <2>3 DEF CallStands, Holds, Named
  <2> QED BY Zenon, <1>0, <2>1, <2>2, <2>4, CallGoesOn
<1>5. CASE sessions[s].order = None
  <2> DEFINE u == [sessions[s] EXCEPT !.order = r.order]
  <2>1. calls' = [calls EXCEPT ![c] = IdleCall]
    BY Zenon, <1>5 DEF LinkOrder, Forget, Become
  <2>2. sessions' = [sessions EXCEPT ![s] = u]
    BY <1>5 DEF LinkOrder
  <2>3. IsTable(orders)
    BY Zenon DEF Undone, OpenInd
  <2>4. \A y \in DOMAIN orders : y \in Nat
    BY <2>3 DEF IsTable
  <2>5. u \in SessionRow /\ u.order = r.order
    <3>1. r.order \in Nat
      BY Zenon, <1>2, <2>4
    <3> QED BY ONLY <1>3, <3>1 DEF SessionRow
  <2>6. u # None
    BY Zenon, <2>5, NoneIsNull DEF SessionRow
  <2> HIDE DEF u
  <2>7. DOMAIN sessions' = Sessions /\ \A z \in Sessions : sessions'[z] = IF z = s THEN u ELSE sessions[z]
    BY Zenon, <2>2 DEF Undone, OpenInd
  <2>8. DOMAIN calls' = Calls /\ \A d \in Calls : calls'[d] = IF d = c THEN IdleCall ELSE calls[d]
    BY Zenon, <2>1 DEF Undone, OpenInd
  <2>9. \A z : Named(z, sessions) => Named(z, sessions')
    BY Zenon, <2>6, <2>7 DEF Named
  <2>10. \A d \in Calls : CallStands(calls'[d], orders', sessions')
    BY Zenon, <1>0, <2>8, <2>9 DEF Undone, OpenInd, CallStands
  <2>11. OpenInd'
    BY Zenon, <1>0, <2>5, <2>7, <2>8, <2>9, <2>10 DEF Undone, OpenInd, OrderIds
  <2>12. UnlinkedIsUndone'
    <3> SUFFICES ASSUME NEW y \in OrderIds, orders[y].session # None, sessions'[orders[y].session].order # y,
                        orders[y].status = "MATCHED"
                 PROVE  y \in orphans \/ \E d \in Calls : Holds(calls'[d]) /\ calls'[d].order = y
      BY Zenon, <1>0 DEF UnlinkedIsUndone, Holds, OrderIds
    <3>1. y # r.order
      BY Zenon, <1>2, <2>5, <2>7
    <3>2. y # None
      BY Zenon, <2>4, NoneIsNull DEF OrderIds
    <3>3. orders[y].session \in Sessions
      BY Zenon DEF Undone, OpenInd, Named
    <3>4. sessions[orders[y].session].order # y
      BY Zenon, <1>5, <2>7, <3>2, <3>3
    <3>5. y \in orphans \/ \E d \in Calls : Holds(calls[d]) /\ calls[d].order = y
      BY Zenon, <3>4 DEF Undone, UnlinkedIsUndone, Holds
    <3> QED BY Zenon, <2>8, <3>1, <3>5
  <2> QED BY Zenon, <2>11, <2>12 DEF Undone
<1> QED BY Zenon, <1>4, <1>5

\* The undo lets go of an order that is no longer MATCHED.
LEMMA UndoHolds ==
    ASSUME Undone, NEW c \in Calls, UndoOrder(c)
    PROVE  Undone'
<1> DEFINE r == calls[c]
           x == [orders[r.order] EXCEPT !.status = "CANCELLED"]
<1>0. r.at = "undo" /\ calls' = [calls EXCEPT ![c] = IdleCall] /\ UNCHANGED <<sessions, orphans>>
  BY Zenon DEF UndoOrder, Forget, Become
<1>1. r # IdleCall /\ Holds(r)
  BY <1>0 DEF IdleCall, Holds
<1>2. r.order \in DOMAIN orders /\ IsTable(orders) /\ \A y \in DOMAIN orders : DOMAIN orders[y] = OrderKeys
  BY Zenon, <1>1 DEF Undone, OpenInd, CallStands, OrderIds
<1>3. DOMAIN x = OrderKeys /\ x.session = orders[r.order].session /\ x.status = "CANCELLED"
  BY SMTT(30), <1>2 DEF OrderKeys
<1> HIDE DEF x
<1>4. /\ IsTable(orders') /\ DOMAIN orders' = DOMAIN orders
      /\ \A y \in DOMAIN orders :
           /\ DOMAIN orders'[y] = OrderKeys /\ orders'[y].session = orders[y].session
           /\ orders'[y].status = "MATCHED" => orders[y].status = "MATCHED" /\ y # r.order
  <2>1. CASE orders' = [orders EXCEPT ![r.order] = Marked(x)]
    <3>1. DOMAIN Marked(x) = OrderKeys /\ Marked(x).session = x.session /\ Marked(x).status = "CANCELLED"
      BY Zenon, <1>3, MarkedKeeps
    <3>2. Marked(x).status # "MATCHED"
      BY ONLY <3>1
    <3>3. /\ IsTable(orders') /\ DOMAIN orders' = DOMAIN orders
          /\ \A y \in DOMAIN orders : orders'[y] = IF y = r.order THEN Marked(x) ELSE orders[y]
      BY Zenon, <1>2, <2>1, RowReplaced
    <3> QED BY Zenon, <1>2, <1>3, <3>1, <3>2, <3>3
  <2>2. CASE orders' = orders /\ orders[r.order].status # "MATCHED"
    BY Zenon, <1>2, <2>2
  <2> QED BY <1>2, <2>1, <2>2 DEF UndoOrder, SetStatus, x
<1>5. DOMAIN calls' = Calls /\ \A d \in Calls : calls'[d] = IF d = c THEN IdleCall ELSE calls[d]
  BY Zenon, <1>0 DEF Undone, OpenInd
<1>6. \A d \in Calls : CallStands(calls'[d], orders', sessions')
  BY ZenonT(60), <1>0, <1>4, <1>5 DEF Undone, OpenInd, CallStands, Named
<1>7. OpenInd'
  BY Zenon, <1>0, <1>4, <1>5, <1>6 DEF Undone, OpenInd, OrderIds, Named
<1>8. UnlinkedIsUndone'
  <2> SUFFICES ASSUME NEW y \in OrderIds, orders'[y].session # None, sessions[orders'[y].session].order # y,
                      orders'[y].status = "MATCHED"
               PROVE  y \in orphans \/ \E d \in Calls : Holds(calls'[d]) /\ calls'[d].order = y
    BY Zenon, <1>0, <1>4 DEF UnlinkedIsUndone, Holds, OrderIds
  <2>1. orders[y].session # None /\ sessions[orders[y].session].order # y /\ orders[y].status = "MATCHED" /\ y # r.order
    BY Zenon, <1>4 DEF OrderIds
  <2>2. y \in orphans \/ \E d \in Calls : Holds(calls[d]) /\ calls[d].order = y
    BY Zenon, <2>1 DEF Undone, UnlinkedIsUndone, Holds
  <2> QED BY Zenon, <1>5, <2>1, <2>2
<1> QED BY Zenon, <1>7, <1>8 DEF Undone

\* A stop hands the orders its requests held to the orphans.
LEMMA StopHolds ==
    ASSUME Undone, NEW i, InstanceStops(i)
    PROVE  Undone'
<1>1. /\ \A c \in Calls : \/ calls'[c] = calls[c]
                          \/ calls'[c] = IdleCall /\ (Holds(calls[c]) => calls[c].order \in orphans')
      /\ DOMAIN calls' = Calls /\ orphans \subseteq orphans'
      /\ UNCHANGED <<orders, sessions>>
  <2> DEFINE mine == {c \in Calls : calls[c] # IdleCall /\ calls[c].inst = i}
  <2>1. /\ calls' = [c \in Calls |-> IF c \in mine THEN IdleCall ELSE calls[c]]
        /\ orphans' = orphans \cup {calls[c].order : c \in {d \in mine : calls[d].at \in {"link", "undo"}}}
        /\ UNCHANGED <<orders, sessions>>
    BY Zenon DEF InstanceStops
  <2> HIDE DEF mine
  <2> QED BY <2>1 DEF Holds
<1>2. OpenInd'
  BY Zenon, <1>1 DEF Undone, OpenInd, OrderIds, CallStands, Named
<1>3. UnlinkedIsUndone'
  <2> SUFFICES ASSUME NEW y \in OrderIds, orders[y].session # None, sessions[orders[y].session].order # y,
                      orders[y].status = "MATCHED"
               PROVE  y \in orphans' \/ \E d \in Calls : Holds(calls'[d]) /\ calls'[d].order = y
    BY Zenon, <1>1 DEF UnlinkedIsUndone, Holds, OrderIds
  <2>1. y \in orphans \/ \E d \in Calls : Holds(calls[d]) /\ calls[d].order = y
    BY Zenon DEF Undone, UnlinkedIsUndone, Holds
  <2> QED BY Zenon, <1>1, <2>1
<1> QED BY ZenonT(60), <1>2, <1>3 DEF Undone

\* A transaction is opened where there was none, so no order names it.
LEMMA SessionHolds ==
    ASSUME Undone, NEW s \in Sessions, NEW p \in Persons, NEW f \in Flows, OpenInteractive(s, p, f)
    PROVE  Undone'
<1> DEFINE u == [person |-> p, flow |-> f, order |-> None]
<1>1. u \in SessionRow
  BY DEF SessionRow
<1>2. sessions[s] = None /\ sessions' = [sessions EXCEPT ![s] = u] /\ UNCHANGED <<orders, calls, orphans>>
  BY Zenon DEF OpenInteractive
<1>3. u # None
  BY Zenon, <1>1, NoneIsNull DEF SessionRow
<1> HIDE DEF u
<1>4. DOMAIN sessions' = Sessions /\ \A z \in Sessions : sessions'[z] = IF z = s THEN u ELSE sessions[z]
  BY Zenon, <1>2 DEF Undone, OpenInd
<1>5. \A z : Named(z, sessions) => Named(z, sessions')
  BY Zenon, <1>3, <1>4 DEF Named
<1>6. OpenInd'
  BY Zenon, <1>1, <1>2, <1>4, <1>5 DEF Undone, OpenInd, OrderIds, CallStands
<1>7. UnlinkedIsUndone'
  <2>1. \A y \in OrderIds : orders[y].session # None => orders[y].session \in Sessions /\ orders[y].session # s
    BY Zenon, <1>2 DEF Undone, OpenInd, Named
  <2>2. \A y \in OrderIds : orders[y].session # None => sessions'[orders[y].session] = sessions[orders[y].session]
    BY Zenon, <1>4, <2>1
  <2> SUFFICES ASSUME NEW y \in OrderIds, orders[y].session # None, sessions'[orders[y].session].order # y,
                      orders[y].status = "MATCHED"
               PROVE  y \in orphans \/ \E d \in Calls : Holds(calls[d]) /\ calls[d].order = y
    BY ZenonT(60), <1>2 DEF UnlinkedIsUndone, Holds, OrderIds
  <2>3. sessions[orders[y].session].order # y
    BY Zenon, <2>2
  <2> QED BY Zenon, <2>3 DEF Undone, UnlinkedIsUndone, Holds
<1> QED BY ZenonT(60), <1>6, <1>7 DEF Undone

\* Every step of a request, a row or the surroundings keeps it so.
LEMMA OpenStep == Undone /\ [ONext]_oVars => Undone'
<1> SUFFICES ASSUME Undone, [ONext]_oVars PROVE Undone'
  OBVIOUS
<1>c. ASSUME NEW c \in Calls
      PROVE  CallStands(calls[c], orders, sessions)
  BY Zenon DEF Undone, OpenInd
<1>o. ASSUME NEW o \in OrderIds PROVE DOMAIN orders[o] = OrderKeys
  BY Zenon DEF Undone, OpenInd
<1>i. CallStands(IdleCall, orders, sessions) /\ ~Holds(IdleCall) /\ IdleCall.at = "idle"
  BY DEF CallStands, Holds, IdleCall
<1>n. ASSUME NEW i, NEW s, NEW p, NEW q, Named(s, sessions)
      PROVE  CallStands([NewCall("check", i, s, p) EXCEPT !.quote = q], orders, sessions)
  <2> DEFINE k == [NewCall("check", i, s, p) EXCEPT !.quote = q]
  <2>1. DOMAIN k = CallKeys /\ k.session = s /\ k.at = "check"
    BY DEF NewCall, CallKeys
  <2> HIDE DEF k
  <2>2. ~Holds(k)
    BY <2>1 DEF Holds
  <2>3. CallStands(k, orders, sessions)
    BY Zenon, <1>n, <2>1, <2>2 DEF CallStands
  <2> QED BY Zenon, <2>3 DEF k
<1>1. ASSUME NEW c \in Calls, NEW i, NEW q, PostOrder(c, i, q) PROVE Undone'
  <2>1. Named(None, sessions)
    BY Zenon DEF Named
  <2> QED BY Zenon, <1>1, <1>i, <1>n, <2>1, CallGoesOn DEF PostOrder, Become
<1>2. ASSUME NEW c \in Calls, NEW i, NEW s \in Sessions, NEW a, SubmitAmount(c, i, s, a) PROVE Undone'
  <2>1. Named(s, sessions)
    BY Zenon, <1>2 DEF SubmitAmount, Named
  <2> QED BY Zenon, <1>2, <1>i, <1>n, <2>1, CallGoesOn DEF SubmitAmount, Become
<1>3. ASSUME NEW c \in Calls, NEW k, ~Holds(calls[c]), ~Holds(k),
             calls[c] # IdleCall, DOMAIN k = DOMAIN calls[c], k.session = calls[c].session,
             calls' = [calls EXCEPT ![c] = k], UNCHANGED <<orders, sessions, orphans>>
      PROVE  Undone'
  <2>1. CallStands(k, orders, sessions)
    BY Zenon, <1>3, <1>c DEF CallStands
  <2> QED BY Zenon, <1>3, <2>1, CallGoesOn
<1>4. ASSUME NEW c \in Calls, calls[c].at \in {"check", "pick", "commit"},
             calls' = [calls EXCEPT ![c] = IdleCall], UNCHANGED <<orders, sessions, orphans>>
      PROVE  Undone'
  <2>1. ~Holds(calls[c])
    BY <1>4 DEF Holds
  <2> QED BY Zenon, <1>4, <1>i, <2>1, CallGoesOn
<1>5. ASSUME NEW c \in Calls, calls[c].at \in {"check", "pick", "commit"} PROVE calls[c] # IdleCall /\ DOMAIN calls[c] = CallKeys
  <2>1. calls[c] # IdleCall
    BY <1>5, <1>i
  <2> QED BY ZenonT(60), <1>c, <2>1 DEF CallStands
<1>6. ASSUME NEW c \in Calls, CheckQuote(c) PROVE Undone'
  <2> DEFINE l == DailyLimit[getReputation(calls[c].person)]
             k == [calls[c] EXCEPT !.at = "pick", !.limit = l]
  <2>1. calls[c].at = "check" /\ calls' = [calls EXCEPT ![c] = k] /\ UNCHANGED <<orders, sessions, orphans>>
    BY Zenon, <1>6 DEF CheckQuote, Become
  <2>2. calls[c] # IdleCall /\ DOMAIN calls[c] = CallKeys
    BY Zenon, <1>5, <2>1
  <2> HIDE DEF l
  <2>3. DOMAIN k = DOMAIN calls[c] /\ k.session = calls[c].session /\ k.at = "pick"
    BY <2>2 DEF CallKeys
  <2> HIDE DEF k
  <2>4. ~Holds(calls[c]) /\ ~Holds(k)
    BY <2>1, <2>3 DEF Holds
  <2> QED BY Zenon, <1>3, <2>1, <2>2, <2>3, <2>4
<1>7. ASSUME NEW c \in Calls, NEW l \in Lps, PickLp(c, l) PROVE Undone'
  <2> DEFINE k == [calls[c] EXCEPT !.at = "commit", !.lp = l, !.bond = staked[l]]
  <2>1. calls[c].at = "pick" /\ calls' = [calls EXCEPT ![c] = k] /\ UNCHANGED <<orders, sessions, orphans>>
    BY Zenon, <1>7 DEF PickLp, Become
  <2>2. calls[c] # IdleCall /\ DOMAIN calls[c] = CallKeys
    BY Zenon, <1>5, <2>1
  <2>3. DOMAIN k = DOMAIN calls[c] /\ k.session = calls[c].session /\ k.at = "commit"
    BY <2>2 DEF CallKeys
  <2> HIDE DEF k
  <2>4. ~Holds(calls[c]) /\ ~Holds(k)
    BY <2>1, <2>3 DEF Holds
  <2> QED BY Zenon, <1>3, <2>1, <2>2, <2>3, <2>4
<1>8. ASSUME NEW c \in Calls, RefCollides(c) PROVE Undone'
  <2> DEFINE k == [calls[c] EXCEPT !.tries = @ + 1]
  <2>1. /\ calls[c].at = "commit" /\ UNCHANGED <<orders, sessions, orphans>>
        /\ calls' = [calls EXCEPT ![c] = k] \/ calls' = [calls EXCEPT ![c] = IdleCall]
    BY Zenon, <1>8 DEF RefCollides, Become, Forget
  <2>2. calls[c] # IdleCall /\ DOMAIN calls[c] = CallKeys
    BY Zenon, <1>5, <2>1
  <2>3. DOMAIN k = DOMAIN calls[c] /\ k.session = calls[c].session /\ k.at = "commit"
    BY <2>1, <2>2 DEF CallKeys
  <2> HIDE DEF k
  <2>4. ~Holds(calls[c]) /\ ~Holds(k) /\ calls[c].at \in {"check", "pick", "commit"}
    BY <2>1, <2>3 DEF Holds
  <2> QED BY Zenon, <1>3, <1>4, <2>1, <2>2, <2>3, <2>4
<1>9. ASSUME NEW c \in Calls, RefuseCall(c) PROVE Undone'
  BY Zenon, <1>4, <1>9 DEF RefuseCall, Forget, Become
<1>10. ASSUME NEW o \in OrderIds, RowMoves(o) PROVE Undone'
  <2> DEFINE r == orders[o]
  <2>1. PICK x : /\ orders' = [orders EXCEPT ![o] = Marked(x)] /\ DOMAIN x = OrderKeys /\ x.session = r.session
                 /\ x.status = "MATCHED" => r.status = "MATCHED"
    <3>0. DOMAIN r = OrderKeys
      BY Zenon, <1>o
    <3>1. ASSUME NEW st \in DOMAIN STATUS_BEFORE, FollowChain(o, st)
          PROVE  \E x : /\ orders' = [orders EXCEPT ![o] = Marked(x)] /\ DOMAIN x = OrderKeys /\ x.session = r.session
                        /\ x.status # "MATCHED"
      <4> DEFINE x == [r EXCEPT !.status = st, !.tail = TRUE,
                                !.settled = orders[o].settled \/ st \in {"RELEASED", "REFUNDED"}]
      <4>1. orders' = [orders EXCEPT ![o] = Marked(x)]
        BY SMTT(30), <3>1 DEF FollowChain
      <4>2. st # "MATCHED"
        BY DEF STATUS_BEFORE
      <4>3. DOMAIN x = OrderKeys /\ x.session = r.session /\ x.status = st
        BY <3>0 DEF OrderKeys
      <4> HIDE DEF x
      <4> QED BY Zenon, <4>1, <4>2, <4>3
    <3>2. ASSUME CloseUnfunded(o)
          PROVE  \E x : /\ orders' = [orders EXCEPT ![o] = Marked(x)] /\ DOMAIN x = OrderKeys /\ x.session = r.session
                        /\ x.status # "MATCHED"
      <4> DEFINE x == [r EXCEPT !.status = "CANCELLED"]
      <4>1. orders' = [orders EXCEPT ![o] = Marked(x)]
        BY <3>2 DEF CloseUnfunded, SetStatus, OrderIds
      <4>2. DOMAIN x = OrderKeys /\ x.session = r.session /\ x.status # "MATCHED"
        BY <3>0 DEF OrderKeys
      <4> HIDE DEF x
      <4> QED BY Zenon, <4>1, <4>2
    <3>3. ASSUME AgeOrder(o) \/ TailPasses(o)
          PROVE  \E x : /\ orders' = [orders EXCEPT ![o] = Marked(x)] /\ DOMAIN x = OrderKeys /\ x.session = r.session
                        /\ x.status = r.status
      <4> DEFINE x == [r EXCEPT !.recent = FALSE]
                 y == [r EXCEPT !.tail = FALSE]
      <4>1. orders' = [orders EXCEPT ![o] = Marked(x)] \/ orders' = [orders EXCEPT ![o] = Marked(y)]
        BY <3>3 DEF AgeOrder, TailPasses, OrderIds
      <4>2. /\ DOMAIN x = OrderKeys /\ x.session = r.session /\ x.status = r.status
            /\ DOMAIN y = OrderKeys /\ y.session = r.session /\ y.status = r.status
        BY <3>0 DEF OrderKeys
      <4> HIDE DEF x, y
      <4> QED BY Zenon, <4>1, <4>2
    <3> QED BY Zenon, <1>10, <3>1, <3>2, <3>3 DEF RowMoves
  <2>2. UNCHANGED <<sessions, calls, orphans>>
    BY Zenon, <1>10 DEF RowMoves, FollowChain, CloseUnfunded, AgeOrder, TailPasses
  <2> QED BY Zenon, <2>1, <2>2, RowMovesOn
<1>11. ASSUME NEW l \in Lps, NEW ok \in BOOLEAN, SetLpStatus(l, ok) PROVE Undone'
  <2> DEFINE Down(o) == ~ok /\ orders[o].lp = l /\ orders[o].status = "MATCHED"
             x(o) == [orders[o] EXCEPT !.status = "CANCELLED"]
             new == [o \in OrderIds |-> IF Down(o) THEN Marked(x(o)) ELSE orders[o]]
  <2>1. orders' = new /\ UNCHANGED <<sessions, calls, orphans>>
    BY Zenon, <1>11 DEF SetLpStatus
  <2>2. ASSUME NEW o \in OrderIds
        PROVE  DOMAIN Marked(x(o)) = OrderKeys /\ Marked(x(o)).session = orders[o].session /\ Marked(x(o)).status # "MATCHED"
    <3>1. DOMAIN x(o) = OrderKeys /\ x(o).session = orders[o].session /\ x(o).status # "MATCHED"
      BY <1>o DEF OrderKeys
    <3> HIDE DEF x
    <3> QED BY Zenon, <3>1, MarkedKeeps
  <2>3. IsTable(orders) /\ OrderIds = DOMAIN orders
    BY Zenon DEF Undone, OpenInd, OrderIds
  <2> HIDE DEF Down, x
  <2>4. DOMAIN orders' = DOMAIN orders /\ \A o \in OrderIds : orders'[o] = IF Down(o) THEN Marked(x(o)) ELSE orders[o]
    BY Zenon, <2>1, <2>3
  <2>5. IsTable(orders')
    <3>1. PICK n \in Nat : DOMAIN orders = 1 .. n
      BY <2>3 DEF IsTable
    <3>2. orders' = [o \in 1 .. n |-> orders'[o]]
      BY Zenon, <2>1, <2>3, <3>1
    <3> DEFINE S == {orders'[o] : o \in 1 .. n}
    <3>3. \A o \in 1 .. n : orders'[o] \in S
      BY Zenon
    <3> HIDE DEF S
    <3>4. orders' \in Seq(S)
      BY ONLY <3>1, <3>2, <3>3
    <3> QED BY Zenon, <3>4 DEF IsTable
  <2> QED BY Zenon, <1>o, <2>1, <2>2, <2>4, <2>5, RowsMove
<1>12. ASSUME UNCHANGED <<orders, sessions, calls, orphans>> PROVE Undone'
  BY ZenonT(60), <1>12 DEF Undone, OpenInd, UnlinkedIsUndone, OrderIds
<1>13. ASSUME NEW c \in Calls, CallStep(c) PROVE Undone'
  BY Zenon, <1>6, <1>7, <1>8, <1>9, <1>13, CommitHolds, LinkHolds, UndoHolds DEF CallStep
<1>14. ASSUME NEW c \in Calls, NEW i, Begin(c, i) PROVE Undone'
  BY Zenon, <1>1, <1>2, <1>14 DEF Begin
<1>15. CASE \/ \E p \in Persons, f \in Flows, a \in Amounts : CreateQuote(p, f, a)
            \/ \E l \in Lps, v \in Stakes : StakeChanges(l, v)
            \/ \E p \in Persons : IdentityRefused(p) \/ DisputeLost(p)
            \/ UNCHANGED oVars
  BY Zenon, <1>12, <1>15 DEF CreateQuote, StakeChanges, IdentityRefused, DisputeLost, oVars
<1> QED
  BY Zenon, <1>10, <1>11, <1>13, <1>14, <1>15, SessionHolds, StopHolds DEF ONext

\* Whatever presses race for a hosted transaction on whatever instances, and
\* wherever one of them stops, an order that is not the transaction's is not
\* left unfunded and unattended (submitAmount, createFromQuote).
THEOREM UnlinkedIsUndoneHolds == OSpec => []UnlinkedIsUndone
<1>1. Undone => UnlinkedIsUndone
  BY DEF Undone
<1> QED
  BY <1>1, OpenStart, OpenStep, PTL DEF OSpec

=============================================================================
