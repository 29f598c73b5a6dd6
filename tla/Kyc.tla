-------------------------------- MODULE Kyc --------------------------------
(***************************************************************************)
(* Customer verification (SEP-12).  A customer submits details (put), the  *)
(* coordinator opens a session at the verification vendor, the vendor      *)
(* reports on the session by signed deliveries that may be lost, repeated  *)
(* and reordered, and the customer may ask to be forgotten.  One person may*)
(* be a customer under several references.  Transactions under the person's*)
(* advisory lock are one step; what a request read before it waited for the*)
(* vendor is kept in the request.                                          *)
(***************************************************************************)
EXTENDS Integers, Sequences, FiniteSets

CONSTANTS KycRefs, KycCalls, KycInstances,
    PersonOf,            \* the person behind each reference
    Payloads,            \* what the vendor may report: status, screening, document
    SessionBudget,       \* DIDIT_DAILY_SESSION_BUDGET
    MaxSessions, MaxMail, MaxKycMoves \* bounds

ASSUME PayloadsAssumption ==
    Payloads \subseteq [status : {"Approved", "Declined", "Not Started", "In Progress", "Expired"},
                        screening : {"none", "clear", "notRun", "unclear", "hit"}, documentFailed : BOOLEAN]

VARIABLES
    kyc,       \* KycVerification: reference -> <<>> or <<row>>
    active,    \* references whose wallet link is ACTIVE
    email,     \* persons with an e-mail address on file
    opened,    \* sessions at the vendor
    mail,      \* deliveries sent by the vendor; the index is the vendor's clock
    started,   \* per instance: sessions reserved in the last day
    kcalls,    \* requests in flight
    refused,   \* persons against whom a refusal has been recorded
    setup,     \* requireAml and the provider, fixed at start
    kmoves     \* moves of the surroundings so far

kycVars == <<kyc, active, email, opened, mail, started, kcalls, refused, setup, kmoves>>

NoRequest == [at |-> "idle"]

KInit ==
    /\ kyc = [r \in KycRefs |-> <<>>]
    /\ active = KycRefs
    /\ email = {}
    /\ opened = <<>>
    /\ mail = <<>>
    /\ started = [i \in KycInstances |-> 0]
    /\ kcalls = [c \in KycCalls |-> NoRequest]
    /\ refused = {}
    /\ setup \in [requireAml : BOOLEAN, provider : {"didit", "stub"}]
    /\ kmoves = 0

\* Failures, time, link changes, erasures and restarts are counted, up to a bound.
KycMoving == kmoves < MaxKycMoves /\ kmoves' = kmoves + 1

----------------------------------------------------------------------------
(* Reading a row.                                                          *)

Has(r) == kyc[r] # <<>>
Row(r) == kyc[r][1]
HasStatus(r, st) == Has(r) /\ Row(r).status = st

stillInFlight(r) == HasStatus(r, "PROCESSING") /\ Row(r).session # 0 /\ ~Row(r).old

staleAcceptance(r) ==
    /\ HasStatus(r, "ACCEPTED")
    /\ ~Row(r).screened
    /\ IF Row(r).delivered # 0 THEN setup.requireAml ELSE Row(r).verified /\ Row(r).old

needsNewSession(r) == (HasStatus(r, "PROCESSING") /\ ~stillInFlight(r)) \/ staleAcceptance(r)

awaitingProvider(r) ==
    HasStatus(r, "ACCEPTED") /\ IF setup.requireAml THEN ~Row(r).screened ELSE Row(r).delivered = 0

acceptedForFunds(r) ==
    HasStatus(r, "ACCEPTED") /\ IF setup.requireAml THEN Row(r).screened ELSE Row(r).delivered # 0

StandsRefused(p) == \E r \in KycRefs : PersonOf[r] = p /\ HasStatus(r, "REJECTED")

\* The gate every order passes.
identityVerified(p) == (\E r \in KycRefs : PersonOf[r] = p /\ acceptedForFunds(r)) /\ ~StandsRefused(p)

Settled(r) == (HasStatus(r, "ACCEPTED") /\ ~staleAcceptance(r)) \/ stillInFlight(r)

\* Mutant: only the row of the reference itself is consulted.
shownFromOwnRow(r) ==
    CASE ~Has(r) \/ HasStatus(r, "NEEDS_INFO") -> "NEEDS_INFO"
      [] Has(r) /\ ~HasStatus(r, "NEEDS_INFO") ->
           IF needsNewSession(r) THEN "NEEDS_INFO" ELSE IF awaitingProvider(r) THEN "PROCESSING" ELSE Row(r).status

\* GET /customer: the status a customer is shown.  A reference with no row
\* is shown the refusal of its person while its own wallet is active.
shownStatus(r) ==
    CASE ~Has(r) -> IF r \in active /\ StandsRefused(PersonOf[r]) THEN "REJECTED" ELSE "NEEDS_INFO"
      [] Has(r) /\ StandsRefused(PersonOf[r]) -> "REJECTED"
      [] HasStatus(r, "NEEDS_INFO") /\ ~StandsRefused(PersonOf[r]) -> "NEEDS_INFO"
      [] Has(r) /\ ~StandsRefused(PersonOf[r]) /\ ~HasStatus(r, "NEEDS_INFO") ->
           IF needsNewSession(r) THEN "NEEDS_INFO"
           ELSE IF awaitingProvider(r) THEN "PROCESSING" ELSE Row(r).status

----------------------------------------------------------------------------
(* PUT /customer.                                                          *)

BecomeRequest(c, q) == kcalls' = [kcalls EXCEPT ![c] = q]
Request(at, i, r, n) == [at |-> at, inst |-> i, ref |-> r, session |-> n]

\* Another request of the same instance is opening a session for the customer.
opening(i, r) ==
    \E c \in KycCalls : kcalls[c] # NoRequest /\ kcalls[c].at \in {"opening", "commit"}
                        /\ kcalls[c].inst = i /\ kcalls[c].ref = r

overBudget(i) == started[i] >= SessionBudget
GiveBack(i) == started' = [started EXCEPT ![i] = IF @ > 0 THEN @ - 1 ELSE 0]

Upsert(r, row) == kyc' = [kyc EXCEPT ![r] = <<row>>]
FreshRow(st, n) ==
    [status |-> st, session |-> n, old |-> FALSE, delivered |-> 0, screened |-> FALSE, verified |-> st = "ACCEPTED"]

\* The request passes the first checks, saves the address it was given, and
\* either has nothing to do, lacks a field, finds a session being opened,
\* finds the day's budget spent, or reserves a session and waits for the
\* provider.
Put(c, i, r, complete) ==
    /\ kcalls[c] = NoRequest
    /\ r \in active
    /\ ~StandsRefused(PersonOf[r])
    /\ email' = IF complete THEN email \cup {PersonOf[r]} ELSE email
    /\ \/ Settled(r) /\ UNCHANGED <<kcalls, started>>
       \/ /\ ~Settled(r) /\ ~complete
          /\ BecomeRequest(c, Request("incomplete", i, r, 0))
          /\ UNCHANGED started
       \/ /\ ~Settled(r) /\ complete
          /\ opening(i, r)
          /\ UNCHANGED <<kcalls, started>>
       \/ /\ ~Settled(r) /\ complete /\ ~opening(i, r)
          /\ setup.provider = "didit"
          /\ overBudget(i)
          /\ UNCHANGED <<kcalls, started>>
       \/ /\ ~Settled(r) /\ complete /\ ~opening(i, r)
          /\ setup.provider = "didit" => ~overBudget(i)
          /\ started' = IF setup.provider = "didit" THEN [started EXCEPT ![i] = @ + 1] ELSE started
          /\ BecomeRequest(c, Request("opening", i, r, 0))
    /\ UNCHANGED <<kyc, active, opened, mail, refused, setup, kmoves>>

\* recordIncomplete.
RecordIncomplete(c) ==
    LET r == kcalls[c].ref
    IN  /\ kcalls[c].at = "incomplete"
        /\ BecomeRequest(c, NoRequest)
        /\ IF StandsRefused(PersonOf[r]) \/ Settled(r) THEN UNCHANGED kyc
           ELSE Upsert(r, IF Has(r) THEN [Row(r) EXCEPT !.status = "NEEDS_INFO", !.session = 0,
                                                        !.old = FALSE, !.verified = FALSE]
                          ELSE FreshRow("NEEDS_INFO", 0))
        /\ UNCHANGED <<active, email, opened, mail, started, refused, setup, kmoves>>

\* The vendor answers with a session.
SessionOpens(c) ==
    /\ kcalls[c].at = "opening"
    /\ setup.provider = "didit"
    /\ Len(opened) < MaxSessions
    /\ opened' = Append(opened, [ref |-> kcalls[c].ref, inst |-> kcalls[c].inst, counted |-> TRUE])
    /\ BecomeRequest(c, [kcalls[c] EXCEPT !.at = "commit", !.session = Len(opened) + 1])
    /\ UNCHANGED <<kyc, active, email, mail, started, refused, setup, kmoves>>

\* The vendor refuses or the answer is lost; the session may exist all the
\* same.  The reservation is given back.
SessionFails(c, exists) ==
    /\ KycMoving
    /\ kcalls[c].at = "opening"
    /\ setup.provider = "didit"
    /\ IF exists
       THEN /\ Len(opened) < MaxSessions
            /\ opened' = Append(opened, [ref |-> kcalls[c].ref, inst |-> kcalls[c].inst, counted |-> FALSE])
       ELSE UNCHANGED opened
    /\ GiveBack(kcalls[c].inst)
    /\ BecomeRequest(c, NoRequest)
    /\ UNCHANGED <<kyc, active, email, mail, refused, setup>>

\* Mutant: the session is recorded whatever happened while it was opened.
CommitRegardless(c) ==
    /\ kcalls[c].at = "commit"
    /\ Upsert(kcalls[c].ref, FreshRow("PROCESSING", kcalls[c].session))
    /\ BecomeRequest(c, NoRequest)
    /\ UNCHANGED <<active, email, opened, mail, started, refused, setup, kmoves>>

\* The transaction that records the session: it is discarded if the customer
\* was settled, is following another session, or was refused meanwhile.
CommitSession(c) ==
    LET r == kcalls[c].ref
        n == kcalls[c].session
        overtaken == \/ HasStatus(r, "ACCEPTED") /\ ~staleAcceptance(r)
                     \/ stillInFlight(r) /\ Row(r).session # n
    IN  /\ kcalls[c].at = "commit"
        /\ IF overtaken \/ StandsRefused(PersonOf[r]) THEN UNCHANGED kyc
           ELSE Upsert(r, FreshRow("PROCESSING", n))
        /\ BecomeRequest(c, NoRequest)
        /\ UNCHANGED <<active, email, opened, mail, started, refused, setup, kmoves>>

\* The stub decides at once, and commits under the same checks.
StubDecides(c, st) ==
    LET r == kcalls[c].ref
    IN  /\ kcalls[c].at = "opening"
        /\ setup.provider = "stub"
        /\ IF Settled(r) \/ StandsRefused(PersonOf[r]) THEN UNCHANGED <<kyc, refused>>
           ELSE /\ Upsert(r, FreshRow(st, 0))
                /\ refused' = IF st = "REJECTED" THEN refused \cup {PersonOf[r]} ELSE refused
        /\ BecomeRequest(c, NoRequest)
        /\ UNCHANGED <<active, email, opened, mail, started, setup, kmoves>>

----------------------------------------------------------------------------
(* Deliveries.                                                             *)

\* readDiditDecision.  A screening is "none", "clear", "notRun" (only entries
\* that could not be performed), "unclear" or "hit".
readDiditDecision(p) ==
    LET out(st, sc) == [status |-> st, screened |-> sc, notStarted |-> FALSE]
        could == p.screening = "notRun"
    IN  CASE p.status \in {"Approved", "Declined"} /\ p.screening = "hit" -> out("REJECTED", FALSE)
          [] p.status = "Approved" /\ p.screening = "none" -> out("ACCEPTED", FALSE)
          [] p.status = "Approved" /\ p.screening = "clear" -> out("ACCEPTED", TRUE)
          [] p.status = "Approved" /\ p.screening \in {"notRun", "unclear"} -> out("NEEDS_INFO", FALSE)
          [] p.status = "Declined" /\ p.screening = "unclear" -> out("NEEDS_INFO", FALSE)
          [] p.status = "Declined" /\ p.screening \in {"none", "clear", "notRun"} ->
               IF p.documentFailed \/ (could /\ ~setup.requireAml) THEN out("NEEDS_INFO", FALSE)
               ELSE out("REJECTED", FALSE)
          [] p.status = "Not Started" -> [out("PROCESSING", FALSE) EXCEPT !.notStarted = TRUE]
          [] p.status = "In Progress" -> out("PROCESSING", FALSE)
          [] p.status = "Expired" -> out("NEEDS_INFO", FALSE)

VendorReports(n, p) ==
    /\ Len(mail) < MaxMail
    /\ mail' = Append(mail, [session |-> n, payload |-> p])
    /\ UNCHANGED <<kyc, active, email, opened, started, kcalls, refused, setup, kmoves>>

\* applyDelivery's early returns: a refusal is always recorded, anything else
\* only if no refusal stands, if it is about the session the customer follows,
\* and if it is no older than what the row already holds.
Applies(r, n, at, concl) ==
    LET refusing == concl.status = "REJECTED"
    IN  /\ r \in active
        /\ ~HasStatus(r, "REJECTED")
        /\ refusing \/ ~StandsRefused(PersonOf[r])
        /\ refusing \/ ~(Has(r) /\ Row(r).status \in {"ACCEPTED", "PROCESSING"} /\ Row(r).session \notin {0, n})
        /\ refusing \/ ~(Has(r) /\ Row(r).delivered > at)

\* writeDelivery.
Delivered(r, n, at, concl) ==
    [FreshRow(concl.status, n) EXCEPT
        !.delivered = IF ~concl.notStarted THEN at ELSE IF Has(r) THEN Row(r).delivered ELSE 0,
        !.screened = concl.screened]

ApplyDelivery(at) ==
    LET n == mail[at].session
        r == opened[n].ref
        concl == readDiditDecision(mail[at].payload)
    IN  /\ Applies(r, n, at, concl)
        /\ Upsert(r, Delivered(r, n, at, concl))
        /\ refused' = IF concl.status = "REJECTED" THEN refused \cup {PersonOf[r]} ELSE refused
        /\ UNCHANGED <<active, email, opened, mail, started, kcalls, setup, kmoves>>

----------------------------------------------------------------------------
(* DELETE /customer: rows that are not refusals go at once, outside the    *)
(* person's lock; the address and the details of a refusal go under it.    *)

ForgetRows(c, i, r) ==
    LET scope == IF r \in active THEN {s \in KycRefs : PersonOf[s] = PersonOf[r]} ELSE {r}
    IN  /\ KycMoving
        /\ kcalls[c] = NoRequest
        /\ kyc' = [s \in KycRefs |-> IF s \in scope /\ ~HasStatus(s, "REJECTED") THEN <<>> ELSE kyc[s]]
        /\ IF r \in active THEN BecomeRequest(c, Request("redact", i, r, 0)) ELSE UNCHANGED kcalls
        /\ UNCHANGED <<active, email, opened, mail, started, refused, setup>>

Redact(c) ==
    LET p == PersonOf[kcalls[c].ref]
    IN  /\ kcalls[c].at = "redact"
        /\ email' = email \ {p}
        /\ kyc' = [s \in KycRefs |->
                     IF PersonOf[s] = p /\ HasStatus(s, "REJECTED")
                     THEN <<[Row(s) EXCEPT !.session = 0, !.screened = FALSE, !.verified = FALSE, !.old = FALSE]>>
                     ELSE kyc[s]]
        /\ BecomeRequest(c, NoRequest)
        /\ UNCHANGED <<active, opened, mail, started, refused, setup, kmoves>>

----------------------------------------------------------------------------
(* The surroundings.                                                       *)

\* revokeWallet and linkWallet on the wallet behind the reference.
LinkChanges(r) ==
    /\ KycMoving
    /\ active' = IF r \in active THEN active \ {r} ELSE active \cup {r}
    /\ active' # {}
    /\ UNCHANGED <<kyc, email, opened, mail, started, kcalls, refused, setup>>

\* A day passes since the row was last written.
RowAges(r) ==
    /\ KycMoving
    /\ Has(r) /\ ~Row(r).old
    /\ kyc' = [kyc EXCEPT ![r] = <<[Row(r) EXCEPT !.old = TRUE]>>]
    /\ UNCHANGED <<active, email, opened, mail, started, kcalls, refused, setup>>

\* A day passes since a session was reserved.
SessionAges(n) ==
    /\ KycMoving
    /\ opened[n].counted
    /\ opened' = [opened EXCEPT ![n] = [@ EXCEPT !.counted = FALSE]]
    /\ GiveBack(opened[n].inst)
    /\ UNCHANGED <<kyc, active, email, mail, kcalls, refused, setup>>

\* An instance restarts: its requests and its count of the day are gone.
Restarts(i) ==
    /\ KycMoving
    /\ \E c \in KycCalls : kcalls[c] # NoRequest /\ kcalls[c].inst = i
    /\ kcalls' = [c \in DOMAIN kcalls |-> IF kcalls[c] # NoRequest /\ kcalls[c].inst = i THEN NoRequest ELSE kcalls[c]]
    /\ started' = [started EXCEPT ![i] = 0]
    /\ opened' = [n \in DOMAIN opened |-> IF opened[n].inst = i THEN [opened[n] EXCEPT !.counted = FALSE] ELSE opened[n]]
    /\ UNCHANGED <<kyc, active, email, mail, refused, setup>>

KNext ==
    \/ \E c \in KycCalls :
         \/ \E i \in KycInstances, r \in KycRefs :
              (\E complete \in BOOLEAN : Put(c, i, r, complete)) \/ ForgetRows(c, i, r)
         \/ RecordIncomplete(c) \/ SessionOpens(c) \/ CommitSession(c) \/ Redact(c)
         \/ \E exists \in BOOLEAN : SessionFails(c, exists)
         \/ \E st \in {"ACCEPTED", "REJECTED"} : StubDecides(c, st)
    \/ \E n \in DOMAIN opened : SessionAges(n) \/ \E p \in Payloads : VendorReports(n, p)
    \/ \E at \in DOMAIN mail : ApplyDelivery(at)
    \/ \E r \in KycRefs : LinkChanges(r) \/ RowAges(r)
    \/ \E i \in KycInstances : Restarts(i)

KSpec == KInit /\ [][KNext]_kycVars

----------------------------------------------------------------------------
(* Properties.                                                             *)

\* The gate is passed by nobody who was ever refused, under any of their
\* references, whatever they submit, ask to be forgotten, or the vendor reports
\* afterwards; and a row that opens it carries the vendor's approval of the very
\* session on the row, with the screening that is required (put, applyDelivery,
\* forget).
FundsNeedApproval ==
    /\ \A p \in refused : ~identityVerified(p)
    /\ \A r \in KycRefs : acceptedForFunds(r) =>
        /\ Row(r).delivered \in DOMAIN mail
        /\ mail[Row(r).delivered].session = Row(r).session
        /\ opened[Row(r).session].ref = r
        /\ mail[Row(r).delivered].payload.status = "Approved"
        /\ mail[Row(r).delivered].payload.screening \in IF setup.requireAml THEN {"clear"} ELSE {"none", "clear"}

\* Deliveries that arrive out of order never take a row back: the vendor's
\* clock on a row goes back only when a refusal is written, or to nothing when
\* a session is recorded.
DeliveriesGoForward ==
    [][\A r \in KycRefs : (Has(r) /\ kyc'[r] # <<>> /\ kyc'[r][1].delivered < Row(r).delivered) =>
           kyc'[r][1].status = "REJECTED" \/ kyc'[r][1].delivered = 0]_kycVars

\* What GET /customer advises is true: ACCEPTED means that an order passes the
\* gate, NEEDS_INFO that submitting again is not silently ignored, REJECTED
\* that submitting again is refused.
AdviceIsTrue ==
    \A r \in active :
        /\ shownStatus(r) = "ACCEPTED" => identityVerified(PersonOf[r])
        /\ shownStatus(r) = "NEEDS_INFO" => ~Settled(r) /\ ~StandsRefused(PersonOf[r])
        /\ shownStatus(r) = "REJECTED" => StandsRefused(PersonOf[r])

=============================================================================
