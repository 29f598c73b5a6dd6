--------------------------- MODULE OperatorProofs ---------------------------
(***************************************************************************)
(* Proofs about what operators and providers do by hand: the attestation   *)
(* of a deposit's payment, for any number of orders, requests, statements  *)
(* and mishaps, and the edits of the configuration row, for any operators, *)
(* fields, values and number of edits.                                     *)
(***************************************************************************)
EXTENDS Attest, Settings, SequenceTheorems, TLAPS

-----------------------------------------------------------------------------
(* The attestation of a payment *)

Stages == {"FUNDED", "FIAT_PAID", "REFUNDED"}
CallType ==
    [at : {"idle", "asked", "read", "queued", "sent", "answered"}, order : AttOrders \cup {"none"},
     by : {"none", "operator", "provider"}, moment : Moments \cup {0}, tx : Nat,
     outcome : {"none", "SUCCESS", "FAILED", "NOT_SENT", "UNANSWERED", "GAVE_UP"}]

TxType == [order : AttOrders, net : {"pending", "applied", "failed"}]

RowsTyped ==
    /\ attRow \in [AttOrders -> Stages] /\ onChain \in [AttOrders -> Stages]
    /\ txs \in Seq(TxType)
    /\ turn \in Seq(AttCalls)

CallsTyped ==
    /\ call \in [AttCalls -> CallType]
    /\ \A c \in AttCalls : call[c].at # "idle" => call[c].order \in AttOrders

\* Who is submitting is at the head of the queue.
SenderIsFirst ==
    \A c \in AttCalls : call[c].at = "sent" => turn # <<>> /\ Head(turn) = c

\* A transaction number is taken when the request submits, and is of its order.
TxOfCall ==
    \A c \in AttCalls :
        /\ call[c].at \in {"idle", "asked", "read", "queued"} => call[c].tx = 0 /\ call[c].outcome = "none"
        /\ call[c].at = "sent" => /\ call[c].tx \in 1 .. Len(txs)
                                  /\ txs[call[c].tx].order = call[c].order
                                  /\ call[c].outcome = "none"
        /\ call[c].outcome = "SUCCESS" => /\ call[c].tx \in 1 .. Len(txs)
                                          /\ txs[call[c].tx].order = call[c].order
                                          /\ txs[call[c].tx].net = "applied"
        /\ call[c].outcome = "UNANSWERED" => call[c].tx \in 1 .. Len(txs) /\ txs[call[c].tx].order = call[c].order

\* A statement in use is spent, and is in one place.
StatementInOnePlace ==
    /\ \A e \in log : e.by = "provider" => Statement(e.order, e.moment) \in spent
    /\ \A c \in AttCalls : call[c].by = "provider" => Statement(call[c].order, call[c].moment) \in spent
    /\ \A c, d \in AttCalls : call[c].by = "provider" /\ call[d].by = "provider"
          /\ Statement(call[c].order, call[c].moment) = Statement(call[d].order, call[d].moment) => c = d
    /\ \A e \in log, c \in AttCalls : e.by = "provider" /\ call[c].by = "provider"
          => Statement(e.order, e.moment) # Statement(call[c].order, call[c].moment)

AppliedIsPaid ==
    \A t \in 1 .. Len(txs) : txs[t].net = "applied" => onChain[txs[t].order] = "FIAT_PAID"

AttestInd ==
    /\ RowsTyped /\ CallsTyped /\ SenderIsFirst /\ TxOfCall
    /\ StatementInOnePlace /\ StatementActsOnce
    /\ AppliedIsPaid /\ PaidRowIsPaidOnChain /\ AttestationIsRecorded

-----------------------------------------------------------------------------

\* Before any request the log, the chain and the queue are empty.
LEMMA AttestStart == AttestInit => AttestInd
  BY DEF AttestInit, AttestInd, RowsTyped, CallsTyped, SenderIsFirst, TxOfCall, StatementInOnePlace, StatementActsOnce,
         AppliedIsPaid, PaidRowIsPaidOnChain, AttestationIsRecorded, NoCall, CallType, Stages

-----------------------------------------------------------------------------
(* Types.                                                                  *)

\* What each update of a request makes of it (whileAttesting, attestOnce).
LEMMA CallSteps ==
    ASSUME CallsTyped, NEW c \in AttCalls
    PROVE  /\ Leave(c) => CallsTyped'
           /\ \A s \in {"read", "queued"} : call[c].at # "idle" /\ At(c, s) => CallsTyped'
           /\ \A what \in {"SUCCESS", "FAILED", "NOT_SENT", "UNANSWERED", "GAVE_UP"} :
                call[c].at # "idle" /\ AnswerIs(c, what) => CallsTyped'
<1>1. Leave(c) => CallsTyped'
  BY DEF CallsTyped, CallType, NoCall, Leave
<1>2. ASSUME NEW s \in {"read", "queued"}, call[c].at # "idle", At(c, s) PROVE CallsTyped'
  BY <1>2 DEF CallsTyped, CallType, At
<1>3. ASSUME NEW what \in {"SUCCESS", "FAILED", "NOT_SENT", "UNANSWERED", "GAVE_UP"}, call[c].at # "idle", AnswerIs(c, what)
      PROVE  CallsTyped'
  <2> DEFINE r == [call[c] EXCEPT !.at = "answered", !.outcome = what]
  <2>1. r \in CallType /\ r.order = call[c].order
    BY ZenonT(60) DEF CallsTyped, CallType
  <2>2. call' = [call EXCEPT ![c] = r]
    BY <1>3 DEF AnswerIs
  <2> QED
    BY <1>3, <2>1, <2>2 DEF CallsTyped
<1> QED
  BY <1>1, <1>2, <1>3

\* Every step keeps the type of the requests.
LEMMA CallsStep == RowsTyped /\ CallsTyped /\ [AttestNext]_attestVars => CallsTyped'
<1> SUFFICES ASSUME RowsTyped, CallsTyped, [AttestNext]_attestVars PROVE CallsTyped'
  OBVIOUS
<1>1. CASE UNCHANGED <<call>>
  BY <1>1 DEF CallsTyped
<1>2. ASSUME NEW c \in AttCalls, NEW o \in AttOrders, OperatorAsks(c, o) PROVE CallsTyped'
  BY Zenon, <1>2 DEF OperatorAsks, CallsTyped, CallType, NoCall
<1>3. ASSUME NEW c \in AttCalls, NEW o \in AttOrders, NEW m \in Moments, ProviderAsks(c, o, m) PROVE CallsTyped'
  <2>1. CASE o \in attesting
    BY <1>1, <1>3, <2>1 DEF ProviderAsks
  <2>2. CASE o \notin attesting
    <3> DEFINE r == [NoCall EXCEPT !.at = "asked", !.order = o, !.by = "provider", !.moment = m]
    <3>1. r \in CallType /\ r.order = o
      BY Zenon DEF CallType, NoCall
    <3>2. call' = [call EXCEPT ![c] = r]
      BY <1>3, <2>2 DEF ProviderAsks
    <3> QED
      BY <3>1, <3>2 DEF CallsTyped
  <2> QED
    BY <2>1, <2>2
<1>4. ASSUME NEW c \in AttCalls, ConfirmOnChain(c) PROVE CallsTyped'
  BY <1>4, CallSteps DEF ConfirmOnChain
<1>5. ASSUME NEW c \in AttCalls, AttestOnce(c) PROVE CallsTyped'
  BY <1>5, CallSteps DEF AttestOnce
<1>6. ASSUME NEW c \in AttCalls, Submit(c) PROVE CallsTyped'
  <2>1. Len(txs) + 1 \in Nat
    BY DEF RowsTyped
  <2> QED
    <3> DEFINE r == [call[c] EXCEPT !.at = "sent", !.tx = Len(txs) + 1]
    <3>1. r \in CallType /\ r.order = call[c].order
      BY ZenonT(60), <2>1 DEF CallsTyped, CallType
    <3>2. call' = [call EXCEPT ![c] = r] /\ call[c].at = "queued"
      BY <1>6 DEF Submit
    <3> QED
      BY <3>1, <3>2 DEF CallsTyped
<1>7. ASSUME NEW c \in AttCalls, NotSent(c) \/ Polled(c) PROVE CallsTyped'
  BY <1>7, CallSteps DEF NotSent, Polled
<1>8. ASSUME NEW c \in AttCalls, Conclude(c) PROVE CallsTyped'
  BY <1>8, CallSteps DEF Conclude
<1>9. CASE Restart
  BY <1>9 DEF Restart, CallsTyped, CallType, NoCall
<1>10. CASE \/ \E t \in DOMAIN txs : Apply(t)
            \/ \E o \in AttOrders : RowFollows(o) \/ Refunded(o)
            \/ UNCHANGED attestVars
  BY <1>1, <1>10 DEF Apply, RowFollows, Refunded, attestVars
<1> QED
  BY <1>2, <1>3, <1>4, <1>5, <1>6, <1>7, <1>8, <1>9, <1>10 DEF AttestNext

\* Every step keeps the type of the rows, the network and the queue.
LEMMA RowsStep == RowsTyped /\ CallsTyped /\ SenderIsFirst /\ [AttestNext]_attestVars => RowsTyped'
<1> SUFFICES ASSUME RowsTyped, CallsTyped, SenderIsFirst, [AttestNext]_attestVars PROVE RowsTyped'
  OBVIOUS
<1>1. CASE UNCHANGED <<attRow, onChain, txs, turn>>
  BY <1>1 DEF RowsTyped
<1>2. ASSUME NEW c \in AttCalls, AttestOnce(c) PROVE RowsTyped'
  <2>1. UNCHANGED <<attRow, onChain, txs>> /\ turn' \in {turn, Append(turn, c)}
    BY <1>2 DEF AttestOnce
  <2> QED
    BY <2>1 DEF RowsTyped
<1>3. ASSUME NEW c \in AttCalls, Submit(c) PROVE RowsTyped'
  BY <1>3 DEF Submit, RowsTyped, CallsTyped, TxType
<1>4. ASSUME NEW c \in AttCalls, NotSent(c) \/ Polled(c) PROVE RowsTyped'
  <2>1. turn # <<>> /\ turn' = Tail(turn)
    BY <1>4 DEF NotSent, Polled, MyTurn, AnswerIs, SenderIsFirst
  <2>2. UNCHANGED <<attRow, onChain, txs>>
    BY <1>4 DEF NotSent, Polled
  <2> QED
    BY <2>1, <2>2 DEF RowsTyped
<1>5. ASSUME NEW c \in AttCalls, Conclude(c) PROVE RowsTyped'
  BY Zenon, <1>5 DEF Conclude, RowsTyped, Stages
<1>6. ASSUME NEW t \in DOMAIN txs, Apply(t) PROVE RowsTyped'
  <2>1. txs[t] \in TxType
    BY DEF RowsTyped
  <2>2. \A n \in {"applied", "failed"} :
          [txs EXCEPT ![t].net = n] \in Seq(TxType)
    BY <2>1 DEF RowsTyped, TxType
  <2>3. txs' \in Seq(TxType)
    BY Zenon, <1>6, <2>2 DEF Apply
  <2>4. onChain' \in [AttOrders -> Stages]
    <3>1. onChain' = onChain \/ onChain' = [onChain EXCEPT ![txs[t].order] = "FIAT_PAID"]
      BY <1>6 DEF Apply
    <3> QED
      BY <3>1 DEF RowsTyped, Stages
  <2> QED
    BY <1>6, <2>3, <2>4 DEF Apply, RowsTyped
<1>7. ASSUME NEW o \in AttOrders, RowFollows(o) \/ Refunded(o) PROVE RowsTyped'
  BY SMTT(30), <1>7 DEF RowFollows, Refunded, RowsTyped, Stages
<1>8. CASE Restart
  BY <1>8 DEF Restart, RowsTyped
<1>9. ASSUME NEW c \in AttCalls,
             \/ \E o \in AttOrders : OperatorAsks(c, o) \/ \E m \in Moments : ProviderAsks(c, o, m)
             \/ ConfirmOnChain(c)
      PROVE  RowsTyped'
  BY Zenon, <1>1, <1>9 DEF OperatorAsks, ProviderAsks, ConfirmOnChain
<1> QED
  BY <1>1, <1>2, <1>3, <1>4, <1>5, <1>6, <1>7, <1>8, <1>9 DEF AttestNext, attestVars

-----------------------------------------------------------------------------
(* The queue and the transactions.                                         *)

\* One submission is under way at a time: who is sent stays at the head of the
\* queue until it is answered (lastSubmission).
LEMMA TurnStep ==
    RowsTyped /\ CallsTyped /\ SenderIsFirst /\ [AttestNext]_attestVars => SenderIsFirst'
<1> SUFFICES ASSUME RowsTyped, CallsTyped, SenderIsFirst, [AttestNext]_attestVars,
                    NEW d \in AttCalls, call'[d].at = "sent"
             PROVE  turn' # <<>> /\ Head(turn') = d
  BY DEF SenderIsFirst
<1>1. CASE UNCHANGED <<call, turn>>
  BY <1>1 DEF SenderIsFirst
<1>2. ASSUME NEW c \in AttCalls, Leave(c), UNCHANGED turn PROVE turn' # <<>> /\ Head(turn') = d
  BY <1>2 DEF Leave, NoCall, CallsTyped, SenderIsFirst
<1>3. ASSUME NEW c \in AttCalls, NEW o \in AttOrders, OperatorAsks(c, o) \/ \E m \in Moments : ProviderAsks(c, o, m)
      PROVE  turn' # <<>> /\ Head(turn') = d
  <2>1. UNCHANGED turn /\ (call'[d] = call[d] \/ call'[d].at \in {"read", "asked"})
    <3>1. \/ UNCHANGED call
          \/ call' = [call EXCEPT ![c] = [NoCall EXCEPT !.at = "read", !.order = o, !.by = "operator"]]
          \/ \E m : call' = [call EXCEPT ![c] =
                        [NoCall EXCEPT !.at = "asked", !.order = o, !.by = "provider", !.moment = m]]
      BY Zenon, <1>3 DEF OperatorAsks, ProviderAsks
    <3>2. UNCHANGED turn
      BY Zenon, <1>3 DEF OperatorAsks, ProviderAsks
    <3> QED
      BY Zenon, <3>1, <3>2 DEF CallsTyped, NoCall
  <2> QED
    BY <2>1 DEF SenderIsFirst
<1>4. ASSUME NEW c \in AttCalls, ConfirmOnChain(c) PROVE turn' # <<>> /\ Head(turn') = d
  <2>1. CASE At(c, "read") /\ UNCHANGED turn
    BY <2>1 DEF At, CallsTyped, CallType, SenderIsFirst
  <2> QED
    BY <1>2, <1>4, <2>1 DEF ConfirmOnChain
<1>5. ASSUME NEW c \in AttCalls, AttestOnce(c) PROVE turn' # <<>> /\ Head(turn') = d
  <2>1. CASE Leave(c) /\ UNCHANGED turn
    BY <1>2, <2>1
  <2>2. CASE At(c, "queued") /\ turn' = Append(turn, c)
    <3>1. call[d].at = "sent"
      BY <2>2 DEF At, CallsTyped
    <3>2. turn # <<>> /\ Head(turn) = d
      BY <3>1 DEF SenderIsFirst
    <3> QED
      BY <2>2, <3>2 DEF RowsTyped
  <2> QED
    BY <1>5, <2>1, <2>2 DEF AttestOnce
<1>6. ASSUME NEW c \in AttCalls, Submit(c) PROVE turn' # <<>> /\ Head(turn') = d
  BY <1>6 DEF Submit, MyTurn, CallsTyped, SenderIsFirst
<1>7. ASSUME NEW c \in AttCalls, NotSent(c) \/ Polled(c) PROVE turn' # <<>> /\ Head(turn') = d
  <2>1. turn # <<>> /\ Head(turn) = c /\ (call[d].at = "sent" => d = c)
    BY <1>7 DEF NotSent, Polled, MyTurn, SenderIsFirst
  <2>2. PICK what : AnswerIs(c, what)
    BY <1>7 DEF NotSent, Polled
  <2>3. d # c /\ call'[d] = call[d]
    BY <2>2 DEF AnswerIs, CallsTyped, CallType
  <2> QED
    BY <2>1, <2>3
<1>8. ASSUME NEW c \in AttCalls, Conclude(c) PROVE turn' # <<>> /\ Head(turn') = d
  BY <1>2, <1>8 DEF Conclude
<1>9. CASE Restart
  BY <1>9 DEF Restart, NoCall
<1>10. CASE \/ \E t \in DOMAIN txs : Apply(t)
            \/ \E o \in AttOrders : RowFollows(o) \/ Refunded(o)
            \/ UNCHANGED attestVars
  BY <1>1, <1>10 DEF Apply, RowFollows, Refunded, attestVars
<1> QED
  BY <1>3, <1>4, <1>5, <1>6, <1>7, <1>8, <1>9, <1>10 DEF AttestNext

\* A transaction that was sent keeps its number, its order and, once the network
\* has decided, what became of it.
LEMMA NetworkStep ==
    ASSUME RowsTyped, CallsTyped, [AttestNext]_attestVars
    PROVE  /\ Len(txs') >= Len(txs)
           /\ \A t \in 1 .. Len(txs) : /\ txs'[t].order = txs[t].order
                                       /\ txs[t].net = "applied" => txs'[t].net = "applied"
<1> DEFINE Goal == /\ Len(txs') >= Len(txs)
                   /\ \A t \in 1 .. Len(txs) : /\ txs'[t].order = txs[t].order
                                               /\ txs[t].net = "applied" => txs'[t].net = "applied"
<1>1. CASE UNCHANGED txs
  BY <1>1 DEF RowsTyped
<1>2. ASSUME NEW c \in AttCalls, Submit(c) PROVE Goal
  BY <1>2 DEF Submit, RowsTyped
<1>3. ASSUME NEW t \in DOMAIN txs, Apply(t) PROVE Goal
  <2>1. PICK n : txs' = [txs EXCEPT ![t].net = n] /\ txs[t].net = "pending"
    BY <1>3 DEF Apply
  <2>2. \A u \in 1 .. Len(txs) : txs[u] \in TxType
    BY DEF RowsTyped
  <2>3. Len(txs') = Len(txs) /\ DOMAIN txs = 1 .. Len(txs)
    BY <2>1 DEF RowsTyped
  <2> QED
    BY <2>1, <2>2, <2>3 DEF TxType, RowsTyped
<1> QED
  BY Zenon, <1>1, <1>2, <1>3 DEF AttestNext, OperatorAsks, ProviderAsks, ConfirmOnChain, AttestOnce, NotSent, Polled,
                          Conclude, RowFollows, Refunded, Restart, attestVars

\* A request has a transaction from its submission on, and reports a success
\* only of one that was applied (submitAndPoll).
LEMMA TxStep ==
    RowsTyped /\ CallsTyped /\ TxOfCall /\ [AttestNext]_attestVars => TxOfCall'
<1> SUFFICES ASSUME RowsTyped, CallsTyped, TxOfCall, [AttestNext]_attestVars PROVE TxOfCall'
  OBVIOUS
<1> DEFINE Fits(r, s) ==
        /\ r.at \in {"idle", "asked", "read", "queued"} => r.tx = 0 /\ r.outcome = "none"
        /\ r.at = "sent" => r.tx \in 1 .. Len(s) /\ s[r.tx].order = r.order /\ r.outcome = "none"
        /\ r.outcome = "SUCCESS" => /\ r.tx \in 1 .. Len(s)
                                    /\ s[r.tx].order = r.order
                                    /\ s[r.tx].net = "applied"
        /\ r.outcome = "UNANSWERED" => r.tx \in 1 .. Len(s) /\ s[r.tx].order = r.order
<1>0. \A c \in AttCalls : Fits(call[c], txs) /\ Fits(call[c], txs')
  BY NetworkStep DEF TxOfCall, RowsTyped
<1>1. ASSUME \A c \in AttCalls : Fits(call'[c], txs') PROVE TxOfCall'
  BY <1>1 DEF TxOfCall
<1> HIDE DEF Fits
<1>2. CASE UNCHANGED call
  BY <1>0, <1>1, <1>2
<1>3. ASSUME NEW c \in AttCalls, NEW r, call' = [call EXCEPT ![c] = r], Fits(r, txs') PROVE TxOfCall'
  BY <1>0, <1>1, <1>3 DEF CallsTyped
<1>4. ASSUME NEW c \in AttCalls, Leave(c) PROVE TxOfCall'
  <2>1. Fits(NoCall, txs')
    BY DEF NoCall, Fits
  <2> QED
    BY Zenon, <1>3, <1>4, <2>1 DEF Leave
<1>5. ASSUME NEW c \in AttCalls, NEW o \in AttOrders, OperatorAsks(c, o) PROVE TxOfCall'
  <2>1. Fits([NoCall EXCEPT !.at = "read", !.order = o, !.by = "operator"], txs')
    BY DEF NoCall, Fits
  <2> QED
    BY Zenon, <1>3, <1>5, <2>1 DEF OperatorAsks
<1>6. ASSUME NEW c \in AttCalls, NEW o \in AttOrders, NEW m \in Moments, ProviderAsks(c, o, m) PROVE TxOfCall'
  <2>1. Fits([NoCall EXCEPT !.at = "asked", !.order = o, !.by = "provider", !.moment = m], txs')
    BY DEF NoCall, Fits
  <2> QED
    BY <1>2, <1>3, <1>6, <2>1 DEF ProviderAsks
<1>7. ASSUME NEW c \in AttCalls, NEW s \in {"read", "queued"}, call[c].at \in {"asked", "read"}, At(c, s) PROVE TxOfCall'
  <2>1. call' = [call EXCEPT ![c] = [call[c] EXCEPT !.at = s]]
    BY <1>7 DEF At, CallsTyped
  <2>2. Fits([call[c] EXCEPT !.at = s], txs')
    BY <1>0, <1>7 DEF CallsTyped, CallType, Fits
  <2> QED
    BY Zenon, <1>3, <2>1, <2>2
<1>8. ASSUME NEW c \in AttCalls, ConfirmOnChain(c) \/ AttestOnce(c) \/ Conclude(c) PROVE TxOfCall'
  BY Zenon, <1>4, <1>7, <1>8 DEF ConfirmOnChain, AttestOnce, Conclude
<1>9. ASSUME NEW c \in AttCalls, Submit(c) PROVE TxOfCall'
  <2> DEFINE r == [call[c] EXCEPT !.at = "sent", !.tx = Len(txs) + 1]
  <2>1. call' = [call EXCEPT ![c] = r] /\ txs' = Append(txs, [order |-> call[c].order, net |-> "pending"])
    BY <1>9 DEF Submit
  <2>2. r.at = "sent" /\ r.tx = Len(txs) + 1 /\ r.order = call[c].order /\ r.outcome = "none"
    BY <1>0, <1>9 DEF CallsTyped, CallType, Fits, Submit
  <2>3. Fits(r, txs')
    BY <2>1, <2>2 DEF Fits, RowsTyped
  <2> QED
    BY Zenon, <1>3, <2>1, <2>3
<1>10. ASSUME NEW c \in AttCalls, NotSent(c) \/ Polled(c) PROVE TxOfCall'
  <2>1. PICK what : /\ AnswerIs(c, what) /\ UNCHANGED txs /\ call[c].at \in {"queued", "sent"}
                    /\ what = "SUCCESS" => call[c].at = "sent" /\ txs[call[c].tx].net = "applied"
                    /\ what = "UNANSWERED" => call[c].at = "sent"
    BY <1>10 DEF NotSent, Polled
  <2> DEFINE r == [call[c] EXCEPT !.at = "answered", !.outcome = what]
  <2>2. r.at = "answered" /\ r.outcome = what /\ r.tx = call[c].tx /\ r.order = call[c].order
    BY DEF CallsTyped, CallType
  <2>3. Fits(r, txs')
    BY <1>0, <2>1, <2>2 DEF Fits
  <2> QED
    BY Zenon, <1>3, <2>1, <2>3 DEF AnswerIs
<1>11. CASE Restart
  <2>1. Fits(NoCall, txs')
    BY DEF NoCall, Fits
  <2> QED
    BY <1>1, <1>11, <2>1 DEF Restart
<1>12. CASE \/ \E t \in DOMAIN txs : Apply(t)
            \/ \E o \in AttOrders : RowFollows(o) \/ Refunded(o)
            \/ UNCHANGED attestVars
  BY <1>2, <1>12 DEF Apply, RowFollows, Refunded, attestVars
<1> QED
  BY <1>5, <1>6, <1>8, <1>9, <1>10, <1>11, <1>12 DEF AttestNext

-----------------------------------------------------------------------------
(* Statements.                                                             *)

\* A statement is spent before its request exists, moves from the request to the
\* log when the request ends, and is never spent again (verifyAndConsume).
LEMMA StatementStep ==
    /\ CallsTyped /\ StatementInOnePlace /\ StatementActsOnce /\ [AttestNext]_attestVars
    => StatementInOnePlace' /\ StatementActsOnce'
<1> SUFFICES ASSUME CallsTyped, StatementInOnePlace, StatementActsOnce, [AttestNext]_attestVars
             PROVE  StatementInOnePlace' /\ StatementActsOnce'
  OBVIOUS
<1> DEFINE Goal == StatementInOnePlace' /\ StatementActsOnce'
           Same(r, c) == r.by = call[c].by /\ r.order = call[c].order /\ r.moment = call[c].moment
<1> USE DEF Statement
<1>1. ASSUME NEW c \in AttCalls, NEW r, call' = [call EXCEPT ![c] = r], r.by # "provider" \/ Same(r, c),
             UNCHANGED <<log, spent>>
      PROVE  Goal
  BY <1>1 DEF StatementInOnePlace, StatementActsOnce, CallsTyped
<1>2. ASSUME NEW c \in AttCalls, Leave(c), UNCHANGED <<log, spent>> PROVE Goal
  BY ZenonT(60), <1>1, <1>2 DEF Leave, NoCall
<1>3. ASSUME NEW c \in AttCalls, NEW what, Leave(c), log' = log \cup {Entry(c, what)}, UNCHANGED spent PROVE Goal
  <2>1. call' = [call EXCEPT ![c] = NoCall] /\ NoCall.by # "provider"
    BY <1>3 DEF Leave, NoCall
  <2> DEFINE e == Entry(c, what)
  <2>2. e.by = call[c].by /\ e.order = call[c].order /\ e.moment = call[c].moment
    BY DEF Entry
  <2> HIDE DEF e
  <2>3. log' = log \cup {e}
    BY <1>3 DEF e
  <2> QED
    BY <1>3, <2>1, <2>2, <2>3 DEF StatementInOnePlace, StatementActsOnce, CallsTyped
<1>4. ASSUME NEW c \in AttCalls, NEW s, At(c, s), UNCHANGED <<log, spent>> PROVE Goal
  <2> DEFINE r == [call[c] EXCEPT !.at = s]
  <2>1. call' = [call EXCEPT ![c] = r] /\ Same(r, c)
    BY <1>4 DEF At, CallsTyped, CallType
  <2> QED
    BY Zenon, <1>1, <1>4, <2>1
<1>5. ASSUME NEW c \in AttCalls, NEW o \in AttOrders, OperatorAsks(c, o) PROVE Goal
  BY Zenon, <1>1, <1>5 DEF OperatorAsks, NoCall
<1>6. ASSUME NEW c \in AttCalls, NEW o \in AttOrders, NEW m \in Moments, ProviderAsks(c, o, m) PROVE Goal
  <2>1. Statement(o, m) \notin spent /\ spent' = spent \cup {Statement(o, m)} /\ UNCHANGED log
    BY <1>6 DEF ProviderAsks, Unspent
  <2>2. CASE UNCHANGED call
    BY Zenon, <2>1, <2>2 DEF StatementInOnePlace, StatementActsOnce
  <2>3. ASSUME NEW r, call' = [call EXCEPT ![c] = r], r.order = o, r.moment = m PROVE Goal
    BY <2>1, <2>3 DEF StatementInOnePlace, StatementActsOnce, CallsTyped
  <2> DEFINE q == [NoCall EXCEPT !.at = "asked", !.order = o, !.by = "provider", !.moment = m]
  <2>4. q.order = o /\ q.moment = m
    BY DEF NoCall
  <2>5. UNCHANGED call \/ call' = [call EXCEPT ![c] = q]
    BY Zenon, <1>6 DEF ProviderAsks
  <2> QED
    BY Zenon, <2>2, <2>3, <2>4, <2>5
<1>7. ASSUME NEW c \in AttCalls, ConfirmOnChain(c) \/ AttestOnce(c) PROVE Goal
  BY <1>2, <1>3, <1>4, <1>7 DEF ConfirmOnChain, AttestOnce
<1>8. ASSUME NEW c \in AttCalls, Submit(c) PROVE Goal
  <2>1. Same([call[c] EXCEPT !.at = "sent", !.tx = Len(txs) + 1], c)
    BY DEF CallsTyped, CallType
  <2> QED
    BY Zenon, <1>1, <1>8, <2>1 DEF Submit
<1>9. ASSUME NEW c \in AttCalls, NotSent(c) \/ Polled(c) PROVE Goal
  <2>1. PICK what : AnswerIs(c, what)
    BY <1>9 DEF NotSent, Polled
  <2>2. Same([call[c] EXCEPT !.at = "answered", !.outcome = what], c)
    BY DEF CallsTyped, CallType
  <2> QED
    BY Zenon, <1>1, <1>9, <2>1, <2>2 DEF AnswerIs, NotSent, Polled
<1>10. ASSUME NEW c \in AttCalls, Conclude(c) PROVE Goal
  BY Zenon, <1>2, <1>3, <1>10 DEF Conclude
<1>11. CASE Restart
  BY Zenon, <1>11 DEF Restart, NoCall, StatementInOnePlace, StatementActsOnce
<1>12. CASE \/ \E t \in DOMAIN txs : Apply(t)
            \/ \E o \in AttOrders : RowFollows(o) \/ Refunded(o)
            \/ UNCHANGED attestVars
  <2>1. UNCHANGED <<call, log, spent>>
    BY <1>12 DEF Apply, RowFollows, Refunded, attestVars
  <2> QED
    BY <2>1 DEF StatementInOnePlace, StatementActsOnce
<1> QED
  BY <1>5, <1>6, <1>7, <1>8, <1>9, <1>10, <1>11, <1>12 DEF AttestNext

-----------------------------------------------------------------------------
(* The row and the log.                                                    *)

\* A payment on the row, or applied by the network, is one on chain.
LEMMA PaidStep ==
    ASSUME RowsTyped, CallsTyped, TxOfCall, AppliedIsPaid, PaidRowIsPaidOnChain, [AttestNext]_attestVars
    PROVE  AppliedIsPaid' /\ PaidRowIsPaidOnChain'
<1> DEFINE Goal == AppliedIsPaid' /\ PaidRowIsPaidOnChain'
<1>1. CASE UNCHANGED <<attRow, onChain, txs>>
  BY <1>1 DEF AppliedIsPaid, PaidRowIsPaidOnChain
<1>2. ASSUME NEW c \in AttCalls, Submit(c) PROVE Goal
  BY <1>2 DEF Submit, RowsTyped, AppliedIsPaid, PaidRowIsPaidOnChain
<1>3. ASSUME NEW t \in DOMAIN txs, Apply(t) PROVE Goal
  <2>1. t \in 1 .. Len(txs) /\ Len(txs') = Len(txs) /\ \A u \in 1 .. Len(txs) : txs[u] \in TxType
    BY <1>3 DEF Apply, RowsTyped
  <2>2. ASSUME NEW n, txs' = [txs EXCEPT ![t].net = n]
        PROVE  /\ txs'[t].net = n /\ txs'[t].order = txs[t].order
               /\ \A u \in 1 .. Len(txs) : u # t => txs'[u] = txs[u]
    BY <2>1, <2>2 DEF RowsTyped, TxType
  <2>3. CASE /\ onChain' = [onChain EXCEPT ![txs[t].order] = "FIAT_PAID"]
             /\ txs' = [txs EXCEPT ![t].net = "applied"]
    <3>1. txs[t].order \in AttOrders
      BY <2>1 DEF TxType
    <3>2. \A o \in AttOrders : onChain[o] = "FIAT_PAID" => onChain'[o] = "FIAT_PAID"
      BY <2>3, <3>1 DEF RowsTyped
    <3>3. onChain'[txs[t].order] = "FIAT_PAID"
      BY <2>3, <3>1 DEF RowsTyped
    <3>4. \A u \in 1 .. Len(txs) : txs[u].order \in AttOrders
      BY <2>1 DEF TxType
    <3> QED
      BY <1>3, <2>1, <2>2, <2>3, <3>2, <3>3, <3>4 DEF Apply, AppliedIsPaid, PaidRowIsPaidOnChain
  <2>4. CASE txs' = [txs EXCEPT ![t].net = "failed"] /\ UNCHANGED onChain
    BY <1>3, <2>1, <2>2, <2>4 DEF Apply, AppliedIsPaid, PaidRowIsPaidOnChain
  <2> QED
    BY <1>3, <2>3, <2>4 DEF Apply
<1>4. ASSUME NEW c \in AttCalls, Conclude(c) PROVE Goal
  <2>1. call[c].outcome = "SUCCESS" => onChain[call[c].order] = "FIAT_PAID"
    BY DEF TxOfCall, AppliedIsPaid
  <2>2. UNCHANGED <<onChain, txs>>
    BY Zenon, <1>4 DEF Conclude
  <2>3. \A o \in AttOrders : attRow'[o] = attRow[o] \/ (o = call[c].order /\ call[c].outcome = "SUCCESS")
    BY Zenon, <1>4 DEF Conclude, MovesRow, RowsTyped
  <2> QED
    BY <2>1, <2>2, <2>3 DEF AppliedIsPaid, PaidRowIsPaidOnChain
<1>5. ASSUME NEW o \in AttOrders, RowFollows(o) PROVE Goal
  BY <1>5 DEF RowFollows, RowsTyped, AppliedIsPaid, PaidRowIsPaidOnChain
<1>6. ASSUME NEW o \in AttOrders, Refunded(o) PROVE Goal
  <2>1. \A p \in AttOrders : onChain[p] = "FIAT_PAID" => onChain'[p] = "FIAT_PAID"
    BY <1>6 DEF Refunded, RowsTyped
  <2>2. \A u \in 1 .. Len(txs) : txs[u] \in TxType
    BY DEF RowsTyped
  <2> QED
    BY <1>6, <2>1, <2>2 DEF Refunded, TxType, AppliedIsPaid, PaidRowIsPaidOnChain
<1> QED
  BY Zenon, <1>1, <1>2, <1>3, <1>4, <1>5, <1>6
  DEF AttestNext, OperatorAsks, ProviderAsks, ConfirmOnChain, AttestOnce, NotSent, Polled, Restart, attestVars

\* The record of a transaction passes from its request to the log, or to those
\* the process or the log failed (attestOnce's audit entry).
LEMMA RecordStep ==
    ASSUME RowsTyped, CallsTyped, TxOfCall, AttestationIsRecorded, [AttestNext]_attestVars
    PROVE  AttestationIsRecorded'
<1>0. DOMAIN txs = 1 .. Len(txs) /\ \A t \in DOMAIN txs : t # 0
  BY DEF RowsTyped
<1> DEFINE Rec(e, t, o) == e.tx = t \/ (e.tx = 0 /\ e.outcome = "NOT_SUBMITTED" /\ e.order = o)
           Kept == DOMAIN txs' = DOMAIN txs /\ \A t \in DOMAIN txs : txs'[t].order = txs[t].order
<1>1. ASSUME Kept, log \subseteq log', untold \subseteq untold',
             \A c \in AttCalls : \/ call'[c].tx = call[c].tx
                                 \/ call[c].tx = 0
                                 \/ call[c].tx \in untold'
                                 \/ \E e \in log' : Rec(e, call[c].tx, txs[call[c].tx].order)
      PROVE  AttestationIsRecorded'
  BY <1>0, <1>1 DEF AttestationIsRecorded, RecordOf
<1>k. ASSUME UNCHANGED txs PROVE Kept
  BY <1>k
<1>2. ASSUME NEW c \in AttCalls, NEW r, call' = [call EXCEPT ![c] = r], r.tx = call[c].tx \/ call[c].tx = 0,
             Kept, log \subseteq log', UNCHANGED untold
      PROVE  AttestationIsRecorded'
  BY <1>1, <1>2 DEF CallsTyped
<1>3. ASSUME NEW c \in AttCalls, NEW o \in AttOrders, OperatorAsks(c, o) \/ \E m \in Moments : ProviderAsks(c, o, m)
      PROVE  AttestationIsRecorded'
  <2>0. call[c] = NoCall
    BY Zenon, <1>3 DEF OperatorAsks, ProviderAsks
  <2>1. call[c].tx = 0
    BY <2>0 DEF NoCall
  <2>2. UNCHANGED <<txs, log, untold>>
    BY Zenon, <1>3 DEF OperatorAsks, ProviderAsks
  <2>3. UNCHANGED call \/ \E r : call' = [call EXCEPT ![c] = r]
    BY Zenon, <1>3 DEF OperatorAsks, ProviderAsks
  <2> QED
    BY <1>1, <1>2, <1>k, <2>1, <2>2, <2>3
<1>4. ASSUME NEW c \in AttCalls, ConfirmOnChain(c) \/ AttestOnce(c) PROVE AttestationIsRecorded'
  <2>1. call[c].tx = 0
    BY Zenon, <1>4 DEF ConfirmOnChain, AttestOnce, TxOfCall
  <2>2. UNCHANGED <<txs, untold>> /\ log \subseteq log'
    BY <1>4 DEF ConfirmOnChain, AttestOnce
  <2>3. Leave(c) \/ \E s : At(c, s)
    BY <1>4 DEF ConfirmOnChain, AttestOnce
  <2>4. \E r : call' = [call EXCEPT ![c] = r]
    BY <2>3 DEF Leave, At
  <2> QED
    BY Zenon, <1>2, <1>k, <2>1, <2>2, <2>4
<1>5. ASSUME NEW c \in AttCalls, Submit(c) PROVE AttestationIsRecorded'
  <2> DEFINE r == [call[c] EXCEPT !.at = "sent", !.tx = Len(txs) + 1]
  <2>1. call[c].tx = 0 /\ r.tx = Len(txs) + 1
    BY <1>5 DEF Submit, TxOfCall, CallsTyped, CallType
  <2>2. call' = [call EXCEPT ![c] = r] /\ UNCHANGED <<log, untold>>
    BY <1>5 DEF Submit
  <2>3. DOMAIN txs' = 1 .. Len(txs) + 1
    BY <1>5 DEF Submit, RowsTyped
  <2>4. call'[c].tx = Len(txs) + 1 /\ \A d \in AttCalls : d # c => call'[d] = call[d]
    BY <2>1, <2>2 DEF CallsTyped
  <2>5. \A t \in DOMAIN txs' : t = Len(txs) + 1 \/ (t \in DOMAIN txs /\ t # 0 /\ txs'[t] = txs[t])
    BY <1>0, <1>5, <2>3 DEF RowsTyped, Submit
  <2> QED
    BY <2>1, <2>2, <2>4, <2>5 DEF AttestationIsRecorded, RecordOf
<1>6. ASSUME NEW c \in AttCalls, NotSent(c) \/ Polled(c) PROVE AttestationIsRecorded'
  <2>1. PICK what : AnswerIs(c, what) /\ UNCHANGED <<txs, log, untold>>
    BY Zenon, <1>6 DEF NotSent, Polled
  <2>2. [call[c] EXCEPT !.at = "answered", !.outcome = what].tx = call[c].tx
    BY DEF CallsTyped, CallType
  <2> QED
    BY Zenon, <1>2, <1>k, <2>1, <2>2 DEF AnswerIs
<1>7. ASSUME NEW c \in AttCalls, Conclude(c) PROVE AttestationIsRecorded'
  <2>1. call' = [call EXCEPT ![c] = NoCall] /\ UNCHANGED txs /\ log \subseteq log' /\ untold \subseteq untold'
    BY <1>7 DEF Conclude, Leave
  <2>2. call[c].tx \in untold' \/ Entry(c, call[c].outcome) \in log'
    BY Zenon, <1>7 DEF Conclude, Recorded
  <2> DEFINE e == Entry(c, call[c].outcome)
  <2>3. \/ e.tx = call[c].tx
        \/ e.tx = 0 /\ e.outcome = "NOT_SUBMITTED" /\ e.order = txs[call[c].tx].order
    BY DEF Entry, TxOfCall
  <2>4. \A d \in AttCalls : d # c => call'[d] = call[d]
    BY <2>1 DEF CallsTyped
  <2> QED
    BY <1>1, <1>k, <2>1, <2>2, <2>3, <2>4
<1>8. ASSUME NEW t \in DOMAIN txs, Apply(t) PROVE AttestationIsRecorded'
  <2>1. UNCHANGED <<call, log, untold>> /\ \E n : txs' = [txs EXCEPT ![t].net = n]
    BY Zenon, <1>8 DEF Apply
  <2>2. Kept
    BY <1>0, <2>1 DEF RowsTyped, TxType
  <2> QED
    BY <1>1, <2>1, <2>2
<1>9. CASE Restart
  BY <1>1, <1>k, <1>9 DEF Restart
<1>10. CASE \/ \E o \in AttOrders : RowFollows(o) \/ Refunded(o)
            \/ UNCHANGED attestVars
  BY <1>1, <1>k, <1>10 DEF RowFollows, Refunded, attestVars
<1> QED
  BY <1>3, <1>4, <1>5, <1>6, <1>7, <1>8, <1>9, <1>10 DEF AttestNext

-----------------------------------------------------------------------------

\* The inductive invariant holds of every behaviour.
LEMMA AttestInvariance == AttestSpec => []AttestInd
<1>1. AttestInd /\ [AttestNext]_attestVars => AttestInd'
  BY CallsStep, RowsStep, TurnStep, TxStep, StatementStep, PaidStep, RecordStep DEF AttestInd
<1> QED
  BY AttestStart, <1>1, PTL DEF AttestSpec

\* The attestor's account submits one transaction at a time (lastSubmission).
THEOREM SubmissionsTakeTurns == AttestSpec => []SubmitsInTurn
<1>1. AttestInd => SubmitsInTurn
  BY DEF AttestInd, SenderIsFirst, SubmitsInTurn
<1> QED
  BY AttestInvariance, <1>1, PTL

\* A provider's signed statement acts once, whatever requests carry it
\* (verifyAndConsume, attestFiatPaidByLp).
THEOREM StatementIsSpentOnce == AttestSpec => []StatementActsOnce
  BY AttestInvariance, PTL DEF AttestInd

\* No attestation goes unrecorded unless the process or the log itself failed:
\* the log names it, or holds an unanswered attempt on its order.
THEOREM AttestationsAreRecorded == AttestSpec => []AttestationIsRecorded
  BY AttestInvariance, PTL DEF AttestInd

\* The row never says paid ahead of the chain, although the answer to a
\* submission may be lost and the transaction applied later.
THEOREM PaidRowIsTrue == AttestSpec => []PaidRowIsPaidOnChain
  BY AttestInvariance, PTL DEF AttestInd

-----------------------------------------------------------------------------
(* The configuration row *)

\* The shape of what the actions update.
Shapes ==
    /\ DOMAIN save = Operators
    /\ DOMAIN page = Operators
    /\ conf.version \in Nat
    /\ \E S : audit \in Seq(S)

\* A save that was checked against the version in force was checked against the
\* row in force.
CheckedIsCurrent ==
    \A a \in Operators : save[a].at = "checked" =>
        /\ save[a].version \in Nat /\ save[a].version <= conf.version
        /\ save[a].version = conf.version =>
             save[a].row = conf.row /\ Accepts(conf.row, save[a].patch)

SettingsInd == Shapes /\ CheckedIsCurrent /\ ConfigIsCoherent /\ AuditIsAChain

-----------------------------------------------------------------------------

\* A patch that is accepted leaves a coherent row coherent, also where a check is
\* skipped because the patch does not name its field (updateConfigTransactional).
LEMMA AcceptedIsCoherent ==
    ASSUME NEW row, NEW patch, Coherent(row), Accepts(row, patch)
    PROVE  Coherent(Patched(row, patch))
<1> DEFINE next == Patched(row, patch)
           Names(S) == DOMAIN patch \cap S # {}
<1>1. \A f \in {"spreadBps", "platformFeeBps", "minOrder", "dailyLimitByTier"} :
        f \notin DOMAIN patch => next[f] = row[f]
  BY FirstRowIsCoherent DEF Patched
<1>2. /\ next.platformFeeBps + next.lpFeeBps < BPS
      /\ windowsFitTheContract(next)
      /\ next.minOrder < next.maxOrder
  BY DEF Accepts
<1>3. spreadCoversPriceDeviation(next)
  <2>1. CASE "spreadBps" \in DOMAIN patch
    BY Zenon, <2>1 DEF Accepts
  <2>2. CASE "spreadBps" \notin DOMAIN patch
    BY <1>1, <2>2 DEF Coherent, spreadCoversPriceDeviation
  <2> QED
    BY <2>1, <2>2
<1>4. platformFeeFitsSpread(next)
  <2>1. CASE DOMAIN patch \cap {"platformFeeBps", "spreadBps"} # {}
    BY SMTT(30), <2>1 DEF Accepts
  <2>2. CASE DOMAIN patch \cap {"platformFeeBps", "spreadBps"} = {}
    BY <1>1, <2>2 DEF Coherent, platformFeeFitsSpread
  <2> QED
    BY <2>1, <2>2
<1>5. limitsCoverMinOrder(next)
  <2>1. CASE floorNamed(patch)
    BY Zenon, <2>1 DEF Accepts
  <2>2. CASE ~floorNamed(patch)
    <3>1. next.minOrder = row.minOrder /\ next.dailyLimitByTier = row.dailyLimitByTier
      BY <1>1, <2>2 DEF floorNamed
    <3> QED
      BY Zenon, <3>1 DEF Coherent, limitsCoverMinOrder
  <2> QED
    BY <2>1, <2>2
<1> QED
  BY <1>2, <1>3, <1>4, <1>5 DEF Coherent

\* The row the service boots with is coherent and its audit is empty.
LEMMA SettingsStart == SettingsInit => SettingsInd
<1> SUFFICES ASSUME SettingsInit PROVE SettingsInd
  OBVIOUS
<1>1. Shapes
  <2>1. audit \in Seq({})
    BY DEF SettingsInit
  <2> QED
    BY <2>1 DEF SettingsInit, Shapes
<1>2. CheckedIsCurrent
  BY DEF SettingsInit, CheckedIsCurrent, Idle
<1>3. ConfigIsCoherent
  BY FirstRowIsCoherent DEF SettingsInit, ConfigIsCoherent
<1>4. AuditIsAChain
  BY DEF SettingsInit, AuditIsAChain
<1> QED
  BY <1>1, <1>2, <1>3, <1>4 DEF SettingsInd

\* What a commit does to the row and its audit.
LEMMA CommitStep ==
    ASSUME SettingsInd, NEW a \in Operators, CommitUpdate(a)
    PROVE  SettingsInd'
<1> DEFINE next == Patched(conf.row, save[a].patch)
           e == recordAudit(a, next)
<1>1. /\ save[a].at = "checked" /\ save[a].version = conf.version
      /\ conf' = [row |-> next, version |-> conf.version + 1]
      /\ audit' = Append(audit, e)
      /\ save' = [save EXCEPT ![a] = Idle]
  BY Zenon DEF CommitUpdate, Unchanged
<1>2. save[a].row = conf.row /\ Accepts(conf.row, save[a].patch)
  BY Zenon, <1>1 DEF SettingsInd, CheckedIsCurrent
<1>3. e = [before |-> conf.row, after |-> next]
  BY <1>2 DEF recordAudit
<1> HIDE DEF next, e
<1>4. PICK S : audit \in Seq(S)
  BY DEF SettingsInd, Shapes
<1>5. audit \in Seq(S \cup {e})
  BY Zenon, <1>4, SeqMonotonic
<1>6. /\ audit' \in Seq(S \cup {e}) /\ Len(audit') = Len(audit) + 1 /\ Len(audit) \in Nat
      /\ audit'[Len(audit) + 1] = e
      /\ \A i \in 1 .. Len(audit) : audit'[i] = audit[i]
      /\ DOMAIN audit = 1 .. Len(audit) /\ DOMAIN audit' = 1 .. Len(audit) + 1
  BY SMTT(30), <1>1, <1>5
<1>7. Shapes'
  BY SMTT(30), <1>1, <1>6 DEF SettingsInd, Shapes, CommitUpdate
<1>8. CheckedIsCurrent'
  <2>1. conf'.version = conf.version + 1
    BY ZenonT(60), <1>1
  <2> QED
    BY <1>1, <2>1 DEF SettingsInd, Shapes, CheckedIsCurrent, Idle
<1>9. ConfigIsCoherent'
  BY <1>1, <1>2, AcceptedIsCoherent DEF SettingsInd, ConfigIsCoherent, next
<1>10. AuditIsAChain'
  <2>1. audit' # << >> /\ audit'[Len(audit')].after = next /\ conf'.row = next
    BY SMTT(30), <1>1, <1>3, <1>6
  <2>2. ASSUME NEW i \in DOMAIN audit'
        PROVE  audit'[i].before = IF i = 1 THEN FirstRow ELSE audit'[i - 1].after
    <3>1. CASE i \in 1 .. Len(audit)
      BY <1>6, <3>1 DEF SettingsInd, AuditIsAChain
    <3>2. CASE i = Len(audit) + 1
      <4>1. CASE Len(audit) = 0
        BY <1>3, <1>4, <1>6, <3>2, <4>1 DEF SettingsInd, AuditIsAChain
      <4>2. CASE Len(audit) # 0
        BY <1>3, <1>4, <1>6, <3>2, <4>2 DEF SettingsInd, AuditIsAChain
      <4> QED
        BY Zenon, <4>1, <4>2
    <3> QED
      BY SMTT(30), <1>6, <3>1, <3>2
  <2> QED
    BY <2>1, <2>2 DEF AuditIsAChain
<1> QED
  BY Zenon, <1>7, <1>8, <1>9, <1>10 DEF SettingsInd

\* A step that is not a commit leaves the row and its audit as they are.
LEMMA OtherStep ==
    ASSUME SettingsInd, UNCHANGED <<conf, audit>>, Shapes',
           \A a \in Operators : save'[a].at = "checked" =>
              \/ save'[a] = save[a]
              \/ /\ save'[a].row = conf.row /\ save'[a].version = conf.version
                 /\ Accepts(conf.row, save'[a].patch)
    PROVE  SettingsInd'
<1>1. CheckedIsCurrent'
  BY DEF SettingsInd, CheckedIsCurrent, Shapes
<1> QED
  BY ZenonT(60), <1>1 DEF SettingsInd, ConfigIsCoherent, AuditIsAChain

\* No edit, save, refusal or conflict breaks the row or its audit: a commit
\* writes only over the version its checks were made on.
LEMMA SettingsStep == SettingsInd /\ [SettingsNext]_settingsVars => SettingsInd'
<1> SUFFICES ASSUME SettingsInd, [SettingsNext]_settingsVars PROVE SettingsInd'
  OBVIOUS
<1>0. DOMAIN save = Operators /\ DOMAIN page = Operators
  BY ZenonT(60) DEF SettingsInd, Shapes
<1>1. ASSUME UNCHANGED <<conf, audit, save>>, DOMAIN page' = Operators PROVE SettingsInd'
  <2>1. Shapes'
    BY Zenon, <1>1 DEF SettingsInd, Shapes
  <2> QED
    BY <1>1, <2>1, OtherStep
<1>2. ASSUME NEW a \in Operators, NEW s, save' = [save EXCEPT ![a] = s], s.at # "checked",
             UNCHANGED <<conf, audit>>, DOMAIN page' = Operators
      PROVE  SettingsInd'
  <2>1. Shapes'
    BY Zenon, <1>0, <1>2 DEF SettingsInd, Shapes
  <2> QED
    BY <1>0, <1>2, <2>1, OtherStep
<1>3. ASSUME NEW a \in Operators, Send(a), UNCHANGED <<conf, audit>>, DOMAIN page' = Operators PROVE SettingsInd'
  <2> DEFINE s == [at |-> "sent", patch |-> computePatch(page[a].shown, page[a].form), typed |-> page[a].typed]
  <2>1. s.at # "checked" /\ save' = [save EXCEPT ![a] = s]
    BY Zenon, <1>3 DEF Send
  <2> QED
    BY Zenon, <1>2, <1>3, <2>1
<1>4. ASSUME NEW a \in Operators, Refetch(a) \/ EditLimits(a) \/ CancelLimits(a) \/ \E f \in Fields : EditField(a, f)
      PROVE  SettingsInd'
  BY Zenon, <1>0, <1>1, <1>4 DEF Refetch, EditLimits, EditField, TypeInto, CancelLimits
<1>5. ASSUME NEW a \in Operators, PressSave(a) \/ ConfirmLimits(a) PROVE SettingsInd'
  BY <1>0, <1>1, <1>3, <1>5 DEF PressSave, ConfirmLimits
<1>6. ASSUME NEW a \in Operators, ReadForUpdate(a) PROVE SettingsInd'
  <2> DEFINE s == [at |-> "checked", patch |-> save[a].patch, typed |-> save[a].typed,
                   row |-> conf.row, version |-> conf.version]
  <2>1. save' = [save EXCEPT ![a] = s] /\ UNCHANGED <<conf, audit, page>> /\ Accepts(conf.row, save[a].patch)
    BY <1>0, <1>6 DEF ReadForUpdate
  <2>2. s.row = conf.row /\ s.version = conf.version /\ s.patch = save[a].patch
    OBVIOUS
  <2> HIDE DEF s
  <2>3. Shapes'
    BY <1>0, <2>1 DEF SettingsInd, Shapes
  <2> QED
    BY <1>0, <2>1, <2>2, <2>3, OtherStep
<1>7. ASSUME NEW a \in Operators, RefuseUpdate(a) \/ ConflictUpdate(a) PROVE SettingsInd'
  BY <1>0, <1>2, <1>7 DEF RefuseUpdate, ConflictUpdate, Idle
<1>8. CASE UNCHANGED settingsVars
  BY <1>0, <1>1, <1>8 DEF settingsVars
<1> QED
  BY <1>4, <1>5, <1>6, <1>7, <1>8, CommitStep DEF SettingsNext

\* The inductive invariant holds of every behaviour.
LEMMA SettingsInvariance == SettingsSpec => []SettingsInd
  BY SettingsStart, SettingsStep, PTL DEF SettingsSpec

\* However the operators' saves interleave, the row in force is coherent.
THEOREM ConfigStaysCoherent == SettingsSpec => []ConfigIsCoherent
  BY SettingsInvariance, PTL DEF SettingsInd

\* The audit of the configuration has no gap and no entry about a row that was
\* not in force (recordAudit in the update's transaction).
THEOREM AuditHasNoGap == SettingsSpec => []AuditIsAChain
  BY SettingsInvariance, PTL DEF SettingsInd

-----------------------------------------------------------------------------
(* What a save may alter.                                                  *)

\* A form differs from the row its page shows only where it was typed into, and
\* a patch names only such fields.
FormIsTyped(p) ==
    /\ p = [shown |-> p.shown, version |-> p.version, form |-> p.form, typed |-> p.typed, confirming |-> p.confirming]
    /\ DOMAIN p.form = Fields
    /\ \A f \in Fields : p.form[f] # configToForm(p.shown)[f] => f \in p.typed

PatchIsTyped(s) == s.at \in {"sent", "checked"} => DOMAIN s.patch \subseteq s.typed

TypedInd ==
    /\ DOMAIN save = Operators /\ DOMAIN page = Operators
    /\ DOMAIN conf.row = Fields
    /\ \A a \in Operators : FormIsTyped(page[a]) /\ PatchIsTyped(save[a])

\* A page opened on a row shows nothing typed.
LEMMA OpenedIsTyped ==
    ASSUME NEW row, NEW version, DOMAIN row = Fields
    PROVE  FormIsTyped(OpenPage(row, version))
  BY DEF FormIsTyped, OpenPage, configToForm

\* A page and a save differ from the row they were opened on only in the
\* fields their operator typed into.
LEMMA TypedStep == TypedInd /\ [SettingsNext]_settingsVars => TypedInd'
<1> SUFFICES ASSUME TypedInd, [SettingsNext]_settingsVars PROVE TypedInd'
  OBVIOUS
<1>0. DOMAIN save = Operators /\ DOMAIN page = Operators /\ DOMAIN conf.row = Fields
  BY DEF TypedInd
<1>1. ASSUME NEW a \in Operators, NEW p, FormIsTyped(p), page' = [page EXCEPT ![a] = p], UNCHANGED <<conf, save>>
      PROVE  TypedInd'
  BY <1>1 DEF TypedInd
<1>2. ASSUME NEW a \in Operators, NEW s, PatchIsTyped(s), save' = [save EXCEPT ![a] = s], UNCHANGED <<conf, page>>
      PROVE  TypedInd'
  BY <1>2 DEF TypedInd
<1>3. ASSUME NEW a \in Operators, NEW p, NEW s, FormIsTyped(p), PatchIsTyped(s), page' = [page EXCEPT ![a] = p],
             save' = [save EXCEPT ![a] = s], UNCHANGED conf
      PROVE  TypedInd'
  BY <1>3 DEF TypedInd
<1>4. ASSUME NEW a \in Operators, NEW row, NEW version, DOMAIN row = Fields
      PROVE  FormIsTyped(Loaded(page[a], row, version))
  BY <1>4, OpenedIsTyped DEF Loaded, TypedInd
<1>5. ASSUME NEW a \in Operators, NEW b
      PROVE  /\ FormIsTyped([page[a] EXCEPT !.confirming = b])
             /\ [page EXCEPT ![a].confirming = b] = [page EXCEPT ![a] = [page[a] EXCEPT !.confirming = b]]
  <2>1. FormIsTyped(page[a])
    BY Zenon DEF TypedInd
  <2> QED
    BY <1>0, <2>1 DEF FormIsTyped
<1>6. ASSUME NEW a \in Operators
      PROVE  PatchIsTyped([at |-> "sent", patch |-> computePatch(page[a].shown, page[a].form), typed |-> page[a].typed])
  BY Zenon DEF PatchIsTyped, computePatch, TypedInd, FormIsTyped
<1>7. ASSUME NEW a \in Operators, Refetch(a) PROVE TypedInd'
  BY Zenon, <1>0, <1>1, <1>4, <1>7 DEF Refetch
<1>8. ASSUME NEW a \in Operators, NEW f \in Fields, TypeInto(a, f) PROVE TypedInd'
  <2> DEFINE p == page[a]
  <2>1. PICK v : page' = [page EXCEPT ![a] = Typed(p, f, v)] /\ UNCHANGED <<conf, save>>
    BY Zenon, <1>0, <1>8 DEF TypeInto
  <2>2. FormIsTyped(p)
    BY SMTT(30) DEF TypedInd
  <2>3. FormIsTyped(Typed(p, f, v))
    BY <2>2 DEF FormIsTyped, Typed
  <2> QED
    BY Zenon, <1>1, <2>1, <2>3
<1>9. ASSUME NEW a \in Operators, PressSave(a) PROVE TypedInd'
  BY Zenon, <1>1, <1>2, <1>5, <1>6, <1>9 DEF PressSave, Send
<1>10. ASSUME NEW a \in Operators, ConfirmLimits(a) PROVE TypedInd'
  BY Zenon, <1>3, <1>5, <1>6, <1>10 DEF ConfirmLimits, Send
<1>11. ASSUME NEW a \in Operators, CancelLimits(a) PROVE TypedInd'
  BY Zenon, <1>1, <1>5, <1>11 DEF CancelLimits
<1>12. ASSUME NEW a \in Operators, ReadForUpdate(a) PROVE TypedInd'
  <2> DEFINE s == [at |-> "checked", patch |-> save[a].patch, typed |-> save[a].typed,
                   row |-> conf.row, version |-> conf.version]
  <2>1. PatchIsTyped(s)
    BY Zenon, <1>12 DEF ReadForUpdate, TypedInd, PatchIsTyped
  <2> QED
    BY Zenon, <1>0, <1>2, <1>12, <2>1 DEF ReadForUpdate
<1>13. PatchIsTyped(Idle)
  BY DEF PatchIsTyped, Idle
<1>14. ASSUME NEW a \in Operators, RefuseUpdate(a) \/ ConflictUpdate(a) PROVE TypedInd'
  BY Zenon, <1>2, <1>13, <1>14 DEF RefuseUpdate, ConflictUpdate
<1>15. ASSUME NEW a \in Operators, CommitUpdate(a) PROVE TypedInd'
  <2> DEFINE next == Patched(conf.row, save[a].patch)
  <2>1. DOMAIN next = Fields
    BY Zenon DEF Patched
  <2>2. /\ save' = [save EXCEPT ![a] = Idle] /\ conf'.row = next
        /\ page' \in {page, [page EXCEPT ![a] = Loaded(page[a], next, conf.version + 1)]}
    BY ZenonT(60), <1>0, <1>15 DEF CommitUpdate
  <2>3. FormIsTyped(Loaded(page[a], next, conf.version + 1))
    BY <1>4, <2>1
  <2> HIDE DEF next
  <2> QED
    BY Zenon, <1>13, <2>1, <2>2, <2>3 DEF TypedInd
<1>16. CASE UNCHANGED settingsVars
  BY <1>16 DEF settingsVars, TypedInd
<1> QED
  BY <1>7, <1>8, <1>9, <1>10, <1>11, <1>12, <1>14, <1>15, <1>16, FirstRowIsCoherent
  DEF SettingsNext, EditField, EditLimits

\* A save alters nothing its operator did not type: edits of different fields by
\* different operators both survive (computePatch).
THEOREM SavesKeepOtherFields == SettingsSpec => UntouchedFieldsKept
<1>1. SettingsInit => TypedInd
  BY OpenedIsTyped DEF SettingsInit, TypedInd, PatchIsTyped, Idle, Fields
<1>2. TypedInd /\ [SettingsNext]_settingsVars =>
        [\A f \in Fields : conf'.row[f] # conf.row[f] =>
           \E a \in Operators : save[a].at = "checked" /\ save'[a] = Idle /\ f \in save[a].typed]_settingsVars
  <2> SUFFICES ASSUME TypedInd, SettingsNext, NEW f \in Fields, conf'.row[f] # conf.row[f]
               PROVE  \E a \in Operators : save[a].at = "checked" /\ save'[a] = Idle /\ f \in save[a].typed
    BY DEF settingsVars
  <2>1. PICK a \in Operators : CommitUpdate(a)
    BY Zenon DEF SettingsNext, Refetch, EditField, EditLimits, TypeInto, PressSave, ConfirmLimits, CancelLimits,
           ReadForUpdate, RefuseUpdate, ConflictUpdate
  <2>2. save[a].at = "checked" /\ save' = [save EXCEPT ![a] = Idle] /\ conf'.row = Patched(conf.row, save[a].patch)
    BY Zenon, <2>1 DEF CommitUpdate
  <2>3. f \in DOMAIN save[a].patch
    BY <2>2 DEF Patched
  <2>4. f \in save[a].typed
    BY Zenon, <2>2, <2>3 DEF TypedInd, PatchIsTyped
  <2> QED
    BY Zenon, <2>2, <2>4 DEF TypedInd
<1> QED
  BY <1>1, <1>2, TypedStep, PTL DEF SettingsSpec, UntouchedFieldsKept
=============================================================================
