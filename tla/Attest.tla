------------------------------ MODULE Attest -------------------------------
(***************************************************************************)
(* The anchor's attestation that a deposit's fiat arrived.  An operator, or*)
(* the order's provider with a signed statement, asks; the coordinator     *)
(* keeps one request per order at a time, submits with one key in one      *)
(* queue, polls for the outcome, writes it to the audit log and only then  *)
(* moves the row.  Requests interleave; the network is slow, loses answers *)
(* and may apply a transaction after the poll gave up; the process dies.   *)
(***************************************************************************)
EXTENDS Integers, Sequences, FiniteSets

CONSTANTS AttOrders, AttCalls,
    Moments,            \* when a statement may be dated
    MaxAttestations, MaxMishaps

VARIABLES attRow,       \* the order row's status
    onChain,            \* the trade's status
    txs,                \* attestations sent, and what became of them
    attesting,          \* orders in the in-memory set
    turn,               \* calls waiting on lastSubmission, the first one submitting
    call,               \* requests
    log,                \* the audit log
    spent,              \* signed statements consumed
    untold,             \* transactions whose request died before its log entry
    mishaps

attestVars == <<attRow, onChain, txs, attesting, turn, call, log, spent, untold, mishaps>>

NoCall == [at |-> "idle", order |-> "none", by |-> "none", moment |-> 0, tx |-> 0, outcome |-> "none"]
Mishap == mishaps < MaxMishaps /\ mishaps' = mishaps + 1

At(c, s) == call' = [call EXCEPT ![c].at = s]

\* whileAttesting's finally.
Leave(c) ==
    /\ attesting' = attesting \ {call[c].order}
    /\ call' = [call EXCEPT ![c] = NoCall]

----------------------------------------------------------------------------
(* Coming in.                                                              *)

OperatorAsks(c, o) ==
    /\ call[c] = NoCall
    /\ o \notin attesting
    /\ attesting' = attesting \cup {o}
    /\ call' = [call EXCEPT ![c] = [NoCall EXCEPT !.at = "read", !.order = o, !.by = "operator"]]
    /\ UNCHANGED <<attRow, onChain, txs, turn, log, spent, untold, mishaps>>

Statement(o, m) == <<o, m>>

Unspent(o, m) == Statement(o, m) \notin spent

\* The statement is verified and consumed before the order is looked at.  Its
\* time window is left out: it refuses more, and the spent row outlives it.
ProviderAsks(c, o, m) ==
    /\ call[c] = NoCall
    /\ Unspent(o, m)
    /\ spent' = spent \cup {Statement(o, m)}
    /\ IF o \in attesting
       THEN UNCHANGED <<attesting, call>>
       ELSE /\ attesting' = attesting \cup {o}
            /\ call' = [call EXCEPT ![c] = [NoCall EXCEPT !.at = "asked", !.order = o, !.by = "provider", !.moment = m]]
    /\ UNCHANGED <<attRow, onChain, txs, turn, log, untold, mishaps>>

\* A submission that ended in an error is logged as NOT_SUBMITTED.  Its hash is
\* in the entry all the same, in the message of the poll that gave up, unless
\* the send itself was never answered.
Entry(c, what) ==
    [order |-> call[c].order, by |-> call[c].by, moment |-> call[c].moment,
     outcome |-> IF what \in {"NOT_SENT", "UNANSWERED", "GAVE_UP"} THEN "NOT_SUBMITTED" ELSE what,
     tx |-> IF what = "UNANSWERED" THEN 0 ELSE call[c].tx]

\* What the chain says decides: already paid is only noted, funded goes on,
\* anything else, or an unreadable chain, refuses.
ConfirmOnChain(c) ==
    /\ call[c].at = "asked"
    /\ \/ /\ onChain[call[c].order] = "FIAT_PAID"
          /\ log' = log \cup {Entry(c, "ALREADY")}
          /\ Leave(c)
          /\ UNCHANGED mishaps
       \/ /\ onChain[call[c].order] = "FUNDED"
          /\ At(c, "read")
          /\ UNCHANGED <<attesting, log, mishaps>>
       \/ /\ onChain[call[c].order] = "REFUNDED"
          /\ Leave(c)
          /\ UNCHANGED <<log, mishaps>>
       \/ /\ Mishap
          /\ Leave(c)
          /\ UNCHANGED log
    /\ UNCHANGED <<attRow, onChain, txs, turn, spent, untold>>

----------------------------------------------------------------------------
(* Submitting.                                                             *)

\* Only a row that is FUNDED goes to the attestor, whose submissions queue.
AttestOnce(c) ==
    /\ call[c].at = "read"
    /\ IF attRow[call[c].order] = "FUNDED"
       THEN At(c, "queued") /\ turn' = Append(turn, c) /\ UNCHANGED attesting
       ELSE Leave(c) /\ UNCHANGED turn
    /\ UNCHANGED <<attRow, onChain, txs, log, spent, untold, mishaps>>

MyTurn(c) == turn # <<>> /\ Head(turn) = c

\* Built, signed and sent; the network has it from here.
Submit(c) ==
    /\ call[c].at = "queued"
    /\ MyTurn(c)
    /\ Len(txs) < MaxAttestations
    /\ txs' = Append(txs, [order |-> call[c].order, net |-> "pending"])
    /\ call' = [call EXCEPT ![c] = [@ EXCEPT !.at = "sent", !.tx = Len(txs) + 1]]
    /\ UNCHANGED <<attRow, onChain, attesting, turn, log, spent, untold, mishaps>>

AnswerIs(c, what) ==
    /\ call' = [call EXCEPT ![c] = [@ EXCEPT !.at = "answered", !.outcome = what]]
    /\ turn' = Tail(turn)

\* The window closed in the queue, the build failed, or the guard refused.
NotSent(c) ==
    /\ call[c].at = "queued"
    /\ MyTurn(c)
    /\ Mishap
    /\ AnswerIs(c, "NOT_SENT")
    /\ UNCHANGED <<attRow, onChain, txs, attesting, log, spent, untold>>

\* The answer to the send is lost.  Otherwise the poll reads an outcome, or gives
\* up at an error or its deadline.
Polled(c) ==
    /\ call[c].at = "sent"
    /\ \/ txs[call[c].tx].net = "applied" /\ AnswerIs(c, "SUCCESS") /\ UNCHANGED mishaps
       \/ txs[call[c].tx].net = "failed" /\ AnswerIs(c, "FAILED") /\ UNCHANGED mishaps
       \/ Mishap /\ AnswerIs(c, "UNANSWERED")
       \/ Mishap /\ AnswerIs(c, "GAVE_UP")
    /\ UNCHANGED <<attRow, onChain, txs, attesting, log, spent, untold>>

\* The network applies a pending transaction, however late, or drops it; the
\* escrow takes the attestation of a funded trade only.
Apply(t) ==
    /\ txs[t].net = "pending"
    /\ \/ /\ onChain[txs[t].order] = "FUNDED"
          /\ onChain' = [onChain EXCEPT ![txs[t].order] = "FIAT_PAID"]
          /\ txs' = [txs EXCEPT ![t].net = "applied"]
       \/ /\ txs' = [txs EXCEPT ![t].net = "failed"]
          /\ UNCHANGED onChain
    /\ UNCHANGED <<attRow, attesting, turn, call, log, spent, untold, mishaps>>

----------------------------------------------------------------------------
(* Recording, then moving the row.                                         *)

RecordedIfSubmitted(c) == call[c].outcome \in {"SUCCESS", "FAILED"}
Recorded(c) == TRUE

MovesRow(c) == call[c].outcome = "SUCCESS" /\ attRow[call[c].order] = "FUNDED"

\* The log entry is written whatever the outcome; a failure to write it is
\* itself only logged.  The row moves by a guarded write.
Conclude(c) ==
    /\ call[c].at = "answered"
    /\ \/ /\ log' = IF Recorded(c) THEN log \cup {Entry(c, call[c].outcome)} ELSE log
          /\ UNCHANGED <<untold, mishaps>>
       \/ /\ Mishap
          /\ untold' = untold \cup {call[c].tx}
          /\ UNCHANGED log
    /\ attRow' = IF MovesRow(c) THEN [attRow EXCEPT ![call[c].order] = "FIAT_PAID"] ELSE attRow
    /\ Leave(c)
    /\ UNCHANGED <<onChain, txs, turn, spent>>

----------------------------------------------------------------------------
(* The surroundings.                                                       *)

\* The process dies: the set, the queue and the requests are gone.
Restart ==
    /\ Mishap
    /\ attesting' = {}
    /\ turn' = <<>>
    /\ untold' = untold \cup {call[c].tx : c \in AttCalls}
    /\ call' = [c \in AttCalls |-> NoCall]
    /\ UNCHANGED <<attRow, onChain, txs, log, spent>>

\* The indexer brings the row to what the chain says; a refund overtakes.
RowFollows(o) ==
    /\ attRow[o] # onChain[o]
    /\ attRow' = [attRow EXCEPT ![o] = onChain[o]]
    /\ UNCHANGED <<onChain, txs, attesting, turn, call, log, spent, untold, mishaps>>

Refunded(o) ==
    /\ Mishap
    /\ onChain[o] = "FUNDED"
    /\ onChain' = [onChain EXCEPT ![o] = "REFUNDED"]
    /\ UNCHANGED <<attRow, txs, attesting, turn, call, log, spent, untold>>

AttestInit ==
    /\ attRow = [o \in AttOrders |-> "FUNDED"]
    /\ onChain = [o \in AttOrders |-> "FUNDED"]
    /\ txs = <<>>
    /\ attesting = {}
    /\ turn = <<>>
    /\ call = [c \in AttCalls |-> NoCall]
    /\ log = {}
    /\ spent = {}
    /\ untold = {}
    /\ mishaps = 0

AttestNext ==
    \/ \E c \in AttCalls, o \in AttOrders :
        OperatorAsks(c, o) \/ \E m \in Moments : ProviderAsks(c, o, m)
    \/ \E c \in AttCalls : ConfirmOnChain(c)
    \/ \E c \in AttCalls : AttestOnce(c)
    \/ \E c \in AttCalls : Submit(c)
    \/ \E c \in AttCalls : NotSent(c)
    \/ \E c \in AttCalls : Polled(c)
    \/ \E c \in AttCalls : Conclude(c)
    \/ \E t \in DOMAIN txs : Apply(t)
    \/ \E o \in AttOrders : RowFollows(o)
    \/ \E o \in AttOrders : Refunded(o)
    \/ Restart

AttestSpec == AttestInit /\ [][AttestNext]_attestVars

----------------------------------------------------------------------------

(* The attestor's account has one submission under way at a time, so two   *)
(* transactions are not built on one sequence number, whichever orders and *)
(* callers they come from (lastSubmission).                                *)
SubmitsInTurn ==
    \A c, d \in AttCalls : call[c].at = "sent" /\ call[d].at = "sent" => c = d

(* A provider's signed statement stands behind one log entry at most,      *)
(* across retries, concurrent requests and restarts.                       *)
StatementActsOnce ==
    \A e, f \in log : e.by = "provider" /\ f.by = "provider"
                      /\ Statement(e.order, e.moment) = Statement(f.order, f.moment) => e = f

\* The entry names the transaction, or is of an attempt on its order whose send
\* was not answered.
RecordOf(e, t) ==
    \/ e.tx = t
    \/ e.tx = 0 /\ e.outcome = "NOT_SUBMITTED" /\ e.order = txs[t].order

(* No attestation is sent unrecorded: the log names it, also when the poll *)
(* gave up and the transaction lands later, or holds an attempt on its     *)
(* order whose send was not answered; or its request is still at work, or  *)
(* the process or the log itself failed (attestFiatPaidOnce).              *)
AttestationIsRecorded ==
    \A t \in DOMAIN txs :
        \/ \E e \in log : RecordOf(e, t)
        \/ \E c \in AttCalls : call[c].tx = t
        \/ t \in untold

(* The row of a top-up is not moved to paid ahead of its trade.            *)
PaidRowIsPaidOnChain ==
    \A o \in AttOrders : attRow[o] = "FIAT_PAID" => onChain[o] = "FIAT_PAID"

=============================================================================
