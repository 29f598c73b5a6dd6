------------------------------- MODULE Outbox -------------------------------
(***************************************************************************)
(* The outbox: messages queued with the change they tell of, delivered by  *)
(* a drain that every instance runs on its own clock.  The row is written  *)
(* after the handler returns, so a crash, a lost answer or a second        *)
(* instance delivers a message again.  Notifications of an order's status  *)
(* are its main source.                                                    *)
(***************************************************************************)
EXTENDS Naturals, Sequences, FiniteSets

CONSTANTS
    Keys,                \* dedupe keys: order, status and recipient
    UnknownKinds,        \* the keys of messages no handler is registered for
    Drainers,            \* coordinator instances
    OUTBOX_MAX_ATTEMPTS, OUTBOX_BATCH_SIZE,
    MaxOutboxCrashes, MaxTellings \* bounds

VARIABLES
    row,       \* OutboxMessage per key: status and attempts
    due,       \* PENDING keys whose next attempt has come, soonest first
    drain,     \* what each instance is doing
    notices,   \* Notification rows, by key
    reachable, \* keys whose recipient has an address on file
    delivered, \* keys that reached their recipient
    tries,     \* how often each key's handler ran, up to the maximum
    oCrashes, tellings

outboxVars == <<row, due, drain, notices, reachable, delivered, tries, oCrashes, tellings>>

NoRow == [status |-> "NONE", attempts |-> 0]
NotDraining == [at |-> "idle"]
Least(a, b) == IF a < b THEN a ELSE b

OInit ==
    /\ row = [k \in Keys |-> NoRow]
    /\ due = <<>>
    /\ drain = [i \in Drainers |-> NotDraining]
    /\ notices = {}
    /\ reachable = Keys
    /\ delivered = {}
    /\ tries = [k \in Keys |-> 0]
    /\ oCrashes = 0
    /\ tellings = 0

----------------------------------------------------------------------------
(* Queuing.                                                                *)

\* enqueue for every key of ks that has no row: a duplicate is skipped.
Enqueue(ks) ==
    LET new == {k \in ks : row[k] = NoRow}
        order == CHOOSE q \in [1 .. Cardinality(new) -> new] : \A k \in new : \E n \in DOMAIN q : q[n] = k
    IN  /\ row' = [k \in Keys |-> IF k \in new THEN [status |-> "PENDING", attempts |-> 0] ELSE row[k]]
        /\ due' = due \o order

\* notifyOrderStatus: one transaction writes the notices of a status and queues
\* a mail for each recipient that has an address.
NotifyOrderStatus(ks) ==
    /\ tellings < MaxTellings
    /\ notices' = notices \cup ks
    /\ Enqueue(ks \cap reachable)
    /\ tellings' = tellings + 1
    /\ UNCHANGED <<drain, reachable, delivered, tries, oCrashes>>

\* The recipient's address is removed.
AddressGoes(k) ==
    /\ k \in reachable
    /\ reachable' = reachable \ {k}
    /\ UNCHANGED <<row, due, drain, notices, delivered, tries, oCrashes, tellings>>

----------------------------------------------------------------------------
(* The drain.                                                              *)

\* The batch is read with the attempts each row has then.
StartDrain(i) ==
    /\ drain[i] = NotDraining
    /\ due # <<>>
    /\ LET batch == SubSeq(due, 1, Least(Len(due), OUTBOX_BATCH_SIZE)) IN
       drain' = [drain EXCEPT ![i] = [at |-> "next", batch |-> batch,
                                      read |-> [n \in DOMAIN batch |-> row[batch[n]].attempts]]]
    /\ UNCHANGED <<row, due, notices, reachable, delivered, tries, oCrashes, tellings>>

Current(i) == drain[i].batch[1]

Tried(k) == tries' = [tries EXCEPT ![k] = Least(@ + 1, OUTBOX_MAX_ATTEMPTS)]

\* The handler: email or webhook.  arrives says whether the message reached
\* the recipient, ok whether the handler learned so.
Handle(i, arrives, ok) ==
    /\ drain[i].at = "next"
    /\ LET k == Current(i) IN
       /\ ok => arrives
       /\ arrives => k \notin UnknownKinds /\ k \in reachable
       /\ delivered' = IF arrives THEN delivered \cup {k} ELSE delivered
       /\ Tried(k)
       /\ drain' = [drain EXCEPT ![i].at = IF ok THEN "sent" ELSE "failed"]
    /\ UNCHANGED <<row, due, notices, reachable, oCrashes, tellings>>

WithoutKey(k) == SelectSeq(due, LAMBDA x : x # k)

AfterThis(i) ==
    IF Len(drain[i].batch) = 1 THEN NotDraining
    ELSE [at |-> "next", batch |-> Tail(drain[i].batch), read |-> Tail(drain[i].read)]

\* Each write below is guarded by the row still being PENDING.
Write(i, status, attempts) ==
    LET k == Current(i) IN
    /\ IF row[k].status = "PENDING"
       THEN /\ row' = [row EXCEPT ![k] = [status |-> status, attempts |-> attempts]]
            /\ due' = WithoutKey(k)
       ELSE UNCHANGED <<row, due>>
    /\ drain' = [drain EXCEPT ![i] = AfterThis(i)]
    /\ UNCHANGED <<notices, reachable, delivered, tries, oCrashes, tellings>>

MarkSent(i) ==
    /\ drain[i].at = "sent"
    /\ Write(i, "SENT", row[Current(i)].attempts)

\* A message of an unknown kind is passed over and keeps its place.
MarkFailedIfKnown(i) ==
    LET attempts == drain[i].read[1] + 1 IN
    /\ drain[i].at = "failed"
    /\ IF Current(i) \in UnknownKinds
       THEN /\ drain' = [drain EXCEPT ![i] = AfterThis(i)]
            /\ UNCHANGED <<row, due, notices, reachable, delivered, tries, oCrashes, tellings>>
       ELSE Write(i, IF attempts >= OUTBOX_MAX_ATTEMPTS THEN "FAILED" ELSE "PENDING", attempts)

MarkFailed(i) ==
    LET attempts == drain[i].read[1] + 1 IN
    /\ drain[i].at = "failed"
    /\ Write(i, IF attempts >= OUTBOX_MAX_ATTEMPTS THEN "FAILED" ELSE "PENDING", attempts)

\* backoffFor has passed.
BecomesDue(k) ==
    /\ row[k].status = "PENDING"
    /\ \A n \in DOMAIN due : due[n] # k
    /\ due' = Append(due, k)
    /\ UNCHANGED <<row, drain, notices, reachable, delivered, tries, oCrashes, tellings>>

\* A message sent a fortnight ago is deleted; its key may be queued again.  No
\* drain lasts that long.
Prune(k) ==
    /\ row[k].status = "SENT"
    /\ k \notin UNION {{drain[i].batch[n] : n \in DOMAIN drain[i].batch} : i \in {j \in Drainers : drain[j] # NotDraining}}
    /\ row' = [row EXCEPT ![k] = NoRow]
    /\ delivered' = delivered \ {k}
    /\ tries' = [tries EXCEPT ![k] = 0]
    /\ UNCHANGED <<due, drain, notices, reachable, oCrashes, tellings>>

\* The instance stops, or a write of its drain fails.
DrainStops(i) ==
    /\ drain[i] # NotDraining
    /\ oCrashes < MaxOutboxCrashes
    /\ oCrashes' = oCrashes + 1
    /\ drain' = [drain EXCEPT ![i] = NotDraining]
    /\ UNCHANGED <<row, due, notices, reachable, delivered, tries, tellings>>

Drain(i) ==
    \/ StartDrain(i)
    \/ \E arrives, ok \in BOOLEAN : Handle(i, arrives, ok)
    \/ MarkSent(i)
    \/ MarkFailed(i)

ONext ==
    \/ \E ks \in SUBSET Keys : ks # {} /\ NotifyOrderStatus(ks)
    \/ \E k \in Keys : AddressGoes(k) \/ BecomesDue(k) \/ Prune(k)
    \/ \E i \in Drainers : Drain(i) \/ DrainStops(i)

\* Every instance drains each half minute, every wait ends, and the handlers
\* give up on an answer after a while.
OFairness ==
    /\ \A i \in Drainers : WF_outboxVars(Drain(i))
    /\ \A k \in Keys : WF_outboxVars(BecomesDue(k))

OSpec == OInit /\ [][ONext]_outboxVars
OFairSpec == OSpec /\ OFairness

----------------------------------------------------------------------------
(* Every message that is queued is in the end either marked sent, having   *)
(* reached its recipient, or given up after its handler ran the full number*)
(* of times, even when instances drain it together and overwrite each      *)
(* other's count of attempts (drainOnce).  One whose kind nobody handles,  *)
(* or whose recipient has no address any more, does not hold the queue.    *)
(* That it arrives only once is not promised.                              *)
EveryMessageEnds ==
    \A k \in Keys :
        row[k].status = "PENDING" ~>
            \/ row[k].status = "SENT" /\ k \in delivered
            \/ row[k].status = "FAILED" /\ tries[k] >= OUTBOX_MAX_ATTEMPTS
=============================================================================
