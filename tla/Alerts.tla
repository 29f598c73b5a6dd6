------------------------------- MODULE Alerts -------------------------------
(***************************************************************************)
(* What the coordinator tells its operators.  On every tick the checks of  *)
(* a scope look at what they watch; a condition that is new, has changed   *)
(* or is due for a reminder goes into one message of bounded length; a     *)
(* condition that has been gone for a while is reported as cleared, unless *)
(* the check that watches it could not see everything.  AlertState records *)
(* what was said.                                                          *)
(***************************************************************************)
EXTENDS Naturals, FiniteSets

CONSTANTS
    Families,       \* checks: the part of an alert's key before the colon
    Watches,        \* <<family, subject>>: what a check may find
    Sampled,        \* families that look at a bounded sample
    SAMPLE_LIMIT,   \* its size
    OwnNotice,      \* families that raise an alert even when they cannot be read
    UrgentFamilies, \* families whose alerts are urgent
    Position,       \* of a key in the list that buildAlerts makes, and in a sample
    TEXT_BUDGET,    \* alerts that fit into one message
    URGENT_REMINDER, REMINDER, CLEAR_AFTER, \* intervals, in ticks
    MaxTickFailures \* bound: ticks that could not read or could not write AlertState

ASSUME AlertIntervals ==
    0 < URGENT_REMINDER /\ URGENT_REMINDER <= REMINDER /\ URGENT_REMINDER <= CLEAR_AFTER

VARIABLES
    found,      \* watches: what there is to find
    unread,     \* watches whose source cannot be read
    alertState, \* AlertState row of a key, or NotSaid
    heard,      \* what the operators last heard of a watch
    failures,   \* ticks that could not read or could not write AlertState
    silent      \* families that the last recorded tick could not see and that said nothing

alertVars == <<found, unread, alertState, heard, failures, silent>>

Blind == <<"monitoring_blind", "all">>
Overflow(f) == <<f, "overflow">>
Notices == {Blind} \cup {Overflow(f) : f \in Sampled}
AlertKeys == Watches \cup Notices
NotSaid == [fingerprint |-> {}, age |-> 0, said |-> FALSE]

AInit ==
    /\ found = {}
    /\ unread = {}
    /\ alertState = [k \in AlertKeys |-> NotSaid]
    /\ heard = [k \in Watches |-> "quiet"]
    /\ failures = 0
    /\ silent = {}

----------------------------------------------------------------------------
(* What a tick finds: buildAlerts, and the scans of the maintenance jobs.  *)

\* What a family's checks could read.  A scan reads its subjects one by one.
Readable(f) == {k \in found \ unread : k[1] = f}

\* The oldest of a family, as many as the limit takes.
sample(f) == {k \in Readable(f) :
    Cardinality({j \in Readable(f) : Position[j] < Position[k]}) < SAMPLE_LIMIT}

Truncated == {f \in Sampled : Cardinality(sample(f)) >= SAMPLE_LIMIT}

Incomplete == {k[1] : k \in unread} \cup Truncated

\* Orders read as a bounded sample: a full sample is a notice of its own.
SampledAlerts == UNION {sample(f) : f \in Sampled} \cup {Overflow(f) : f \in Truncated}

\* A count that raises the same alert when it cannot be read.
CountAlerts == UNION {Readable(f) : f \in OwnNotice} \cup {k \in unread : k[1] \in OwnNotice}

\* The other checks raise nothing of what they cannot read.
CheckAlerts == UNION {Readable(f) : f \in Families \ (Sampled \cup OwnNotice)}

Raised == SampledAlerts \cup CountAlerts \cup CheckAlerts

SilentlyBlind == Incomplete \ {k[1] : k \in Raised}

Alerts == IF SilentlyBlind = {} THEN Raised ELSE Raised \cup {Blind}

\* The blind notice names what is blind, and a count says whether it was read;
\* another alert is itself while it lasts.
Fingerprint(k) ==
    IF k = Blind THEN SilentlyBlind
    ELSE {k[1]} \cup (IF k \in unread THEN {"unreadable"} ELSE {})

Urgent(k) == k = Blind \/ (k \in Watches /\ k[1] \in UrgentFamilies)

----------------------------------------------------------------------------
(* AlertsService.raise and commit.                                         *)

DueWhileUrgent(k, fp) ==
    \/ Urgent(k)
    \/ ~ alertState[k].said
    \/ alertState[k].fingerprint # fp
    \/ alertState[k].age >= REMINDER

Due(k, fp) ==
    LET seen == alertState[k] IN
    \/ ~ seen.said
    \/ seen.fingerprint # fp
    \/ seen.age >= (IF Urgent(k) THEN URGENT_REMINDER ELSE REMINDER)

\* byUrgencyFirst
Before(j, k) ==
    IF Urgent(j) = Urgent(k) THEN Position[j] < Position[k] ELSE Urgent(j)

\* fitToBudget: what does not fit is not recorded as sent.
Included(due) == {k \in due : Cardinality({j \in due : Before(j, k)}) < TEXT_BUDGET}

Cleared(raised, incomplete) ==
    {k \in AlertKeys : /\ alertState[k].said
                       /\ k \notin raised
                       /\ alertState[k].age >= CLEAR_AFTER
                       /\ k[1] \notin incomplete}

Longest == IF REMINDER > CLEAR_AFTER THEN REMINDER ELSE CLEAR_AFTER
Older(row) == IF row.said /\ row.age < Longest THEN [row EXCEPT !.age = @ + 1] ELSE row

\* One transaction records what was said and queues the message.
Commit(sent, cleared, fp) ==
    /\ alertState' = [k \in AlertKeys |->
            IF k \in sent THEN [fingerprint |-> fp[k], age |-> 1, said |-> TRUE]
            ELSE IF k \in cleared THEN NotSaid ELSE Older(alertState[k])]
    /\ heard' = [k \in Watches |->
            IF k \in sent THEN (IF k \in unread THEN "unread" ELSE "open")
            ELSE IF k \in cleared THEN "quiet" ELSE heard[k]]

Tick ==
    /\ \E fp \in {[k \in Alerts |-> Fingerprint(k)]} :
       \E due \in {{k \in DOMAIN fp : Due(k, fp[k])}} :
       \E sent \in {Included(due)}, cleared \in {Cleared(DOMAIN fp, Incomplete)} :
            Commit(sent, cleared, fp)
    /\ silent' = SilentlyBlind
    /\ UNCHANGED <<found, unread, failures>>

\* raiseBlind: the counts could not be read, or building the alerts failed, so
\* the only alert names every check and nothing is cleared.
BlindTick ==
    LET all == [k \in {Blind} |-> Families] IN
    /\ Commit(IF Due(Blind, Families) THEN {Blind} ELSE {}, {}, all)
    /\ silent' = Families
    /\ UNCHANGED <<found, unread, failures>>

Unrecorded ==
    /\ failures < MaxTickFailures
    /\ failures' = failures + 1
    /\ alertState' = [k \in AlertKeys |-> Older(alertState[k])]
    /\ UNCHANGED <<found, unread, silent>>

\* The transaction fails: the next tick raises the alerts again.
TickFails == Unrecorded /\ UNCHANGED heard

\* AlertState cannot be read: as many of the alerts as fit are published, unless
\* the same message was queued before or queueing fails, and nothing is recorded.
\* Of a condition that has no row the operators then heard only in passing.
StateUnreadable ==
    /\ Unrecorded
    /\ \E published \in {{}, Included(Alerts)} :
        heard' = [k \in Watches |->
            IF k \in published /\ heard[k] = "quiet" THEN "in passing" ELSE heard[k]]

----------------------------------------------------------------------------
Changes(k) ==
    /\ found' = IF k \in found THEN found \ {k} ELSE found \cup {k}
    /\ UNCHANGED <<unread, alertState, heard, failures, silent>>

\* A source fails or is back.  When a sample cannot be read no alert can be
\* built: that is a BlindTick.
SourceChanges(k) ==
    /\ k[1] \notin Sampled
    /\ unread' = IF k \in unread THEN unread \ {k} ELSE unread \cup {k}
    /\ UNCHANGED <<found, alertState, heard, failures, silent>>

ANext ==
    \/ Tick
    \/ BlindTick
    \/ TickFails
    \/ StateUnreadable
    \/ \E k \in Watches : Changes(k) \/ SourceChanges(k)

ASpec == AInit /\ [][ANext]_alertVars

\* The tick runs every five minutes, and its transaction does not fail for ever.
AFairSpec == ASpec /\ WF_alertVars(Tick)

----------------------------------------------------------------------------
\* Alerts that take a place in the message before k's: those raised, and those
\* told of lately, which may be back on any tick.
Competitors(k) ==
    LET raised == Alerts IN
    {j \in AlertKeys : (j \in raised \/ alertState[j].said) /\ Before(j, k)}

(* A condition that lasts, and that its check sees, is told to the operators *)
(* once every source can be read (raise, fitToBudget), if fewer alerts come  *)
(* before it than the messages between two reminders can hold: with more of  *)
(* them the urgent ones fill every message and a routine one is never told.  *)
(* And one that has gone is not left standing: they hear that it cleared     *)
(* once no check is incomplete, unless they heard of it only in a message    *)
(* that was not recorded, which nothing takes back.                          *)
EveryConditionIsTold ==
    \A k \in Watches :
        /\ <>[](/\ k \in Raised
                /\ unread = {}
                /\ silent = {}
                /\ Cardinality(Competitors(k)) < TEXT_BUDGET * URGENT_REMINDER)
           => <>[](heard[k] = "open")
        /\ <>[](k \notin found /\ Incomplete = {} /\ silent = {})
           => <>[](heard[k] \in {"quiet", "in passing"})

=============================================================================
