----------------------------- MODULE OrderProofs ------------------------------
(***************************************************************************)
(* Proofs about the order row: whatever writers come in whatever order, and*)
(* however often the process crashes, the row tells the truth about its    *)
(* trade, a funded order stays bound, a loss is counted once and a filing  *)
(* stands.  For any operations in flight, disputes, replays and crashes.   *)
(***************************************************************************)
EXTENDS OrderSync, TLAPS

RowStatuses == PRE_CHAIN_STATUSES \cup BOUND_ON_CHAIN \cup {"EXPIRED", "CANCELLED"}
RowFields == {"status", "settledStatus", "settledAt", "hash", "resolution", "liable", "disputeBy",
              "onChainDisputedBy", "disputeLossAccrued"}
CallFields == {"op", "by", "pc", "seen", "ok", "view"}
IxFields == {"pc", "pos", "last", "seen", "view"}
EventNames == {"trade_created", "fiat_paid", "released", "early_released", "refunded", "disputed", "resolved"}
EventType == [name : EventNames, by : Raisers \cup {Null}, released : BOOLEAN, post : BOOLEAN, tx : Nat]
ChainType == [status : ChainStatuses \cup {"NONE"}, settled : SettledStatuses \cup {Null}, tx : Nat,
              used : SUBSET Raisers, liable : BOOLEAN, matches : BOOLEAN, past : SUBSET ChainStatuses]

Bound(s) == s \in BOUND_ON_CHAIN
VerdictOf(e) == IF e.released THEN "released" ELSE "refunded"
OutcomeOf(e) == IF e.released THEN "RELEASED" ELSE "REFUNDED"

ChainTrue ==
    /\ chain \in ChainType
    /\ chain.status = "NONE" => feed = <<>> /\ chain.past = {} /\ chain.liable = FALSE
    /\ chain.status # "NONE" => feed # <<>> /\ chain.status \in chain.past
    /\ chain.settled = Null => chain.tx = 0
    /\ chain.settled # Null => chain.settled \in chain.past /\ chain.status \in {chain.settled, "DISPUTED"}
    /\ chain.status \in SettledStatuses => chain.settled = chain.status

\* An event tells of a status the trade has been in, and a settling one of the
\* outcome and the transaction.
EventTrue(e) ==
    IF e.name = "resolved"
    THEN ~e.post => chain.settled = OutcomeOf(e) /\ e.tx = chain.tx
    ELSE /\ EVENT_STATUS[e.name] \in chain.past
         /\ EVENT_STATUS[e.name] \in SettledStatuses => chain.settled = EVENT_STATUS[e.name] /\ e.tx = chain.tx

FeedTrue ==
    /\ feed \in Seq(EventType)
    /\ \A i \in DOMAIN feed : EventTrue(feed[i])
    /\ feed # <<>> => feed[1].name = "trade_created"

\* A row of the order that agrees with its trade.
RowTrue(r) ==
    /\ DOMAIN r = RowFields
    /\ r.status \in RowStatuses
    /\ r.settledStatus # Null => chain.matches /\ r.settledStatus = chain.settled
    /\ r.status \in SettledStatuses => r.status = r.settledStatus
    /\ r.hash \in {0, chain.tx}
    /\ Bound(r.status) => chain.matches /\ r.status \in chain.past

\* A view of the trade that may be written to the row, whenever it was read.
Trusted(v) ==
    /\ chain.matches
    /\ v.status \in ChainStatuses \cap chain.past
    /\ v.status \in SettledStatuses => v.status = chain.settled

\* A view of whatever trade is under the order's id.
ViewTrue(v) ==
    v # NoView =>
      /\ v.status \in ChainStatuses \cap chain.past
      /\ v.matches => chain.matches
      /\ v.status \in SettledStatuses => v.status = chain.settled

CacheTrue == cache = <<>> \/ \E v : cache = <<v>> /\ ViewTrue(v)

\* What an operation carries over its awaits.
CallTrue(q) ==
    /\ DOMAIN q = CallFields
    /\ q.pc # "idle" /\ Bound(q.seen) => chain.matches
    /\ q.pc = "overwrite" \/ (q.pc = "write" /\ q.op \in Refreshing) => Trusted(q.view)
    /\ q.pc \in {"check", "reread"} => q.op \in {"file", "build"}
    /\ q.pc = "readback" => q.op = "autorefund"
    /\ q.pc \in {"readback", "write"} /\ q.op \in Refunding => chain.settled = "REFUNDED"
    /\ q.pc = "write" /\ q.op = "autorefund" => ViewTrue(q.view)
    /\ q.pc = "write" /\ q.op = "attest" => "FIAT_PAID" \in chain.past

CallsTrue == DOMAIN calls = Calls /\ \A c \in Calls : CallTrue(calls[c])

\* What the indexer carries over its awaits: it acts only on the order's own trade.
IxTrue ==
    /\ DOMAIN ix = IxFields
    /\ ix.pc \in {"idle", "row", "bind", "read", "write", "backfill", "meta", "accrue", "store"}
    /\ ix.pc # "idle" => ix.last \in 1 .. Len(feed) /\ ix.pos \in 1 .. ix.last
    /\ ix.pc = "store" => ix.pos = ix.last
    /\ ix.pc \in {"read", "write", "backfill", "meta", "accrue"} => chain.matches
    /\ ix.pc = "bind" => ix.seen \in RowStatuses /\ ~Bound(ix.seen)
    /\ ix.pc = "backfill" => Settling
    /\ ix.pc = "meta" => ev.name = "disputed"
    /\ ix.pc = "accrue" => ev.name = "resolved" /\ ix.pos \in applied
    /\ ix.pc = "write" /\ ev.name = "resolved" /\ ev.post => Trusted(ix.view)

\* The event at j has been dealt with in this poll or an earlier one.
Passed(j) == j <= cursor \/ (ix.pc # "idle" /\ j < ix.pos) \/ (ix.pc = "store" /\ j = ix.pos)

\* Verdicts are claimed in order, and what was dealt with has left its mark.
ClaimsTrue ==
    /\ cursor \in 0 .. Len(feed)
    /\ applied \subseteq {i \in DOMAIN feed : feed[i].name = "resolved"}
    /\ written \in {0} \cup applied
    /\ chain.matches /\ Passed(1) => Bound(row.status)
    /\ chain.matches => \A j \in DOMAIN feed :
         feed[j].name = "resolved" /\ (Passed(j) \/ \E i \in applied : j < i) => j \in applied

LossTrue ==
    /\ DOMAIN losses = {"user", "lp"} /\ losses["user"] \in {0, 1} /\ losses["lp"] \in {0, 1}
    /\ row.disputeLossAccrued \in BOOLEAN
    /\ row.disputeLossAccrued <=> losses["user"] + losses["lp"] > 0
    /\ \A p \in {"user", "lp"} : losses[p] = 1 => \E i \in applied : Loser(VerdictOf(feed[i])) = p
    /\ row.resolution # Null => \E i \in applied : row.resolution = VerdictOf(feed[i])

OrderInv ==
    ChainTrue /\ FeedTrue /\ RowTrue(row) /\ CacheTrue /\ CallsTrue /\ IxTrue /\ ClaimsTrue /\ LossTrue

-----------------------------------------------------------------------------
(* The trade *)

\* The feed is a sequence: its events are numbered from 1.
LEMMA FeedShape == FeedTrue => Len(feed) \in Nat /\ DOMAIN feed = 1 .. Len(feed)
BY DEF FeedTrue

\* What a step of the trade may change: its past and its events only grow, and
\* a settlement is final.
Grows ==
    /\ chain'.matches = chain.matches
    /\ chain.past \subseteq chain'.past
    /\ chain.settled # Null => chain'.settled = chain.settled /\ chain'.tx = chain.tx
    /\ chain.settled = Null => chain.tx = 0
    /\ Len(feed) <= Len(feed') /\ Len(feed) \in Nat /\ Len(feed') \in Nat
    /\ DOMAIN feed = 1 .. Len(feed) /\ DOMAIN feed' = 1 .. Len(feed')
    /\ \A i \in DOMAIN feed : feed'[i] = feed[i]

\* Events that are true of the trade after the transaction are appended
\* (Publish, Settle, RaiseDispute, Resolve).
LEMMA EventsAppended ==
    ASSUME FeedTrue, NEW es \in Seq(EventType), feed' = feed \o es,
           chain'.matches = chain.matches, chain.past \subseteq chain'.past,
           chain.settled # Null => chain'.settled = chain.settled /\ chain'.tx = chain.tx,
           chain.settled = Null => chain.tx = 0,
           chain.settled \in SettledStatuses \cup {Null},
           \A i \in DOMAIN es : EventTrue(es[i])',
           feed = <<>> => Len(es) > 0 /\ es[1].name = "trade_created"
    PROVE  FeedTrue' /\ Grows
<1>1. feed \in Seq(EventType) /\ Len(feed) \in Nat /\ Len(es) \in Nat
  BY DEF FeedTrue
<1>2. /\ feed' \in Seq(EventType) /\ Len(feed') = Len(feed) + Len(es)
      /\ \A i \in 1 .. Len(feed) + Len(es) : feed'[i] = IF i <= Len(feed) THEN feed[i] ELSE es[i - Len(feed)]
  BY <1>1
<1>3. Grows
  BY <1>1, <1>2 DEF Grows
<1>4. ASSUME NEW e \in EventType, EventTrue(e) PROVE EventTrue(e)'
  BY <1>4 DEF EventTrue, SettledStatuses, Null, OutcomeOf
<1>5. ASSUME NEW i \in DOMAIN feed' PROVE EventTrue(feed[i])'
  <2>1. i \in 1 .. Len(feed) + Len(es)
    BY <1>2
  <2>2. CASE i <= Len(feed)
    <3>1. i \in DOMAIN feed /\ feed'[i] = feed[i] /\ feed[i] \in EventType /\ EventTrue(feed[i])
      BY <1>1, <1>2, <2>1, <2>2 DEF FeedTrue
    <3>2. PICK e \in EventType : e = feed[i]
      BY <3>1
    <3>3. EventTrue(e)'
      BY <1>4, <3>1, <3>2
    <3> QED BY <3>1, <3>2, <3>3 DEF EventTrue, OutcomeOf
  <2>3. CASE i > Len(feed)
    <3>1. PICK k \in DOMAIN es : feed'[i] = es[k]
      BY <1>1, <1>2, <2>1, <2>3
    <3> QED BY <3>1 DEF EventTrue, OutcomeOf
  <2> QED BY <1>1, <2>1, <2>2, <2>3
<1>6. feed'[1].name = "trade_created" \/ Len(feed') = 0
  <2>1. CASE feed = <<>>
    BY <1>1, <1>2, <2>1
  <2>2. CASE feed # <<>>
    <3>1. Len(feed) > 0
      BY <1>1, <2>2
    <3> QED BY <1>1, <1>2, <2>2, <3>1 DEF FeedTrue
  <2> QED BY <2>1, <2>2
<1> QED BY <1>2, <1>3, <1>5, <1>6 DEF FeedTrue

\* Every transaction of the trade publishes what it does (TradeFeed).
LEMMA FeedStep ==
    ASSUME ChainTrue, FeedTrue, [FeedNext]_feedVars
    PROVE  ChainTrue' /\ FeedTrue' /\ Grows
<1>1. CASE UNCHANGED feedVars
  <2>1. ChainTrue' /\ FeedTrue'
    BY <1>1 DEF feedVars, ChainTrue, FeedTrue, EventTrue, OutcomeOf
  <2>2. Len(feed) \in Nat /\ DOMAIN feed = 1 .. Len(feed)
    BY DEF FeedTrue
  <2> QED BY <1>1, <2>1, <2>2 DEF feedVars, Grows, ChainTrue
<1>t. PICK t \in Nat : t = NextTx
  <2>1. CASE feed = <<>>
    BY <2>1 DEF NextTx
  <2>2. CASE feed # <<>>
    <3>1. feed[Len(feed)] \in EventType
      BY <2>2 DEF FeedTrue
    <3> QED BY <2>2, <3>1 DEF NextTx, EventType
  <2> QED BY <2>1, <2>2
<1>e. ASSUME NEW n \in EventNames, NEW b \in Raisers \cup {Null}, NEW r \in BOOLEAN, NEW p \in BOOLEAN
      PROVE  /\ Event(n, b, r, p) = [name |-> n, by |-> b, released |-> r, post |-> p, tx |-> t]
             /\ [name |-> n, by |-> b, released |-> r, post |-> p, tx |-> t] \in EventType
             /\ <<Event(n, b, r, p)>> \in Seq(EventType)
  BY <1>t DEF Event, EventType
<1>c. /\ chain \in ChainType /\ chain.past \subseteq ChainStatuses
      /\ chain.settled \in SettledStatuses \cup {Null} /\ chain.status \in ChainStatuses \cup {"NONE"}
      /\ chain.status = "NONE" => feed = <<>>
      /\ chain.settled = Null => chain.tx = 0
  BY DEF ChainTrue, ChainType
<1>p. ASSUME NEW s \in {"FUNDED", "FIAT_PAID"}, NEW n \in {"trade_created", "fiat_paid"},
             EVENT_STATUS[n] = s, chain.settled = Null, Publish(s, <<Plain(n)>>),
             feed = <<>> => n = "trade_created"
      PROVE  ChainTrue' /\ FeedTrue' /\ Grows
  <2>0. PICK e \in EventType : e = [name |-> n, by |-> Null, released |-> FALSE, post |-> FALSE, tx |-> t]
    BY Zenon, <1>e DEF EventNames
  <2>1. <<Plain(n)>> = <<e>> /\ e.name = n
    BY Zenon, <1>e, <2>0 DEF Plain, EventNames
  <2>2. chain' = [chain EXCEPT !.status = s, !.past = @ \cup {s}] /\ feed' = feed \o <<e>>
    BY <1>p, <2>1 DEF Publish
  <2>3. ChainTrue'
    <3>1. chain' \in ChainType /\ chain'.status = s /\ chain'.past = chain.past \cup {s} /\ chain'.settled = Null
          /\ chain'.tx = 0
      BY Zenon, <1>c, <1>p, <2>2 DEF ChainType, ChainStatuses
    <3>2. feed' # <<>>
      <4>1. Len(feed') = Len(feed) + 1 /\ Len(feed) \in Nat
        BY <2>1, <2>2 DEF FeedTrue
      <4> QED BY <4>1
    <3> QED BY <3>1, <3>2 DEF ChainTrue, SettledStatuses
  <2>4. /\ chain'.matches = chain.matches /\ chain.past \subseteq chain'.past /\ s \in chain'.past
        /\ chain'.settled = chain.settled /\ chain'.tx = chain.tx
    BY <1>c, <2>2 DEF ChainType
  <2>5. EventTrue(e)'
    BY <1>p, <2>1, <2>4 DEF EventTrue, SettledStatuses
  <2>6. <<e>> \in Seq(EventType) /\ Len(<<e>>) = 1 /\ <<e>>[1] = e /\ DOMAIN <<e>> = {1}
    OBVIOUS
  <2>6a. PICK es \in Seq(EventType) : es = <<e>> /\ Len(es) = 1 /\ es[1] = e /\ DOMAIN es = {1}
    BY ONLY Zenon, <2>6
  <2>7. /\ \A i \in DOMAIN es : EventTrue(es[i])'
        /\ feed = <<>> => Len(es) > 0 /\ es[1].name = "trade_created"
        /\ feed' = feed \o es
    BY <1>p, <2>1, <2>2, <2>5, <2>6a
  <2>8. FeedTrue' /\ Grows
    BY Zenon, <1>c, <1>p, <2>4, <2>7, EventsAppended
  <2> QED BY <2>3, <2>8
<1>s. ASSUME NEW o \in SettledStatuses, NEW es \in Seq(EventType), Settle(o, es),
             chain.settled = Null, chain.status # "NONE",
             \A i \in DOMAIN es :
               /\ es[i].tx = t
               /\ IF es[i].name = "resolved" THEN OutcomeOf(es[i]) = o ELSE EVENT_STATUS[es[i].name] = o
      PROVE  ChainTrue' /\ FeedTrue' /\ Grows
  <2>1. /\ chain' = [chain EXCEPT !.status = o, !.past = @ \cup {o}, !.settled = o, !.tx = t]
        /\ feed' = feed \o es
    BY <1>s, <1>t DEF Settle
  <2>2. /\ chain' \in ChainType /\ chain'.status = o /\ chain'.past = chain.past \cup {o}
        /\ chain'.settled = o /\ chain'.tx = t /\ chain'.matches = chain.matches
    BY Zenon, <1>c, <1>s, <1>t, <2>1 DEF ChainType, ChainStatuses, SettledStatuses
  <2>3. feed # <<>>
    BY <1>s DEF ChainTrue
  <2>4. ASSUME NEW i \in DOMAIN es PROVE EventTrue(es[i])'
    BY <1>s, <2>2, <2>4 DEF EventTrue
  <2>5. FeedTrue' /\ Grows
    BY <1>c, <1>s, <2>1, <2>2, <2>3, <2>4, EventsAppended
  <2>6. feed' # <<>>
    <3>1. Len(feed) > 0 /\ Len(feed) \in Nat /\ Len(feed) <= Len(feed')
      BY <2>3, <2>5 DEF FeedTrue, Grows
    <3> QED BY <3>1
  <2>7. o # Null /\ o # "NONE"
    BY <1>s DEF SettledStatuses, Null
  <2> QED BY <2>2, <2>5, <2>6, <2>7 DEF ChainTrue
<1>1a. ASSUME NEW n \in {"released", "early_released", "refunded"}, NEW o \in SettledStatuses,
              EVENT_STATUS[n] = o, Settle(o, <<Plain(n)>>), chain.settled = Null, chain.status # "NONE"
       PROVE  ChainTrue' /\ FeedTrue' /\ Grows
  <2> DEFINE e == [name |-> n, by |-> Null, released |-> FALSE, post |-> FALSE, tx |-> t]
  <2>1. e \in EventType /\ <<Plain(n)>> = <<e>> /\ e.name = n /\ e.tx = t
    BY Zenon, <1>e DEF Plain, EventNames
  <2> HIDE DEF e
  <2>2. <<e>> \in Seq(EventType) /\ \A i \in DOMAIN <<e>> : <<e>>[i] = e
    BY <2>1
  <2> QED BY Zenon, <1>1a, <1>s, <2>1, <2>2
<1>u. chain.status \in {"FUNDED", "FIAT_PAID"} => chain.settled = Null
  BY <1>c DEF ChainTrue, SettledStatuses
<1>2. CASE Fund
  <2>1. chain.status = "NONE" /\ chain.settled = Null
    BY <1>2, <1>c DEF Fund, ChainTrue, SettledStatuses
  <2> QED BY <1>2, <1>p, <2>1 DEF Fund, EVENT_STATUS
<1>3. CASE MarkFiatPaid
  <2>1. feed # <<>>
    BY <1>3 DEF MarkFiatPaid, ChainTrue
  <2> QED BY <1>3, <1>p, <1>u, <2>1 DEF MarkFiatPaid, EVENT_STATUS
<1>4. CASE Release
  BY <1>4, <1>1a, <1>u DEF Release, EVENT_STATUS, SettledStatuses
<1>5. CASE Refund
  BY <1>5, <1>1a, <1>u DEF Refund, EVENT_STATUS, SettledStatuses
<1>a. ASSUME NEW e \in EventType, feed' = Append(feed, e), chain' \in ChainType, feed # <<>>,
             chain'.matches = chain.matches, chain.past \subseteq chain'.past,
             chain'.settled = chain.settled, chain'.tx = chain.tx, EventTrue(e)'
      PROVE  FeedTrue' /\ Grows /\ feed' # <<>>
  <2>1. feed' = feed \o <<e>> /\ Len(feed') = Len(feed) + 1 /\ Len(feed) \in Nat
    BY <1>a DEF FeedTrue
  <2>2. <<e>> \in Seq(EventType) /\ DOMAIN <<e>> = {1} /\ <<e>>[1] = e
    OBVIOUS
  <2>3. \A i \in DOMAIN <<e>> : EventTrue(<<e>>[i])'
    BY <1>a, <2>2 DEF EventTrue, OutcomeOf
  <2>4. FeedTrue' /\ Grows
    BY Zenon, <1>a, <1>c, <2>1, <2>2, <2>3, EventsAppended
  <2> QED BY <2>1, <2>4
<1>6. ASSUME NEW by \in Raisers, RaiseDispute(by)
      PROVE  ChainTrue' /\ FeedTrue' /\ Grows
  <2> DEFINE e == [name |-> "disputed", by |-> by, released |-> FALSE, post |-> FALSE, tx |-> t]
  <2>1. e \in EventType /\ feed' = Append(feed, e) /\ e.name = "disputed"
    BY Zenon, <1>6, <1>e DEF RaiseDispute, EventNames
  <2> HIDE DEF e
  <2>2. chain.status # "NONE" /\ feed # <<>>
    BY <1>6 DEF RaiseDispute, Raisable, SettledStatuses, ChainTrue
  <2>3. /\ chain' \in ChainType /\ chain'.status = "DISPUTED" /\ chain'.past = chain.past \cup {"DISPUTED"}
        /\ chain'.settled = chain.settled /\ chain'.tx = chain.tx /\ chain'.matches = chain.matches
    BY Zenon, <1>6, <1>c DEF RaiseDispute, ChainType, ChainStatuses
  <2>4. EventTrue(e)'
    BY <2>1, <2>3 DEF EventTrue, EVENT_STATUS, SettledStatuses
  <2>5. FeedTrue' /\ Grows /\ feed' # <<>>
    BY <1>a, <2>1, <2>2, <2>3, <2>4
  <2> QED BY <2>3, <2>5 DEF ChainTrue, SettledStatuses
<1>7. ASSUME NEW released \in BOOLEAN, Resolve(released)
      PROVE  ChainTrue' /\ FeedTrue' /\ Grows
  <2>0. chain.status = "DISPUTED" /\ feed # <<>>
    BY <1>7 DEF Resolve, ChainTrue
  <2>1. CASE chain.settled = Null /\ released
    <3> DEFINE e == [name |-> "resolved", by |-> Null, released |-> TRUE, post |-> FALSE, tx |-> t]
    <3>1. e \in EventType /\ <<Event("resolved", Null, TRUE, FALSE)>> = <<e>> /\ e.name = "resolved"
          /\ e.tx = t /\ OutcomeOf(e) = "RELEASED"
      BY Zenon, <1>e DEF EventNames, OutcomeOf
    <3>2. Settle("RELEASED", <<e>>)
      BY Zenon, <1>7, <2>1, <3>1 DEF Resolve
    <3> HIDE DEF e
    <3>3. <<e>> \in Seq(EventType) /\ \A i \in DOMAIN <<e>> : <<e>>[i] = e
      BY <3>1
    <3> QED BY Zenon, <1>s, <2>0, <2>1, <3>1, <3>2, <3>3 DEF SettledStatuses
  <2>2. CASE chain.settled = Null /\ ~released
    <3> DEFINE d == [name |-> "refunded", by |-> Null, released |-> FALSE, post |-> FALSE, tx |-> t]
               e == [name |-> "resolved", by |-> Null, released |-> FALSE, post |-> FALSE, tx |-> t]
    <3>1. /\ d \in EventType /\ Plain("refunded") = d /\ d.name = "refunded" /\ d.tx = t
          /\ e \in EventType /\ Event("resolved", Null, FALSE, FALSE) = e /\ e.name = "resolved"
          /\ e.tx = t /\ OutcomeOf(e) = "REFUNDED"
      BY Zenon, <1>e DEF EventNames, OutcomeOf, Plain
    <3>2. Settle("REFUNDED", <<d, e>>)
      BY Zenon, <1>7, <2>2, <3>1 DEF Resolve
    <3> HIDE DEF d, e
    <3>3. <<d, e>> \in Seq(EventType) /\ \A i \in DOMAIN <<d, e>> : <<d, e>>[i] \in {d, e}
      BY <3>1
    <3>4. PICK es \in Seq(EventType) : es = <<d, e>> /\ \A i \in DOMAIN es : es[i] \in {d, e}
      BY Zenon, <3>3
    <3>5. EVENT_STATUS["refunded"] = "REFUNDED"
      BY DEF EVENT_STATUS
    <3>6. \A i \in DOMAIN es :
            /\ es[i].tx = t
            /\ IF es[i].name = "resolved" THEN OutcomeOf(es[i]) = "REFUNDED" ELSE EVENT_STATUS[es[i].name] = "REFUNDED"
      BY <3>1, <3>4, <3>5
    <3>7. Settle("REFUNDED", es) /\ "REFUNDED" \in SettledStatuses
      BY <3>2, <3>4 DEF SettledStatuses
    <3> QED BY <1>s, <2>0, <2>2, <3>6, <3>7
  <2>3. CASE chain.settled # Null
    <3> DEFINE e == [name |-> "resolved", by |-> Null, released |-> released, post |-> TRUE, tx |-> t]
    <3>1. e \in EventType /\ feed' = Append(feed, e) /\ e.name = "resolved" /\ e.post
      BY Zenon, <1>7, <1>e, <2>3 DEF Resolve, EventNames
    <3> HIDE DEF e
    <3>2. /\ chain' \in ChainType /\ chain'.status = chain.settled /\ chain'.past = chain.past
          /\ chain'.settled = chain.settled /\ chain'.tx = chain.tx /\ chain'.matches = chain.matches
      <4>1. PICK l \in BOOLEAN : chain' = [chain EXCEPT !.status = chain.settled, !.liable = l]
        BY Zenon, <1>7, <1>c, <2>3 DEF Resolve, ChainType
      <4>2. chain \in ChainType /\ chain.settled \in ChainStatuses
        BY <1>c, <2>3 DEF ChainType, SettledStatuses, ChainStatuses
      <4> QED BY ONLY Zenon, <4>1, <4>2 DEF ChainType
    <3>3. EventTrue(e)'
      BY <3>1 DEF EventTrue
    <3>4. FeedTrue' /\ Grows /\ feed' # <<>>
      BY <1>a, <2>0, <3>1, <3>2, <3>3
    <3> QED BY <1>c, <2>3, <3>2, <3>4 DEF ChainTrue, SettledStatuses
  <2> QED BY <2>1, <2>2, <2>3
<1> QED BY <1>1, <1>2, <1>3, <1>4, <1>5, <1>6, <1>7 DEF FeedNext

-----------------------------------------------------------------------------
(* What was read stays true, and what is left alone stays in order *)

\* The trade only grows, so what was read of it earlier stays true.
LEMMA ReadStaysTrue ==
    ASSUME ChainTrue, Grows
    PROVE  /\ \A v : Trusted(v) => Trusted(v)'
           /\ \A v : ViewTrue(v) => ViewTrue(v)'
           /\ \A q : CallTrue(q) => CallTrue(q)'
           /\ \A r : RowTrue(r) => RowTrue(r)'
<1>1. chain.settled \in SettledStatuses \cup {Null} /\ Null \notin SettledStatuses
  BY DEF ChainTrue, ChainType, SettledStatuses, Null
<1>2. ASSUME NEW v, Trusted(v) PROVE Trusted(v)'
  BY <1>1, <1>2 DEF Trusted, Grows
<1>3. ASSUME NEW v, ViewTrue(v) PROVE ViewTrue(v)'
  BY <1>1, <1>3 DEF ViewTrue, Grows
<1>4. ASSUME NEW q, CallTrue(q) PROVE CallTrue(q)'
  <2>1. chain.settled = "REFUNDED" => chain'.settled = "REFUNDED"
    BY <1>1 DEF Grows, Null
  <2> QED BY <1>2, <1>3, <1>4, <2>1 DEF CallTrue, Grows
<1>5. ASSUME NEW r, RowTrue(r) PROVE RowTrue(r)'
  <2>1. r.hash \in {0, chain'.tx}
    BY <1>1, <1>5 DEF RowTrue, Grows
  <2>2. r.settledStatus # Null => chain'.matches /\ r.settledStatus = chain'.settled
    BY <1>1, <1>5 DEF RowTrue, Grows
  <2> QED BY <1>5, <2>1, <2>2 DEF RowTrue, Grows
<1> QED BY <1>2, <1>3, <1>4, <1>5

\* A writer of the row that records no verdict and counts no loss.
RowMoves ==
    /\ RowTrue(row)'
    /\ Bound(row.status) => Bound(row'.status)
    /\ row'.disputeLossAccrued = row.disputeLossAccrued
    /\ row'.resolution = row.resolution

\* What the operations do leaves the indexer and the count of losses in order.
LEMMA IndexerLeftAlone ==
    ASSUME OrderInv, Grows, RowMoves, UNCHANGED <<ix, cursor, applied, losses, written>>
    PROVE  IxTrue' /\ ClaimsTrue' /\ LossTrue'
<1>0. /\ ChainTrue /\ FeedTrue /\ IxTrue /\ ClaimsTrue /\ LossTrue
      /\ Len(feed) \in Nat /\ Len(feed') \in Nat /\ Len(feed) <= Len(feed')
      /\ DOMAIN feed = 1 .. Len(feed) /\ DOMAIN feed' = 1 .. Len(feed')
      /\ \A i \in DOMAIN feed : feed'[i] = feed[i]
  BY DEF OrderInv, Grows
<1>1. ix.pc # "idle" => ix.pos \in DOMAIN feed /\ feed'[ix.pos] = feed[ix.pos] /\ ix.last \in 1 .. Len(feed')
  BY <1>0 DEF IxTrue
<1>2. IxTrue'
  <2>1. Trusted(ix.view) => Trusted(ix.view)'
    <3>1. PICK v : v = ix.view
      OBVIOUS
    <3>2. Trusted(v) => Trusted(v)'
      BY Zenon, <1>0, ReadStaysTrue
    <3> QED BY <3>1, <3>2 DEF Trusted
  <2> QED BY Zenon, <1>0, <1>1, <2>1 DEF IxTrue, ev, Settling, Grows
<1>3. applied \subseteq DOMAIN feed /\ cursor \in 0 .. Len(feed)
  BY <1>0 DEF ClaimsTrue
<1>4. \A j \in DOMAIN feed' : (Passed(j) \/ \E i \in applied : j < i) => j \in DOMAIN feed
  BY <1>0, <1>1, <1>3 DEF Passed
<1>5. ClaimsTrue'
  <2>1. \A j : Passed(j)' <=> Passed(j)
    BY DEF Passed
  <2>2. applied' \subseteq {i \in DOMAIN feed' : feed'[i].name = "resolved"}
    BY <1>0 DEF ClaimsTrue
  <2>3. chain'.matches = chain.matches
    BY DEF Grows
  <2>4. ASSUME chain'.matches, NEW j \in DOMAIN feed', feed'[j].name = "resolved",
               Passed(j) \/ \E i \in applied : j < i
        PROVE  j \in applied
    <3>1. j \in DOMAIN feed /\ feed'[j] = feed[j]
      BY <1>0, <1>4, <2>4
    <3> QED BY <1>0, <2>3, <2>4, <3>1 DEF ClaimsTrue
  <2>5. chain'.matches /\ Passed(1) => Bound(row'.status)
    BY <1>0, <2>3 DEF ClaimsTrue, RowMoves
  <2> QED BY <1>0, <2>1, <2>2, <2>4, <2>5 DEF ClaimsTrue
<1>6. LossTrue'
  <2>1. \A i \in applied : feed'[i] = feed[i]
    BY <1>0, <1>3
  <2> QED BY <1>0, <2>1 DEF LossTrue, RowMoves, VerdictOf
<1> QED BY <1>2, <1>5, <1>6

\* A cached read answers what the trade has shown, or nothing (getTradeStatus).
LEMMA CachedReadIsTrue ==
    ASSUME ChainTrue, CacheTrue, NEW v, getTradeStatus(v), UNCHANGED feedVars
    PROVE  ViewTrue(v) /\ CacheTrue'
<1>1. ViewTrue(getTradeStatusStrict) /\ ViewTrue(NoView)
  <2>1. CASE chain.status = "NONE"
    BY Zenon, <2>1 DEF ChainTrue, ViewTrue, getTradeStatusStrict, NoView
  <2>2. CASE chain.status # "NONE"
    <3>1. /\ getTradeStatusStrict.status = chain.status
          /\ getTradeStatusStrict.matches => chain.matches
      BY Zenon DEF getTradeStatusStrict
    <3> QED BY <2>2, <3>1 DEF ChainTrue, ChainType, ViewTrue
  <2> QED BY <2>1, <2>2
<1>2. ViewTrue(v)
  <2>1. CASE cache = <<v>>
    <3>1. PICK u : cache = <<u>> /\ ViewTrue(u)
      BY <2>1 DEF CacheTrue
    <3> QED BY <2>1, <3>1
  <2>2. CASE v \in {getTradeStatusStrict, NoView}
    BY <1>1, <2>2
  <2> QED BY <2>1, <2>2 DEF getTradeStatus
<1>3. ViewTrue(v)'
  BY <1>2 DEF ViewTrue, feedVars
<1>4. cache' = <<v>>
  BY DEF getTradeStatus
<1> QED BY <1>2, <1>3, <1>4 DEF CacheTrue

\* Writing a trusted view to a true row leaves a true row (Mirror).
LEMMA MirrorIsTrue ==
    ASSUME ChainTrue, NEW v, Trusted(v), NEW r, RowTrue(r)
    PROVE  /\ RowTrue(Mirror(v, r)) /\ Bound(Mirror(v, r).status)
           /\ Mirror(v, r).disputeLossAccrued = r.disputeLossAccrued
           /\ Mirror(v, r).resolution = r.resolution
           /\ Mirror(v, r).disputeBy = r.disputeBy
<1>1. v.status \in ChainStatuses /\ v.status \in chain.past /\ chain.matches
  BY DEF Trusted
<1>2. CASE v.status \in SettledStatuses
  <2> DEFINE m == [[r EXCEPT !.settledStatus = v.status, !.settledAt = TRUE, !.liable = v.liable]
                     EXCEPT !.status = v.status]
  <2>1. Mirror(v, r) = m
    BY Zenon, <1>2 DEF Mirror, settlementFieldsFrom
  <2>2. /\ DOMAIN m = RowFields /\ m.status = v.status /\ m.settledStatus = v.status /\ m.hash = r.hash
        /\ m.disputeLossAccrued = r.disputeLossAccrued /\ m.resolution = r.resolution /\ m.disputeBy = r.disputeBy
    BY DEF RowTrue, RowFields
  <2> HIDE DEF m
  <2> QED BY <1>1, <1>2, <2>1, <2>2 DEF RowTrue, Trusted, Bound, RowStatuses, BOUND_ON_CHAIN
<1>3. CASE v.status \notin SettledStatuses
  <2> DEFINE m == [r EXCEPT !.status = v.status]
  <2>1. Mirror(v, r) = m
    BY <1>3 DEF Mirror, settlementFieldsFrom
  <2>2. /\ DOMAIN m = RowFields /\ m.status = v.status /\ m.settledStatus = r.settledStatus /\ m.hash = r.hash
        /\ m.disputeLossAccrued = r.disputeLossAccrued /\ m.resolution = r.resolution /\ m.disputeBy = r.disputeBy
    BY DEF RowTrue, RowFields
  <2> HIDE DEF m
  <2> QED BY <1>1, <1>3, <2>1, <2>2 DEF RowTrue, Bound, RowStatuses, BOUND_ON_CHAIN
<1> QED BY <1>2, <1>3

\* A cached view stays true while the trade goes on.
LEMMA CacheLeftAlone ==
    ASSUME ChainTrue, CacheTrue, Grows, cache' = cache \/ cache' = <<>>
    PROVE  CacheTrue'
<1>1. CASE cache' = <<>>
  BY <1>1 DEF CacheTrue
<1>2. CASE cache' = cache /\ cache # <<>>
  <2>1. PICK v : cache = <<v>> /\ ViewTrue(v)
    BY <1>2 DEF CacheTrue
  <2>2. ViewTrue(v)'
    BY <2>1, ReadStaysTrue
  <2> QED BY <1>2, <2>1, <2>2 DEF CacheTrue
<1> QED BY <1>1, <1>2

\* An operation writes a true row and leaves the verdict and the loss alone.
LEMMA RowWritten ==
    ASSUME UNCHANGED feedVars, NEW r, RowTrue(r), row' = r,
           Bound(row.status) => Bound(r.status),
           r.disputeLossAccrued = row.disputeLossAccrued, r.resolution = row.resolution
    PROVE  RowMoves
BY DEF RowMoves, RowTrue, Bound, feedVars

\* What an operation in flight may do without disturbing anything else.
LEMMA OperationKeeps ==
    ASSUME OrderInv, [FeedNext]_feedVars, UNCHANGED <<ix, cursor, applied, losses, written>>,
           CallsTrue', CacheTrue', row' = row \/ RowMoves
    PROVE  OrderInv'
<1>0. ChainTrue /\ FeedTrue /\ RowTrue(row) /\ CacheTrue /\ CallsTrue
  BY DEF OrderInv
<1>1. ChainTrue' /\ FeedTrue' /\ Grows
  BY <1>0, FeedStep
<1>2. RowMoves
  <2>1. CASE row' = row
    <3>1. PICK r : r = row
      OBVIOUS
    <3>2. RowTrue(r)'
      BY <1>0, <1>1, <3>1, ReadStaysTrue
    <3> QED BY <2>1, <3>1, <3>2 DEF RowMoves, RowTrue, Bound
  <2> QED BY <2>1
<1>3. IxTrue' /\ ClaimsTrue' /\ LossTrue'
  BY <1>1, <1>2, IndexerLeftAlone
<1> QED BY <1>1, <1>2, <1>3 DEF OrderInv, RowMoves

\* An operation goes on with q.
LEMMA OperationMoves ==
    ASSUME ChainTrue, CallsTrue, Grows, NEW c \in Calls, NEW q, Become(c, q), CallTrue(q)'
    PROVE  CallsTrue'
<1>1. calls' = [calls EXCEPT ![c] = q] /\ DOMAIN calls = Calls
  BY DEF Become, CallsTrue
<1>2. ASSUME NEW d \in Calls PROVE CallTrue(calls[d])'
  <2>1. CASE d = c
    <3>1. calls'[d] = q
      BY SMTT(30), <1>1, <2>1
    <3> QED BY <3>1 DEF CallTrue, Trusted, ViewTrue
  <2>2. CASE d # c
    <3>1. PICK p : p = calls[d]
      OBVIOUS
    <3>2. calls'[d] = p /\ CallTrue(p)
      BY <1>1, <2>2, <3>1 DEF CallsTrue
    <3>3. CallTrue(p)'
      BY <3>2, ReadStaysTrue
    <3> QED BY <3>2, <3>3 DEF CallTrue, Trusted, ViewTrue
  <2> QED BY <2>1, <2>2
<1> QED BY <1>1, <1>2 DEF CallsTrue

\* An operation ends.
LEMMA OperationReturns ==
    ASSUME ChainTrue, CallsTrue, Grows, NEW c \in Calls, Return(c)
    PROVE  CallsTrue'
<1>1. PICK q : q = NoCall
  BY Zenon
<1>2. CallTrue(q)'
  BY <1>1 DEF CallTrue, NoCall, CallFields
<1>3. Become(c, q)
  BY <1>1 DEF Return
<1> QED BY <1>2, <1>3, OperationMoves

\* An operation goes on to a step that relies on nothing it read.
LEMMA OperationSteps ==
    ASSUME ChainTrue, CallsTrue, Grows, NEW c \in Calls, NEW pc, Step(c, pc), calls[c].pc # "idle",
           \/ pc \in {"simulate", "claim", "submit"}
           \/ pc \in {"check", "reread"} /\ calls[c].op \in {"file", "build"}
           \/ pc = "write" /\ calls[c].op \in {"cancel", "expire"}
    PROVE  CallsTrue'
<1>1. PICK p : p = calls[c]
  OBVIOUS
<1>2. PICK q : q = [p EXCEPT !.pc = pc]
  BY Zenon
<1>3. CallTrue(p)
  BY <1>1 DEF CallsTrue
<1>4. CallTrue(p)'
  BY <1>3, ReadStaysTrue
<1>5. DOMAIN q = CallFields /\ q.pc = pc /\ q.op = p.op /\ q.seen = p.seen /\ q.view = p.view
  BY <1>2, <1>3 DEF CallTrue, CallFields
<1>6. CallTrue(q)'
  BY <1>1, <1>4, <1>5 DEF CallTrue, Refreshing, Refunding
<1>7. Become(c, q)
  BY <1>1, <1>2 DEF Step
<1> QED BY <1>6, <1>7, OperationMoves

\* An operation takes hold of the row (Begin, FileCheck).
LEMMA OperationHolds ==
    ASSUME ChainTrue, CallsTrue, RowTrue(row), Grows, NEW c \in Calls, NEW op, NEW by, Become(c, Holding(op, by))
    PROVE  CallsTrue'
<1>1. PICK q : q = Holding(op, by)
  OBVIOUS
<1>2. DOMAIN q = CallFields /\ q.pc \in {"submit", "check", "read"} /\ q.seen = row.status
      /\ (q.pc = "check" => q.op \in {"file", "build"})
  BY <1>1 DEF Holding, NoCall, CallFields
<1>3. Bound(q.seen) => chain'.matches
  BY <1>2 DEF RowTrue, Grows
<1>4. CallTrue(q)'
  BY <1>2, <1>3 DEF CallTrue
<1> QED BY <1>1, <1>4, OperationMoves

-----------------------------------------------------------------------------
(* The operations *)

\* Operations that only read keep the invariant.
LEMMA ReadersKeep ==
    ASSUME OrderInv, NEW c \in Calls,
           \/ Begin(c) \/ CallFails(c) \/ RefreshRead(c) \/ FileCheck(c) \/ FileSimulate(c)
           \/ CancelRead(c) \/ ExpireRead(c) \/ RefundRead(c) \/ RefundReadBack(c)
    PROVE  OrderInv'
<1>0. ChainTrue /\ FeedTrue /\ RowTrue(row) /\ CacheTrue /\ CallsTrue /\ CallTrue(calls[c])
  BY DEF OrderInv, CallsTrue
<1>u. UNCHANGED <<feedVars, row, ix, cursor, applied, losses, written>>
  BY Zenon DEF Begin, CallFails, RefreshRead, FileCheck, FileSimulate, CancelRead, ExpireRead, RefundRead, RefundReadBack
<1>g. Grows
  BY <1>0, <1>u, FeedStep
<1>k. CallsTrue' /\ CacheTrue' => OrderInv'
  BY SMTT(30), <1>u, OperationKeeps
<1>v. ASSUME NEW v, ViewTrue(v), v # NoView, tradeBindsToOrder(v, calls[c].seen), calls[c].pc # "idle"
      PROVE  Trusted(v)
  BY <1>0, <1>v DEF ViewTrue, Trusted, tradeBindsToOrder, notYetBoundOnChain, CallTrue, Bound
<1>w. ASSUME NEW v, ViewTrue(v), NEW pc, Become(c, [calls[c] EXCEPT !.pc = pc, !.view = v]),
             calls[c].pc # "idle",
             \/ pc = "overwrite" /\ Trusted(v)
             \/ pc = "write" /\ calls[c].op \in Refreshing /\ Trusted(v)
             \/ pc = "write" /\ calls[c].pc = "readback"
      PROVE  CallsTrue'
  <2>1. PICK p : p = calls[c]
    OBVIOUS
  <2>2. PICK q : q = [p EXCEPT !.pc = pc, !.view = v]
    OBVIOUS
  <2>3. CallTrue(p)' /\ ViewTrue(v)' /\ (Trusted(v) => Trusted(v)')
    BY <1>0, <1>g, <1>w, <2>1, ReadStaysTrue
  <2>4. DOMAIN q = CallFields /\ q.pc = pc /\ q.op = p.op /\ q.seen = p.seen /\ q.view = v
    BY <2>2, <2>3 DEF CallTrue, CallFields
  <2>5. CallTrue(q)'
    <3>1. CASE pc = "overwrite"
      BY <1>w, <2>1, <2>3, <2>4, <3>1 DEF CallTrue
    <3>2. CASE pc = "write" /\ p.op \in Refreshing /\ Trusted(v)
      BY <1>w, <2>1, <2>3, <2>4, <3>2 DEF CallTrue, Refreshing, Refunding
    <3>3. CASE pc = "write" /\ p.pc = "readback"
      BY <1>w, <2>1, <2>3, <2>4, <3>3 DEF CallTrue, Refreshing, Refunding
    <3> QED BY <1>w, <2>1, <3>1, <3>2, <3>3
  <2>6. Become(c, q)
    BY <1>w, <2>1, <2>2
  <2> QED BY <1>0, <1>g, <2>5, <2>6, OperationMoves
<1>s. ViewTrue(getTradeStatusStrict) /\ ViewTrue(NoView)
  BY Zenon, <1>0 DEF ViewTrue, getTradeStatusStrict, ChainTrue, ChainType, NoView
<1>c. UNCHANGED cache => CacheTrue'
  BY <1>0, <1>g, CacheLeftAlone
<1>1. CASE Begin(c)
  <2>1. PICK op, by : Become(c, Holding(op, by))
    BY <1>1 DEF Begin
  <2>2. UNCHANGED cache
    BY <1>1 DEF Begin
  <2> QED BY Zenon, <1>0, <1>g, <1>k, <1>c, <2>1, <2>2, OperationHolds
<1>2. CASE CallFails(c)
  BY <1>0, <1>g, <1>k, <1>c, <1>2, OperationReturns DEF CallFails
<1>3. CASE RefreshRead(c)
  <2>1. PICK v : getTradeStatus(v) /\
          LET s == calls[c].seen IN
            CASE v # NoView /\ tradeBindsToOrder(v, s) /\ isAhead(v.status, s) ->
                   Become(c, [calls[c] EXCEPT !.pc = "write", !.view = v])
              [] OTHER -> IF calls[c].op = "refresh" THEN Return(c) ELSE Step(c, "check")
    BY Zenon, <1>3 DEF RefreshRead
  <2>2. calls[c].pc = "read" /\ calls[c].op \in Refreshing
    BY Zenon, <1>3 DEF RefreshRead
  <2>3. ViewTrue(v) /\ CacheTrue'
    BY <1>0, <1>u, <2>1, CachedReadIsTrue
  <2>4. CallsTrue'
    <3>1. CASE /\ v # NoView /\ tradeBindsToOrder(v, calls[c].seen)
               /\ Become(c, [calls[c] EXCEPT !.pc = "write", !.view = v])
      <4>1. Trusted(v)
        BY <1>v, <2>2, <2>3, <3>1
      <4> QED BY Zenon, <1>w, <2>2, <2>3, <3>1, <4>1
    <3>2. CASE Return(c)
      BY <1>0, <1>g, <3>2, OperationReturns
    <3>3. CASE calls[c].op # "refresh" /\ Step(c, "check")
      BY <1>0, <1>g, <2>2, <3>3, OperationSteps DEF Refreshing
    <3> QED BY <2>1, <3>1, <3>2, <3>3
  <2> QED BY <1>k, <2>3, <2>4
<1>4. CASE FileCheck(c)
  <2>1. calls[c].pc # "idle" /\ UNCHANGED cache
    BY Zenon, <1>4 DEF FileCheck
  <2>3. CASE Return(c)
    BY ZenonT(60), <1>0, <1>g, <1>k, <1>c, <2>1, <2>3, OperationReturns
  <2>4. CASE Become(c, Holding("build", calls[c].by))
    BY <1>0, <1>g, <1>k, <1>c, <2>1, <2>4, OperationHolds
  <2>5. CASE Step(c, "simulate")
    BY <1>0, <1>g, <1>k, <1>c, <2>1, <2>5, OperationSteps
  <2>6. calls[c].op \in {"file", "build"}
    BY <1>0, <1>4 DEF FileCheck, CallTrue
  <2> QED BY Zenon, <1>4, <2>3, <2>4, <2>5, <2>6 DEF FileCheck
<1>5. CASE FileSimulate(c)
  <2>1. calls[c].pc # "idle" /\ (cache' = cache \/ cache' = <<>>)
    BY <1>5 DEF FileSimulate
  <2>2. CacheTrue'
    BY Zenon, <1>0, <1>g, <2>1, CacheLeftAlone
  <2>3. Return(c) \/ Step(c, "claim")
    BY <1>5 DEF FileSimulate
  <2>4. CallsTrue'
    BY <1>0, <1>g, <2>1, <2>3, OperationReturns, OperationSteps
  <2> QED BY <1>k, <2>2, <2>4
<1>6. CASE CancelRead(c)
  <2>1. calls[c].pc # "idle" /\ calls[c].op = "cancel" /\ UNCHANGED cache
    BY <1>6 DEF CancelRead
  <2>2. PICK v : v = getTradeStatusStrict
    OBVIOUS
  <2>3. \/ /\ v # NoView /\ tradeBindsToOrder(v, calls[c].seen)
           /\ Become(c, [calls[c] EXCEPT !.pc = "overwrite", !.view = v])
        \/ Step(c, "write")
        \/ Return(c)
    BY <1>6, <2>2 DEF CancelRead
  <2>4. CASE /\ v # NoView /\ tradeBindsToOrder(v, calls[c].seen)
             /\ Become(c, [calls[c] EXCEPT !.pc = "overwrite", !.view = v])
    <3>1. Trusted(v) /\ ViewTrue(v)
      BY ZenonT(60), <1>s, <1>v, <2>1, <2>2, <2>4
    <3> QED BY Zenon, <1>w, <1>k, <1>c, <2>1, <2>4, <3>1
  <2>5. CASE Step(c, "write")
    BY <1>0, <1>g, <1>k, <1>c, <2>1, <2>5, OperationSteps
  <2>6. CASE Return(c)
    BY <1>0, <1>g, <1>k, <1>c, <2>1, <2>6, OperationReturns
  <2> QED BY <2>3, <2>4, <2>5, <2>6
<1>7. CASE ExpireRead(c)
  <2>1. calls[c].pc # "idle" /\ calls[c].op = "expire" /\ UNCHANGED cache /\ (Return(c) \/ Step(c, "write"))
    BY <1>7 DEF ExpireRead
  <2> QED BY <1>0, <1>g, <1>k, <1>c, <2>1, OperationReturns, OperationSteps
<1>8. CASE RefundRead(c)
  <2>1. calls[c].pc # "idle" /\ UNCHANGED cache /\ (Return(c) \/ Step(c, "submit"))
    BY <1>8 DEF RefundRead
  <2> QED BY <1>0, <1>g, <1>k, <1>c, <2>1, OperationReturns, OperationSteps
<1>9. CASE RefundReadBack(c)
  <2>1. calls[c].pc = "readback" /\ UNCHANGED cache
    BY <1>9 DEF RefundReadBack
  <2>2. PICK v : v \in {getTradeStatusStrict, NoView} /\ Become(c, [calls[c] EXCEPT !.pc = "write", !.view = v])
    BY Zenon, <1>9 DEF RefundReadBack
  <2>3. CallsTrue'
    BY Zenon, <1>s, <1>w, <2>1, <2>2
  <2> QED BY <1>k, <1>c, <2>1, <2>3
<1> QED BY <1>1, <1>2, <1>3, <1>4, <1>5, <1>6, <1>7, <1>8, <1>9

\* Operations that write the row keep the invariant.
LEMMA WritersKeep ==
    ASSUME OrderInv, NEW c \in Calls,
           \/ RefreshWrite(c) \/ FileClaim(c) \/ CancelOverwrite(c) \/ CancelWrite(c) \/ ExpireWrite(c)
           \/ AutoRefundWrite(c) \/ ReconcileWrite(c) \/ AttestWrite(c)
    PROVE  OrderInv'
<1>0. ChainTrue /\ FeedTrue /\ RowTrue(row) /\ CacheTrue /\ CallsTrue /\ CallTrue(calls[c]) /\ DOMAIN row = RowFields
  BY DEF OrderInv, CallsTrue, RowTrue
<1>u. UNCHANGED <<feedVars, ix, cursor, applied, cache, losses, written>>
  BY DEF RefreshWrite, FileClaim, CancelOverwrite, CancelWrite, ExpireWrite, AutoRefundWrite, ReconcileWrite, AttestWrite
<1>g. Grows
  BY <1>0, <1>u, FeedStep
<1>c. CacheTrue'
  BY <1>0, <1>u, <1>g, CacheLeftAlone
<1>r. Return(c) => CallsTrue'
  BY <1>0, <1>g, OperationReturns
<1>k. CallsTrue' /\ (row' = row \/ RowMoves) => OrderInv'
  BY <1>c, <1>u, OperationKeeps
<1>m. ASSUME NEW v, Trusted(v), row' = Mirror(v, row) PROVE RowMoves
  BY <1>0, <1>m, <1>u, MirrorIsTrue, RowWritten
<1>p. ASSUME NEW s \in {"CANCELLED", "EXPIRED"}, row' = CloseIfPreChain(s) PROVE row' = row \/ RowMoves
  <2>1. CASE row.status \in PRE_CHAIN_STATUSES
    <3> DEFINE r == [row EXCEPT !.status = s]
    <3>1. /\ DOMAIN r = RowFields /\ r.status = s /\ r.settledStatus = row.settledStatus /\ r.hash = row.hash
          /\ r.disputeLossAccrued = row.disputeLossAccrued /\ r.resolution = row.resolution /\ row' = r
      BY SMTT(30), <1>0, <1>p, <2>1 DEF RowFields, CloseIfPreChain
    <3> HIDE DEF r
    <3>2. RowTrue(r)
      BY <1>0, <1>p, <3>1 DEF RowTrue, Bound, RowStatuses, SettledStatuses, BOUND_ON_CHAIN, ChainStatuses
    <3>3. ~Bound(row.status)
      BY <2>1 DEF Bound, BOUND_ON_CHAIN, ChainStatuses, PRE_CHAIN_STATUSES
    <3> QED BY <1>u, <3>1, <3>2, <3>3, RowWritten
  <2>2. CASE row.status \notin PRE_CHAIN_STATUSES
    BY SMTT(30), <1>p, <2>2 DEF CloseIfPreChain
  <2> QED BY <2>1, <2>2
<1>1. CASE RefreshWrite(c)
  <2>1. calls[c].pc = "write" /\ calls[c].op \in Refreshing /\ Trusted(calls[c].view)
    BY Zenon, <1>0, <1>1 DEF RefreshWrite, CallTrue
  <2>2. row' = row \/ RowMoves
    BY Zenon, <1>1, <1>m, <2>1 DEF RefreshWrite
  <2>3. CASE Return(c)
    BY <1>k, <1>r, <2>2, <2>3
  <2>4. CASE calls[c].op # "refresh" /\ Step(c, "reread")
    <3>1. calls[c].op \in {"file", "build"} /\ calls[c].pc # "idle"
      BY <2>1, <2>4 DEF Refreshing
    <3>2. CallsTrue'
      BY Zenon, <1>0, <1>g, <2>4, <3>1, OperationSteps
    <3> QED BY <1>k, <2>2, <3>2
  <2> QED BY <1>1, <2>3, <2>4 DEF RefreshWrite
<1>2. CASE FileClaim(c)
  <2> DEFINE r == [row EXCEPT !.disputeBy = calls[c].by]
  <2>1. /\ DOMAIN r = RowFields /\ r.status = row.status /\ r.settledStatus = row.settledStatus /\ r.hash = row.hash
        /\ r.disputeLossAccrued = row.disputeLossAccrued /\ r.resolution = row.resolution
    BY <1>0 DEF RowFields
  <2>2. (row' = r \/ row' = row) /\ Return(c)
    BY <1>2 DEF FileClaim
  <2> HIDE DEF r
  <2>3. RowTrue(r)
    BY <1>0, <2>1 DEF RowTrue
  <2>4. row' = row \/ RowMoves
    BY <1>u, <2>1, <2>2, <2>3, RowWritten
  <2> QED BY <1>k, <1>r, <2>2, <2>4
<1>3. CASE CancelOverwrite(c)
  <2>1. Trusted(calls[c].view) /\ row' = Mirror(calls[c].view, row) /\ Return(c)
    BY Zenon, <1>0, <1>3 DEF CancelOverwrite, CallTrue
  <2> QED BY <1>k, <1>m, <1>r, <2>1
<1>4. CASE CancelWrite(c) \/ ExpireWrite(c)
  <2>1. Return(c) /\ \E s \in {"CANCELLED", "EXPIRED"} : row' = CloseIfPreChain(s)
    BY Zenon, <1>4 DEF CancelWrite, ExpireWrite
  <2> QED BY <1>k, <1>p, <1>r, <2>1
<1>5. CASE AutoRefundWrite(c) /\ row.status = "FUNDED"
  <2> DEFINE b == [row EXCEPT !.status = "REFUNDED", !.settledStatus = "REFUNDED", !.settledAt = TRUE, !.hash = chain.tx]
             r == settlementFieldsFrom(calls[c].view, b)
  <2>1. /\ DOMAIN b = RowFields /\ b.status = "REFUNDED" /\ b.settledStatus = "REFUNDED" /\ b.hash = chain.tx
        /\ b.disputeLossAccrued = row.disputeLossAccrued /\ b.resolution = row.resolution
    BY <1>0 DEF RowFields
  <2>2. row' = r /\ Return(c) /\ ViewTrue(calls[c].view) /\ chain.settled = "REFUNDED"
    BY <1>0, <1>5 DEF AutoRefundWrite, CallTrue, Refunding
  <2> HIDE DEF b
  <2>3. calls[c].view.status \in SettledStatuses => calls[c].view.status = "REFUNDED"
    <3>1. NoView.status \notin SettledStatuses
      BY DEF NoView, SettledStatuses
    <3> QED BY Zenon, <2>2, <3>1 DEF ViewTrue
  <2>4. /\ DOMAIN r = RowFields /\ r.status = "REFUNDED" /\ r.settledStatus = "REFUNDED" /\ r.hash = chain.tx
        /\ r.disputeLossAccrued = row.disputeLossAccrued /\ r.resolution = row.resolution
    BY Zenon, <2>1, <2>3 DEF settlementFieldsFrom, RowFields
  <2> HIDE DEF r
  <2>5. chain.matches /\ "REFUNDED" \in chain.past
    BY ZenonT(60), <1>0, <1>5, <2>2 DEF RowTrue, Bound, BOUND_ON_CHAIN, ChainStatuses, ChainTrue, Null
  <2>6. RowTrue(r) /\ Bound(r.status)
    <3>1. "REFUNDED" \in RowStatuses /\ Bound("REFUNDED")
      BY DEF Bound, RowStatuses, BOUND_ON_CHAIN, ChainStatuses
    <3> QED BY Zenon, <2>2, <2>4, <2>5, <3>1 DEF RowTrue
  <2>7. RowMoves
    BY <1>u, <2>2, <2>4, <2>6, RowWritten
  <2> QED BY <1>k, <1>r, <2>2, <2>7
<1>6. CASE AutoRefundWrite(c) /\ row.status # "FUNDED"
  BY <1>k, <1>r, <1>6 DEF AutoRefundWrite
<1>7. CASE ReconcileWrite(c)
  <2> DEFINE r == [row EXCEPT !.hash = IF @ = 0 THEN chain.tx ELSE @, !.settledAt = TRUE]
  <2>1. /\ DOMAIN r = RowFields /\ r.status = row.status /\ r.settledStatus = row.settledStatus
        /\ r.hash \in {row.hash, chain.tx}
        /\ r.disputeLossAccrued = row.disputeLossAccrued /\ r.resolution = row.resolution
    BY <1>0 DEF RowFields
  <2>2. row' = r /\ Return(c)
    BY Zenon, <1>7 DEF ReconcileWrite
  <2> HIDE DEF r
  <2>3. RowTrue(r)
    BY Zenon, <1>0, <2>1 DEF RowTrue
  <2>4. RowMoves
    BY <1>u, <2>1, <2>2, <2>3, RowWritten
  <2> QED BY <1>k, <1>r, <2>2, <2>4
<1>8. CASE AttestWrite(c)
  <2> DEFINE r == [row EXCEPT !.status = "FIAT_PAID"]
  <2>1. /\ DOMAIN r = RowFields /\ r.status = "FIAT_PAID" /\ r.settledStatus = row.settledStatus /\ r.hash = row.hash
        /\ r.disputeLossAccrued = row.disputeLossAccrued /\ r.resolution = row.resolution
    BY <1>0 DEF RowFields
  <2>2. (row' = row \/ (row' = r /\ row.status = "FUNDED")) /\ Return(c) /\ "FIAT_PAID" \in chain.past
    BY Zenon, <1>0, <1>8 DEF AttestWrite, CallTrue
  <2> HIDE DEF r
  <2>3. row.status = "FUNDED" => chain.matches
    BY Zenon, <1>0 DEF RowTrue, Bound, BOUND_ON_CHAIN, ChainStatuses
  <2>4. row.status = "FUNDED" => RowTrue(r) /\ Bound(r.status)
    BY Zenon, <1>0, <2>1, <2>2, <2>3 DEF RowTrue, Bound, RowStatuses, BOUND_ON_CHAIN, ChainStatuses, SettledStatuses
  <2>5. row' = row \/ RowMoves
    BY <1>u, <2>1, <2>2, <2>4, RowWritten
  <2> QED BY <1>k, <1>r, <2>2, <2>5
<1> QED BY Zenon, <1>1, <1>2, <1>3, <1>4, <1>5, <1>6, <1>7, <1>8

\* Operations that submit a transaction keep the invariant.
LEMMA SubmittersKeep ==
    ASSUME OrderInv, NEW c \in Calls, RefundSubmit(c) \/ AttestSubmit(c)
    PROVE  OrderInv'
<1>0. ChainTrue /\ FeedTrue /\ RowTrue(row) /\ CacheTrue /\ CallsTrue /\ CallTrue(calls[c])
  BY Zenon DEF OrderInv, CallsTrue
<1>u. UNCHANGED <<row, ix, cursor, applied, cache, losses, written>> /\ calls[c].pc = "submit"
  BY DEF RefundSubmit, AttestSubmit
<1>f. [FeedNext]_feedVars
  BY DEF RefundSubmit, AttestSubmit, FeedNext
<1>g. Grows
  BY <1>0, <1>f, FeedStep
<1>c. CacheTrue'
  BY <1>0, <1>u, <1>g, CacheLeftAlone
<1>k. CallsTrue' => OrderInv'
  BY <1>c, <1>f, <1>u, OperationKeeps
<1>w. ASSUME NEW pc, Step(c, pc), NEW op, calls[c].op = op,
             \/ op \in Refunding /\ chain'.settled = "REFUNDED" /\ pc = IF op = "autorefund" THEN "readback" ELSE "write"
             \/ op = "attest" /\ "FIAT_PAID" \in chain'.past /\ pc = "write"
      PROVE  CallsTrue'
  <2>1. PICK p : p = calls[c]
    OBVIOUS
  <2>2. PICK q : q = [p EXCEPT !.pc = pc]
    BY Zenon
  <2>3. CallTrue(p)'
    BY <1>0, <1>g, <2>1, ReadStaysTrue
  <2>4. DOMAIN q = CallFields /\ q.pc = pc /\ q.op = op /\ q.seen = p.seen /\ p.pc # "idle"
    BY <1>u, <1>w, <2>1, <2>2, <2>3 DEF CallTrue, CallFields
  <2>5. CallTrue(q)'
    BY <1>w, <2>3, <2>4 DEF CallTrue, Refreshing, Refunding
  <2>6. Become(c, q)
    BY <1>w, <2>1, <2>2 DEF Step
  <2> QED BY <1>0, <1>g, <2>5, <2>6, OperationMoves
<1>1. CASE Return(c)
  BY <1>0, <1>g, <1>k, <1>1, OperationReturns
<1>2. CASE calls[c].op \in Refunding /\ Refund /\ Step(c, IF calls[c].op = "autorefund" THEN "readback" ELSE "write")
  <2>1. chain'.settled = "REFUNDED"
    BY <1>0, <1>2 DEF Refund, Settle, ChainTrue, ChainType
  <2> QED BY <1>k, <1>w, <1>2, <2>1
<1>3. CASE calls[c].op = "attest" /\ MarkFiatPaid /\ Step(c, "write")
  <2>1. "FIAT_PAID" \in chain'.past
    BY <1>0, <1>3 DEF MarkFiatPaid, Publish, ChainTrue, ChainType
  <2> QED BY <1>k, <1>w, <1>3, <2>1
<1> QED BY <1>1, <1>2, <1>3 DEF RefundSubmit, AttestSubmit

-----------------------------------------------------------------------------
(* The indexer *)

\* What a step of the indexer has to show.
LEMMA IndexerKeeps ==
    ASSUME OrderInv, UNCHANGED <<feedVars, calls>>, RowTrue(row)', CacheTrue', IxTrue', ClaimsTrue', LossTrue'
    PROVE  OrderInv'
<1>1. ChainTrue' /\ FeedTrue' /\ Grows
  BY ZenonT(60), FeedStep DEF OrderInv
<1>2. CallsTrue'
  BY DEF OrderInv, CallsTrue, CallTrue, ViewTrue, Trusted, feedVars
<1> QED BY <1>1, <1>2 DEF OrderInv

\* The claims and the binding stay in order when the step passes at most the
\* event at hand and leaves the mark that event calls for.
LEMMA ClaimsKept ==
    ASSUME OrderInv, UNCHANGED feedVars, Bound(row.status) => Bound(row'.status),
           applied \subseteq applied', applied' \subseteq applied \cup {ix.pos},
           applied' # applied => ix.pc # "idle" /\ ev.name = "resolved",
           written' \in {0} \cup applied', cursor' \in 0 .. Len(feed),
           \A j \in Nat : chain.matches /\ Passed(j)' =>
             \/ Passed(j)
             \/ /\ ix.pc # "idle" /\ j = ix.pos
                /\ j = 1 => Bound(row'.status)
                /\ ev.name = "resolved" => j \in applied'
    PROVE  ClaimsTrue'
<1>0. /\ ClaimsTrue /\ IxTrue /\ feed' = feed /\ chain' = chain
      /\ Len(feed) \in Nat /\ DOMAIN feed = 1 .. Len(feed)
  <2>1. ClaimsTrue /\ IxTrue /\ feed \in Seq(EventType)
    BY Zenon DEF OrderInv, FeedTrue
  <2>2. feed' = feed /\ chain' = chain
    BY Zenon DEF feedVars
  <2>3. Len(feed) \in Nat /\ DOMAIN feed = 1 .. Len(feed)
    BY ONLY <2>1
  <2> QED BY Zenon, <2>1, <2>2, <2>3
<1>1. ix.pc # "idle" => ix.pos \in DOMAIN feed
  BY ONLY <1>0 DEF IxTrue
<1>2. applied' \subseteq {i \in DOMAIN feed' : feed'[i].name = "resolved"}
  BY <1>0, <1>1 DEF ClaimsTrue, ev
<1>3. chain'.matches /\ Passed(1)' => Bound(row'.status)
  <2>1. CASE Passed(1)
    BY <1>0, <2>1 DEF ClaimsTrue
  <2> QED BY Zenon, <1>0, <2>1
<1>4. ASSUME chain.matches, NEW j \in DOMAIN feed, feed[j].name = "resolved", Passed(j)' PROVE j \in applied'
  <2>0. j \in Nat
    BY <1>0
  <2>1. CASE Passed(j)
    BY Zenon, <1>0, <1>4, <2>1 DEF ClaimsTrue
  <2> QED BY <1>4, <2>0, <2>1 DEF ev
<1>5. ASSUME chain.matches, NEW j \in DOMAIN feed, feed[j].name = "resolved", NEW i \in applied', j < i
      PROVE  j \in applied'
  <2>1. CASE i \in applied
    BY Zenon, <1>0, <1>5, <2>1 DEF ClaimsTrue
  <2>2. CASE i \notin applied
    <3>1. i = ix.pos /\ ix.pc # "idle"
      BY Zenon, <1>5, <2>2
    <3>2. Passed(j)
      BY Zenon, <1>5, <3>1 DEF Passed
    <3> QED BY Zenon, <1>0, <1>5, <3>2 DEF ClaimsTrue
  <2> QED BY Zenon, <2>1, <2>2
<1> QED BY Zenon, <1>0, <1>2, <1>3, <1>4, <1>5 DEF ClaimsTrue

\* The count of losses stays in order while nothing is counted.
LEMMA LossKept ==
    ASSUME OrderInv, feed' = feed, losses' = losses, applied \subseteq applied',
           row'.disputeLossAccrued = row.disputeLossAccrued,
           \/ row'.resolution = row.resolution
           \/ \E i \in applied' : row'.resolution = VerdictOf(feed[i])
    PROVE  LossTrue'
BY DEF OrderInv, LossTrue, VerdictOf

\* The indexer goes on to the next event (NextEvent).
LEMMA GoesOn ==
    ASSUME OrderInv, UNCHANGED <<feedVars, cursor>>, ix' = NextEvent, ix.pc # "idle"
    PROVE  /\ IxTrue'
           /\ \A j \in Nat : Passed(j)' => Passed(j) \/ j = ix.pos
<1>0. /\ ix.last \in 1 .. Len(feed) /\ ix.pos \in 1 .. ix.last /\ Len(feed) \in Nat
      /\ feed' = feed /\ chain' = chain /\ cursor' = cursor
  BY DEF OrderInv, IxTrue, FeedTrue, feedVars
<1>1. CASE ix.pos < ix.last
  <2>1. DOMAIN ix' = IxFields /\ ix'.pc = "row" /\ ix'.pos = ix.pos + 1 /\ ix'.last = ix.last
    BY Zenon, <1>1 DEF NextEvent, IdleIx, IxFields
  <2> QED BY <1>0, <1>1, <2>1 DEF IxTrue, Passed
<1>2. CASE ~(ix.pos < ix.last)
  <2>1. DOMAIN ix' = IxFields /\ ix'.pc = "store" /\ ix'.pos = ix.pos /\ ix'.last = ix.last
    BY Zenon, <1>2 DEF NextEvent, IdleIx, IxFields
  <2> QED BY <1>0, <1>2, <2>1 DEF IxTrue, Passed
<1> QED BY <1>1, <1>2

\* The indexer stays with its event.
LEMMA StaysHere ==
    ASSUME OrderInv, UNCHANGED <<feedVars, cursor>>, ix.pc # "idle", ix'.pos = ix.pos, ix'.pc # "store"
    PROVE  \A j \in Nat : Passed(j)' => Passed(j)
BY DEF Passed, OrderInv, IxTrue

\* The status an event other than a dispute stands for (EVENT_STATUS): final for
\* a settlement only, and FUNDED for the trade's creation.
LEMMA StatusOfEvent ==
    ASSUME NEW n \in EventNames \ {"disputed", "resolved"}
    PROVE  /\ EVENT_STATUS[n] \in ChainStatuses /\ EVENT_STATUS[n] # "DISPUTED"
           /\ n \in {"released", "early_released", "refunded"} <=> EVENT_STATUS[n] \in SettledStatuses
           /\ n = "trade_created" => EVENT_STATUS[n] = "FUNDED"
<1>1. \/ n = "trade_created" /\ EVENT_STATUS[n] = "FUNDED"
      \/ n = "fiat_paid" /\ EVENT_STATUS[n] = "FIAT_PAID"
      \/ n \in {"released", "early_released"} /\ EVENT_STATUS[n] = "RELEASED"
      \/ n = "refunded" /\ EVENT_STATUS[n] = "REFUNDED"
  BY DEF EventNames, EVENT_STATUS
<1> QED BY ONLY <1>1 DEF ChainStatuses, SettledStatuses

\* What the event at hand is.
LEMMA EventHere ==
    ASSUME OrderInv, ix.pc # "idle"
    PROVE  /\ ev \in EventType /\ EventTrue(ev)
           /\ ix.pos \in DOMAIN feed /\ ix.pos \in Nat
           /\ ix.pos = 1 => ev.name = "trade_created"
           /\ chain.status # "NONE"
           /\ ix.pos # 1 /\ chain.matches => Bound(row.status)
<1>1. ix.pos \in DOMAIN feed /\ feed \in Seq(EventType) /\ ix.pos \in 1 .. Len(feed) /\ Len(feed) \in Nat /\ feed # <<>>
  BY DEF OrderInv, IxTrue, FeedTrue
<1>2. ev \in EventType /\ EventTrue(ev) /\ (ix.pos = 1 => ev.name = "trade_created")
  BY <1>1 DEF OrderInv, FeedTrue, ev
<1>3. chain.status # "NONE"
  BY <1>1 DEF OrderInv, ChainTrue
<1>4. ix.pos # 1 => Passed(1)
  BY <1>1 DEF Passed
<1> QED BY <1>1, <1>2, <1>3, <1>4 DEF OrderInv, ClaimsTrue

\* Where applyEvent goes (Branch).
LEMMA BranchIs ==
    ASSUME OrderInv, ix.pc # "idle", NEW s \in RowStatuses, NEW h
    PROVE  /\ Branch(s, h) \in {"read", "write", "backfill", "skip"}
           /\ Branch(s, h) \in {"write", "skip", "backfill"} => ev.name # "resolved"
           /\ Branch(s, h) = "backfill" => Settling
           /\ ev.name = "trade_created" /\ ~Bound(s) => Branch(s, h) = "write"
<1>1. CASE ev.name = "resolved"
  BY <1>1 DEF Branch
<1>2. CASE ev.name = "disputed"
  BY <1>2 DEF Branch, Settling, STATUS_BEFORE
<1>3. CASE ev.name = "trade_created"
  <2>1. EVENT_STATUS[ev.name] = "FUNDED" /\ ~Settling
    BY <1>3 DEF EVENT_STATUS, Settling
  <2>2. ~Bound(s) => s \in STATUS_BEFORE("FUNDED")
    BY DEF Bound, RowStatuses, STATUS_BEFORE
  <2> QED BY Zenon, <1>3, <2>1, <2>2 DEF Branch
<1>4. CASE ev.name \notin {"resolved", "disputed", "trade_created"}
  BY Zenon, <1>4 DEF Branch
<1> QED BY <1>1, <1>2, <1>3, <1>4

\* A step of the indexer that ends with its event.
LEMMA IndexerPasses ==
    ASSUME OrderInv, UNCHANGED <<feedVars, cursor, calls, cache, losses, written, applied>>,
           ix.pc # "idle", ix' = NextEvent, RowTrue(row)',
           Bound(row.status) => Bound(row'.status),
           row'.disputeLossAccrued = row.disputeLossAccrued, row'.resolution = row.resolution,
           chain.matches => (ix.pos = 1 => Bound(row'.status)) /\ (ev.name = "resolved" => ix.pos \in applied)
    PROVE  OrderInv'
<1>1. IxTrue' /\ \A j \in Nat : Passed(j)' => Passed(j) \/ j = ix.pos
  BY Zenon, GoesOn
<1>2. written \in {0} \cup applied /\ cursor \in 0 .. Len(feed) /\ ChainTrue /\ FeedTrue /\ CacheTrue
  BY Zenon DEF OrderInv, ClaimsTrue
<1>3. ClaimsTrue'
  BY Zenon, <1>1, <1>2, ClaimsKept
<1>4. LossTrue'
  BY Zenon, LossKept DEF feedVars
<1>5. CacheTrue'
  BY Zenon, <1>2, FeedStep, CacheLeftAlone
<1> QED BY Zenon, <1>1, <1>3, <1>4, <1>5, IndexerKeeps

\* A step of the indexer that stays with its event.
LEMMA IndexerStays ==
    ASSUME OrderInv, UNCHANGED <<feedVars, cursor, calls, losses, written, applied>>, CacheTrue',
           ix.pc # "idle", ix'.pos = ix.pos, ix'.pc # "store", IxTrue', RowTrue(row)',
           Bound(row.status) => Bound(row'.status),
           row'.disputeLossAccrued = row.disputeLossAccrued, row'.resolution = row.resolution
    PROVE  OrderInv'
<1>1. \A j \in Nat : Passed(j)' => Passed(j)
  BY Zenon, StaysHere
<1>2. written \in {0} \cup applied /\ cursor \in 0 .. Len(feed)
  BY Zenon DEF OrderInv, ClaimsTrue
<1>3. ClaimsTrue'
  BY Zenon, <1>1, <1>2, ClaimsKept
<1>4. LossTrue'
  BY Zenon, LossKept DEF feedVars
<1> QED BY Zenon, <1>3, <1>4, IndexerKeeps

\* Where the indexer stays it goes to p, holding s and v.
LEMMA IxMoves ==
    ASSUME OrderInv, UNCHANGED feedVars, ix.pc # "idle", NEW p, DOMAIN ix' = IxFields,
           ix'.pc = p, ix'.pos = ix.pos, ix'.last = ix.last,
           p \in {"bind", "read", "write", "backfill", "meta", "accrue"},
           p # "bind" => chain.matches,
           p = "bind" => ix'.seen \in RowStatuses /\ ~Bound(ix'.seen),
           p = "backfill" => Settling,
           p = "meta" => ev.name = "disputed",
           p = "accrue" => ev.name = "resolved" /\ ix.pos \in applied',
           p = "write" /\ ev.name = "resolved" /\ ev.post => Trusted(ix'.view)
    PROVE  IxTrue'
BY Zenon DEF OrderInv, IxTrue, ev, Settling, Trusted, feedVars

\* The row is the same, or it is r, which is true.
LEMMA RowIs ==
    ASSUME UNCHANGED feedVars, NEW r, RowTrue(r), row' = r
    PROVE  RowTrue(row)'
BY DEF RowTrue, feedVars

\* The steps of the indexer before it writes.
LEMMA IndexerReadsKeep ==
    ASSUME OrderInv, LoadOrder \/ BindTradeToOrder \/ ReadForDeadlines \/ ReadForDispute
    PROVE  OrderInv'
<1>0. ChainTrue /\ FeedTrue /\ RowTrue(row) /\ CacheTrue /\ IxTrue /\ DOMAIN ix = IxFields
  BY Zenon DEF OrderInv, IxTrue
<1>u. UNCHANGED <<feedVars, row, cursor, applied, calls, losses, written>> /\ ix.pc \in {"row", "bind", "read"}
  BY ZenonT(60) DEF LoadOrder, BindTradeToOrder, ReadForDeadlines, ReadForDispute
<1>r. RowTrue(row)' /\ row.status \in RowStatuses
  BY <1>0, <1>u, RowIs DEF RowTrue
<1>g. Grows
  BY <1>0, <1>u, FeedStep
<1>c. UNCHANGED cache => CacheTrue'
  BY <1>0, <1>g, CacheLeftAlone
<1>e. /\ ev \in EventType /\ EventTrue(ev) /\ ix.pos \in Nat /\ chain.status # "NONE"
      /\ ix.pos = 1 => ev.name = "trade_created"
      /\ ix.pos # 1 /\ chain.matches => Bound(row.status)
  BY Zenon, <1>u, EventHere
<1>s. ASSUME CacheTrue', IxTrue', ix'.pos = ix.pos, ix'.pc # "store" PROVE OrderInv'
  BY Zenon, <1>r, <1>s, <1>u, IndexerStays
<1>n. ASSUME UNCHANGED cache, ix' = NextEvent,
             chain.matches => (ix.pos = 1 => Bound(row.status)) /\ (ev.name = "resolved" => ix.pos \in applied)
      PROVE  OrderInv'
  BY <1>n, <1>r, <1>u, IndexerPasses
<1>b. ASSUME NEW s \in RowStatuses, NEW h, Goto(Branch(s, h), s), chain.matches, UNCHANGED cache,
             Bound(row.status) \/ ~Bound(s)
      PROVE  OrderInv'
  <2>1. PICK b : b = Branch(s, h)
    OBVIOUS
  <2>2. /\ b \in {"read", "write", "backfill", "skip"}
        /\ b \in {"write", "skip", "backfill"} => ev.name # "resolved"
        /\ b = "backfill" => Settling
        /\ ev.name = "trade_created" /\ ~Bound(s) => b = "write"
    BY Zenon, <1>u, <2>1, BranchIs
  <2>3. CASE b = "skip"
    <3>1. ix' = NextEvent
      BY Zenon, <1>b, <2>1, <2>3 DEF Goto
    <3> QED BY <1>b, <1>e, <1>n, <2>2, <2>3, <3>1
  <2>4. CASE b # "skip"
    <3>1. ix' = [[ix EXCEPT !.pc = b] EXCEPT !.seen = s]
      BY <1>b, <2>1, <2>4 DEF Goto, At
    <3>2. DOMAIN ix' = IxFields /\ ix'.pc = b /\ ix'.pos = ix.pos /\ ix'.last = ix.last
      BY Zenon, <1>0, <3>1 DEF IxFields
    <3>3. IxTrue'
      BY <1>b, <1>u, <2>2, <2>4, <3>2, IxMoves
    <3> QED BY <1>b, <1>c, <1>s, <2>2, <2>4, <3>2, <3>3
  <2> QED BY <2>3, <2>4
<1>1. CASE LoadOrder /\ notYetBoundOnChain(row.status)
  <2>1. ix' = [[ix EXCEPT !.pc = "bind"] EXCEPT !.seen = row.status] /\ UNCHANGED cache
    BY <1>1 DEF LoadOrder, Goto, At
  <2>2. DOMAIN ix' = IxFields /\ ix'.pc = "bind" /\ ix'.pos = ix.pos /\ ix'.last = ix.last /\ ix'.seen = row.status
    BY <1>0, <2>1 DEF IxFields
  <2>3. IxTrue'
    BY <1>1, <1>r, <1>u, <2>2, IxMoves DEF notYetBoundOnChain, Bound
  <2> QED BY <1>c, <1>s, <2>1, <2>2, <2>3
<1>2. CASE LoadOrder /\ ~notYetBoundOnChain(row.status)
  <2>1. Goto(Branch(row.status, row.hash), row.status) /\ UNCHANGED cache /\ Bound(row.status)
    BY <1>2 DEF LoadOrder, notYetBoundOnChain, Bound
  <2>2. chain.matches
    BY <1>0, <2>1 DEF RowTrue
  <2> QED BY <1>b, <1>r, <2>1, <2>2
<1>3. CASE BindTradeToOrder
  <2>0. UNCHANGED cache /\ ix.seen \in RowStatuses /\ ~Bound(ix.seen)
    BY Zenon, <1>0, <1>3 DEF BindTradeToOrder, IxTrue
  <2>1. CASE chain.matches
    <3>1. Goto(Branch(ix.seen, 0), ix.seen)
      BY Zenon, <1>3, <1>e, <2>1 DEF BindTradeToOrder, getTradeStatusStrict
    <3> QED BY <1>b, <2>0, <2>1, <3>1
  <2>2. CASE ~chain.matches
    <3>1. ix' = NextEvent
      BY Zenon, <1>3, <2>2 DEF BindTradeToOrder, getTradeStatusStrict
    <3> QED BY <1>n, <2>0, <2>2, <3>1
  <2> QED BY Zenon, <2>1, <2>2
<1>4. CASE ReadForDeadlines
  <2>1. ix' = [ix EXCEPT !.pc = "write"] /\ chain.matches /\ (ev.name = "resolved" => ~ev.post)
    BY <1>0, <1>4 DEF ReadForDeadlines, At, IxTrue, Settling
  <2>2. DOMAIN ix' = IxFields /\ ix'.pc = "write" /\ ix'.pos = ix.pos /\ ix'.last = ix.last
    BY <1>0, <2>1 DEF IxFields
  <2>3. PICK v : getTradeStatus(v)
    BY Zenon, <1>4 DEF ReadForDeadlines
  <2>4. CacheTrue'
    BY <1>0, <1>u, <2>3, CachedReadIsTrue
  <2>5. IxTrue'
    BY <1>u, <2>1, <2>2, IxMoves
  <2> QED BY <1>s, <2>2, <2>4, <2>5
<1>5. CASE ReadForDispute
  <2>1. UNCHANGED cache /\ ev.name = "disputed" /\ chain.matches /\ ix' \in {[ix EXCEPT !.pc = "write"], NextEvent}
    BY <1>0, <1>5 DEF ReadForDispute, At, IxTrue
  <2>2. CASE ix' = NextEvent
    BY <1>e, <1>n, <2>1, <2>2
  <2>3. CASE ix' = [ix EXCEPT !.pc = "write"]
    <3>1. DOMAIN ix' = IxFields /\ ix'.pc = "write" /\ ix'.pos = ix.pos /\ ix'.last = ix.last
      BY <1>0, <2>3 DEF IxFields
    <3>2. IxTrue'
      BY <1>u, <2>1, <3>1, IxMoves
    <3> QED BY <1>c, <1>s, <2>1, <3>1, <3>2
  <2> QED BY <2>1, <2>2, <2>3
<1> QED BY Zenon, <1>1, <1>2, <1>3, <1>4, <1>5

\* The writes of a status event keep the invariant.
LEMMA IndexerWritesKeep ==
    ASSUME OrderInv, WriteStatus \/ BackfillSettlementHash \/ WriteDispute \/ ReconcileDisputeMetadata
    PROVE  OrderInv'
<1>0. ChainTrue /\ RowTrue(row) /\ IxTrue /\ DOMAIN ix = IxFields /\ DOMAIN row = RowFields /\ CacheTrue /\ FeedTrue
  BY DEF OrderInv, IxTrue, RowTrue
<1>u. UNCHANGED <<feedVars, cursor, applied, calls, cache, losses, written>> /\ ix.pc \in {"write", "backfill", "meta"}
  BY DEF WriteStatus, BackfillSettlementHash, WriteDispute, ReconcileDisputeMetadata
<1>c. CacheTrue'
  BY Zenon, <1>0, <1>u, FeedStep, CacheLeftAlone
<1>e. /\ ev \in EventType /\ ev.name \in EventNames /\ EventTrue(ev) /\ ix.pos \in Nat /\ chain.matches
      /\ ix.pos = 1 => ev.name = "trade_created"
      /\ ix.pos # 1 /\ chain.matches => Bound(row.status)
      /\ ev.name # "resolved"
  <2>1. ev.name # "resolved" /\ chain.matches
    BY ZenonT(60), <1>0, <1>u DEF IxTrue, WriteStatus, BackfillSettlementHash, WriteDispute, ReconcileDisputeMetadata, Settling
  <2> QED BY <1>u, <2>1, EventHere DEF EventType
<1>n. ASSUME ix' = NextEvent, NEW r, row' = r, RowTrue(r), Bound(row.status) => Bound(r.status),
             ix.pos = 1 => Bound(r.status),
             r.disputeLossAccrued = row.disputeLossAccrued, r.resolution = row.resolution
      PROVE  OrderInv'
  <2>1. RowTrue(row)'
    BY <1>n, <1>u, RowIs
  <2> QED BY <1>e, <1>n, <1>u, <2>1, IndexerPasses
<1>s. ASSUME NEW p \in {"backfill", "meta"}, ix' = [ix EXCEPT !.pc = p], NEW r, row' = r, RowTrue(r),
             Bound(row.status) => Bound(r.status),
             p = "backfill" => Settling, p = "meta" => ev.name = "disputed",
             r.disputeLossAccrued = row.disputeLossAccrued, r.resolution = row.resolution
      PROVE  OrderInv'
  <2>1. DOMAIN ix' = IxFields /\ ix'.pc = p /\ ix'.pos = ix.pos /\ ix'.last = ix.last
    BY <1>0, <1>s DEF IxFields
  <2>2. IxTrue'
    BY <1>e, <1>s, <1>u, <2>1, IxMoves
  <2>3. RowTrue(row)'
    BY <1>s, <1>u, RowIs
  <2> QED BY <1>c, <1>s, <1>u, <2>1, <2>2, <2>3, IndexerStays
<1>1. CASE WriteStatus
  <2>0. PICK target : target = EVENT_STATUS[ev.name]
    BY Zenon
  <2>1. /\ target \in ChainStatuses /\ target \in chain.past /\ target # "DISPUTED"
        /\ Settling <=> target \in SettledStatuses
        /\ Settling => target = chain.settled /\ ev.tx = chain.tx
        /\ ix.pos = 1 => target = "FUNDED"
    <3>1. ev.name \in EventNames \ {"disputed", "resolved"}
      BY Zenon, <1>1, <1>e DEF WriteStatus
    <3>2. /\ target \in ChainStatuses /\ target # "DISPUTED" /\ (Settling <=> target \in SettledStatuses)
          /\ ev.name = "trade_created" => target = "FUNDED"
      BY Zenon, <2>0, <3>1, StatusOfEvent DEF Settling
    <3> QED BY Zenon, <1>e, <2>0, <3>1, <3>2 DEF EventTrue
  <2>2. CASE row.status \in STATUS_BEFORE(target) /\ ~Settling
    <3> DEFINE r == [row EXCEPT !.status = target]
    <3>1. row' = r /\ ix' = NextEvent
      BY <1>1, <2>0, <2>2 DEF WriteStatus
    <3>2. /\ DOMAIN r = RowFields /\ r.status = target /\ r.settledStatus = row.settledStatus /\ r.hash = row.hash
          /\ r.disputeLossAccrued = row.disputeLossAccrued /\ r.resolution = row.resolution
      BY Zenon, <1>0 DEF RowFields
    <3> HIDE DEF r
    <3>3. RowTrue(r) /\ Bound(r.status)
      BY Zenon, <1>0, <1>e, <2>1, <2>2, <3>2 DEF RowTrue, Bound, RowStatuses, BOUND_ON_CHAIN
    <3> QED BY <1>n, <3>1, <3>2, <3>3
  <2>3. CASE row.status \in STATUS_BEFORE(target) /\ Settling
    <3> DEFINE m == [row EXCEPT !.status = target]
               r == [m EXCEPT !.settledStatus = target, !.settledAt = TRUE, !.hash = ev.tx]
    <3>1. row' = r /\ ix' = NextEvent
      BY <1>1, <2>0, <2>3 DEF WriteStatus
    <3>2. DOMAIN m = RowFields /\ m.status = target
          /\ m.disputeLossAccrued = row.disputeLossAccrued /\ m.resolution = row.resolution
      BY <1>0 DEF RowFields
    <3> HIDE DEF m
    <3>3. /\ DOMAIN r = RowFields /\ r.status = target /\ r.settledStatus = target /\ r.hash = ev.tx
          /\ r.disputeLossAccrued = row.disputeLossAccrued /\ r.resolution = row.resolution
      BY <3>2 DEF RowFields
    <3> HIDE DEF r
    <3>4. RowTrue(r) /\ Bound(r.status)
      BY <1>e, <2>1, <2>3, <3>3 DEF RowTrue, Bound, RowStatuses, BOUND_ON_CHAIN
    <3> QED BY <1>n, <3>1, <3>3, <3>4
  <2>4. CASE row.status \notin STATUS_BEFORE(target)
    <3>1. row' = row /\ ix' = (IF Settling THEN [ix EXCEPT !.pc = "backfill"] ELSE NextEvent)
      BY Zenon, <1>1, <2>0, <2>4 DEF WriteStatus, At
    <3>2. Bound(row.status)
      BY Zenon, <1>0, <2>4 DEF RowTrue, STATUS_BEFORE, Bound, RowStatuses
    <3> QED BY <1>0, <1>n, <1>s, <3>1, <3>2
  <2> QED BY <2>2, <2>3, <2>4
<1>2. CASE BackfillSettlementHash
  <2>0. Settling /\ ix' = NextEvent /\ ev.name # "trade_created" /\ ev.tx = chain.tx
    <3>1. Settling /\ ix' = NextEvent
      BY <1>0, <1>2 DEF BackfillSettlementHash, IxTrue
    <3>2. EVENT_STATUS[ev.name] \in SettledStatuses
      BY <3>1 DEF Settling, EVENT_STATUS, SettledStatuses
    <3> QED BY <1>e, <3>1, <3>2 DEF Settling, EventTrue
  <2> DEFINE r == [row EXCEPT !.hash = ev.tx]
  <2>1. row' = row \/ row' = r
    BY <1>2 DEF BackfillSettlementHash
  <2>2. /\ DOMAIN r = RowFields /\ r.status = row.status /\ r.settledStatus = row.settledStatus /\ r.hash = ev.tx
        /\ r.disputeLossAccrued = row.disputeLossAccrued /\ r.resolution = row.resolution
    BY <1>0 DEF RowFields
  <2> HIDE DEF r
  <2>3. RowTrue(r)
    BY <1>0, <2>0, <2>2 DEF RowTrue
  <2> QED BY Zenon, <1>0, <1>e, <1>n, <2>0, <2>1, <2>2, <2>3
<1>3. CASE WriteDispute
  <2> DEFINE r == [row EXCEPT !.status = "DISPUTED"]
  <2>0. ev.name = "disputed" /\ "DISPUTED" \in chain.past
    BY <1>3, <1>e DEF WriteDispute, EventTrue, EVENT_STATUS
  <2>1. (row' = r /\ ix' = [ix EXCEPT !.pc = "meta"]) \/ (row' = row /\ ix' = NextEvent)
    BY <1>3 DEF WriteDispute, At
  <2>2. /\ DOMAIN r = RowFields /\ r.status = "DISPUTED" /\ r.settledStatus = row.settledStatus /\ r.hash = row.hash
        /\ r.disputeLossAccrued = row.disputeLossAccrued /\ r.resolution = row.resolution
    BY Zenon, <1>0 DEF RowFields
  <2> HIDE DEF r
  <2>3. RowTrue(r) /\ Bound(r.status)
    BY ZenonT(60), <1>0, <1>e, <2>0, <2>2 DEF RowTrue, Bound, RowStatuses, BOUND_ON_CHAIN, ChainStatuses, SettledStatuses
  <2> QED BY <1>0, <1>e, <1>n, <1>s, <2>0, <2>1, <2>2, <2>3
<1>4. CASE ReconcileDisputeMetadata
  <2> DEFINE r == [row EXCEPT !.onChainDisputedBy = ev.by]
  <2>0. ev.name = "disputed" /\ row' = r /\ ix' = NextEvent
    BY <1>0, <1>4 DEF ReconcileDisputeMetadata, IxTrue
  <2>2. /\ DOMAIN r = RowFields /\ r.status = row.status /\ r.settledStatus = row.settledStatus /\ r.hash = row.hash
        /\ r.disputeLossAccrued = row.disputeLossAccrued /\ r.resolution = row.resolution
    BY <1>0 DEF RowFields
  <2> HIDE DEF r
  <2>3. RowTrue(r)
    BY <1>0, <2>2 DEF RowTrue
  <2> QED BY <1>e, <1>n, <2>0, <2>2, <2>3
<1> QED BY SMTT(30), <1>1, <1>2, <1>3, <1>4

\* The row after a verdict: the verdict is shown and the round is closed.
LEMMA VerdictRow ==
    ASSUME NEW m, RowTrue(m), NEW w
    PROVE  /\ RowTrue(closeDisputeRound([m EXCEPT !.resolution = w]))
           /\ closeDisputeRound([m EXCEPT !.resolution = w]).status = m.status
           /\ closeDisputeRound([m EXCEPT !.resolution = w]).resolution = w
           /\ closeDisputeRound([m EXCEPT !.resolution = w]).disputeBy = Null
           /\ closeDisputeRound([m EXCEPT !.resolution = w]).disputeLossAccrued = m.disputeLossAccrued
<1> DEFINE n == [m EXCEPT !.resolution = w]
           r == closeDisputeRound(n)
<1>1. /\ DOMAIN n = RowFields /\ n.status = m.status /\ n.settledStatus = m.settledStatus /\ n.hash = m.hash
      /\ n.resolution = w /\ n.disputeLossAccrued = m.disputeLossAccrued
  BY DEF RowTrue, RowFields
<1> HIDE DEF n
<1>2. /\ DOMAIN r = RowFields /\ r.status = m.status /\ r.settledStatus = m.settledStatus /\ r.hash = m.hash
      /\ r.resolution = w /\ r.disputeBy = Null /\ r.disputeLossAccrued = m.disputeLossAccrued
  BY <1>1 DEF closeDisputeRound, RowFields
<1> HIDE DEF r
<1>3. RowTrue(r)
  BY <1>2 DEF RowTrue
<1> QED BY <1>2, <1>3 DEF r, n

\* Claiming and applying a verdict keep the invariant.
LEMMA VerdictsKeep ==
    ASSUME OrderInv, ReadForVerdict \/ WriteVerdict
    PROVE  OrderInv'
<1>0. ChainTrue /\ FeedTrue /\ CacheTrue /\ RowTrue(row) /\ IxTrue /\ DOMAIN ix = IxFields /\ DOMAIN row = RowFields
  BY Zenon DEF OrderInv, IxTrue, RowTrue
<1>u. UNCHANGED <<feedVars, cursor, calls, cache, losses>> /\ ix.pc \in {"read", "write"} /\ ev.name = "resolved"
  BY DEF ReadForVerdict, WriteVerdict
<1>c. CacheTrue'
  BY SMTT(30), <1>0, <1>u, FeedStep, CacheLeftAlone
<1>e. /\ ev \in EventType /\ EventTrue(ev) /\ chain.matches /\ ix.pos \in DOMAIN feed /\ ix.pos # 1 /\ Bound(row.status)
  BY <1>0, <1>u, EventHere DEF IxTrue
<1>w. written \in {0} \cup applied /\ cursor \in 0 .. Len(feed)
  BY Zenon DEF OrderInv, ClaimsTrue
<1>n. ASSUME ix' = NextEvent, UNCHANGED <<row, written>>, applied' = applied \cup {ix.pos}
      PROVE  OrderInv'
  <2>1. IxTrue' /\ \A j \in Nat : Passed(j)' => Passed(j) \/ j = ix.pos
    BY Zenon, <1>n, <1>u, GoesOn
  <2>2. ClaimsTrue'
    BY <1>e, <1>n, <1>u, <1>w, <2>1, ClaimsKept
  <2>3. LossTrue'
    BY <1>n, <1>u, LossKept DEF feedVars
  <2>4. RowTrue(row)'
    BY <1>0, <1>n, <1>u, RowIs
  <2> QED BY <1>c, <1>u, <2>1, <2>2, <2>3, <2>4, IndexerKeeps
<1>1. CASE ReadForVerdict /\ chain.status \in SettledStatuses
  <2>1. ix' = [[ix EXCEPT !.pc = "write"] EXCEPT !.view = getTradeStatusStrict] /\ UNCHANGED <<row, written, applied>>
    BY <1>1 DEF ReadForVerdict, At
  <2>2. DOMAIN ix' = IxFields /\ ix'.pc = "write" /\ ix'.pos = ix.pos /\ ix'.last = ix.last
        /\ ix'.view = getTradeStatusStrict
    BY Zenon, <1>0, <2>1 DEF IxFields
  <2>3. Trusted(getTradeStatusStrict)
    BY Zenon, <1>0, <1>1, <1>e DEF Trusted, getTradeStatusStrict, ChainTrue, ChainStatuses, SettledStatuses
  <2>4. IxTrue'
    BY <1>e, <1>u, <2>2, <2>3, IxMoves
  <2>5. RowTrue(row)'
    BY <1>0, <1>u, <2>1, RowIs
  <2> QED BY <1>c, <1>u, <2>1, <2>2, <2>4, <2>5, IndexerStays
<1>2. CASE ReadForVerdict /\ chain.status \notin SettledStatuses
  BY <1>2, <1>n DEF ReadForVerdict
<1>3. CASE WriteVerdict /\ ix' = NextEvent /\ UNCHANGED <<row, written>>
  BY <1>3, <1>n DEF WriteVerdict
<1>4. ASSUME NEW m, RowTrue(m), Bound(m.status), m.disputeLossAccrued = row.disputeLossAccrued,
             row' = closeDisputeRound([m EXCEPT !.resolution = VerdictName]),
             ix' = [ix EXCEPT !.pc = "accrue"], written' = ix.pos, applied' = applied \cup {ix.pos}
      PROVE  OrderInv'
  <2>1. PICK r : r = row'
    OBVIOUS
  <2>2. /\ RowTrue(r) /\ Bound(r.status) /\ r.resolution = VerdictName
        /\ r.disputeLossAccrued = row.disputeLossAccrued
    BY <1>4, <2>1, VerdictRow
  <2>3. RowTrue(row)'
    BY <1>u, <2>1, <2>2, RowIs
  <2>4. DOMAIN ix' = IxFields /\ ix'.pc = "accrue" /\ ix'.pos = ix.pos /\ ix'.last = ix.last
    BY <1>0, <1>4 DEF IxFields
  <2>5. IxTrue'
    BY Zenon, <1>4, <1>e, <1>u, <2>4, IxMoves
  <2>6. \A j \in Nat : Passed(j)' => Passed(j)
    BY <1>u, <2>4, StaysHere
  <2>7. ClaimsTrue'
    BY <1>4, <1>u, <1>w, <2>1, <2>2, <2>6, ClaimsKept
  <2>8. LossTrue'
    <3>1. VerdictName = VerdictOf(feed[ix.pos])
      BY DEF VerdictName, VerdictOf, ev
    <3> QED BY <1>4, <1>u, <2>1, <2>2, <3>1, LossKept DEF feedVars
  <2> QED BY <1>c, <1>u, <2>3, <2>5, <2>7, <2>8, IndexerKeeps
<1>5. CASE WriteVerdict /\ ~(ix' = NextEvent /\ UNCHANGED <<row, written>>)
  <2>1. ix' = [ix EXCEPT !.pc = "accrue"] /\ written' = ix.pos /\ applied' = applied \cup {ix.pos} /\ ix.pc = "write"
    BY <1>5 DEF WriteVerdict, At
  <2>2. CASE ev.post
    <3>1. row' = closeDisputeRound([Mirror(ix.view, row) EXCEPT !.resolution = VerdictName])
      BY <1>5, <2>2 DEF WriteVerdict
    <3>2. Trusted(ix.view)
      BY <1>0, <1>u, <2>1, <2>2 DEF IxTrue
    <3>3. /\ RowTrue(Mirror(ix.view, row)) /\ Bound(Mirror(ix.view, row).status)
          /\ Mirror(ix.view, row).disputeLossAccrued = row.disputeLossAccrued
      BY <1>0, <3>2, MirrorIsTrue
    <3> QED BY <1>4, <2>1, <3>1, <3>3
  <2>3. CASE ~ev.post
    <3> DEFINE target == IF ev.released THEN "RELEASED" ELSE "REFUNDED"
               m == [row EXCEPT !.status = target, !.settledStatus = target, !.settledAt = TRUE, !.hash = ev.tx]
    <3>1. row' = closeDisputeRound([m EXCEPT !.resolution = VerdictName])
      BY <1>5, <2>3 DEF WriteVerdict
    <3>2. /\ DOMAIN m = RowFields /\ m.status = target /\ m.settledStatus = target /\ m.hash = ev.tx
          /\ m.disputeLossAccrued = row.disputeLossAccrued
      BY Zenon, <1>0 DEF RowFields
    <3> HIDE DEF m
    <3>3. target = chain.settled /\ ev.tx = chain.tx /\ target \in SettledStatuses
      BY Zenon, <1>e, <1>u, <2>3 DEF EventTrue, OutcomeOf, SettledStatuses
    <3>4. target \in chain.past
      BY <1>0, <3>3 DEF ChainTrue, SettledStatuses, Null
    <3> HIDE DEF target
    <3>5. RowTrue(m) /\ Bound(m.status)
      BY <1>e, <3>2, <3>3, <3>4 DEF RowTrue, Bound, RowStatuses, BOUND_ON_CHAIN, ChainStatuses, SettledStatuses
    <3> QED BY <1>4, <2>1, <3>1, <3>2, <3>5
  <2> QED BY <2>2, <2>3
<1> QED BY <1>1, <1>2, <1>3, <1>5

\* Counting a loss, or failing to, keeps the invariant (accrueDisputeLoss).
LEMMA AccrualKeeps ==
    ASSUME OrderInv, AccrueDisputeLoss \/ AccrualFails
    PROVE  OrderInv'
<1>0. /\ ChainTrue /\ FeedTrue /\ CacheTrue /\ RowTrue(row) /\ IxTrue /\ LossTrue /\ DOMAIN row = RowFields
      /\ ix.pc = "accrue"
  BY Zenon DEF OrderInv, RowTrue, AccrueDisputeLoss, AccrualFails
<1>e. ev.name = "resolved" /\ ix.pos \in applied /\ ix.pos # 1 /\ ix.pos \in Nat
  BY <1>0, EventHere DEF IxTrue
<1>1. CASE AccrualFails
  <2>1. UNCHANGED <<feedVars, row, cursor, applied, calls, cache, losses, written>> /\ ix' = NextEvent
    BY <1>1 DEF AccrualFails
  <2>2. RowTrue(row)'
    BY Zenon, <1>0, <2>1, RowIs
  <2> QED BY <1>0, <1>e, <2>1, <2>2, IndexerPasses
<1>2. CASE AccrueDisputeLoss
  <2> DEFINE r == [row EXCEPT !.disputeLossAccrued = TRUE]
  <2>1. /\ UNCHANGED <<feedVars, cursor, applied, calls, cache, written>> /\ ix' = NextEvent /\ row' = r
        /\ losses' = IF row.disputeLossAccrued THEN losses ELSE [losses EXCEPT ![Loser(VerdictName)] = @ + 1]
    BY <1>2 DEF AccrueDisputeLoss, accrue
  <2>2. /\ DOMAIN r = RowFields /\ r.status = row.status /\ r.settledStatus = row.settledStatus /\ r.hash = row.hash
        /\ r.disputeLossAccrued = TRUE /\ r.resolution = row.resolution
    BY <1>0 DEF RowFields
  <2> HIDE DEF r
  <2>3. RowTrue(row)'
    <3>1. RowTrue(r)
      BY <1>0, <2>2 DEF RowTrue
    <3> QED BY <2>1, <3>1, RowIs
  <2>4. LossTrue'
    <3>1. CASE row.disputeLossAccrued
      BY Zenon, <1>0, <2>1, <2>2, <3>1 DEF LossTrue, feedVars, VerdictOf
    <3>2. CASE ~row.disputeLossAccrued
      <4>1. PICK p : p = Loser(VerdictName)
        OBVIOUS
      <4>2. p \in {"user", "lp"} /\ p = Loser(VerdictOf(feed[ix.pos]))
        BY <4>1 DEF Loser, VerdictName, VerdictOf, ev
      <4>3. losses' = [losses EXCEPT ![p] = @ + 1]
        BY <2>1, <3>2, <4>1
      <4>a. DOMAIN losses = {"user", "lp"} /\ losses["user"] \in {0, 1} /\ losses["lp"] \in {0, 1}
            /\ ~(losses["user"] + losses["lp"] > 0)
        BY Zenon, <1>0, <3>2 DEF LossTrue
      <4>b. losses["user"] = 0 /\ losses["lp"] = 0
        BY ONLY <4>a
      <4>4. DOMAIN losses' = {"user", "lp"} /\ losses'[p] = 1 /\ \A q \in {"user", "lp"} \ {p} : losses'[q] = 0
        BY ONLY <4>2, <4>3, <4>a, <4>b
      <4>5. losses'["user"] + losses'["lp"] > 0 /\ losses'["user"] \in {0, 1} /\ losses'["lp"] \in {0, 1}
        BY ONLY <4>2, <4>4
      <4>z. 0 # 1
        BY SMT
      <4>6. \A q \in {"user", "lp"} : losses'[q] = 1 => \E i \in applied : Loser(VerdictOf(feed[i])) = q
        BY Zenon, <1>e, <4>2, <4>4, <4>z
      <4>7. row'.resolution # Null => \E i \in applied : row'.resolution = VerdictOf(feed[i])
        BY Zenon, <1>0, <2>1, <2>2 DEF LossTrue
      <4>8. applied' = applied /\ feed' = feed
        BY Zenon, <2>1 DEF feedVars
      <4> QED BY Zenon, <2>1, <2>2, <4>4, <4>5, <4>6, <4>7, <4>8 DEF LossTrue, VerdictOf
    <3> QED BY <3>1, <3>2
  <2>5. IxTrue' /\ \A j \in Nat : Passed(j)' => Passed(j) \/ j = ix.pos
    BY Zenon, <1>0, <2>1, GoesOn
  <2>6. written \in {0} \cup applied /\ cursor \in 0 .. Len(feed)
    BY DEF OrderInv, ClaimsTrue
  <2>7. ClaimsTrue'
    BY <1>0, <1>e, <2>1, <2>2, <2>5, <2>6, ClaimsKept
  <2>8. CacheTrue'
    BY <1>0, <2>1, FeedStep, CacheLeftAlone
  <2> QED BY <2>1, <2>3, <2>4, <2>5, <2>7, <2>8, IndexerKeeps
<1> QED BY Zenon, <1>1, <1>2

\* The ends of a poll, expected or not, keep the invariant.
LEMMA PollsKeep ==
    ASSUME OrderInv, Poll \/ StoreCursor \/ PollFails
    PROVE  OrderInv'
<1>0. /\ ChainTrue /\ FeedTrue /\ CacheTrue /\ RowTrue(row) /\ IxTrue /\ written \in {0} \cup applied
      /\ cursor \in 0 .. Len(feed) /\ Len(feed) \in Nat
  BY FeedShape DEF OrderInv, ClaimsTrue
<1>u. UNCHANGED <<feedVars, row, applied, calls, cache, losses, written>>
  BY DEF Poll, StoreCursor, PollFails
<1>1. RowTrue(row)' /\ CacheTrue' /\ LossTrue'
  BY <1>0, <1>u, RowIs, FeedStep, CacheLeftAlone, LossKept DEF feedVars
<1>2. IxTrue' /\ cursor' \in 0 .. Len(feed) /\ \A j \in Nat : Passed(j)' => Passed(j)
  <2>1. CASE Poll
    <3>1. /\ DOMAIN ix' = IxFields /\ ix'.pc = "row" /\ ix'.pos = cursor + 1 /\ ix'.last = Len(feed)
          /\ cursor < Len(feed) /\ cursor' = cursor
      BY <2>1 DEF Poll, IdleIx, IxFields
    <3>2. /\ ix'.last \in 1 .. Len(feed) /\ ix'.pos \in 1 .. ix'.last /\ cursor' \in 0 .. Len(feed)
          /\ \A j \in Nat : j < ix'.pos => j <= cursor
      BY ONLY <1>0, <3>1
    <3>3. feed' = feed
      BY <1>u DEF feedVars
    <3> QED BY Zenon, <3>1, <3>2, <3>3 DEF IxTrue, Passed
  <2>2. CASE StoreCursor
    <3>1. DOMAIN ix' = IxFields /\ ix'.pc = "idle" /\ cursor' = ix.last /\ ix.pc = "store"
      BY Zenon, <2>2 DEF StoreCursor, IdleIx, IxFields
    <3>2. ix.pos = ix.last /\ ix.last \in 1 .. Len(feed)
      BY Zenon, <1>0, <3>1 DEF IxTrue
    <3>3. cursor' \in 0 .. Len(feed) /\ \A j \in Nat : j <= ix.last => j < ix.last \/ j = ix.last
      BY ONLY <1>0, <3>1, <3>2
    <3> QED BY Zenon, <3>1, <3>2, <3>3 DEF IxTrue, Passed
  <2>3. CASE PollFails
    <3>1. DOMAIN ix' = IxFields /\ ix'.pc = "idle" /\ cursor' = cursor
      BY Zenon, <2>3 DEF PollFails, IdleIx, IxFields
    <3> QED BY Zenon, <1>0, <1>u, <3>1 DEF IxTrue, Passed, feedVars
  <2> QED BY <2>1, <2>2, <2>3
<1>3. ClaimsTrue'
  BY ZenonT(60), <1>0, <1>u, <1>2, ClaimsKept
<1> QED BY <1>u, <1>1, <1>2, <1>3, IndexerKeeps

\* A restart loses what is in flight, and its recount counts only what a
\* verdict gave (backfillDisputesLost).
LEMMA CrashKeeps ==
    ASSUME OrderInv, Crash
    PROVE  OrderInv'
<1>0. /\ ChainTrue /\ FeedTrue /\ RowTrue(row) /\ LossTrue /\ DOMAIN row = RowFields /\ written \in {0} \cup applied
      /\ cursor \in 0 .. Len(feed) /\ Len(feed) \in Nat /\ DOMAIN calls = Calls
  BY FeedShape DEF OrderInv, ClaimsTrue, RowTrue, CallsTrue
<1>u. /\ UNCHANGED <<feedVars, cursor, applied, written>> /\ ix' = IdleIx /\ cache' = <<>>
      /\ calls' = [c \in DOMAIN calls |-> NoCall] /\ feed' = feed /\ chain' = chain
  BY DEF Crash, feedVars
<1>1. ChainTrue' /\ FeedTrue'
  BY <1>0, <1>u, FeedStep
<1>2. CallsTrue'
  BY Zenon, <1>0, <1>u DEF CallsTrue, CallTrue, NoCall, CallFields
<1>3. IxTrue' /\ CacheTrue' /\ \A j \in Nat : Passed(j)' => Passed(j)
  BY Zenon, <1>u DEF IxTrue, IdleIx, IxFields, CacheTrue, Passed
<1>4. RowTrue(row)' /\ row'.status = row.status /\ LossTrue'
  <2>1. CASE UNCHANGED <<row, losses>>
    BY Zenon, <1>0, <1>u, <2>1, RowIs, LossKept
  <2>2. CASE /\ row.resolution # Null /\ Loser(row.resolution) = "user"
             /\ row' = [row EXCEPT !.disputeLossAccrued = TRUE] /\ losses' = [losses EXCEPT !.user = 1]
    <3> DEFINE r == [row EXCEPT !.disputeLossAccrued = TRUE]
    <3>1. /\ DOMAIN r = RowFields /\ r.status = row.status /\ r.settledStatus = row.settledStatus /\ r.hash = row.hash
          /\ r.disputeLossAccrued = TRUE /\ r.resolution = row.resolution /\ row' = r
      BY ZenonT(60), <1>0, <2>2 DEF RowFields
    <3> HIDE DEF r
    <3>2. RowTrue(r)
      BY <1>0, <3>1 DEF RowTrue
    <3>3. RowTrue(row)'
      BY <1>u, <3>1, <3>2, RowIs
    <3>4. DOMAIN losses' = {"user", "lp"} /\ losses'["user"] = 1 /\ losses'["lp"] = losses["lp"]
      BY <1>0, <2>2 DEF LossTrue
    <3>5. PICK i \in applied : Loser(VerdictOf(feed[i])) = "user" /\ row.resolution = VerdictOf(feed[i])
      BY Zenon, <1>0, <2>2 DEF LossTrue
    <3>6. losses'["user"] + losses'["lp"] > 0 /\ losses'["user"] \in {0, 1} /\ losses'["lp"] \in {0, 1}
      BY <1>0, <3>4 DEF LossTrue
    <3>7. \A p \in {"user", "lp"} : losses'[p] = 1 => \E k \in applied : Loser(VerdictOf(feed[k])) = p
      BY <1>0, <3>4, <3>5 DEF LossTrue
    <3>8. applied' = applied
      BY <1>u
    <3>9. LossTrue'
      BY Zenon, <1>u, <3>1, <3>4, <3>5, <3>6, <3>7, <3>8 DEF LossTrue, VerdictOf
    <3> QED BY <3>1, <3>3, <3>9
  <2> QED BY Zenon, <2>1, <2>2 DEF Crash, backfillDisputesLost
<1>5. ClaimsTrue'
  BY Zenon, <1>0, <1>u, <1>3, <1>4, ClaimsKept
<1> QED BY SMTT(30), <1>1, <1>2, <1>3, <1>4, <1>5 DEF OrderInv

\* What happens around the operations keeps the invariant.
LEMMA SurroundingsKeep ==
    ASSUME OrderInv, (FeedNext /\ UNCHANGED syncVars) \/ StandDown \/ CacheExpires
    PROVE  OrderInv'
<1>0. ChainTrue /\ FeedTrue /\ CacheTrue /\ CallsTrue /\ RowTrue(row) /\ DOMAIN row = RowFields
  BY DEF OrderInv, RowTrue
<1>u. UNCHANGED <<ix, cursor, applied, losses, written, calls>> /\ [FeedNext]_feedVars
  BY DEF syncVars, StandDown, CacheExpires
<1>1. Grows
  BY <1>0, <1>u, FeedStep
<1>2. CacheTrue'
  BY <1>0, <1>1, CacheLeftAlone DEF syncVars, StandDown, CacheExpires
<1>3. CallsTrue'
  <2>1. ASSUME NEW c \in Calls PROVE CallTrue(calls[c])'
    <3>1. PICK q : q = calls[c]
      OBVIOUS
    <3>2. CallTrue(q)'
      BY <1>0, <1>1, <3>1, ReadStaysTrue DEF CallsTrue
    <3> QED BY Zenon, <1>u, <3>1, <3>2 DEF CallTrue, Trusted, ViewTrue
  <2> QED BY <1>0, <1>u, <2>1 DEF CallsTrue
<1>4. row' = row \/ RowMoves
  <2>1. CASE StandDown
    <3> DEFINE r == [row EXCEPT !.status = "CANCELLED"]
    <3>1. /\ DOMAIN r = RowFields /\ r.status = "CANCELLED" /\ r.settledStatus = row.settledStatus /\ r.hash = row.hash
          /\ r.disputeLossAccrued = row.disputeLossAccrued /\ r.resolution = row.resolution
          /\ row' = r /\ UNCHANGED feedVars
      BY <1>0, <2>1 DEF RowFields, StandDown
    <3> HIDE DEF r
    <3>2. RowTrue(r) /\ ~Bound(row.status)
      BY <1>0, <2>1, <3>1 DEF RowTrue, Bound, RowStatuses, SettledStatuses, BOUND_ON_CHAIN, ChainStatuses,
                              StandDown, PRE_CHAIN_STATUSES
    <3> QED BY <3>1, <3>2, RowWritten
  <2> QED BY <2>1 DEF syncVars, CacheExpires
<1> QED BY ZenonT(60), <1>u, <1>2, <1>3, <1>4, OperationKeeps

\* The order starts as its invariant says.
LEMMA OrderInit == Init => OrderInv
<1> SUFFICES ASSUME Init PROVE OrderInv
  OBVIOUS
<1>f. feed = <<>>
  BY Zenon DEF Init, FeedInit
<1>1. feed = <<>> /\ Len(feed) = 0 /\ feed \in Seq(EventType)
  BY ONLY <1>f
<1>2. PICK m \in BOOLEAN : chain = [status |-> "NONE", settled |-> Null, tx |-> 0, used |-> {}, liable |-> FALSE,
                                    matches |-> m, past |-> {}]
  BY ZenonT(60), MatchesAssumption DEF Init, FeedInit
<1>3. ChainTrue
  BY <1>1, <1>2 DEF ChainTrue, ChainType, SettledStatuses
<1>4. FeedTrue
  BY SMTT(30), <1>1 DEF FeedTrue
<1>5. RowTrue(row)
  BY DEF Init, RowTrue, RowFields, RowStatuses, PRE_CHAIN_STATUSES, Bound, BOUND_ON_CHAIN, ChainStatuses, SettledStatuses, Null
<1>6. CacheTrue /\ CallsTrue /\ IxTrue
  BY Zenon DEF Init, CacheTrue, CallsTrue, CallTrue, NoCall, CallFields, IxTrue, IdleIx, IxFields
<1>7. ClaimsTrue
  <2>1. cursor = 0 /\ applied = {} /\ written = 0 /\ ix.pc = "idle"
    BY Zenon DEF Init, IdleIx
  <2>2. DOMAIN feed = {}
    BY ONLY <1>f
  <2>3. cursor \in 0 .. Len(feed) /\ ~(1 <= cursor)
    BY ONLY <1>1, <2>1
  <2> QED BY Zenon, <2>1, <2>2, <2>3 DEF ClaimsTrue, Passed
<1>8. LossTrue
  <2>1. /\ losses = [user |-> 0, lp |-> 0] /\ row.disputeLossAccrued = FALSE /\ row.resolution = Null
    BY Zenon DEF Init
  <2>2. DOMAIN losses = {"user", "lp"} /\ losses["user"] = 0 /\ losses["lp"] = 0
    BY ONLY <2>1
  <2>3. 0 # 1 /\ ~(losses["user"] + losses["lp"] > 0)
    BY ONLY <2>2
  <2> QED BY Zenon, <2>1, <2>2, <2>3 DEF LossTrue
<1> QED BY <1>3, <1>4, <1>5, <1>6, <1>7, <1>8 DEF OrderInv

\* Every step of the trade, the indexer, the operations and the process keeps
\* the invariant.
LEMMA OrderNext == OrderInv /\ [Next]_vars => OrderInv'
<1> SUFFICES ASSUME OrderInv, [Next]_vars PROVE OrderInv'
  OBVIOUS
<1>1. CASE (FeedNext /\ UNCHANGED syncVars) \/ StandDown \/ CacheExpires
  BY <1>1, SurroundingsKeep
<1>2. CASE IndexerStep
  BY <1>2, PollsKeep, IndexerReadsKeep, VerdictsKeep, IndexerWritesKeep, AccrualKeeps DEF IndexerStep
<1>3. CASE AccrualFails \/ PollFails \/ Crash
  BY <1>3, AccrualKeeps, PollsKeep, CrashKeeps
<1>4. ASSUME NEW c \in Calls, CallStep(c) PROVE OrderInv'
  BY <1>4, ReadersKeep, WritersKeep, SubmittersKeep DEF CallStep
<1>5. CASE UNCHANGED vars
  <2>1. UNCHANGED <<feedVars, calls, row, cache, ix, cursor, applied, losses, written>>
    BY <1>5 DEF vars, syncVars
  <2>a. IxTrue'
    BY Zenon, <2>1 DEF OrderInv, IxTrue, ev, Settling, Trusted, feedVars
  <2>b. ClaimsTrue'
    BY Zenon, <2>1 DEF OrderInv, ClaimsTrue, Passed, Bound, feedVars
  <2>2. LossTrue'
    BY Zenon, <2>1 DEF OrderInv, LossTrue, feedVars, VerdictOf
  <2>3. RowTrue(row)' /\ CacheTrue'
    BY <2>1, RowIs, FeedStep, CacheLeftAlone DEF OrderInv
  <2> QED BY <2>1, <2>a, <2>b, <2>2, <2>3, IndexerKeeps
<1> QED BY <1>1, <1>2, <1>3, <1>4, <1>5 DEF Next

-----------------------------------------------------------------------------
(* Theorems *)

\* The order row and everything that is in flight around it agree with the
\* trade and its events, whoever writes in whatever order (order-ops, indexer).
THEOREM OrderInvariant == Spec => []OrderInv
BY OrderInit, OrderNext, PTL DEF Spec

\* The settlement the row shows is the one on chain of the order's own trade
\* (settlementFieldsFrom, applyEvent, applyResolvedEvent, autoRefundExpired).
THEOREM SettlementIsTrueHolds == Spec => []SettlementIsTrue
<1>1. OrderInv => SettlementIsTrue
  BY DEF OrderInv, RowTrue, SettlementIsTrue
<1> QED BY <1>1, OrderInvariant, PTL

\* The row claims no stage its own trade has not been in, and a trade with
\* other terms never moves it (bindTradeToOrder, tradeBindsToOrder).
THEOREM RowIsNotAheadHolds == Spec => []RowIsNotAheadOfChain
<1>1. OrderInv => RowIsNotAheadOfChain
  BY DEF OrderInv, RowTrue, RowIsNotAheadOfChain, notYetBoundOnChain, Bound
<1> QED BY <1>1, OrderInvariant, PTL

\* Once the indexer has passed the funding, the order is on chain for good
\* (poll, the guarded closing writes).
THEOREM BoundOnceSeenHolds == Spec => []BoundOnceSeen
<1>1. ASSUME OrderInv PROVE BoundOnceSeen
  <2>1. cursor >= 1 => Passed(1)
    BY Zenon, <1>1 DEF OrderInv, ClaimsTrue, Passed
  <2> QED BY Zenon, <1>1, <2>1 DEF OrderInv, ClaimsTrue, BoundOnceSeen, notYetBoundOnChain, Bound
<1> QED BY <1>1, OrderInvariant, PTL

\* A party loses at most once on an order, and only by a verdict
\* (accrueDisputeLoss, backfillDisputesLost).
THEOREM LossCountedOnceHolds == Spec => []LossCountedOnce
<1>1. OrderInv => LossCountedOnce
  BY DEF OrderInv, LossTrue, LossCountedOnce, VerdictOf
<1> QED BY <1>1, OrderInvariant, PTL

\* Only the first application of a verdict closes a filing, and verdicts are
\* applied in the order of their events (claimEvent, closeDisputeRound).
LEMMA FilingStep ==
    ASSUME OrderInv, [Next]_vars, row.disputeBy # Null, row'.disputeBy # row.disputeBy
    PROVE  row'.disputeBy = Null /\ written' > written
<1>0. DOMAIN row = RowFields /\ RowTrue(row) /\ ChainTrue /\ IxTrue /\ CallsTrue /\ ClaimsTrue
  BY Zenon DEF OrderInv, RowTrue
<1>l. Len(feed) \in Nat /\ DOMAIN feed = 1 .. Len(feed)
  BY Zenon, FeedShape DEF OrderInv
<1>m. ASSUME NEW v PROVE Mirror(v, row).disputeBy = row.disputeBy
  <2> DEFINE s == settlementFieldsFrom(v, row)
  <2>1. DOMAIN s = RowFields /\ s.disputeBy = row.disputeBy
    BY <1>0 DEF settlementFieldsFrom, RowFields
  <2> HIDE DEF s
  <2>2. Mirror(v, row) = [s EXCEPT !.status = v.status]
    BY DEF Mirror, s
  <2> QED BY <2>1, <2>2 DEF RowFields
<1>n. row' # row
  BY Zenon
<1>1. CASE WriteVerdict
  <2>1. /\ Unclaimed(ix.pos) /\ written' = ix.pos /\ ix.pc = "write" /\ ev.name = "resolved"
        /\ \E m : row' = closeDisputeRound(m)
    BY Zenon, <1>1, <1>n DEF WriteVerdict
  <2>2. ix.pos \in DOMAIN feed /\ feed[ix.pos].name = "resolved" /\ ix.pos \notin applied /\ chain.matches
    <3>1. /\ ix.last \in 1 .. Len(feed) /\ ix.pos \in 1 .. ix.last /\ chain.matches
          /\ feed[ix.pos].name = "resolved" /\ ix.pos \notin applied
      BY Zenon, <1>0, <2>1 DEF IxTrue, ev, Unclaimed
    <3>2. ix.pos \in 1 .. Len(feed)
      BY ONLY <1>l, <3>1
    <3> QED BY Zenon, <1>l, <3>1, <3>2
  <2>3. written \in {0} \cup applied /\ applied \subseteq DOMAIN feed
    BY Zenon, <1>0 DEF ClaimsTrue
  <2>4. ~(ix.pos < written) /\ written # ix.pos /\ ix.pos \in Nat \ {0} /\ written \in Nat
    <3>1. \A j \in DOMAIN feed :
            feed[j].name = "resolved" /\ (\E i \in applied : j < i) => j \in applied
      BY Zenon, <1>0, <2>2 DEF ClaimsTrue
    <3>2. ix.pos < written => written # 0
      BY ONLY <1>l, <2>2
    <3>3. ~(ix.pos < written)
      BY Zenon, <2>2, <2>3, <3>1, <3>2
    <3> QED BY ONLY <1>l, <2>2, <2>3, <3>3
  <2>5. row'.disputeBy = Null
    <3>1. CASE ev.post
      <4>1. row' = closeDisputeRound([Mirror(ix.view, row) EXCEPT !.resolution = VerdictName])
        BY <1>1, <1>n, <3>1 DEF WriteVerdict
      <4>2. RowTrue(Mirror(ix.view, row))
        BY Zenon, <1>0, <2>1, <3>1, MirrorIsTrue DEF IxTrue
      <4> QED BY <4>1, <4>2, VerdictRow
    <3>2. CASE ~ev.post
      <4> DEFINE target == IF ev.released THEN "RELEASED" ELSE "REFUNDED"
                 m == [row EXCEPT !.status = target, !.settledStatus = target, !.settledAt = TRUE, !.hash = ev.tx]
                 k == [m EXCEPT !.resolution = VerdictName]
      <4>1. row' = closeDisputeRound(k)
        BY <1>1, <1>n, <3>2 DEF WriteVerdict
      <4>2. DOMAIN m = RowFields
        BY <1>0
      <4> HIDE DEF m
      <4>3. DOMAIN k = RowFields
        BY <4>2
      <4> HIDE DEF k
      <4> QED BY <4>1, <4>3 DEF closeDisputeRound, RowFields
    <3> QED BY <3>1, <3>2
  <2> QED BY <2>1, <2>4, <2>5
<1>2. CASE IndexerStep /\ ~WriteVerdict
  <2>1. CASE WriteStatus
    BY Zenon, <1>0, <1>n, <2>1 DEF WriteStatus, RowFields
  <2>2. CASE BackfillSettlementHash \/ WriteDispute \/ ReconcileDisputeMetadata \/ AccrueDisputeLoss
    BY <1>0, <2>2 DEF BackfillSettlementHash, WriteDispute, ReconcileDisputeMetadata, AccrueDisputeLoss, accrue, RowFields
  <2> QED BY <1>2, <1>n, <2>1, <2>2 DEF IndexerStep, Poll, LoadOrder, BindTradeToOrder, ReadForDeadlines,
                                       ReadForDispute, ReadForVerdict, StoreCursor
<1>3. CASE Crash \/ StandDown
  BY <1>0, <1>3 DEF Crash, backfillDisputesLost, StandDown, RowFields
<1>4. ASSUME NEW c \in Calls, CallStep(c) PROVE FALSE
  <2>1. CASE RefreshWrite(c) \/ CancelOverwrite(c)
    BY <1>m, <2>1 DEF RefreshWrite, CancelOverwrite
  <2>2. CASE FileClaim(c)
    BY <2>2 DEF FileClaim
  <2>3. CASE CancelWrite(c) \/ ExpireWrite(c) \/ ReconcileWrite(c) \/ AttestWrite(c)
    BY Zenon, <1>0, <2>3 DEF CancelWrite, ExpireWrite, CloseIfPreChain, ReconcileWrite, AttestWrite, RowFields
  <2>4. CASE AutoRefundWrite(c)
    <3> DEFINE b == [row EXCEPT !.status = "REFUNDED", !.settledStatus = "REFUNDED", !.settledAt = TRUE, !.hash = chain.tx]
    <3>1. DOMAIN b = RowFields /\ b.disputeBy = row.disputeBy
      BY <1>0 DEF RowFields
    <3>2. row' = row \/ row' = settlementFieldsFrom(calls[c].view, b)
      BY <2>4 DEF AutoRefundWrite
    <3> HIDE DEF b
    <3> QED BY Zenon, <3>1, <3>2 DEF settlementFieldsFrom, RowFields
  <2> QED BY ZenonT(60), <1>4, <1>n, <2>1, <2>2, <2>3, <2>4 DEF CallStep, Begin, CallFails, RefreshRead, FileCheck, FileSimulate,
        CancelRead, ExpireRead, RefundRead, RefundSubmit, RefundReadBack, AttestSubmit
<1> QED BY Zenon, <1>1, <1>2, <1>3, <1>4, <1>n DEF Next, vars, syncVars, AccrualFails, PollFails, CacheExpires

\* A filing on record leaves the row only with the first application of a
\* later verdict (postDispute, closeDisputeRound).
THEOREM FilingStandsHolds == Spec => FilingStands
<1>1. OrderInv /\ [Next]_vars =>
        [row.disputeBy # Null /\ row'.disputeBy # row.disputeBy => row'.disputeBy = Null /\ written' > written]_vars
  BY FilingStep
<1> QED BY <1>1, OrderInvariant, PTL DEF Spec, FilingStands
=====
