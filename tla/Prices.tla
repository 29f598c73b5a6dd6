------------------------------ MODULE Prices -------------------------------
(***************************************************************************)
(* The price a quote is made at.  RateService reads the market and the     *)
(* configuration through two in-process caches with a short life, takes a  *)
(* manual override, a price fetched recently, or a new one from the price  *)
(* source, and holds a price that moved too far until another fetch agrees.*)
(* Requests that need a price at the same time share one fetch.  Time is a *)
(* counter of ticks; a tick may pass between any two steps.                *)
(***************************************************************************)
EXTENDS Integers, Sequences, FiniteSets

CONSTANTS
    Requests,           \* requests for a quote or for the displayed rate
    SourcePrices,       \* what the price source may answer
    FirstPrice,         \* the price cached at the start, fetched at time 0
    MarketRows,         \* what a market row may hold: enabled, override (0 for none),
                        \* and the plausible bounds <<min, max>>
    FirstMarket,
    PRICE_STALE, DEVIATION_BPS, CACHE_TTL,
    MaxTick, MaxEditsMade, MaxFetches, MaxAsks

ASSUME CachesLive == CACHE_TTL \in Nat \ {0}

VARIABLES rowOf, edits, entry, req, priceCache, pendingPrice, fetch, fetched, lag, asks, tick

priceVars == <<rowOf, edits, entry, req, priceCache, pendingPrice, fetch, fetched, lag, asks, tick>>

\* lag: how long ago the row last answered from a cache had been edited.
Caches == {"config", "market"}
NoEntry == [row |-> << >>, at |-> 0, version |-> 0]
NoFetch == [open |-> FALSE, id |-> 0, for |-> {}]
NoPrice == [price |-> 0, id |-> 0]
NewRequest == [at |-> "idle", reading |-> FALSE, since |-> 0, row |-> << >>, version |-> 0, base |-> 0,
               price |-> 0, id |-> 0]
Stages == {"enter", "config", "market"}
CacheAt(stage) == IF stage = "config" THEN "config" ELSE "market"

----------------------------------------------------------------------------
(* The two caches, ConfigCache.read and MarketsService.cached: the clock is*)
(* read before the row is, and stamps the entry.                           *)

StampAtEnd(r) == tick
StampOf(r) == req[r].since

Fresh(c) == entry[c].version > 0 /\ tick - entry[c].at < CACHE_TTL

\* What a request does with a row: refuse (paused, market not enabled), or go on.
Refuses(c, row) == IF c = "config" THEN row.paused ELSE ~row.enabled

Advance(stage, row) ==
    IF Refuses(CacheAt(stage), row) THEN NewRequest
    ELSE CASE stage = "enter" -> [NewRequest EXCEPT !.at = "config"]
           [] stage = "config" -> [NewRequest EXCEPT !.at = "market"]
           [] stage = "market" -> [NewRequest EXCEPT !.at = "price", !.row = row]

ReadCached(r) ==
    LET c == CacheAt(req[r].at)
    IN  /\ req[r].at \in Stages
        /\ ~req[r].reading
        /\ Fresh(c)
        /\ req' = [req EXCEPT ![r] = Advance(@.at, entry[c].row)]
        /\ lag' = IF entry[c].version \in DOMAIN edits[c] THEN tick - edits[c][entry[c].version] ELSE 0
        /\ UNCHANGED <<rowOf, edits, entry, priceCache, pendingPrice, fetch, fetched, asks, tick>>

\* The clock is read, then the row.
StartRead(r) ==
    LET c == CacheAt(req[r].at)
    IN  /\ req[r].at \in Stages
        /\ ~req[r].reading
        /\ ~Fresh(c)
        /\ req' = [req EXCEPT ![r].reading = TRUE, ![r].since = tick,
                              ![r].row = rowOf[c], ![r].version = Len(edits[c]) + 1]
        /\ UNCHANGED <<rowOf, edits, entry, priceCache, pendingPrice, fetch, fetched, lag, asks, tick>>

FinishRead(r) ==
    LET c == CacheAt(req[r].at)
    IN  /\ req[r].reading
        /\ entry' = [entry EXCEPT ![c] = [row |-> req[r].row, at |-> StampOf(r), version |-> req[r].version]]
        /\ req' = [req EXCEPT ![r] = Advance(@.at, @.row)]
        /\ UNCHANGED <<rowOf, edits, priceCache, pendingPrice, fetch, fetched, lag, asks, tick>>

\* An operator's edit commits and empties the caches of this process.
Edit(c, row) ==
    /\ Len(edits["config"]) + Len(edits["market"]) < MaxEditsMade
    /\ row # rowOf[c]
    /\ rowOf' = [rowOf EXCEPT ![c] = row]
    /\ edits' = [edits EXCEPT ![c] = Append(@, tick)]
    /\ entry' = [entry EXCEPT ![c] = NoEntry]
    /\ UNCHANGED <<req, priceCache, pendingPrice, fetch, fetched, lag, asks, tick>>

----------------------------------------------------------------------------
(* getReferencePrice.                                                      *)

\* createQuote looks the market up first, getDisplayRate does not.
Ask(r) ==
    /\ req[r].at = "idle"
    /\ asks < MaxAsks
    /\ asks' = asks + 1
    /\ \E stage \in {"enter", "config"} : req' = [req EXCEPT ![r] = [NewRequest EXCEPT !.at = stage]]
    /\ UNCHANGED <<rowOf, edits, entry, priceCache, pendingPrice, fetch, fetched, lag, tick>>

assertPlausible(price, row) == price > 0 /\ price \in row.bounds[1] .. row.bounds[2]

Distance(a, b) == IF a > b THEN a - b ELSE b - a
deviatesTooFar(prev, next) == Distance(next, prev) * 10000 > DEVIATION_BPS * prev
confirmsPendingPrice(price) == pendingPrice # NoPrice /\ ~deviatesTooFar(pendingPrice.price, price)

\* A quote is made at this price, or the request is refused.
Answer(r, price, row) ==
    req' = [req EXCEPT ![r] = IF assertPlausible(price, row)
                              THEN [NewRequest EXCEPT !.at = "quoted", !.price = price] ELSE NewRequest]

TakeOverride(r) ==
    /\ req[r].at = "price"
    /\ req[r].row.override > 0
    /\ Answer(r, req[r].row.override, req[r].row)
    /\ UNCHANGED <<rowOf, edits, entry, priceCache, pendingPrice, fetch, fetched, lag, asks, tick>>

Recent == tick - priceCache.fetchedAt < PRICE_STALE

TakeRecent(r) ==
    /\ req[r].at = "price"
    /\ req[r].row.override = 0
    /\ Recent
    /\ Answer(r, priceCache.price, req[r].row)
    /\ UNCHANGED <<rowOf, edits, entry, priceCache, pendingPrice, fetch, fetched, lag, asks, tick>>

\* refreshPrice: a fetch under way is shared, or a new one is started.
JoinFetch(r) ==
    /\ req[r].at = "price"
    /\ req[r].row.override = 0
    /\ ~Recent
    /\ fetch.open \/ Len(fetched) < MaxFetches
    /\ fetch' = IF fetch.open THEN [fetch EXCEPT !.for = @ \cup {r}]
                ELSE [open |-> TRUE, id |-> Len(fetched) + 1, for |-> {r}]
    /\ fetched' = IF fetch.open THEN fetched ELSE Append(fetched, [price |-> 0, at |-> 0])
    /\ req' = [req EXCEPT ![r].at = "waiting", ![r].base = priceCache.price]
    /\ UNCHANGED <<rowOf, edits, entry, priceCache, pendingPrice, lag, asks, tick>>

\* fetchPrices: every request that shares the fetch gets its answer.
SourceAnswers(p) ==
    /\ fetch.open
    /\ fetched' = [fetched EXCEPT ![fetch.id] = [price |-> p, at |-> tick]]
    /\ req' = [r \in Requests |-> IF r \in fetch.for
                                  THEN [req[r] EXCEPT !.at = "decide", !.price = p, !.id = fetch.id] ELSE req[r]]
    /\ fetch' = NoFetch
    /\ UNCHANGED <<rowOf, edits, entry, priceCache, pendingPrice, lag, asks, tick>>

\* A timeout, an error status, a malformed body, a currency that is missing.
SourceFails ==
    /\ fetch.open
    /\ req' = [r \in Requests |-> IF r \in fetch.for THEN NewRequest ELSE req[r]]
    /\ fetch' = NoFetch
    /\ UNCHANGED <<rowOf, edits, entry, priceCache, pendingPrice, fetched, lag, asks, tick>>

Implausible(r) ==
    /\ req[r].at = "decide"
    /\ ~assertPlausible(req[r].price, req[r].row)
    /\ req' = [req EXCEPT ![r] = NewRequest]
    /\ UNCHANGED <<rowOf, edits, entry, priceCache, pendingPrice, fetch, fetched, lag, asks, tick>>

Anomalous(r) == deviatesTooFar(req[r].base, req[r].price)

\* The price is held, and this request refused, until another one agrees.
Hold(r) ==
    /\ req[r].at = "decide"
    /\ assertPlausible(req[r].price, req[r].row)
    /\ Anomalous(r)
    /\ ~confirmsPendingPrice(req[r].price)
    /\ pendingPrice' = [price |-> req[r].price, id |-> req[r].id]
    /\ req' = [req EXCEPT ![r] = NewRequest]
    /\ UNCHANGED <<rowOf, edits, entry, priceCache, fetch, fetched, lag, asks, tick>>

Accept(r) ==
    /\ req[r].at = "decide"
    /\ assertPlausible(req[r].price, req[r].row)
    /\ ~Anomalous(r) \/ confirmsPendingPrice(req[r].price)
    /\ pendingPrice' = NoPrice
    /\ req' = [req EXCEPT ![r].at = "store", ![r].since = tick]
    /\ UNCHANGED <<rowOf, edits, entry, priceCache, fetch, fetched, lag, asks, tick>>

StoredAt(r) == req[r].since

\* The upsert may land after that of a later fetch.
Store(r) ==
    /\ req[r].at = "store"
    /\ priceCache' = [price |-> req[r].price, fetchedAt |-> StoredAt(r), id |-> req[r].id]
    /\ req' = [req EXCEPT ![r] = [NewRequest EXCEPT !.at = "quoted", !.price = req[r].price]]
    /\ UNCHANGED <<rowOf, edits, entry, pendingPrice, fetch, fetched, lag, asks, tick>>

Done(r) ==
    /\ req[r].at = "quoted"
    /\ req' = [req EXCEPT ![r] = NewRequest]
    /\ UNCHANGED <<rowOf, edits, entry, priceCache, pendingPrice, fetch, fetched, lag, asks, tick>>

\* The continuations of a fetch run before anything timed does.
Tick ==
    /\ tick < MaxTick
    /\ \A r \in Requests : req[r].at # "decide"
    /\ tick' = tick + 1
    /\ UNCHANGED <<rowOf, edits, entry, req, priceCache, pendingPrice, fetch, fetched, lag, asks>>

----------------------------------------------------------------------------

ConfigRows == [paused : BOOLEAN]

PriceInit ==
    /\ rowOf = [c \in Caches |-> IF c = "config" THEN [paused |-> FALSE] ELSE FirstMarket]
    /\ edits = [c \in Caches |-> << >>]
    /\ entry = [c \in Caches |-> NoEntry]
    /\ req = [r \in Requests |-> NewRequest]
    /\ priceCache = [price |-> FirstPrice, fetchedAt |-> 0, id |-> 0]
    /\ pendingPrice = NoPrice
    /\ fetch = NoFetch
    /\ fetched = << >>
    /\ lag = 0
    /\ asks = 0
    /\ tick = 0

PriceNext ==
    \/ \E r \in Requests :
        \/ Ask(r)
        \/ ReadCached(r)
        \/ StartRead(r)
        \/ FinishRead(r)
        \/ TakeOverride(r)
        \/ TakeRecent(r)
        \/ JoinFetch(r)
        \/ Implausible(r)
        \/ Hold(r)
        \/ Accept(r)
        \/ Store(r)
        \/ Done(r)
    \/ \E p \in SourcePrices : SourceAnswers(p)
    \/ SourceFails
    \/ \E row \in MarketRows : Edit("market", row)
    \/ \E row \in ConfigRows : Edit("config", row)
    \/ Tick

PriceSpec == PriceInit /\ [][PriceNext]_priceVars

----------------------------------------------------------------------------

(* A committed edit of the configuration or of a market is heeded by every *)
(* cached read within CACHE_TTL, also when it lands while a read is under  *)
(* way and the row read before it is stored after the cache was emptied.   *)
EditHeededWithinTTL == lag < CACHE_TTL

============================================================================
