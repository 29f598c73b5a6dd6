# A formal model of lolipay

TLA+ specifications of the lolipay on/off-ramp: the two Soroban contracts that
hold the money, the coordinator that follows the chain and decides who may
trade, and the pages people sign from. TLC checks small instances; TLAPS proves
the safety properties that matter most for every value of the constants.

## The system

| Part | State | Operations that change it |
| --- | --- | --- |
| Escrow contract (`contracts/escrow`) | `Config`, one `Trade` per id, the token balance | constructor, `set_config`, `set_paused`, `create_trade`, `mark_fiat_paid`, `release_from_funded`, `confirm_and_release`, `refund`, `cancel`, `raise_dispute`, `resolve` |
| Staking contract (`contracts/staking`) | `Config`, one `StakeInfo` per provider, the amount slashed per trade | constructor, `set_config`, `set_paused`, `stake`, `request_unstake`, `claim_unstake`, `slash` (which reads the escrow's `dispute_view`) |
| Order rows and indexer (coordinator, Postgres) | one row per order, the cursor, the ledger of applied verdicts, a four-second cache of chain reads | opened from a quote; mirrored from the chain by the indexer, by a refresh on read, by cancel, expiry, automatic refund, orphan recovery and attestation; filed against by a party |
| Opening, matching and limits | quotes, provider capacity, daily totals, hosted sessions | quote to order under advisory locks, undo of a second order of a session |
| Accounts: SEP-10, SEP-12, providers | challenges, persons and their wallets, verification rows, provider rows and their audit | sign in, link, revoke; submit, deliver, forget; apply, register, stand down, match, penalise |
| Services | socket slots and rooms, settings and their audit, cached prices, attestations, proofs and backups, hosted sessions | one handler or job each |
| Outbox and alerts | queued messages, alert fingerprints | enqueue, drain, retry, prune; raise, remind, clear |
| Pages | what a tab holds: its session, its quote, its submission, its copy of the server's rows | a click, an answer, a refetch, a reload |

The contracts are atomic: an invocation either completes or changes nothing.
What makes them hard is the *length* of a trade's life: deadlines that meet at
one instant, configuration and titles that change under open trades, and up to
three rounds of dispute after the money has left. The rest is hard for the
opposite reason: nothing in it is atomic. Several writers read a row, await
something, and write the row later; jobs replay after a crash; pages act on
copies.

## Modules

| Module | Models | Checked by |
| --- | --- | --- |
| `Escrow` | the escrow contract, one action per entry point | `one`, `live`, `operators` |
| `EscrowCustody` | what the escrow promises about money, without deadlines, titles or verdicts | `remedies`; implemented by `Escrow` (`one`, proved) |
| `Staking`, `EscrowStaking` | the staking contract, and both contracts on one token and one clock | `remedies` |
| `TradeFeed` | one trade as the coordinator sees it: `get_trade` and the published events | through `OrderSync` |
| `OrderSync` | one order row, the indexer, and every operation that writes the row from the chain | `orders`, `remedies`, `live`, two violations |
| `Opening` | quotes, choice of a provider, locks, limits, hosted sessions that open an order | `accounts` |
| `Kyc` | verification of a customer: submission, vendor sessions, deliveries, deletion | `accounts` |
| `SignIn` | challenges, persons, linking and revoking wallets, roles | `accounts`, `login_reuse` |
| `Providers` | provider rows: application, registration, decisions, presence, matching, penalties | `accounts`, `provider_apply` |
| `Realtime` | the socket gateway: slots, rooms, roles, expiry | `services` |
| `Settings` | the configuration row, the operators' pages that edit it, its audit | `services` |
| `Prices` | cached configuration and market rows, the price source, the deviation guard | `services` |
| `QuoteForm` | the buy and sell forms: typing, quoting, reviewing, ordering | `services` |
| `Attest` | attesting a payment as operator or provider: guard, queue, submission, log | `services` |
| `Submission` | a signed transaction on its way from a page to the chain | `services` |
| `Files` | proofs of payment in the store; nightly backups | `services` |
| `Interactive` | the session behind the hosted SEP-24 pages and the claim of payment | `services` |
| `Screens` | what each page offers to sign, against what the server and the contract admit | `services` |
| `Outbox`, `Alerts` | durable messages; alerts with their reminders and clearing | `progress` |
| `Session`, `Console` | a tab's session with the API; the provider console's copies | `progress` |
| `EscrowProofs`, `ContractProofs`, `OrderProofs`, `KycProofs`, `WalletProofs`, `MarketProofs`, `OperatorProofs`, `ServiceProofs` | theorems | TLAPS |
| `MC...` | constants and the composition of parts for TLC | |

Components that share no state are checked side by side in one run: a variable
`part` chooses at the start which of them runs, and the others stay as they
start. Every property of such a run is about one part, so this is a union of
models and not an interleaving. Some parts are a component under a second choice
of constants (`INSTANCE ... WITH` in the `MC` module), for instance `Nights`, the
backup over several nights.

### Escrow

`trades` is a function on the ids created so far, each a record with the fields
of the Rust `Trade`; `cfg` is `Config`; `bal` the token balances; `now` the
ledger timestamp. `require_auth` becomes a parameter: an action whose caller
matters takes the caller, and the attestor's second signature is a Boolean.
Early returns are guards, because a refused call changes nothing. `Settle`,
`SettleRelease` and `do_refund` are the tails shared by the entry points that
settle; payouts are part of the same step. Dropped as data: fiat amount and
currency, the token address (`set_config` refuses to change it), storage
lifetimes and published events. `confirmer` is always the provider because
`create_trade` refuses anything else.

### Staking and the two together

`Staking` reads `views`, the escrow's `dispute_view` of each trade;
`EscrowStaking` substitutes the escrow's own state for it, so `slash` reads
across the contract boundary in the same step, as the code does. `backing` is a
history variable: what the holder of a settled trade's money had staked when it
settled, less what has been slashed from them since.

### The order row and the chain

`TradeFeed` keeps of the escrow contract what leaves it: the status, the settled
outcome, the spent dispute slots, the liability, and the sequence of events, each
with the number of its transaction. A refunding verdict publishes two events in
one transaction. Whether the trade carries the order's terms is one Boolean,
fixed when the trade is created, because a trade's terms never change.

`OrderSync` cuts every handler at its awaits. A writer that has read the row keeps
`seen`, one that has read the chain keeps `view`, and both may be old when it
writes; a Prisma statement or transaction is one step.

| State | In the code |
| --- | --- |
| `row` | the columns of `Order` the writers share; `hash` is the settling transaction's number |
| `cursor`, `applied` | `IndexerState.cursor`, `IndexedEvent` |
| `ix` | the poll in progress: its place in the batch and what it read |
| `calls` | requests and jobs in flight, each at one of its awaits |
| `cache` | `statusCache` of `StellarReadService` for this trade |
| `losses` | `disputesLost` of the two parties together |
| `written` | history only: which verdict the row records |

The poll is `Poll`, `LoadOrder`, `BindTradeToOrder`, a read and a write per kind of
event, and `StoreCursor`; `PollFails` is any read or statement that throws, which
ends the poll and leaves the cursor. The operations are the refresh behind every
read of an order, `cancelOrder`, expiry, automatic refund, orphan recovery,
attestation, and a filing with the transaction it builds. `CallFails` ends an
operation at any await, also after its transaction landed. `Crash` loses
everything but the database. A job that waits for a deadline may begin at any
time, so every order of deadlines is included.

### The rest of the coordinator and the pages

Every handler is cut at its awaits, as in `OrderSync`: a call is a record with the
point it has reached and what it read so far. Guards are the code's conditions at
the point where they are evaluated, so a check made before an await is made on the
state of that moment.

* `Opening`: the bond is read before the capacity lock and the person lock; the
  commit re-reads exposure and usage under the locks. Statuses, sums and the tier
  are computed as the code does; amounts are small numbers. A session's second
  order is undone in a later step, or never when the process stops.
* `Kyc`: deliveries are a set of messages with the vendor's time on them, applied in
  any order, twice or never. The vendor's payload is reduced by
  `readDiditDecision` as in the code, from a small set of payloads.
* `SignIn`: a signature is a fact about who signed. The time is compared when a
  challenge is presented and the nonce is consumed in a later step; a SEP-10
  challenge is compared in whole seconds, its row of `ConsumedChallenge` is pruned by
  the instant, and pruning is a step of its own. `spent` counts every redemption,
  also one after the expiry.
* `Providers`: applications and decisions read the row before the trustline check or
  the audit write. Matching and expiry are the other two users of the row.
* `Settings`: a page holds the form, the row it was opened on and the fields typed
  into; a save is read, checked and committed in steps, against the version. The
  rules (`Coherent`) are those of the boot check.
* `Attest`: one attestor account, a queue in memory, a log with a unique key on the
  provider's statement. A submission may fail before it is sent, be sent and not
  answered, or be given up by the poll; all three are logged as `NOT_SUBMITTED`, and
  only the message of the last names the transaction. The time window of a
  provider's statement is left out: it refuses more, and the spent row outlives it.
* `Realtime`: a role is read in one step and acted on in a later one, both when a
  socket connects and when it joins an order's room. A join that was authorised ends
  in the room also when the socket has left.
* `Submission`: a page sends, and may get an answer, none, or one that the poll does
  not find. A verdict that settles a dispute opens the step again (`Reopened`).
* `Files`: an upload puts its object first and claims the row afterwards; the loser
  removes its own object. Either answer may be lost: a put then leaves a stray object,
  and an update that committed leaves a row whose file the upload removes (`doubted`).
  A night's backup is two dumps, each of which may be unreadable, a check and a prune.
* `Screens`: the offers of the order pages, the console's queues and the hosted page,
  compared with the guards of `buildTx` and of the contract at the same moment. A
  screen without a timer decides by the time at which it was last drawn. The
  operators' page does not poll; it fetches again on a realtime message.
* `Alerts`: a tick sees of each family what it could read, of a sampled family only
  the oldest up to the limit, and sends as many alerts as fit one message, urgent ones
  first. A tick may fail to commit, and one that cannot read `AlertState` publishes
  what fits without recording it. The fingerprint of a condition other than a count
  or the blind notice does not change while it lasts; a change would only send it sooner.
* `Console`: the pending screen and the dashboard poll the provider's row; the other
  pages read it when they are opened, after a change, or when the user asks. A first
  read that failed waits for the Retry button.

## What the runs show

* **`one`** - one trade, both flows, every path to settlement, three later rounds
  of dispute, and operators rotating onto the parties. The remedy against a
  settlement ends within four days of it (`RemedyCeiling`); a liability once found
  is never withdrawn nor its time shortened (`LiabilityIsFinal`, `RemedyFloor`); a
  verdict within a day of the resolver's deadline leaves the full grace
  (`PromptVerdictKeepsGrace`); the escrow implements the custody promise
  (`ImplementsCustody`); no verdict comes from a party (`NoPartyJudges`) and each
  dispute after settlement spends a free slot (`DisputeSpendsASlot`). Amount 199
  with fees of 2.5% and 5% makes both floor divisions inexact. `DAY = 2` and
  `HOUR = 1` keep the order of the code's deadlines; the clock runs on while
  some deadline is ahead, so late verdicts and the administrator's fallback occur.
* **`live`** - two parts. Every trade ends settled for good (`EveryTradeSettles`).
  Weakly fair: time; `refund`, which anyone may send and the coordinator's automatic
  refund sends; the administrator's fallback verdict; and a recipient who complains
  when a payment reported as made is not confirmed. The last is an assumption about a
  party, not about the code: with nobody complaining a `FiatPaid` trade waits, as
  SECURITY.md says. Nothing is assumed of the provider, the resolver or the
  attestor, and the pause may come and go. And a settlement reaches the row and stays
  (`SettlementReachesTheRow`), through a dispute, a crash or failed step, and a refresh or
  an expiry at any await. There only the poll is fair: it is scheduled every ten seconds and its
  reads time out. A refresh needs a reader, so it is not assumed.
* **`remedies`** - three parts. Both contracts interleaved at the shortest cool-down
  the staking contract accepts, no provider on the early-release list. A stake comes in
  halves of the trade, so a cut may take part of what is staked and part of what is
  unbonding. A stake present at settlement stays within reach until the remedy ends (`BondOutlivesRemedy`), the books equal the balance
  (`BondsAreFunded`), cuts are justified and bounded by the trade
  (`SlashIsJustified`). Two deposits in one vault, sharing payees: the balance is the
  sum of what is held (`HeldInFull`). An order row on which either party files, with
  a crash anywhere: only the first application of a verdict clears a filing
  (`FilingStands`). A verdict applied late also clears a filing made after it was on
  chain; the property allows that, because the row does not say which round a filing
  is for.
* **`orders`** - two parts. Up to five transactions, so two rounds of dispute, with
  a crash or a failed step anywhere and a reader refreshing; and any two of refresh,
  cancel, expiry, automatic refund, orphan recovery and attestation racing the
  indexer, on the order's own trade or another under its id. A settlement on the row
  is the one on chain (`SettlementIsTrue`); the row claims no stage its trade was not
  in, and another trade under its id never moves it (`RowIsNotAheadOfChain`); an order
  closed while it was being funded is found again (`BoundOnceSeen`); a party never
  has more than one loss counted for an order, and only one a verdict gave it
  (`LossCountedOnce`; a crash between a verdict and its accrual can leave a loss
  uncounted, which nothing here denies); when the indexer has caught up the row shows the latest
  verdict (`LatestVerdictShown`).
* **`accounts`** - concurrent orders never promise more than the quote, the bond and the
  daily limit allow (`OrdersAreCovered`); the second order of a hosted session is undone
  unless the process stopped (`UnlinkedIsUndone`); funds move only for an approved and,
  where required, screened customer, and a refusal is for good (`FundsNeedApproval`); what a
  customer is advised is what submitting again or ordering will meet (`AdviceIsTrue`); a
  challenge acts at most once up to its expiry, whatever requests present it together and
  whenever pruning runs (`ChallengeSpentOnce`); a person
  with a wallet keeps one and stays within the cap (`PersonKeepsAWallet`); a provider stood
  down keeps no order that is not on chain, but for a match in flight
  (`StoodDownHoldsNothingNew`).
* **`services`** - the room of a role is joined exactly by the sockets that hold it
  (`RoomsFollowRole`; the rooms of orders are modelled and not part of it); settings stay
  coherent (`ConfigIsCoherent`); an edit is heeded within the cache's lifetime
  (`EditHeededWithinTTL`); the order placed is the one reviewed (`OrderIsAsReviewed`); every
  attestation sent has an entry in the log, though the entry may say `NOT_SUBMITTED` of one
  that lands later (`AttestationIsRecorded`); a page claims success only of an applied
  transaction, and what a provider's page calls failed is not applied later
  (`PageIsHonest`; the customer's and the hosted pages call an unanswered request failed,
  and nothing is claimed of them there); the proof an order names is in the store, but for
  a row whose update was not answered (`ProofIsOnFile`); a hosted session ends
  (`SessionEndsInADay`); what a page in step with its order offers is taken by the
  coordinator and the escrow, with the exceptions the definition lists, and nobody is asked
  to pay into an escrow that can be refunded (`OffersHold`); the last good backup is not
  pruned (`GoodBackupIsKept`).
* **`progress`** - every message is delivered, or failed after all its tries
  (`EveryMessageEnds`); a lasting condition is told while the messages between two
  reminders can hold what comes before it, and its end is told too unless it was heard of
  only in an unrecorded message (`EveryConditionIsTold`). With more urgent conditions than
  that, routine ones are never told. A user who keeps trying gets in, unless the wallet was
  switched to another account than the page remembers (`EveryUserGetsIn`; reloading the page helps
  such a user, and is not assumed); an operator's decision shows on the pending screen and
  on the dashboard (`DecisionIsShown`; the notice of a suspension and the other pages do
  not ask again). Fair are the timers and the network: the outbox drains of each
  instance, a message becoming due, the alert tick, the console's refetch, which answers
  infinitely often when asked infinitely often, and, for the session, a user who presses
  the button again and answers the wallet. That a drain ends rests on the handlers
  returning; the mail handler relies on `fetch`'s own timeout. The alerts are two parts: a
  family sampled one at a time beside a check, and a count beside a check, with one alert to a
  message and three ticks between reminders, so that several conditions compete for each
  message and a sample is truncated.

Five runs end in a counterexample, each a disagreement between the code and what the
repository says of it:

* **`operators`** - README.md and SECURITY.md say no operator is a party to a trade.
  `create_trade` checks it; `set_config` can later give a title to a party of an open
  trade.
* **`order_cancel_race`** - `cancelOrder` writes the chain status it read by id alone. If a
  settlement is recorded between its read and its write, the row goes back to the earlier
  status until the next event or refresh. SECURITY.md says every write re-checks its
  precondition. `LatestVerdictShown` is checked without `cancel` for the same reason.
* **`order_stale_refresh`** - a view cached before a dispute of a settled order ranks after
  `DISPUTED`, so a refresh within four seconds moves the row back to settled while the
  dispute is open on chain and the indexer has nothing left to apply.
* **`provider_apply`** - an application that read the provider before a suspension writes
  `PENDING` over it.
* **`login_reuse`** - SECURITY.md says a login challenge is single use. The row that says
  it is spent may be pruned once its expiry is past, while SEP-10 accepts for the rest of
  that second and a request admitted in time is still to be recorded: it then spends the
  challenge again.

The bounds are two of whatever competes (requests, operators, browsers, persons, orders)
and one or two of what goes wrong (crashes, failed steps), because each property is about
a pair: a stale reader and a writer, a loser and a winner, a first application and a replay.
Counters named `Max...` end the behaviours, and components come to rest when they are
reached or when a trade is settled and its feed applied, so deadlock is not checked.

## What is proved

`EscrowProofs` proves, for any number of trades, any amounts and any windows the
contract accepts, type correctness, `RemedyCeiling`, `RemedyFloor`, `LiabilityIsFinal`,
`PromptVerdictKeepsGrace`, `DisputeSpendsASlot` and `NoPartyJudges`. The assumptions are those named in
`Escrow` (`TimeAssumption`, `AddressAssumption`, `InputAssumption`). None of the
properties is inductive alone. The inductive invariant `IInv` adds, per trade:
how `status` and `pre_dispute_status` constrain each other; that a settled
trade's `post_settle_deadline` is `settled_at + dispute_window` with the window
within the contract's bounds; that a dispute after settlement was raised before
that deadline, so its `resolver_deadline` is at most one `RESOLVER_WINDOW` later;
and that once the trade is settled `slash_deadline` is at most the ceiling, and
at least `post_settle_deadline` while a later dispute is open or a liability
stands. The ceiling is `post_settle_deadline + 2 days + 1 day`, and a window is at most one
day, which gives the four days the staking cool-down is built on. The action properties
follow from one lemma on what a step may do to a stored trade (`Change`).

`ContractProofs` proves `Spec => ImplementsCustody`: each entry point maps to one
step of the promise or to none. A dispute after settlement and its verdict map
to a stutter, which is the statement that they never pay again. It then proves, of the two
contracts together, that a bond outlives the remedy it stands for (`BondOutlivesRemedy`)
and that a cut is justified (`SlashIsJustified`). The invariant says where the bond behind a
settlement is while a remedy may still come: all of it is still staked, or what is unbonding
cannot be claimed before the last possible remedy. That the cool-down is longer than the
longest remedy is no assumption: `set_config` and the constructor of the staking contract
refuse a shorter one. `StakingAssumption` only says which addresses are parties, operators
and the vault. The run `remedies` has no provider on the early-release list; the theorem
covers every list.

`OrderProofs` proves of the order row `SettlementIsTrue`, `RowIsNotAheadOfChain`,
`BoundOnceSeen`, `LossCountedOnce` and `FilingStands`, for any operations in flight and any
number of disputes, replays and crashes; the run has at most two operations at once. The
row and the chain are compared through everything in between, so the invariant is about
three places: every event of the feed tells a status its trade was in; every view held by
the cache, the indexer or an operation was true when it was read and can only have aged;
and a row that is bound on chain agrees with its trade. What makes a view safe to apply late
is that a settlement, once on chain, is never replaced by another one. A loss is counted
only for a verdict in the ledger of those applied, and under the order's flag, so never twice. `MatchesAssumption` says that a trade carries the order's terms or does not.

`KycProofs` proves `FundsNeedApproval`, `AdviceIsTrue` and that deliveries never take a row
back. The gate is not inductive alone: the invariant says that an accepted row names the
delivery that accepted it, that this delivery is an approval of the session on the row, and
that every person ever refused still has a refusal on file. `PayloadsAssumption` gives the
shape of a vendor's report. Of the opening of orders it proves `UnlinkedIsUndone`, for any
number of instances, requests, hosted transactions and orders. The invariant says that a
request about to tie or to undo an order holds one that was made for the request's own
transaction, and that the transaction an order names is there; so the moment the tie is lost
to another request, the loser still has its order in hand. `NoneIsNull` says that NULL is not
an identifier.

`WalletProofs` proves `ChallengeSpentOnce`, `PersonKeepsAWallet` and that a wallet keeps its
person, for any number of wallets, requests and any cap. Up to its expiry a
spent challenge is on record, because its record is pruned by the expiry it carries; the
nonce tells challenges apart. After it nothing is claimed (see `login_reuse`). `SignInAssumption` makes the lifetimes and the cap numbers and
the set of wallets finite. Of submission it proves `PageIsHonest`, for any number of presses:
the transaction a handler is at work on is the newest one and nothing has been said of it
yet.

`MarketProofs` proves `StoodDownHoldsNothingNew`, that an audit entry tells the truth, and
that only a silent and reachable provider is penalised. The invariant says what a request in
flight still relies on of what it read. Of the prices it proves `EditHeededWithinTTL`, for any
number of requests and edits: a row in a cache, and a row on its way into one, was replaced
no earlier than the moment the entry is dated with, because the date is taken before the row is
read. `CachesLive` says that an entry lives for some time. Of the quote form it proves
`OrderIsAsReviewed`, for any amounts, rates and prices: what is cached under an amount, pinned
by the sheet, sent and ordered is always on the terms of the quote it names, and the terms of
a quote never change. `HoldIsATime` says that a price is held for a number of ticks.

`OperatorProofs` proves, of the settings, for any number of operators and any row, that the
row in force is coherent, that the audit is a chain without a gap and that a save keeps the
fields its operator did not type into. Coherence of the row alone is not inductive: a save is
checked on a row read earlier. The invariant ties a checked save to the version it was
checked on; the commit compares versions, so what it writes was checked on what it
replaces. Of the attestations it proves, for any number of orders, requests and restarts, that
submissions of the one attestor account take turns, that a provider's statement is spent
once, that no attestation is unrecorded, and that the row does not run ahead of the trade.
The invariant says where a transaction and a statement can be: with exactly one request, in
the log (or, if its send was not answered, behind an entry of its order), or among those
lost to a failure.

`ServiceProofs` proves the hosted session's end and the standing of a claim, the gateway's cap,
returned slots and rooms, the store's proofs and payment references, and the backup that is
kept, and that what an order page offers is taken. A session ends because the absolute expiry of every cookie is below one bound and
renewal keeps it. A proof is on file because a key in the hands of an upload that may
remove it is named by no order, except a row whose update was not answered. A good backup is kept because the prune is the last step of a
night whose own pair was just checked. `OffersHold` compares each control of a screen just drawn with the conditions of
the coordinator and of the escrow for every order of deadlines `ScreenTimes` allows; its second
half needs the invariant that a page that polls is at most one unit of time old and that money
goes back without a verdict only after the refund has opened.

Only model-checked: liveness (fairness is out of the prover's reach); `HeldInFull`,
`BondsAreFunded` and the sums of `OrdersAreCovered` (a sum over a set is a fold, whose value
cannot be proved by induction here); `LatestVerdictShown`, which holds only for some sets of
operations and not for `cancel`.

## What is not modelled

* Token trustlines, storage lifetimes and the ledger's own faults: outside the
  repository.
* RPC nodes that lag behind the event stream: a read of the chain in `OrderSync`
  is current, except through the cache.
* The cold start after the event retention window: the feed is complete.
* The arithmetic of rates and amounts: prices and amounts are small numbers or names.
* Signature checks, rendering, texts, mail transport, environment variables,
  one-shot scripts, the anchor self-check, proxies and host hardening: I/O,
  presentation or configuration.
