---------------------------- MODULE QuoteForm ------------------------------
(***************************************************************************)
(* The buy and the sell form of the web app.  The amount typed becomes, at *)
(* once (sell) or after a pause and through the displayed rate (buy), the  *)
(* key of a cached query that asks the server for a quote.  Continuing pins*)
(* the quote on the page in a review sheet; confirming the sheet sends the *)
(* pinned quote.  Answers arrive late, in any order, or not at all; the    *)
(* page asks again for a quote that has grown stale, and time passes.      *)
(***************************************************************************)
EXTENDS Integers, Sequences, FiniteSets

CONSTANTS Typeable,     \* amounts that may be typed, 0 for one that is refused
    Rates, FiatPrices,  \* displayed rates; prices the server may quote at
    HOLD,               \* how long a price is held
    MaxQuotesMade, MaxQuoteTick, MaxTyping

ASSUME HoldIsATime == HOLD \in Nat

VARIABLES form, typed, settled, rate, shown, asking, reviewed, sending, quotesMade, ordersMade, hour, typings

formVars == <<form, typed, settled, rate, shown, asking, reviewed, sending, quotesMade, ordersMade, hour, typings>>

NoId == 0
Refusal == -1
NotSending == [quote |-> NoId, amount |-> 0, price |-> 0, at |-> "idle"]
NoReview == [quote |-> NoId, amount |-> 0]

usdcBaseUnitsFor(idr, r) == IF r > 0 THEN idr \div r ELSE 0

\* The amounts a form can hold, and those it can ask a quote for.
Entries == Typeable \cup {0}
Keys == Entries \cup {usdcBaseUnitsFor(idr, r) : idr \in Entries, r \in Rates}

\* The cache's key for an amount.
KeyOf(amount) == amount
usdcAmount == IF form = "buy" THEN usdcBaseUnitsFor(settled, rate) ELSE typed
Key == KeyOf(usdcAmount)

Expired(q) == hour >= quotesMade[q].expires

----------------------------------------------------------------------------
(* Typing and the displayed rate.                                          *)

Type(a) ==
    /\ typings < MaxTyping
    /\ a # typed
    /\ reviewed = NoReview
    /\ typed' = a
    /\ typings' = typings + 1
    /\ UNCHANGED <<form, settled, rate, shown, asking, reviewed, sending, quotesMade, ordersMade, hour>>

DebounceFires ==
    /\ form = "buy"
    /\ settled # typed
    /\ settled' = typed
    /\ UNCHANGED <<form, typed, rate, shown, asking, reviewed, sending, quotesMade, ordersMade, hour, typings>>

RateArrives(r) ==
    /\ form = "buy"
    /\ r # rate
    /\ rate' = r
    /\ UNCHANGED <<form, typed, settled, shown, asking, reviewed, sending, quotesMade, ordersMade, hour, typings>>

----------------------------------------------------------------------------
(* The quote query.                                                        *)

\* The request for a key: it replaces one in flight.
Request ==
    /\ usdcAmount >= 1
    /\ Len(quotesMade) < MaxQuotesMade
    /\ \E p \in FiatPrices :
        quotesMade' = Append(quotesMade, [amount |-> usdcAmount, price |-> p, expires |-> hour + HOLD, used |-> FALSE])
    /\ asking' = [asking EXCEPT ![Key] = Len(quotesMade) + 1]

\* Asked when the key has no data, and again when what it has is stale.
AskQuote ==
    /\ asking[Key] \in {NoId, Refusal}
    /\ Request
    /\ UNCHANGED <<form, typed, settled, rate, shown, reviewed, sending, ordersMade, hour, typings>>

QuoteArrives(k) ==
    /\ asking[k] \in DOMAIN quotesMade
    /\ shown' = [shown EXCEPT ![k] = asking[k]]
    /\ asking' = [asking EXCEPT ![k] = NoId]
    /\ UNCHANGED <<form, typed, settled, rate, reviewed, sending, quotesMade, ordersMade, hour, typings>>

\* The request fails, or its answer is lost; data already shown stays, beside
\* the refusal, which stops the form from continuing.
QuoteLost(k) ==
    /\ asking[k] \in DOMAIN quotesMade
    /\ asking' = [asking EXCEPT ![k] = Refusal]
    /\ UNCHANGED <<form, typed, settled, rate, shown, reviewed, sending, quotesMade, ordersMade, hour, typings>>

----------------------------------------------------------------------------
(* The review sheet.                                                       *)

canContinue ==
    /\ shown[Key] # NoId
    /\ asking[Key] # Refusal
    /\ ~Expired(shown[Key])
    /\ sending = NotSending

\* The quote on the page is pinned, with the amount it is shown for.
Continue ==
    /\ canContinue
    /\ reviewed = NoReview
    /\ reviewed' = [quote |-> shown[Key], amount |-> usdcAmount]
    /\ UNCHANGED <<form, typed, settled, rate, shown, asking, sending, quotesMade, ordersMade, hour, typings>>

closeReview == reviewed' = NoReview

\* The sheet's Back stays pressable while the order is being sent.
Back ==
    /\ reviewed # NoReview
    /\ closeReview
    /\ UNCHANGED <<form, typed, settled, rate, shown, asking, sending, quotesMade, ordersMade, hour, typings>>

\* The effect closes the sheet, even while the order is being sent, and asks
\* for a fresh quote under the key the page is on now.
ReviewExpires ==
    /\ reviewed # NoReview
    /\ Expired(reviewed.quote)
    /\ closeReview
    /\ IF usdcAmount >= 1 THEN Request ELSE UNCHANGED <<quotesMade, asking>>
    /\ UNCHANGED <<form, typed, settled, rate, shown, sending, ordersMade, hour, typings>>

SubmittedLive == shown[Key]
Submitted == reviewed.quote

\* The pinned quote goes out; what the sheet displayed is kept with it.
Confirm ==
    /\ reviewed # NoReview
    /\ sending = NotSending
    /\ Submitted # NoId
    /\ sending' = [quote |-> Submitted, amount |-> reviewed.amount, price |-> quotesMade[reviewed.quote].price,
                   at |-> "sent"]
    /\ UNCHANGED <<form, typed, settled, rate, shown, asking, reviewed, quotesMade, ordersMade, hour, typings>>

----------------------------------------------------------------------------
(* The server opens the order, or refuses it, and the answer comes back.   *)

OpenOrder ==
    /\ sending.at = "sent"
    /\ ~Expired(sending.quote)
    /\ ~quotesMade[sending.quote].used
    /\ quotesMade' = [quotesMade EXCEPT ![sending.quote].used = TRUE]
    /\ ordersMade' = ordersMade \cup {sending}
    /\ sending' = [sending EXCEPT !.at = "opened"]
    /\ UNCHANGED <<form, typed, settled, rate, shown, asking, reviewed, hour, typings>>

\* Success leaves the form for the order's page; a fresh form starts there.
Opened ==
    /\ sending.at = "opened"
    /\ typed' = 0
    /\ settled' = 0
    /\ sending' = NotSending
    /\ closeReview
    /\ UNCHANGED <<form, rate, shown, asking, quotesMade, ordersMade, hour, typings>>

\* A refusal, or an answer lost on its way: the sheet closes on a message.
NotOpened ==
    /\ sending.at \in {"sent", "opened"}
    /\ sending' = NotSending
    /\ closeReview
    /\ UNCHANGED <<form, typed, settled, rate, shown, asking, quotesMade, ordersMade, hour, typings>>

TimeGoes ==
    /\ hour < MaxQuoteTick
    /\ hour' = hour + 1
    /\ UNCHANGED <<form, typed, settled, rate, shown, asking, reviewed, sending, quotesMade, ordersMade, typings>>

FormInit ==
    /\ form \in {"buy", "sell"}
    /\ typed = 0
    /\ settled = 0
    /\ rate \in Rates
    /\ shown = [k \in Keys |-> NoId]
    /\ asking = [k \in Keys |-> NoId]
    /\ reviewed = NoReview
    /\ sending = NotSending
    /\ quotesMade = <<>>
    /\ ordersMade = {}
    /\ hour = 0
    /\ typings = 0

FormNext ==
    \/ \E a \in Typeable : Type(a)
    \/ DebounceFires
    \/ \E r \in Rates : RateArrives(r)
    \/ AskQuote
    \/ \E k \in Keys : QuoteArrives(k)
    \/ \E k \in Keys : QuoteLost(k)
    \/ Continue
    \/ Back
    \/ ReviewExpires
    \/ Confirm
    \/ OpenOrder
    \/ Opened
    \/ NotOpened
    \/ TimeGoes

FormSpec == FormInit /\ [][FormNext]_formVars

----------------------------------------------------------------------------

(* An order is opened on the terms the review sheet displayed when it was  *)
(* confirmed: the amount and the price, although the amount under the      *)
(* sheet, the rate and the quote on the page have moved on meanwhile.      *)
OrderIsAsReviewed ==
    \A o \in ordersMade :
        /\ quotesMade[o.quote].amount = o.amount
        /\ quotesMade[o.quote].price = o.price

=============================================================================
