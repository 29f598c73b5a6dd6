----------------------------- MODULE MCServices ------------------------------
(* Components that do not share state with each other, checked side by side: *)
(* `part' says which one runs, the others stay as they start.                *)
EXTENDS Realtime, Settings, Prices, QuoteForm, Attest, Submission, Files, Interactive, Screens

VARIABLE part

Parts == {"realtime", "settings", "prices", "form", "attest", "submission", "proofs", "nights", "hosted", "screens"}

\* The backup over several nights, with one upload at a time.
Nights == INSTANCE Files WITH Trades <- {"o"}, Proofs <- {"c"}, Rrns <- {}, RETENTION <- 1,
              MaxKeys <- 2, MaxTroubles <- 2, MaxDays <- 3

MCFirst == [spreadBps |-> 4, platformFeeBps |-> 1, lpFeeBps |-> 1, platformWallet |-> "w", paused |-> FALSE,
            minOrder |-> 2, maxOrder |-> 8, payWindowSecs |-> 2, confirmWindowSecs |-> 1, disputeWindowSecs |-> 1,
            dailyLimitByTier |-> [t \in {"GOLD"} |-> 4]]
MCValues == [f \in DOMAIN MCFirst |->
    CASE f = "spreadBps" -> {1, 3}
      [] f = "platformFeeBps" -> {1, 2}
      [] f = "minOrder" -> {2, 4}
      [] f = "payWindowSecs" -> {4}
      [] f = "dailyLimitByTier" -> {[t \in {"BRONZE", "GOLD"} |-> IF t = "GOLD" THEN 4 ELSE b] : b \in {1, 2}}
      [] OTHER -> {}]
MCDefault == [t \in {"BRONZE", "GOLD"} |-> IF t = "GOLD" THEN 8 ELSE 2]

MCFirstMarket == [enabled |-> TRUE, override |-> 0, bounds |-> <<50, 160>>]
MCMarketRows == {[MCFirstMarket EXCEPT !.enabled = FALSE], [MCFirstMarket EXCEPT !.override = 110],
                 [MCFirstMarket EXCEPT !.bounds = <<90, 120>>]}

MCInit ==
    /\ part \in Parts
    /\ RtInit /\ SettingsInit /\ PriceInit /\ FormInit /\ AttestInit /\ SubmitInit /\ InteractiveInit
    /\ ScrInit
    /\ IF part = "nights" THEN Nights!FilesInit ELSE FilesInit
    /\ part # "form" => form = "buy" /\ rate = 1
    /\ part # "submission" => sender = "stake"
    /\ part # "screens" => flow = "TOP_UP" /\ view.kind = "web"
    /\ flow = "TOP_UP" \/ view.kind # "lp" => requireProof

MCNext ==
    \/ part = "realtime" /\ RtNext
       /\ UNCHANGED <<part, settingsVars, priceVars, formVars, attestVars, submitVars, fileVars, interactiveVars, screenVars>>
    \/ part = "settings" /\ SettingsNext
       /\ UNCHANGED <<part, rtVars, priceVars, formVars, attestVars, submitVars, fileVars, interactiveVars, screenVars>>
    \/ part = "prices" /\ PriceNext
       /\ UNCHANGED <<part, rtVars, settingsVars, formVars, attestVars, submitVars, fileVars, interactiveVars, screenVars>>
    \/ part = "form" /\ FormNext
       /\ UNCHANGED <<part, rtVars, settingsVars, priceVars, attestVars, submitVars, fileVars, interactiveVars, screenVars>>
    \/ part = "attest" /\ AttestNext
       /\ UNCHANGED <<part, rtVars, settingsVars, priceVars, formVars, submitVars, fileVars, interactiveVars, screenVars>>
    \/ part = "submission" /\ SubmitNext
       /\ UNCHANGED <<part, rtVars, settingsVars, priceVars, formVars, attestVars, fileVars, interactiveVars, screenVars>>
    \/ part = "proofs" /\ FilesNext
       /\ UNCHANGED <<part, rtVars, settingsVars, priceVars, formVars, attestVars, submitVars, interactiveVars, screenVars>>
    \/ part = "nights" /\ Nights!FilesNext
       /\ UNCHANGED <<part, rtVars, settingsVars, priceVars, formVars, attestVars, submitVars, interactiveVars, screenVars>>
    \/ part = "hosted" /\ InteractiveNext
       /\ UNCHANGED <<part, rtVars, settingsVars, priceVars, formVars, attestVars, submitVars, fileVars, screenVars>>
    \/ part = "screens" /\ ScrNext
       \* Only the hosted page reads the claim, only the provider's card the proof.
       /\ (view.kind # "hosted" => ~ord'.claimed) /\ (view.kind # "lp" => ~ord'.proof)
       /\ UNCHANGED <<part, rtVars, settingsVars, priceVars, formVars, attestVars, submitVars, fileVars, interactiveVars>>

MCVars == <<part, rtVars, settingsVars, priceVars, formVars, attestVars, submitVars, fileVars, interactiveVars, screenVars>>
MCSpec == MCInit /\ [][MCNext]_MCVars
=============================================================================
