----------------------------- MODULE Submission ----------------------------
(***************************************************************************)
(* A page that asks the coordinator for a transaction, has the wallet sign *)
(* it and sends it to the network.  The provider's stake and assignment    *)
(* pages and the anchor's hosted page wait for the outcome; the web and    *)
(* the operator pages stop at the network's first answer.  Answers get     *)
(* lost, polls give up, a transaction may be applied after either; the user*)
(* may press the button again.                                             *)
(***************************************************************************)
EXTENDS Integers, Sequences, FiniteSets

CONSTANTS MaxPresses

VARIABLES sender,       \* the page that sends
    press,              \* the handler at work
    told,               \* what the page says of each transaction
    wire,               \* what became of each transaction
    stepDone            \* whether the trade's step has been taken

submitVars == <<sender, press, told, wire, stepDone>>

\* Pages by how they submit.
Careful == {"stake", "assignments"}
Polling == Careful \cup {"hosted"}
Pages == Polling \cup {"web", "operator"}

\* A transaction in one of these never takes effect any more.
Final == {"out", "failed", "dropped"}
This == Len(wire)

----------------------------------------------------------------------------

\* The transaction is fetched and signed; a refusal there sends nothing.
Press ==
    /\ press = "idle"
    /\ Len(wire) < MaxPresses
    /\ press' = "sending"
    /\ wire' = Append(wire, "out")
    /\ told' = Append(told, "nothing")
    /\ UNCHANGED <<sender, stepDone>>

Says(what) ==
    /\ told' = [told EXCEPT ![This] = what]
    /\ press' = "idle"

\* What the page makes of a request nobody answered.
UnansweredIsFailure(p) == "failed"
Unanswered(p) == IF p \in Careful THEN "unknown" ELSE "failed"

\* The first answer: taken, already known to the network, or refused.
Sent ==
    /\ press = "sending"
    /\ wire' = [wire EXCEPT ![This] = "pending"]
    /\ IF sender \in Polling THEN press' = "polling" /\ UNCHANGED told ELSE Says("sent")
    /\ UNCHANGED <<sender, stepDone>>

Duplicate ==
    /\ press = "sending"
    /\ wire' = [wire EXCEPT ![This] = "pending"]
    /\ Says(Unanswered(sender))
    /\ UNCHANGED <<sender, stepDone>>

RefusedAtOnce ==
    /\ press = "sending"
    /\ wire' = [wire EXCEPT ![This] = "dropped"]
    /\ Says("failed")
    /\ UNCHANGED <<sender, stepDone>>

\* The request or its answer is lost.
NoAnswer ==
    /\ press = "sending"
    /\ \E fate \in {"out", "pending"} : wire' = [wire EXCEPT ![This] = fate]
    /\ Says(Unanswered(sender))
    /\ UNCHANGED <<sender, stepDone>>

\* A poll that ends without an outcome.
NotFound == "unknown"

PollTx ==
    /\ press = "polling"
    /\ \/ wire[This] = "applied" /\ Says("success")
       \/ wire[This] = "failed" /\ Says("failed")
       \/ wire[This] \in {"pending", "applied", "failed", "dropped"} /\ Says(NotFound)
    /\ UNCHANGED <<sender, wire, stepDone>>

\* The escrow takes a trade's step once, a dispute again after a verdict; a
\* stake may grow again and again.
Takes == sender = "stake" \/ ~stepDone

Lands(t) ==
    /\ wire[t] = "pending"
    /\ \/ /\ Takes
          /\ wire' = [wire EXCEPT ![t] = "applied"]
          /\ stepDone' = TRUE
       \/ /\ wire' = [wire EXCEPT ![t] = IF Takes THEN "dropped" ELSE "failed"]
          /\ UNCHANGED stepDone
    /\ UNCHANGED <<sender, press, told>>

\* A verdict settles the dispute the page's step opened.
Reopened ==
    /\ stepDone
    /\ stepDone' = FALSE
    /\ UNCHANGED <<sender, press, told, wire>>

SubmitInit ==
    /\ sender \in Pages
    /\ press = "idle"
    /\ told = <<>>
    /\ wire = <<>>
    /\ stepDone = FALSE

SubmitNext ==
    \/ Press
    \/ Sent
    \/ Duplicate
    \/ RefusedAtOnce
    \/ NoAnswer
    \/ PollTx
    \/ \E t \in DOMAIN wire : Lands(t)
    \/ Reopened

SubmitSpec == SubmitInit /\ [][SubmitNext]_submitVars

----------------------------------------------------------------------------

(* A page that claims success speaks of a transaction the network applied; *)
(* and one that a provider's page calls failed has no effect any more, so  *)
(* the button may be pressed again (submit of the stake and assignment     *)
(* pages).  The other pages call an unanswered request failed as well.     *)
PageIsHonest ==
    \A t \in DOMAIN wire :
        /\ told[t] = "success" => wire[t] = "applied"
        /\ told[t] = "failed" /\ sender \in Careful => wire[t] \in Final

=============================================================================
