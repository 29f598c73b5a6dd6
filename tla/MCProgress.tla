----------------------------- MODULE MCProgress ------------------------------
(* The components with something that must happen in the end, side by side:  *)
(* `part' says which one runs, the others stay as they start.  Fairness is   *)
(* each component's own, for the part that runs.                             *)
EXTENDS Outbox, Alerts, Session, Console, TLC

VARIABLE part

AlertParts == {"samples", "counts"}
Parts == {"outbox", "session", "console"} \cup AlertParts

\* Two orders of a sampled family, a count and a check.  The alerts run twice,
\* once with the orders and the check, once with the count and the check.
MCWatches == {<<"d", "x">>, <<"d", "y">>, <<"n", "all">>, <<"c", "x">>}
MCPosition ==
    Blind :> 0 @@ Overflow("d") :> 1 @@ <<"d", "x">> :> 2 @@ <<"d", "y">> :> 3
    @@ <<"n", "all">> :> 4 @@ <<"c", "x">> :> 5

Left == IF part = "samples" THEN "n" ELSE "d"

MCInit ==
    /\ part \in Parts
    /\ OInit /\ AInit /\ SessionInit /\ ConsoleInit
    /\ part # "session" => kit.on = "a"

OutboxPart == part = "outbox" /\ UNCHANGED <<part, alertVars, sessionVars, consoleVars>>
AlertsPart ==
    /\ part \in AlertParts
    /\ UNCHANGED <<part, outboxVars, sessionVars, consoleVars>>
SessionPart == part = "session" /\ UNCHANGED <<part, outboxVars, alertVars, consoleVars>>
ConsolePart == part = "console" /\ UNCHANGED <<part, outboxVars, alertVars, sessionVars>>

MCNext ==
    \/ OutboxPart /\ ONext
    \/ AlertsPart /\ ANext /\ (\A k \in found' \cup unread' : k[1] # Left)
    \/ SessionPart /\ SessionNext
    \/ ConsolePart /\ ConsoleNext

MCVars == <<part, outboxVars, alertVars, sessionVars, consoleVars>>

\* Each part's fair actions.  One part runs, so an action of each may share a
\* conjunct: the disjunction is enabled, and taken, as the running part's is.
MCFairness ==
    /\ WF_MCVars(\/ OutboxPart /\ Drain("i")
                 \/ AlertsPart /\ Tick
                 \/ SessionPart /\ PressConnect
                 \/ ConsolePart /\ StartRead)
    /\ WF_MCVars((OutboxPart /\ Drain("j")) \/ (SessionPart /\ Connect))
    /\ WF_MCVars((OutboxPart /\ BecomesDue("a")) \/ (SessionPart /\ Challenge))
    /\ WF_MCVars((OutboxPart /\ BecomesDue("b")) \/ (SessionPart /\ (SignMessage \/ SignStale)))
    /\ WF_MCVars(SessionPart /\ (Login \/ VerifyRefused))
    /\ SF_MCVars(ConsolePart /\ FinishRead)

MCFairSpec == MCInit /\ [][MCNext]_MCVars /\ MCFairness

(* A user who keeps trying gets in (handleConnect, login).  The only way to  *)
(* stay out is a wallet switched to another account than the one the page    *)
(* still remembers.                                                          *)
EveryUserGetsIn == part = "session" => SignInIsReached
=============================================================================
