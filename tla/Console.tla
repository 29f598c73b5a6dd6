------------------------------ MODULE Console ------------------------------
(***************************************************************************)
(* The provider's app: the gate that shows an applicant, a pending, a      *)
(* suspended or an approved provider their screen, the dashboard with its  *)
(* availability switch, the payment methods and the keeper that beats while*)
(* the provider is online.  All of them share one cached copy of the       *)
(* provider's row, read from the coordinator by polling and after changes. *)
(* Reads and beats are answered late or not at all, and an operator changes*)
(* the row's status meanwhile.                                             *)
(***************************************************************************)
EXTENDS Integers, FiniteSets

CONSTANTS MaxRowChanges, MaxBeats

VARIABLES lpRow,        \* the coordinator's row, with a version for each change
    me,                 \* the page's copy of it
    reading,            \* the copy a read in flight carries
    sheet,              \* a change in flight: what it will do, and whether it was done
    where,              \* the page open under the gate
    keeper,             \* the heartbeat effect: its run, and whether it is on
    beats,              \* heartbeats in flight, by run
    failing,            \* lpBeatFailingSince: the run whose beat failed first, 0 for none
    beaten

consoleVars == <<lpRow, me, reading, sheet, where, keeper, beats, failing, beaten>>

NotARow == [status |-> "NONE", online |-> FALSE, bank |-> FALSE, v |-> 0]
Nothing == [NotARow EXCEPT !.v = -1]
NoSheet == [does |-> "nothing", to |-> FALSE, done |-> FALSE, v |-> 0]

\* The screen behind the gate.
Screen ==
    CASE me = Nothing -> "loading"
      [] me.status = "NONE" -> "apply"
      [] me.status = "PENDING" -> "pending"
      [] me.status \in {"SUSPENDED", "REVOKED"} -> "notice"
      [] OTHER -> "app"

Changed(row) == [row EXCEPT !.v = lpRow.v + 1]

----------------------------------------------------------------------------
(* Reading the row.                                                        *)

\* The pending screen's poll and the dashboard's poll.
PollsOnlyTheDashboard == Screen = "app" /\ where = "dashboard"
Refetches ==
    \/ Screen = "pending"
    \/ Screen = "app" /\ where = "dashboard"

StartRead ==
    /\ Refetches
    /\ reading = Nothing
    /\ reading' = lpRow
    /\ UNCHANGED <<lpRow, me, sheet, where, keeper, beats, failing, beaten>>

\* The retry and refresh buttons, and a window that gets the focus.  A first read
\* that failed is not repeated without them.
AskAgain ==
    /\ reading = Nothing
    /\ reading' = lpRow
    /\ UNCHANGED <<lpRow, me, sheet, where, keeper, beats, failing, beaten>>

\* The keeper's effect starts or stops with the copy's online flag.
Effect(online) ==
    IF online = keeper.on THEN UNCHANGED <<keeper, beats, failing>>
    ELSE IF online
    THEN /\ keeper' = [on |-> TRUE, run |-> keeper.run + 1]
         /\ beats' = beats \cup {keeper.run + 1}
         /\ UNCHANGED failing
    ELSE /\ keeper' = [keeper EXCEPT !.on = FALSE]
         /\ failing' = 0
         /\ UNCHANGED beats

Keeps(copy) == copy.status = "APPROVED" /\ copy.online

FinishRead ==
    /\ reading # Nothing
    /\ me' = reading
    /\ reading' = Nothing
    /\ Effect(Keeps(reading))
    /\ UNCHANGED <<lpRow, sheet, where, beaten>>

ReadFails ==
    /\ reading # Nothing
    /\ reading' = Nothing
    /\ UNCHANGED <<lpRow, me, sheet, where, keeper, beats, failing, beaten>>

----------------------------------------------------------------------------
(* Changing it.                                                            *)

\* The application, the switch and the payment methods, each from its screen.
Sheets ==
    CASE Screen = "apply" -> {[does |-> "apply", to |-> TRUE]}
      [] Screen = "app" /\ where = "dashboard" -> {[does |-> "toggle", to |-> ~me.online]}
      [] Screen = "app" /\ where = "methods" -> [does : {"bank"}, to : BOOLEAN]
      [] OTHER -> {}

PressSheet ==
    /\ sheet = NoSheet
    /\ \E s \in Sheets : sheet' = [NoSheet EXCEPT !.does = s.does, !.to = s.to]
    /\ UNCHANGED <<lpRow, me, reading, where, keeper, beats, failing, beaten>>

\* The coordinator's part.  An application starts the review over, whatever the
\* standing was; a suspended or revoked provider is refused.  The other changes
\* take the provider's role, which the status gives.
Takes ==
    /\ sheet.does # "nothing"
    /\ ~sheet.done
    /\ lpRow.v < MaxRowChanges
    /\ \/ /\ sheet.does = "apply"
          /\ lpRow.status \notin {"SUSPENDED", "REVOKED"}
          /\ lpRow' = Changed([lpRow EXCEPT !.status = "PENDING"])
       \/ /\ sheet.does = "toggle"
          /\ lpRow.status = "APPROVED"
          /\ lpRow' = Changed([lpRow EXCEPT !.online = sheet.to])
       \/ /\ sheet.does = "bank"
          /\ lpRow.status = "APPROVED"
          /\ lpRow' = Changed([lpRow EXCEPT !.bank = sheet.to])
    /\ sheet' = [sheet EXCEPT !.done = TRUE, !.v = lpRow.v + 1]
    /\ UNCHANGED <<me, reading, where, keeper, beats, failing, beaten>>

Invalidate == reading' = lpRow

\* The switch also shows its new position at once.
Saved ==
    /\ sheet.done
    /\ sheet' = NoSheet
    /\ Invalidate
    /\ IF sheet.does = "toggle" /\ Screen = "app"
       THEN /\ me' = [me EXCEPT !.online = sheet.to, !.v = IF sheet.v > @ THEN sheet.v ELSE @]
            /\ Effect(Keeps(me'))
       ELSE UNCHANGED <<me, keeper, beats, failing>>
    /\ UNCHANGED <<lpRow, where, beaten>>

\* A refusal, or an answer lost after the change was made.
NotSaved ==
    /\ sheet.does # "nothing"
    /\ sheet' = NoSheet
    /\ UNCHANGED <<lpRow, me, reading, where, keeper, beats, failing, beaten>>

OperatorDecides ==
    /\ lpRow.status # "NONE"
    /\ lpRow.v < MaxRowChanges
    /\ \E s \in {"APPROVED", "SUSPENDED", "REVOKED"} \ {lpRow.status} :
        lpRow' = Changed([lpRow EXCEPT !.status = s])
    /\ UNCHANGED <<me, reading, sheet, where, keeper, beats, failing, beaten>>

\* A page that opens reads the row, unless a read is under way or, on the
\* dashboard, the copy is recent.
Navigate ==
    /\ Screen = "app"
    /\ sheet = NoSheet
    /\ where' \in {"dashboard", "methods"} \ {where}
    /\ \/ reading = Nothing /\ reading' = lpRow
       \/ (where' = "dashboard" \/ reading # Nothing) /\ UNCHANGED reading
    /\ UNCHANGED <<lpRow, me, sheet, keeper, beats, failing, beaten>>

----------------------------------------------------------------------------
(* The heartbeat.                                                          *)

Beat ==
    /\ keeper.on
    /\ keeper.run \notin beats
    /\ beaten < MaxBeats
    /\ beaten' = beaten + 1
    /\ beats' = beats \cup {keeper.run}
    /\ UNCHANGED <<lpRow, me, reading, sheet, where, keeper, failing>>

Heard(r) == keeper.on /\ keeper.run = r

\* An answer to a beat of an earlier run is not listened to.  A beat of this run
\* reads the row again when the copy says that no order can be matched.
BeatAnswered(r) ==
    /\ r \in beats
    /\ beats' = beats \ {r}
    /\ failing' = IF Heard(r) THEN 0 ELSE failing
    /\ UNCHANGED reading \/ (Heard(r) /\ Invalidate)
    /\ UNCHANGED <<lpRow, me, sheet, where, keeper, beaten>>

BeatFails(r) ==
    /\ r \in beats
    /\ beats' = beats \ {r}
    /\ failing' = IF Heard(r) /\ failing = 0 THEN r ELSE failing
    /\ UNCHANGED <<lpRow, me, reading, sheet, where, keeper, beaten>>

ConsoleInit ==
    /\ lpRow = NotARow
    /\ me = Nothing
    /\ reading = NotARow
    /\ sheet = NoSheet
    /\ where = "dashboard"
    /\ keeper = [on |-> FALSE, run |-> 0]
    /\ beats = {}
    /\ failing = 0
    /\ beaten = 0

ConsoleNext ==
    \/ StartRead
    \/ AskAgain
    \/ FinishRead
    \/ ReadFails
    \/ PressSheet
    \/ Takes
    \/ Saved
    \/ NotSaved
    \/ OperatorDecides
    \/ Navigate
    \/ Beat
    \/ \E r \in beats : BeatAnswered(r) \/ BeatFails(r)

ConsoleSpec == ConsoleInit /\ [][ConsoleNext]_consoleVars

\* A screen that polls asks again and again, and a read retried for ever is
\* answered.  Nobody has to press a button.
ConsoleFairSpec == ConsoleSpec /\ WF_consoleVars(StartRead) /\ SF_consoleVars(FinishRead)

----------------------------------------------------------------------------
(* The operator's decision reaches an applicant who waits on the pending   *)
(* screen and a provider who stays on the dashboard: neither goes on for   *)
(* ever showing another standing than the row's.  The notice of a          *)
(* suspension and the other pages do not ask again, and are not promised   *)
(* anything.                                                               *)
DecisionIsShown ==
    []<>~(Screen \in {"pending", "app"} /\ where = "dashboard" /\ me.status # lpRow.status)
=============================================================================
