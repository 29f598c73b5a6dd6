----------------------------- MODULE Settings ------------------------------
(***************************************************************************)
(* The platform configuration: the one Config row, the transaction that    *)
(* edits it, and the admin page it is edited on.  Several operators have   *)
(* the page open; each page holds the row it last loaded and the values    *)
(* typed over it, sends only the fields that differ, and may lose the      *)
(* answer.  The transaction reads the row, checks the patch against it, and*)
(* writes only if the row has not been updated in between.                 *)
(***************************************************************************)
EXTENDS Integers, Sequences, FiniteSets

CONSTANTS
    Operators,          \* admins with the page open
    Values,             \* field -> the values an operator may type into it
    FirstRow,           \* the row the coordinator booted with
    Tiers, DefaultLimit, MAX_DAILY_LIMIT_USDC, UNIT,
    BPS, DEVIATION,     \* 10000, PRICE_DEVIATION_MAX_BPS
    ChainFee, ChainWallet, Cooldown,
    MIN_USABLE_PAY, MAX_PAY, MAX_TOTAL, TAIL,
    MaxCommits, MaxEdits

Fields == DOMAIN FirstRow

VARIABLES conf, audit, page, save

settingsVars == <<conf, audit, page, save>>

----------------------------------------------------------------------------
(* What makes a row acceptable.                                            *)

spreadCoversPriceDeviation(row) == DEVIATION < row.spreadBps
platformFeeFitsSpread(row) == row.platformFeeBps + DEVIATION < row.spreadBps

cooldownFloorSecs(row) == row.payWindowSecs + row.confirmWindowSecs + TAIL + 1

windowsFitTheContract(row) ==
    /\ row.payWindowSecs \in MIN_USABLE_PAY .. MAX_PAY
    /\ row.payWindowSecs + row.confirmWindowSecs + row.disputeWindowSecs <= MAX_TOTAL

\* A tier without a stored limit has the built-in one, on the server and on
\* the page alike.
limitOf(limits, t) == IF t \in DOMAIN limits THEN limits[t] ELSE DefaultLimit[t]
limitsFromConfig(limits) == [t \in Tiers |-> limitOf(limits, t)]
limitsCoverMinOrder(row) == \A t \in Tiers : limitOf(row.dailyLimitByTier, t) * UNIT >= row.minOrder

Coherent(row) ==
    /\ row.platformFeeBps + row.lpFeeBps < BPS
    /\ windowsFitTheContract(row)
    /\ spreadCoversPriceDeviation(row)
    /\ platformFeeFitsSpread(row)
    /\ row.minOrder < row.maxOrder
    /\ limitsCoverMinOrder(row)

(* The coordinator refuses to start on a row that fails the first checks,  *)
(* and nothing but the transaction below writes the others.                *)
ASSUME FirstRowIsCoherent ==
    /\ {"spreadBps", "platformFeeBps", "minOrder", "dailyLimitByTier"} \subseteq Fields
    /\ Coherent(FirstRow)

----------------------------------------------------------------------------
(* The admin page.                                                         *)

configToForm(row) == [row EXCEPT !.dailyLimitByTier = limitsFromConfig(@)]

\* The fields sent: those whose typed value differs from what was loaded.
computePatch(shown, form) ==
    [f \in {g \in Fields : form[g] # configToForm(shown)[g]} |-> form[f]]

dailyLimitFloor(form) == (form.minOrder + UNIT - 1) \div UNIT

FormIsValid(form) ==
    /\ form.platformFeeBps + form.lpFeeBps < BPS
    /\ \A f \in {"spreadBps", "platformFeeBps", "lpFeeBps"} : form[f] \in 0 .. BPS - 1
    /\ form.minOrder > 0 /\ form.maxOrder > 0
    /\ form.payWindowSecs >= MIN_USABLE_PAY
    /\ form.confirmWindowSecs > 0 /\ form.disputeWindowSecs > 0
    /\ \A t \in Tiers : form.dailyLimitByTier[t] \in dailyLimitFloor(form) .. MAX_DAILY_LIMIT_USDC

OpenPage(row, version) ==
    [shown |-> row, version |-> version, form |-> configToForm(row), typed |-> {}, confirming |-> FALSE]

Idle == [at |-> "idle"]

canSave(a) ==
    /\ save[a] = Idle
    /\ computePatch(page[a].shown, page[a].form) # << >>
    /\ FormIsValid(page[a].form)

\* The query data is replaced; the form is reset only if the row was updated.
Loaded(p, row, version) ==
    IF version = p.version THEN p ELSE OpenPage(row, version)

Refetch(a) ==
    /\ page[a].version # conf.version
    /\ page' = [page EXCEPT ![a] = Loaded(@, conf.row, conf.version)]
    /\ UNCHANGED <<conf, audit, save>>

\* set: one field of the form; the rest of the page stays.
Typed(p, f, v) ==
    [shown |-> p.shown, version |-> p.version, confirming |-> p.confirming,
     form |-> [p.form EXCEPT ![f] = v], typed |-> p.typed \cup {f}]

\* An input is disabled while a save is pending, and covered by the confirmation.
TypeInto(a, f) ==
    /\ save[a] = Idle
    /\ ~page[a].confirming
    /\ Cardinality(page[a].typed \cup {f}) <= MaxEdits
    /\ \E v \in Values[f] \ {page[a].form[f]} :
        page' = [page EXCEPT ![a] = Typed(page[a], f, v)]
    /\ UNCHANGED <<conf, audit, save>>

EditField(a, f) == f # "dailyLimitByTier" /\ TypeInto(a, f)
EditLimits(a) == TypeInto(a, "dailyLimitByTier")

Send(a) ==
    save' = [save EXCEPT ![a] = [at |-> "sent", patch |-> computePatch(page[a].shown, page[a].form),
                                 typed |-> page[a].typed]]

\* A change of the daily limits asks for a confirmation first.
PressSave(a) ==
    /\ canSave(a)
    /\ ~page[a].confirming
    /\ IF "dailyLimitByTier" \in DOMAIN computePatch(page[a].shown, page[a].form)
       THEN page' = [page EXCEPT ![a].confirming = TRUE] /\ UNCHANGED save
       ELSE Send(a) /\ UNCHANGED page
    /\ UNCHANGED <<conf, audit>>

ConfirmLimits(a) ==
    /\ page[a].confirming
    /\ canSave(a)
    /\ page' = [page EXCEPT ![a].confirming = FALSE]
    /\ Send(a)
    /\ UNCHANGED <<conf, audit>>

CancelLimits(a) ==
    /\ page[a].confirming
    /\ page' = [page EXCEPT ![a].confirming = FALSE]
    /\ UNCHANGED <<conf, audit, save>>

----------------------------------------------------------------------------
(* updateConfigTransactional.                                              *)

Patched(row, patch) == [f \in Fields |-> IF f \in DOMAIN patch THEN patch[f] ELSE row[f]]

limitsNamed(patch) == "dailyLimitByTier" \in DOMAIN patch
floorNamed(patch) == DOMAIN patch \cap {"minOrder", "dailyLimitByTier"} # {}

\* What the patch itself must be like, before any row is read.
UpdateConfigDto(patch) ==
    /\ \A f \in DOMAIN patch \cap {"spreadBps", "platformFeeBps", "lpFeeBps"} : patch[f] \in 0 .. BPS - 1
    /\ \A f \in DOMAIN patch \cap {"confirmWindowSecs", "disputeWindowSecs"} : patch[f] \in 1 .. MAX_TOTAL
    /\ \A f \in DOMAIN patch \cap {"minOrder", "maxOrder"} : patch[f] > 0
    /\ "payWindowSecs" \in DOMAIN patch => patch.payWindowSecs \in MIN_USABLE_PAY .. MAX_PAY
    /\ "dailyLimitByTier" \in DOMAIN patch =>
        patch.dailyLimitByTier \in [Tiers -> 1 .. MAX_DAILY_LIMIT_USDC]

\* The checks, in the terms of the row that was read: some are made only when
\* the patch names a field they are about.
Accepts(row, patch) ==
    LET next == Patched(row, patch)
        Names(S) == DOMAIN patch \cap S # {}
    IN  /\ UpdateConfigDto(patch)
        /\ Names({"platformWallet"}) => patch.platformWallet = ChainWallet
        /\ Names({"platformFeeBps"}) => patch.platformFeeBps = ChainFee
        /\ next.platformFeeBps + next.lpFeeBps < BPS
        /\ windowsFitTheContract(next)
        /\ Names({"payWindowSecs", "confirmWindowSecs"}) => cooldownFloorSecs(next) <= Cooldown
        /\ Names({"spreadBps"}) => spreadCoversPriceDeviation(next)
        /\ Names({"platformFeeBps", "spreadBps"}) => platformFeeFitsSpread(next)
        /\ next.minOrder < next.maxOrder
        /\ floorNamed(patch) => limitsCoverMinOrder(next)

ReadForUpdate(a) ==
    /\ save[a].at = "sent"
    /\ Accepts(conf.row, save[a].patch)
    /\ save' = [save EXCEPT ![a] = [at |-> "checked", patch |-> @.patch, typed |-> @.typed,
                                    row |-> conf.row, version |-> conf.version]]
    /\ UNCHANGED <<conf, audit, page>>

\* A check fails, or the contract's defaults or the cooldown cannot be read.
RefuseUpdate(a) ==
    /\ save[a].at = "sent"
    /\ \/ ~Accepts(conf.row, save[a].patch)
       \/ DOMAIN save[a].patch \cap {"platformWallet", "platformFeeBps", "payWindowSecs", "confirmWindowSecs"} # {}
    /\ save' = [save EXCEPT ![a] = Idle]
    /\ UNCHANGED <<conf, audit, page>>

\* The update is conditional on updatedAt, which the row's version stands for.
Unchanged(a) == save[a].version = conf.version

\* recordAudit notes the row the save was checked against.
recordAudit(a, next) == [before |-> save[a].row, after |-> next]

\* The write and its audit entry; a lost answer leaves the page as it was, a
\* conflict too.
CommitUpdate(a) ==
    LET next == Patched(conf.row, save[a].patch)
    IN  /\ save[a].at = "checked"
        /\ Unchanged(a)
        /\ Len(audit) < MaxCommits
        /\ conf' = [row |-> next, version |-> conf.version + 1]
        /\ audit' = Append(audit, recordAudit(a, next))
        /\ page' \in {page, [page EXCEPT ![a] = Loaded(@, next, conf.version + 1)]}
        /\ save' = [save EXCEPT ![a] = Idle]

ConflictUpdate(a) ==
    /\ save[a].at = "checked"
    /\ ~Unchanged(a)
    /\ save' = [save EXCEPT ![a] = Idle]
    /\ UNCHANGED <<conf, audit, page>>

----------------------------------------------------------------------------

SettingsInit ==
    /\ conf = [row |-> FirstRow, version |-> 1]
    /\ audit = << >>
    /\ page = [a \in Operators |-> OpenPage(FirstRow, 1)]
    /\ save = [a \in Operators |-> Idle]

SettingsNext ==
    \E a \in Operators :
        \/ Refetch(a)
        \/ \E f \in Fields : EditField(a, f)
        \/ EditLimits(a)
        \/ PressSave(a)
        \/ ConfirmLimits(a)
        \/ CancelLimits(a)
        \/ ReadForUpdate(a)
        \/ RefuseUpdate(a)
        \/ CommitUpdate(a)
        \/ ConflictUpdate(a)

SettingsSpec == SettingsInit /\ [][SettingsNext]_settingsVars

----------------------------------------------------------------------------

(* The row in force is coherent, although each check of                    *)
(* updateConfigTransactional is made on a row read earlier and some only   *)
(* when the patch names the field: fees below the whole, windows the       *)
(* contract takes, a spread that outlasts one accepted price move and the  *)
(* platform fee, order bounds in order, and no tier whose daily limit is   *)
(* below the smallest order.                                               *)
ConfigIsCoherent == Coherent(conf.row)

(* The audit of configuration edits is a chain: every entry starts from    *)
(* what the previous one left, the first from the row booted with, and the *)
(* last one left the row in force.                                         *)
AuditIsAChain ==
    /\ \A i \in DOMAIN audit :
        audit[i].before = IF i = 1 THEN FirstRow ELSE audit[i - 1].after
    /\ conf.row = IF audit = << >> THEN FirstRow ELSE audit[Len(audit)].after

(* A save never alters a field its operator did not type into, however old *)
(* the page: another operator's edit of another field survives             *)
(* (computePatch).                                                         *)
UntouchedFieldsKept ==
    [][\A f \in Fields : conf'.row[f] # conf.row[f] =>
        \E a \in Operators : save[a].at = "checked" /\ save'[a] = Idle /\ f \in save[a].typed]_settingsVars
============================================================================
