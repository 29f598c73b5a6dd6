------------------------------- MODULE Files --------------------------------
(***************************************************************************)
(* The transfer proofs a provider uploads and the nightly backup of them:  *)
(* services/coordinator/src/order/order-proof.service.ts with the object   *)
(* store behind it (storage/object-storage.service.ts), and                *)
(* ops/backup/lolipay-backup.sh.                                           *)
(*                                                                         *)
(* An upload is not one transaction.  It reads the order, stores the file  *)
(* under a fresh key, claims the row with a conditional update, and then   *)
(* removes whichever file lost: its own, or the one it replaced.  Uploads  *)
(* of one provider overlap, the process can stop between any two steps, a  *)
(* removal can fail, and a write can be done although its answer is lost.  *)
(* The backup dumps the rows first and the files later, while the uploads  *)
(* go on.                                                                  *)
(***************************************************************************)
EXTENDS Naturals, FiniteSets

CONSTANTS
    Trades,         \* the provider's withdrawal orders
    Proofs,         \* upload calls that may be in flight together
    Rrns,           \* payment references a provider may type
    RETENTION,      \* days an artifact is kept, BACKUP_RETENTION_DAYS
    MaxKeys,        \* bound: files ever stored
    MaxTroubles,    \* bound: crashes, lost answers, failed removals and failed dumps
    MaxDays         \* bound: nights on which the backup runs

ASSUME RetentionInDays == RETENTION \in Nat /\ MaxDays \in Nat

VARIABLES
    trade,      \* per order: its status, proofUrl and proofRrn
    store,      \* the keys the object store holds
    keys,       \* how many keys newProofKey has drawn
    upload,     \* the upload calls in flight
    stray,      \* files nobody will remove: left by a crash, a failed removal or a lost answer
    doubted,    \* files a row took by an update whose answer was lost
    troubles,   \* how much went wrong so far
    backup,     \* the run of lolipay-backup.sh under way
    archive,    \* per night: the two legs written under their final names
    night       \* the night the next backup belongs to

fileVars == <<trade, store, keys, upload, stray, doubted, troubles, backup, archive, night>>

proofVars == <<trade, store, keys, upload, stray, doubted>>

backupVars == <<backup, archive, night>>

NoKey == 0

NoRrn == "none"

NoUpload == [at |-> "idle", of |-> NoRrn, rrn |-> NoRrn, previous |-> NoKey, key |-> NoKey]

NoLegs == [pg |-> "none", minio |-> "none", rows |-> [t \in Trades |-> NoKey], objects |-> {}]

FilesInit ==
    /\ trade = [t \in Trades |-> [status |-> "FUNDED", proof |-> NoKey, rrn |-> NoRrn]]
    /\ store = {}
    /\ keys = 0
    /\ upload = [c \in Proofs |-> NoUpload]
    /\ stray = {}
    /\ doubted = {}
    /\ troubles = 0
    /\ backup = "idle"
    /\ archive = [n \in 1..MaxDays |-> NoLegs]
    /\ night = 1

GoesWrong ==
    /\ troubles < MaxTroubles
    /\ troubles' = troubles + 1

(***************************************************************************)
(* Uploading a proof.                                                      *)
(***************************************************************************)

\* uploadProof reads the order, refreshes it from chain and remembers the
\* proof it is about to replace; a reference already on another order of the
\* provider is refused here.
StartProof(c, t, r) ==
    /\ upload[c].at = "idle"
    /\ trade[t].status = "FUNDED"
    /\ r # NoRrn => \A u \in Trades \ {t} : trade[u].rrn # r
    /\ upload' = [upload EXCEPT ![c] =
                    [at |-> "checked", of |-> t, rrn |-> r,
                     previous |-> trade[t].proof, key |-> NoKey]]
    /\ UNCHANGED <<trade, store, keys, stray, doubted, troubles, backupVars>>

\* Mutant: the file to be replaced is removed as the new one is stored.
PutInPlace(c) ==
    /\ upload[c].at = "checked"
    /\ keys < MaxKeys
    /\ keys' = keys + 1
    /\ store' = (store \ {upload[c].previous}) \union {keys + 1}
    /\ upload' = [upload EXCEPT ![c].at = "stored", ![c].key = keys + 1]
    /\ UNCHANGED <<trade, stray, doubted, troubles, backupVars>>

\* sniffAndStore puts the file under a key of its own; when the store answers
\* with an error the call ends with "could not store the uploaded file, retry",
\* and a file the store took all the same is left behind.
PutProof(c) ==
    /\ upload[c].at = "checked"
    /\ \/ /\ keys < MaxKeys
          /\ keys' = keys + 1
          /\ store' = store \union {keys + 1}
          /\ upload' = [upload EXCEPT ![c] = [@ EXCEPT !.at = "stored", !.key = keys + 1]]
          /\ UNCHANGED <<stray, troubles>>
       \/ /\ GoesWrong
          /\ upload' = [upload EXCEPT ![c] = NoUpload]
          /\ \/ UNCHANGED <<store, keys, stray>>
             \/ /\ keys < MaxKeys
                /\ keys' = keys + 1
                /\ store' = store \union {keys + 1}
                /\ stray' = stray \union {keys + 1}
    /\ UNCHANGED <<trade, doubted, backupVars>>

\* The update's condition: the order is FUNDED and still names the proof this
\* call read.
Claimable(c) ==
    /\ trade[upload[c].of].status = "FUNDED"
    /\ trade[upload[c].of].proof = upload[c].previous

\* The unique index on (proofRrn, lpId): the database refuses the second row.
ReferenceFree(c) ==
    upload[c].rrn # NoRrn =>
        \A u \in Trades \ {upload[c].of} : trade[u].rrn # upload[c].rrn

\* The row as the update leaves it.
Named(c) ==
    [trade EXCEPT ![upload[c].of] = [@ EXCEPT !.proof = upload[c].key, !.rrn = upload[c].rrn]]

\* The conditional update takes the row and leaves the replaced file to be
\* removed, or it fails (no row matched, or P2002) and the call's own file is.
ClaimAnswered(c) ==
    /\ IF Claimable(c) /\ ReferenceFree(c)
         THEN /\ trade' = Named(c)
              /\ upload' = [upload EXCEPT ![c] =
                              IF upload[c].previous = NoKey THEN NoUpload
                              ELSE [@ EXCEPT !.at = "tidying", !.key = upload[c].previous]]
         ELSE /\ upload' = [upload EXCEPT ![c] = [@ EXCEPT !.at = "tidying"]]
              /\ UNCHANGED trade
    /\ UNCHANGED <<stray, doubted, troubles>>

\* The update ends in any other error, such as a connection lost: the catch
\* removes the call's own file, whether or not the row has taken it, and the
\* replaced one is then nobody's.
ClaimUnanswered(c) ==
    /\ GoesWrong
    /\ upload' = [upload EXCEPT ![c] = [@ EXCEPT !.at = "tidying"]]
    /\ \/ UNCHANGED <<trade, stray, doubted>>
       \/ /\ Claimable(c) /\ ReferenceFree(c)
          /\ trade' = Named(c)
          /\ stray' = stray \union ({upload[c].previous} \ {NoKey})
          /\ doubted' = doubted \union {upload[c].key}

ClaimProof(c) ==
    /\ upload[c].at = "stored"
    /\ ClaimAnswered(c) \/ ClaimUnanswered(c)
    /\ UNCHANGED <<store, keys, backupVars>>

\* removeObject: it logs and swallows a failure, so the call ends either way.
TidyUp(c) ==
    /\ upload[c].at = "tidying"
    /\ upload' = [upload EXCEPT ![c] = NoUpload]
    /\ \/ /\ store' = store \ {upload[c].key}
          /\ UNCHANGED <<stray, troubles>>
       \/ /\ GoesWrong
          /\ stray' = stray \union {upload[c].key}
          /\ UNCHANGED store
    /\ UNCHANGED <<trade, keys, doubted, backupVars>>

\* The process stops: every call in flight is lost, and with it the knowledge
\* of the file it had stored or was going to remove.
CoordinatorStops ==
    /\ GoesWrong
    /\ \E c \in Proofs : upload[c].at # "idle"
    /\ stray' = stray \union {upload[c].key : c \in {d \in Proofs : upload[d].key # NoKey}}
    /\ upload' = [c \in Proofs |-> NoUpload]
    /\ UNCHANGED <<trade, store, keys, doubted, backupVars>>

\* The order moves on: mark_fiat_paid lands and the row follows the chain.
PaymentMarked(t) ==
    /\ trade[t].status = "FUNDED"
    /\ trade' = [trade EXCEPT ![t].status = "FIAT_PAID"]
    /\ UNCHANGED <<store, keys, upload, stray, doubted, troubles, backupVars>>

(***************************************************************************)
(* The nightly backup.                                                     *)
(***************************************************************************)

\* find -mtime: what is left once artifacts older than the window are deleted,
\* by age alone.
Pruned == [n \in 1..MaxDays |-> IF n + RETENTION < night THEN NoLegs ELSE archive[n]]

\* Mutant: the run makes room before it dumps.
DumpAfterPruning ==
    /\ backup = "idle"
    /\ night <= MaxDays
    /\ backup' = "dumped"
    /\ archive' = [Pruned EXCEPT ![night].pg = "good",
                                 ![night].rows = [t \in Trades |-> trade[t].proof]]
    /\ UNCHANGED <<night, troubles, proofVars>>

\* dump_postgres: the rows as they stand.  A failed or empty dump writes
\* nothing and ends the run; a dump can also be written and be unreadable.
DumpPostgres ==
    /\ backup = "idle"
    /\ night <= MaxDays
    /\ \/ /\ \E read \in {"good", "bad"} :
               /\ read = "good" \/ troubles < MaxTroubles
               /\ troubles' = troubles + (IF read = "bad" THEN 1 ELSE 0)
               /\ archive' = [archive EXCEPT ![night] =
                                 [@ EXCEPT !.pg = read, !.rows = [t \in Trades |-> trade[t].proof]]]
          /\ backup' = "dumped"
          /\ UNCHANGED night
       \/ /\ GoesWrong
          /\ night' = night + 1
          /\ UNCHANGED <<backup, archive>>
    /\ UNCHANGED proofVars

\* dump_minio: the files as they stand now, in an archive that can also come
\* out unreadable.  When the archive fails to write, the postgres dump of the
\* same stamp is removed and the run ends; when it comes out empty the run ends
\* and the dump stays.
DumpMinio ==
    /\ backup = "dumped"
    /\ \/ /\ \E read \in {"good", "bad"} :
               /\ read = "good" \/ troubles < MaxTroubles
               /\ troubles' = troubles + (IF read = "bad" THEN 1 ELSE 0)
               /\ archive' = [archive EXCEPT ![night] = [@ EXCEPT !.minio = read, !.objects = store]]
          /\ backup' = "written"
          /\ UNCHANGED night
       \/ /\ GoesWrong
          /\ \/ archive' = [archive EXCEPT ![night] = NoLegs]
             \/ UNCHANGED archive
          /\ backup' = "idle"
          /\ night' = night + 1
    /\ UNCHANGED proofVars

\* Both legs of a night's backup are readable.
Restorable(n) == archive[n].pg = "good" /\ archive[n].minio = "good"

\* verify_readable on both legs, the secrets leg, ship_offsite: each dies on
\* failure and leaves everything already on disk where it is.
VerifyBackup ==
    /\ backup = "written"
    /\ \/ /\ Restorable(night)
          /\ backup' = "shipped"
          /\ UNCHANGED <<night, troubles>>
       \/ /\ ~Restorable(night) \/ troubles < MaxTroubles
          /\ troubles' = troubles + (IF Restorable(night) THEN 1 ELSE 0)
          /\ backup' = "idle"
          /\ night' = night + 1
    /\ UNCHANGED <<archive, proofVars>>

\* prune_old, the last step of a run that failed nowhere.
PruneOld ==
    /\ backup = "shipped"
    /\ archive' = Pruned
    /\ backup' = "idle"
    /\ night' = night + 1
    /\ UNCHANGED <<troubles, proofVars>>

FilesNext ==
    \/ \E c \in Proofs :
         \/ \E t \in Trades, r \in Rrns \union {NoRrn} : StartProof(c, t, r)
         \/ PutProof(c)
         \/ ClaimProof(c)
         \/ TidyUp(c)
    \/ CoordinatorStops
    \/ \E t \in Trades : PaymentMarked(t)
    \/ DumpPostgres
    \/ DumpMinio
    \/ VerifyBackup
    \/ PruneOld

FilesSpec == FilesInit /\ [][FilesNext]_fileVars

-----------------------------------------------------------------------------

\* The proof an order names is in the store, whichever uploads overlapped,
\* lost the row, crashed or failed to remove: an operator judging a dispute
\* can open it (uploadProof, getProofFile).  The one exception is a row that
\* took a file by an update whose answer was lost, because the catch of
\* uploadProof removes that file; the exception ends when the provider uploads
\* again.  And a stored proof is named by its order, is in the hands of an
\* upload that will name or remove it, or was left behind by a crash, a failed
\* removal or a lost answer: healthy uploads leak no file.
ProofIsOnFile ==
    /\ \A t \in DOMAIN trade : trade[t].proof # NoKey => trade[t].proof \in store \union doubted
    /\ \A k \in store :
        \/ \E t \in DOMAIN trade : trade[t].proof = k
        \/ \E c \in DOMAIN upload : upload[c].key = k
        \/ k \in stray

\* One bank transfer pays one order: no two orders of a provider carry the same
\* payment reference, although the check and the write are steps apart.
ReferencePaysOnce ==
    \A t, u \in DOMAIN trade : t # u /\ trade[t].rrn # NoRrn => trade[t].rrn # trade[u].rrn

\* Once there has been a restorable pair there always is one: a run that fails
\* at any step deletes no good backup (main runs prune_old last).
GoodBackupIsKept ==
    [][(\E n \in DOMAIN archive : Restorable(n)) => (\E n \in DOMAIN archive : Restorable(n)')]_fileVars

=============================================================================
