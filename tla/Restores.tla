------------------------------ MODULE Restores ------------------------------
(***************************************************************************)
(* Putting a backup in the place of the database (manavault-system,        *)
(* backup/local.rs restore): staged from the cloud and applied when the    *)
(* server starts (backup/cloud.rs), or by the command line while it is     *)
(* stopped.  Any step may fail and the process may stop between any two.   *)
(*                                                                         *)
(* What the owner has is a number: the data after so many changes.  SQLite *)
(* is external: its file holds the data of the last checkpoint, its log    *)
(* what was written since, and opening a file replays the log that lies    *)
(* beside it, whatever file it was written for (local.rs:190).             *)
(*                                                                         *)
(* Pre-restore directories are named by the second their restore began in  *)
(* (local.rs:90, 195).  A restore begins in the second of the one before   *)
(* or in a later one: the clock is not put back.                           *)
(***************************************************************************)
EXTENDS Naturals

CONSTANTS
  MaxChanges,   \* bound: how often the owner changes the data
  NoFile

ASSUME RestoreAssumption ==
  /\ MaxChanges \in Nat
  /\ NoFile \notin Nat

Data == 0 .. MaxChanges

(* A file cut short, and what SQLite makes of a file and another's log.     *)
Half == MaxChanges + 1
Mixed == MaxChanges + 2

(* What a log makes of the file beside it: Mixed if written for another.    *)
Log == Data \cup {Mixed, NoFile}

VARIABLES
  server,      \* "up", "down", or how far a restore is
  byHand,      \* the restore is the command line's
  database, walLog,
  changes,     \* how often the data were changed
  pendingZip,  \* the staged backup
  incoming,    \* the backup being staged or restored
  backups,     \* the data there are backups of
  asideFile, asideLog, \* the newest pre-restore directory
  copies,      \* what the directories before it hold of saved
  ownerData,      \* history: what the owner's data were when the server last ran
  saved,       \* history: the data that restores began to overwrite, but for
               \* those whose copy shared its directory with another
  cutShort,    \* history: a restore by hand failed or stopped half-way
  stagedSince  \* history: a restore was staged since the server came up

copyVars == <<asideFile, asideLog, copies>>
restoreVars == <<server, byHand, database, walLog, changes, pendingZip, incoming, backups,
                 copyVars, ownerData, saved, cutShort, stagedSince>>

RestoresType ==
  /\ server \in {"up", "down", "extracted", "copying", "file copied", "copied", "placing", "placed",
                "cleaned"}
  /\ {byHand, cutShort, stagedSince} \subseteq BOOLEAN
  /\ database \in Data \cup {Half} /\ walLog \in Log
  /\ changes \in Data
  /\ pendingZip \in Data \cup {Half, NoFile} /\ incoming \in Data \cup {NoFile}
  /\ backups \subseteq Data /\ copies \subseteq Data /\ saved \subseteq Data
  /\ asideFile \in Data \cup {Half, NoFile} /\ asideLog \in Log
  /\ ownerData \in Data \cup {Mixed}

RestoresInit ==
  /\ server = "up" /\ byHand = FALSE
  /\ database = 0 /\ walLog = NoFile /\ changes = 0
  /\ pendingZip = NoFile /\ incoming = NoFile
  /\ backups = {} /\ asideFile = NoFile /\ asideLog = NoFile /\ copies = {} /\ saved = {}
  /\ ownerData = 0 /\ cutShort = FALSE /\ stagedSince = FALSE

(* What SQLite reads from a file and the log beside it.                     *)
ReadBack(file, log) == IF log = NoFile THEN file ELSE log

Has == ReadBack(database, walLog)

-----------------------------------------------------------------------------
(* The running server.                                                      *)
Change ==
  /\ server = "up" /\ changes < MaxChanges
  /\ changes' = changes + 1 /\ ownerData' = changes'
  /\ walLog' = changes'
  /\ UNCHANGED <<server, byHand, database, pendingZip, incoming, backups, copyVars, saved,
                 cutShort, stagedSince>>

Checkpoint ==
  /\ server = "up" /\ walLog \in Data
  /\ database' = walLog /\ walLog' = NoFile
  /\ UNCHANGED <<server, byHand, changes, pendingZip, incoming, backups, copyVars, ownerData,
                 saved, cutShort, stagedSince>>

BackUp ==
  /\ server = "up" /\ ownerData \in Data \ backups
  /\ backups' = backups \cup {ownerData}
  /\ UNCHANGED <<server, byHand, database, walLog, changes, pendingZip, incoming, copyVars, ownerData,
                 saved, cutShort, stagedSince>>

(* stage_restore writes the download over what was staged before, one       *)
(* download at a time (bound).                                              *)
BeginStaging(b) ==
  /\ server = "up" /\ incoming = NoFile
  /\ incoming' = b /\ pendingZip' = Half /\ stagedSince' = TRUE
  /\ UNCHANGED <<server, byHand, database, walLog, changes, backups, copyVars, ownerData, saved,
                 cutShort>>

EndStaging ==
  /\ server = "up" /\ incoming # NoFile
  /\ incoming' = NoFile
  /\ pendingZip' \in {incoming, Half}
  /\ UNCHANGED <<server, byHand, database, walLog, changes, backups, copyVars, ownerData, saved,
                 cutShort, stagedSince>>

-----------------------------------------------------------------------------
(* A restore.  apply_pending_restore runs before anything opens the         *)
(* database; an archive that cannot be read stops the start.                *)
ApplyPending ==
  /\ server = "down" /\ pendingZip \in Data
  /\ server' = "extracted" /\ incoming' = pendingZip
  /\ UNCHANGED <<byHand, database, walLog, changes, pendingZip, backups, copyVars, ownerData, saved,
                 cutShort, stagedSince>>

RestoreByHand(b) ==
  /\ server = "down"
  /\ server' = "extracted" /\ byHand' = TRUE /\ incoming' = b
  /\ UNCHANGED <<database, walLog, changes, pendingZip, backups, copyVars, ownerData, saved,
                 cutShort, stagedSince>>

(* A file that is written over has another's log.                           *)
Foreign(log) == IF log = NoFile THEN NoFile ELSE Mixed

(* What the newest directory holds, and all of them.                        *)
Held == ReadBack(asideFile, asideLog)
InCopies == copies \cup ({Held} \cap Data)

(* backup_existing_data, into a new directory or that of the restore before *)
(* it: the file is copied over the one there, then the log if there is one. *)
aroundCopy == <<byHand, database, walLog, changes, pendingZip, incoming, backups, ownerData,
                cutShort, stagedSince>>

BeginCopy ==
  /\ server = "extracted"
  /\ server' = "copying"
  /\ asideFile' = Half
  /\ \/ asideLog' = NoFile /\ copies' = InCopies \cap saved /\ UNCHANGED saved
     \/ /\ asideLog' = Foreign(asideLog)
        /\ saved' = saved \ ({Held} \ copies)
        /\ UNCHANGED copies
  /\ UNCHANGED aroundCopy

CopyFile ==
  /\ server = "copying"
  /\ server' = "file copied"
  /\ asideFile' = database
  /\ UNCHANGED <<asideLog, copies, saved, aroundCopy>>

CopyLog ==
  /\ server = "file copied"
  /\ server' = "copied"
  /\ asideLog' = IF walLog = NoFile THEN asideLog ELSE walLog
  /\ UNCHANGED <<asideFile, copies, saved, aroundCopy>>

(* A copy without a log beside the log of an earlier one.                   *)
LogLeft == walLog = NoFile /\ asideLog # NoFile

(* The file is truncated and then filled: whatever log is there is not its. *)
BeginPlacing ==
  /\ server = "copied"
  /\ server' = "placing"
  /\ database' = Half
  /\ walLog' = Foreign(walLog)
  /\ saved' = IF LogLeft THEN saved ELSE saved \cup ({Has} \cap Data)
  /\ UNCHANGED <<byHand, changes, pendingZip, incoming, backups, copyVars, ownerData, cutShort,
                 stagedSince>>

PutInPlace ==
  /\ server = "placing"
  /\ server' = "placed"
  /\ database' = incoming
  /\ UNCHANGED <<byHand, walLog, changes, pendingZip, incoming, backups, copyVars, ownerData,
                 saved, cutShort, stagedSince>>

(* The sidecars go.                                                         *)
LogRemoved == NoFile

RemoveLog ==
  /\ server = "placed"
  /\ server' = "cleaned"
  /\ walLog' = LogRemoved
  /\ UNCHANGED <<byHand, database, changes, pendingZip, incoming, backups, copyVars, ownerData,
                 saved, cutShort, stagedSince>>

(* The staged archive is renamed last, so a restore that was cut short is   *)
(* made again.                                                              *)
FinishRestore ==
  /\ server = "cleaned"
  /\ server' = "down" /\ byHand' = FALSE /\ incoming' = NoFile
  /\ pendingZip' = IF byHand THEN pendingZip ELSE NoFile
  /\ cutShort' = FALSE
  /\ UNCHANGED <<database, walLog, changes, backups, copyVars, ownerData, saved, stagedSince>>

(* Without a staged restore the server opens what is there.                 *)
Open ==
  /\ server = "down" /\ pendingZip = NoFile
  /\ Has # Half
  /\ server' = "up"
  /\ ownerData' = Has /\ stagedSince' = FALSE
  /\ UNCHANGED <<byHand, database, walLog, changes, pendingZip, incoming, backups, copyVars,
                 saved, cutShort>>

(* The process stops, or a step of a restore fails.                         *)
StopServer ==
  /\ server # "down"
  /\ server' = "down" /\ byHand' = FALSE /\ incoming' = NoFile
  /\ cutShort' = (cutShort \/ (byHand /\ server \in {"placing", "placed"}))
  /\ UNCHANGED <<database, walLog, changes, pendingZip, backups, copyVars, ownerData, saved,
                 stagedSince>>

RestoresNext ==
  \/ Change \/ Checkpoint \/ BackUp \/ EndStaging
  \/ ApplyPending \/ BeginCopy \/ CopyFile \/ CopyLog \/ BeginPlacing \/ PutInPlace \/ RemoveLog \/ FinishRestore
  \/ Open \/ StopServer
  \/ \E b \in backups : BeginStaging(b) \/ RestoreByHand(b)

-----------------------------------------------------------------------------
(* However restores fail, stop and start again: the data one of them began  *)
(* to overwrite stay in a pre-restore copy, unless a restore of the same    *)
(* second wrote into its directory; the server never opens a file with the  *)
(* log of another, unless a restore by hand was cut short and not made      *)
(* again; and a restore is applied once, so that it never takes away what   *)
(* was entered after it.                                                    *)
DataRecoverable ==
  /\ saved \subseteq InCopies
  /\ server = "up" /\ ~cutShort => ownerData # Mixed
  /\ server = "up" /\ pendingZip # NoFile => stagedSince
=============================================================================
