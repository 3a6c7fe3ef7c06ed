----------------------------- MODULE SystemBackups -----------------------------
(***************************************************************************)
(* Backups of the whole database and their restoration: createBackup,      *)
(* restore, remove and the nightly cleanup of SystemBackupService.  The    *)
(* rows that describe the backups are part of the database they save: a    *)
(* dump shows its own backup as RUNNING, and a restoration brings back the *)
(* rows of the day of the dump, while the archives, files of another       *)
(* volume, stay as they are.                                               *)
(***************************************************************************)
EXTENDS Integers, FiniteSets

CONSTANTS
    MaxBackups, MaxWrites, MaxBackupFaults  \* bounds

ASSUME BackupAssumption == /\ MaxBackups \in Nat /\ MaxWrites \in Nat
                           /\ MaxBackupFaults \in Nat

VARIABLES
    base,       \* the database: the number of the last write of the users, and
                \* the kind and status of each backup that has a row
    dropped,    \* whether the schema is there
    archive,    \* the files: the dump in each, if there is one
    making,     \* where each createBackup is, and the dump it has made
    restoring,  \* where restore is, what it restores, the snapshot it waits
                \* for, and the last write when it began
    backupFaults,
    begun,      \* how many backups were begun
    unlinked,   \* history: the backups whose file was deleted, and by whom
    pledges,    \* history: of each schema that was dropped, the snapshot and the
                \* write it should hold
    returned    \* history: the snapshots that restore has named to its caller

backupVars == <<base, dropped, archive, making, restoring, backupFaults, begun,
                unlinked, pledges, returned>>

Backups == 1..MaxBackups
Rowless  == [kind |-> "none", status |-> "none"]
BackupRows == {Rowless} \cup [kind : {"SCHEDULED", "PRE_RESTORE"},
                              status : {"RUNNING", "COMPLETED", "FAILED"}]
Bases    == [data : 0..MaxWrites, rows : [Backups -> BackupRows]]
NoBase   == [data |-> 0, rows |-> [b \in Backups |-> Rowless]]
NoFile   == [is |-> "none", dump |-> NoBase]
Files    == [is : {"none", "torn", "whole"}, dump : Bases]
NotMaking  == [at |-> "no", dump |-> NoBase]
NoRestore  == [at |-> "idle", from |-> {}, pre |-> {}, since |-> 0]

BackupsTypeOK ==
    /\ base \in Bases /\ dropped \in {"no", "yes"} /\ archive \in [Backups -> Files]
    /\ making \in [Backups -> [at : {"no", "dump", "pack", "record"}, dump : Bases]]
    /\ restoring \in [at : {"idle", "snapshot", "drop", "load", "mark"}, from : SUBSET Backups,
                      pre : SUBSET Backups, since : 0..MaxWrites]
    /\ Cardinality(restoring.from) = (IF restoring.at = "idle" THEN 0 ELSE 1)
    /\ Cardinality(restoring.pre) = Cardinality(restoring.from)
    /\ backupFaults \in 0..MaxBackupFaults /\ begun \in 0..MaxBackups
    /\ unlinked \subseteq Backups \X {"hand", "night"}
    /\ pledges \subseteq Backups \X (0..MaxWrites) /\ returned \subseteq Backups

BackupsInit ==
    /\ base = NoBase /\ dropped = "no"
    /\ archive = [b \in Backups |-> NoFile] /\ making = [b \in Backups |-> NotMaking]
    /\ restoring = NoRestore /\ backupFaults = 0
    /\ begun = 0 /\ unlinked = {} /\ pledges = {} /\ returned = {}

BackupFault == backupFaults < MaxBackupFaults /\ backupFaults' = backupFaults + 1
SetRow(b, row) == base' = [base EXCEPT !.rows[b] = row]
RowOf(b) == base.rows[b]

\* The rest of the CRM writes to the database.
UserWrites ==
    /\ dropped = "no" /\ base.data < MaxWrites
    /\ base' = [base EXCEPT !.data = @ + 1]
    /\ UNCHANGED <<dropped, archive, making, restoring, backupFaults, begun, unlinked, pledges,
                   returned>>

\* createBackup: its row first.
Begin(b, kind) ==
    /\ dropped = "no" /\ b = begun + 1 /\ begun' = b
    /\ SetRow(b, [kind |-> kind, status |-> "RUNNING"])
    /\ making' = [making EXCEPT ![b].at = "dump"]

StartBackup(b) ==
    /\ Begin(b, "SCHEDULED")
    /\ UNCHANGED <<dropped, archive, restoring, backupFaults, unlinked, pledges, returned>>

Dump(b) ==
    /\ making[b].at = "dump"
    /\ making' = [making EXCEPT ![b] = [at |-> "pack", dump |-> base]]
    /\ UNCHANGED <<base, dropped, archive, restoring, backupFaults, begun, unlinked, pledges,
                   returned>>

\* tar, whose archive may be cut off.
Pack(b) ==
    /\ making[b].at = "pack"
    /\ \/ archive' = [archive EXCEPT ![b] = [is |-> "whole", dump |-> making[b].dump]]
          /\ UNCHANGED backupFaults
       \/ archive' = [archive EXCEPT ![b].is = "torn"] /\ BackupFault
    /\ making' = [making EXCEPT ![b].at = "record"]
    /\ UNCHANGED <<base, dropped, restoring, begun, unlinked, pledges, returned>>

\* The archive is listed from one end to the other.
Listable_Slip(b) == TRUE
Listable(b) == archive[b].is = "whole"

\* A snapshot that is made, or not, sends restore on, or ends it.
GoesOn_Slip(b, ok) == restoring' = IF b \in restoring.pre THEN [restoring EXCEPT !.at = "drop"]
                                                          ELSE restoring
GoesOn(b, ok) ==
    restoring' = IF b \notin restoring.pre THEN restoring
                 ELSE IF ok THEN [restoring EXCEPT !.at = "drop"] ELSE NoRestore

RecordBackup(b) ==
    /\ making[b].at = "record" /\ Listable(b) /\ RowOf(b) # Rowless
    /\ SetRow(b, [RowOf(b) EXCEPT !.status = "COMPLETED"])
    /\ making' = [making EXCEPT ![b] = NotMaking] /\ GoesOn(b, TRUE)
    /\ UNCHANGED <<dropped, archive, backupFaults, begun, unlinked, pledges, returned>>

\* An archive that cannot be listed, a row that is gone, or a command or query
\* that fails: the row says so if it can, and the file goes.
BackupFails(b) ==
    /\ making[b].at # "no"
    /\ IF making[b].at = "record" /\ (archive[b].is # "whole" \/ RowOf(b) = Rowless)
       THEN UNCHANGED backupFaults ELSE BackupFault
    /\ SetRow(b, IF RowOf(b) = Rowless THEN Rowless ELSE [RowOf(b) EXCEPT !.status = "FAILED"])
    /\ archive' = [archive EXCEPT ![b] = NoFile]
    /\ making' = [making EXCEPT ![b] = NotMaking] /\ GoesOn(b, FALSE)
    /\ UNCHANGED <<dropped, begun, unlinked, pledges, returned>>

\* restore wants a backup that is COMPLETED and has a file, and makes a snapshot.
StartRestore(b, p) ==
    /\ restoring.at = "idle" /\ p # b
    /\ RowOf(b).status = "COMPLETED" /\ archive[b].is # "none"
    /\ Begin(p, "PRE_RESTORE")
    /\ restoring' = [at |-> "snapshot", from |-> {b}, pre |-> {p}, since |-> base.data]
    /\ UNCHANGED <<dropped, archive, backupFaults, unlinked, pledges, returned>>

\* The archive is unpacked, and the schema dropped; a file that is gone by then
\* ends it.
DropSchema ==
    /\ restoring.at = "drop"
    /\ \E b \in restoring.from, p \in restoring.pre :
         IF archive[b].is = "whole"
         THEN /\ base' = NoBase /\ dropped' = "yes"
              /\ restoring' = [restoring EXCEPT !.at = "load"]
              /\ pledges' = pledges \cup {<<p, restoring.since>>}
         ELSE restoring' = NoRestore /\ UNCHANGED <<base, dropped, pledges>>
    /\ UNCHANGED <<archive, making, backupFaults, begun, unlinked, returned>>

\* pg_restore, in one transaction.
LoadDump ==
    /\ restoring.at = "load"
    /\ \E b \in restoring.from : base' = archive[b].dump
    /\ dropped' = "no" /\ restoring' = [restoring EXCEPT !.at = "mark"]
    /\ UNCHANGED <<archive, making, backupFaults, begun, unlinked, pledges, returned>>

\* The row is stamped, and the caller is told the id of the snapshot.
EndRestore ==
    /\ restoring.at = "mark"
    /\ returned' = returned \cup restoring.pre /\ restoring' = NoRestore
    /\ UNCHANGED <<base, dropped, archive, making, backupFaults, begun, unlinked, pledges>>

RestoreFails ==
    /\ restoring.at \in {"drop", "load", "mark"} /\ BackupFault /\ restoring' = NoRestore
    /\ UNCHANGED <<base, dropped, archive, making, begun, unlinked, pledges, returned>>

\* The cleanup at night takes scheduled backups of a month ago, whatever became
\* of them; remove takes any.
Purged_Slip(b) == RowOf(b) # Rowless /\ making[b].at = "no"
Purged(b) == RowOf(b).kind = "SCHEDULED" /\ making[b].at = "no"

\* The file goes first, and then the row, unless the process dies in between.
Unlink(b, by) ==
    /\ archive' = [archive EXCEPT ![b] = NoFile] /\ unlinked' = unlinked \cup {<<b, by>>}
    /\ \/ SetRow(b, Rowless) /\ UNCHANGED backupFaults
       \/ BackupFault /\ UNCHANGED base
    /\ UNCHANGED <<dropped, making, restoring, begun, pledges, returned>>

RemoveBackup(b) == restoring.at # "load" /\ RowOf(b) # Rowless /\ Unlink(b, "hand")
Cleanup(b) == restoring.at # "load" /\ Purged(b) /\ Unlink(b, "night")

\* The process dies: rows that are RUNNING stay so.
BackendDies ==
    /\ restoring.at # "idle" \/ \E b \in Backups : making[b].at # "no"
    /\ BackupFault
    /\ making' = [b \in Backups |-> NotMaking] /\ restoring' = NoRestore
    /\ UNCHANGED <<base, dropped, archive, begun, unlinked, pledges, returned>>

BackupsNext ==
    \/ UserWrites
    \/ \E b \in Backups : \/ StartBackup(b) \/ Dump(b) \/ Pack(b) \/ RecordBackup(b)
                          \/ BackupFails(b) \/ RemoveBackup(b) \/ Cleanup(b)
                          \/ \E p \in Backups : StartRestore(b, p)
    \/ DropSchema \/ LoadDump \/ EndRestore \/ RestoreFails \/ BackendDies

BackupsSpec == BackupsInit /\ [][BackupsNext]_backupVars

(***************************************************************************)
(* Properties.                                                             *)
(***************************************************************************)

\* A backup that is COMPLETED has a whole archive, unless its file was deleted;
\* and of every database that was dropped there is an archive with all that was
\* written before its restoration began, whatever failed since, which only a
\* person can delete.
BackupsAreKept ==
    /\ \A b \in Backups :
         RowOf(b).status = "COMPLETED" => \/ archive[b].is = "whole"
                                         \/ \E by \in {"hand", "night"} : <<b, by>> \in unlinked
    /\ \A pledge \in pledges :
         \/ archive[pledge[1]].is = "whole" /\ archive[pledge[1]].dump.data >= pledge[2]
         \/ <<pledge[1], "hand">> \in unlinked

\* What the page of the backups says of a restoration: the snapshot it made is
\* there to go back to (page.tsx:261), so that it can be restored in turn.
RollbackPossible ==
    dropped = "no" => \A p \in returned : \/ RowOf(p).status = "COMPLETED"
                                         \/ <<p, "hand">> \in unlinked
=============================================================================
