---------------------------- MODULE BackupStore ----------------------------
(***************************************************************************)
(* The backup store (persistence/PersistentBackupManager.ts over           *)
(* backup_manager.ts): files, a map of records, and the table backups.     *)
(* A backup is the number of its createBackup call.                        *)
(***************************************************************************)
EXTENDS Integers, FiniteSets, Functions, Maps

CONSTANTS
  MaxBackups,              \* bound: how many backups are ever made
  BackupStatementsMayFail  \* connect, statements and file operations may throw

Backups == 1..MaxBackups
Statuses == {"created", "failed", "restored"}

ASSUME BackupBoundsAssumption == MaxBackups \in Nat
ASSUME BackupFailureAssumption == BackupStatementsMayFail \in BOOLEAN

VARIABLES
  storage,       \* BackupManager.storage: id to status
  files,         \* the .dump files
  backupRows,    \* the table: id to status
  backupDb,      \* the manager's database: none, open, or a closed handle
  backupReady,   \* PersistentBackupManager.initialized
  backupKept,    \* PersistentBackupManager.usePersistence
  backupAwait,   \* the await that initialize or close is at
  statements,    \* what createBackup and deleteBackup calls will do next
  expired,       \* backups older than seven days
  madeBackups,   \* history: backups made so far
  returned       \* history: backups created with the database in service

backupVars == <<storage, files, backupRows, backupDb, backupReady, backupKept,
                backupAwait, statements, expired, madeBackups, returned>>

BackupInit ==
  /\ storage = << >>
  /\ files = {}
  /\ backupRows = << >>
  /\ backupDb = "none"
  /\ backupReady = FALSE
  /\ backupKept = TRUE
  /\ backupAwait = "none"
  /\ statements = {}
  /\ expired = {}
  /\ madeBackups = 0
  /\ returned = {}

(* What better-sqlite3 takes as a parameter of a statement: it throws a    *)
(* TypeError for any other value.                                          *)
Binds(type) == type \in {"number", "string", "bigint", "buffer", "null"}

(* The timestamp of a record, which is a parameter of its INSERT. *)
TimestampType == "Date"

-----------------------------------------------------------------------------

(* initialize and close are called one at a time, as by the boot and the   *)
(* teardown; two that overlap are left out.                                *)
OpenBackups ==
  /\ ~backupReady
  /\ backupKept
  /\ backupAwait = "none"
  /\ \/ backupDb' = "open" /\ backupAwait' = "connecting"
     \/ BackupStatementsMayFail /\ backupDb' = "closed" /\ backupAwait' = "refused"
  /\ UNCHANGED <<storage, files, backupRows, backupReady, backupKept,
                 statements, expired, madeBackups, returned>>

(* loadBackups: the rows replace the map, unless the query fails. *)
LoadBackups ==
  /\ backupAwait = "connecting"
  /\ backupAwait' = "loading"
  /\ \/ backupDb = "open" /\ storage' = backupRows
     \/ (backupDb # "open" \/ BackupStatementsMayFail) /\ UNCHANGED storage
  /\ UNCHANGED <<files, backupRows, backupDb, backupReady, backupKept,
                 statements, expired, madeBackups, returned>>

BackupsReady ==
  /\ backupAwait \in {"loading", "refused"}
  /\ backupAwait' = "none"
  /\ backupReady' = TRUE
  /\ backupKept' = (backupKept /\ backupAwait = "loading")
  /\ UNCHANGED <<storage, files, backupRows, backupDb, statements, expired,
                 madeBackups, returned>>

CloseBackups ==
  /\ backupAwait = "none"
  /\ backupDb # "none"
  /\ backupDb' = "closed"
  /\ backupAwait' = "closing"
  /\ UNCHANGED <<storage, files, backupRows, backupReady, backupKept,
                 statements, expired, madeBackups, returned>>

BackupsClosed ==
  /\ backupAwait = "closing"
  /\ backupAwait' = "none"
  /\ backupDb' = "none"
  /\ backupReady' = FALSE
  /\ UNCHANGED <<storage, files, backupRows, backupKept, statements, expired,
                 madeBackups, returned>>

(* The base class copies the file, and makes a record whether or not that  *)
(* succeeded; the INSERT comes after an await.                             *)
CreateBackup ==
  LET id == madeBackups + 1
  IN /\ madeBackups < MaxBackups
     /\ madeBackups' = id
     /\ \E status \in {"created"} \cup
                      (IF BackupStatementsMayFail THEN {"failed"} ELSE {}) :
          /\ storage' = Put(storage, id, status)
          /\ files' = IF status = "created" THEN files \cup {id} ELSE files
          /\ statements' = statements \cup {[insert |-> TRUE, id |-> id, status |-> status]}
     /\ UNCHANGED <<backupRows, backupDb, backupReady, backupKept, backupAwait,
                    expired, returned>>

(* The record goes, the file stays; the DELETE comes after an await. *)
DeleteBackup(id) ==
  /\ id \in DOMAIN storage
  /\ storage' = Restrict(storage, DOMAIN storage \ {id})
  /\ statements' = statements \cup
                     {[insert |-> FALSE, id |-> id, status |-> storage[id]]}
  /\ returned' = returned \ {id}
  /\ UNCHANGED <<files, backupRows, backupDb, backupReady, backupKept,
                 backupAwait, expired, madeBackups>>

(* The manager is initialised and has its database. *)
InService == backupReady /\ backupKept /\ backupDb = "open"

(* The table after the statement s. *)
TableAfter(s) ==
  IF s.insert THEN Put(backupRows, s.id, s.status)
              ELSE Restrict(backupRows, DOMAIN backupRows \ {s.id})

(* The statement of a call, which then returns; a failure is swallowed.    *)
(* createBackup looks at usePersistence, deleteBackup does not.            *)
Execute(s) ==
  /\ s \in statements
  /\ statements' = statements \ {s}
  /\ \/ /\ backupDb = "open"
        /\ s.insert => backupKept /\ Binds(TimestampType)
        /\ backupRows' = TableAfter(s)
     \/ /\ \/ backupDb # "open" \/ BackupStatementsMayFail
           \/ s.insert /\ ~(backupKept /\ Binds(TimestampType))
        /\ UNCHANGED backupRows
  /\ returned' = IF s.insert /\ s.status = "created" /\ InService
                       /\ s.id \in DOMAIN storage
                   THEN returned \cup {s.id} ELSE returned
  /\ UNCHANGED <<storage, files, backupDb, backupReady, backupKept, backupAwait,
                 expired, madeBackups>>

(* restoreBackup changes the status only. *)
RestoreBackup(id) ==
  /\ id \in DOMAIN storage
  /\ storage' = [storage EXCEPT ![id] = "restored"]
  /\ UNCHANGED <<files, backupRows, backupDb, backupReady, backupKept,
                 backupAwait, statements, expired, madeBackups, returned>>

(* cleanupOldBackups removes file and record of what is too old; a file    *)
(* that cannot be unlinked ends it there.  The faulty variant keeps the    *)
(* records.                                                                *)
KeptAll(removed) == storage
KeptRecords(removed) == Restrict(storage, DOMAIN storage \ removed)

CleanupOldBackups ==
  LET old == expired \cap DOMAIN storage
  IN /\ old # {}
     /\ \E last \in Backups :
          LET removed == {id \in old : id <= last}
          IN /\ removed = old \/ BackupStatementsMayFail
             /\ files' = files \ removed
             /\ storage' = KeptRecords(removed)
             /\ returned' = returned \ removed
     /\ UNCHANGED <<backupRows, backupDb, backupReady, backupKept, backupAwait,
                    statements, expired, madeBackups>>

WeekPasses ==
  /\ expired # 1..madeBackups
  /\ expired' = 1..madeBackups
  /\ UNCHANGED <<storage, files, backupRows, backupDb, backupReady, backupKept,
                 backupAwait, statements, madeBackups, returned>>

(* The process dies: files and table are left. *)
BackupCrash ==
  /\ storage' = << >>
  /\ backupDb' = "none"
  /\ backupReady' = FALSE
  /\ backupKept' = TRUE
  /\ backupAwait' = "none"
  /\ statements' = {}
  /\ UNCHANGED <<files, backupRows, expired, madeBackups, returned>>

BackupNext ==
  \/ OpenBackups
  \/ LoadBackups
  \/ BackupsReady
  \/ CloseBackups
  \/ BackupsClosed
  \/ CreateBackup
  \/ \E id \in Backups : DeleteBackup(id) \/ RestoreBackup(id)
  \/ \E s \in statements : Execute(s)
  \/ CleanupOldBackups
  \/ WeekPasses

-----------------------------------------------------------------------------
(* Properties. *)

(* Types of the variables. *)
BackupTypeOK ==
  /\ DOMAIN storage \subseteq Backups
  /\ \A id \in DOMAIN storage : storage[id] \in Statuses
  /\ files \subseteq Backups
  /\ DOMAIN backupRows \subseteq Backups
  /\ \A id \in DOMAIN backupRows : backupRows[id] \in Statuses
  /\ backupDb \in {"none", "open", "closed"}
  /\ backupReady \in BOOLEAN
  /\ backupKept \in BOOLEAN
  /\ backupAwait \in {"none", "connecting", "refused", "loading", "closing"}
  /\ statements \subseteq [insert : BOOLEAN, id : Backups, status : Statuses]
  /\ expired \subseteq Backups
  /\ madeBackups \in 0..MaxBackups
  /\ returned \subseteq Backups

(* A record that says "created" has its file: not after a failed copy, an  *)
(* aborted cleanup, a reload of the table or a restart is there a backup   *)
(* in the list that cannot be read.                                        *)
RecordHasFile ==
  \A id \in DOMAIN storage : storage[id] = "created" => id \in files

(* A backup that was created while the manager had its database, and was   *)
(* neither deleted nor cleaned up, is in the list whenever the manager has *)
(* its database again: the persistent backup registry that                 *)
(* PersistentBackupManager.ts:4 announces.                                 *)
BackupsSurviveRestart ==
  InService => \A id \in returned : id \in DOMAIN storage
=============================================================================
