-------------------------- MODULE RegistriesProofs --------------------------
(***************************************************************************)
(* What holds of the policy store and the backup store however many        *)
(* policies and backups there are and however often the process dies.      *)
(***************************************************************************)
EXTENDS Registries, TLAPS

(* Map and table agree on what has not diverged, also while the store is   *)
(* being opened or closed: calls are not kept out then.                    *)
MatchInv ==
  \A id \in Ids \ diverged :
    /\ id \in DOMAIN policies <=> id \in DOMAIN policyRows \ inactive
    /\ id \in DOMAIN policies => policies[id] = policyRows[id]

PolicyInv == PolicyTypeOK /\ MatchInv

(* No INSERT binds its timestamp, so a reload finds no row. *)
BackupInv == BackupTypeOK /\ DOMAIN backupRows = {} /\ RecordHasFile

IInv == PolicyInv /\ BackupInv /\ restarts \in 0..MaxRestarts

-----------------------------------------------------------------------------
(* Maps. *)

LEMMA Restricted ==
  ASSUME NEW f, NEW S
  PROVE  /\ DOMAIN Restrict(f, S) = S
         /\ \A x \in S : Restrict(f, S)[x] = f[x]
  BY DEF Restrict

LEMMA Empty == DOMAIN << >> = {}
  OBVIOUS

-----------------------------------------------------------------------------
(* Policies. *)

LEMMA PolicyInitHolds == PolicyInit => PolicyInv
<1> SUFFICES ASSUME PolicyInit PROVE PolicyInv
  OBVIOUS
<1>1. now \in Ids /\ madePolicies \in 0..MaxPolicies
  BY PolicyBoundsAssumption DEF PolicyInit, Ids
<1>2. policyReady \in BOOLEAN /\ policyKept \in BOOLEAN
  BY DEF PolicyInit
<1>3. PolicyTypeOK
  BY <1>1, <1>2, Empty, Zenon DEF PolicyInit, PolicyTypeOK
<1>4. MatchInv
  BY Empty DEF PolicyInit, MatchInv
<1> QED
  BY <1>3, <1>4 DEF PolicyInv

(* Opening, closing and the clock leave map and table alone; a load makes *)
(* them equal or says that they may not be.                                *)
LEMMA PolicyFrameKeeps ==
  ASSUME PolicyInv,
         \/ OpenPolicies \/ LoadPolicies \/ PoliciesReady \/ ClosePolicies
         \/ PoliciesClosed \/ ClockTicks
  PROVE  PolicyInv'
<1>1. CASE OpenPolicies
  BY <1>1 DEF PolicyInv, PolicyTypeOK, MatchInv, OpenPolicies
<1>2. CASE LoadPolicies
  <2>1. DOMAIN ActiveRows = DOMAIN policyRows \ inactive
    BY Restricted DEF ActiveRows
  <2>2. \A id \in DOMAIN ActiveRows : ActiveRows[id] = policyRows[id]
    BY Restricted DEF ActiveRows
  <2> QED
    BY <1>2, <2>1, <2>2 DEF PolicyInv, PolicyTypeOK, MatchInv, LoadPolicies
<1>3. CASE PoliciesReady
  BY <1>3 DEF PolicyInv, PolicyTypeOK, MatchInv, PoliciesReady
<1>4. CASE ClosePolicies
  BY <1>4 DEF PolicyInv, PolicyTypeOK, MatchInv, ClosePolicies
<1>5. CASE PoliciesClosed
  BY <1>5 DEF PolicyInv, PolicyTypeOK, MatchInv, PoliciesClosed
<1>6. CASE ClockTicks
  <2>1. now' \in Ids
    BY <1>6, PolicyBoundsAssumption DEF ClockTicks, PolicyInv, PolicyTypeOK, Ids
  <2> QED
    BY <1>6, <2>1 DEF PolicyInv, PolicyTypeOK, MatchInv, ClockTicks
<1> QED
  BY <1>1, <1>2, <1>3, <1>4, <1>5, <1>6

LEMMA CreatePolicyKeeps == PolicyInv /\ CreatePolicy => PolicyInv'
<1> SUFFICES ASSUME PolicyInv, CreatePolicy PROVE PolicyInv'
  OBVIOUS
<1> DEFINE p == [made |-> madePolicies + 1, version |-> FirstVersion]
<1>1. p \in Policies /\ madePolicies' \in 0..MaxPolicies
  BY PolicyBoundsAssumption
  DEF PolicyInv, PolicyTypeOK, CreatePolicy, Policies, FirstVersion
<1>2. policies' = Put(policies, now, p)
  BY DEF CreatePolicy
<1>3. \/ /\ now \notin DOMAIN policyRows
         /\ policyRows' = Put(policyRows, now, p)
         /\ inactive' = inactive /\ diverged' = diverged \ {now}
      \/ /\ diverged' = diverged \cup {now}
         /\ policyRows' = policyRows /\ inactive' = inactive
  BY DEF CreatePolicy, Statement
<1>4. now \in Ids /\ UNCHANGED <<policyDb, policyReady, policyKept, policyAwait, now>>
  BY DEF CreatePolicy, PolicyInv, PolicyTypeOK
<1> HIDE DEF p
<1>5. /\ DOMAIN policies' = DOMAIN policies \cup {now}
      /\ policies'[now] = p
      /\ \A id \in DOMAIN policies \ {now} : policies'[id] = policies[id]
  BY <1>2 DEF Put
<1>6. /\ DOMAIN Put(policyRows, now, p) = DOMAIN policyRows \cup {now}
      /\ Put(policyRows, now, p)[now] = p
      /\ \A id \in DOMAIN policyRows \ {now} :
           Put(policyRows, now, p)[id] = policyRows[id]
  BY DEF Put
<1>7. PolicyTypeOK'
  <2>1. CASE diverged' = diverged \cup {now} /\ policyRows' = policyRows
    BY <1>1, <1>3, <1>4, <1>5, <2>1 DEF PolicyInv, PolicyTypeOK
  <2>2. CASE policyRows' = Put(policyRows, now, p) /\ diverged' = diverged \ {now}
    BY <1>1, <1>3, <1>4, <1>5, <1>6, <2>2 DEF PolicyInv, PolicyTypeOK
  <2> QED
    BY <1>3, <2>1, <2>2
<1>8. MatchInv'
  <2>1. CASE diverged' = diverged \cup {now} /\ policyRows' = policyRows
    BY <1>3, <1>5, <2>1 DEF PolicyInv, MatchInv
  <2>2. CASE /\ now \notin DOMAIN policyRows
             /\ policyRows' = Put(policyRows, now, p)
             /\ inactive' = inactive /\ diverged' = diverged \ {now}
    BY <1>4, <1>5, <1>6, <2>2 DEF PolicyInv, PolicyTypeOK, MatchInv
  <2> QED
    BY <1>3, <2>1, <2>2
<1> QED
  BY <1>7, <1>8 DEF PolicyInv

LEMMA UpdatePolicyKeeps ==
  ASSUME NEW id \in Ids, PolicyInv, UpdatePolicy(id)
  PROVE  PolicyInv'
<1> DEFINE p == [policies[id] EXCEPT !.version = @ + 1]
<1>1. p \in Policies
  BY PolicyBoundsAssumption DEF PolicyInv, PolicyTypeOK, UpdatePolicy, Policies
<1>2. id \in DOMAIN policies /\ policies' = [policies EXCEPT ![id] = p]
  BY DEF UpdatePolicy
<1>3. \/ /\ id \in DOMAIN policyRows
         /\ policyRows' = [policyRows EXCEPT ![id] = p] /\ inactive' = inactive
         /\ diverged' = diverged
      \/ /\ policyRows' = policyRows /\ inactive' = inactive
         /\ diverged' = diverged \cup {id}
      \/ /\ id \notin DOMAIN policyRows
         /\ policyRows' = policyRows /\ inactive' = inactive /\ diverged' = diverged
  BY DEF UpdatePolicy, Statement
<1>4. UNCHANGED <<policyDb, policyReady, policyKept, policyAwait, now, madePolicies>>
  BY DEF UpdatePolicy
<1> HIDE DEF p
<1>5. PolicyTypeOK'
  BY <1>1, <1>2, <1>3, <1>4 DEF PolicyInv, PolicyTypeOK
<1>6. MatchInv'
  BY <1>2, <1>3 DEF PolicyInv, PolicyTypeOK, MatchInv
<1> QED
  BY <1>5, <1>6 DEF PolicyInv

LEMMA DeletePolicyKeeps ==
  ASSUME NEW id \in Ids, PolicyInv, DeletePolicy(id)
  PROVE  PolicyInv'
<1>1. /\ DOMAIN policies' = DOMAIN policies \ {id}
      /\ \A x \in DOMAIN policies \ {id} : policies'[x] = policies[x]
  BY Restricted DEF DeletePolicy
<1>2. /\ policyRows' = policyRows
      /\ \/ /\ inactive' = inactive \cup ({id} \cap DOMAIN policyRows)
            /\ diverged' = diverged \ {id}
         \/ inactive' = inactive /\ diverged' = diverged \cup {id}
  BY DEF DeletePolicy, Statement
<1>3. PolicyTypeOK'
  BY <1>1, <1>2 DEF PolicyInv, PolicyTypeOK, DeletePolicy
<1>4. MatchInv'
  BY <1>1, <1>2 DEF PolicyInv, PolicyTypeOK, MatchInv
<1> QED
  BY <1>3, <1>4 DEF PolicyInv

LEMMA PolicyCrashKeeps == PolicyInv /\ PolicyCrash => PolicyInv'
<1> SUFFICES ASSUME PolicyInv, PolicyCrash PROVE PolicyInv'
  OBVIOUS
<1>1. now' \in Ids
  BY PolicyBoundsAssumption DEF PolicyInv, PolicyTypeOK, PolicyCrash, Ids
<1>2. policyReady' \in BOOLEAN /\ policyKept' \in BOOLEAN
  BY DEF PolicyCrash
<1>3. PolicyTypeOK'
  BY <1>1, <1>2, Empty, Zenon DEF PolicyInv, PolicyTypeOK, PolicyCrash
<1>4. MatchInv'
  BY DEF MatchInv, PolicyCrash, Ids
<1> QED
  BY <1>3, <1>4 DEF PolicyInv

LEMMA PolicyNextKeeps == PolicyInv /\ PolicyNext => PolicyInv'
  BY PolicyFrameKeeps, CreatePolicyKeeps, UpdatePolicyKeeps, DeletePolicyKeeps
  DEF PolicyNext

-----------------------------------------------------------------------------
(* Backups. *)

LEMMA BackupInitHolds == BackupInit => BackupInv
<1> SUFFICES ASSUME BackupInit PROVE BackupInv
  OBVIOUS
<1>1. madeBackups \in 0..MaxBackups
  BY BackupBoundsAssumption DEF BackupInit
<1>2. backupReady \in BOOLEAN /\ backupKept \in BOOLEAN
  BY DEF BackupInit
<1>3. BackupTypeOK
  BY <1>1, <1>2, Empty, Zenon DEF BackupInit, BackupTypeOK
<1> QED
  BY <1>3, Empty DEF BackupInit, BackupInv, RecordHasFile

(* Opening, closing, the passing of time and the statements change neither *)
(* records nor files, except for a load, which finds an empty table.       *)
LEMMA BackupFrameKeeps ==
  ASSUME BackupInv,
         \/ OpenBackups \/ LoadBackups \/ BackupsReady \/ CloseBackups
         \/ BackupsClosed \/ WeekPasses
  PROVE  BackupInv'
<1> USE DEF BackupInv, BackupTypeOK, RecordHasFile
<1>1. CASE OpenBackups
  BY <1>1 DEF OpenBackups
<1>2. CASE LoadBackups
  BY <1>2 DEF LoadBackups
<1>3. CASE BackupsReady
  BY <1>3 DEF BackupsReady
<1>4. CASE CloseBackups
  BY <1>4 DEF CloseBackups
<1>5. CASE BackupsClosed
  BY <1>5 DEF BackupsClosed
<1>6. CASE WeekPasses
  <2>1. expired' \subseteq Backups
    BY <1>6, BackupBoundsAssumption DEF WeekPasses, Backups
  <2> QED
    BY <1>6, <2>1 DEF WeekPasses
<1> QED
  BY <1>1, <1>2, <1>3, <1>4, <1>5, <1>6

LEMMA CreateBackupKeeps == BackupInv /\ CreateBackup => BackupInv'
<1> SUFFICES ASSUME BackupInv, CreateBackup PROVE BackupInv'
  OBVIOUS
<1> DEFINE id == madeBackups + 1
<1>1. id \in Backups /\ madeBackups' \in 0..MaxBackups
  BY BackupBoundsAssumption DEF BackupInv, BackupTypeOK, CreateBackup, Backups
<1>2. PICK status \in {"created", "failed"} :
        /\ storage' = Put(storage, id, status)
        /\ files' = IF status = "created" THEN files \cup {id} ELSE files
        /\ statements' = statements \cup {[insert |-> TRUE, id |-> id, status |-> status]}
  BY DEF CreateBackup
<1>3. [insert |-> TRUE, id |-> id, status |-> status]
        \in [insert : BOOLEAN, id : Backups, status : Statuses]
  BY <1>1, <1>2 DEF Statuses
<1>4. UNCHANGED <<backupRows, backupDb, backupReady, backupKept, backupAwait,
                  expired, returned>>
  BY DEF CreateBackup
<1> HIDE DEF id
<1>5. /\ DOMAIN storage' = DOMAIN storage \cup {id}
      /\ storage'[id] = status
      /\ \A x \in DOMAIN storage \ {id} : storage'[x] = storage[x]
  BY <1>2 DEF Put
<1>6. BackupTypeOK'
  <2>1. files' \subseteq Backups
    BY <1>1, <1>2 DEF BackupInv, BackupTypeOK
  <2>2. statements' \subseteq [insert : BOOLEAN, id : Backups, status : Statuses]
    BY <1>2, <1>3 DEF BackupInv, BackupTypeOK
  <2>3. /\ DOMAIN storage' \subseteq Backups
        /\ \A x \in DOMAIN storage' : storage'[x] \in Statuses
    BY <1>1, <1>2, <1>5 DEF BackupInv, BackupTypeOK, Statuses
  <2> QED
    BY <1>1, <1>4, <2>1, <2>2, <2>3, Zenon DEF BackupInv, BackupTypeOK
<1>7. RecordHasFile'
  BY <1>2, <1>5 DEF BackupInv, RecordHasFile
<1> QED
  BY <1>4, <1>6, <1>7 DEF BackupInv

LEMMA DeleteBackupKeeps ==
  ASSUME NEW id \in Backups, BackupInv, DeleteBackup(id)
  PROVE  BackupInv'
<1>1. /\ DOMAIN storage' = DOMAIN storage \ {id}
      /\ \A x \in DOMAIN storage \ {id} : storage'[x] = storage[x]
  BY Restricted DEF DeleteBackup
<1>2. statements' \subseteq [insert : BOOLEAN, id : Backups, status : Statuses]
  <2>1. storage[id] \in Statuses
    BY DEF BackupInv, BackupTypeOK, DeleteBackup
  <2>2. [insert |-> FALSE, id |-> id, status |-> storage[id]]
          \in [insert : BOOLEAN, id : Backups, status : Statuses]
    BY <2>1
  <2> QED
    BY <2>2 DEF BackupInv, BackupTypeOK, DeleteBackup
<1> QED
  BY <1>1, <1>2 DEF BackupInv, BackupTypeOK, RecordHasFile, DeleteBackup

LEMMA RestoreBackupKeeps ==
  ASSUME NEW id \in Backups, BackupInv, RestoreBackup(id)
  PROVE  BackupInv'
  BY DEF BackupInv, BackupTypeOK, RecordHasFile, RestoreBackup, Statuses

(* The timestamp of an INSERT does not bind, so only a DELETE gets through. *)
LEMMA ExecuteKeeps ==
  ASSUME NEW s \in statements, BackupInv, Execute(s)
  PROVE  BackupInv'
<1>1. ~Binds(TimestampType)
  BY DEF Binds, TimestampType
<1>2. DOMAIN backupRows' = {}
  BY <1>1, Restricted DEF Execute, TableAfter, BackupInv
<1>3. s.id \in Backups
  BY DEF BackupInv, BackupTypeOK
<1> QED
  BY <1>2, <1>3 DEF BackupInv, BackupTypeOK, RecordHasFile, Execute

(* A cleanup that stops half-way has removed records with their files. *)
LEMMA CleanupKeeps == BackupInv /\ CleanupOldBackups => BackupInv'
<1> SUFFICES ASSUME BackupInv, CleanupOldBackups PROVE BackupInv'
  OBVIOUS
<1>1. PICK removed :
        /\ files' = files \ removed
        /\ storage' = KeptRecords(removed)
        /\ returned' = returned \ removed
  BY DEF CleanupOldBackups
<1>2. /\ DOMAIN storage' = DOMAIN storage \ removed
      /\ \A x \in DOMAIN storage \ removed : storage'[x] = storage[x]
  BY <1>1, Restricted DEF KeptRecords
<1> QED
  BY <1>1, <1>2 DEF BackupInv, BackupTypeOK, RecordHasFile, CleanupOldBackups

LEMMA BackupCrashKeeps == BackupInv /\ BackupCrash => BackupInv'
<1> SUFFICES ASSUME BackupInv, BackupCrash PROVE BackupInv'
  OBVIOUS
<1>1. backupReady' \in BOOLEAN /\ backupKept' \in BOOLEAN
  BY DEF BackupCrash
<1>2. BackupTypeOK'
  BY <1>1, Empty, Zenon DEF BackupInv, BackupTypeOK, BackupCrash
<1> QED
  BY <1>2, Empty DEF BackupInv, RecordHasFile, BackupCrash

LEMMA BackupNextKeeps == BackupInv /\ BackupNext => BackupInv'
  BY BackupFrameKeeps, CreateBackupKeeps, DeleteBackupKeeps, RestoreBackupKeeps,
     ExecuteKeeps, CleanupKeeps
  DEF BackupNext

-----------------------------------------------------------------------------
(* The two in one process. *)

LEMMA PolicyStutter == PolicyInv /\ UNCHANGED policyVars => PolicyInv'
  BY DEF PolicyInv, PolicyTypeOK, MatchInv, policyVars

LEMMA BackupStutter == BackupInv /\ UNCHANGED backupVars => BackupInv'
  BY DEF BackupInv, BackupTypeOK, RecordHasFile, backupVars

LEMMA NextKeeps == IInv /\ [Next]_vars => IInv'
<1> SUFFICES ASSUME IInv, [Next]_vars PROVE IInv'
  OBVIOUS
<1> USE DEF IInv
<1>1. CASE PolicyNext /\ UNCHANGED <<backupVars, restarts>>
  BY <1>1, PolicyNextKeeps, BackupStutter
<1>2. CASE BackupNext /\ UNCHANGED <<policyVars, restarts>>
  BY <1>2, BackupNextKeeps, PolicyStutter
<1>3. CASE Crash
  <2>1. restarts' \in 0..MaxRestarts
    BY <1>3, RestartsAssumption DEF Crash
  <2> QED
    BY <1>3, <2>1, PolicyCrashKeeps, BackupCrashKeeps DEF Crash
<1>4. CASE UNCHANGED vars
  BY <1>4, PolicyStutter, BackupStutter DEF vars
<1> QED
  BY <1>1, <1>2, <1>3, <1>4 DEF Next

LEMMA Inductive == Spec => []IInv
<1>1. Init => IInv
  BY PolicyInitHolds, BackupInitHolds, RestartsAssumption DEF Init, IInv
<1> QED
  BY <1>1, NextKeeps, PTL DEF Spec

-----------------------------------------------------------------------------

(* The variables of both stores keep their types.                          *)
THEOREM TypeCorrect == Spec => []TypeOK
<1>1. IInv => TypeOK
  BY DEF IInv, PolicyInv, BackupInv, TypeOK
<1> QED
  BY <1>1, Inductive, PTL

(* Unless a statement about it failed, a policy in force is the active row *)
(* of its id with the same version, and no deleted policy is in force,     *)
(* through any number of openings, closings, failed statements and deaths. *)
THEOREM PoliciesMatch == Spec => []PoliciesMatchTable
<1>1. IInv => PoliciesMatchTable
  BY DEF IInv, PolicyInv, MatchInv, PoliciesMatchTable
<1> QED
  BY <1>1, Inductive, PTL

(* A record that says "created" has its file: also when its copy failed,   *)
(* when a cleanup stopped half-way, and after a restart.                   *)
THEOREM FilesExist == Spec => []RecordHasFile
<1>1. IInv => RecordHasFile
  BY DEF IInv, BackupInv
<1> QED
  BY <1>1, Inductive, PTL

(* The table of the backups stays empty, which is why a restart forgets    *)
(* every backup: its INSERT binds a Date, which the driver refuses.        *)
THEOREM TableStaysEmpty == Spec => [](DOMAIN backupRows = {})
<1>1. IInv => DOMAIN backupRows = {}
  BY DEF IInv, BackupInv
<1> QED
  BY <1>1, Inductive, PTL
=============================================================================
