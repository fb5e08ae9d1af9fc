---------------------------- MODULE PolicyStore ----------------------------
(***************************************************************************)
(* The policy store (persistence/PersistentPolicyManager.ts): a map from   *)
(* ids to policies over the table policies.  The map is changed first, the *)
(* statement follows, and a statement that fails is swallowed.             *)
(*                                                                         *)
(* An id is the millisecond of its creation.  Of a policy there is which   *)
(* creation made it and its version; its text changes with the version.    *)
(***************************************************************************)
EXTENDS Integers, FiniteSets, Functions, Maps

CONSTANTS
  MaxTime,      \* bound: the last millisecond at which policies are created
  MaxPolicies,  \* bound: how many policies are ever created
  MaxVersion,   \* bound: the highest version of a policy
  PolicyStatementsMayFail  \* connect and statements may throw

Ids == 0..MaxTime
Policies == [made : 1..MaxPolicies, version : 1..MaxVersion]

ASSUME PolicyBoundsAssumption ==
  /\ MaxTime \in Nat
  /\ MaxPolicies \in Nat
  /\ MaxVersion \in Nat \ {0}
ASSUME PolicyFailureAssumption == PolicyStatementsMayFail \in BOOLEAN

VARIABLES
  policies,       \* PersistentPolicyManager.policies
  policyRows,     \* the table: id to policy
  inactive,       \* the table: ids of the rows with is_active = 0
  policyDb,       \* the manager's database: none, open, or a closed handle
  policyReady,    \* PersistentPolicyManager.initialized
  policyKept,     \* PersistentPolicyManager.usePersistence
  policyAwait,    \* the await that initialize or close is at
  now,            \* Date.now()
  madePolicies,   \* history: policies created so far
  diverged        \* history: ids on which a statement failed or was left out

policyVars == <<policies, policyRows, inactive, policyDb, policyReady,
                policyKept, policyAwait, now, madePolicies, diverged>>

PolicyInit ==
  /\ policies = << >>
  /\ policyRows = << >>
  /\ inactive = {}
  /\ policyDb = "none"
  /\ policyReady = FALSE
  /\ policyKept = TRUE
  /\ policyAwait = "none"
  /\ now = 0
  /\ madePolicies = 0
  /\ diverged = {}

(* The rows that loadPolicies selects; the faulty variant forgets the      *)
(* is_active = 1 of its WHERE clause.                                      *)
AllRows == policyRows
ActiveRows == Restrict(policyRows, DOMAIN policyRows \ inactive)

(* A statement on id, with rows and dead as the table's next state; settles *)
(* holds id when map and table agree on it afterwards, whatever was before. *)
Statement(id, rows, dead, settles) ==
  \/ /\ policyDb = "open"
     /\ policyRows' = rows
     /\ inactive' = dead
     /\ diverged' = diverged \ settles
  \/ /\ policyDb # "open" \/ PolicyStatementsMayFail
     /\ diverged' = diverged \cup {id}
     /\ UNCHANGED <<policyRows, inactive>>

-----------------------------------------------------------------------------

(* initialize: connect opens the file, or throws, before it returns.       *)
(* initialize and close are called one at a time here, as by the boot and  *)
(* the teardown; two that overlap are left out.                            *)
OpenPolicies ==
  /\ ~policyReady
  /\ policyKept
  /\ policyAwait = "none"
  /\ \/ policyDb' = "open" /\ policyAwait' = "connecting"
     \/ PolicyStatementsMayFail /\ policyDb' = "closed" /\ policyAwait' = "refused"
  /\ UNCHANGED <<policies, policyRows, inactive, policyReady, policyKept, now,
                 madePolicies, diverged>>

(* loadPolicies; when its query fails the map stays as it is. *)
LoadPolicies ==
  /\ policyAwait = "connecting"
  /\ policyAwait' = "loading"
  /\ \/ /\ policyDb = "open"
        /\ policies' = ActiveRows
        /\ diverged' = {}
     \/ /\ policyDb # "open" \/ PolicyStatementsMayFail
        /\ diverged' = Ids
        /\ UNCHANGED policies
  /\ UNCHANGED <<policyRows, inactive, policyDb, policyReady, policyKept, now,
                 madePolicies>>

PoliciesReady ==
  /\ policyAwait \in {"loading", "refused"}
  /\ policyAwait' = "none"
  /\ policyReady' = TRUE
  /\ policyKept' = (policyKept /\ policyAwait = "loading")
  /\ UNCHANGED <<policies, policyRows, inactive, policyDb, now, madePolicies,
                 diverged>>

ClosePolicies ==
  /\ policyAwait = "none"
  /\ policyDb # "none"
  /\ policyDb' = "closed"
  /\ policyAwait' = "closing"
  /\ UNCHANGED <<policies, policyRows, inactive, policyReady, policyKept, now,
                 madePolicies, diverged>>

PoliciesClosed ==
  /\ policyAwait = "closing"
  /\ policyAwait' = "none"
  /\ policyDb' = "none"
  /\ policyReady' = FALSE
  /\ UNCHANGED <<policies, policyRows, inactive, policyKept, now, madePolicies,
                 diverged>>

(* The version of a new policy; the faulty variant counts from 0. *)
VersionZero == 0
FirstVersion == 1

(* The id of a new policy is the clock's reading; the INSERT of an id that *)
(* the table has fails, also when that row is inactive.                    *)
CreatePolicy ==
  LET p == [made |-> madePolicies + 1, version |-> FirstVersion]
  IN /\ madePolicies < MaxPolicies
     /\ madePolicies' = madePolicies + 1
     /\ policies' = Put(policies, now, p)
     /\ IF policyKept /\ now \notin DOMAIN policyRows
          THEN Statement(now, Put(policyRows, now, p), inactive, {now})
          ELSE diverged' = diverged \cup {now} /\ UNCHANGED <<policyRows, inactive>>
     /\ UNCHANGED <<policyDb, policyReady, policyKept, policyAwait, now>>

(* The whole row is written again, from the object in the map; an inactive *)
(* row stays inactive.                                                     *)
UpdatePolicy(id) ==
  LET p == [policies[id] EXCEPT !.version = @ + 1]
  IN /\ id \in DOMAIN policies
     /\ policies[id].version < MaxVersion
     /\ policies' = [policies EXCEPT ![id] = p]
     /\ IF id \in DOMAIN policyRows
          THEN Statement(id, [policyRows EXCEPT ![id] = p], inactive, {})
          ELSE UNCHANGED <<policyRows, inactive, diverged>>
     /\ UNCHANGED <<policyDb, policyReady, policyKept, policyAwait, now,
                    madePolicies>>

(* The row stays, marked inactive. *)
DeletePolicy(id) ==
  /\ policies' = Restrict(policies, DOMAIN policies \ {id})
  /\ Statement(id, policyRows, inactive \cup ({id} \cap DOMAIN policyRows), {id})
  /\ UNCHANGED <<policyDb, policyReady, policyKept, policyAwait, now,
                 madePolicies>>

ClockTicks ==
  /\ now < MaxTime
  /\ now' = now + 1
  /\ UNCHANGED <<policies, policyRows, inactive, policyDb, policyReady,
                 policyKept, policyAwait, madePolicies, diverged>>

(* The process dies; the next one starts in a later millisecond. *)
PolicyCrash ==
  /\ policies' = << >>
  /\ policyDb' = "none"
  /\ policyReady' = FALSE
  /\ policyKept' = TRUE
  /\ policyAwait' = "none"
  /\ now < MaxTime
  /\ now' = now + 1
  /\ diverged' = Ids
  /\ UNCHANGED <<policyRows, inactive, madePolicies>>

PolicyNext ==
  \/ OpenPolicies
  \/ LoadPolicies
  \/ PoliciesReady
  \/ ClosePolicies
  \/ PoliciesClosed
  \/ CreatePolicy
  \/ \E id \in Ids : UpdatePolicy(id) \/ DeletePolicy(id)
  \/ ClockTicks

-----------------------------------------------------------------------------
(* Properties. *)

(* Types of the variables. *)
PolicyTypeOK ==
  /\ DOMAIN policies \subseteq Ids
  /\ \A id \in DOMAIN policies : policies[id] \in Policies
  /\ DOMAIN policyRows \subseteq Ids
  /\ \A id \in DOMAIN policyRows : policyRows[id] \in Policies
  /\ inactive \subseteq DOMAIN policyRows
  /\ policyDb \in {"none", "open", "closed"}
  /\ policyReady \in BOOLEAN
  /\ policyKept \in BOOLEAN
  /\ policyAwait \in {"none", "connecting", "refused", "loading", "closing"}
  /\ now \in Ids
  /\ madePolicies \in 0..MaxPolicies
  /\ diverged \subseteq Ids

(* A policy in force is the active row of its id, same version and same    *)
(* creation, and every active row is in force, for each id on which no     *)
(* statement failed since it was loaded, created or deleted: no order of   *)
(* creations, updates, deletions, closings and restarts brings a deleted   *)
(* policy or an old version back.                                          *)
PoliciesMatchTable ==
  policyReady =>
    \A id \in Ids \ diverged :
      /\ id \in DOMAIN policies <=> id \in DOMAIN policyRows \ inactive
      /\ id \in DOMAIN policies => policies[id] = policyRows[id]
=============================================================================
