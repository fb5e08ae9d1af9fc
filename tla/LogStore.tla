------------------------------ MODULE LogStore ------------------------------
(***************************************************************************)
(* The log store (persistence/PersistentLogManager.ts over log_manager.ts): *)
(* an array in memory beside a table, written and cleaned one after the    *)
(* other by calls that may overlap at their awaits.                        *)
(*                                                                         *)
(* A call is a process; an action is the code between two of its awaits.   *)
(* An entry is the number of its writeLog call.  Rows are in the order of  *)
(* their timestamps, which is that of the INSERTs; whether a row is older  *)
(* than a cutoff is decided when a cleanup asks.                           *)
(***************************************************************************)
EXTENDS Integers, SequencesExt, FiniteSets

CONSTANTS
  Calls,          \* calls that may be in progress at the same time
  MaxLogs,        \* bound: how many entries are ever written
  KeepLasts,      \* the values of options.keepLast that callers use
  MaxCrashes,     \* bound: how often the process dies
  NoPolicy        \* a call that is no cleanup

Entries == 1..MaxLogs
NoEntry == 0

(* A cleanup's options: olderThan, keepLast, or none of them. *)
OlderThan == [kind |-> "olderThan", keep |-> 0]
KeepLast(n) == [kind |-> "keepLast", keep |-> n]
Everything == [kind |-> "everything", keep |-> 0]
Policies == {OlderThan, Everything} \cup {KeepLast(n) : n \in KeepLasts}

ASSUME BoundsAssumption ==
  /\ MaxLogs \in Nat
  /\ MaxCrashes \in Nat
  /\ KeepLasts \subseteq Nat \ {0}
ASSUME NoPolicyAssumption == NoPolicy \notin Policies

VARIABLES
  logs,         \* LogManager.logs
  rows,         \* the table logs, oldest first
  db,           \* PersistentLogManager.db: none, open, or a closed handle
  initialized,  \* PersistentLogManager.initialized
  persistent,   \* PersistentLogManager.usePersistentStorage
  at,           \* the await each call is at
  doing,        \* what each call is
  entry,        \* the entry a writeLog call writes
  policy,       \* the options of a cleanup call
  written,      \* history: entries written so far
  unsaved,      \* history: entries whose INSERT failed or never came
  crashes       \* history: how often the process died

handleVars == <<db, initialized, persistent>>
callVars == <<at, doing, entry, policy>>
historyVars == <<written, unsaved, crashes>>
vars == <<logs, rows, handleVars, callVars, historyVars>>

(* "pushed": awaiting the base class; "connecting" and "refused": awaiting *)
(* connect; "loading": awaiting the check in loadLogsIntoCache; "ready":   *)
(* awaiting ensureInitialized; "closing": awaiting disconnect.             *)
Awaits == {"idle", "pushed", "connecting", "refused", "loading", "ready", "closing"}
Operations == {"none", "ensure", "write", "cleanup", "reload", "close"}

Init ==
  /\ logs = {}
  /\ rows = << >>
  /\ db = "none"
  /\ initialized = FALSE
  /\ persistent = TRUE
  /\ at = [c \in Calls |-> "idle"]
  /\ doing = [c \in Calls |-> "none"]
  /\ entry = [c \in Calls |-> NoEntry]
  /\ policy = [c \in Calls |-> NoPolicy]
  /\ written = 0
  /\ unsaved = {}
  /\ crashes = 0

-----------------------------------------------------------------------------
(* Helpers. *)

Returns(c) ==
  /\ at' = [at EXCEPT ![c] = "idle"]
  /\ doing' = [doing EXCEPT ![c] = "none"]
  /\ entry' = [entry EXCEPT ![c] = NoEntry]
  /\ policy' = [policy EXCEPT ![c] = NoPolicy]

(* ensureInitialized up to its first await.  connect opens the file before *)
(* it returns, or throws; either way the manager has a new handle.         *)
Ensure(c) ==
  \/ /\ initialized \/ ~persistent
     /\ at' = [at EXCEPT ![c] = "ready"]
     /\ UNCHANGED db
  \/ /\ ~initialized /\ persistent
     /\ at' = [at EXCEPT ![c] = "connecting"]
     /\ db' = "open"
  \/ /\ ~initialized /\ persistent
     /\ at' = [at EXCEPT ![c] = "refused"]
     /\ db' = "closed"

(* loadLogsIntoCache: the table replaces the array, and a failed query     *)
(* empties it.  The faulty variant adds the rows to the array.             *)
LoadAdding ==
  \/ db = "open" /\ logs' = logs \cup ToSet(rows)
  \/ logs' = {}
Load ==
  \/ db = "open" /\ logs' = ToSet(rows)
  \/ logs' = {}

-----------------------------------------------------------------------------
(* Calls begin. *)

(* A caller that waits for ensureInitialized and then only reads.          *)
CallEnsure(c) ==
  /\ at[c] = "idle"
  /\ doing' = [doing EXCEPT ![c] = "ensure"]
  /\ Ensure(c)
  /\ UNCHANGED <<logs, rows, initialized, persistent, entry, policy, historyVars>>

(* writeLog: the base class pushes the entry.  The faulty variant numbers  *)
(* the entries from 0.                                                     *)
NextFromZero == written
NextEntry == written + 1

CallWrite(c) ==
  /\ at[c] = "idle"
  /\ written < MaxLogs
  /\ written' = written + 1
  /\ logs' = logs \cup {NextEntry}
  /\ entry' = [entry EXCEPT ![c] = NextEntry]
  /\ doing' = [doing EXCEPT ![c] = "write"]
  /\ at' = [at EXCEPT ![c] = "pushed"]
  /\ UNCHANGED <<rows, handleVars, policy, unsaved, crashes>>

(* cleanup: the base class empties the array before anything is awaited. *)
CallCleanup(c) ==
  /\ at[c] = "idle"
  /\ logs' = {}
  /\ IF persistent
       THEN /\ \E p \in Policies : policy' = [policy EXCEPT ![c] = p]
            /\ doing' = [doing EXCEPT ![c] = "cleanup"]
            /\ Ensure(c)
       ELSE UNCHANGED <<policy, doing, at, db>>
  /\ UNCHANGED <<rows, initialized, persistent, entry, historyVars>>

CallClose(c) ==
  /\ at[c] = "idle"
  /\ db # "none"
  /\ db' = "closed"
  /\ doing' = [doing EXCEPT ![c] = "close"]
  /\ at' = [at EXCEPT ![c] = "closing"]
  /\ UNCHANGED <<logs, rows, initialized, persistent, entry, policy, historyVars>>

-----------------------------------------------------------------------------
(* Calls go on. *)

(* The base class's writeLog returned. *)
Pushed(c) ==
  /\ at[c] = "pushed"
  /\ \/ /\ persistent
        /\ Ensure(c)
        /\ UNCHANGED <<doing, entry, policy, unsaved>>
     \/ /\ ~persistent
        /\ unsaved' = unsaved \cup {entry[c]}
        /\ Returns(c)
        /\ UNCHANGED db
  /\ UNCHANGED <<logs, rows, initialized, persistent, written, crashes>>

Connected(c) ==
  /\ at[c] = "connecting"
  /\ initialized' = TRUE
  /\ at' = [at EXCEPT ![c] = IF persistent THEN "loading" ELSE "ready"]
  /\ UNCHANGED <<logs, rows, db, persistent, doing, entry, policy, historyVars>>

(* The store falls back to memory for good. *)
Refused(c) ==
  /\ at[c] = "refused"
  /\ initialized' = TRUE
  /\ persistent' = FALSE
  /\ at' = [at EXCEPT ![c] = "ready"]
  /\ UNCHANGED <<logs, rows, db, doing, entry, policy, historyVars>>

Loaded(c) ==
  /\ at[c] = "loading"
  /\ Load
  /\ at' = [at EXCEPT ![c] = "ready"]
  /\ UNCHANGED <<rows, handleVars, doing, entry, policy, historyVars>>

Ensured(c) ==
  /\ at[c] = "ready"
  /\ doing[c] = "ensure"
  /\ Returns(c)
  /\ UNCHANGED <<logs, rows, handleVars, historyVars>>

(* The INSERT; when it throws, or there is no open database, the entry is  *)
(* in memory only and the caller is not told.                              *)
Insert(c) ==
  /\ at[c] = "ready"
  /\ doing[c] = "write"
  /\ \/ /\ db = "open"
        /\ rows' = Append(rows, entry[c])
        /\ UNCHANGED unsaved
     \/ /\ unsaved' = unsaved \cup {entry[c]}
        /\ UNCHANGED rows
  /\ Returns(c)
  /\ UNCHANGED <<logs, handleVars, written, crashes>>

(* How many of the oldest rows the DELETE takes.  The faulty variant keeps *)
(* one row less than asked.                                                *)
MostOf(n) == IF Len(rows) > n THEN Len(rows) - n ELSE 0
DeletedOneMore(p) ==
  CASE p.kind = "olderThan" -> 0..Len(rows)
    [] p.kind = "keepLast" -> {MostOf(p.keep - 1)}
    [] OTHER -> {Len(rows)}
Deleted(p) ==
  CASE p.kind = "olderThan" -> 0..Len(rows)
    [] p.kind = "keepLast" -> {MostOf(p.keep)}
    [] OTHER -> {Len(rows)}

(* keepLast with a table that is small enough returns at once. *)
NothingToDelete(p) == p.kind = "keepLast" /\ Len(rows) <= p.keep

(* The statements of cleanup.  After them comes a reload; an exception and *)
(* the early return skip it and leave the array as it is.                  *)
Delete(c) ==
  /\ at[c] = "ready"
  /\ doing[c] = "cleanup"
  /\ \/ /\ db = "open"
        /\ ~NothingToDelete(policy[c])
        /\ \E k \in Deleted(policy[c]) : rows' = SubSeq(rows, k + 1, Len(rows))
        /\ policy' = [policy EXCEPT ![c] = NoPolicy]
        /\ UNCHANGED entry
        /\ IF persistent THEN doing' = [doing EXCEPT ![c] = "reload"] /\ Ensure(c)
                         ELSE Returns(c) /\ UNCHANGED db
     \/ /\ Returns(c)
        /\ UNCHANGED <<rows, db>>
  /\ UNCHANGED <<logs, initialized, persistent, historyVars>>

Reload(c) ==
  /\ at[c] = "ready"
  /\ doing[c] = "reload"
  /\ Load
  /\ Returns(c)
  /\ UNCHANGED <<rows, handleVars, historyVars>>

(* disconnect returned. *)
Closed(c) ==
  /\ at[c] = "closing"
  /\ db' = "none"
  /\ initialized' = FALSE
  /\ Returns(c)
  /\ UNCHANGED <<logs, rows, persistent, historyVars>>

(* The process dies and a new manager is constructed: the table is left. *)
Crash ==
  /\ crashes < MaxCrashes
  /\ crashes' = crashes + 1
  /\ logs' = {}
  /\ db' = "none"
  /\ initialized' = FALSE
  /\ persistent' = TRUE
  /\ unsaved' = unsaved \cup ({entry[c] : c \in Calls} \ {NoEntry})
  /\ at' = [c \in Calls |-> "idle"]
  /\ doing' = [c \in Calls |-> "none"]
  /\ entry' = [c \in Calls |-> NoEntry]
  /\ policy' = [c \in Calls |-> NoPolicy]
  /\ UNCHANGED <<rows, written>>

Next ==
  \/ \E c \in Calls :
       \/ CallEnsure(c)
       \/ CallWrite(c)
       \/ CallCleanup(c)
       \/ CallClose(c)
       \/ Pushed(c)
       \/ Connected(c)
       \/ Refused(c)
       \/ Loaded(c)
       \/ Ensured(c)
       \/ Insert(c)
       \/ Delete(c)
       \/ Reload(c)
       \/ Closed(c)
  \/ Crash

Spec == Init /\ [][Next]_vars

-----------------------------------------------------------------------------
(* Properties. *)

(* Types of the variables. *)
TypeOK ==
  /\ logs \subseteq Entries
  /\ rows \in Seq(Entries)
  /\ db \in {"none", "open", "closed"}
  /\ initialized \in BOOLEAN
  /\ persistent \in BOOLEAN
  /\ at \in [Calls -> Awaits]
  /\ doing \in [Calls -> Operations]
  /\ entry \in [Calls -> Entries \cup {NoEntry}]
  /\ policy \in [Calls -> Policies \cup {NoPolicy}]
  /\ written \in 0..MaxLogs
  /\ unsaved \subseteq Entries
  /\ crashes \in 0..MaxCrashes

(* What a simple query shows is in the table, or on its way there, or was  *)
(* refused by it: with overlapping writes, cleanups, reconnections and     *)
(* failing statements, memory never shows an entry that a cleanup removed  *)
(* once the cleanup is over.                                               *)
MemoryIsBacked ==
  persistent =>
    \A e \in logs :
      \/ e \in ToSet(rows) \cup unsaved
      \/ \E c \in Calls : entry[c] = e \/ doing[c] = "reload"

(* A row goes away only with a cleanup, oldest first, and one that keeps   *)
(* the newest n (PersistentLogManager.ts:199) leaves n of them when there  *)
(* were as many, whatever others wrote since it was called.                *)
RowsGoByPolicy ==
  [][\A e \in ToSet(rows) \ ToSet(rows') :
       \E c \in Calls :
         /\ policy[c] # NoPolicy /\ policy'[c] = NoPolicy
         /\ IsSuffix(rows', rows)
         /\ policy[c].kind = "keepLast" =>
              Len(rows') >= policy[c].keep]_vars
=============================================================================
