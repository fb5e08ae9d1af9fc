------------------------------- MODULE FileLock -------------------------------
(***************************************************************************)
(* FileLock (core/FileLock.ts): callers of one process, each with a lock   *)
(* object of its own on one path, and the .lock file they create with      *)
(* O_EXCL.  The file survives the process; the objects do not.             *)
(*                                                                         *)
(* An action is one attempt, from the call or the end of a back-off to the *)
(* next await.  A caller releases what it holds and nothing else, as       *)
(* withLock does; release() itself does not look at who created the file.  *)
(***************************************************************************)
EXTENDS Naturals, FiniteSets

CONSTANTS
  Callers,
  Nobody,
  MaxRetries,  \* options.maxRetries
  IOMayFail,   \* TRUE: open, close and unlink may fail as the disk pleases
  MaxCrashes   \* bound: how often the process dies

ASSUME CallersAssumption == Nobody \notin Callers
ASSUME RetriesAssumption == MaxRetries \in Nat /\ MaxCrashes \in Nat
ASSUME IOAssumption == IOMayFail \in BOOLEAN

VARIABLES
  lockFile, \* the .lock file exists
  locked,   \* the locked field of each caller's object
  pc,       \* "idle"; "waiting": in a back-off; "holding"; "failed": it threw
  attempt,  \* the attempt a waiting caller makes next
  creator,  \* history: who created the file there is
  crashes   \* bounded by MaxCrashes

vars == <<lockFile, locked, pc, attempt, creator, crashes>>

Init ==
  /\ lockFile = FALSE
  /\ locked = [c \in Callers |-> FALSE]
  /\ pc = [c \in Callers |-> "idle"]
  /\ attempt = [c \in Callers |-> 0]
  /\ creator = Nobody
  /\ crashes = 0

-----------------------------------------------------------------------------
(* acquire: attempt n of caller c. *)

(* O_EXCL; without it the open succeeds on an existing file. *)
MayOverwrite == TRUE
MayCreate == ~lockFile

Created(c) == lockFile' = TRUE /\ creator' = c

Throw(c) == pc' = [pc EXCEPT ![c] = "failed"] /\ UNCHANGED locked

(* The loop's last round; the faulty variant is one round late. *)
LastAttemptLate(n) == n > MaxRetries
LastAttempt(n) == n = MaxRetries

(* The loop's increment; the faulty variant wraps around. *)
WrapAround(n) == (n + 1) % MaxRetries
NextAttempt(n) == n + 1

Try(c, n) ==
  \/ /\ MayCreate
     /\ Created(c)
     /\ locked' = [locked EXCEPT ![c] = TRUE]
     /\ pc' = [pc EXCEPT ![c] = "holding"]
     /\ UNCHANGED <<attempt, crashes>>
  \/ /\ lockFile
     /\ LastAttempt(n)
     /\ Throw(c)
     /\ UNCHANGED <<lockFile, attempt, creator, crashes>>
  \/ /\ lockFile
     /\ ~LastAttempt(n)
     /\ pc' = [pc EXCEPT ![c] = "waiting"]
     /\ attempt' = [attempt EXCEPT ![c] = NextAttempt(n)]
     /\ UNCHANGED <<lockFile, locked, creator, crashes>>
  \/ /\ IOMayFail \* open fails, but not with EEXIST
     /\ Throw(c)
     /\ UNCHANGED <<lockFile, attempt, creator, crashes>>
  \/ /\ IOMayFail \* close fails: the file has been created
     /\ MayCreate
     /\ Created(c)
     /\ Throw(c)
     /\ UNCHANGED <<attempt, crashes>>

Acquire(c) == pc[c] \in {"idle", "failed"} /\ Try(c, 0)

Retry(c) == pc[c] = "waiting" /\ Try(c, attempt[c])

-----------------------------------------------------------------------------
(* release: unlink, whose errors are ignored.  The faulty variant is       *)
(* called by waiters too, as from a finally around acquire.                *)

MayReleaseAnyTime(c) == pc[c] \in {"holding", "failed"}
MayRelease(c) == pc[c] = "holding"

Release(c) ==
  /\ MayRelease(c)
  /\ \/ lockFile' = FALSE /\ creator' = Nobody
     \/ IOMayFail /\ UNCHANGED <<lockFile, creator>>
  /\ locked' = [locked EXCEPT ![c] = FALSE]
  /\ pc' = [pc EXCEPT ![c] = "idle"]
  /\ UNCHANGED <<attempt, crashes>>

(* The process dies; a file it left behind stays. *)
Crash ==
  /\ crashes < MaxCrashes
  /\ crashes' = crashes + 1
  /\ locked' = [c \in Callers |-> FALSE]
  /\ pc' = [c \in Callers |-> "idle"]
  /\ attempt' = [c \in Callers |-> 0]
  /\ UNCHANGED <<lockFile, creator>>

(* Somebody removes a file nobody holds, as the tests' clean-up does: no   *)
(* code of the class ever does.                                            *)
RemoveStaleFile ==
  /\ lockFile
  /\ \A c \in Callers : pc[c] # "holding"
  /\ lockFile' = FALSE
  /\ creator' = Nobody
  /\ UNCHANGED <<locked, pc, attempt, crashes>>

Next ==
  \/ \E c \in Callers : Acquire(c) \/ Retry(c) \/ Release(c)
  \/ Crash
  \/ RemoveStaleFile

Spec == Init /\ [][Next]_vars

(* Back-off timers fire.  Nobody owes a release. *)
FairSpec == Spec /\ \A c \in Callers : WF_vars(Retry(c))

-----------------------------------------------------------------------------
(* Properties. *)

(* Types of the variables. *)
TypeOK ==
  /\ lockFile \in BOOLEAN
  /\ locked \in [Callers -> BOOLEAN]
  /\ pc \in [Callers -> {"idle", "waiting", "holding", "failed"}]
  /\ attempt \in [Callers -> 0..MaxRetries]
  /\ creator \in Callers \cup {Nobody}
  /\ crashes \in 0..MaxCrashes

(* At most one caller is between acquire and release, whatever the disk    *)
(* fails and whenever the process dies.                                    *)
MutualExclusion ==
  \A c, d \in Callers : (pc[c] = "holding" /\ pc[d] = "holding") => c = d

(* The file a holder relies on is there and is the one it created: nobody  *)
(* else's failed acquire, release or restart has taken it away.            *)
HolderOwnsFile ==
  \A c \in Callers : pc[c] = "holding" => lockFile /\ creator = c

(* The lock as its callers see it implements Mutex. *)
HolderIn(states) ==
  IF \E c \in Callers : states[c] = "holding"
    THEN CHOOSE c \in Callers : states[c] = "holding" ELSE Nobody
TheHolder == HolderIn(pc)
Abstract == INSTANCE Mutex WITH holder <- TheHolder
ImplementsMutex == Abstract!Spec

(* acquire never hangs: after finitely many back-offs it has the lock or   *)
(* throws, even behind a holder that never releases or a stale file.       *)
AcquireEnds == \A c \in Callers : pc[c] = "waiting" ~> pc[c] # "waiting"
=============================================================================
