---------------------------- MODULE FileLockProofs ----------------------------
(***************************************************************************)
(* Proofs about FileLock, for any number of callers, retries and crashes.  *)
(***************************************************************************)
EXTENDS FileLock, TLAPS

(* The types a step can disturb. *)
LockTypes ==
  /\ lockFile \in BOOLEAN
  /\ pc \in [Callers -> {"idle", "waiting", "holding", "failed"}]
  /\ creator \in Callers \cup {Nobody}

IInv == LockTypes /\ HolderOwnsFile

(* Every caller's step has one of four effects on the file and the caller. *)
LEMMA StepEffect ==
  ASSUME LockTypes, NEW c \in Callers, Acquire(c) \/ Retry(c) \/ Release(c)
  PROVE  \/ /\ ~lockFile /\ lockFile' = TRUE /\ creator' = c
            /\ \/ pc' = [pc EXCEPT ![c] = "holding"]
               \/ pc[c] # "holding" /\ pc' = [pc EXCEPT ![c] = "failed"]
         \/ /\ pc[c] = "holding" /\ pc' = [pc EXCEPT ![c] = "idle"]
            /\ \/ lockFile' = FALSE /\ creator' = Nobody
               \/ UNCHANGED <<lockFile, creator>>
         \/ /\ UNCHANGED <<lockFile, creator>>
            /\ pc[c] # "holding"
            /\ \/ pc' = [pc EXCEPT ![c] = "failed"]
               \/ pc' = [pc EXCEPT ![c] = "waiting"]
<1>1. ASSUME NEW n, Try(c, n), pc[c] # "holding"
      PROVE  \/ /\ ~lockFile /\ lockFile' = TRUE /\ creator' = c
                /\ \/ pc' = [pc EXCEPT ![c] = "holding"]
                   \/ pc' = [pc EXCEPT ![c] = "failed"]
             \/ /\ UNCHANGED <<lockFile, creator>>
                /\ \/ pc' = [pc EXCEPT ![c] = "failed"]
                   \/ pc' = [pc EXCEPT ![c] = "waiting"]
  BY <1>1 DEF Try, MayCreate, Created, Throw
<1>2. CASE Acquire(c) \/ Retry(c)
  BY <1>1, <1>2 DEF Acquire, Retry
<1>3. CASE Release(c)
  BY <1>3 DEF Release, MayRelease
<1>4. QED
  BY <1>2, <1>3

(* The file of a holder is only ever taken away by the holder itself. *)
LEMMA Inductive ==
  ASSUME IInv, [Next]_vars
  PROVE  IInv'
<1>1. ASSUME NEW c \in Callers, Acquire(c) \/ Retry(c) \/ Release(c)
      PROVE  IInv'
  BY <1>1, StepEffect DEF IInv, LockTypes, HolderOwnsFile
<1>2. CASE Crash
  BY <1>2 DEF Crash, IInv, LockTypes, HolderOwnsFile
<1>3. CASE RemoveStaleFile
  BY <1>3 DEF RemoveStaleFile, IInv, LockTypes, HolderOwnsFile
<1>4. CASE UNCHANGED vars
  BY <1>4 DEF vars, IInv, LockTypes, HolderOwnsFile
<1>5. QED
  BY <1>1, <1>2, <1>3, <1>4 DEF Next

(* The invariant holds throughout. *)
LEMMA Invariance == Spec => []IInv
<1>1. Init => IInv
  BY DEF Init, IInv, LockTypes, HolderOwnsFile
<1>2. QED
  BY <1>1, Inductive, PTL DEF Spec

(* Every step of acquire, release, the crash and the clean-up keeps the    *)
(* types.  The bound on attempt is the point: a caller that backs off is   *)
(* not at the last round of acquire's loop, so that it counts to           *)
(* MaxRetries at most and the loop ends by throwing.                       *)
LEMMA TryTyped ==
  ASSUME TypeOK, NEW c \in Callers, NEW n \in 0..MaxRetries, Try(c, n)
  PROVE  TypeOK'
<1> USE RetriesAssumption DEF TypeOK
<1>1. lockFile' \in BOOLEAN /\ creator' \in Callers \cup {Nobody}
  BY DEF Try, Created
<1>2. locked' \in [Callers -> BOOLEAN]
  BY DEF Try, Throw
<1>3. pc' \in [Callers -> {"idle", "waiting", "holding", "failed"}]
  BY DEF Try, Throw
<1>4. attempt' \in [Callers -> 0..MaxRetries]
  <2>1. CASE UNCHANGED attempt
    BY <2>1
  <2>2. CASE ~LastAttempt(n) /\ attempt' = [attempt EXCEPT ![c] = NextAttempt(n)]
    <3>1. NextAttempt(n) \in 0..MaxRetries
      BY <2>2 DEF LastAttempt, NextAttempt
    <3>2. QED
      BY <2>2, <3>1
  <2>3. QED
    BY <2>1, <2>2 DEF Try
<1>5. crashes' \in 0..MaxCrashes
  BY DEF Try
<1>6. QED
  BY <1>1, <1>2, <1>3, <1>4, <1>5

(* The variables keep their types: the rounds of acquire never exceed      *)
(* options.maxRetries, whatever the disk fails and whenever the process    *)
(* dies.                                                                   *)
THEOREM TypeCorrect == Spec => []TypeOK
<1>1. Init => TypeOK
  <2> SUFFICES ASSUME Init
               PROVE  TypeOK
    OBVIOUS
  <2>1. lockFile \in BOOLEAN /\ creator \in Callers \cup {Nobody}
    BY DEF Init
  <2>2. locked \in [Callers -> BOOLEAN]
    BY DEF Init
  <2>3. pc \in [Callers -> {"idle", "waiting", "holding", "failed"}]
    BY DEF Init
  <2>4. attempt \in [Callers -> 0..MaxRetries] /\ crashes \in 0..MaxCrashes
    BY RetriesAssumption DEF Init
  <2>5. QED
    BY <2>1, <2>2, <2>3, <2>4 DEF TypeOK
<1>2. TypeOK /\ [Next]_vars => TypeOK'
  <2> SUFFICES ASSUME TypeOK, [Next]_vars
               PROVE  TypeOK'
    OBVIOUS
  <2>1. ASSUME NEW c \in Callers, Acquire(c)
        PROVE  TypeOK'
    BY <2>1, TryTyped, RetriesAssumption DEF Acquire
  <2>2. ASSUME NEW c \in Callers, Retry(c)
        PROVE  TypeOK'
    <3>1. attempt[c] \in 0..MaxRetries
      BY DEF TypeOK
    <3>2. QED
      BY <2>2, <3>1, TryTyped DEF Retry
  <2>3. ASSUME NEW c \in Callers, Release(c)
        PROVE  TypeOK'
    BY <2>3 DEF Release, TypeOK
  <2>4. CASE Crash
    BY <2>4, RetriesAssumption DEF Crash, TypeOK
  <2>5. CASE RemoveStaleFile
    BY <2>5 DEF RemoveStaleFile, TypeOK
  <2>6. CASE UNCHANGED vars
    BY <2>6 DEF vars, TypeOK
  <2>7. QED
    BY <2>1, <2>2, <2>3, <2>4, <2>5, <2>6 DEF Next
<1>3. QED
  BY <1>1, <1>2, PTL DEF Spec

(* A holder's file is there and is its own, in every reachable state. *)
THEOREM HoldersOwnTheFile == Spec => []HolderOwnsFile
<1>1. IInv => HolderOwnsFile
  BY DEF IInv
<1>2. QED
  BY Invariance, <1>1, PTL

(* At most one caller holds the lock, for any number of callers, retries,  *)
(* crashes and I/O errors: a file has one creator.                         *)
THEOREM Exclusion == Spec => []MutualExclusion
<1>1. HolderOwnsFile => MutualExclusion
  BY DEF HolderOwnsFile, MutualExclusion
<1>2. QED
  BY HoldersOwnTheFile, <1>1, PTL

(* The abstract holder is a caller that holds the lock, if there is one.   *)
LEMMA HolderValue ==
  ASSUME NEW states
  PROVE  \/ HolderIn(states) \in Callers /\ states[HolderIn(states)] = "holding"
         \/ HolderIn(states) = Nobody /\ \A c \in Callers : states[c] # "holding"
BY DEF HolderIn

(* While the file exists nobody starts to hold the lock. *)
LEMMA FileKeepsOthersOut ==
  ASSUME IInv, [Next]_vars, lockFile, NEW d \in Callers, pc'[d] = "holding"
  PROVE  pc[d] = "holding"
<1>1. ASSUME NEW c \in Callers, Acquire(c) \/ Retry(c) \/ Release(c)
      PROVE  pc[d] = "holding"
  BY <1>1, StepEffect DEF IInv, LockTypes
<1>2. QED
  BY <1>1 DEF Next, Crash, RemoveStaleFile, vars

(* The lock passes from one caller to another only through nobody.         *)
THEOREM Refinement == Spec => ImplementsMutex
<1>1. Init => Abstract!Init
  BY DEF Init, Abstract!Init, TheHolder, HolderIn
<1>2. IInv /\ [Next]_vars => [Abstract!Next]_TheHolder
  <2> SUFFICES ASSUME IInv, [Next]_vars, TheHolder' # TheHolder
               PROVE  Abstract!Next
    OBVIOUS
  <2>1. CASE TheHolder = Nobody
    <3>1. TheHolder' \in Callers
      BY <2>1, HolderValue DEF TheHolder
    <3>2. Abstract!Take(TheHolder')
      BY <2>1 DEF Abstract!Take
    <3>3. QED
      BY <3>1, <3>2 DEF Abstract!Next
  <2>2. CASE TheHolder # Nobody
    <3>1. TheHolder \in Callers /\ pc[TheHolder] = "holding"
      BY <2>2, HolderValue DEF TheHolder
    <3>2. lockFile /\ MutualExclusion
      BY <3>1 DEF IInv, HolderOwnsFile, MutualExclusion
    <3>3. \A d \in Callers : pc'[d] = "holding" => d = TheHolder
      BY <3>1, <3>2, FileKeepsOthersOut DEF MutualExclusion
    <3>4. TheHolder' = Nobody
      BY <3>3, HolderValue DEF TheHolder
    <3>5. QED
      BY <2>2, <3>4 DEF Abstract!Next, Abstract!Give
  <2>3. QED
    BY <2>1, <2>2
<1>3. QED
  BY Invariance, <1>1, <1>2, PTL DEF Spec, ImplementsMutex, Abstract!Spec
=============================================================================
