--------------------------- MODULE LifecycleProofs ---------------------------
(***************************************************************************)
(* What holds in every life of a system, however many tasks, servers,      *)
(* stores and slots it has and however often it dies.                      *)
(***************************************************************************)
EXTENDS Lifecycle, TLAPS

(* A pool is started by who has the components, so by then the handler is  *)
(* registered; and only a pool takes tasks out of the queue.               *)
ReadyInv ==
  /\ pool \/ active # {} => phase = "ready"
  /\ phase = "ready" => handler

(* Where the living process may have a task.                               *)
Held == queued \cup active \cup asleep \cup answered

(* Without a database nothing is stored, and there is nothing to recover. *)
VolatileInv ==
  mode # "persistent" =>
    open = {} /\ Stored = {} /\ phase \in {"off", "ready"}

(* A stored task is not forgotten: once the boot is past its recovery, the *)
(* process has it in a queue, in a handler or behind a timer, or it was    *)
(* answered before, or it is one of the rows this boot passed over.        *)
NothingForgotten ==
  phase \in {"stores", "ready"} => Stored \subseteq Held \cup passedOver

(* A task between its announcement and its INSERT is already held, so that *)
(* a row never comes from nowhere.                                         *)
CreatingInv == creating \subseteq Held

IInv == TypeOK /\ ReadyInv /\ VolatileInv /\ CreatingInv /\ NothingForgotten

-----------------------------------------------------------------------------

LEMMA InitHolds == Init => IInv
<1> SUFFICES ASSUME Init PROVE IInv
  OBVIOUS
<1>1. TypeOK
  <2>1. lives \in 0..MaxLives
    BY LimitsAssumption DEF Init
  <2> QED
    BY <2>1, Zenon DEF Init, TypeOK
<1>2. ReadyInv /\ VolatileInv /\ CreatingInv /\ NothingForgotten
  BY DEF Init, ReadyInv, VolatileInv, CreatingInv, NothingForgotten, Stored
<1> QED
  BY <1>1, <1>2 DEF IInv

(* A death leaves rows and history only. *)
LEMMA DieKeeps == IInv /\ Die => IInv'
  BY DEF IInv, TypeOK, ReadyInv, VolatileInv, CreatingInv, NothingForgotten,
         Stored, Held, Die, Stores

(* Booting: of the two ways in, only the persistent one finds rows, and    *)
(* only it goes through the recovery.                                      *)
LEMMA BootKeeps == IInv /\ Boot => IInv'
<1> SUFFICES ASSUME IInv, Boot PROVE IInv'
  OBVIOUS
<1> USE DEF Boot, BootInMemory, BootPersistent, taskVars, serverVars, closeVars
<1>1. TypeOK'
  <2>1. lives' \in 0..MaxLives
    BY LimitsAssumption DEF IInv, TypeOK
  <2> QED
    BY <2>1 DEF IInv, TypeOK, Stores
<1>2. ReadyInv'
  BY DEF IInv, TypeOK, ReadyInv
<1>3. VolatileInv' /\ CreatingInv' /\ NothingForgotten'
  BY DEF IInv, VolatileInv, CreatingInv, NothingForgotten, Stored, Held
<1> QED
  BY <1>1, <1>2, <1>3 DEF IInv

LEMMA RecoverTasksKeeps == IInv /\ RecoverTasks => IInv'
  BY DEF IInv, TypeOK, ReadyInv, VolatileInv, CreatingInv, NothingForgotten,
         Stored, Held, RecoverTasks, InRecovery, Orphans, HeardByScheduler,
         Stores, serverVars, closeVars

LEMMA StoresReadyKeeps == IInv /\ StoresReady => IInv'
  BY DEF IInv, TypeOK, ReadyInv, VolatileInv, CreatingInv, NothingForgotten,
         Stored, Held, StoresReady, Stores, taskVars, serverVars, closeVars

LEMMA StartPoolKeeps == IInv /\ StartPool => IInv'
  BY DEF IInv, TypeOK, ReadyInv, VolatileInv, CreatingInv, NothingForgotten,
         Stored, Held, StartPool, MayStart, Stores, bootVars, taskVars,
         serverVars, closeVars

LEMMA TaskStepKeeps ==
  ASSUME NEW t \in Tasks, IInv,
         CreateTask(t) \/ StoreTask(t) \/ Pull(t) \/ Finish(t) \/ Suspend(t)
           \/ WakeUp(t)
  PROVE  IInv'
<1> USE DEF IInv, TypeOK, ReadyInv, VolatileInv, CreatingInv, NothingForgotten,
            Stored, Held, Stores, bootVars, serverVars, closeVars
<1>1. CASE CreateTask(t)
  BY <1>1 DEF CreateTask
<1>2. CASE StoreTask(t)
  BY <1>2 DEF StoreTask
<1>3. CASE Pull(t)
  BY <1>3 DEF Pull
<1>4. CASE Finish(t)
  BY <1>4 DEF Finish
<1>5. CASE Suspend(t)
  BY <1>5 DEF Suspend
<1>6. CASE WakeUp(t)
  BY <1>6 DEF WakeUp
<1> QED
  BY <1>1, <1>2, <1>3, <1>4, <1>5, <1>6

(* The dashboard and the teardown touch neither rows nor queues. *)
LEMMA ServerStepKeeps ==
  ASSUME NEW s \in Servers, IInv, StartDashboard(s) \/ DashboardUp(s)
  PROVE  IInv'
<1> USE DEF StartDashboard, DashboardUp, bootVars, taskVars, closeVars
<1>1. TypeOK'
  BY DEF IInv, TypeOK
<1>2. (ReadyInv /\ VolatileInv /\ CreatingInv /\ NothingForgotten)'
  BY DEF IInv, ReadyInv, VolatileInv, CreatingInv, NothingForgotten, Stored, Held
<1> QED
  BY <1>1, <1>2 DEF IInv

LEMMA TeardownKeeps == IInv /\ (Shutdown \/ Teardown) => IInv'
<1> SUFFICES ASSUME IInv, Shutdown \/ Teardown PROVE IInv'
  OBVIOUS
<1> USE DEF Shutdown, Teardown, TeardownInMemory, TeardownPersistent, bootVars,
            taskVars, serverVars
<1>1. TypeOK'
  <2>1. signalled' \in BOOLEAN
    BY Zenon DEF IInv, TypeOK
  <2>2. CASE Shutdown
    BY <2>1, <2>2 DEF IInv, TypeOK
  <2>3. CASE Teardown
    BY <2>1, <2>3 DEF IInv, TypeOK
  <2> QED
    BY <2>2, <2>3
<1>2. ReadyInv'
  <2>1. pool' => pool
    BY DEF IInv, TypeOK
  <2> QED
    BY <2>1 DEF IInv, ReadyInv
<1>3. (VolatileInv /\ CreatingInv /\ NothingForgotten)'
  BY DEF IInv, VolatileInv, CreatingInv, NothingForgotten, Stored, Held
<1> QED
  BY <1>1, <1>2, <1>3 DEF IInv

(* The conjunction above holds in every state: the phase of the boot, what *)
(* the table has and what the process has go together in every life.       *)
THEOREM Invariance == Spec => []IInv
<1>1. IInv /\ [Next]_vars => IInv'
  <2> SUFFICES ASSUME IInv, [Next]_vars PROVE IInv'
    OBVIOUS
  <2>1. CASE Exit \/ Crash
    BY <2>1, DieKeeps DEF Exit, Crash
  <2>2. CASE UNCHANGED vars
    BY <2>2 DEF IInv, TypeOK, ReadyInv, VolatileInv, CreatingInv,
                NothingForgotten, Stored, Held, vars, bootVars, taskVars,
                serverVars, closeVars
  <2> QED
    BY <2>1, <2>2, BootKeeps, RecoverTasksKeeps, StoresReadyKeeps, StartPoolKeeps,
       TaskStepKeeps, ServerStepKeeps, TeardownKeeps DEF Next
<1> QED
  BY InitHolds, <1>1, PTL DEF Spec

(* The state of a system keeps its type in every life. *)
THEOREM TypeCorrect == Spec => []TypeOK
  BY Invariance, PTL DEF IInv

(* No task executes in a process that has not registered the handler of    *)
(* the tools' intents, although recovered tasks are queued before it has.  *)
THEOREM HandlersComeFirst == Spec => []HandlerBeforeExecution
<1>1. IInv => HandlerBeforeExecution
  BY DEF IInv, ReadyInv, HandlerBeforeExecution
<1> QED
  BY Invariance, <1>1, PTL

(* The safety half of StoredTasksRun: a process that is past its recovery  *)
(* holds every stored task that was not answered, except the rows that     *)
(* recoverOrphanedTasks does not select.                                   *)
THEOREM StoredTasksAreHeld == Spec => []NothingForgotten
  BY Invariance, PTL DEF IInv
=============================================================================
