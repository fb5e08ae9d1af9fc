------------------------------ MODULE Lifecycle ------------------------------
(***************************************************************************)
(* A system from boot to death and to the next boot (index.ts), composed   *)
(* of what its parts do to a task: the task store writes its row and       *)
(* recovers it, the scheduler and its pool queue and execute it, the       *)
(* dashboard servers listen beside them, and the teardown ends them.       *)
(*                                                                         *)
(* An action is the code between two awaits of the boot, of a teardown, of *)
(* createTask or of the pool.  Queue and pool have no more detail than the *)
(* properties need: modules WorkerPool and TaskStore have it.  What the    *)
(* process keeps in memory is empty again after a death, the rows stay.    *)
(***************************************************************************)
EXTENDS Integers, FiniteSets

CONSTANTS
  Modes,        \* which of the three initialize functions are used
  Tasks,        \* tasks that may be created
  Servers,      \* dashboard servers that may be started
  OtherStores,  \* persistent stores with a connection of their own
  Concurrency,  \* options.concurrency
  MaxLives,     \* bound: how often the process is started
  NoServer      \* components.dashboardServer is undefined

AllModes == {"memory", "limbic", "persistent"}
Stores == {"tasks"} \cup OtherStores

ASSUME ModesAssumption == Modes \subseteq AllModes
ASSUME LimitsAssumption ==
  Concurrency \in Nat \ {0} /\ MaxLives \in Nat
ASSUME ServersAssumption == NoServer \notin Servers
ASSUME StoresAssumption == OtherStores \subseteq {"logs", "policies", "backups"}

VARIABLES
  mode,             \* how this system was initialized
  phase,            \* how far the boot has got
  handler,          \* the pool has the mcp:execute handler
  open,             \* the stores whose connection is open
  rows,             \* the task table
  creating,         \* tasks announced to the scheduler, not yet stored
  queued,           \* the scheduler's two queues
  pool,             \* WorkerPool.isRunning
  active,           \* tasks in a handler
  asleep,           \* tasks whose wake-up timer is pending
  woken,            \* tasks that come back as a bare id, without a handler
  starting,         \* dashboard servers before listen() has called back
  listening,        \* dashboard servers that accept connections
  dashboardServer,  \* the server that the teardown knows of
  closing,          \* how far the teardown has got
  signalled,        \* a signal handler awaits the teardown
  lives,            \* history: how often the process was started
  answered,         \* history: tasks that got an answer
  passedOver        \* history: rows this boot's recovery did not pick up

bootVars == <<mode, phase, handler, open>>
taskVars == <<rows, creating, queued, active, asleep, woken, answered>>
serverVars == <<starting, listening, dashboardServer>>
closeVars == <<closing, signalled>>
vars == <<bootVars, taskVars, pool, serverVars, closeVars, lives, passedOver>>

Stored == {t \in Tasks : rows[t] # "none"}
InRecovery == {t \in Tasks : rows[t] = "recovering"}

Init ==
  /\ mode \in Modes
  /\ phase = "off"
  /\ handler = FALSE
  /\ open = {}
  /\ rows = [t \in Tasks |-> "none"]
  /\ creating = {} /\ queued = {} /\ active = {} /\ asleep = {} /\ woken = {}
  /\ pool = FALSE
  /\ starting = {} /\ listening = {} /\ dashboardServer = NoServer
  /\ closing = "no" /\ signalled = FALSE
  /\ lives = 0 /\ answered = {} /\ passedOver = {}

-----------------------------------------------------------------------------
(* Boot. *)

(* initialize and initializeWithLimbicDB construct everything and register *)
(* the handler of the tools' intents without touching the table.           *)
BootInMemory ==
  /\ mode # "persistent"
  /\ phase' = "ready"
  /\ handler' = TRUE
  /\ UNCHANGED open

(* initializeWithPersistence awaits the task store first; a connection     *)
(* that fails is only logged.                                              *)
BootPersistent ==
  /\ mode = "persistent"
  /\ phase' = "tasks"
  /\ open' \in {{}, {"tasks"}}
  /\ UNCHANGED handler

Boot ==
  /\ phase = "off"
  /\ lives < MaxLives
  /\ lives' = lives + 1
  /\ BootInMemory \/ BootPersistent
  /\ UNCHANGED <<mode, taskVars, pool, serverVars, closeVars, passedOver>>

(* The rows recoverOrphanedTasks selects, and what becomes of them.        *)
Orphans == {t \in Tasks : rows[t] = "active"}

(* system:recovery, whose listener the scheduler's constructor registered. *)
(* The faulty variant emits before there is a scheduler.                   *)
HeardByNobody(tasks) == {}
HeardByScheduler(tasks) == tasks

(* Tasks interrupted in an earlier life go back to the queue.  The rows    *)
(* that are already being recovered do not, nor do any if the store has no *)
(* table or the transaction fails.                                         *)
RecoverTasks ==
  /\ phase = "tasks"
  /\ phase' = "stores"
  /\ \/ /\ "tasks" \in open
        /\ rows' = [t \in Tasks |->
                      IF t \in Orphans THEN "recovering" ELSE rows[t]]
        /\ queued' = queued \cup HeardByScheduler(Orphans)
        /\ passedOver' = InRecovery
     \/ /\ passedOver' = Stored
        /\ UNCHANGED <<rows, queued>>
  /\ UNCHANGED <<mode, handler, open, creating, active, asleep, woken, answered,
                 pool, serverVars, closeVars, lives>>

(* The other stores open their own connections, the handler is registered, *)
(* and the caller gets the components.                                     *)
StoresReady ==
  /\ phase = "stores"
  /\ phase' = "ready"
  /\ \E others \in SUBSET OtherStores : open' = open \cup others
  /\ handler' = TRUE
  /\ UNCHANGED <<mode, taskVars, pool, serverVars, closeVars, lives, passedOver>>

-----------------------------------------------------------------------------
(* Tasks.  Only who has the components can create one or start the pool;   *)
(* the faulty variant starts it as soon as the scheduler exists.           *)

ConstructedIsEnough == phase # "off"
MayStart == phase = "ready"

StartPool ==
  /\ MayStart
  /\ pool' = TRUE
  /\ UNCHANGED <<bootVars, taskVars, serverVars, closeVars, lives, passedOver>>

(* createTask announces the task to the scheduler before its row exists.   *)
CreateTask(t) ==
  /\ phase = "ready"
  /\ t \notin Stored \cup creating \cup queued \cup active \cup asleep \cup answered
  /\ queued' = queued \cup {t}
  /\ creating' = creating \cup {t}
  /\ UNCHANGED <<bootVars, rows, active, asleep, woken, answered, pool,
                 serverVars, closeVars, lives, passedOver>>

(* The INSERT; without a connection, or when it fails, there is no row.    *)
(* A row here is never completed or deleted, so that every one is in the   *)
(* next boot's reach: completeTask and the cleanup are TaskStore's.        *)
StoreTask(t) ==
  /\ t \in creating
  /\ creating' = creating \ {t}
  /\ \/ "tasks" \in open /\ rows' = [rows EXCEPT ![t] = "active"]
     \/ UNCHANGED rows
  /\ UNCHANGED <<bootVars, queued, active, asleep, woken, answered, pool,
                 serverVars, closeVars, lives, passedOver>>

Pull(t) ==
  /\ pool
  /\ Cardinality(active) < Concurrency
  /\ t \in queued
  /\ queued' = queued \ {t}
  /\ active' = active \cup {t}
  /\ UNCHANGED <<bootVars, rows, creating, asleep, woken, answered, pool,
                 serverVars, closeVars, lives, passedOver>>

(* Result, failure, timeout or lost context; the row is left as it is.     *)
Finish(t) ==
  /\ t \in active
  /\ active' = active \ {t}
  /\ answered' = answered \cup {t}
  /\ UNCHANGED <<bootVars, rows, creating, queued, asleep, woken, pool,
                 serverVars, closeVars, lives, passedOver>>

Suspend(t) ==
  /\ t \in active \ woken
  /\ active' = active \ {t}
  /\ asleep' = asleep \cup {t}
  /\ UNCHANGED <<bootVars, rows, creating, queued, woken, answered, pool,
                 serverVars, closeVars, lives, passedOver>>

WakeUp(t) ==
  /\ t \in asleep
  /\ asleep' = asleep \ {t}
  /\ queued' = queued \cup {t}
  /\ woken' = woken \cup {t}
  /\ UNCHANGED <<bootVars, rows, creating, active, answered, pool, serverVars,
                 closeVars, lives, passedOver>>

-----------------------------------------------------------------------------
(* Dashboard. *)

(* There is no startDashboard on a system over LimbicDB. *)
StartDashboard(s) ==
  /\ phase = "ready" /\ mode # "limbic"
  /\ s \notin starting \cup listening
  /\ starting' = starting \cup {s}
  /\ UNCHANGED <<bootVars, taskVars, pool, listening, dashboardServer,
                 closeVars, lives, passedOver>>

DashboardUp(s) ==
  /\ s \in starting
  /\ starting' = starting \ {s}
  /\ listening' = listening \cup {s}
  /\ dashboardServer' = s
  /\ UNCHANGED <<bootVars, taskVars, pool, closeVars, lives, passedOver>>

-----------------------------------------------------------------------------
(* Teardown and death. *)

(* What a death of the process leaves: the rows and the history. *)
Die ==
  /\ phase' = "off" /\ handler' = FALSE /\ open' = {}
  /\ creating' = {} /\ queued' = {} /\ active' = {} /\ asleep' = {} /\ woken' = {}
  /\ pool' = FALSE
  /\ starting' = {} /\ listening' = {} /\ dashboardServer' = NoServer
  /\ closing' = "no" /\ signalled' = FALSE
  /\ passedOver' = {}
  /\ UNCHANGED <<mode, rows, answered, lives>>

(* teardownSequence up to its await, called by the application, or by the  *)
(* handler of a signal.                                                    *)
Shutdown ==
  /\ phase = "ready"
  /\ pool' = FALSE
  /\ closing' = "stopping"
  /\ signalled' \in {signalled, TRUE}
  /\ UNCHANGED <<bootVars, taskVars, serverVars, lives, passedOver>>

(* A plain task manager has no database: the dashboard is stopped.         *)
TeardownInMemory ==
  /\ mode # "persistent"
  /\ closing' = "done"
  /\ listening' = listening \ {dashboardServer}

(* The database object of the task store has no close(): the TypeError     *)
(* leaves the connections open and the dashboard up.                       *)
TeardownPersistent ==
  /\ mode = "persistent"
  /\ closing' = "rejected"
  /\ UNCHANGED listening

(* The rest of the teardown.  Called by a signal handler, the process then *)
(* exits: by process.exit, or by the rejection nobody handles.             *)
Teardown ==
  /\ closing = "stopping"
  /\ TeardownInMemory \/ TeardownPersistent
  /\ UNCHANGED <<bootVars, taskVars, pool, starting, dashboardServer, signalled,
                 lives, passedOver>>

Exit == signalled /\ closing \in {"done", "rejected"} /\ Die

Crash == phase # "off" /\ Die

Next ==
  \/ Boot \/ RecoverTasks \/ StoresReady
  \/ StartPool
  \/ \E t \in Tasks :
       CreateTask(t) \/ StoreTask(t) \/ Pull(t) \/ Finish(t) \/ Suspend(t) \/ WakeUp(t)
  \/ \E s \in Servers : StartDashboard(s) \/ DashboardUp(s)
  \/ Shutdown \/ Teardown \/ Exit \/ Crash

Spec == Init /\ [][Next]_vars

(* A running process gets on with what it awaits: handlers are cut off     *)
(* after 60 s, timers fire, and a task gets its turn at a slot that is     *)
(* freed again and again, because the queues are first in, first out.      *)
(* Nothing has to boot the process, start its pool or shut it down.        *)
Fairness ==
  /\ WF_vars(RecoverTasks) /\ WF_vars(StoresReady)
  /\ WF_vars(Teardown) /\ WF_vars(Exit)
  /\ \A t \in Tasks :
       /\ WF_vars(StoreTask(t))
       /\ SF_vars(Pull(t))
       /\ WF_vars(Finish(t) \/ Suspend(t))
       /\ WF_vars(WakeUp(t))

FairSpec == Spec /\ Fairness

-----------------------------------------------------------------------------
(* Properties. *)

(* Types of the variables. *)
TypeOK ==
  /\ mode \in Modes
  /\ phase \in {"off", "tasks", "stores", "ready"}
  /\ handler \in BOOLEAN /\ pool \in BOOLEAN /\ signalled \in BOOLEAN
  /\ open \subseteq Stores
  /\ rows \in [Tasks -> {"none", "active", "recovering"}]
  /\ creating \cup queued \cup active \cup asleep \cup woken \subseteq Tasks
  /\ answered \subseteq Tasks /\ passedOver \subseteq Tasks
  /\ starting \cup listening \subseteq Servers
  /\ dashboardServer \in Servers \cup {NoServer}
  /\ closing \in {"no", "stopping", "done", "rejected"}
  /\ lives \in 0..MaxLives

(* The recovered tasks are in the queue long before the handler that their *)
(* intents need is registered: whatever happens between the two awaits of  *)
(* the boot, no task reaches a worker that would fail it for want of it.   *)
HandlerBeforeExecution == active # {} => handler

(* A task whose row was written is answered, in this life or in a later    *)
(* one, however often the process dies with the task queued, executing or  *)
(* asleep, provided that a pool stays up in the end; except when a death   *)
(* met its row in recovery, or the last boot could not recover at all.     *)
StoredTasksRun ==
  <>[]pool => \A t \in Tasks : <>[](t \in Stored => t \in answered \cup passedOver)

(* After the teardown the connection of the task store is closed and the   *)
(* dashboard is down ("Persistent SQL storage flushed and safely closed",  *)
(* index.ts:59).                                                           *)
ShutdownCompletes ==
  closing \in {"done", "rejected"} =>
    "tasks" \notin open /\ dashboardServer \notin listening
=============================================================================
