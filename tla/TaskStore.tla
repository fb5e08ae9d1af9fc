------------------------------ MODULE TaskStore ------------------------------
(***************************************************************************)
(* Tasks and their persistence: TaskManager (task_manager.ts), its         *)
(* subclass PersistentTaskManager (persistence/PersistentTaskManager.ts)   *)
(* over the tasks table of Database.ts, and the executions whose durable   *)
(* steps (core/DurableContext.ts) are written back to it.                  *)
(*                                                                         *)
(* Three copies of a task exist: the object in TaskManager.tasks, the one  *)
(* in PersistentTaskManager.cache, and the row.  The two objects may be    *)
(* one and the same, and workflowState is an object of its own that they,  *)
(* the queue entry and the running DurableContext may share; histories are *)
(* therefore values of a small heap, named by references.                  *)
(*                                                                         *)
(* An action is the code between two awaits.  createTask, completeTask and *)
(* patchWorkflowHistory await between the memory update and the SQL        *)
(* statement, so each is two actions.                                      *)
(***************************************************************************)
EXTENDS Integers, FiniteSets

CONSTANTS
  Tasks,         \* task ids; createTask draws each once
  NumSteps,      \* durable steps of every handler, run in order
  Refs,          \* bound: history objects alive at a time, for one task
  NoRef,         \* an object without workflowState
  Absent,        \* no object, row, queue entry or execution
  MaxCrashes,    \* bound: how often the process dies
  DriverPresent, \* FALSE: better-sqlite3 missing, Database.inMemoryFallback
  WritesMayFail  \* TRUE: connecting or a statement may throw

Steps == 1..NumSteps
Statuses == {"active", "completed", "recovering"}

ASSUME StepsAssumption == NumSteps \in Nat
ASSUME FlagsAssumption ==
  DriverPresent \in BOOLEAN /\ WritesMayFail \in BOOLEAN /\ MaxCrashes \in Nat
ASSUME NoRefAssumption == NoRef \notin Refs

VARIABLES
  mode,       \* "off": not initialized; "db"; "memory": initialize failed
  mem,        \* the objects of each task in this process, see Memory
  rows,       \* the tasks table
  booted,     \* initializeWithPersistence has recovered orphans and returned
  queue,      \* workflowState of the entry with each task's handler, or Absent
  frame,      \* the execution of each task's handler, or Absent
  timers,     \* tasks whose suspension has armed a timer
  woken,      \* tasks of which the queue holds the bare id a timer pushed
  creating,   \* createTask calls that have not reached their INSERT
  completing, \* completeTask calls that have not reached their UPDATE
  patches,    \* patchWorkflowHistory calls that have not reached theirs
  aged,       \* completed tasks that are older than keepCompletedDays
  crashes,    \* bounded by MaxCrashes
  issued,     \* history: ids createTask has returned
  effects,    \* history: steps whose function has ever taken effect
  standing,   \* history: calls of it in this process that it has not rejected
  committed,  \* history: steps some UPDATE has put in the row's history
  failed      \* history: tasks of which a statement failed in this process

memVars == <<mode, mem, booted, creating, completing, patches>>
timerVars == <<timers, woken>>
execVars == <<queue, frame, timerVars>>
callVars == <<effects, standing>>
ghostVars == <<crashes, issued, callVars, committed, failed>>
vars == <<memVars, rows, execVars, aged, ghostVars>>

(* A task object: done says that completedAt is set. *)
Objects == [status : Statuses, done : BOOLEAN, ws : Refs \cup {NoRef}]

(* own is the object in tasks, cached the one in cache; same says that     *)
(* they are one object; heap holds the history objects.                    *)
Memory == [own : Objects \cup {Absent}, cached : Objects \cup {Absent},
           same : BOOLEAN, heap : [Refs -> SUBSET Steps]]

Rows == [status : Statuses, done : BOOLEAN, hist : SUBSET Steps]
Frames == [pos : 0..NumSteps, hist : Refs, ran : BOOLEAN]
Patches == [task : Tasks, step : Steps, ws : Refs]

(* undefined is none of the values it stands beside. *)
ASSUME AbsentAssumption ==
  Absent \notin Refs \cup {NoRef} \cup Objects \cup Rows \cup Frames

NoMemory == [own |-> Absent, cached |-> Absent, same |-> FALSE,
             heap |-> [r \in Refs |-> {}]]

Init ==
  /\ mode = "off"
  /\ mem = [t \in Tasks |-> NoMemory]
  /\ rows = [t \in Tasks |-> Absent]
  /\ booted = FALSE
  /\ queue = [t \in Tasks |-> Absent]
  /\ frame = [t \in Tasks |-> Absent]
  /\ timers = {} /\ woken = {}
  /\ creating = {} /\ completing = {} /\ patches = {}
  /\ aged = {}
  /\ crashes = 0
  /\ issued = {}
  /\ effects = [t \in Tasks |-> {}]
  /\ standing = [t \in Tasks |-> [s \in Steps |-> 0]]
  /\ committed = [t \in Tasks |-> {}]
  /\ failed = {}

-----------------------------------------------------------------------------
(* Objects and rows. *)

(* References to a task's history objects from outside its two objects. *)
HeldRefs(t) ==
  {queue[t]} \cup {p.ws : p \in {q \in patches : q.task = t}}
    \cup (IF frame[t] = Absent THEN {} ELSE {frame[t].hist})

WsOf(object) == IF object = Absent THEN NoRef ELSE object.ws

(* A new history object, different from every one still referenced. *)
Fresh(m, held) ==
  CHOOSE r \in Refs : r \notin held \cup {WsOf(m.own), WsOf(m.cached)}

(* The bound on Refs: two more history objects of a task, as many as one   *)
(* step may need, still fit in.  The code allocates as it pleases.         *)
Room(t) ==
  \E r, q \in Refs \ (HeldRefs(t) \cup {WsOf(mem[t].own), WsOf(mem[t].cached)}) :
    r # q

(* Assigning through tasks.get(t) is seen through the cache when the two   *)
(* are one object, and the other way round.                                *)
SetOwn(m, object) ==
  [m EXCEPT !.own = object, !.cached = IF m.same THEN object ELSE @]
SetCached(m, object) ==
  [m EXCEPT !.cached = object, !.own = IF m.same THEN object ELSE @]

(* dbRowToTask: the history stays behind in the row's metadata.  The       *)
(* faulty variant hands out the row itself.                                *)
RowAsObject(row) == row
ObjectOfRow(row) == [status |-> row.status, done |-> row.done, ws |-> NoRef]

(* The same new object goes into the cache and into tasks. *)
Loaded(m, object) ==
  [m EXCEPT !.own = object, !.cached = object, !.same = TRUE]

(* taskToDbRow of the object in tasks.  The faulty variant takes the       *)
(* default for the status.                                                 *)
HistoryOf(heap, ws) == IF ws = NoRef THEN {} ELSE heap[ws]
RowWithDefaultStatus(m) ==
  [status |-> "active", done |-> m.own.done, hist |-> HistoryOf(m.heap, m.own.ws)]
RowOf(m) ==
  [status |-> m.own.status, done |-> m.own.done, hist |-> HistoryOf(m.heap, m.own.ws)]

(* The INSERTs leave completed_at out. *)
Inserted(row) == [row EXCEPT !.done = FALSE]

(* The context keeps what it ran, on its own history object; the faulty    *)
(* variant relies on the listeners for that.                               *)
RememberNothing(m, r, s) == m
Remember(m, r, s) == [m EXCEPT !.heap[r] = @ \cup {s}]

(* history[stepId] = result, in the workflowState of the object in tasks,  *)
(* which is created if missing: TaskManager's own step listener.           *)
Record(m, s, held) ==
  IF m.own = Absent THEN m
  ELSE IF m.own.ws # NoRef
    THEN [m EXCEPT !.heap[m.own.ws] = @ \cup {s}]
    ELSE LET r == Fresh(m, held)
         IN [SetOwn(m, [m.own EXCEPT !.ws = r]) EXCEPT !.heap[r] = {s}]

(* Statements that find no driver succeed and change nothing. *)
Written(t, row) == IF DriverPresent THEN [rows EXCEPT ![t] = row] ELSE rows

-----------------------------------------------------------------------------
(* Lifecycle of the manager. *)

(* initialize(): connect and load every row, or fall back to memory. *)
Initialize ==
  /\ mode = "off"
  /\ \/ /\ mode' = "db"
        /\ mem' = [t \in Tasks |-> IF rows[t] = Absent THEN mem[t]
                                   ELSE Loaded(mem[t], ObjectOfRow(rows[t]))]
     \/ /\ WritesMayFail
        /\ mode' = "memory"
        /\ UNCHANGED mem
  /\ UNCHANGED <<booted, creating, completing, patches, rows, execVars,
                 aged, ghostVars>>

(* close(): the cache is cleared, tasks is not, executions go on. *)
Close ==
  /\ mode = "db"
  /\ mode' = "off"
  /\ mem' = [t \in Tasks |-> [mem[t] EXCEPT !.cached = Absent, !.same = FALSE]]
  /\ UNCHANGED <<booted, creating, completing, patches, rows, execVars,
                 aged, ghostVars>>

(* The process dies, or exits: nothing but the table is left.  (shutdown   *)
(* writes nothing either.)                                                 *)
Crash ==
  /\ crashes < MaxCrashes
  /\ crashes' = crashes + 1
  /\ mode' = "off"
  /\ mem' = [t \in Tasks |-> NoMemory]
  /\ booted' = FALSE
  /\ queue' = [t \in Tasks |-> Absent]
  /\ frame' = [t \in Tasks |-> Absent]
  /\ timers' = {} /\ woken' = {}
  /\ standing' = [t \in Tasks |-> [s \in Steps |-> 0]]
  /\ creating' = {} /\ completing' = {} /\ patches' = {}
  /\ failed' = {}
  /\ UNCHANGED <<rows, aged, issued, effects, committed>>

(* The rows recoverOrphanedTasks selects. *)
OrphanedIgnoringStatus(row) == row # Absent
Orphaned(row) == row # Absent /\ row.status = "active" /\ ~row.done

(* recoverOrphanedTasks and the system:recovery event of index.ts, once    *)
(* per process, before its caller gets the system.  If a statement throws, *)
(* the transaction rolls back and nothing is enqueued, but the objects set *)
(* so far stay set.                                                        *)
Recover ==
  LET orphans == {t \in Tasks : mode = "db" /\ Orphaned(rows[t])}
      marked(S) == [t \in Tasks |-> IF t \notin S THEN mem[t]
                     ELSE Loaded(mem[t], [ObjectOfRow(rows[t])
                                            EXCEPT !.status = "recovering"])]
  IN /\ mode # "off"
     /\ ~booted
     /\ booted' = TRUE
     /\ \/ /\ mem' = marked(orphans)
           /\ rows' = [t \in Tasks |-> IF t \in orphans
                         THEN [rows[t] EXCEPT !.status = "recovering"] ELSE rows[t]]
           /\ queue' = [t \in Tasks |-> IF t \in orphans THEN NoRef ELSE queue[t]]
           /\ UNCHANGED failed
        \/ \E done \in SUBSET orphans : \* all of them, if the commit throws
             /\ WritesMayFail /\ orphans # {}
             /\ mem' = marked(done)
             /\ failed' = failed \cup orphans
             /\ UNCHANGED <<rows, queue>>
     /\ UNCHANGED <<mode, creating, completing, patches, frame, timerVars, aged,
                    crashes, issued, callVars, committed>>

-----------------------------------------------------------------------------
(* The manager's operations; each begins by initializing if need be. *)

Ready == booted /\ mode # "off"

(* createTask up to its first await: the object goes into tasks, and the   *)
(* scheduler's listener on task:created enqueues a copy of it.             *)
CreateTask(t) ==
  LET r == Fresh(mem[t], HeldRefs(t))
  IN /\ Ready
     /\ t \notin issued
     /\ Room(t)
     /\ issued' = issued \cup {t}
     /\ mem' = [mem EXCEPT ![t].own = [status |-> "active", done |-> FALSE, ws |-> r],
                           ![t].heap[r] = {}]
     /\ queue' = [queue EXCEPT ![t] = r]
     /\ creating' = creating \cup {t}
     /\ UNCHANGED <<mode, booted, completing, patches, rows, frame, timerVars,
                    aged, crashes, callVars, committed, failed>>

(* The rest of createTask: INSERT the row, then cache a copy that shares   *)
(* the workflowState.  A failed INSERT is only logged.                     *)
CommitCreate(t) ==
  LET r == Fresh(mem[t], HeldRefs(t))
      m == IF mem[t].own = Absent \/ WsOf(mem[t].own) # NoRef THEN mem[t]
           ELSE [SetOwn(mem[t], [mem[t].own EXCEPT !.ws = r]) EXCEPT !.heap[r] = {}]
      inserts == mode = "db" /\ rows[t] = Absent /\ m.own # Absent
  IN /\ t \in creating
     /\ Room(t)
     /\ creating' = creating \ {t}
     /\ \/ /\ inserts
           /\ rows' = Written(t, Inserted(RowOf(m)))
           /\ mem' = [mem EXCEPT ![t] = [m EXCEPT !.cached = m.own, !.same = FALSE]]
        \/ /\ ~inserts \/ WritesMayFail
           /\ mem' = [mem EXCEPT ![t] = m]
           /\ UNCHANGED rows
     /\ UNCHANGED <<mode, booted, completing, patches, execVars, aged, ghostVars>>

(* getTask on a cache miss: the row replaces the objects. *)
GetTask(t) ==
  /\ Ready /\ mode = "db"
  /\ mem[t].cached = Absent
  /\ rows[t] # Absent
  /\ mem' = [mem EXCEPT ![t] = Loaded(@, ObjectOfRow(rows[t]))]
  /\ UNCHANGED <<mode, booted, creating, completing, patches, rows, execVars,
                 aged, ghostVars>>

(* getAllTasks: every row replaces the objects of its task. *)
GetAllTasks ==
  /\ Ready /\ mode = "db"
  /\ mem' = [t \in Tasks |-> IF rows[t] = Absent THEN mem[t]
                             ELSE Loaded(mem[t], ObjectOfRow(rows[t]))]
  /\ UNCHANGED <<mode, booted, creating, completing, patches, rows, execVars,
                 aged, ghostVars>>

(* completeTask up to its first await: the object in tasks. *)
CompleteTask(t) ==
  /\ Ready
  /\ t \notin completing
  /\ mem[t].own # Absent
  /\ mem' = [mem EXCEPT ![t] = SetOwn(@, [@.own EXCEPT !.status = "completed"])]
  /\ completing' = completing \cup {t}
  /\ aged' = IF mode = "memory" THEN aged \ {t} ELSE aged
  /\ UNCHANGED <<mode, booted, creating, patches, rows, execVars, ghostVars>>

(* What completeTask's UPDATE does to the row, and then its last block to  *)
(* the cached object.  The faulty variant forgets the cache.               *)
CompletedRow(row) == [row EXCEPT !.status = "completed", !.done = TRUE]
CompletedInRowOnly(object) == object
CompletedObject(object) == [object EXCEPT !.status = "completed", !.done = TRUE]

(* The rest of completeTask.  Only the cached object gets completedAt.  A  *)
(* failed UPDATE is only logged.                                           *)
CommitComplete(t) ==
  /\ t \in completing
  /\ completing' = completing \ {t}
  /\ \/ /\ mode = "db"
        /\ rows' = IF rows[t] = Absent THEN rows
                   ELSE Written(t, CompletedRow(rows[t]))
        /\ mem' = [mem EXCEPT ![t] =
             IF @.cached = Absent THEN @
             ELSE SetCached(@, CompletedObject(@.cached))]
        /\ aged' = aged \ {t}
        /\ UNCHANGED failed
     \/ /\ mode # "db" \/ WritesMayFail
        /\ failed' = IF mode = "db" THEN failed \cup {t} ELSE failed
        /\ UNCHANGED <<rows, mem, aged>>
  /\ UNCHANGED <<mode, booted, creating, patches, execVars, crashes, issued,
                 callVars, committed>>

(* keepCompletedDays pass after a completion. *)
Age(t) ==
  /\ t \notin aged
  /\ \/ rows[t] # Absent /\ rows[t].status = "completed"
     \/ mem[t].own # Absent /\ mem[t].own.status = "completed"
  /\ aged' = aged \cup {t}
  /\ UNCHANGED <<memVars, rows, execVars, ghostVars>>

(* cleanupOldTasks: DELETE the rows, then drop every cached task without   *)
(* a row.  In memory mode the objects are judged instead.                  *)
DeletableAnyAge(t) == rows[t] # Absent /\ rows[t].status = "completed"
Deletable(t) ==
  rows[t] # Absent /\ rows[t].status = "completed" /\ rows[t].done /\ t \in aged

CleanupOldTasks ==
  /\ Ready
  /\ rows' = [t \in Tasks |-> IF mode = "db" /\ Deletable(t) THEN Absent ELSE rows[t]]
  /\ LET dropped == IF mode = "db"
           THEN {t \in Tasks : mem[t].cached # Absent /\ rows'[t] = Absent}
           ELSE {t \in aged : mem[t].own # Absent /\ mem[t].own.status = "completed"}
     IN mem' = [t \in Tasks |-> IF t \in dropped
                  THEN [mem[t] EXCEPT !.own = Absent, !.cached = Absent, !.same = FALSE]
                  ELSE mem[t]]
  /\ UNCHANGED <<mode, booted, creating, completing, patches, execVars, aged,
                 ghostVars>>

(* persistAll: one transaction over the objects in tasks. *)
PersistAll ==
  /\ Ready /\ mode = "db" /\ DriverPresent
  /\ rows' = [t \in Tasks |->
       IF mem[t].own = Absent THEN rows[t]
       ELSE IF rows[t] = Absent THEN Inserted(RowOf(mem[t])) ELSE RowOf(mem[t])]
  /\ UNCHANGED <<memVars, execVars, aged, ghostVars>>

-----------------------------------------------------------------------------
(* Executions. *)

(* A worker begins the entry: its DurableContext works on the history of   *)
(* the entry's workflowState, or on a new empty one.                       *)
Begin(t) ==
  LET r == IF queue[t] # NoRef THEN queue[t] ELSE Fresh(mem[t], HeldRefs(t))
  IN /\ queue[t] # Absent
     /\ frame[t] = Absent
     /\ Room(t)
     /\ frame' = [frame EXCEPT ![t] = [pos |-> 0, hist |-> r, ran |-> FALSE]]
     /\ queue' = [queue EXCEPT ![t] = Absent]
     /\ mem' = IF queue[t] # NoRef THEN mem ELSE [mem EXCEPT ![t].heap[r] = {}]
     /\ UNCHANGED <<mode, booted, creating, completing, patches, rows, timerVars,
                    aged, ghostVars>>

(* ctx.run of a step that is not in the history: its function takes        *)
(* effect.  The faulty variant goes on without waiting for it.             *)
StepIsSkipped(t) ==
  /\ frame[t] # Absent
  /\ ~frame[t].ran
  /\ frame[t].pos < NumSteps
  /\ frame' = [frame EXCEPT ![t].ran = TRUE]
  /\ UNCHANGED <<memVars, rows, queue, timerVars, aged, ghostVars>>
StepRuns(t) ==
  /\ frame[t] # Absent
  /\ ~frame[t].ran
  /\ frame[t].pos < NumSteps
  /\ frame[t].pos + 1 \notin mem[t].heap[frame[t].hist]
  /\ frame' = [frame EXCEPT ![t].ran = TRUE]
  /\ effects' = [effects EXCEPT ![t] = @ \cup {frame[t].pos + 1}]
  /\ standing' = [standing EXCEPT ![t][frame[t].pos + 1] = @ + 1]
  /\ UNCHANGED <<memVars, rows, queue, timerVars, aged, crashes, issued, committed,
                 failed>>

(* The function rejects, perhaps after it has taken effect; the handler    *)
(* may catch that and call the step again, or reject too (FrameEnds).      *)
StepRejects(t) ==
  /\ frame[t] # Absent
  /\ frame[t].ran
  /\ frame' = [frame EXCEPT ![t].ran = FALSE]
  /\ standing' = [standing EXCEPT ![t][frame[t].pos + 1] = @ - 1]
  /\ UNCHANGED <<memVars, rows, queue, timerVars, aged, crashes, issued, effects,
                 committed, failed>>

(* The objects on which patchWorkflowHistory will work once its getTask is *)
(* awaited: cache, then row, then tasks; a failing SELECT leaves tasks.    *)
Captured(m, row) ==
  IF m.cached # Absent \/ row = Absent THEN {m}
  ELSE {Loaded(m, ObjectOfRow(row))} \cup (IF WritesMayFail THEN {m} ELSE {})
CapturedObject(m) == IF m.cached # Absent THEN m.cached ELSE m.own

(* The step's function returned: the context's history, then the listener  *)
(* of TaskManager, then patchWorkflowHistory up to its await.              *)
StepCompletes(t) ==
  LET f == frame[t]
      s == f.pos + 1
      m1 == Remember(mem[t], f.hist, s)
      m2 == Record(m1, s, HeldRefs(t))
      opened(m3) == LET r == Fresh(m3, HeldRefs(t))
                    IN IF WsOf(CapturedObject(m3)) # NoRef THEN m3
                       ELSE [SetCached(m3, [m3.cached EXCEPT !.ws = r])
                               EXCEPT !.heap[r] = {}]
  IN /\ f # Absent
     /\ f.ran
     /\ Room(t)
     /\ frame' = [frame EXCEPT ![t].pos = s, ![t].ran = FALSE]
     /\ \E m3 \in Captured(m2, rows[t]) :
          IF mode = "db" /\ CapturedObject(m3) # Absent
          THEN /\ mem' = [mem EXCEPT ![t] = opened(m3)]
               /\ patches' = patches \cup
                    {[task |-> t, step |-> s, ws |-> CapturedObject(opened(m3)).ws]}
          ELSE mem' = [mem EXCEPT ![t] = m2] /\ UNCHANGED patches
     /\ UNCHANGED <<mode, booted, creating, completing, rows, queue, timerVars, aged,
                    ghostVars>>

(* The rest of patchWorkflowHistory: the whole history of the captured     *)
(* workflowState goes into the row.  A failed UPDATE is only logged.       *)
CommitPatch(p) ==
  LET t == p.task
      heap == [mem[t].heap EXCEPT ![p.ws] = @ \cup {p.step}]
      row == [rows[t] EXCEPT !.hist = heap[p.ws]]
  IN /\ p \in patches
     /\ patches' = patches \ {p}
     /\ mem' = [mem EXCEPT ![t].heap = heap]
     /\ \/ /\ mode = "db" /\ rows[t] # Absent
           /\ rows' = Written(t, row)
           /\ committed' = [committed EXCEPT ![t] = @ \cup heap[p.ws]]
        \/ /\ mode # "db" \/ rows[t] = Absent \/ WritesMayFail
           /\ UNCHANGED <<rows, committed>>
     /\ UNCHANGED <<mode, booted, creating, completing, execVars, aged, crashes,
                    issued, callVars, failed>>

(* The handler returns after its last step, or rejects before.  (The pool  *)
(* may have answered for it after 60 s; that does not stop it, and a       *)
(* suspension after that is dropped.)                                      *)
FrameEnds(t) ==
  /\ frame[t] # Absent
  /\ ~frame[t].ran
  /\ frame' = [frame EXCEPT ![t] = Absent]
  /\ UNCHANGED <<memVars, rows, queue, timerVars, aged, ghostVars>>

(* A sleep, once in the history, suspends: the execution ends and the      *)
(* scheduler's listener on task:suspended arms a timer.                    *)
FrameSuspends(t) ==
  /\ frame[t] # Absent
  /\ ~frame[t].ran /\ frame[t].pos > 0
  /\ frame' = [frame EXCEPT ![t] = Absent]
  /\ timers' = timers \cup {t}
  /\ UNCHANGED <<memVars, rows, queue, woken, aged, ghostVars>>

(* The timer pushes the bare id, whatever has become of the task. *)
TimerFires(t) ==
  /\ t \in timers
  /\ timers' = timers \ {t}
  /\ woken' = woken \cup {t}
  /\ UNCHANGED <<memVars, rows, queue, frame, aged, ghostVars>>

(* The pool finds no handler with the id: task:failed, Context Lost. *)
LoseContext(t) ==
  /\ t \in woken
  /\ woken' = woken \ {t}
  /\ UNCHANGED <<memVars, rows, queue, frame, timers, aged, ghostVars>>

Next ==
  \/ Initialize \/ Close \/ Crash \/ Recover
  \/ GetAllTasks \/ CleanupOldTasks \/ PersistAll
  \/ \E t \in Tasks :
       \/ CreateTask(t) \/ CommitCreate(t) \/ GetTask(t)
       \/ CompleteTask(t) \/ CommitComplete(t) \/ Age(t)
       \/ Begin(t) \/ StepRuns(t) \/ StepRejects(t) \/ StepCompletes(t)
       \/ FrameEnds(t) \/ FrameSuspends(t) \/ TimerFires(t) \/ LoseContext(t)
  \/ \E p \in patches : CommitPatch(p)

Spec == Init /\ [][Next]_vars

-----------------------------------------------------------------------------
(* Properties. *)

(* Types of the variables. *)
TypeOK ==
  /\ mode \in {"off", "db", "memory"}
  /\ mem \in [Tasks -> Memory]
  /\ rows \in [Tasks -> Rows \cup {Absent}]
  /\ booted \in BOOLEAN
  /\ queue \in [Tasks -> Refs \cup {NoRef, Absent}]
  /\ frame \in [Tasks -> Frames \cup {Absent}]
  /\ timers \subseteq Tasks /\ woken \subseteq Tasks
  /\ creating \subseteq Tasks /\ completing \subseteq Tasks /\ aged \subseteq Tasks
  /\ patches \subseteq Patches
  /\ crashes \in 0..MaxCrashes
  /\ issued \subseteq Tasks /\ failed \subseteq Tasks
  /\ effects \in [Tasks -> SUBSET Steps]
  /\ standing \in [Tasks -> [Steps -> Int]]
  /\ committed \in [Tasks -> SUBSET Steps]

(* No history, in a row or in an object somebody still holds, names a step *)
(* whose function has not run: replaying one would skip work.              *)
NoPhantomSteps ==
  \A t \in Tasks, s \in Steps :
    (\/ rows[t] # Absent /\ s \in rows[t].hist
     \/ \E r \in (HeldRefs(t) \cup {WsOf(mem[t].own), WsOf(mem[t].cached)}) \cap Refs :
          s \in mem[t].heap[r])
      => s \in effects[t]

(* However the objects around it are shared, reloaded, persisted or        *)
(* dropped, a running context knows exactly the steps it went through.     *)
FrameSeesOwnSteps ==
  \A t \in Tasks :
    frame[t] # Absent => mem[t].heap[frame[t].hist] = 1..frame[t].pos

(* A completed row stays completed until the cleanup deletes it: neither a *)
(* late patch, nor persistAll, nor the recovery reopens it.                *)
CompletedStays ==
  [][\A t \in Tasks :
       (rows[t] # Absent /\ rows[t].status = "completed")
         => rows'[t] = Absent \/ rows'[t].status = "completed"]_vars

(* createTask and the recovery put a task into the scheduler's queue with  *)
(* its handler only while nothing in the process runs it, waits to run it  *)
(* or sleeps for it, and its row is not completed.  A wake-up, which does  *)
(* not ask for the status, comes only while nothing runs the task or waits *)
(* to.                                                                     *)
EnqueuedOnlyIfOpen ==
  [][\A t \in Tasks :
       /\ (queue[t] = Absent /\ queue'[t] # Absent)
            => /\ frame[t] = Absent /\ t \notin timers \cup woken
               /\ rows[t] # Absent => rows[t].status # "completed"
       /\ t \in woken' \ woken => frame[t] = Absent /\ queue[t] = Absent]_vars

(* The cleanup removes a task, from the table or from memory, only when it *)
(* is completed and older than keepCompletedDays                           *)
(* (PersistentTaskManager.ts:471).                                         *)
CleanupKeepsOpenTasks ==
  [][crashes' = crashes =>
       \A t \in Tasks :
         /\ (rows[t] # Absent /\ rows'[t] = Absent) => t \in aged
         /\ (mem[t].own # Absent /\ mem'[t].own = Absent)
              => t \in aged /\ mem[t].own.status = "completed"]_vars

(* What getTask answers from the cache has the status of the row, except   *)
(* while a completion is between the two and after a statement that was to *)
(* change both has failed.                                                 *)
CacheMatchesRows ==
  \A t \in Tasks \ (completing \cup failed) :
    (mode = "db" /\ mem[t].cached # Absent)
      => rows[t] # Absent /\ mem[t].cached.status = rows[t].status

(* A step whose completion reached the table is not executed again, in     *)
(* this process or a later one (README.md:25, durable_workflow.test.ts).   *)
PersistedStepsNotRepeated ==
  [][\A t \in Tasks, s \in Steps :
       standing'[t][s] > standing[t][s] => s \notin committed[t]]_vars
=============================================================================
