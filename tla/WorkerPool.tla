----------------------------- MODULE WorkerPool -----------------------------
(***************************************************************************)
(* The execution engine: IntelligentScheduler (scheduler.ts), which owns   *)
(* two in-memory queues, and WorkerPool (core/WorkerPool.ts), whose loops  *)
(* pull from them and run task handlers.                                   *)
(*                                                                         *)
(* The program is single threaded: an action is the code between two       *)
(* awaits of one loop, timer callback or caller.  A worker loop is a       *)
(* process of its own, identified by the start() that spawned it and its   *)
(* worker number, because stop() only clears a flag: the loops of an       *)
(* earlier start() are still alive until they next look at it.             *)
(***************************************************************************)
EXTENDS Integers, Sequences, FiniteSets

CONSTANTS
  Tasks,          \* task ids
  OrphanRows,     \* the rows recoverOrphanedTasks returned at boot, in order
  IntentTasks,    \* tasks created with options.intent
  CallbackTasks,  \* tasks created with options.callback
  Concurrency,    \* options.concurrency
  MaxStarts,      \* bound: how often start() takes effect
  ThrowingEvents, \* events on which some bus listener may throw
  MaxLeaks,       \* bound: how often such a throw rejects executeTask
  NoEntry         \* what a loop holds between two pulls

Outcomes == {"task:resumed", "task:suspended", "task:failed"}
Events == Outcomes \cup {"task:started"}

(* What a queue entry offers the worker: the object pushed on the queue    *)
(* carries an intent, a callback, both or neither.                         *)
Entries == [id : Tasks, intent : BOOLEAN, callback : BOOLEAN]

Loops == (1..MaxStarts) \X (1..Concurrency)

ASSUME ConcurrencyAssumption == Concurrency \in Nat \ {0}
ASSUME StartsAssumption == MaxStarts \in Nat \ {0}
ASSUME TasksAssumption ==
  /\ IntentTasks \subseteq Tasks
  /\ CallbackTasks \subseteq Tasks
  /\ OrphanRows \in Seq(Tasks)
  /\ \A i, j \in 1..Len(OrphanRows) : OrphanRows[i] = OrphanRows[j] => i = j
ASSUME ThrowingAssumption == ThrowingEvents \subseteq Events /\ MaxLeaks \in Nat
ASSUME NoEntryAssumption == NoEntry \notin Entries

VARIABLES
  isRunning,        \* WorkerPool.isRunning
  activeWorkers,    \* WorkerPool.activeWorkers
  handlerReady,     \* intentHandlers has the handler of the tasks' intents
  recoveringTasks,  \* the scheduler's queue of recovered tasks
  executionQueue,   \* the scheduler's queue of created and woken tasks
  timers,           \* tasks whose wake-up setTimeout is pending
  pc,               \* where each worker loop is
  item,             \* the queue entry each loop is working on
  submitted,        \* history: tasks handed to the scheduler
  generation,       \* history: start() calls that took effect
  stops,            \* history: stop() calls that took effect
  leaked,           \* history: executions that skipped the decrement
  events            \* history: the lifecycle events emitted for each task

queueVars == <<recoveringTasks, executionQueue>>
loopVars == <<pc, item>>
vars == <<isRunning, activeWorkers, handlerReady, queueVars, timers, loopVars,
          submitted, generation, stops, leaked, events>>

(* task:created's payload: the task object with its callback. *)
CreatedEntry(t) ==
  [id |-> t, intent |-> t \in IntentTasks, callback |-> t \in CallbackTasks]

(* scheduleTask pushes a definition with a callback and no intent. *)
CronEntry(t) == [id |-> t, intent |-> FALSE, callback |-> TRUE]

(* A row read back at boot: the intent is in its metadata, the callback    *)
(* was a closure of the dead process.                                      *)
RecoveredEntry(t) ==
  [id |-> t, intent |-> t \in IntentTasks, callback |-> FALSE]

(* What the wake-up timer pushes: { id: data.taskId }; the faulty variant  *)
(* pushes the bare id.                                                     *)
BareId(t) == t
StubEntry(t) == [id |-> t, intent |-> FALSE, callback |-> FALSE]

Orphans == {OrphanRows[i] : i \in 1..Len(OrphanRows)}

(* "none": not spawned; "nap": awaiting a sleep of the loop; "pulled":     *)
(* awaiting the pull that already shifted an entry; "running": awaiting    *)
(* the race of handler and timeout; "losing": awaiting the 500 ms of the   *)
(* no-callback branch; "settled": awaiting the end of executeTask; "gone". *)
LoopStates == {"none", "nap", "pulled", "running", "losing", "settled", "gone"}

(* The loops between activeWorkers++ and the matching decrement. *)
Executing == {l \in Loops : pc[l] \in {"running", "losing", "settled"}}

(* The loops that still hold the entry they pulled. *)
Holding == {l \in Loops : item[l] # NoEntry}

Init ==
  /\ isRunning = FALSE
  /\ activeWorkers = 0
  /\ handlerReady = FALSE
  /\ recoveringTasks = << >>
  /\ executionQueue = << >>
  /\ timers = {}
  /\ pc = [l \in Loops |-> "none"]
  /\ item = [l \in Loops |-> NoEntry]
  /\ submitted = {}
  /\ generation = 0
  /\ stops = 0
  /\ leaked = 0
  /\ events = [t \in Tasks |-> << >>]

-----------------------------------------------------------------------------
(* The queues.  bindQueuePop's callback serves recoveringTasks first.      *)

WaitingRecoveredLast == executionQueue \o recoveringTasks
Waiting == recoveringTasks \o executionQueue

(* shift() moves an entry out of its queue.  The faulty variants only read *)
(* it, and shift both queues.                                              *)
ShiftKeepingHead(k) == UNCHANGED queueVars
ShiftBoth(k) ==
  /\ recoveringTasks' = SubSeq(recoveringTasks, k + 1, Len(recoveringTasks))
  /\ executionQueue' = SubSeq(executionQueue, k + 1, Len(executionQueue))
Shift(k) ==
  /\ recoveringTasks' =
       IF k <= Len(recoveringTasks)
         THEN SubSeq(recoveringTasks, k + 1, Len(recoveringTasks))
         ELSE << >>
  /\ executionQueue' =
       IF k <= Len(recoveringTasks)
         THEN executionQueue
         ELSE SubSeq(executionQueue, k - Len(recoveringTasks) + 1,
                     Len(executionQueue))

(* The concurrency guard of the loop, on the counter's value n. *)
HasSlot(n) == n < Concurrency

-----------------------------------------------------------------------------
(* Producers. *)

(* system:recovery, emitted at boot before anyone can start the scheduler. *)
Recover ==
  /\ generation = 0
  /\ Orphans # {}
  /\ Orphans \cap submitted = {}
  /\ recoveringTasks' = recoveringTasks \o
       [i \in 1..Len(OrphanRows) |-> RecoveredEntry(OrphanRows[i])]
  /\ submitted' = submitted \cup Orphans
  /\ UNCHANGED <<isRunning, activeWorkers, handlerReady, executionQueue,
                 timers, loopVars, generation, stops, leaked, events>>

(* A member of Tasks is one task object, and each object is pushed once.   *)
(* createTask draws its id at random; scheduleTask makes it of Date.now(), *)
(* so that two cron tasks of one millisecond share an id, and a reader of  *)
(* the events would take the two for one.  Here they are two tasks.        *)
Enqueue(entry) ==
  /\ entry.id \notin submitted \cup Orphans
  /\ executionQueue' = Append(executionQueue, entry)
  /\ submitted' = submitted \cup {entry.id}
  /\ UNCHANGED <<isRunning, activeWorkers, handlerReady, recoveringTasks,
                 timers, loopVars, generation, stops, leaked, events>>

(* createTask emits task:created; the scheduler's listener enqueues it. *)
CreateTask(t) == Enqueue(CreatedEntry(t))

ScheduleTask(t) == t \in CallbackTasks \ IntentTasks /\ Enqueue(CronEntry(t))

RegisterIntentHandler ==
  /\ ~handlerReady
  /\ handlerReady' = TRUE
  /\ UNCHANGED <<isRunning, activeWorkers, queueVars, timers, loopVars,
                 submitted, generation, stops, leaked, events>>

-----------------------------------------------------------------------------
(* The pool. *)

(* start() does nothing on a running pool; without that it spawns twice.   *)
MayStartTwice == TRUE
MayStart == ~isRunning

(* start(): each new loop runs up to its first await before start()        *)
(* returns, so the loops pull the first waiting entries, in order.         *)
Start ==
  LET new == {l \in Loops : l[1] = generation + 1}
      pulls(l) == HasSlot(activeWorkers) /\ l[2] <= Len(Waiting)
  IN /\ MayStart
     /\ generation < MaxStarts
     /\ isRunning' = TRUE
     /\ generation' = generation + 1
     /\ pc' = [l \in Loops |-> IF l \notin new THEN pc[l]
                               ELSE IF pulls(l) THEN "pulled" ELSE "nap"]
     /\ item' = [l \in Loops |-> IF l \in new /\ pulls(l)
                                 THEN Waiting[l[2]] ELSE item[l]]
     /\ IF HasSlot(activeWorkers) THEN Shift(Concurrency)
                                  ELSE UNCHANGED queueVars
     /\ UNCHANGED <<activeWorkers, handlerReady, timers, submitted, stops,
                    leaked, events>>

Stop ==
  /\ isRunning
  /\ isRunning' = FALSE
  /\ stops' = stops + 1
  /\ UNCHANGED <<activeWorkers, handlerReady, queueVars, timers, loopVars,
                 submitted, generation, leaked, events>>

(* The head of the while loop, up to its next await, with activeWorkers    *)
(* at n: leave, sleep, or shift an entry.                                  *)
LoopsOnNoFlag == TRUE
KeepsLooping == isRunning

Iterate(l, n) ==
  \/ /\ ~KeepsLooping
     /\ pc' = [pc EXCEPT ![l] = "gone"]
     /\ item' = [item EXCEPT ![l] = NoEntry]
     /\ UNCHANGED queueVars
  \/ /\ KeepsLooping
     /\ ~HasSlot(n) \/ Waiting = << >>
     /\ pc' = [pc EXCEPT ![l] = "nap"]
     /\ item' = [item EXCEPT ![l] = NoEntry]
     /\ UNCHANGED queueVars
  \/ /\ KeepsLooping
     /\ HasSlot(n)
     /\ Waiting # << >>
     /\ pc' = [pc EXCEPT ![l] = "pulled"]
     /\ item' = [item EXCEPT ![l] = Head(Waiting)]
     /\ Shift(1)

(* A sleep of the loop ends: 1 s after an idle poll, 2 s after an error. *)
Wake(l) ==
  /\ pc[l] = "nap"
  /\ Iterate(l, activeWorkers)
  /\ UNCHANGED <<isRunning, activeWorkers, handlerReady, timers, submitted,
                 generation, stops, leaked, events>>

(* executeTask rejects: the loop's catch clause sleeps, and the decrement  *)
(* after the await is skipped.                                             *)
Leak(l) ==
  /\ leaked < MaxLeaks
  /\ pc' = [pc EXCEPT ![l] = "nap"]
  /\ item' = [item EXCEPT ![l] = NoEntry]
  /\ leaked' = leaked + 1

Emit(t, names) == events' = [events EXCEPT ![t] = @ \o names]

(* Which branch of executeTask takes the entry. *)
HasFrame(entry) == (entry.intent /\ handlerReady) \/ entry.callback

(* The pull resolves: the slot is taken, task:started is emitted outside   *)
(* executeTask's try, and the handler is called.                           *)
Begin(l) ==
  /\ pc[l] = "pulled"
  /\ activeWorkers' = activeWorkers + 1
  /\ Emit(item[l].id, <<"task:started">>)
  /\ \/ /\ pc' = [pc EXCEPT ![l] = IF HasFrame(item[l]) THEN "running"
                                                        ELSE "losing"]
        /\ UNCHANGED <<item, leaked>>
     \/ "task:started" \in ThrowingEvents /\ Leak(l)
  /\ UNCHANGED <<isRunning, handlerReady, queueVars, timers, submitted,
                 generation, stops>>

(* executeTask ends by emitting names; the last emit is in its catch       *)
(* clause, so a listener that throws there rejects executeTask.            *)
Answer(l, names) ==
  /\ Emit(item[l].id, names)
  /\ \/ /\ pc' = [pc EXCEPT ![l] = "settled"]
        /\ UNCHANGED <<item, leaked>>
     \/ names[Len(names)] \in ThrowingEvents /\ Leak(l)

(* The same for an emit inside the try: a throw is caught and answered     *)
(* with task:failed.                                                       *)
AnswerInTry(l, name) ==
  \/ /\ Emit(item[l].id, <<name>>)
     /\ pc' = [pc EXCEPT ![l] = "settled"]
     /\ UNCHANGED <<item, leaked>>
  \/ name \in ThrowingEvents /\ Answer(l, <<name, "task:failed">>)

Settle(l, from) ==
  /\ pc[l] = from
  /\ UNCHANGED <<isRunning, activeWorkers, handlerReady, queueVars, submitted,
                 generation, stops>>

Resolve(l) ==
  Settle(l, "running") /\ AnswerInTry(l, "task:resumed") /\ UNCHANGED timers

Reject(l) ==
  Settle(l, "running") /\ Answer(l, <<"task:failed">>) /\ UNCHANGED timers

(* The 60 s timer wins the race against a handler that does not settle. *)
TimeOutNever(l) == pc[l] = "none" /\ UNCHANGED vars
TimeOut(l) ==
  Settle(l, "running") /\ Answer(l, <<"task:failed">>) /\ UNCHANGED timers

(* The handler threw a SuspendSignal: the scheduler's listener, the first  *)
(* on the bus, arms the wake-up timer before any other listener can throw. *)
Suspend(l) ==
  /\ Settle(l, "running")
  /\ Answer(l, <<"task:suspended">>)
  /\ timers' = timers \cup {item[l].id}

LoseContextSilently(l) ==
  /\ Settle(l, "losing")
  /\ pc' = [pc EXCEPT ![l] = "settled"]
  /\ UNCHANGED <<timers, item, leaked, events>>
LoseContext(l) ==
  Settle(l, "losing") /\ AnswerInTry(l, "task:failed") /\ UNCHANGED timers

(* executeTask returned: give the slot back and go round the loop. *)
SlotKept(n) == n
SlotReturned(n) == n - 1

Release(l) ==
  /\ pc[l] = "settled"
  /\ activeWorkers' = SlotReturned(activeWorkers)
  /\ Iterate(l, SlotReturned(activeWorkers))
  /\ UNCHANGED <<isRunning, handlerReady, timers, submitted, generation, stops,
                 leaked, events>>

(* The wake-up timer of a suspended task; stop() does not cancel it. *)
TimerFires(t) ==
  /\ t \in timers
  /\ timers' = timers \ {t}
  /\ executionQueue' = Append(executionQueue, StubEntry(t))
  /\ UNCHANGED <<isRunning, activeWorkers, handlerReady, recoveringTasks,
                 loopVars, submitted, generation, stops, leaked, events>>

LoopStep(l) ==
  \/ Wake(l)
  \/ Begin(l)
  \/ Resolve(l)
  \/ Reject(l)
  \/ TimeOut(l)
  \/ Suspend(l)
  \/ LoseContext(l)
  \/ Release(l)

Next ==
  \/ Recover
  \/ \E t \in Tasks : CreateTask(t) \/ ScheduleTask(t) \/ TimerFires(t)
  \/ RegisterIntentHandler
  \/ Start
  \/ Stop
  \/ \E l \in Loops : LoopStep(l)

Spec == Init /\ [][Next]_vars

(* The event loop runs what is due: every sleep ends, every continuation   *)
(* runs, every timer fires.  Handlers owe nothing: they may never settle.  *)
Fairness ==
  /\ \A l \in Loops :
       /\ WF_vars(Wake(l))
       /\ WF_vars(Begin(l))
       /\ WF_vars(TimeOut(l))
       /\ WF_vars(LoseContext(l))
       /\ WF_vars(Release(l))
  /\ \A t \in Tasks : WF_vars(TimerFires(t))

FairSpec == Spec /\ Fairness

-----------------------------------------------------------------------------
(* Properties. *)

(* Types of the variables. *)
TypeOK ==
  /\ isRunning \in BOOLEAN
  /\ activeWorkers \in Int
  /\ handlerReady \in BOOLEAN
  /\ recoveringTasks \in Seq(Entries)
  /\ executionQueue \in Seq(Entries)
  /\ timers \subseteq Tasks
  /\ pc \in [Loops -> LoopStates]
  /\ item \in [Loops -> Entries \cup {NoEntry}]
  /\ submitted \subseteq Tasks
  /\ generation \in 0..MaxStarts
  /\ stops \in Nat
  /\ leaked \in Nat
  /\ events \in [Tasks -> Seq(Events)]

(* activeWorkers, which decides whether a loop may pull, counts the        *)
(* executions in progress and, besides them, only the executions that a    *)
(* throwing listener cut short before the decrement.                       *)
CounterMatches == activeWorkers = Cardinality(Executing) + leaked

(* A pool that was never stopped runs at most Concurrency tasks at a time, *)
(* however often start() is called and whatever listeners throw.           *)
CapacityBound == stops = 0 => Cardinality(Executing) <= Concurrency

(* The number of places a task is in: queued, held by a loop that has not  *)
(* yet answered, or waiting for its wake-up timer.                         *)
Copies(t) ==
  LET in(q) == Cardinality({i \in 1..Len(q) : q[i].id = t})
  IN in(recoveringTasks) + in(executionQueue)
     + Cardinality({l \in Holding : item[l].id = t /\ pc[l] # "settled"})
     + (IF t \in timers THEN 1 ELSE 0)

Answered(t) ==
  events[t] # << >> /\ events[t][Len(events[t])] \in {"task:resumed", "task:failed"}

(* Two loops never work on one task, and a task is not queued again while  *)
(* it runs or sleeps: no interleaving of loops, timers and restarts of the *)
(* pool executes one queue entry twice.                                    *)
NoDoubleExecution == \A t \in Tasks : Copies(t) <= 1

(* The executions of which only the start was announced, because a         *)
(* listener threw on it: nobody executes the task and nobody will.         *)
CutShort ==
  {t \in Tasks :
     /\ events[t] # << >>
     /\ events[t][Len(events[t])] = "task:started"
     /\ \A l \in Loops : pc[l] \in {"running", "losing"} => item[l].id # t}

(* A task handed to the scheduler is in the queues, in a loop, waiting for *)
(* its timer, or has been answered; only a listener that throws on         *)
(* task:started makes one vanish.                                          *)
NoTaskLost ==
  \A t \in submitted : Copies(t) = 1 \/ Answered(t) \/ t \in CutShort

(* What the agent engine and the dashboard count on: an execution that is  *)
(* over has announced an outcome, and a second one only as the task:failed *)
(* that the catch clause adds when a listener threw on the first.  Every   *)
(* execution without an outcome has cost a slot.                           *)
OneOutcomePerExecution ==
  /\ Cardinality(CutShort) <= leaked
  /\ \A t \in Tasks : \A i \in 1..Len(events[t]) - 1 :
       LET before == IF i = 1 THEN "none" ELSE events[t][i - 1]
           now == events[t][i]
           after == events[t][i + 1]
       IN \/ now = "task:started" /\ after \in Outcomes
          \/ now \in Outcomes /\ after = "task:started"
          \/ /\ before = "task:started"
             /\ now \in ThrowingEvents
             /\ after = "task:failed"

(* When a loop pulls a task that was not recovered, each recovered task    *)
(* that still waited is pulled by some loop in the same step.              *)
RecoveredFirst ==
  [][\A l \in Loops :
       (pc'[l] = "pulled" /\ pc[l] # "pulled" /\ item'[l].id \notin Orphans)
         => \A i \in 1..Len(recoveringTasks) :
              \E m \in Loops : item'[m] = recoveringTasks[i]]_vars

(* Once the pool stays up, every task handed to the scheduler is answered, *)
(* whatever its handler does: hangs are cut off by the timeout, a          *)
(* suspension by its timer.  A listener that throws loses its own task at  *)
(* most, as long as it leaves the pool a slot.                             *)
EveryTaskAnswered ==
  <>[]isRunning =>
    \A t \in Tasks : t \in submitted ~> (Answered(t) \/ t \in CutShort)

(* A pool that stays stopped comes to rest: every loop leaves, and no      *)
(* handler is awaited any more.                                            *)
StoppedPoolDrains ==
  <>[]~isRunning => <>[](\A l \in Loops : pc[l] \in {"none", "gone"})

(* A task that was suspended by the handler of its intent finds that       *)
(* handler again when its timer wakes it: the worker fetches the real task *)
(* context (scheduler.ts:63-64).                                           *)
SuspendedKeepsContext ==
  \A l \in Loops :
    (pc[l] = "losing" /\ item[l].id \in IntentTasks \ CallbackTasks)
      => \A i \in 1..Len(events[item[l].id]) :
            events[item[l].id][i] # "task:suspended"
=============================================================================
