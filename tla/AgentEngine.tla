---------------------------- MODULE AgentEngine ----------------------------
(***************************************************************************)
(* Reasoning loops (engine/AgentEngine.ts) beside the pool that executes   *)
(* their tool calls.  A loop asks the model, turns each tool call of the   *)
(* response into a task, waits for the task's answer on the event bus, and *)
(* asks again with the answers in its context.                             *)
(*                                                                         *)
(* Each agent is one call of run().  An action is the code between two     *)
(* awaits, except that an emission of an answer is taken handler by        *)
(* handler: nothing else happens until it is over.  Of the pool there is   *)
(* what the engine can tell apart: when a task is pulled, when and how it  *)
(* is answered (module WorkerPool has the rest).  Time is a countdown per  *)
(* timer.                                                                  *)
(***************************************************************************)
EXTENDS EventBus, FiniteSets

CONSTANTS
  Agents,         \* calls of run(), each with its own context
  Dashboards,     \* dashboard servers that may be started
  Workers,        \* loops of the pool
  MaxIterations,  \* options.maxIterations
  MaxCalls,       \* bound: tool calls of each run
  PoolTimeout,    \* the pool's limit for an execution (60 s)
  EngineTimeout,  \* the engine's limit for an answer (65 s)
  PollTime,       \* the nap of a loop that found no task (1 s)
  None            \* no task, no answer, no emission

Tasks == Agents \X (Nat \ {0})
Answers == {"text", "circular", "error", "timeout"}
AnswerEvents == {"task:resumed", "task:failed"}
Handlers == Agents \cup Dashboards

ASSUME BoundsAssumption ==
  /\ MaxIterations \in Nat
  /\ MaxCalls \in [Agents -> Nat]
ASSUME TimeoutAssumption ==
  /\ PoolTimeout \in Nat \ {0}
  /\ PollTime \in Nat \ {0}
  /\ EngineTimeout \in Nat
  /\ PoolTimeout + PollTime < EngineTimeout
ASSUME WorkersAssumption == IsFiniteSet(Workers)
ASSUME HandlersAssumption == Agents \cap Dashboards = {}
ASSUME NoneAssumption == None \notin Tasks /\ None \notin Workers

VARIABLES
  pc,          \* the await each agent is at
  iterations,  \* iterations of its loop
  todo,        \* tool calls of the last response that are not answered
  calls,       \* tasks it has created
  context,     \* the messages after the prompt
  got,         \* what its promise was settled with
  ceiling,     \* what is left of its 65 s timer
  listeners,   \* the bus: handlers of the two answer events, in order
  emission,    \* the emission in progress, or None
  emitter,     \* the worker that emits
  queue,       \* the scheduler's queue
  poolUp,      \* WorkerPool.isRunning
  worker,      \* the task each loop executes, and what is left of its timer
  starved      \* history: the agent's task met a pool with no loop for it

agentVars == <<pc, iterations, todo, calls, context, got, ceiling, starved>>
busVars == <<listeners, emission, emitter>>
poolVars == <<queue, poolUp, worker>>
vars == <<agentVars, busVars, poolVars>>

(* "thinking": awaiting the model; "creating": awaiting createTask, whose  *)
(* task is already queued; "waiting": awaiting the answer; "answered":     *)
(* the wait was settled and its continuation has not run yet.              *)
AgentStates ==
  {"idle", "thinking", "creating", "waiting", "answered", "done", "failed"}

Owner(task) == task[1]
Task(a) == <<a, calls[a]>>
Assistant(n) == [role |-> "assistant", calls |-> n]
ToolMessage(task) == [role |-> "tool", task |-> task]

(* No emission is in progress: the thread is free for another callback. *)
Quiet == emission = None
Idle(w) == worker[w].task = None
Resting(left) == [task |-> None, left |-> left]

Init ==
  /\ pc = [a \in Agents |-> "idle"]
  /\ iterations = [a \in Agents |-> 0]
  /\ todo = [a \in Agents |-> 0]
  /\ calls = [a \in Agents |-> 0]
  /\ context = [a \in Agents |-> << >>]
  /\ got = [a \in Agents |-> None]
  /\ ceiling = [a \in Agents |-> 0]
  /\ starved = [a \in Agents |-> FALSE]
  /\ listeners = [e \in AnswerEvents |-> << >>]
  /\ emission = None
  /\ emitter = None
  /\ queue = << >>
  /\ poolUp = FALSE
  /\ worker = [w \in Workers |-> Resting(0)]

-----------------------------------------------------------------------------
(* The loop of run(). *)

(* The head of the while loop: one more question to the model, or the      *)
(* error of a loop that has asked too often; the faulty variant counts one *)
(* too many.                                                               *)
MayThinkOnceMore(a) == iterations[a] <= MaxIterations
MayThink(a) == iterations[a] < MaxIterations

Iterate(a) ==
  /\ IF MayThink(a)
       THEN /\ iterations' = [iterations EXCEPT ![a] = @ + 1]
            /\ pc' = [pc EXCEPT ![a] = "thinking"]
       ELSE /\ pc' = [pc EXCEPT ![a] = "failed"]
            /\ UNCHANGED iterations
  /\ UNCHANGED <<calls, queue>>

Run(a) ==
  /\ Quiet
  /\ pc[a] = "idle"
  /\ Iterate(a)
  /\ UNCHANGED <<todo, context, got, ceiling, starved, busVars, poolUp, worker>>

(* One tool call: its arguments do not parse and run() rejects, or the     *)
(* task is created, and with task:created it is in the queue.              *)
Dispatch(a) ==
  /\ UNCHANGED iterations
  /\ \/ /\ pc' = [pc EXCEPT ![a] = "failed"]
        /\ UNCHANGED <<calls, queue>>
     \/ /\ calls' = [calls EXCEPT ![a] = @ + 1]
        /\ queue' = Append(queue, <<a, calls[a] + 1>>)
        /\ pc' = [pc EXCEPT ![a] = "creating"]

Says(a, n) == context' = [context EXCEPT ![a] = Append(@, Assistant(n))]

(* The model wants n tools. *)
WantsTools(a) ==
  /\ Quiet
  /\ pc[a] = "thinking"
  /\ \E n \in 1..(MaxCalls[a] - calls[a]) :
       Says(a, n) /\ todo' = [todo EXCEPT ![a] = n]
  /\ Dispatch(a)
  /\ UNCHANGED <<got, ceiling, starved, busVars, poolUp, worker>>

Synthesis(a) ==
  /\ Quiet
  /\ pc[a] = "thinking"
  /\ Says(a, 0)
  /\ pc' = [pc EXCEPT ![a] = "done"]
  /\ UNCHANGED <<iterations, todo, calls, got, ceiling, starved, busVars,
                 poolVars>>

(* invoke rejects: network, status, or a body without choices. *)
InvokeFails(a) ==
  /\ Quiet
  /\ pc[a] = "thinking"
  /\ pc' = [pc EXCEPT ![a] = "failed"]
  /\ UNCHANGED <<iterations, todo, calls, context, got, ceiling, starved,
                 busVars, poolVars>>

(* The wait is over: the answer becomes a tool message, unless it cannot   *)
(* be written as JSON, which rejects run(); then the next call or round.   *)
Continue(a) ==
  /\ Quiet
  /\ pc[a] = "answered"
  /\ got' = [got EXCEPT ![a] = None]
  /\ starved' = [starved EXCEPT ![a] = FALSE]
  /\ \/ /\ got[a].answer = "circular"
        /\ pc' = [pc EXCEPT ![a] = "failed"]
        /\ UNCHANGED <<iterations, todo, calls, context, queue>>
     \/ /\ got[a].answer # "circular"
        /\ context' = [context EXCEPT ![a] = Append(@, ToolMessage(got[a].task))]
        /\ todo' = [todo EXCEPT ![a] = @ - 1]
        /\ IF todo[a] > 1 THEN Dispatch(a) ELSE Iterate(a)
  /\ UNCHANGED <<ceiling, busVars, poolUp, worker>>

-----------------------------------------------------------------------------
(* waitForTaskCompletion. *)

(* The 65 s timer's delay; the faulty variant uses the pool's. *)
CeilingAsThePool == PoolTimeout
Ceiling == EngineTimeout

(* createTask returned: the engine registers for both answers. *)
Listen(a) ==
  /\ Quiet
  /\ pc[a] = "creating"
  /\ pc' = [pc EXCEPT ![a] = "waiting"]
  /\ listeners' = [e \in AnswerEvents |-> On(listeners[e], a)]
  /\ ceiling' = [ceiling EXCEPT ![a] = Ceiling]
  /\ UNCHANGED <<iterations, todo, calls, context, got, starved, emission,
                 emitter, poolVars>>

(* cleanup takes the engine's handlers off both events; the faulty variant *)
(* forgets one of them.                                                    *)
CleanupResumedOnly(a) ==
  [listeners EXCEPT !["task:resumed"] = Off(@, a)]
Cleanup(a) == [e \in AnswerEvents |-> Off(listeners[e], a)]

(* resolve and reject: clean up, stop the timer, settle the promise. *)
SettleWith(a, answer) ==
  /\ listeners' = Cleanup(a)
  /\ ceiling' = [ceiling EXCEPT ![a] = 0]
  /\ got' = [got EXCEPT ![a] = answer]
  /\ pc' = [pc EXCEPT ![a] = "answered"]
  /\ UNCHANGED <<iterations, todo, calls, context, starved>>

(* The 65 s timer fires; the faulty variant never does. *)
NoCeiling(a) == pc[a] = "none"
CeilingDue(a) == pc[a] = "waiting" /\ ceiling[a] = 0

GiveUp(a) ==
  /\ Quiet
  /\ CeilingDue(a)
  /\ SettleWith(a, [task |-> Task(a), answer |-> "timeout"])
  /\ UNCHANGED <<emission, emitter, poolVars>>

(* The handlers look at the task id; the faulty variant takes any answer. *)
MineWhatever(a, task) == TRUE
Mine(a, task) == task = Task(a)

-----------------------------------------------------------------------------
(* The pool and its emissions. *)

(* The head of a worker's loop: take the next task or nap. *)
NextTask(w) ==
  \/ /\ poolUp /\ queue # << >>
     /\ worker' = [worker EXCEPT ![w] =
                     [task |-> Head(queue), left |-> PoolTimeout]]
     /\ queue' = Tail(queue)
  \/ /\ ~poolUp \/ queue = << >>
     /\ worker' = [worker EXCEPT ![w] = Resting(PollTime)]
     /\ UNCHANGED queue

Poll(w) ==
  /\ Quiet
  /\ Idle(w)
  /\ worker[w].left = 0
  /\ NextTask(w)
  /\ UNCHANGED <<agentVars, busVars, poolUp>>

EmitAnswer(w, event, answer) ==
  /\ emission' = Emission(event, [task |-> worker[w].task, answer |-> answer],
                          listeners[event])
  /\ emitter' = w

(* An answer takes at least three microtasks after the pull (the pull's    *)
(* promise, the handler's, the race's), the return of createTask after     *)
(* task:created at most two, so the engine listens by then.                *)
MayAnswer(w) == ~Idle(w) /\ pc[Owner(worker[w].task)] # "creating"

(* The handler of mcp:execute returns the tool's value; it turns every     *)
(* error of a tool and an unknown tool into a value as well.               *)
Resolve(w) ==
  /\ Quiet
  /\ MayAnswer(w)
  /\ \E answer \in {"text", "circular"} : EmitAnswer(w, "task:resumed", answer)
  /\ UNCHANGED <<agentVars, listeners, poolVars>>

(* The pool's timer wins the race. *)
TimeOut(w) ==
  /\ Quiet
  /\ MayAnswer(w)
  /\ worker[w].left = 0
  /\ EmitAnswer(w, "task:failed", "error")
  /\ UNCHANGED <<agentVars, listeners, poolVars>>

(* The emission reaches an agent. *)
DeliverToAgent(a) ==
  /\ emission # None
  /\ Delivers(emission, listeners[emission.event])
  /\ Receiver(emission, listeners[emission.event]) = a
  /\ emission' = Advance(emission)
  /\ IF Mine(a, emission.data.task) THEN SettleWith(a, emission.data)
       ELSE UNCHANGED <<agentVars, listeners>>
  /\ UNCHANGED <<emitter, poolVars>>

(* The emission reaches a dashboard, which writes the data as JSON for its *)
(* clients.  When that throws, executeTask catches it and answers anew.    *)
DeliverToDashboard(d) ==
  /\ emission # None
  /\ Delivers(emission, listeners[emission.event])
  /\ Receiver(emission, listeners[emission.event]) = d
  /\ \/ emission' = Advance(emission) /\ UNCHANGED emitter
     \/ emission.data.answer = "circular" /\ EmitAnswer(emitter, "task:failed", "error")
  /\ UNCHANGED <<agentVars, listeners, poolVars>>

(* executeTask returns and the loop goes round.  In the code the agent it  *)
(* has answered goes on first, its continuation being queued earlier; here *)
(* the two may come in either order.                                       *)
EmissionEnds ==
  /\ emission # None
  /\ ~Delivers(emission, listeners[emission.event])
  /\ emission' = None
  /\ emitter' = None
  /\ NextTask(emitter)
  /\ UNCHANGED <<agentVars, listeners, poolUp>>

-----------------------------------------------------------------------------
(* The surroundings. *)

(* start() spawns loops, which look at the queue at once. *)
StartPool ==
  /\ Quiet
  /\ ~poolUp
  /\ poolUp' = TRUE
  /\ worker' = [w \in Workers |-> IF Idle(w) THEN Resting(0) ELSE worker[w]]
  /\ UNCHANGED <<agentVars, busVars, queue>>

(* The agents that wait for one of the queued tasks at the positions I. *)
StarvedAt(I) ==
  [a \in Agents |-> starved[a] \/ (/\ pc[a] \in {"creating", "waiting"}
                                  /\ \E i \in I : queue[i] = Task(a))]

StopPool ==
  /\ Quiet
  /\ poolUp
  /\ poolUp' = FALSE
  /\ starved' = StarvedAt(DOMAIN queue)
  /\ UNCHANGED <<pc, iterations, todo, calls, context, got, ceiling, busVars,
                 queue, worker>>

(* startDashboard binds its listeners; stop() does not take them off. *)
StartDashboard(d) ==
  /\ Quiet
  /\ \A e \in AnswerEvents : d \notin ToSet(listeners[e])
  /\ listeners' = [e \in AnswerEvents |-> On(listeners[e], d)]
  /\ UNCHANGED <<agentVars, emission, emitter, poolVars>>

(* The loops that can take a task at the end of their nap. *)
FreeLoops == IF poolUp THEN Cardinality({w \in Workers : Idle(w)}) ELSE 0

Minus1(n) == IF n = 0 THEN 0 ELSE n - 1

(* Time passes when nothing is due: no continuation, no expired timer. *)
Tick ==
  /\ Quiet
  /\ \A a \in Agents : pc[a] \notin {"creating", "answered"}
  /\ \A a \in Agents : ~CeilingDue(a)
  /\ \A w \in Workers : worker[w].left > 0
  /\ ceiling' = [a \in Agents |-> Minus1(ceiling[a])]
  /\ worker' = [w \in Workers |-> [worker[w] EXCEPT !.left = Minus1(@)]]
  /\ starved' = StarvedAt({i \in DOMAIN queue : i > FreeLoops})
  /\ UNCHANGED <<pc, iterations, todo, calls, context, got, busVars, queue,
                 poolUp>>

AgentStep(a) ==
  \/ WantsTools(a)
  \/ Synthesis(a)
  \/ InvokeFails(a)
  \/ Listen(a)
  \/ GiveUp(a)
  \/ DeliverToAgent(a)
  \/ Continue(a)

Next ==
  \/ \E a \in Agents : Run(a) \/ AgentStep(a)
  \/ \E w \in Workers : Poll(w) \/ Resolve(w) \/ TimeOut(w)
  \/ \E d \in Dashboards : StartDashboard(d) \/ DeliverToDashboard(d)
  \/ EmissionEnds
  \/ StartPool
  \/ StopPool
  \/ Tick

Spec == Init /\ [][Next]_vars

(* The event loop runs what is due, a request to the model ends one way or *)
(* the other, and time passes however often somebody starts and stops the  *)
(* pool.  Nobody has to start it, and no tool has to answer.               *)
Fairness ==
  /\ \A a \in Agents :
       /\ WF_vars(WantsTools(a) \/ Synthesis(a) \/ InvokeFails(a))
       /\ WF_vars(Listen(a))
       /\ WF_vars(GiveUp(a))
       /\ WF_vars(DeliverToAgent(a))
       /\ WF_vars(Continue(a))
  /\ \A w \in Workers : WF_vars(Poll(w)) /\ WF_vars(TimeOut(w))
  /\ \A d \in Dashboards : WF_vars(DeliverToDashboard(d))
  /\ WF_vars(EmissionEnds)
  /\ SF_vars(Tick)

FairSpec == Spec /\ Fairness

-----------------------------------------------------------------------------
(* Properties. *)

Settled == [task : Tasks, answer : Answers]
Messages == [role : {"assistant"}, calls : Nat]
            \cup [role : {"tool"}, task : Tasks]

(* Types of the variables. *)
TypeOK ==
  /\ pc \in [Agents -> AgentStates]
  /\ iterations \in [Agents -> 0..MaxIterations]
  /\ todo \in [Agents -> Nat]
  /\ calls \in [Agents -> Nat]
  /\ context \in [Agents -> Seq(Messages)]
  /\ got \in [Agents -> Settled \cup {None}]
  /\ ceiling \in [Agents -> 0..EngineTimeout]
  /\ starved \in [Agents -> BOOLEAN]
  /\ listeners \in [AnswerEvents -> Seq(Handlers)]
  /\ emission \in [event : AnswerEvents, data : Settled, next : Nat, last : Nat]
                  \cup {None}
  /\ emitter \in Workers \cup {None}
  /\ queue \in Seq(Tasks)
  /\ poolUp \in BOOLEAN
  /\ worker \in [Workers -> [task : Tasks \cup {None},
                             left : 0..(PoolTimeout + PollTime)]]

(* The messages j + 1 to i of the context c answer tool calls of its       *)
(* message j.                                                              *)
Answering(c, j, i) ==
  /\ c[j].role = "assistant"
  /\ \A k \in (j + 1)..i : c[k].role = "tool"

(* How many of the first i messages answer a tool call. *)
ToolsUpTo(c, i) == Cardinality({k \in 1..i : c[k].role = "tool"})

(* Message i of agent a's context c is in its place: a response behind all *)
(* the answers to the one before it, or the answer to a call of the last   *)
(* response, by the task that was made for that call.                      *)
Fits(a, c, i) ==
  \/ /\ c[i].role = "assistant"
     /\ i = 1 \/ \E j \in 1..(i - 1) :
          Answering(c, j, i - 1) /\ i - 1 = j + c[j].calls
  \/ /\ c[i].role = "tool"
     /\ c[i].task = <<a, ToolsUpTo(c, i)>>
     /\ \E j \in 1..(i - 1) : Answering(c, j, i) /\ i <= j + c[j].calls

(* The model is never asked with a context it did not ask for: behind a    *)
(* response with n tool calls come n tool messages, the k-th call's answer *)
(* is the answer of the task made for it, and not of a task of another     *)
(* agent or of an earlier call that was given up.                          *)
ContextWellFormed ==
  \A a \in Agents : \A i \in DOMAIN context[a] : Fits(a, context[a], i)

(* An agent is registered on both answer events, once, exactly while it    *)
(* waits: no exit of the wait leaves a handler behind (AgentEngine.ts:103) *)
(* and none of the changes of the list under a running emission loses one. *)
ListenersOfWaiters ==
  \A a \in Agents, e \in AnswerEvents :
    Cardinality({i \in DOMAIN listeners[e] : listeners[e][i] = a})
      = IF pc[a] = "waiting" THEN 1 ELSE 0

(* The engine gives a call up only when its task had to queue for a pool   *)
(* that was stopped or busy: with a loop free for it, the pool's answer    *)
(* comes first, whatever the tool does, and it is never missed.            *)
GivesUpOnlyBehindQueue ==
  \A a \in Agents :
    (got[a] # None /\ got[a].answer = "timeout") => starved[a]

(* Every run comes to an end, with or without a pool and whatever model    *)
(* and tools do: the promise of AgentEngine.ts:43-48 and :130-134.         *)
RunsEnd ==
  \A a \in Agents : pc[a] # "idle" ~> pc[a] \in {"done", "failed"}
=============================================================================
