---------------------------- MODULE DurableContext ----------------------------
(***************************************************************************)
(* DurableContext (core/DurableContext.ts) and a handler that goes through *)
(* its steps one after the other; it may catch a rejected step and call it *)
(* again.  The history of a context lives as long as the process.          *)
(*                                                                         *)
(* The handler is replayed by a caller that kept the history (getHistory,  *)
(* as tests/unit/durable_workflow.test.ts does) and hands the task in      *)
(* again with it.  Nothing in src does that: the timer of the scheduler    *)
(* wakes a bare id, and a task recovered after a death starts from an      *)
(* empty history.  (TaskStore models what is stored, WorkerPool who runs.) *)
(***************************************************************************)
EXTENDS Integers, Sequences, FiniteSets

CONSTANTS
  NumSteps,      \* the handler's steps, in program order
  SleepSteps,    \* those that are ctx.sleep; the others are ctx.run
  Duration,      \* durationMs of the sleeps, in ticks
  IdleTime,      \* bound: after that the clock moves only for a sleeper
  MaxTime,       \* bound: and there it stops
  Results,       \* what the function of a ctx.run may return
  NoValue,       \* a step that is not in a history
  MaxCrashes,    \* bound: how often the process dies
  MaxRejections  \* bound: how often a function rejects in one process

Steps == 1..NumSteps
Times == 0..(MaxTime + Duration)
Values == Results \cup Times

ASSUME StepsAssumption == NumSteps \in Nat /\ SleepSteps \subseteq Steps
ASSUME ClockAssumption == Duration \in Nat /\ IdleTime \in Nat /\ MaxTime \in Nat
ASSUME NoValueAssumption == NoValue \notin Values
ASSUME BoundsAssumption == MaxCrashes \in Nat /\ MaxRejections \in Nat

VARIABLES
  now,       \* Date.now()
  history,   \* the context's history
  pos,       \* steps the handler has gone through in this invocation
  phase,     \* of the invocation, see Phases
  wakeAt,    \* SuspendSignal.resumeAt of the last suspension
  announced, \* history: workflow:step:completed events of this process
  given,     \* history: what the ctx.run of each step resolved to, in this process
  calls,     \* history: how often its function was called, in this process
  rejected,  \* history: and how often that rejected
  bedtime,   \* history: when each sleep was first begun, in this process
  crashes    \* bounded by MaxCrashes

callVars == <<given, calls, rejected>>
ghostVars == <<callVars, bedtime, crashes>>
vars == <<now, history, pos, phase, wakeAt, announced, ghostVars>>

(* "ready": the handler is between two steps; "calling": it awaits the     *)
(* function of a ctx.run; "suspended", "failed", "done": how the           *)
(* invocation ended; "woken": the timer has handed in the bare id, which   *)
(* has no handler; "dead": there is no process.                            *)
Phases == {"ready", "calling", "suspended", "failed", "done", "woken", "dead"}

Empty == [s \in Steps |-> NoValue]
Never == [s \in Steps |-> 0]
Nothing == [s \in Steps |-> {}]

Init ==
  /\ now = 0
  /\ history = Empty
  /\ pos = 0 /\ phase = "ready" /\ wakeAt = 0
  /\ announced = << >>
  /\ given = Nothing /\ calls = Never /\ rejected = Never
  /\ bedtime = Empty /\ crashes = 0

-----------------------------------------------------------------------------
(* The handler is at step pos + 1 of its program. *)

At(s) == phase = "ready" /\ pos < NumSteps /\ s = pos + 1

(* stepId in this.history. *)
Known(s) == history[s] # NoValue

Return(s, v) ==
  /\ given' = [given EXCEPT ![s] = @ \cup {v}]
  /\ pos' = s

(* history[stepId] = v, and the event that makes the store write it.  The  *)
(* faulty variant leaves the context's own history to the store.           *)
KeepInStore(s, v) ==
  /\ announced' = Append(announced, [step |-> s, value |-> v])
  /\ UNCHANGED history
Keep(s, v) ==
  /\ history' = [history EXCEPT ![s] = v]
  /\ announced' = Append(announced, [step |-> s, value |-> v])

(* run, step in the history: its result is returned, fn is not called.     *)
(* The faulty variant returns what it likes.                               *)
FastForwardBlindly(s) ==
  /\ At(s) /\ Known(s) /\ s \notin SleepSteps
  /\ \E v \in Results : Return(s, v)
  /\ UNCHANGED <<now, history, phase, wakeAt, announced, calls, rejected, bedtime, crashes>>
FastForward(s) ==
  /\ At(s) /\ Known(s) /\ s \notin SleepSteps
  /\ Return(s, history[s])
  /\ UNCHANGED <<now, history, phase, wakeAt, announced, calls, rejected, bedtime, crashes>>

(* run, step not in the history: fn is called and takes effect. *)
Call(s) ==
  /\ At(s) /\ ~Known(s) /\ s \notin SleepSteps
  /\ phase' = "calling"
  /\ calls' = [calls EXCEPT ![s] = @ + 1]
  /\ UNCHANGED <<now, history, pos, wakeAt, announced, given, rejected, bedtime, crashes>>

(* fn resolves with v. *)
FnReturns(s, v) ==
  /\ phase = "calling" /\ s = pos + 1
  /\ Keep(s, v)
  /\ Return(s, v)
  /\ phase' = "ready"
  /\ UNCHANGED <<now, wakeAt, calls, rejected, bedtime, crashes>>

(* fn rejects, perhaps after it has taken effect: nothing is kept, and the *)
(* handler rejects too or catches that and calls the step again.           *)
FnThrows(s) ==
  /\ phase = "calling" /\ s = pos + 1
  /\ rejected[s] < MaxRejections
  /\ rejected' = [rejected EXCEPT ![s] = @ + 1]
  /\ phase' \in {"failed", "ready"}
  /\ UNCHANGED <<now, history, pos, wakeAt, announced, given, calls, bedtime, crashes>>

(* throw new SuspendSignal(stepId, duration), which reads the clock. *)
Suspend(duration) ==
  /\ phase' = "suspended"
  /\ wakeAt' = now + duration
  /\ UNCHANGED <<now, pos>>

(* sleep, begun.  The clock is read twice, at :81 and in the signal; here  *)
(* in one instant. *)
SleepBegins(s) ==
  /\ At(s) /\ ~Known(s) /\ s \in SleepSteps
  /\ Keep(s, now + Duration)
  /\ Suspend(Duration)
  /\ bedtime' = [bedtime EXCEPT ![s] = IF @ = NoValue THEN now ELSE @]
  /\ UNCHANGED <<callVars, crashes>>

(* Whether the wake-up time has come.  The faulty variant is off by one. *)
ElapsedAlmost(s) == now + 1 >= history[s]
Elapsed(s) == now >= history[s]

SleepEnds(s) ==
  /\ At(s) /\ Known(s) /\ s \in SleepSteps
  /\ Elapsed(s)
  /\ pos' = s
  /\ UNCHANGED <<now, history, phase, wakeAt, announced, ghostVars>>

(* resumeAt - Date.now(); the faulty variant swaps the two. *)
LeftSwapped(s) == now - history[s]
Left(s) == history[s] - now

(* Called too early: suspend for what is left, with nothing to tell.  The  *)
(* faulty variant starts the sleep over.                                   *)
SleepStartsOver(s) ==
  /\ At(s) /\ Known(s) /\ s \in SleepSteps
  /\ ~Elapsed(s)
  /\ history' = [history EXCEPT ![s] = now + Duration]
  /\ Suspend(Duration)
  /\ UNCHANGED <<announced, ghostVars>>
SleepGoesOn(s) ==
  /\ At(s) /\ Known(s) /\ s \in SleepSteps
  /\ ~Elapsed(s)
  /\ Suspend(Left(s))
  /\ UNCHANGED <<history, announced, ghostVars>>

HandlerReturns ==
  /\ phase = "ready" /\ pos = NumSteps
  /\ phase' = "done"
  /\ UNCHANGED <<now, history, pos, wakeAt, announced, ghostVars>>

-----------------------------------------------------------------------------
(* Around the context. *)

Tick ==
  /\ now < MaxTime
  /\ now < IdleTime \/ (phase = "suspended" /\ now < wakeAt)
  /\ now' = now + 1
  /\ UNCHANGED <<history, pos, phase, wakeAt, announced, ghostVars>>

(* A new invocation, whose context starts from the history h. *)
Invoke(h) ==
  /\ history' = h
  /\ pos' = 0
  /\ phase' = "ready"

(* A caller that kept the history hands the task in again with it, too     *)
(* early or after a failure as it likes.                                   *)
Resume ==
  /\ phase \in {"suspended", "failed", "woken"}
  /\ Invoke(history)
  /\ UNCHANGED <<now, wakeAt, announced, ghostVars>>

(* The scheduler's timer is due and hands in the bare id: no handler runs. *)
WakeUp ==
  /\ phase = "suspended"
  /\ now >= wakeAt
  /\ phase' = "woken"
  /\ UNCHANGED <<now, history, pos, wakeAt, announced, ghostVars>>

(* The process dies; contexts, timers and all that was counted in its      *)
(* life die with it.                                                       *)
Die ==
  /\ phase # "dead"
  /\ crashes < MaxCrashes
  /\ crashes' = crashes + 1
  /\ phase' = "dead" /\ pos' = 0
  /\ history' = Empty
  /\ announced' = << >>
  /\ given' = Nothing /\ calls' = Never /\ rejected' = Never
  /\ bedtime' = Empty
  /\ UNCHANGED <<now, wakeAt>>

(* The next process recovers the task: the row's history is dropped on the *)
(* way (dbRowToTask), and the pool starts the context from {}.             *)
Recover ==
  /\ phase = "dead"
  /\ Invoke(Empty)
  /\ UNCHANGED <<now, wakeAt, announced, ghostVars>>

Next ==
  \/ \E s \in Steps :
       \/ FastForward(s)
       \/ Call(s)
       \/ \E v \in Results : FnReturns(s, v)
       \/ FnThrows(s)
       \/ SleepBegins(s)
       \/ SleepEnds(s)
       \/ SleepGoesOn(s)
  \/ HandlerReturns
  \/ Tick
  \/ Resume
  \/ WakeUp
  \/ Die
  \/ Recover

Spec == Init /\ [][Next]_vars

(* Time passes, timers fire and continuations run; neither functions nor   *)
(* callers nor restarts are assumed to come.  Strong for the clock, since  *)
(* only its bound disables it while the handler runs.                      *)
Fairness ==
  /\ SF_vars(Tick)
  /\ WF_vars(WakeUp)
  /\ WF_vars(HandlerReturns)
  /\ \A s \in Steps :
       /\ WF_vars(FastForward(s))
       /\ WF_vars(Call(s))
       /\ WF_vars(SleepBegins(s))
       /\ WF_vars(SleepEnds(s))
       /\ WF_vars(SleepGoesOn(s))

FairSpec == Spec /\ Fairness

-----------------------------------------------------------------------------
(* Properties. *)

Events == [step : Steps, value : Values]
Histories == [Steps -> Values \cup {NoValue}]

(* Types of the variables. *)
TypeOK ==
  /\ now \in 0..MaxTime
  /\ history \in Histories
  /\ pos \in 0..NumSteps
  /\ phase \in Phases
  /\ wakeAt \in Times
  /\ announced \in Seq(Events)
  /\ given \in [Steps -> SUBSET Values]
  /\ calls \in [Steps -> Nat] /\ rejected \in [Steps -> Nat]
  /\ bedtime \in [Steps -> 0..MaxTime \cup {NoValue}]
  /\ crashes \in 0..MaxCrashes

(* A replay is faithful: in the life of a process no two invocations are   *)
(* given different results for a step, whatever failed, slept or was       *)
(* handed in again in between.  (DurableContext.run)                       *)
ReplayIsFaithful == \A s \in Steps : Cardinality(given[s]) <= 1

(* In the life of a process a step's function is called again only after   *)
(* it rejected: no replay repeats an effect.  (DurableContext.run)         *)
EffectsBounded == \A s \in Steps : calls[s] <= rejected[s] + 1

(* The handler never gets past a sleep before the duration has gone by     *)
(* since the sleep was begun, however early it is called again.            *)
(* (DurableContext.sleep)                                                  *)
SleepsLongEnough ==
  \A s \in SleepSteps : pos >= s => now >= bedtime[s] + Duration

(* In the life of a process no suspension, the first or a later one, asks  *)
(* for a wake-up after the time the sleep was to end: calling the handler  *)
(* too early does not make the sleep longer.  (DurableContext.sleep)       *)
NeverOversleeps ==
  \A s \in SleepSteps :
    (phase = "suspended" /\ pos = s - 1) => wakeAt <= bedtime[s] + Duration

(* The events tell of a journal: each step once, in program order, never   *)
(* revised.  Replays are invisible in it; only a death starts it over.     *)
(* (the two emits of DurableContext)                                       *)
Workflow == INSTANCE DurableWorkflow WITH journal <- announced, deaths <- crashes
ImplementsWorkflow == Workflow!Spec

(* No sleep lasts for ever: being called too early again and again puts    *)
(* off neither the timer nor the end of the sleep.  Always again the       *)
(* handler awaits a function, has ended, or its timer has fired.           *)
(* (DurableContext.sleep, the timer of scheduler.ts)                       *)
SleepsEnd == []<>(phase \notin {"ready", "suspended"})
=============================================================================
