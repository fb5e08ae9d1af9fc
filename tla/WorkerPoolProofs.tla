-------------------------- MODULE WorkerPoolProofs --------------------------
(***************************************************************************)
(* Proofs about WorkerPool, for every set of tasks, every concurrency,     *)
(* every number of restarts and every choice of throwing listeners.        *)
(***************************************************************************)
EXTENDS WorkerPool, FiniteSetTheorems, SequenceTheorems, TLAPS

-----------------------------------------------------------------------------
(* Facts about the queues. *)

(* Every entry the producers push is an entry a worker can take. *)
LEMMA EntryTypes ==
  ASSUME NEW t \in Tasks
  PROVE  /\ CreatedEntry(t) \in Entries
         /\ CronEntry(t) \in Entries
         /\ RecoveredEntry(t) \in Entries
         /\ StubEntry(t) \in Entries
BY DEF CreatedEntry, CronEntry, RecoveredEntry, StubEntry, Entries

(* Taking a suffix of a sequence leaves a sequence over the same set. *)
LEMMA SuffixType ==
  ASSUME NEW S, NEW q \in Seq(S), NEW k \in Nat
  PROVE  SubSeq(q, k + 1, Len(q)) \in Seq(S)
<1>1. \A i \in (k + 1)..Len(q) : q[i] \in S
  BY ElementOfSeq, LenProperties
<1>2. QED
  BY <1>1, SubSeqProperties, LenProperties

(* The rows recovered at boot become entries, one each. *)
LEMMA RecoveredEntriesType ==
  [i \in 1..Len(OrphanRows) |-> RecoveredEntry(OrphanRows[i])] \in Seq(Entries)
<1>1. Len(OrphanRows) \in Nat
  BY TasksAssumption, LenProperties
<1>2. \A i \in 1..Len(OrphanRows) : RecoveredEntry(OrphanRows[i]) \in Entries
  BY TasksAssumption, ElementOfSeq, EntryTypes
<1>3. QED
  BY <1>1, <1>2

(* Shifting k entries keeps both queues well typed. *)
LEMMA ShiftType ==
  ASSUME recoveringTasks \in Seq(Entries), executionQueue \in Seq(Entries),
         NEW k \in Nat, Shift(k)
  PROVE  /\ recoveringTasks' \in Seq(Entries)
         /\ executionQueue' \in Seq(Entries)
<1>1. << >> \in Seq(Entries)
  OBVIOUS
<1>2. CASE k <= Len(recoveringTasks)
  BY <1>2, SuffixType DEF Shift
<1>3. CASE ~(k <= Len(recoveringTasks))
  <2>1. k - Len(recoveringTasks) \in Nat
    BY <1>3, LenProperties
  <2>2. SubSeq(executionQueue, k - Len(recoveringTasks) + 1, Len(executionQueue))
          \in Seq(Entries)
    BY <2>1, SuffixType
  <2>3. QED
    BY <1>1, <1>3, <2>2 DEF Shift
<1>4. QED
  BY <1>2, <1>3

(* What bindQueuePop serves from is a sequence of entries. *)
LEMMA WaitingType ==
  ASSUME recoveringTasks \in Seq(Entries), executionQueue \in Seq(Entries)
  PROVE  /\ Waiting \in Seq(Entries)
         /\ Waiting # << >> => Head(Waiting) \in Entries
         /\ \A i \in 1..Len(Waiting) : Waiting[i] \in Entries
<1>1. Waiting \in Seq(Entries)
  BY ConcatProperties DEF Waiting
<1>2. QED
  BY <1>1, HeadTailProperties, ElementOfSeq

(* Logging further events keeps every log a sequence of events. *)
LEMMA EmitType ==
  ASSUME events \in [Tasks -> Seq(Events)], NEW t, NEW names \in Seq(Events),
         Emit(t, names)
  PROVE  events' \in [Tasks -> Seq(Events)]
<1>1. ASSUME NEW u \in Tasks PROVE events[u] \o names \in Seq(Events)
  BY ConcatProperties
<1>2. QED
  BY <1>1 DEF Emit

-----------------------------------------------------------------------------
(* Type correctness. *)

(* The states in which a loop has an entry in hand. *)
HoldingStates == {"pulled", "running", "losing", "settled"}

(* A loop holds an entry exactly in those states, so that the code between *)
(* the pull and the end of executeTask never runs without one.             *)
HoldingInv ==
  \A l \in Loops : item[l] # NoEntry <=> pc[l] \in HoldingStates

(* Loops of a start() still to come have not been spawned. *)
UnbornInv == \A l \in Loops : l[1] > generation => pc[l] = "none"

TInv == TypeOK /\ HoldingInv /\ UnbornInv

(* One turn of a loop keeps the loops and the queues well typed. *)
LEMMA IterateTyped ==
  ASSUME TInv, NEW l \in Loops, NEW n, Iterate(l, n),
         pc[l] # "none", UNCHANGED generation
  PROVE  /\ pc' \in [Loops -> LoopStates]
         /\ item' \in [Loops -> Entries \cup {NoEntry}]
         /\ recoveringTasks' \in Seq(Entries)
         /\ executionQueue' \in Seq(Entries)
         /\ HoldingInv' /\ UnbornInv'
<1> USE DEF TInv, TypeOK, HoldingInv, HoldingStates, LoopStates, UnbornInv
<1>1. CASE /\ pc' = [pc EXCEPT ![l] = "gone"]
           /\ item' = [item EXCEPT ![l] = NoEntry]
           /\ UNCHANGED queueVars
  BY <1>1 DEF queueVars
<1>2. CASE /\ pc' = [pc EXCEPT ![l] = "nap"]
           /\ item' = [item EXCEPT ![l] = NoEntry]
           /\ UNCHANGED queueVars
  BY <1>2 DEF queueVars
<1>3. CASE /\ Waiting # << >>
           /\ pc' = [pc EXCEPT ![l] = "pulled"]
           /\ item' = [item EXCEPT ![l] = Head(Waiting)]
           /\ Shift(1)
  <2>1. Head(Waiting) \in Entries /\ Head(Waiting) # NoEntry
    BY <1>3, WaitingType, NoEntryAssumption
  <2>2. recoveringTasks' \in Seq(Entries) /\ executionQueue' \in Seq(Entries)
    BY <1>3, ShiftType
  <2>3. QED
    BY <1>3, <2>1, <2>2
<1>4. QED
  BY <1>1, <1>2, <1>3 DEF Iterate

(* Dropping the entry or finishing with it keeps the loops well typed. *)
LEMMA AnswerTyped ==
  ASSUME TInv, NEW l \in Loops, pc[l] \in HoldingStates, UNCHANGED generation,
         NEW names \in Seq(Events), Answer(l, names)
  PROVE  /\ pc' \in [Loops -> LoopStates]
         /\ item' \in [Loops -> Entries \cup {NoEntry}]
         /\ events' \in [Tasks -> Seq(Events)]
         /\ leaked' \in Nat
         /\ HoldingInv' /\ UnbornInv'
<1> USE DEF TInv, TypeOK, HoldingInv, HoldingStates, LoopStates, UnbornInv
<1>1. events' \in [Tasks -> Seq(Events)]
  BY EmitType DEF Answer
<1>2. CASE pc' = [pc EXCEPT ![l] = "settled"] /\ UNCHANGED <<item, leaked>>
  BY <1>1, <1>2
<1>3. CASE Leak(l)
  BY <1>1, <1>3 DEF Leak
<1>4. QED
  BY <1>2, <1>3 DEF Answer

(* The same when the emit is inside the try.                             *)
LEMMA AnswerInTryTyped ==
  ASSUME TInv, NEW l \in Loops, pc[l] \in HoldingStates, UNCHANGED generation,
         NEW name \in Events, AnswerInTry(l, name)
  PROVE  /\ pc' \in [Loops -> LoopStates]
         /\ item' \in [Loops -> Entries \cup {NoEntry}]
         /\ events' \in [Tasks -> Seq(Events)]
         /\ leaked' \in Nat
         /\ HoldingInv' /\ UnbornInv'
<1>1. <<name>> \in Seq(Events) /\ <<name, "task:failed">> \in Seq(Events)
  BY DEF Events, Outcomes
<1>2. CASE Answer(l, <<name, "task:failed">>)
  BY <1>1, <1>2, AnswerTyped
<1>3. CASE /\ Emit(item[l].id, <<name>>)
           /\ pc' = [pc EXCEPT ![l] = "settled"]
           /\ UNCHANGED <<item, leaked>>
  BY <1>1, <1>3, EmitType
     DEF TInv, TypeOK, HoldingInv, HoldingStates, LoopStates, UnbornInv
<1>4. QED
  BY <1>2, <1>3 DEF AnswerInTry

(* The initial state is well typed.                                      *)
LEMMA TypedInit == Init => TInv
<1> SUFFICES ASSUME Init PROVE TInv
  OBVIOUS
<1>1. TypeOK
  <2>1. pc \in [Loops -> LoopStates] /\ item \in [Loops -> Entries \cup {NoEntry}]
    BY DEF Init, LoopStates
  <2>2. events \in [Tasks -> Seq(Events)]
    BY DEF Init
  <2>3. recoveringTasks \in Seq(Entries) /\ executionQueue \in Seq(Entries)
    BY DEF Init
  <2>4. /\ isRunning \in BOOLEAN /\ handlerReady \in BOOLEAN
        /\ timers \subseteq Tasks /\ submitted \subseteq Tasks
    BY DEF Init
  <2>5. /\ activeWorkers \in Int /\ generation \in 0..MaxStarts
        /\ stops \in Nat /\ leaked \in Nat
    BY StartsAssumption DEF Init
  <2>6. QED
    BY <2>1, <2>2, <2>3, <2>4, <2>5 DEF TypeOK
<1>2. HoldingInv
  BY DEF Init, HoldingInv, HoldingStates
<1>3. UnbornInv
  BY DEF Init, UnbornInv
<1>4. QED
  BY <1>1, <1>2, <1>3 DEF TInv

(* The loops start() spawns hold what they pulled before it returned. *)
LEMMA StartTyped == TInv /\ Start => TInv'
<1> SUFFICES ASSUME TInv, Start PROVE TInv'
  OBVIOUS
<1> USE DEF TInv, TypeOK, HoldingInv, HoldingStates, LoopStates, UnbornInv
<1>1. Concurrency \in Nat /\ MaxStarts \in Nat
  BY ConcurrencyAssumption, StartsAssumption
<1>2. recoveringTasks' \in Seq(Entries) /\ executionQueue' \in Seq(Entries)
  BY <1>1, ShiftType DEF Start, queueVars
<1>3. generation' \in 0..MaxStarts /\ isRunning' \in BOOLEAN
  BY <1>1 DEF Start
<1>4. ASSUME NEW l \in Loops
      PROVE  /\ pc'[l] \in LoopStates
             /\ item'[l] \in Entries \cup {NoEntry}
             /\ l[1] # generation + 1 => pc'[l] = pc[l] /\ item'[l] = item[l]
  <2>1. l[2] \in Nat \ {0}
    BY <1>1 DEF Loops
  <2>2. l[2] <= Len(Waiting) => Waiting[l[2]] \in Entries
    BY <2>1, WaitingType, LenProperties
  <2>3. QED
    BY <2>2 DEF Start
<1>5. ASSUME NEW l \in Loops
      PROVE  item'[l] # NoEntry <=> pc'[l] \in HoldingStates
  <2> generation + 1 > generation
    BY <1>1
  <2>1. l[2] \in Nat \ {0}
    BY <1>1 DEF Loops
  <2>2. l[2] <= Len(Waiting) => Waiting[l[2]] \in Entries
    BY <2>1, WaitingType, LenProperties
  <2>3. QED
    BY <1>4, <2>2, NoEntryAssumption DEF Start
<1>6. /\ pc' \in [Loops -> LoopStates]
      /\ item' \in [Loops -> Entries \cup {NoEntry}]
  BY <1>4 DEF Start
<1>7. UnbornInv'
  <2>1. ASSUME NEW l \in Loops, l[1] > generation + 1
        PROVE  l[1] > generation /\ l[1] # generation + 1
    BY <1>1, <2>1 DEF Loops
  <2>2. QED
    BY <1>3, <1>4, <2>1 DEF Start
<1>8. QED
  BY <1>2, <1>3, <1>5, <1>6, <1>7 DEF Start

(* Every other step. *)
LEMMA LoopStepTyped ==
  ASSUME TInv, NEW l \in Loops, LoopStep(l)
  PROVE  TInv'
<1>1. CASE Wake(l)
  <2>1. pc[l] # "none" /\ UNCHANGED generation /\ Iterate(l, activeWorkers)
    BY <1>1 DEF Wake
  <2>2. QED
    BY <1>1, <2>1, IterateTyped DEF Wake, TInv, TypeOK
<1>2. CASE Begin(l)
  <2> USE DEF TInv, TypeOK, HoldingInv, HoldingStates, LoopStates, UnbornInv
  <2>1. <<"task:started">> \in Seq(Events)
    BY DEF Events
  <2>2. events' \in [Tasks -> Seq(Events)]
    BY <1>2, <2>1, EmitType DEF Begin
  <2>3. /\ pc' \in [Loops -> LoopStates]
        /\ item' \in [Loops -> Entries \cup {NoEntry}]
        /\ leaked' \in Nat
        /\ HoldingInv' /\ UnbornInv'
    <3>1. CASE Leak(l)
      BY <1>2, <3>1 DEF Begin, Leak
    <3>2. CASE /\ pc' = [pc EXCEPT ![l] = IF HasFrame(item[l]) THEN "running"
                                                              ELSE "losing"]
               /\ UNCHANGED <<item, leaked>>
      <4>1. PICK s \in {"running", "losing"} : pc' = [pc EXCEPT ![l] = s]
        BY <3>2
      <4>2. QED
        BY <1>2, <3>2, <4>1 DEF Begin
    <3>3. QED
      BY <1>2, <3>1, <3>2 DEF Begin
  <2>4. /\ activeWorkers' \in Int
        /\ UNCHANGED <<isRunning, handlerReady, queueVars, timers, submitted,
                       generation, stops>>
    BY <1>2 DEF Begin
  <2>6. QED
    BY <2>2, <2>3, <2>4 DEF queueVars
<1>3. ASSUME NEW names \in Seq(Events), NEW from \in HoldingStates,
             Settle(l, from), Answer(l, names), timers' \subseteq Tasks
      PROVE  TInv'
  <2>1. pc[l] \in HoldingStates /\ UNCHANGED generation
    BY <1>3 DEF Settle
  <2>2. QED
    BY <1>3, <2>1, AnswerTyped DEF Settle, TInv, TypeOK, queueVars
<1>4. ASSUME NEW name \in Events, NEW from \in HoldingStates,
             Settle(l, from), AnswerInTry(l, name), UNCHANGED timers
      PROVE  TInv'
  <2>1. pc[l] \in HoldingStates /\ UNCHANGED generation
    BY <1>4 DEF Settle
  <2>2. QED
    BY <1>4, <2>1, AnswerInTryTyped DEF Settle, TInv, TypeOK, queueVars
<1>5. "running" \in HoldingStates /\ "losing" \in HoldingStates
  BY DEF HoldingStates
<1>6. /\ "task:resumed" \in Events /\ "task:failed" \in Events
      /\ <<"task:failed">> \in Seq(Events) /\ <<"task:suspended">> \in Seq(Events)
  BY DEF Events, Outcomes
<1>7. timers \subseteq Tasks
  BY DEF TInv, TypeOK
<1>8. CASE Resolve(l)
  BY <1>4, <1>5, <1>6, <1>8 DEF Resolve
<1>9. CASE Reject(l) \/ TimeOut(l)
  BY <1>3, <1>5, <1>6, <1>7, <1>9 DEF Reject, TimeOut
<1>10. CASE Suspend(l)
  <2>1. item[l] \in Entries
    BY <1>10 DEF Suspend, Settle, TInv, TypeOK, HoldingInv, HoldingStates
  <2>2. timers' \subseteq Tasks
    BY <1>7, <1>10, <2>1 DEF Suspend, Entries
  <2>3. QED
    BY <1>3, <1>5, <1>6, <1>10, <2>2 DEF Suspend
<1>11. CASE LoseContext(l)
  BY <1>4, <1>5, <1>6, <1>11 DEF LoseContext
<1>12. CASE Release(l)
  <2>1. /\ pc[l] # "none" /\ UNCHANGED generation
        /\ Iterate(l, SlotReturned(activeWorkers))
    BY <1>12 DEF Release
  <2>2. activeWorkers' \in Int
    BY <1>12 DEF Release, SlotReturned, TInv, TypeOK
  <2>3. QED
    BY <1>12, <2>1, <2>2, IterateTyped DEF Release, TInv, TypeOK
<1>13. QED
  BY <1>1, <1>2, <1>8, <1>9, <1>10, <1>11, <1>12 DEF LoopStep

(* What feeds the queues keeps the types.                                *)
LEMMA ProducersTyped ==
  ASSUME TInv,
         \/ Recover \/ RegisterIntentHandler \/ Stop
         \/ \E t \in Tasks : CreateTask(t) \/ ScheduleTask(t) \/ TimerFires(t)
  PROVE  TInv'
<1> USE DEF TInv, TypeOK, HoldingInv, UnbornInv, loopVars, queueVars
<1>1. CASE Recover
  <2>1. recoveringTasks' \in Seq(Entries)
    BY <1>1, RecoveredEntriesType, ConcatProperties DEF Recover
  <2>2. submitted' \subseteq Tasks
    BY <1>1, TasksAssumption, ElementOfSeq DEF Recover, Orphans
  <2>3. QED
    BY <1>1, <2>1, <2>2 DEF Recover
<1>2. CASE RegisterIntentHandler
  BY <1>2 DEF RegisterIntentHandler
<1>3. CASE Stop
  <2>1. /\ stops' = stops + 1 /\ isRunning' = FALSE
        /\ UNCHANGED <<activeWorkers, handlerReady, queueVars, timers, loopVars,
                       submitted, generation, leaked, events>>
    BY <1>3 DEF Stop
  <2>2. stops' \in Nat
    BY <2>1
  <2>3. QED
    BY <2>1, <2>2
<1>4. ASSUME NEW t \in Tasks, NEW entry \in Entries, Enqueue(entry)
      PROVE  TInv'
  <2>1. executionQueue' \in Seq(Entries)
    BY <1>4, AppendProperties DEF Enqueue
  <2>2. submitted' \subseteq Tasks
    BY <1>4 DEF Enqueue, Entries
  <2>3. QED
    BY <1>4, <2>1, <2>2 DEF Enqueue
<1>5. ASSUME NEW t \in Tasks, CreateTask(t) \/ ScheduleTask(t)
      PROVE  TInv'
  BY <1>4, <1>5, EntryTypes DEF CreateTask, ScheduleTask
<1>6. ASSUME NEW t \in Tasks, TimerFires(t)
      PROVE  TInv'
  <2>1. executionQueue' \in Seq(Entries)
    BY <1>6, EntryTypes, AppendProperties DEF TimerFires
  <2>2. QED
    BY <1>6, <2>1 DEF TimerFires
<1>7. QED
  BY <1>1, <1>2, <1>3, <1>5, <1>6

(* Every state of the pool is well typed, and a loop works on an entry     *)
(* exactly between pulling it and finishing with it.                       *)
THEOREM TypeCorrect == Spec => [](TypeOK /\ HoldingInv /\ UnbornInv)
<1>1. TInv /\ [Next]_vars => TInv'
  <2> SUFFICES ASSUME TInv, [Next]_vars PROVE TInv'
    OBVIOUS
  <2>1. CASE UNCHANGED vars
    BY <2>1 DEF vars, queueVars, loopVars, TInv, TypeOK, HoldingInv, UnbornInv
  <2>2. CASE Next
    BY <2>2, LoopStepTyped, ProducersTyped, StartTyped DEF Next
  <2>3. QED
    BY <2>1, <2>2
<1>2. QED
  BY TypedInit, <1>1, PTL DEF Spec, TInv

-----------------------------------------------------------------------------
(* The counter and the concurrency bound. *)

(* There are finitely many loops, so they can be counted.                *)
LEMMA LoopsFinite == IsFiniteSet(Loops)
<1>1. IsFiniteSet(1..MaxStarts) /\ IsFiniteSet(1..Concurrency)
  BY StartsAssumption, ConcurrencyAssumption, FS_Interval
<1>2. QED
  BY <1>1, FS_Product DEF Loops

(* And finitely many of them execute.                                    *)
LEMMA ExecutingFinite ==
  IsFiniteSet(Executing) /\ Cardinality(Executing) \in Nat
BY LoopsFinite, FS_Subset, FS_CardinalityType DEF Executing

(* A loop that starts executing adds one execution, one that stops takes   *)
(* one away, and any other step of a loop leaves their number alone.       *)
ExecutingStates == {"running", "losing", "settled"}

(* A loop that begins to execute adds one to the count.                  *)
LEMMA LoopEnters ==
  ASSUME pc \in [Loops -> LoopStates], NEW l \in Loops, l \notin Executing,
         NEW s \in ExecutingStates, pc' = [pc EXCEPT ![l] = s]
  PROVE  Cardinality(Executing') = Cardinality(Executing) + 1
<1>1. Executing' = Executing \cup {l}
  BY DEF Executing, ExecutingStates
<1>2. QED
  BY <1>1, ExecutingFinite, FS_AddElement

(* A loop that ends its execution takes one from the count.              *)
LEMMA LoopLeaves ==
  ASSUME pc \in [Loops -> LoopStates], NEW l \in Loops, l \in Executing,
         NEW s \in LoopStates \ ExecutingStates, pc' = [pc EXCEPT ![l] = s]
  PROVE  Cardinality(Executing') = Cardinality(Executing) - 1
<1>1. Executing' = Executing \ {l}
  BY DEF Executing, ExecutingStates
<1>2. QED
  BY <1>1, ExecutingFinite, FS_RemoveElement

(* A loop that is on the same side before and after leaves the count.    *)
LEMMA LoopStays ==
  ASSUME pc \in [Loops -> LoopStates], NEW l \in Loops, NEW s \in LoopStates,
         l \in Executing <=> s \in ExecutingStates, pc' = [pc EXCEPT ![l] = s]
  PROVE  Executing' = Executing
BY DEF Executing, ExecutingStates

(* Nothing executes and nothing is counted at first.                     *)
LEMMA CounterInit == Init => CounterMatches
<1> SUFFICES ASSUME Init PROVE CounterMatches
  OBVIOUS
<1>1. Executing = {}
  BY DEF Init, Executing
<1>2. QED
  BY <1>1, FS_EmptySet DEF Init, CounterMatches

(* Every step moves the counter as it moves the count.                   *)
LEMMA CounterStep ==
  ASSUME TInv, CounterMatches, [Next]_vars
  PROVE  CounterMatches'
<1> USE DEF CounterMatches
<1>1. /\ pc \in [Loops -> LoopStates] /\ activeWorkers \in Int /\ leaked \in Nat
      /\ Cardinality(Executing) \in Nat
  BY ExecutingFinite DEF TInv, TypeOK
<1>2. ASSUME UNCHANGED <<pc, activeWorkers, leaked>>
      PROVE  CounterMatches'
  BY <1>2 DEF Executing
<1>3. CASE Start
  <2>1. ASSUME NEW l \in Loops
        PROVE  l \in Executing' <=> l \in Executing
    <3>1. CASE l[1] = generation + 1
      <4>1. pc[l] = "none"
        BY <3>1 DEF TInv, TypeOK, UnbornInv
      <4>2. pc'[l] \in {"pulled", "nap"}
        BY <1>3, <3>1 DEF Start
      <4>3. QED
        BY <4>1, <4>2 DEF Executing
    <3>2. CASE l[1] # generation + 1
      BY <1>3, <3>2 DEF Start, Executing
    <3>3. QED
      BY <3>1, <3>2
  <2>2. Executing' = Executing
    BY <2>1 DEF Executing
  <2>3. QED
    BY <1>3, <2>2 DEF Start
<1>4. ASSUME NEW l \in Loops, NEW n, Iterate(l, n)
      PROVE  \E s \in LoopStates \ ExecutingStates : pc' = [pc EXCEPT ![l] = s]
  BY <1>4 DEF Iterate, LoopStates, ExecutingStates
<1>5. ASSUME NEW l \in Loops, l \in Executing, Leak(l), UNCHANGED activeWorkers
      PROVE  CounterMatches'
  <2>1. Cardinality(Executing') = Cardinality(Executing) - 1
    BY <1>1, <1>5, LoopLeaves DEF Leak, LoopStates, ExecutingStates
  <2>2. leaked' = leaked + 1
    BY <1>5 DEF Leak
  <2>3. QED
    BY <1>1, <1>5, <2>1, <2>2
<1>6. ASSUME NEW l \in Loops, l \in Executing, pc' = [pc EXCEPT ![l] = "settled"],
             UNCHANGED <<activeWorkers, leaked>>
      PROVE  CounterMatches'
  <2>1. Executing' = Executing
    BY <1>1, <1>6, LoopStays DEF LoopStates, ExecutingStates
  <2>2. QED
    BY <1>6, <2>1
<1>7. ASSUME NEW l \in Loops, Wake(l)
      PROVE  CounterMatches'
  <2>1. l \notin Executing
    BY <1>7 DEF Wake, Executing
  <2>2. PICK s \in LoopStates \ ExecutingStates : pc' = [pc EXCEPT ![l] = s]
    BY <1>4, <1>7 DEF Wake
  <2>3. Executing' = Executing
    BY <1>1, <2>1, <2>2, LoopStays
  <2>4. QED
    BY <1>7, <2>3 DEF Wake
<1>8. ASSUME NEW l \in Loops, Begin(l)
      PROVE  CounterMatches'
  <2>1. l \notin Executing /\ activeWorkers' = activeWorkers + 1
    BY <1>8 DEF Begin, Executing
  <2>2. CASE Leak(l)
    <3>1. Executing' = Executing
      BY <1>1, <2>1, <2>2, LoopStays DEF Leak, LoopStates, ExecutingStates
    <3>2. QED
      BY <1>1, <2>1, <2>2, <3>1 DEF Leak
  <2>3. CASE /\ pc' = [pc EXCEPT ![l] = IF HasFrame(item[l]) THEN "running"
                                                            ELSE "losing"]
             /\ UNCHANGED <<item, leaked>>
    <3>1. PICK s \in ExecutingStates : pc' = [pc EXCEPT ![l] = s]
      BY <2>3 DEF ExecutingStates
    <3>2. Cardinality(Executing') = Cardinality(Executing) + 1
      BY <1>1, <2>1, <3>1, LoopEnters
    <3>3. QED
      BY <1>1, <2>1, <2>3, <3>2
  <2>4. QED
    BY <1>8, <2>2, <2>3 DEF Begin
<1>9. ASSUME NEW l \in Loops,
             \/ Resolve(l) \/ Reject(l) \/ TimeOut(l)
             \/ Suspend(l) \/ LoseContext(l)
      PROVE  CounterMatches'
  <2>1. l \in Executing /\ UNCHANGED activeWorkers
    BY <1>9 DEF Resolve, Reject, TimeOut, Suspend, LoseContext, Settle, Executing
  <2>2. \/ pc' = [pc EXCEPT ![l] = "settled"] /\ UNCHANGED leaked
        \/ Leak(l)
    BY <1>9 DEF Resolve, Reject, TimeOut, Suspend, LoseContext, AnswerInTry, Answer
  <2>3. QED
    BY <1>5, <1>6, <2>1, <2>2
<1>10. ASSUME NEW l \in Loops, Release(l)
       PROVE  CounterMatches'
  <2>1. PICK s \in LoopStates \ ExecutingStates : pc' = [pc EXCEPT ![l] = s]
    BY <1>4, <1>10 DEF Release
  <2>2. /\ l \in Executing /\ activeWorkers' = activeWorkers - 1
        /\ leaked' = leaked
    BY <1>10 DEF Release, SlotReturned, Executing
  <2>3. Cardinality(Executing') = Cardinality(Executing) - 1
    BY <1>1, <2>1, <2>2, LoopLeaves
  <2>4. QED
    BY <1>1, <2>2, <2>3
<1>11. ASSUME \/ Recover \/ RegisterIntentHandler \/ Stop \/ UNCHANGED vars
              \/ \E t \in Tasks : CreateTask(t) \/ ScheduleTask(t) \/ TimerFires(t)
       PROVE  CounterMatches'
  BY <1>2, <1>11 DEF Recover, RegisterIntentHandler, Stop, CreateTask,
     ScheduleTask, Enqueue, TimerFires, loopVars, vars
<1>12. QED
  BY <1>3, <1>7, <1>8, <1>9, <1>10, <1>11 DEF Next, LoopStep

(* The counter the concurrency guard reads is the number of executions in  *)
(* progress plus those a throwing listener cut short, in every             *)
(* interleaving of loops, restarts and listeners.                          *)
THEOREM CounterCorrect == Spec => []CounterMatches
<1>1. TInv /\ CounterMatches /\ [Next]_vars => CounterMatches'
  BY CounterStep
<1>2. Spec => []TInv
  BY TypeCorrect DEF TInv
<1>3. QED
  BY CounterInit, <1>1, <1>2, PTL DEF Spec

(* Each effective start() needs a stop() before the next. *)
StartsInv == generation <= stops + (IF isRunning THEN 1 ELSE 0)

(* Only stop() clears the flag, and start() needs it cleared.            *)
LEMMA StartsCorrect == Spec => []StartsInv
<1>1. Init => StartsInv
  BY DEF Init, StartsInv
<1>2. TInv /\ StartsInv /\ [Next]_vars => StartsInv'
  <2> SUFFICES ASSUME TInv, StartsInv, [Next]_vars PROVE StartsInv'
    OBVIOUS
  <2>1. generation \in Int /\ stops \in Int /\ isRunning \in BOOLEAN
    BY StartsAssumption DEF TInv, TypeOK
  <2>2. CASE Start
    BY <2>1, <2>2 DEF Start, MayStart, StartsInv
  <2>3. CASE Stop
    BY <2>1, <2>3 DEF Stop, StartsInv
  <2>4. CASE UNCHANGED <<generation, stops, isRunning>>
    BY <2>4 DEF StartsInv
  <2>5. ASSUME NEW l \in Loops, LoopStep(l)
        PROVE  UNCHANGED <<generation, stops, isRunning>>
    BY <2>5 DEF LoopStep, Wake, Begin, Resolve, Reject, TimeOut, Suspend,
       LoseContext, Release, Settle
  <2>6. ASSUME \/ Recover \/ RegisterIntentHandler \/ UNCHANGED vars
               \/ \E t \in Tasks : CreateTask(t) \/ ScheduleTask(t) \/ TimerFires(t)
        PROVE  UNCHANGED <<generation, stops, isRunning>>
    BY <2>6 DEF Recover, RegisterIntentHandler, CreateTask, ScheduleTask,
       Enqueue, TimerFires, vars
  <2>7. QED
    BY <2>2, <2>3, <2>4, <2>5, <2>6 DEF Next
<1>3. Spec => []TInv
  BY TypeCorrect DEF TInv
<1>4. QED
  BY <1>1, <1>2, <1>3, PTL DEF Spec

(* The loops that execute were spawned by the starts so far, Concurrency   *)
(* of them by each.                                                        *)
LEMMA ExecutingBound ==
  ASSUME TInv
  PROVE  Cardinality(Executing) <= generation * Concurrency
<1> DEFINE Spawned == (1..generation) \X (1..Concurrency)
<1>1. generation \in Nat
  BY StartsAssumption DEF TInv, TypeOK
<1>2. Executing \subseteq Spawned
  <2> SUFFICES ASSUME NEW l \in Executing PROVE l \in Spawned
    OBVIOUS
  <2>1. l \in Loops /\ pc[l] # "none"
    BY DEF Executing
  <2>2. ~(l[1] > generation)
    BY <2>1 DEF TInv, UnbornInv
  <2>3. l[1] \in 1..MaxStarts /\ l[2] \in 1..Concurrency /\ l = <<l[1], l[2]>>
    BY <2>1 DEF Loops
  <2>4. l[1] \in 1..generation
    BY <1>1, <2>2, <2>3, StartsAssumption
  <2> QED
    BY <2>3, <2>4
<1>3. IsFiniteSet(1..generation) /\ Cardinality(1..generation) = generation
  BY <1>1, FS_Interval
<1>4. IsFiniteSet(1..Concurrency) /\ Cardinality(1..Concurrency) = Concurrency
  BY ConcurrencyAssumption, FS_Interval
<1>5. /\ IsFiniteSet(Spawned)
      /\ Cardinality(Spawned) = Cardinality(1..generation) * Cardinality(1..Concurrency)
  BY <1>3, <1>4, FS_Product
<1>6. Cardinality(Spawned) = generation * Concurrency
  BY <1>3, <1>4, <1>5
<1>7. Cardinality(Executing) <= Cardinality(Spawned)
  BY <1>2, <1>5, FS_Subset
<1> QED
  BY <1>6, <1>7

(* A pool that was never stopped never runs more than Concurrency tasks    *)
(* at a time: all its loops come from one start().                         *)
THEOREM CapacityBounded == Spec => []CapacityBound
<1>1. TInv /\ StartsInv => CapacityBound
  <2> SUFFICES ASSUME TInv, StartsInv, stops = 0
               PROVE  Cardinality(Executing) <= Concurrency
    BY DEF CapacityBound
  <2>1. generation = 0 \/ generation = 1
    BY StartsAssumption DEF StartsInv, TInv, TypeOK
  <2>2. generation * Concurrency <= Concurrency
    BY <2>1, ConcurrencyAssumption
  <2>3. Cardinality(Executing) \in Nat
    BY ExecutingFinite, FS_CardinalityType
  <2> HIDE DEF TInv, StartsInv
  <2>4. QED
    BY <2>1, <2>2, <2>3, ExecutingBound, ConcurrencyAssumption
<1>2. Spec => []TInv
  BY TypeCorrect DEF TInv
<1>3. QED
  BY <1>1, <1>2, StartsCorrect, PTL

(* What is left of the limit once the pool has been stopped and started:   *)
(* loops that outlive their stop() (WorkerPool.ts:69) go on beside the     *)
(* new ones, so each restart can add Concurrency tasks, and no more.       *)
CapacityWithRestarts == Cardinality(Executing) <= (stops + 1) * Concurrency

THEOREM RestartsAddCapacity == Spec => []CapacityWithRestarts
<1>1. TInv /\ StartsInv => CapacityWithRestarts
  <2> SUFFICES ASSUME TInv, StartsInv
               PROVE  Cardinality(Executing) <= (stops + 1) * Concurrency
    BY DEF CapacityWithRestarts
  <2>1. generation \in Nat /\ stops \in Nat /\ generation <= stops + 1
    BY StartsAssumption DEF StartsInv, TInv, TypeOK
  <2>2. \A m, n \in Nat : m <= n => m * Concurrency <= n * Concurrency
    BY ConcurrencyAssumption, SMTT(30)
  <2>3. generation * Concurrency <= (stops + 1) * Concurrency
    BY <2>1, <2>2
  <2>4. /\ Cardinality(Executing) \in Nat
        /\ generation * Concurrency \in Nat
        /\ (stops + 1) * Concurrency \in Nat
    BY <2>1, ConcurrencyAssumption, ExecutingFinite, FS_CardinalityType
  <2>5. QED
    BY <2>3, <2>4, ExecutingBound
<1>2. Spec => []TInv
  BY TypeCorrect DEF TInv
<1>3. QED
  BY <1>1, <1>2, StartsCorrect, PTL

-----------------------------------------------------------------------------
(* Recovered tasks go first. *)

(* Only orphans of the last run wait in recoveringTasks. *)
OrphansInv ==
  \A i \in 1..Len(recoveringTasks) : recoveringTasks[i].id \in Orphans

(* A shift leaves a tail of the recovered entries.                       *)
LEMMA ShiftRecovering ==
  ASSUME TInv, OrphansInv, NEW k \in Nat, Shift(k)
  PROVE  OrphansInv'
<1> DEFINE r == recoveringTasks
<1>1. r \in Seq(Entries) /\ Len(r) \in Nat
  BY LenProperties DEF TInv, TypeOK
<1>2. CASE k <= Len(r)
  <2>1. r' = SubSeq(r, k + 1, Len(r))
    BY <1>2 DEF Shift
  <2>2. \A i \in (k + 1)..Len(r) : r[i] \in Entries
    BY <1>1, ElementOfSeq
  <2>3. /\ Len(r') = Len(r) - k
        /\ \A i \in 1..(Len(r) - k) : r'[i] = r[k + i]
    BY <1>1, <1>2, <2>1, <2>2, SubSeqProperties
  <2>4. SUFFICES ASSUME NEW i \in 1..Len(r') PROVE r'[i].id \in Orphans
    BY DEF OrphansInv, Orphans
  <2>5. i \in 1..(Len(r) - k) /\ k + i \in 1..Len(r)
    BY <1>1, <2>3
  <2>6. QED
    BY <2>3, <2>5 DEF OrphansInv
<1>3. CASE ~(k <= Len(r))
  <2>1. r' = << >>
    BY <1>3 DEF Shift
  <2>2. QED
    BY <2>1 DEF OrphansInv
<1>4. QED
  BY <1>2, <1>3

(* The recovery queue holds orphans only, whatever is pulled from it.    *)
LEMMA OrphansStep ==
  ASSUME TInv, OrphansInv, [Next]_vars
  PROVE  OrphansInv'
<1>1. ASSUME UNCHANGED recoveringTasks PROVE OrphansInv'
  BY <1>1 DEF OrphansInv, Orphans
<1>2. CASE Recover
  <2> DEFINE new == [i \in 1..Len(OrphanRows) |-> RecoveredEntry(OrphanRows[i])]
  <2>1. /\ new \in Seq(Entries) /\ recoveringTasks \in Seq(Entries)
        /\ Len(OrphanRows) \in Nat
    BY RecoveredEntriesType, TasksAssumption, LenProperties DEF TInv, TypeOK
  <2>2. Len(new) = Len(OrphanRows) /\ Len(recoveringTasks) \in Nat
    BY <2>1, LenProperties
  <2>3. \A i \in 1..Len(new) : new[i].id \in Orphans
    BY <2>2 DEF RecoveredEntry, Orphans
  <2>4. recoveringTasks' = recoveringTasks \o new
    BY <1>2 DEF Recover
  <2> HIDE DEF new
  <2>5. /\ Len(recoveringTasks') = Len(recoveringTasks) + Len(new)
        /\ \A i \in 1..(Len(recoveringTasks) + Len(new)) :
             recoveringTasks'[i] = IF i <= Len(recoveringTasks)
                                   THEN recoveringTasks[i]
                                   ELSE new[i - Len(recoveringTasks)]
    BY <2>1, <2>4, ConcatProperties
  <2> SUFFICES ASSUME NEW i \in 1..Len(recoveringTasks')
               PROVE  recoveringTasks'[i].id \in Orphans
    BY DEF OrphansInv, Orphans
  <2>6. CASE i <= Len(recoveringTasks)
    BY <2>2, <2>5, <2>6 DEF OrphansInv
  <2>7. CASE ~(i <= Len(recoveringTasks))
    <3>1. i - Len(recoveringTasks) \in 1..Len(new)
      BY <2>1, <2>2, <2>5, <2>7
    <3>2. QED
      BY <2>3, <2>5, <2>7, <3>1
  <2>8. QED
    BY <2>6, <2>7
<1>3. CASE Start
  BY <1>1, <1>3, ShiftRecovering, ConcurrencyAssumption DEF Start, queueVars
<1>4. ASSUME NEW l \in Loops, NEW n, Iterate(l, n) PROVE OrphansInv'
  BY <1>1, <1>4, ShiftRecovering DEF Iterate, queueVars
<1>5. ASSUME NEW l \in Loops, LoopStep(l) PROVE OrphansInv'
  <2>1. CASE Wake(l) \/ Release(l)
    BY <1>4, <2>1 DEF Wake, Release
  <2>2. CASE \/ Begin(l) \/ Resolve(l) \/ Reject(l) \/ TimeOut(l)
             \/ Suspend(l) \/ LoseContext(l)
    BY <1>1, <2>2 DEF Begin, Resolve, Reject, TimeOut, Suspend, LoseContext,
       Settle, queueVars
  <2>3. QED
    BY <1>5, <2>1, <2>2 DEF LoopStep
<1>6. ASSUME \/ RegisterIntentHandler \/ Stop \/ UNCHANGED vars
             \/ \E t \in Tasks : CreateTask(t) \/ ScheduleTask(t) \/ TimerFires(t)
      PROVE  OrphansInv'
  BY <1>1, <1>6 DEF RegisterIntentHandler, Stop, CreateTask, ScheduleTask,
     Enqueue, TimerFires, queueVars, vars
<1>7. QED
  BY <1>2, <1>3, <1>5, <1>6 DEF Next

(* A loop that pulls an ordinary task leaves no recovered one behind.     *)
LEMMA PullsRecoveredFirst ==
  ASSUME TInv, OrphansInv, [Next]_vars, NEW l \in Loops,
         pc'[l] = "pulled", pc[l] # "pulled", item'[l].id \notin Orphans,
         NEW i \in 1..Len(recoveringTasks)
  PROVE  \E m \in Loops : item'[m] = recoveringTasks[i]
<1>1. pc \in [Loops -> LoopStates] /\ item \in [Loops -> Entries \cup {NoEntry}]
  BY DEF TInv, TypeOK
<1>2. /\ recoveringTasks \in Seq(Entries) /\ executionQueue \in Seq(Entries)
      /\ Concurrency \in Nat
      /\ Len(recoveringTasks) \in Nat /\ Len(executionQueue) \in Nat
  BY ConcurrencyAssumption, LenProperties DEF TInv, TypeOK
<1>3. /\ Len(Waiting) = Len(recoveringTasks) + Len(executionQueue)
      /\ \A j \in 1..Len(recoveringTasks) :
           Waiting[j] = recoveringTasks[j] /\ Waiting[j].id \in Orphans
  BY <1>2, ConcatProperties DEF Waiting, OrphansInv
<1>4. CASE Start
  <2>1. l[1] = generation + 1 /\ HasSlot(activeWorkers) /\ item'[l] = Waiting[l[2]]
    BY <1>4 DEF Start
  <2>2. l[1] \in 1..MaxStarts /\ l[2] \in 1..Concurrency
    BY DEF Loops
  <2>3. i \in 1..Concurrency /\ i <= Len(Waiting)
    BY <1>2, <1>3, <2>1, <2>2
  <2> DEFINE m == <<generation + 1, i>>
  <2>4. m \in Loops
    BY <2>1, <2>2, <2>3 DEF Loops
  <2>5. item'[m] = Waiting[i]
    BY <1>1, <1>4, <2>1, <2>3, <2>4 DEF Start
  <2>6. QED
    BY <1>3, <2>4, <2>5
<1>5. ASSUME NEW k \in Loops, NEW n, Iterate(k, n)
      PROVE  FALSE
  <2>1. k = l
    BY <1>1, <1>5 DEF Iterate
  <2>2. Waiting # << >> /\ item'[l] = Head(Waiting)
    BY <1>1, <1>5, <2>1 DEF Iterate
  <2>3. Head(Waiting) = Waiting[1]
    BY <1>2, <2>2, WaitingType
  <2>4. 1 \in 1..Len(recoveringTasks)
    BY <1>2
  <2>5. QED
    BY <1>3, <2>2, <2>3, <2>4
<1>6. ASSUME NEW k \in Loops, LoopStep(k)
      PROVE  FALSE
  <2>1. CASE Wake(k) \/ Release(k)
    BY <1>5, <2>1 DEF Wake, Release
  <2>2. CASE Begin(k)
    BY <1>1, <2>2 DEF Begin, Leak
  <2>3. CASE \/ Resolve(k) \/ Reject(k) \/ TimeOut(k)
             \/ Suspend(k) \/ LoseContext(k)
    <3>1. pc' = [pc EXCEPT ![k] = "settled"] \/ pc' = [pc EXCEPT ![k] = "nap"]
      BY <2>3 DEF Resolve, Reject, TimeOut, Suspend, LoseContext, AnswerInTry,
         Answer, Leak
    <3>2. QED
      BY <1>1, <3>1
  <2>4. QED
    BY <1>6, <2>1, <2>2, <2>3 DEF LoopStep
<1>7. ASSUME \/ Recover \/ RegisterIntentHandler \/ Stop \/ UNCHANGED vars
             \/ \E t \in Tasks : CreateTask(t) \/ ScheduleTask(t) \/ TimerFires(t)
      PROVE  UNCHANGED pc
  BY <1>7 DEF Recover, RegisterIntentHandler, Stop, CreateTask, ScheduleTask,
     Enqueue, TimerFires, loopVars, vars
<1>8. QED
  BY <1>4, <1>6, <1>7 DEF Next

(* As long as a recovered task waits, no loop goes off with an ordinary    *)
(* one: for any number of orphans, loops and restarts.                     *)
THEOREM RecoveredGoFirst == Spec => RecoveredFirst
<1>1. Init => OrphansInv
  BY DEF Init, OrphansInv
<1>2. TInv /\ OrphansInv /\ [Next]_vars => OrphansInv'
  BY OrphansStep
<1>3. TInv /\ OrphansInv /\ [Next]_vars
        => [\A l \in Loops :
              (pc'[l] = "pulled" /\ pc[l] # "pulled" /\ item'[l].id \notin Orphans)
                => \A i \in 1..Len(recoveringTasks) :
                     \E m \in Loops : item'[m] = recoveringTasks[i]]_vars
  BY PullsRecoveredFirst
<1>4. Spec => []TInv
  BY TypeCorrect DEF TInv
<1>5. QED
  BY <1>1, <1>2, <1>3, <1>4, PTL DEF Spec, RecoveredFirst

-----------------------------------------------------------------------------
(* No task is executed twice, lost, or left without an outcome. *)

(* The tasks in the queues, in the loops that pulled them, and in the      *)
(* loops that called their handlers.                                       *)
Queued == {t \in Tasks : \E i \in 1..Len(Waiting) : Waiting[i].id = t}
Pulled == {t \in Tasks : \E l \in Loops : pc[l] = "pulled" /\ item[l].id = t}
Started ==
  {t \in Tasks : \E l \in Loops : pc[l] \in {"running", "losing"} /\ item[l].id = t}

(* The loops that have not yet answered for their entry.                   *)
Working == {l \in Loops : pc[l] \in {"pulled", "running", "losing"}}

(* Between two executions, or before the first.                            *)
Resting == Queued \cup Pulled \cup timers

OneEntry == \A i, j \in 1..Len(Waiting) : Waiting[i].id = Waiting[j].id => i = j
OneWorker == \A l, m \in Working : item[l].id = item[m].id => l = m

(* Each task is in one place at most: one entry of the queues, one loop,   *)
(* or the timer.                                                           *)
PlacesInv ==
  /\ OneEntry /\ OneWorker
  /\ Queued \cap (Pulled \cup Started) = {}
  /\ timers \cap (Queued \cup Pulled \cup Started) = {}
  /\ Queued \cup Pulled \cup Started \cup timers \subseteq submitted

Last(t) == events[t][Len(events[t])]

(* Started and not heard of since, though no loop is at it.                *)
Cut ==
  {t \in Tasks : events[t] # << >> /\ Last(t) = "task:started" /\ t \notin Started}

(* The order in which executions announce themselves. *)
InOrder(log) ==
  \A i \in 1..Len(log) - 1 :
    LET before == IF i = 1 THEN "none" ELSE log[i - 1]
    IN \/ log[i] = "task:started" /\ log[i + 1] \in Outcomes
       \/ log[i] \in Outcomes /\ log[i + 1] = "task:started"
       \/ /\ before = "task:started"
          /\ log[i] \in ThrowingEvents
          /\ log[i + 1] = "task:failed"

(* What has been announced of a task goes with the place it is in.         *)
HistoryInv ==
  /\ \A t \in Tasks \ submitted : events[t] = << >>
  /\ \A t \in Resting : events[t] = << >> \/ Last(t) \in Outcomes
  /\ \A t \in Started : events[t] # << >> /\ Last(t) = "task:started"
  /\ \A t \in submitted : t \in Resting \cup Started \cup Cut \/ Answered(t)
  /\ \A t \in Tasks : InOrder(events[t])
  /\ IsFiniteSet(Cut) /\ Cardinality(Cut) <= leaked

(* What Waiting is made of. *)
LEMMA WaitingParts ==
  ASSUME TInv
  PROVE  /\ Len(recoveringTasks) \in Nat /\ Len(executionQueue) \in Nat
         /\ Waiting \in Seq(Entries)
         /\ Len(Waiting) = Len(recoveringTasks) + Len(executionQueue)
         /\ \A i \in 1..Len(Waiting) :
              /\ Waiting[i] = IF i <= Len(recoveringTasks) THEN recoveringTasks[i]
                              ELSE executionQueue[i - Len(recoveringTasks)]
              /\ Waiting[i] \in Entries /\ Waiting[i].id \in Tasks
<1>1. recoveringTasks \in Seq(Entries) /\ executionQueue \in Seq(Entries)
  BY DEF TInv, TypeOK
<1>2. \A i \in 1..Len(Waiting) : Waiting[i] \in Entries
  BY <1>1, WaitingType
<1>3. \A e \in Entries : e.id \in Tasks
  BY DEF Entries
<1> QED
  BY <1>1, <1>2, <1>3, ConcatProperties, LenProperties DEF Waiting

(* A shift of k takes the first k entries of both queues together.         *)
LEMMA ShiftWaiting ==
  ASSUME TInv, NEW k \in Nat, Shift(k)
  PROVE  /\ Len(Waiting') = IF k <= Len(Waiting) THEN Len(Waiting) - k ELSE 0
         /\ \A i \in 1..Len(Waiting') : Waiting'[i] = Waiting[k + i]
<1> DEFINE r == recoveringTasks  q == executionQueue
<1>1. /\ r \in Seq(Entries) /\ q \in Seq(Entries)
      /\ Len(r) \in Nat /\ Len(q) \in Nat
      /\ Waiting' = r' \o q'
  BY WaitingParts DEF TInv, TypeOK, Waiting
<1>2. /\ r' \in Seq(Entries) /\ q' \in Seq(Entries)
      /\ Len(r') \in Nat /\ Len(q') \in Nat
  BY ShiftType, LenProperties, <1>1
<1>3. /\ Len(Waiting') = Len(r') + Len(q')
      /\ \A i \in 1..(Len(r') + Len(q')) :
           Waiting'[i] = IF i <= Len(r') THEN r'[i] ELSE q'[i - Len(r')]
  BY <1>1, <1>2, ConcatProperties
<1>4. CASE k <= Len(r)
  <2>1. r' = SubSeq(r, k + 1, Len(r)) /\ q' = q
    BY <1>4 DEF Shift
  <2>2. Len(r') = Len(r) - k /\ \A i \in 1..Len(r') : r'[i] = r[k + i]
    BY <1>1, <1>4, <2>1
  <2>3. Len(Waiting') = Len(Waiting) - k /\ k <= Len(Waiting)
    BY <1>1, <1>3, <1>4, <2>1, <2>2, WaitingParts
  <2>4. ASSUME NEW i \in 1..Len(Waiting') PROVE Waiting'[i] = Waiting[k + i]
    <3>1. i \in Nat /\ k + i \in 1..Len(Waiting) /\ i \in 1..(Len(r') + Len(q'))
      BY <1>1, <1>3, <2>3, <2>4, WaitingParts
    <3>2. Waiting[k + i] = IF k + i <= Len(r) THEN r[k + i] ELSE q[k + i - Len(r)]
      BY <3>1, WaitingParts
    <3>3. CASE i <= Len(r')
      BY <1>1, <1>3, <2>2, <3>1, <3>2, <3>3
    <3>4. CASE ~(i <= Len(r'))
      <4>1. i - Len(r') = k + i - Len(r)
        BY <1>1, <2>2, <3>1
      <4> QED
        BY <1>1, <1>3, <2>1, <2>2, <3>1, <3>2, <3>4, <4>1
    <3> QED
      BY <3>3, <3>4
  <2> QED
    BY <1>1, <2>3, <2>4, WaitingParts
<1>5. CASE k > Len(r)
  <2>1. r' = << >> /\ q' = SubSeq(q, k - Len(r) + 1, Len(q))
    BY <1>1, <1>5 DEF Shift
  <2>2. /\ Len(q') = IF k - Len(r) <= Len(q) THEN Len(q) - (k - Len(r)) ELSE 0
        /\ \A i \in 1..Len(q') : q'[i] = q[k - Len(r) + i]
    BY <1>1, <1>5, <2>1
  <2>3. Len(r') = 0
    BY <2>1
  <2>4. Len(Waiting') = IF k <= Len(Waiting) THEN Len(Waiting) - k ELSE 0
    BY <1>1, <1>3, <1>5, <2>2, <2>3, WaitingParts
  <2>5. ASSUME NEW i \in 1..Len(Waiting') PROVE Waiting'[i] = Waiting[k + i]
    <3>1. i \in 1..Len(q') /\ k + i \in 1..Len(Waiting)
      BY <1>1, <1>3, <1>5, <2>2, <2>3, <2>4, WaitingParts
    <3>2. Waiting[k + i] = q[k + i - Len(r)]
      BY <1>1, <1>5, <3>1, WaitingParts
    <3>3. k + i - Len(r) = k - Len(r) + i
      BY <1>1, <3>1
    <3>4. Waiting'[i] = q'[i]
      BY <1>2, <1>3, <2>3, <3>1
    <3> QED
      BY <2>2, <3>1, <3>2, <3>3, <3>4
  <2> QED
    BY <2>4, <2>5
<1> QED
  BY <1>1, <1>4, <1>5

(* The tasks left in the queues after a shift of k.                       *)
LEMMA ShiftQueued ==
  ASSUME TInv, OneEntry, NEW k \in Nat, Shift(k)
  PROVE  /\ OneEntry'
         /\ Queued' = {t \in Tasks : \E i \in 1..Len(Waiting) : i > k /\ Waiting[i].id = t}
<1>1. Len(Waiting) \in Nat /\ Len(Waiting') \in Nat
  BY WaitingParts, ShiftWaiting
<1>2. \A i \in 1..Len(Waiting') : k + i \in 1..Len(Waiting) /\ k + i > k
  BY <1>1, ShiftWaiting
<1>3. \A i \in 1..Len(Waiting) : i > k => i - k \in 1..Len(Waiting') /\ Waiting'[i - k] = Waiting[i]
  <2> SUFFICES ASSUME NEW i \in 1..Len(Waiting), i > k
               PROVE  i - k \in 1..Len(Waiting') /\ Waiting'[i - k] = Waiting[i]
    OBVIOUS
  <2>1. i - k \in 1..Len(Waiting') /\ k + (i - k) = i
    BY <1>1, ShiftWaiting
  <2> QED
    BY <2>1, ShiftWaiting
<1>4. OneEntry'
  <2> SUFFICES ASSUME NEW i \in 1..Len(Waiting'), NEW j \in 1..Len(Waiting'),
                      Waiting'[i].id = Waiting'[j].id
               PROVE  i = j
    BY DEF OneEntry
  <2>1. k + i = k + j
    BY <1>2, ShiftWaiting DEF OneEntry
  <2> QED
    BY <1>1, <2>1
<1> QED
  BY <1>2, <1>3, <1>4, ShiftWaiting DEF Queued

(* A new entry at the end. *)
LEMMA AppendQueued ==
  ASSUME TInv, OneEntry, NEW e \in Entries, e.id \notin Queued,
         executionQueue' = Append(executionQueue, e),
         UNCHANGED recoveringTasks
  PROVE  /\ OneEntry'
         /\ Queued' = Queued \cup {e.id}
<1>1. e.id \in Tasks
  BY DEF Entries
<1>2. Waiting' = Append(Waiting, e)
  BY DEF Waiting, TInv, TypeOK
<1>3. /\ Len(Waiting) \in Nat
      /\ Len(Waiting') = Len(Waiting) + 1
      /\ \A i \in 1..Len(Waiting) : Waiting'[i] = Waiting[i]
      /\ Waiting'[Len(Waiting) + 1] = e
  BY <1>2, WaitingParts
<1>4. 1..Len(Waiting') = 1..Len(Waiting) \cup {Len(Waiting) + 1}
  BY <1>3
<1>5. \A i \in 1..Len(Waiting) : Waiting[i].id # e.id
  BY <1>1 DEF Queued
<1>6. OneEntry'
  BY <1>3, <1>4, <1>5 DEF OneEntry
<1>7. Queued' = Queued \cup {e.id}
  BY <1>1, <1>3, <1>4, Zenon DEF Queued
<1> QED
  BY <1>6, <1>7

(* The recovered entries find an empty queue of their own. *)
LEMMA RecoverQueued ==
  ASSUME TInv, OneEntry, OrphansInv, Queued \subseteq submitted, Recover
  PROVE  /\ OneEntry'
         /\ Queued' = Queued \cup Orphans
<1> DEFINE new == [i \in 1..Len(OrphanRows) |-> RecoveredEntry(OrphanRows[i])]
           n == Len(OrphanRows)
<1>1. /\ new \in Seq(Entries) /\ Len(new) = n /\ n \in Nat
      /\ \A i \in 1..n : new[i].id = OrphanRows[i] /\ OrphanRows[i] \in Tasks
  BY RecoveredEntriesType, TasksAssumption DEF RecoveredEntry
<1>2. recoveringTasks = << >>
  <2>1. SUFFICES ASSUME recoveringTasks # << >> PROVE FALSE
    OBVIOUS
  <2>2. 1 \in 1..Len(recoveringTasks) /\ 1 \in 1..Len(Waiting)
    BY <2>1, WaitingParts DEF TInv, TypeOK
  <2>3. Waiting[1].id \in Orphans /\ Waiting[1].id \in Tasks
    BY <2>2, WaitingParts DEF OrphansInv
  <2> QED
    BY <2>2, <2>3 DEF Queued, Recover
<1>3. recoveringTasks' = new /\ executionQueue' = executionQueue
  BY <1>1, <1>2 DEF Recover
<1> HIDE DEF new
<1>4. /\ Waiting = executionQueue /\ executionQueue \in Seq(Entries)
      /\ Waiting' = new \o executionQueue
  BY <1>2, <1>3 DEF Waiting, TInv, TypeOK
<1>5. /\ Len(Waiting) \in Nat /\ Len(Waiting') = n + Len(Waiting)
      /\ \A i \in 1..n : Waiting'[i] = new[i]
      /\ \A i \in 1..Len(Waiting) : Waiting'[n + i] = Waiting[i]
  <2>1. /\ Len(Waiting') = n + Len(Waiting)
        /\ \A i \in 1..(n + Len(Waiting)) :
             Waiting'[i] = IF i <= n THEN new[i] ELSE Waiting[i - n]
    <3>1. /\ Len(new \o executionQueue) = Len(new) + Len(executionQueue)
          /\ \A i \in 1..(Len(new) + Len(executionQueue)) :
               (new \o executionQueue)[i]
                 = IF i <= Len(new) THEN new[i] ELSE executionQueue[i - Len(new)]
      BY <1>1, <1>4, ConcatProperties
    <3> QED
      BY <1>1, <1>4, <3>1
  <2>2. Len(Waiting) \in Nat
    BY <1>4
  <2>3. \A i \in 1..Len(Waiting) : n + i \in 1..(n + Len(Waiting)) /\ n + i - n = i /\ n + i > n
    BY <1>1, <2>2
  <2>4. \A i \in 1..n : i \in 1..(n + Len(Waiting)) /\ i <= n
    BY <1>1, <2>2
  <2> QED
    BY <1>1, <2>1, <2>2, <2>3, <2>4
<1>6. \A i \in 1..Len(Waiting') : i \in 1..n \/ i - n \in 1..Len(Waiting)
  BY <1>1, <1>5
<1>13. \A i \in 1..Len(Waiting') : i - n \in 1..Len(Waiting) => Waiting'[i] = Waiting[i - n]
  <2> SUFFICES ASSUME NEW i \in 1..Len(Waiting'), i - n \in 1..Len(Waiting)
               PROVE  Waiting'[i] = Waiting[i - n]
    OBVIOUS
  <2>1. n + (i - n) = i
    BY <1>1
  <2> QED
    BY <1>5, <2>1
<1>7. \A i \in 1..Len(Waiting) : Waiting[i].id \notin Orphans
  BY WaitingParts DEF Recover, Queued
<1>8. \A i, j \in 1..n : OrphanRows[i] = OrphanRows[j] => i = j
  BY TasksAssumption
<1>9. OneEntry'
  <2> SUFFICES ASSUME NEW i \in 1..Len(Waiting'), NEW j \in 1..Len(Waiting'),
                      Waiting'[i].id = Waiting'[j].id
               PROVE  i = j
    BY DEF OneEntry
  <2>1. CASE i \in 1..n /\ j \in 1..n
    BY <1>1, <1>5, <1>8, <2>1
  <2>2. CASE i \in 1..n /\ j - n \in 1..Len(Waiting)
    <3>1. Waiting'[j] = Waiting[j - n] /\ Waiting'[i].id \in Orphans
      BY <1>1, <1>5, <1>13, <2>2 DEF Orphans
    <3> QED
      BY <1>7, <2>2, <3>1
  <2>3. CASE j \in 1..n /\ i - n \in 1..Len(Waiting)
    <3>1. Waiting'[i] = Waiting[i - n] /\ Waiting'[j].id \in Orphans
      BY <1>1, <1>5, <1>13, <2>3 DEF Orphans
    <3> QED
      BY <1>7, <2>3, <3>1
  <2>4. CASE i - n \in 1..Len(Waiting) /\ j - n \in 1..Len(Waiting)
    <3>1. Waiting'[i] = Waiting[i - n] /\ Waiting'[j] = Waiting[j - n]
      BY <1>13, <2>4
    <3>2. i - n = j - n
      BY <2>4, <3>1 DEF OneEntry
    <3> QED
      BY <1>1, <2>4, <3>2
  <2> QED
    BY <1>6, <2>1, <2>2, <2>3, <2>4
<1>10. ASSUME NEW t \in Queued' PROVE t \in Queued \cup Orphans
  <2>1. PICK i \in 1..Len(Waiting') : Waiting'[i].id = t
    BY <1>10 DEF Queued
  <2>2. CASE i \in 1..n
    BY <1>1, <1>5, <2>1, <2>2 DEF Orphans
  <2>3. CASE i - n \in 1..Len(Waiting)
    <3>1. Waiting'[i] = Waiting[i - n]
      BY <1>13, <2>3
    <3> QED
      BY <1>10, <2>1, <2>3, <3>1 DEF Queued
  <2> QED
    BY <1>6, <2>2, <2>3
<1>11. ASSUME NEW t \in Queued PROVE t \in Queued'
  <2>1. PICK i \in 1..Len(Waiting) : Waiting[i].id = t
    BY <1>11 DEF Queued
  <2>2. n + i \in 1..Len(Waiting') /\ Waiting'[n + i].id = t
    BY <1>1, <1>5, <2>1
  <2> QED
    BY <1>11, <2>2 DEF Queued
<1>12. ASSUME NEW t \in Orphans PROVE t \in Queued'
  <2>1. PICK i \in 1..n : OrphanRows[i] = t
    BY <1>12 DEF Orphans
  <2>2. i \in 1..Len(Waiting') /\ Waiting'[i].id = t /\ t \in Tasks
    BY <1>1, <1>5, <2>1
  <2> QED
    BY <2>2 DEF Queued
<1> QED
  BY <1>9, <1>10, <1>11, <1>12

Rearranged == UNCHANGED <<Resting, Started, submitted, events, leaked>>

(* Every working loop has an entry of a task, and it counts as there.      *)
LEMMA WorkingTypes ==
  ASSUME TInv
  PROVE  /\ \A l \in Working : item[l] \in Entries /\ item[l].id \in Tasks
         /\ \A l \in Working : item[l].id \in Pulled \cup Started
         /\ \A l \in Loops : pc[l] = "pulled" => item[l].id \in Pulled
         /\ \A l \in Loops : pc[l] \in {"running", "losing"} => item[l].id \in Started
<1>1. \A e \in Entries : e.id \in Tasks
  BY DEF Entries
<1>2. \A l \in Working : item[l] \in Entries
  BY DEF TInv, TypeOK, HoldingInv, HoldingStates, Working
<1> QED
  BY <1>1, <1>2 DEF Working, Pulled, Started

(* Nothing moved. *)
LEMMA PlacesStutter ==
  ASSUME PlacesInv, UNCHANGED <<recoveringTasks, executionQueue, timers, pc, item, submitted>>
  PROVE  PlacesInv' /\ UNCHANGED <<Queued, Pulled, Started, Resting, Working>>
<1>1. Waiting' = Waiting
  BY DEF Waiting
<1>2. UNCHANGED <<Queued, Pulled, Started, Working>>
  BY <1>1 DEF Queued, Pulled, Started, Working
<1>3. OneEntry' /\ OneWorker'
  BY <1>1, <1>2 DEF PlacesInv, OneEntry, OneWorker
<1> QED
  BY <1>2, <1>3 DEF PlacesInv, Resting

(* One turn of a loop takes the first entry from the queues, or nothing.   *)
LEMMA IteratePlaces ==
  ASSUME TInv, PlacesInv, NEW l \in Loops, l \notin Working, NEW n, Iterate(l, n),
         UNCHANGED <<timers, submitted, events, leaked>>
  PROVE  PlacesInv' /\ Rearranged
<1> USE DEF TInv, TypeOK
<1>1. ASSUME NEW s \in {"gone", "nap"}, pc' = [pc EXCEPT ![l] = s],
             item' = [item EXCEPT ![l] = NoEntry], UNCHANGED queueVars
      PROVE  PlacesInv' /\ Rearranged
  <2>1. Waiting' = Waiting /\ Queued' = Queued
    BY <1>1 DEF Waiting, Queued, queueVars
  <2>2. Working' = Working /\ \A m \in Working : item'[m] = item[m] /\ pc'[m] = pc[m]
    BY <1>1 DEF Working
  <2>3. Pulled' = Pulled /\ Started' = Started
    BY <1>1, <2>2 DEF Working, Pulled, Started
  <2>4. OneEntry' /\ OneWorker'
    BY <2>1, <2>2 DEF PlacesInv, OneEntry, OneWorker
  <2> QED
    BY <2>1, <2>3, <2>4 DEF PlacesInv, Resting, Rearranged
<1>2. ASSUME Waiting # << >>, pc' = [pc EXCEPT ![l] = "pulled"],
             item' = [item EXCEPT ![l] = Head(Waiting)], Shift(1)
      PROVE  PlacesInv' /\ Rearranged
  <2> DEFINE h == Waiting[1].id
  <2>1. /\ Waiting # << >> => Head(Waiting) = Waiting[1] /\ 1 \in 1..Len(Waiting)
        /\ Waiting # << >> => h \in Tasks
    BY WaitingParts
  <2>2. h \in Queued
    BY <1>2, <2>1 DEF Queued
  <2>3. OneEntry' /\ Queued' = Queued \ {h}
    <3>1. OneEntry' /\ Queued' = {t \in Tasks : \E i \in 1..Len(Waiting) : i > 1 /\ Waiting[i].id = t}
      BY <1>2, ShiftQueued DEF PlacesInv
    <3>2. \A i \in 1..Len(Waiting) : i > 1 <=> Waiting[i].id # h
      BY <1>2, <2>1, WaitingParts DEF PlacesInv, OneEntry
    <3> QED
      BY <3>1, <3>2 DEF Queued
  <2>4. /\ Working' = Working \cup {l} /\ item'[l].id = h
        /\ \A m \in Working : m # l /\ item'[m] = item[m] /\ pc'[m] = pc[m]
    BY <1>2, <2>1 DEF Working
  <2>5. Pulled' = Pulled \cup {h} /\ Started' = Started
    BY <1>2, <2>1, <2>4 DEF Working, Pulled, Started
  <2>6. \A m \in Working : item[m].id # h
    BY <2>2, WorkingTypes DEF PlacesInv
  <2>7. OneWorker'
    BY <2>4, <2>6 DEF PlacesInv, OneWorker
  <2> HIDE DEF h
  <2> QED
    BY <2>2, <2>3, <2>5, <2>7 DEF PlacesInv, Resting, Rearranged
<1> QED
  BY <1>1, <1>2 DEF Iterate

(* start() deals the first entries out to its loops. *)
LEMMA StartPlaces ==
  ASSUME TInv, PlacesInv, Start
  PROVE  PlacesInv' /\ Rearranged
<1> DEFINE new == {l \in Loops : l[1] = generation + 1}
           pulls(l) == HasSlot(activeWorkers) /\ l[2] <= Len(Waiting)
<1>1. /\ pc \in [Loops -> LoopStates] /\ Concurrency \in Nat /\ generation + 1 \in 1..MaxStarts
      /\ Len(Waiting) \in Nat /\ UNCHANGED <<timers, submitted, events, leaked>>
  BY ConcurrencyAssumption, StartsAssumption, WaitingParts DEF Start, TInv, TypeOK
<1>2. \A l \in new : pc[l] = "none" /\ l[2] \in 1..Concurrency
  <2>1. \A l \in new : l[1] > generation
    BY <1>1 DEF TInv, TypeOK
  <2> QED
    BY <2>1 DEF TInv, UnbornInv, Loops
<1>3. \A l \in Loops \ new : pc'[l] = pc[l] /\ item'[l] = item[l]
  BY DEF Start, TInv, TypeOK
<1>4. \A l \in new : /\ pulls(l) => pc'[l] = "pulled" /\ item'[l] = Waiting[l[2]]
                     /\ ~pulls(l) => pc'[l] = "nap"
  BY DEF Start, TInv, TypeOK
<1>5. Started' = Started
  BY <1>2, <1>3, <1>4 DEF Started
<1>6. CASE ~HasSlot(activeWorkers)
  <2>1. Waiting' = Waiting /\ Queued' = Queued
    BY <1>6 DEF Start, Waiting, Queued, queueVars
  <2>2. Working' = Working /\ \A m \in Working : item'[m] = item[m]
    BY <1>2, <1>3, <1>4, <1>6 DEF Working
  <2>3. Pulled' = Pulled
    BY <1>2, <1>3, <1>4, <1>6 DEF Pulled
  <2>4. OneEntry' /\ OneWorker'
    BY <2>1, <2>2 DEF PlacesInv, OneEntry, OneWorker
  <2> QED
    BY <1>1, <1>5, <2>1, <2>3, <2>4 DEF PlacesInv, Resting, Rearranged
<1>7. CASE HasSlot(activeWorkers)
  <2> DEFINE Taken == {t \in Tasks : \E i \in 1..Len(Waiting) : i <= Concurrency /\ Waiting[i].id = t}
             Left == {t \in Tasks : \E i \in 1..Len(Waiting) : i > Concurrency /\ Waiting[i].id = t}
  <2>1. OneEntry' /\ Queued' = Left
    BY <1>1, <1>7, ShiftQueued DEF Start, PlacesInv
  <2>2. Queued = Taken \cup Left /\ Taken \cap Left = {}
    BY <1>1 DEF Queued, PlacesInv, OneEntry
  <2>3. \A i \in 1..Len(Waiting) : i <= Concurrency =>
          <<generation + 1, i>> \in new /\ pulls(<<generation + 1, i>>)
    BY <1>1, <1>7 DEF Loops
  <2>4. \A l \in new : pulls(l) => /\ l[2] \in 1..Len(Waiting) /\ l[2] <= Concurrency
                                   /\ Waiting[l[2]].id \in Tasks
    BY <1>1, <1>2, WaitingParts
  <2>5. Pulled' = Pulled \cup Taken
    <3>1. ASSUME NEW t \in Pulled' PROVE t \in Pulled \cup Taken
      <4>1. PICK l \in Loops : pc'[l] = "pulled" /\ item'[l].id = t
        BY <3>1 DEF Pulled
      <4> QED
        BY <1>3, <1>4, <2>4, <3>1, <4>1 DEF Pulled
    <3>2. ASSUME NEW t \in Pulled PROVE t \in Pulled'
      BY <1>2, <1>3, <3>2 DEF Pulled
    <3>3. ASSUME NEW t \in Taken PROVE t \in Pulled'
      <4>1. PICK i \in 1..Len(Waiting) : i <= Concurrency /\ Waiting[i].id = t
        BY <3>3
      <4>2. /\ <<generation + 1, i>> \in Loops
            /\ pc'[<<generation + 1, i>>] = "pulled"
            /\ item'[<<generation + 1, i>>] = Waiting[i]
        BY <1>4, <2>3, <4>1
      <4> QED
        BY <3>3, <4>1, <4>2 DEF Pulled
    <3> QED
      BY <3>1, <3>2, <3>3
  <2>6. OneWorker'
    <3> SUFFICES ASSUME NEW l \in Working', NEW m \in Working',
                        item'[l].id = item'[m].id
                 PROVE  l = m
      BY DEF OneWorker
    <3>1. \A k \in Working' : k \in Working \ new \/ (k \in new /\ pulls(k))
      BY <1>2, <1>3, <1>4 DEF Working
    <3>2. \A k \in Working \ new : item'[k] = item[k] /\ item'[k].id \notin Queued
      BY <1>3, WorkingTypes DEF Working, PlacesInv
    <3>3. \A k \in new : pulls(k) => item'[k] = Waiting[k[2]] /\ item'[k].id \in Queued
      BY <1>4, <2>4 DEF Queued
    <3>4. CASE l \in Working \ new /\ m \in Working \ new
      BY <3>2, <3>4 DEF PlacesInv, OneWorker
    <3>5. CASE l \in new /\ pulls(l) /\ m \in new /\ pulls(m)
      <4>1. l[2] = m[2]
        BY <2>4, <3>3, <3>5 DEF PlacesInv, OneEntry
      <4> QED
        BY <3>5, <4>1 DEF Loops
    <3> QED
      BY <3>1, <3>2, <3>3, <3>4, <3>5
  <2> HIDE DEF Taken, Left
  <2> QED
    BY <1>1, <1>5, <2>1, <2>2, <2>5, <2>6 DEF PlacesInv, Resting, Rearranged
<1> QED
  BY <1>6, <1>7

(* A loop is done with its entry, or has lost it. *)
LEMMA LeavePlaces ==
  ASSUME TInv, PlacesInv, NEW l \in Working,
         NEW s \in {"settled", "nap"}, pc' = [pc EXCEPT ![l] = s],
         item' = item \/ item' = [item EXCEPT ![l] = NoEntry],
         timers' \in {timers, timers \cup {item[l].id}},
         UNCHANGED <<queueVars, submitted>>
  PROVE  /\ PlacesInv' /\ Queued' = Queued
         /\ pc[l] = "pulled" =>
              Pulled' = Pulled \ {item[l].id} /\ Started' = Started
         /\ pc[l] # "pulled" =>
              Pulled' = Pulled /\ Started' = Started \ {item[l].id}
         /\ item[l].id \notin Pulled' \cup Started'
<1> DEFINE t == item[l].id
<1>1. Waiting' = Waiting /\ Queued' = Queued
  BY DEF Waiting, Queued, queueVars
<1>2. /\ Working' = Working \ {l} /\ l \in Loops
      /\ \A m \in Working \ {l} : item'[m] = item[m] /\ pc'[m] = pc[m] /\ item[m].id # t
  BY DEF Working, TInv, TypeOK, PlacesInv, OneWorker
<1>3. t \in Pulled \cup Started /\ t \in Tasks
  BY WorkingTypes
<1>4. OneEntry' /\ OneWorker'
  BY <1>1, <1>2 DEF PlacesInv, OneEntry, OneWorker
<1>5. \A m \in Loops : pc[m] = "pulled" \/ pc[m] \in {"running", "losing"} => m \in Working
  BY DEF Working
<1>6. \A m \in Loops : pc'[m] = "pulled" \/ pc'[m] \in {"running", "losing"} => m \in Working \ {l}
  BY <1>2 DEF Working
<1>7. pc[l] \in {"pulled", "running", "losing"}
  BY DEF Working
<1> HIDE DEF t
<1>8. pc[l] = "pulled" => Pulled' = Pulled \ {t} /\ Started' = Started
  BY <1>2, <1>5, <1>6, <1>7 DEF Pulled, Started, t
<1>9. pc[l] # "pulled" => Pulled' = Pulled /\ Started' = Started \ {t}
  BY <1>2, <1>5, <1>6, <1>7 DEF Pulled, Started, t
<1>10. t \notin Pulled' \cup Started'
  BY <1>2, <1>6 DEF Pulled, Started
<1>11. PlacesInv'
  BY <1>1, <1>3, <1>4, <1>8, <1>9, <1>10 DEF PlacesInv, t
<1> QED
  BY <1>1, <1>8, <1>9, <1>10, <1>11 DEF t

(* A pulled entry is started. *)
LEMMA BeginPlaces ==
  ASSUME TInv, PlacesInv, NEW l \in Loops, pc[l] = "pulled",
         NEW s \in {"running", "losing"}, pc' = [pc EXCEPT ![l] = s],
         UNCHANGED <<queueVars, timers, submitted, item>>
  PROVE  /\ PlacesInv' /\ Queued' = Queued
         /\ Pulled' = Pulled \ {item[l].id} /\ Started' = Started \cup {item[l].id}
<1> DEFINE t == item[l].id
<1>1. Waiting' = Waiting /\ Queued' = Queued
  BY DEF Waiting, Queued, queueVars
<1>2. /\ Working' = Working /\ l \in Working
      /\ \A m \in Working \ {l} : pc'[m] = pc[m] /\ item[m].id # t
  BY DEF Working, TInv, TypeOK, PlacesInv, OneWorker
<1>3. t \in Pulled /\ t \in Tasks
  BY <1>2, WorkingTypes
<1>4. OneEntry' /\ OneWorker'
  BY <1>1, <1>2 DEF PlacesInv, OneEntry, OneWorker
<1>5. Pulled' = Pulled \ {t} /\ Started' = Started \cup {t}
  <2>1. pc'[l] = s /\ \A m \in Loops \ {l} : pc'[m] = pc[m]
    BY DEF TInv, TypeOK
  <2>2. \A m \in Loops : pc[m] = "pulled" \/ pc[m] \in {"running", "losing"} => m \in Working
    BY DEF Working
  <2> QED
    BY <1>2, <1>3, <2>1, <2>2 DEF Pulled, Started
<1> HIDE DEF t
<1>6. PlacesInv'
  BY <1>1, <1>3, <1>4, <1>5 DEF PlacesInv
<1> QED
  BY <1>1, <1>5, <1>6 DEF t

-----------------------------------------------------------------------------
(* What is announced. *)

(* What may be announced next. *)
LEMMA AppendInOrder ==
  ASSUME NEW log \in Seq(Events), NEW e \in Events, InOrder(log),
         \/ log = << >>
         \/ log[Len(log)] = "task:started" /\ e \in Outcomes
         \/ log[Len(log)] \in Outcomes /\ e = "task:started"
         \/ /\ Len(log) > 1 /\ log[Len(log) - 1] = "task:started"
            /\ log[Len(log)] \in ThrowingEvents /\ e = "task:failed"
  PROVE  InOrder(Append(log, e))
<1> DEFINE s == Append(log, e)  n == Len(log)
<1>1. /\ n \in Nat /\ Len(s) = n + 1 /\ s[n + 1] = e
      /\ \A i \in 1..n : s[i] = log[i]
  OBVIOUS
<1> HIDE DEF s
<1> SUFFICES ASSUME NEW i \in 1..n
             PROVE  LET before == IF i = 1 THEN "none" ELSE s[i - 1]
                    IN \/ s[i] = "task:started" /\ s[i + 1] \in Outcomes
                       \/ s[i] \in Outcomes /\ s[i + 1] = "task:started"
                       \/ /\ before = "task:started"
                          /\ s[i] \in ThrowingEvents
                          /\ s[i + 1] = "task:failed"
  BY <1>1 DEF InOrder, s
<1>2. CASE i < n
  <2>1. i \in 1..n - 1 /\ i + 1 \in 1..n /\ (i # 1 => i - 1 \in 1..n)
    BY <1>1, <1>2
  <2>2. s[i] = log[i] /\ s[i + 1] = log[i + 1] /\ (i # 1 => s[i - 1] = log[i - 1])
    BY <1>1, <2>1
  <2> QED
    BY <2>1, <2>2 DEF InOrder
<1>3. CASE i = n
  <2>1. s[i] = log[n] /\ s[i + 1] = e /\ (n > 1 => i # 1 /\ s[i - 1] = log[n - 1])
    BY <1>1, <1>3
  <2>2. log # << >>
    BY <1>1, <1>3
  <2> QED
    BY <1>3, <2>1, <2>2
<1> QED
  BY <1>1, <1>2, <1>3

(* Places change, announcements do not.                                    *)
LEMMA HistoryRests ==
  ASSUME TInv, HistoryInv, NEW new \in SUBSET (Tasks \ submitted),
         submitted' = submitted \cup new, Resting' = Resting \cup new,
         UNCHANGED <<Started, events, leaked>>
  PROVE  HistoryInv'
<1>1. Cut' = Cut
  BY DEF Cut, Last
<1>2. \A t \in Tasks : (Answered(t) <=> Answered(t)') /\ (InOrder(events[t]) <=> InOrder(events'[t]))
  BY DEF Answered
<1>3. submitted \subseteq Tasks
  BY DEF TInv, TypeOK
<1>4. IsFiniteSet(Cut)' /\ (Cardinality(Cut) <= leaked)'
  BY <1>1 DEF HistoryInv
<1>5. \A t \in Tasks : InOrder(events'[t])
  BY DEF HistoryInv
<1>6. \A t \in submitted' : t \in Resting' \cup Started' \cup Cut' \/ Answered(t)'
  BY <1>1, <1>2, <1>3 DEF HistoryInv
<1>7. /\ \A t \in Tasks \ submitted' : events'[t] = << >>
      /\ \A t \in Resting' : events'[t] = << >> \/ Last(t)' \in Outcomes
      /\ \A t \in Started' : events'[t] # << >> /\ Last(t)' = "task:started"
  BY DEF HistoryInv, Last
<1> QED
  BY <1>1, <1>4, <1>5, <1>6, <1>7 DEF HistoryInv

(* Nothing else is announced of the other tasks.                           *)
LEMMA OthersKept ==
  ASSUME TInv, NEW t \in Tasks, NEW names \in Seq(Events), Emit(t, names)
  PROVE  /\ events'[t] = events[t] \o names
         /\ events[t] \in Seq(Events)
         /\ \A u \in Tasks \ {t} : /\ events'[u] = events[u]
                                   /\ Last(u)' = Last(u)
                                   /\ Answered(u)' <=> Answered(u)
  BY DEF TInv, TypeOK, Emit, Last, Answered

(* One task's history goes on, the others' stay.                           *)
LEMMA HistoryGoesOn ==
  ASSUME HistoryInv, NEW t \in submitted, t \in Tasks, UNCHANGED submitted,
         \A u \in Tasks \ {t} : /\ events'[u] = events[u]
                                /\ Last(u)' = Last(u)
                                /\ Answered(u)' <=> Answered(u),
         Resting' \ {t} = Resting \ {t}, Started' \ {t} = Started \ {t},
         Cut' \ {t} = Cut \ {t}, submitted \subseteq Tasks,
         Resting \cup Started \subseteq Tasks,
         t \in Resting' => events'[t] = << >> \/ Last(t)' \in Outcomes,
         t \in Started' => events'[t] # << >> /\ Last(t)' = "task:started",
         t \in Resting' \cup Started' \cup Cut' \/ Answered(t)',
         InOrder(events'[t]), IsFiniteSet(Cut'), Cardinality(Cut') <= leaked'
  PROVE  HistoryInv'
<1>1. \A u \in Tasks \ submitted' : events'[u] = << >>
  BY DEF HistoryInv
<1>2. \A u \in Resting' : events'[u] = << >> \/ Last(u)' \in Outcomes
  BY DEF HistoryInv
<1>3. \A u \in Started' : events'[u] # << >> /\ Last(u)' = "task:started"
  BY DEF HistoryInv
<1>4. \A u \in submitted' : u \in Resting' \cup Started' \cup Cut' \/ Answered(u)'
  BY DEF HistoryInv
<1>5. \A u \in Tasks : InOrder(events'[u])
  BY DEF HistoryInv
<1> QED
  BY <1>1, <1>2, <1>3, <1>4, <1>5 DEF HistoryInv

(* An execution starts, or is cut off at its announcement: that leaks a    *)
(* slot.                                                                   *)
LEMMA HistoryStarts ==
  ASSUME TInv, HistoryInv, NEW t \in Resting, t \in Tasks, t \notin Started,
         Emit(t, <<"task:started">>), Resting' = Resting \ {t}, UNCHANGED submitted,
         Resting \subseteq submitted,
         \/ Started' = Started \cup {t} /\ leaked' = leaked
         \/ Started' = Started /\ leaked' = leaked + 1
  PROVE  HistoryInv'
<1>0. /\ submitted \subseteq Tasks /\ Resting \cup Started \subseteq Tasks
      /\ t \in submitted
  BY DEF TInv, TypeOK, Resting, Queued, Pulled, Started
<1>1. <<"task:started">> \in Seq(Events) /\ "task:started" \in Events
  BY DEF Events
<1>2. /\ events[t] \in Seq(Events) /\ events'[t] = Append(events[t], "task:started")
      /\ \A u \in Tasks \ {t} : /\ events'[u] = events[u]
                                /\ Last(u)' = Last(u)
                                /\ Answered(u)' <=> Answered(u)
  <2>1. /\ events[t] \in Seq(Events) /\ events'[t] = events[t] \o <<"task:started">>
        /\ \A u \in Tasks \ {t} : /\ events'[u] = events[u]
                                  /\ Last(u)' = Last(u)
                                  /\ Answered(u)' <=> Answered(u)
    BY <1>1, OthersKept
  <2>2. events[t] \o <<"task:started">> = Append(events[t], "task:started")
    BY <2>1
  <2> QED
    BY <2>1, <2>2
<1>3. events'[t] # << >> /\ Last(t)' = "task:started"
  BY <1>1, <1>2 DEF Last
<1>4. InOrder(events'[t])
  BY <1>1, <1>2, AppendInOrder DEF HistoryInv, Last
<1>5. "task:started" \notin Outcomes
  BY DEF Outcomes
<1>6. t \notin Cut
  BY <1>5 DEF Cut, HistoryInv
<1>7. IsFiniteSet(Cut) /\ Cardinality(Cut) \in Nat /\ Cardinality(Cut) <= leaked /\ leaked \in Nat
  BY FS_CardinalityType DEF HistoryInv, TInv, TypeOK
<1>8. CASE Started' = Started \cup {t} /\ leaked' = leaked
  <2>1. Cut' = Cut
    BY <1>2, <1>6, <1>8 DEF Cut
  <2> QED
    BY <1>2, <1>3, <1>4, <1>7, <1>8, <1>0, <2>1, HistoryGoesOn
<1>9. CASE Started' = Started /\ leaked' = leaked + 1
  <2>1. Cut' = Cut \cup {t}
    BY <1>2, <1>3, <1>9 DEF Cut
  <2>2. IsFiniteSet(Cut') /\ Cardinality(Cut') = Cardinality(Cut) + 1
    BY <1>6, <1>7, <2>1, FS_AddElement
  <2>3. Cardinality(Cut') <= leaked'
    BY <1>7, <1>9, <2>2
  <2> QED
    BY <1>2, <1>3, <1>4, <1>9, <1>0, <2>1, <2>2, <2>3, HistoryGoesOn
<1> QED
  BY <1>8, <1>9

(* An execution ends with an outcome, or with two when the first one's     *)
(* listener threw.                                                         *)
LEMMA HistoryAnswers ==
  ASSUME TInv, HistoryInv, NEW t \in Started, t \in Tasks,
         NEW e \in Outcomes, NEW names,
         names = <<e>> \/ (e \in ThrowingEvents /\ names = <<e, "task:failed">>),
         Emit(t, names), Started' = Started \ {t}, UNCHANGED submitted,
         leaked' \in {leaked, leaked + 1},
         \/ Resting' = Resting /\ (e # "task:suspended" \/ names # <<e>>)
         \/ Resting' = Resting \cup {t},
         Started \subseteq submitted
  PROVE  HistoryInv'
<1>0. /\ submitted \subseteq Tasks /\ Resting \cup Started \subseteq Tasks
      /\ t \in submitted
  BY DEF TInv, TypeOK, Resting, Queued, Pulled, Started
<1>1. e \in Events /\ "task:failed" \in Outcomes /\ "task:failed" \in Events /\ names \in Seq(Events)
  <2>1. e \in Events /\ "task:failed" \in Outcomes /\ "task:failed" \in Events
    BY DEF Events, Outcomes
  <2>2. <<e>> \in Seq(Events) /\ <<e, "task:failed">> \in Seq(Events)
    BY <2>1
  <2> QED
    BY <2>1, <2>2
<1>2. /\ events[t] \in Seq(Events) /\ events'[t] = events[t] \o names
      /\ \A u \in Tasks \ {t} : /\ events'[u] = events[u]
                                /\ Last(u)' = Last(u)
                                /\ Answered(u)' <=> Answered(u)
  BY <1>1, OthersKept DEF TInv, TypeOK
<1>3. events[t] # << >> /\ events[t][Len(events[t])] = "task:started" /\ InOrder(events[t])
  BY DEF HistoryInv, Last
<1> DEFINE one == Append(events[t], e)
<1>4. /\ one \in Seq(Events) /\ InOrder(one) /\ Len(one) = Len(events[t]) + 1
      /\ one[Len(one)] = e /\ one[Len(one) - 1] = "task:started" /\ Len(one) > 1
  BY <1>1, <1>2, <1>3, AppendInOrder
<1>5. "task:started" \notin Outcomes
  BY DEF Outcomes
<1>6. /\ InOrder(events'[t]) /\ events'[t] # << >> /\ Last(t)' \in Outcomes
      /\ (e # "task:suspended" \/ names # <<e>>) => Last(t)' \in {"task:resumed", "task:failed"}
  <2>1. CASE names = <<e>>
    <3>1. events'[t] = one
      BY <1>2, <2>1
    <3> QED
      BY <1>4, <2>1, <3>1 DEF Last, Outcomes
  <2>2. CASE e \in ThrowingEvents /\ names = <<e, "task:failed">>
    <3>1. events'[t] = Append(one, "task:failed")
      BY <1>1, <1>2, <2>2
    <3>2. InOrder(Append(one, "task:failed"))
      BY <1>1, <1>4, <2>2, AppendInOrder
    <3> QED
      BY <1>1, <1>4, <3>1, <3>2 DEF Last
  <2> QED
    BY <2>1, <2>2
<1>7. Cut' = Cut
  <2>1. t \notin Cut' /\ t \notin Cut
    BY <1>5, <1>6 DEF Cut
  <2> QED
    BY <1>2, <2>1 DEF Cut
<1>8. Cardinality(Cut) \in Nat /\ Cardinality(Cut) <= leaked /\ leaked \in Nat /\ IsFiniteSet(Cut)
  BY FS_CardinalityType DEF HistoryInv, TInv, TypeOK
<1>9. IsFiniteSet(Cut') /\ Cardinality(Cut') <= leaked'
  BY <1>7, <1>8
<1>10. t \in Resting' \/ Answered(t)'
  BY <1>6 DEF Answered, Last
<1> HIDE DEF one
<1> QED
  BY <1>2, <1>5, <1>6, <1>7, <1>9, <1>10, <1>0, HistoryGoesOn

-----------------------------------------------------------------------------
(* The steps. *)

(* Tasks only changed places among the resting ones. *)
LEMMA RearrangedKeeps ==
  ASSUME TInv, HistoryInv, Rearranged
  PROVE  HistoryInv'
<1>1. /\ {} \in SUBSET (Tasks \ submitted)
      /\ submitted' = submitted \cup {} /\ Resting' = Resting \cup {}
      /\ UNCHANGED <<Started, events, leaked>>
  BY DEF Rearranged
<1> QED
  BY <1>1, HistoryRests

(* New tasks and woken ones go to the end of a queue. *)
LEMMA ProducersPlace ==
  ASSUME TInv, OrphansInv, PlacesInv, HistoryInv,
         Recover \/ \E t \in Tasks : CreateTask(t) \/ ScheduleTask(t) \/ TimerFires(t)
  PROVE  PlacesInv' /\ HistoryInv'
<1> USE DEF loopVars
<1>1. ASSUME UNCHANGED <<pc, item>>
      PROVE  /\ Pulled' = Pulled /\ Started' = Started
             /\ OneWorker'
  BY <1>1 DEF Pulled, Started, Working, OneWorker, PlacesInv
<1>2. CASE Recover
  <2>1. OneEntry' /\ Queued' = Queued \cup Orphans
    BY <1>2, RecoverQueued DEF PlacesInv
  <2>2. /\ UNCHANGED <<pc, item, timers, events, leaked>>
        /\ submitted' = submitted \cup Orphans /\ Orphans \cap submitted = {}
    BY <1>2 DEF Recover
  <2>3. Pulled' = Pulled /\ Started' = Started /\ OneWorker'
    BY <1>1, <2>2
  <2>4. PlacesInv'
    BY <2>1, <2>2, <2>3 DEF PlacesInv
  <2>5. Resting' = Resting \cup Orphans
    BY <2>1, <2>2, <2>3 DEF Resting
  <2>6. Orphans \in SUBSET (Tasks \ submitted)
    BY <2>2, TasksAssumption DEF Orphans
  <2> QED
    BY <2>2, <2>3, <2>4, <2>5, <2>6, HistoryRests
<1>3. ASSUME NEW entry \in Entries, Enqueue(entry)
      PROVE  PlacesInv' /\ HistoryInv'
  <2>1. /\ UNCHANGED <<pc, item, timers, events, leaked>>
        /\ submitted' = submitted \cup {entry.id}
        /\ entry.id \in Tasks \ submitted
    BY <1>3 DEF Enqueue, Entries
  <2>2. entry.id \notin Queued
    BY <2>1 DEF PlacesInv
  <2>3. OneEntry' /\ Queued' = Queued \cup {entry.id}
    BY <1>3, <2>2, AppendQueued DEF Enqueue, PlacesInv
  <2>4. Pulled' = Pulled /\ Started' = Started /\ OneWorker'
    BY <1>1, <2>1
  <2>5. PlacesInv'
    BY <2>1, <2>3, <2>4 DEF PlacesInv
  <2>6. Resting' = Resting \cup {entry.id}
    BY <2>1, <2>3, <2>4 DEF Resting
  <2>7. {entry.id} \in SUBSET (Tasks \ submitted)
    BY <2>1
  <2> QED
    BY <2>1, <2>4, <2>5, <2>6, <2>7, HistoryRests
<1>4. ASSUME NEW t \in Tasks, CreateTask(t) \/ ScheduleTask(t)
      PROVE  PlacesInv' /\ HistoryInv'
  BY <1>3, <1>4, EntryTypes DEF CreateTask, ScheduleTask
<1>5. ASSUME NEW t \in Tasks, TimerFires(t)
      PROVE  PlacesInv' /\ HistoryInv'
  <2>1. /\ UNCHANGED <<pc, item, submitted, events, leaked>>
        /\ timers' = timers \ {t} /\ t \in timers
        /\ StubEntry(t) \in Entries /\ StubEntry(t).id = t
    BY <1>5, EntryTypes DEF TimerFires, StubEntry
  <2>2. t \notin Queued
    BY <2>1 DEF PlacesInv
  <2>3. OneEntry' /\ Queued' = Queued \cup {t}
    BY <1>5, <2>1, <2>2, AppendQueued DEF TimerFires, PlacesInv
  <2>4. Pulled' = Pulled /\ Started' = Started /\ OneWorker'
    BY <1>1, <2>1
  <2>5. PlacesInv'
    BY <2>1, <2>3, <2>4 DEF PlacesInv
  <2>6. Rearranged
    BY <2>1, <2>3, <2>4 DEF Rearranged, Resting
  <2> QED
    BY <2>5, <2>6, RearrangedKeeps
<1> QED
  BY <1>2, <1>4, <1>5

(* The ends of executeTask. *)
LEMMA AnswersPlace ==
  ASSUME TInv, PlacesInv, HistoryInv, NEW l \in Loops, NEW e \in Outcomes,
         NEW from \in {"running", "losing"}, Settle(l, from),
         \/ e = "task:suspended" /\ timers' = timers \cup {item[l].id} /\ Answer(l, <<e>>)
         \/ e # "task:suspended" /\ timers' = timers /\ Answer(l, <<e>>)
         \/ e # "task:suspended" /\ timers' = timers /\ AnswerInTry(l, e)
  PROVE  PlacesInv' /\ HistoryInv'
<1> DEFINE t == item[l].id
<1>1. l \in Working /\ pc[l] \in {"running", "losing"}
      /\ UNCHANGED <<queueVars, submitted>>
  BY DEF Settle, Working
<1>2. t \in Tasks /\ t \in Started
  BY <1>1, WorkingTypes
<1>3. PICK names : /\ names = <<e>> \/ (e \in ThrowingEvents /\ names = <<e, "task:failed">>)
                   /\ e = "task:suspended" => names = <<e>>
                   /\ Emit(t, names)
                   /\ \/ /\ pc' = [pc EXCEPT ![l] = "settled"]
                         /\ UNCHANGED <<item, leaked>>
                      \/ Leak(l)
  BY DEF Answer, AnswerInTry
<1>4. PICK s \in {"settled", "nap"} : pc' = [pc EXCEPT ![l] = s]
  BY <1>3 DEF Leak
<1>5. /\ item' = item \/ item' = [item EXCEPT ![l] = NoEntry]
      /\ leaked' \in {leaked, leaked + 1}
  BY <1>3 DEF Leak
<1>6. timers' \in {timers, timers \cup {item[l].id}}
  OBVIOUS
<1>7. /\ PlacesInv' /\ Queued' = Queued
      /\ Pulled' = Pulled /\ Started' = Started \ {t}
  BY <1>1, <1>4, <1>5, <1>6, LeavePlaces
<1>8. \/ e # "task:suspended" /\ Resting' = Resting
      \/ Resting' = Resting \cup {t}
  BY <1>7 DEF Resting
<1>9. Started \subseteq submitted /\ submitted' = submitted
  BY <1>1 DEF PlacesInv
<1> HIDE DEF t
<1>10. HistoryInv'
  BY <1>2, <1>3, <1>5, <1>7, <1>8, <1>9, HistoryAnswers
<1> QED
  BY <1>7, <1>10

(* The start of executeTask. *)
LEMMA BeginStep ==
  ASSUME TInv, PlacesInv, HistoryInv, NEW l \in Loops, Begin(l)
  PROVE  PlacesInv' /\ HistoryInv'
<1> DEFINE t == item[l].id
<1>1. /\ l \in Working /\ pc[l] = "pulled" /\ t \in Tasks /\ t \in Pulled
      /\ UNCHANGED <<queueVars, submitted, timers>> /\ Emit(t, <<"task:started">>)
  BY WorkingTypes DEF Begin, Working
<1>2. t \in Resting /\ t \notin Started /\ t \notin Queued /\ t \notin timers
  BY <1>1, WorkingTypes DEF PlacesInv, Resting, Pulled, Started, Working, OneWorker
<1>3. Resting \subseteq submitted
  BY DEF PlacesInv, Resting
<1> HIDE DEF t
<1>4. CASE Leak(l)
  <2>1. PlacesInv' /\ Queued' = Queued /\ Pulled' = Pulled \ {t} /\ Started' = Started
    BY <1>1, <1>4, LeavePlaces DEF Leak, t
  <2>2. Resting' = Resting \ {t} /\ leaked' = leaked + 1
    BY <1>1, <1>2, <1>4, <2>1 DEF Resting, Leak
  <2> QED
    BY <1>1, <1>2, <1>3, <2>1, <2>2, HistoryStarts
<1>5. CASE /\ pc' = [pc EXCEPT ![l] = IF HasFrame(item[l]) THEN "running" ELSE "losing"]
           /\ UNCHANGED <<item, leaked>>
  <2>1. PICK s \in {"running", "losing"} : pc' = [pc EXCEPT ![l] = s]
    BY <1>5
  <2>2. PlacesInv' /\ Queued' = Queued /\ Pulled' = Pulled \ {t} /\ Started' = Started \cup {t}
    BY <1>1, <1>5, <2>1, BeginPlaces DEF t
  <2>3. Resting' = Resting \ {t}
    BY <1>1, <1>2, <2>2 DEF Resting
  <2> QED
    BY <1>1, <1>2, <1>3, <1>5, <2>2, <2>3, HistoryStarts
<1> QED
  BY <1>4, <1>5 DEF Begin

(* Any step. *)
LEMMA PlacesStep ==
  ASSUME TInv, OrphansInv, PlacesInv, HistoryInv, [Next]_vars
  PROVE  PlacesInv' /\ HistoryInv'
<1>1. CASE Recover \/ \E t \in Tasks : CreateTask(t) \/ ScheduleTask(t) \/ TimerFires(t)
  BY <1>1, ProducersPlace
<1>2. CASE RegisterIntentHandler \/ Stop \/ UNCHANGED vars
  <2>1. UNCHANGED <<recoveringTasks, executionQueue, timers, pc, item, submitted,
                    events, leaked>>
    BY <1>2 DEF RegisterIntentHandler, Stop, vars, queueVars, loopVars
  <2>2. PlacesInv' /\ Rearranged
    BY <2>1, PlacesStutter DEF Rearranged
  <2> QED
    BY <2>2, RearrangedKeeps
<1>3. CASE Start
  BY <1>3, StartPlaces, RearrangedKeeps
<1>4. ASSUME NEW l \in Loops, Wake(l) \/ Release(l)
      PROVE  PlacesInv' /\ HistoryInv'
  <2>1. l \notin Working /\ UNCHANGED <<timers, submitted, events, leaked>>
    BY <1>4 DEF Wake, Release, Working
  <2>2. PlacesInv' /\ Rearranged
    BY <1>4, <2>1, IteratePlaces DEF Wake, Release
  <2> QED
    BY <2>2, RearrangedKeeps
<1>5. ASSUME NEW l \in Loops,
             Resolve(l) \/ Reject(l) \/ TimeOut(l) \/ Suspend(l) \/ LoseContext(l)
      PROVE  PlacesInv' /\ HistoryInv'
  <2>1. /\ "task:resumed" \in Outcomes /\ "task:failed" \in Outcomes
        /\ "task:suspended" \in Outcomes
    BY DEF Outcomes
  <2>2. CASE Resolve(l)
    BY <2>1, <2>2, AnswersPlace DEF Resolve
  <2>3. CASE Reject(l) \/ TimeOut(l)
    BY <2>1, <2>3, AnswersPlace DEF Reject, TimeOut
  <2>4. CASE Suspend(l)
    BY <2>1, <2>4, AnswersPlace DEF Suspend
  <2>5. CASE LoseContext(l)
    BY <2>1, <2>5, AnswersPlace DEF LoseContext
  <2> QED
    BY <1>5, <2>2, <2>3, <2>4, <2>5
<1> QED
  BY <1>1, <1>2, <1>3, <1>4, <1>5, BeginStep DEF Next, LoopStep

(* At first there are no tasks anywhere. *)
LEMMA PlacesInit == Init => PlacesInv /\ HistoryInv
<1> SUFFICES ASSUME Init PROVE PlacesInv /\ HistoryInv
  OBVIOUS
<1>1. Waiting = << >> /\ Working = {}
  BY DEF Init, Waiting, Working
<1>2. Queued = {} /\ Pulled = {} /\ Started = {} /\ Resting = {} /\ Cut = {}
  BY <1>1 DEF Init, Queued, Pulled, Started, Resting, Cut
<1>3. PlacesInv
  BY <1>1, <1>2 DEF Init, PlacesInv, OneEntry, OneWorker
<1>4. \A t \in Tasks : InOrder(events[t])
  BY DEF Init, InOrder
<1>5. IsFiniteSet(Cut) /\ Cardinality(Cut) <= leaked
  BY <1>2, FS_EmptySet DEF Init
<1> QED
  BY <1>2, <1>3, <1>4, <1>5 DEF Init, HistoryInv

(* Places and histories fit together in every reachable state. *)
LEMMA PlacesCorrect == Spec => [](TInv /\ PlacesInv /\ HistoryInv)
<1>1. Init => OrphansInv
  BY DEF Init, OrphansInv
<1>2. TInv /\ OrphansInv /\ [Next]_vars => OrphansInv'
  BY OrphansStep
<1>3. TInv /\ OrphansInv /\ PlacesInv /\ HistoryInv /\ [Next]_vars => PlacesInv' /\ HistoryInv'
  BY PlacesStep
<1>4. Spec => []TInv
  BY TypeCorrect DEF TInv
<1> QED
  BY PlacesInit, <1>1, <1>2, <1>3, <1>4, PTL DEF Spec

(* A set without two different elements. *)
LEMMA AtMostOne ==
  ASSUME NEW S, \A x, y \in S : x = y
  PROVE  Cardinality(S) = IF S = {} THEN 0 ELSE 1
<1>1. CASE S = {}
  BY <1>1, FS_EmptySet
<1>2. CASE S # {}
  <2>1. PICK x \in S : S = {x}
    BY <1>2
  <2> QED
    BY <1>2, <2>1, FS_Singleton
<1> QED
  BY <1>1, <1>2

(* Counting the places of a task comes to whether it is in one.            *)
LEMMA CopiesCount ==
  ASSUME TInv, PlacesInv, NEW t \in Tasks
  PROVE  Copies(t) = IF t \in Resting \cup Started THEN 1 ELSE 0
<1> DEFINE a == {i \in 1..Len(recoveringTasks) : recoveringTasks[i].id = t}
           b == {i \in 1..Len(executionQueue) : executionQueue[i].id = t}
           c == {l \in Holding : item[l].id = t /\ pc[l] # "settled"}
           d == IF t \in timers THEN 1 ELSE 0
           n == Len(recoveringTasks)
<1>1. n \in Nat /\ Len(executionQueue) \in Nat
  BY WaitingParts
<1>2. \A i \in a : i \in 1..Len(Waiting) /\ Waiting[i].id = t
  BY <1>1, WaitingParts
<1>3. \A i \in b : n + i \in 1..Len(Waiting) /\ Waiting[n + i].id = t
  <2> SUFFICES ASSUME NEW i \in b
               PROVE  n + i \in 1..Len(Waiting) /\ Waiting[n + i].id = t
    OBVIOUS
  <2>1. n + i \in 1..Len(Waiting) /\ ~(n + i <= n) /\ n + i - n = i
    BY <1>1, WaitingParts
  <2> QED
    BY <2>1, WaitingParts
<1>4. Cardinality(a) = IF a = {} THEN 0 ELSE 1
  <2>1. \A i, j \in a : i = j
    BY <1>2 DEF PlacesInv, OneEntry
  <2> QED
    BY <2>1, AtMostOne
<1>5. Cardinality(b) = IF b = {} THEN 0 ELSE 1
  <2>1. ASSUME NEW i \in b, NEW j \in b PROVE i = j
    <3>1. n + i = n + j
      BY <1>3 DEF PlacesInv, OneEntry
    <3> QED
      BY <1>1, <3>1
  <2> QED
    BY <2>1, AtMostOne
<1>6. a = {} \/ b = {}
  <2> SUFFICES ASSUME NEW i \in a, NEW j \in b PROVE FALSE
    OBVIOUS
  <2>1. i = n + j
    BY <1>2, <1>3 DEF PlacesInv, OneEntry
  <2> QED
    BY <1>1, <2>1
<1>7. t \in Queued <=> a # {} \/ b # {}
  <2>1. ASSUME t \in Queued PROVE a # {} \/ b # {}
    <3>1. PICK i \in 1..Len(Waiting) : Waiting[i].id = t
      BY <2>1 DEF Queued
    <3>2. CASE i <= n
      BY <1>1, <3>1, <3>2, WaitingParts
    <3>3. CASE ~(i <= n)
      <4>1. i - n \in 1..Len(executionQueue)
        BY <1>1, <3>1, <3>3, WaitingParts
      <4> QED
        BY <3>1, <3>3, <4>1, WaitingParts
    <3> QED
      BY <3>2, <3>3
  <2> QED
    BY <1>2, <1>3, <2>1 DEF Queued
<1>8. Cardinality(c) = IF c = {} THEN 0 ELSE 1
  <2>1. c \subseteq Working
    BY DEF Holding, Working, TInv, TypeOK, HoldingInv, HoldingStates
  <2>2. \A l, m \in c : l = m
    BY <2>1 DEF PlacesInv, OneWorker
  <2> QED
    BY <2>2, AtMostOne
<1>9. t \in Pulled \cup Started <=> c # {}
  BY DEF Holding, Pulled, Started, TInv, TypeOK, HoldingInv, HoldingStates
<1>10. Copies(t) = Cardinality(a) + Cardinality(b) + Cardinality(c) + d
  BY DEF Copies
<1>11. ~(t \in Queued /\ t \in Pulled \cup Started)
       /\ ~(t \in timers /\ t \in Queued \cup Pulled \cup Started)
  BY DEF PlacesInv
<1> HIDE DEF a, b, c
<1> QED
  BY <1>4, <1>5, <1>6, <1>7, <1>8, <1>9, <1>10, <1>11 DEF Resting

(* No interleaving of loops, timers, restarts of the pool and throwing     *)
(* listeners brings a task to two places: it is never executed while it is *)
(* executing, nor queued while it waits for its timer.                     *)
THEOREM NeverTwice == Spec => []NoDoubleExecution
<1>1. TInv /\ PlacesInv => NoDoubleExecution
  BY CopiesCount DEF NoDoubleExecution
<1> QED
  BY <1>1, PlacesCorrect, PTL

(* CutShort, in terms of the started tasks. *)
LEMMA CutIsCutShort == TInv => Cut = CutShort
  BY DEF Cut, Last, CutShort, Started, TInv, TypeOK

(* A task that was handed to the scheduler is in a queue, in a loop or     *)
(* behind its timer, or it has been answered, for any number of tasks,     *)
(* loops and restarts: only an execution that a listener cut off at its    *)
(* announcement vanishes.                                                  *)
THEOREM NeverLost == Spec => []NoTaskLost
<1>1. TInv /\ PlacesInv /\ HistoryInv => NoTaskLost
  <2> SUFFICES ASSUME TInv, PlacesInv, HistoryInv, NEW t \in submitted
               PROVE  Copies(t) = 1 \/ Answered(t) \/ t \in CutShort
    BY DEF NoTaskLost
  <2>1. t \in Tasks
    BY DEF TInv, TypeOK
  <2> QED
    BY <2>1, CopiesCount, CutIsCutShort DEF HistoryInv
<1> QED
  BY <1>1, PlacesCorrect, PTL

(* Executions announce themselves in order: a start, then an outcome, then *)
(* possibly the failure that a listener caused; and each execution without *)
(* an outcome is among the slots that were leaked.                         *)
THEOREM OutcomesInOrder == Spec => []OneOutcomePerExecution
<1>1. TInv /\ HistoryInv => OneOutcomePerExecution
  BY CutIsCutShort DEF HistoryInv, InOrder, OneOutcomePerExecution
<1> QED
  BY <1>1, PlacesCorrect, PTL
=============================================================================
