------------------------- MODULE DurableContextProofs -------------------------
(***************************************************************************)
(* Proofs about DurableContext, for every number of steps, every placement *)
(* of sleeps, every duration and every number of deaths and rejections.    *)
(***************************************************************************)
EXTENDS DurableContext, SequenceTheorems, FiniteSetTheorems, TLAPS

-----------------------------------------------------------------------------
(* The inductive invariant. *)

(* The history of a sleep is a time, so that it can be subtracted from.    *)
SleepTimesInv == \A s \in SleepSteps : history[s] \in Times \cup {NoValue}

(* What was announced is the history, in program order. *)
JournalInv ==
  /\ Len(announced) <= NumSteps
  /\ \A s \in Steps : history[s] # NoValue <=> s <= Len(announced)
  /\ \A i \in 1..Len(announced) : announced[i] = [step |-> i, value |-> history[i]]

(* The handler is within its history, a function it awaits is that of the  *)
(* first step outside, and without a process there is no history.          *)
PosInv ==
  /\ \A s \in Steps : s <= pos => history[s] # NoValue
  /\ phase = "calling" => /\ pos < NumSteps
                          /\ history[pos + 1] = NoValue
                          /\ pos + 1 \notin SleepSteps
  /\ phase = "dead" => history = Empty

(* What invocations were given is what the history says. *)
GivenInv ==
  \A s \in Steps : \A v \in given[s] : history[s] # NoValue /\ v = history[s]

(* All calls of a function were rejected but the one whose result is in    *)
(* the history or that is awaited.                                         *)
CallsInv ==
  \A s \in Steps :
    /\ calls[s] <= rejected[s] + 1
    /\ (history[s] = NoValue /\ ~(phase = "calling" /\ s = pos + 1))
         => calls[s] <= rejected[s]

IInv ==
  /\ TypeOK
  /\ SleepTimesInv
  /\ JournalInv
  /\ PosInv
  /\ GivenInv
  /\ CallsInv

(* A sleep in the history ends a duration after it was begun, one that is  *)
(* not has not begun in this process; the handler is past a sleep only if  *)
(* its time has come, and a suspended one asks to be woken exactly then.   *)
SleepInv ==
  \A s \in SleepSteps :
    /\ history[s] = NoValue => bedtime[s] = NoValue
    /\ history[s] # NoValue => /\ bedtime[s] \in 0..MaxTime
                               /\ history[s] = bedtime[s] + Duration
    /\ s <= pos => now >= history[s]
    /\ (phase = "suspended" /\ s = pos + 1) => history[s] # NoValue /\ wakeAt = history[s]

-----------------------------------------------------------------------------
(* Types. *)

Assumptions ==
  /\ NumSteps \in Nat
  /\ SleepSteps \subseteq Steps
  /\ Duration \in Nat /\ MaxTime \in Nat
  /\ MaxCrashes \in Nat /\ MaxRejections \in Nat
  /\ NoValue \notin Values
  /\ NoValue \notin Times

(* What the modules assume of the constants, in the form the proofs use.   *)
LEMMA Constants == Assumptions
BY StepsAssumption, ClockAssumption, NoValueAssumption, BoundsAssumption
   DEF Assumptions, Values

(* A step that keeps a value keeps the types of the history and of the     *)
(* events.                                                                 *)
LEMMA KeepTyped ==
  ASSUME TypeOK, NEW s \in Steps, NEW v \in Values, Keep(s, v)
  PROVE  history' \in Histories /\ announced' \in Seq(Events)
<1>1. [step |-> s, value |-> v] \in Events
  BY DEF Events
<1>2. history' \in Histories
  BY DEF TypeOK, Keep, Histories
<1>3. announced' \in Seq(Events)
  BY <1>1, AppendProperties DEF TypeOK, Keep
<1>4. QED
  BY <1>2, <1>3

(* The initial state is in the invariant. *)
LEMMA InitInv == Init => IInv
<1> SUFFICES ASSUME Init PROVE IInv
  OBVIOUS
<1> USE Constants DEF Assumptions, Steps
<1>1. /\ Empty \in Histories /\ \A s \in Steps : Empty[s] = NoValue
      /\ Never \in [Steps -> Nat] /\ \A s \in Steps : Never[s] = 0
      /\ Nothing \in [Steps -> SUBSET Values] /\ \A s \in Steps : Nothing[s] = {}
  BY DEF Empty, Never, Nothing, Histories
<1>2. << >> \in Seq(Events) /\ Len(<< >>) = 0
  BY EmptySeq
<1>3. TypeOK
  BY <1>1, <1>2 DEF Init, TypeOK, Phases, Times, Empty
<1>4. SleepTimesInv /\ JournalInv
  BY <1>1, <1>2 DEF Init, SleepTimesInv, JournalInv
<1>5. PosInv /\ GivenInv /\ CallsInv
  BY <1>1 DEF Init, PosInv, GivenInv, CallsInv
<1>6. QED
  BY <1>3, <1>4, <1>5 DEF IInv

(* Every step keeps the types and the form of a sleep's history. *)
LEMMA Typed ==
  ASSUME IInv, [Next]_vars
  PROVE  TypeOK' /\ SleepTimesInv'
<1> USE Constants DEF Assumptions, Steps
<1>t. /\ TypeOK /\ SleepTimesInv /\ PosInv
      /\ now \in Nat /\ pos \in Nat /\ crashes \in Nat
      /\ Histories = [Steps -> Values \cup {NoValue}]
  BY DEF IInv, TypeOK, Histories
<1>e. /\ Empty \in Histories /\ Empty \in [Steps -> {NoValue}]
      /\ Never \in [Steps -> Nat] /\ Nothing \in [Steps -> SUBSET Values]
  BY DEF Empty, Never, Nothing, Histories
<1>d. now + Duration \in Times /\ now + Duration \in Values
  BY DEF IInv, TypeOK, Times, Values
<1>1. ASSUME NEW s \in Steps, FastForward(s)
      PROVE  TypeOK' /\ SleepTimesInv'
  <2>1. history[s] \in Values
    BY <1>t, <1>1 DEF FastForward, Known, TypeOK
  <2>2. given' \in [Steps -> SUBSET Values]
    BY <1>t, <1>1, <2>1 DEF FastForward, Return, TypeOK
  <2>3. QED
    BY <1>t, <1>1, <2>2 DEF FastForward, Return, TypeOK, SleepTimesInv
<1>2. ASSUME NEW s \in Steps, Call(s)
      PROVE  TypeOK' /\ SleepTimesInv'
  BY <1>t, <1>2 DEF Call, TypeOK, SleepTimesInv, Phases
<1>3. ASSUME NEW s \in Steps, NEW v \in Results, FnReturns(s, v)
      PROVE  TypeOK' /\ SleepTimesInv'
  <2>1. v \in Values
    BY DEF Values
  <2>2. history' \in Histories /\ announced' \in Seq(Events)
    BY <1>t, <1>3, <2>1, KeepTyped DEF FnReturns
  <2>3. given' \in [Steps -> SUBSET Values]
    BY <1>t, <1>3, <2>1 DEF FnReturns, Return, TypeOK
  <2>4. TypeOK'
    <3>1. /\ pos' = s /\ phase' = "ready"
          /\ UNCHANGED <<now, wakeAt, calls, rejected, bedtime, crashes>>
      BY <1>3 DEF FnReturns, Return
    <3>2. pos' \in 0..NumSteps /\ phase' \in Phases
      BY <3>1 DEF Phases
    <3>3. QED
      BY <1>t, <2>2, <2>3, <3>1, <3>2 DEF TypeOK
  <2>5. s \notin SleepSteps
    BY <1>t, <1>3 DEF FnReturns, PosInv
  <2>6. SleepTimesInv'
    BY <1>t, <1>3, <2>5 DEF FnReturns, Keep, SleepTimesInv, TypeOK
  <2>7. QED
    BY <2>4, <2>6
<1>4. ASSUME NEW s \in Steps, FnThrows(s)
      PROVE  TypeOK' /\ SleepTimesInv'
  BY <1>t, <1>4 DEF FnThrows, TypeOK, SleepTimesInv, Phases
<1>5. ASSUME NEW s \in Steps, SleepBegins(s)
      PROVE  TypeOK' /\ SleepTimesInv'
  <2>1. history' \in Histories /\ announced' \in Seq(Events)
    BY <1>t, <1>d, <1>5, KeepTyped DEF SleepBegins
  <2>2. bedtime' \in [Steps -> 0..MaxTime \cup {NoValue}]
    BY <1>t, <1>5 DEF SleepBegins, TypeOK
  <2>3. TypeOK'
    BY <1>t, <1>d, <1>5, <2>1, <2>2 DEF SleepBegins, Suspend, TypeOK, Phases, callVars
  <2>4. SleepTimesInv'
    BY <1>t, <1>d, <1>5 DEF SleepBegins, Keep, SleepTimesInv, TypeOK
  <2>5. QED
    BY <2>3, <2>4
<1>6. ASSUME NEW s \in Steps, SleepEnds(s)
      PROVE  TypeOK' /\ SleepTimesInv'
  BY <1>t, <1>6 DEF SleepEnds, TypeOK, SleepTimesInv, ghostVars, callVars
<1>7. ASSUME NEW s \in Steps, SleepGoesOn(s)
      PROVE  TypeOK' /\ SleepTimesInv'
  <2>1. history[s] \in Times
    BY <1>t, <1>7 DEF SleepGoesOn, Known, SleepTimesInv
  <2>2. wakeAt' = history[s]
    BY <1>t, <1>7, <2>1 DEF SleepGoesOn, Suspend, Left, Times
  <2>3. QED
    BY <1>t, <1>7, <2>1, <2>2 DEF SleepGoesOn, Suspend, TypeOK, SleepTimesInv,
       Phases, ghostVars, callVars
<1>8. CASE HandlerReturns \/ Tick \/ Resume \/ WakeUp
  BY <1>t, <1>8 DEF HandlerReturns, Tick, Resume, WakeUp, Invoke, TypeOK,
     SleepTimesInv, Phases, ghostVars, callVars
<1>9. CASE Die
  <2>1. << >> \in Seq(Events) /\ \A s \in Steps : Empty[s] = NoValue
    BY EmptySeq DEF Empty
  <2>2. QED
    BY <1>t, <1>e, <1>9, <2>1 DEF Die, TypeOK, SleepTimesInv, Phases
<1>10. CASE Recover
  <2>1. \A s \in Steps : Empty[s] = NoValue
    BY DEF Empty
  <2>2. QED
    BY <1>t, <1>e, <1>10, <2>1 DEF Recover, Invoke, TypeOK, SleepTimesInv, Phases,
       ghostVars, callVars
<1>11. CASE UNCHANGED vars
  BY <1>t, <1>11 DEF vars, ghostVars, callVars, TypeOK, SleepTimesInv
<1>12. QED
  BY <1>1, <1>2, <1>3, <1>4, <1>5, <1>6, <1>7, <1>8, <1>9, <1>10, <1>11 DEF Next

-----------------------------------------------------------------------------
(* The journal. *)

(* Keeping the first unknown step extends the journal at its end. *)
LEMMA KeepExtends ==
  ASSUME TypeOK, PosInv, JournalInv,
         NEW s \in Steps, s = pos + 1, history[s] = NoValue,
         NEW v \in Values, Keep(s, v)
  PROVE  JournalInv' /\ s = Len(announced) + 1
<1> USE Constants DEF Assumptions, Steps
<1>1. /\ announced \in Seq(Events) /\ Len(announced) \in Nat
      /\ pos \in Nat
      /\ history \in [Steps -> Values \cup {NoValue}]
  BY LenProperties DEF TypeOK, Histories
<1>2. s = Len(announced) + 1
  <2>1. s > Len(announced)
    BY <1>1 DEF JournalInv
  <2>2. \A r \in Steps : r < s => r <= Len(announced)
    BY <1>1 DEF JournalInv, PosInv
  <2>3. CASE s = 1
    BY <1>1, <2>1, <2>3
  <2>4. CASE s > 1
    <3>1. s - 1 \in Steps /\ s - 1 < s
      BY <2>4
    <3>2. QED
      BY <1>1, <2>1, <2>2, <3>1
  <2>5. QED
    BY <2>3, <2>4
<1>3. history' = [history EXCEPT ![s] = v]
      /\ announced' = Append(announced, [step |-> s, value |-> v])
  BY DEF Keep
<1>4. /\ Len(announced') = Len(announced) + 1
      /\ announced'[Len(announced) + 1] = [step |-> s, value |-> v]
      /\ \A i \in 1..Len(announced) : announced'[i] = announced[i]
  <2>1. [step |-> s, value |-> v] \in Events
    BY DEF Events
  <2>2. QED
    BY <1>1, <1>3, <2>1, AppendProperties
<1>5. Len(announced') <= NumSteps
  BY <1>1, <1>2, <1>4
<1>6. \A r \in Steps : history'[r] # NoValue <=> r <= Len(announced')
  BY <1>1, <1>2, <1>3, <1>4 DEF JournalInv
<1>7. ASSUME NEW i \in 1..Len(announced')
      PROVE  announced'[i] = [step |-> i, value |-> history'[i]]
  <2>1. CASE i = Len(announced) + 1
    BY <1>1, <1>2, <1>3, <1>4, <2>1
  <2>2. CASE i <= Len(announced)
    <3>i. i \in 1..Len(announced)
      BY <1>1, <1>4, <2>2
    <3>1. announced'[i] = [step |-> i, value |-> history[i]]
      BY <1>4, <3>i DEF JournalInv
    <3>2. history'[i] = history[i]
      BY <1>1, <1>2, <1>3, <3>i
    <3>3. QED
      BY <3>1, <3>2
  <2>3. QED
    BY <1>1, <1>4, <2>1, <2>2
<1>8. QED
  BY <1>2, <1>5, <1>6, <1>7 DEF JournalInv

(* No step breaks the journal. *)
LEMMA JournalKept ==
  ASSUME IInv, [Next]_vars
  PROVE  JournalInv'
<1> USE Constants DEF Assumptions, Steps
<1>t. TypeOK /\ PosInv /\ JournalInv
  BY DEF IInv
<1>1. ASSUME history' = history, announced' = announced
      PROVE  JournalInv'
  BY <1>t, <1>1 DEF JournalInv
<1>2. ASSUME NEW s \in Steps, NEW v \in Results, FnReturns(s, v)
      PROVE  JournalInv'
  BY <1>t, <1>2, KeepExtends DEF FnReturns, PosInv, Values
<1>3. ASSUME NEW s \in Steps, SleepBegins(s)
      PROVE  JournalInv'
  <2>1. now + Duration \in Values
    BY <1>t DEF TypeOK, Values, Times
  <2>2. QED
    BY <1>t, <1>3, <2>1, KeepExtends DEF SleepBegins, At, Known
<1>4. CASE Die
  <2>1. history' = Empty /\ announced' = << >> /\ Len(announced') = 0
    BY <1>4, EmptySeq DEF Die
  <2>2. QED
    BY <2>1 DEF JournalInv, Empty
<1>5. QED
  BY <1>t, <1>1, <1>2, <1>3, <1>4 DEF Next, PosInv, FastForward, Call, FnThrows,
     SleepEnds, SleepGoesOn, HandlerReturns, Tick, Resume, WakeUp, Recover, Invoke, vars

-----------------------------------------------------------------------------
(* The invocation. *)

(* No step takes the handler out of its history, and what it was given     *)
(* stays what the history says: the history of a context only gains steps  *)
(* until it dies.                                                          *)
LEMMA InvocationKept ==
  ASSUME IInv, [Next]_vars
  PROVE  PosInv' /\ GivenInv'
<1> USE Constants DEF Assumptions, Steps
<1>t. /\ PosInv /\ GivenInv
      /\ pos \in 0..NumSteps
      /\ history \in [Steps -> Values \cup {NoValue}]
      /\ given \in [Steps -> SUBSET Values]
  BY DEF IInv, TypeOK, Histories
<1>1. ASSUME NEW s \in Steps, FastForward(s)
      PROVE  PosInv' /\ GivenInv'
  <2>1. /\ history' = history /\ pos' = s /\ s = pos + 1 /\ phase' = "ready"
        /\ given' = [given EXCEPT ![s] = @ \cup {history[s]}] /\ history[s] # NoValue
    BY <1>1 DEF FastForward, Return, At, Known
  <2>2. PosInv'
    BY <1>t, <2>1 DEF PosInv
  <2>3. GivenInv'
    BY <1>t, <2>1 DEF GivenInv
  <2>4. QED
    BY <2>2, <2>3
<1>2. ASSUME NEW s \in Steps, Call(s)
      PROVE  PosInv' /\ GivenInv'
  BY <1>t, <1>2 DEF Call, At, Known, PosInv, GivenInv
<1>3. ASSUME NEW s \in Steps, NEW v \in Results, FnReturns(s, v)
      PROVE  PosInv' /\ GivenInv'
  <2>1. v # NoValue /\ history[s] = NoValue /\ s = pos + 1
    BY <1>t, <1>3 DEF FnReturns, PosInv, Values
  <2>2. /\ history' = [history EXCEPT ![s] = v] /\ pos' = s
        /\ given' = [given EXCEPT ![s] = @ \cup {v}] /\ phase' = "ready"
    BY <1>3 DEF FnReturns, Keep, Return
  <2>3. PosInv'
    BY <1>t, <2>1, <2>2 DEF PosInv
  <2>4. GivenInv'
    <3>1. given[s] = {}
      BY <1>t, <2>1 DEF GivenInv
    <3>2. QED
      BY <1>t, <2>1, <2>2, <3>1 DEF GivenInv
  <2>5. QED
    BY <2>3, <2>4
<1>4. ASSUME NEW s \in Steps, SleepBegins(s)
      PROVE  PosInv' /\ GivenInv'
  <2>1. now + Duration # NoValue
    BY DEF IInv, TypeOK, Times
  <2>2. /\ history' = [history EXCEPT ![s] = now + Duration] /\ pos' = pos
        /\ given' = given /\ phase' = "suspended" /\ history[s] = NoValue
    BY <1>4 DEF SleepBegins, Keep, Suspend, Known, callVars
  <2>3. QED
    BY <1>t, <2>1, <2>2 DEF PosInv, GivenInv
<1>5. ASSUME NEW s \in Steps, SleepEnds(s) \/ SleepGoesOn(s) \/ FnThrows(s)
      PROVE  PosInv' /\ GivenInv'
  BY <1>t, <1>5 DEF SleepEnds, SleepGoesOn, FnThrows, Suspend, At, Known, PosInv,
     GivenInv, ghostVars, callVars
<1>6. CASE HandlerReturns \/ Tick \/ WakeUp \/ UNCHANGED vars
  BY <1>t, <1>6 DEF HandlerReturns, Tick, WakeUp, PosInv, GivenInv, ghostVars,
     callVars, vars
<1>7. CASE Resume \/ Recover
  <2>1. /\ pos' = 0 /\ phase' = "ready" /\ given' = given /\ history' = history
    BY <1>t, <1>7 DEF Resume, Recover, Invoke, PosInv, ghostVars, callVars
  <2>2. QED
    BY <1>t, <2>1 DEF PosInv, GivenInv
<1>8. CASE Die
  <2>1. /\ pos' = 0 /\ phase' = "dead" /\ given' = Nothing /\ history' = Empty
        /\ Empty' = Empty
    BY <1>8 DEF Die, Empty
  <2>2. QED
    BY <2>1 DEF PosInv, GivenInv, Nothing
<1>9. QED
  BY <1>1, <1>2, <1>3, <1>4, <1>5, <1>6, <1>7, <1>8 DEF Next

(* A step whose result is kept needs no exemption in CallsInv any more.    *)
LEMMA KeepingKeepsCalls ==
  ASSUME TypeOK, CallsInv, NEW s \in Steps, NEW v, v # NoValue,
         history' = [history EXCEPT ![s] = v],
         phase = "ready" \/ s = pos + 1,
         calls' = calls, rejected' = rejected
  PROVE  CallsInv'
<1>1. history \in [Steps -> Values \cup {NoValue}]
  BY DEF TypeOK, Histories
<1>2. ASSUME NEW r \in Steps, history'[r] = NoValue
      PROVE  calls[r] <= rejected[r]
  <2>1. r # s /\ history[r] = NoValue
    BY <1>1, <1>2
  <2>2. ~(phase = "calling" /\ r = pos + 1)
    BY <2>1
  <2>3. QED
    BY <2>1, <2>2 DEF CallsInv
<1>3. \A r \in Steps : calls[r] <= rejected[r] + 1
  BY DEF CallsInv
<1>4. QED
  BY <1>2, <1>3 DEF CallsInv

(* No step calls a function once more than the rejections account for. *)
LEMMA CallsKept ==
  ASSUME IInv, [Next]_vars
  PROVE  CallsInv'
<1> USE Constants DEF Assumptions, Steps
<1>t. /\ CallsInv /\ PosInv
      /\ pos \in 0..NumSteps
      /\ history \in [Steps -> Values \cup {NoValue}]
      /\ calls \in [Steps -> Nat] /\ rejected \in [Steps -> Nat]
  BY DEF IInv, TypeOK, Histories
<1>1. ASSUME NEW s \in Steps, FastForward(s) \/ SleepEnds(s)
      PROVE  CallsInv'
  BY <1>t, <1>1 DEF FastForward, SleepEnds, At, CallsInv, ghostVars, callVars
<1>2. ASSUME NEW s \in Steps, Call(s)
      PROVE  CallsInv'
  <2>1. /\ history[s] = NoValue /\ s = pos + 1 /\ phase = "ready"
    BY <1>2 DEF Call, At, Known
  <2>2. /\ calls' = [calls EXCEPT ![s] = @ + 1] /\ phase' = "calling"
        /\ history' = history /\ pos' = pos /\ rejected' = rejected
    BY <1>2 DEF Call
  <2>3. ASSUME NEW r \in Steps, r # s PROVE CallsInv!(r)'
    BY <1>t, <2>1, <2>2, <2>3 DEF CallsInv
  <2>4. CallsInv!(s)'
    BY <1>t, <2>1, <2>2 DEF CallsInv
  <2>5. QED
    BY <2>3, <2>4 DEF CallsInv
<1>3. ASSUME NEW s \in Steps, NEW v \in Results, FnReturns(s, v)
      PROVE  CallsInv'
  <2>1. v # NoValue /\ s = pos + 1
    BY <1>3 DEF FnReturns, Values
  <2>2. /\ history' = [history EXCEPT ![s] = v] /\ phase = "calling"
        /\ calls' = calls /\ rejected' = rejected
    BY <1>3 DEF FnReturns, Keep
  <2>3. QED
    BY <2>1, <2>2, KeepingKeepsCalls DEF IInv
<1>4. ASSUME NEW s \in Steps, FnThrows(s)
      PROVE  CallsInv'
  <2>1. /\ s = pos + 1 /\ phase = "calling" /\ phase' \in {"failed", "ready"}
        /\ rejected' = [rejected EXCEPT ![s] = @ + 1]
        /\ calls' = calls /\ history' = history /\ pos' = pos
    BY <1>4 DEF FnThrows
  <2>2. ASSUME NEW r \in Steps, r # s PROVE CallsInv!(r)'
    BY <1>t, <2>1, <2>2 DEF CallsInv
  <2>3. CallsInv!(s)'
    BY <1>t, <2>1 DEF CallsInv
  <2>4. QED
    BY <2>2, <2>3 DEF CallsInv
<1>5. ASSUME NEW s \in Steps, SleepBegins(s)
      PROVE  CallsInv'
  <2>1. /\ history' = [history EXCEPT ![s] = now + Duration]
        /\ phase = "ready" /\ calls' = calls /\ rejected' = rejected
    BY <1>5 DEF SleepBegins, Keep, At, callVars
  <2>2. now + Duration # NoValue
    BY DEF IInv, TypeOK, Times
  <2>3. QED
    BY <2>1, <2>2, KeepingKeepsCalls DEF IInv
<1>6. ASSUME NEW s \in Steps, SleepGoesOn(s)
      PROVE  CallsInv'
  BY <1>t, <1>6 DEF SleepGoesOn, Suspend, At, CallsInv, ghostVars, callVars
<1>7. CASE HandlerReturns \/ Tick \/ WakeUp \/ UNCHANGED vars
  BY <1>t, <1>7 DEF HandlerReturns, Tick, WakeUp, CallsInv, ghostVars, callVars, vars
<1>8. CASE Resume \/ Recover
  <2>1. /\ phase # "calling" /\ calls' = calls /\ rejected' = rejected
        /\ history' = history
    BY <1>t, <1>8 DEF Resume, Recover, Invoke, PosInv, ghostVars, callVars
  <2>2. QED
    BY <1>t, <2>1 DEF CallsInv
<1>9. CASE Die
  BY <1>9 DEF Die, CallsInv, Never
<1>10. QED
  BY <1>1, <1>2, <1>3, <1>4, <1>5, <1>6, <1>7, <1>8, <1>9 DEF Next

-----------------------------------------------------------------------------
(* Sleeps. *)

(* No step moves the end of a sleep that has begun, or takes the handler   *)
(* past it too early; a death ends all sleeps, and the clock goes on.      *)
LEMMA SleepsKept ==
  ASSUME IInv, SleepInv, [Next]_vars
  PROVE  SleepInv'
<1> USE Constants DEF Assumptions, Steps
<1>t. /\ PosInv /\ SleepTimesInv
      /\ now \in Nat /\ pos \in 0..NumSteps /\ wakeAt \in Nat
      /\ history \in [Steps -> Values \cup {NoValue}]
      /\ bedtime \in [Steps -> 0..MaxTime \cup {NoValue}]
      /\ \A s \in SleepSteps : history[s] # NoValue => history[s] \in Nat
  BY DEF IInv, TypeOK, Histories, Times, SleepTimesInv
<1>1. ASSUME NEW s \in Steps, FastForward(s) \/ SleepEnds(s)
      PROVE  SleepInv'
  BY <1>t, <1>1 DEF FastForward, SleepEnds, Elapsed, Return, At, SleepInv,
     ghostVars, callVars
<1>2. ASSUME NEW s \in Steps, Call(s) \/ FnThrows(s)
      PROVE  SleepInv'
  BY <1>t, <1>2 DEF Call, FnThrows, At, SleepInv
<1>3. ASSUME NEW s \in Steps, NEW v \in Results, FnReturns(s, v)
      PROVE  SleepInv'
  <2>1. /\ history' = [history EXCEPT ![s] = v] /\ pos' = s /\ s = pos + 1
        /\ phase' = "ready" /\ now' = now /\ bedtime' = bedtime /\ wakeAt' = wakeAt
    BY <1>3 DEF FnReturns, Keep, Return
  <2>2. s \notin SleepSteps
    BY <1>t, <1>3 DEF FnReturns, PosInv
  <2>3. QED
    BY <1>t, <2>1, <2>2 DEF SleepInv
<1>4. ASSUME NEW s \in Steps, SleepBegins(s)
      PROVE  SleepInv'
  <2>1. /\ history' = [history EXCEPT ![s] = now + Duration] /\ pos' = pos
        /\ s = pos + 1 /\ phase' = "suspended" /\ wakeAt' = now + Duration
        /\ now' = now /\ s \in SleepSteps /\ history[s] = NoValue
    BY <1>4 DEF SleepBegins, Keep, Suspend, At, Known
  <2>2. now \in 0..MaxTime
    BY DEF IInv, TypeOK
  <2>b. bedtime' = [bedtime EXCEPT ![s] = now]
    BY <1>4, <2>1 DEF SleepBegins, SleepInv
  <2>3. ASSUME NEW r \in SleepSteps, r # s
        PROVE  history'[r] = history[r] /\ bedtime'[r] = bedtime[r]
    BY <1>t, <2>1, <2>b, <2>3
  <2>4. history'[s] = now + Duration /\ bedtime'[s] = now
    BY <1>t, <2>1, <2>b
  <2>5. ASSUME NEW r \in SleepSteps, r # s PROVE SleepInv!(r)'
    <3>1. r # pos' + 1
      BY <1>t, <2>1, <2>5
    <3>2. QED
      BY <1>t, <2>1, <2>3, <2>5, <3>1 DEF SleepInv
  <2>6. SleepInv!(s)'
    <3>1. now + Duration \in Nat /\ now + Duration # NoValue
      BY <2>2 DEF Times
    <3>2. QED
      BY <1>t, <2>1, <2>2, <2>4, <3>1
  <2>7. QED
    BY <2>5, <2>6 DEF SleepInv
<1>5. ASSUME NEW s \in Steps, SleepGoesOn(s)
      PROVE  SleepInv'
  <2>1. /\ s \in SleepSteps /\ history[s] # NoValue /\ s = pos + 1
        /\ phase' = "suspended" /\ wakeAt' = now + (history[s] - now)
        /\ UNCHANGED <<now, pos, history, bedtime>>
    BY <1>5 DEF SleepGoesOn, Suspend, Left, At, Known, ghostVars
  <2>2. wakeAt' = history[s]
    BY <1>t, <2>1
  <2>3. QED
    BY <1>t, <2>1, <2>2 DEF SleepInv
<1>6. CASE HandlerReturns \/ Tick \/ WakeUp \/ UNCHANGED vars
  <2>1. /\ UNCHANGED <<pos, history, bedtime, wakeAt>>
        /\ now' = now \/ now' = now + 1
        /\ phase' = "suspended" => phase = "suspended"
    BY <1>6 DEF HandlerReturns, Tick, WakeUp, ghostVars, vars
  <2>2. QED
    BY <1>t, <2>1 DEF SleepInv, PosInv
<1>7. CASE Resume \/ Recover
  <2>1. pos' = 0 /\ phase' = "ready" /\ UNCHANGED <<history, bedtime>>
    BY <1>t, <1>7 DEF Resume, Recover, Invoke, PosInv, ghostVars
  <2>2. QED
    BY <2>1 DEF SleepInv
<1>8. CASE Die
  BY <1>8 DEF Die, SleepInv, Empty
<1>9. QED
  BY <1>1, <1>2, <1>3, <1>4, <1>5, <1>6, <1>7, <1>8 DEF Next

-----------------------------------------------------------------------------
(* Theorems. *)

(* The invariant the others are read off: the events are the history, the  *)
(* handler is within it, and what was given and called agrees with it.     *)
THEOREM Invariance == Spec => []IInv
<1>1. IInv /\ [Next]_vars => IInv'
  BY Typed, JournalKept, InvocationKept, CallsKept DEF IInv
<1>2. QED
  BY InitInv, <1>1, PTL DEF Spec

(* The variables keep their types, whatever the handler, the clock and the *)
(* caller do.                                                              *)
THEOREM TypeCorrect == Spec => []TypeOK
<1>1. IInv => TypeOK
  BY DEF IInv
<1>2. QED
  BY Invariance, <1>1, PTL

(* Replays are faithful: in the life of a process all invocations are      *)
(* given one and the same result for a step.                               *)
THEOREM ReplaysAreFaithful == Spec => []ReplayIsFaithful
<1>1. IInv => ReplayIsFaithful
  <2> SUFFICES ASSUME IInv, NEW s \in Steps
               PROVE  Cardinality(given[s]) <= 1
    BY DEF ReplayIsFaithful
  <2>1. given[s] \subseteq {history[s]}
    BY DEF IInv, GivenInv
  <2>2. /\ IsFiniteSet({history[s]}) /\ Cardinality({history[s]}) = 1
    BY FS_Singleton
  <2>3. QED
    BY <2>1, <2>2, FS_Subset
<1>2. QED
  BY Invariance, <1>1, PTL

(* In the life of a process a step's function is called at most once more  *)
(* than it rejected.                                                       *)
THEOREM EffectsAreBounded == Spec => []EffectsBounded
<1>1. IInv => EffectsBounded
  BY DEF IInv, CallsInv, EffectsBounded
<1>2. QED
  BY Invariance, <1>1, PTL

(* The sleeps of a handler keep their times in every reachable state.      *)
LEMMA SleepInvariance == Spec => []SleepInv
<1>1. Init => SleepInv
  BY Constants DEF Init, SleepInv, Empty, Assumptions, Steps
<1>2. IInv /\ SleepInv /\ [Next]_vars => SleepInv'
  BY SleepsKept
<1>3. QED
  BY Invariance, <1>1, <1>2, PTL DEF Spec

(* No handler gets past a sleep before its duration has gone by, however   *)
(* early and often it is called again.                                     *)
THEOREM SleepsAreLongEnough == Spec => []SleepsLongEnough
<1>1. IInv /\ SleepInv => SleepsLongEnough
  <2> SUFFICES ASSUME IInv, SleepInv, NEW s \in SleepSteps, pos >= s
               PROVE  now >= bedtime[s] + Duration
    BY DEF SleepsLongEnough
  <2>1. s \in Steps /\ s <= pos
    BY Constants DEF Assumptions, Steps, IInv, TypeOK
  <2>2. history[s] # NoValue
    BY <2>1 DEF IInv, PosInv
  <2>3. QED
    BY <2>1, <2>2 DEF SleepInv
<1>2. QED
  BY Invariance, SleepInvariance, <1>1, PTL

(* No suspension asks to be woken after the end of the sleep it is for.    *)
THEOREM SleepsAreNotTooLong == Spec => []NeverOversleeps
<1>1. IInv /\ SleepInv => NeverOversleeps
  <2> SUFFICES ASSUME IInv, SleepInv, NEW s \in SleepSteps,
                      phase = "suspended", pos = s - 1
               PROVE  wakeAt <= bedtime[s] + Duration
    BY DEF NeverOversleeps
  <2>1. s = pos + 1
    BY Constants DEF Assumptions, Steps
  <2>2. wakeAt = bedtime[s] + Duration /\ wakeAt \in Nat
    BY <2>1 DEF SleepInv, IInv, TypeOK, Times
  <2>3. QED
    BY <2>2
<1>2. QED
  BY Invariance, SleepInvariance, <1>1, PTL

(* The events implement the abstract workflow: one step at a time, in      *)
(* program order, no step twice until the process dies.                    *)
THEOREM Refinement == Spec => ImplementsWorkflow
<1>1. Init => Workflow!Init
  BY DEF Init, Workflow!Init
<1>2. IInv /\ [Next]_vars => [Workflow!Next]_<<announced, crashes>>
  <2> SUFFICES ASSUME IInv, [Next]_vars
               PROVE  Workflow!Next \/ UNCHANGED <<announced, crashes>>
    OBVIOUS
  <2>1. TypeOK /\ PosInv /\ JournalInv
    BY DEF IInv
  <2>2. ASSUME NEW s \in Steps, s = pos + 1, history[s] = NoValue,
               NEW v \in Values, Keep(s, v), crashes' = crashes
        PROVE  Workflow!Next
    <3>1. s = Len(announced) + 1
      BY <2>1, <2>2, KeepExtends
    <3>2. Len(announced) < NumSteps
      BY <2>1, <3>1, Constants, LenProperties DEF Assumptions, Steps, TypeOK
    <3>3. Workflow!Record(v)
      BY <2>2, <3>1, <3>2 DEF Keep, Workflow!Record
    <3>4. QED
      BY <3>3 DEF Workflow!Next
  <2>3. ASSUME NEW s \in Steps, NEW v \in Results, FnReturns(s, v)
        PROVE  Workflow!Next
    BY <2>1, <2>2, <2>3 DEF FnReturns, PosInv, Values
  <2>4. ASSUME NEW s \in Steps, SleepBegins(s)
        PROVE  Workflow!Next
    <3>1. now + Duration \in Values
      BY <2>1, Constants DEF TypeOK, Values, Times, Assumptions
    <3>2. QED
      BY <2>1, <2>2, <2>4, <3>1 DEF SleepBegins, At, Known
  <2>5. CASE Die
    BY <2>5 DEF Die, Workflow!Next, Workflow!Die
  <2>6. QED
    BY <2>3, <2>4, <2>5 DEF Next, FastForward, Call, FnThrows, SleepEnds,
       SleepGoesOn, HandlerReturns, Tick, Resume, WakeUp, Recover, vars, ghostVars
<1>3. QED
  BY Invariance, <1>1, <1>2, PTL DEF Spec, ImplementsWorkflow, Workflow!Spec
=============================================================================
