-------------------------- MODULE AgentEngineProofs --------------------------
(***************************************************************************)
(* Proofs about AgentEngine, for any number of agents, dashboards and      *)
(* loops, any number of tool calls and all timeouts the engine may have.   *)
(***************************************************************************)
EXTENDS AgentEngine, FiniteSetTheorems, SequenceTheorems, TLAPS

-----------------------------------------------------------------------------
(* Facts about the bus's lists. *)

Has(list, handler) == \E i \in DOMAIN list : list[i] = handler

Once(list, handler) ==
  \A i, j \in DOMAIN list : list[i] = handler /\ list[j] = handler => i = j

(* on adds its handler and leaves the others where they are. *)
LEMMA OnAdds ==
  ASSUME NEW S, NEW list \in Seq(S), NEW h \in S
  PROVE  /\ On(list, h) \in Seq(S)
         /\ Has(On(list, h), h)
         /\ ~Has(list, h) => Once(On(list, h), h)
         /\ \A x : x # h => /\ Has(On(list, h), x) <=> Has(list, x)
                            /\ Once(list, x) => Once(On(list, h), x)
<1> DEFINE new == On(list, h)
<1>1. /\ new \in Seq(S) /\ Len(new) = Len(list) + 1
      /\ new[Len(list) + 1] = h
      /\ \A i \in 1..Len(list) : new[i] = list[i]
  BY AppendProperties DEF On
<1>2. Len(list) \in Nat /\ DOMAIN list = 1..Len(list) /\ DOMAIN new = 1..Len(new)
  BY <1>1, LenProperties
<1> HIDE DEF new
<1>3. \A i \in DOMAIN new : i = Len(list) + 1 \/ (i \in DOMAIN list /\ new[i] = list[i])
  BY <1>1, <1>2
<1>4. \A i \in DOMAIN list : i \in DOMAIN new
  BY <1>1, <1>2
<1>5. Len(list) + 1 \in DOMAIN new
  BY <1>1, <1>2
<1>6. Has(new, h)
  BY <1>1, <1>5 DEF Has
<1>7. ~Has(list, h) => Once(new, h)
  BY <1>3 DEF Has, Once
<1>8. ASSUME NEW x, x # h
      PROVE  (Has(new, x) <=> Has(list, x)) /\ (Once(list, x) => Once(new, x))
  BY <1>1, <1>2, <1>3, <1>4, <1>8 DEF Has, Once
<1> QED
  BY <1>1, <1>6, <1>7, <1>8 DEF new

(* off takes its handler out and leaves the others registered, in order.   *)
LEMMA OffRemoves ==
  ASSUME NEW S, NEW list \in Seq(S), NEW h, Once(list, h)
  PROVE  /\ Off(list, h) \in Seq(S)
         /\ ~Has(Off(list, h), h)
         /\ \A x : x # h => /\ Has(Off(list, h), x) <=> Has(list, x)
                            /\ Once(list, x) => Once(Off(list, h), x)
<1>0. Len(list) \in Nat /\ DOMAIN list = 1..Len(list)
  BY LenProperties
<1>1. CASE ~Has(list, h)
  BY <1>0, <1>1 DEF Has, Off, RemoveFirst
<1>2. CASE Has(list, h)
  <2>1. PICK k \in 1..Len(list) : list[k] = h
    BY <1>0, <1>2 DEF Has
  <2>2. \A i \in 1..Len(list) : list[i] = h <=> i = k
    BY <1>0, <2>1 DEF Once
  <2> DEFINE I == {i \in 1..Len(list) : list[i] = h}
             front == SubSeq(list, 1, k - 1)
             back == SubSeq(list, k + 1, Len(list))
             new == Off(list, h)
  <2>3. I = {k}
    BY <2>1, <2>2
  <2>4. Min(I) = k
    BY <2>1, <2>3 DEF Min
  <2>5. SelectInSeq(list, LAMBDA v : v = h) = k
    <3>1. SelectInSeq(list, LAMBDA v : v = h) = IF I # {} THEN Min(I) ELSE 0
      BY DEF SelectInSeq
    <3> HIDE DEF I
    <3>2. QED
      BY <3>1, <2>3, <2>4
  <2>6. new = front \o back
    BY <2>1, <2>5 DEF Off, RemoveFirst, RemoveAt
  <2>7. /\ front \in Seq(S) /\ Len(front) = k - 1
        /\ \A i \in 1..(k - 1) : front[i] = list[i]
    BY <1>0, <2>1, SubSeqProperties, ElementOfSeq
  <2>8. /\ back \in Seq(S) /\ Len(back) = Len(list) - k
        /\ \A i \in 1..(Len(list) - k) : back[i] = list[k + i]
    <3>1. \A i \in (k + 1)..Len(list) : list[i] \in S
      BY <1>0, <2>1, ElementOfSeq
    <3> DEFINE m == k + 1
    <3>2. /\ m \in Nat /\ 1 <= m /\ m <= Len(list) + 1
          /\ \A i \in 1..(Len(list) - k) : m + i - 1 = k + i
          /\ Len(list) - m + 1 = Len(list) - k
      BY <1>0, <2>1
    <3>3. \A i \in m..Len(list) : list[i] \in S
      BY <3>1
    <3> HIDE DEF m
    <3>4. /\ SubSeq(list, m, Len(list)) \in Seq(S)
          /\ Len(SubSeq(list, m, Len(list))) = Len(list) - m + 1
          /\ \A i \in 1..(Len(list) - m + 1) :
               SubSeq(list, m, Len(list))[i] = list[m + i - 1]
      BY <1>0, <3>2, <3>3, SubSeqProperties
    <3> QED
      BY <3>2, <3>4 DEF m
  <2> HIDE DEF front, back
  <2>9. /\ new \in Seq(S) /\ Len(new) = Len(list) - 1
        /\ \A i \in 1..(k - 1) : new[i] = list[i]
        /\ \A i \in k..(Len(list) - 1) : new[i] = list[i + 1]
    <3>1. /\ front \o back \in Seq(S)
          /\ Len(front \o back) = Len(front) + Len(back)
          /\ \A i \in 1..Len(front) + Len(back) : (front \o back)[i] =
               IF i <= Len(front) THEN front[i] ELSE back[i - Len(front)]
      BY <2>7, <2>8, ConcatProperties
    <3>2. \A i \in k..(Len(list) - 1) :
            i - (k - 1) \in 1..(Len(list) - k) /\ k + (i - (k - 1)) = i + 1
      BY <1>0, <2>1
    <3> HIDE DEF new
    <3>3. QED
      BY <1>0, <2>1, <2>6, <2>7, <2>8, <3>1, <3>2
  <2>10. DOMAIN new = 1..(Len(list) - 1)
    BY <2>9, LenProperties
  <2> HIDE DEF new
  <2>11. \A i \in DOMAIN new : /\ i \in 1..(k - 1) \/ i \in k..(Len(list) - 1)
                               /\ i \in Nat
    BY <1>0, <2>1, <2>10
  <2>12. ~Has(new, h)
    <3> SUFFICES ASSUME NEW i \in DOMAIN new, new[i] = h
                 PROVE  FALSE
      BY DEF Has
    <3>1. CASE i \in 1..(k - 1)
      BY <1>0, <2>1, <2>2, <2>9, <3>1
    <3>2. CASE i \in k..(Len(list) - 1)
      BY <1>0, <2>1, <2>2, <2>9, <3>2
    <3> QED
      BY <2>11, <3>1, <3>2
  <2>13. ASSUME NEW x, x # h
         PROVE  (Has(new, x) <=> Has(list, x)) /\ (Once(list, x) => Once(new, x))
    <3>1. ASSUME NEW j \in DOMAIN list, list[j] = x
          PROVE  Has(new, x)
      <4>1. CASE j < k
        <5>1. j \in 1..(k - 1) /\ j \in DOMAIN new
          BY <1>0, <2>1, <2>10, <4>1
        <5> QED
          BY <2>9, <3>1, <5>1 DEF Has
      <4>2. CASE j > k
        <5>1. j - 1 \in k..(Len(list) - 1) /\ j - 1 \in DOMAIN new /\ j - 1 + 1 = j
          BY <1>0, <2>1, <2>10, <4>2
        <5> QED
          BY <2>9, <3>1, <5>1 DEF Has
      <4> QED
        BY <1>0, <2>1, <2>13, <3>1, <4>1, <4>2
    <3>2. \A i \in DOMAIN new : \/ i < k /\ i \in DOMAIN list /\ new[i] = list[i]
                                \/ i >= k /\ i + 1 \in DOMAIN list /\ new[i] = list[i + 1]
      BY <1>0, <2>1, <2>9, <2>11
    <3>3. Has(new, x) => Has(list, x)
      BY <3>2 DEF Has
    <3>4. ASSUME Once(list, x)
          PROVE  Once(new, x)
      <4> SUFFICES ASSUME NEW i \in DOMAIN new, NEW j \in DOMAIN new,
                          new[i] = x, new[j] = x
                   PROVE  i = j
        BY DEF Once
      <4>1. i \in Nat /\ j \in Nat
        BY <2>11
      <4> QED
        BY <2>1, <3>2, <3>4, <4>1 DEF Once
    <3> QED
      BY <3>1, <3>3, <3>4 DEF Has
  <2> QED
    BY <2>9, <2>12, <2>13 DEF new
<1> QED
  BY <1>1, <1>2

-----------------------------------------------------------------------------
(* Facts about the messages of a context. *)

WellFormed(a, c) == \A i \in DOMAIN c : Fits(a, c, i)

(* The last response of the context c still has n tool calls to come.      *)
Round(c, n) ==
  IF c = << >> THEN n = 0
  ELSE \E j \in DOMAIN c : Answering(c, j, Len(c)) /\ Len(c) + n = j + c[j].calls

ToolMessages(c) == ToolsUpTo(c, Len(c))

(* A context only grows at its end: what is said of a prefix stays true.   *)
LEMMA ContextGrows ==
  ASSUME NEW c \in Seq(Messages), NEW m \in Messages
  PROVE  LET d == Append(c, m)
         IN /\ d \in Seq(Messages) /\ d # << >> /\ Len(d) = Len(c) + 1
            /\ DOMAIN c = 1..Len(c) /\ DOMAIN d = 1..(Len(c) + 1) /\ Len(c) \in Nat
            /\ \A i \in 1..Len(c) : d[i] = c[i]
            /\ d[Len(c) + 1] = m
<1> DEFINE d == Append(c, m)
<1>1. /\ d \in Seq(Messages) /\ d # << >> /\ Len(d) = Len(c) + 1
      /\ d[Len(c) + 1] = m
      /\ \A i \in 1..Len(c) : d[i] = c[i]
  BY AppendProperties
<1> HIDE DEF d
<1>2. /\ Len(c) \in Nat /\ DOMAIN c = 1..Len(c) /\ DOMAIN d = 1..(Len(c) + 1)
  BY <1>1, LenProperties
<1> QED
  BY <1>1, <1>2 DEF d

(* Answers are counted message by message. *)
LEMMA CountGrows ==
  ASSUME NEW c \in Seq(Messages), NEW m \in Messages, NEW d, d = Append(c, m)
  PROVE  /\ \A i \in 0..Len(c) : ToolsUpTo(d, i) = ToolsUpTo(c, i)
         /\ ToolsUpTo(c, Len(c)) \in Nat
         /\ ToolsUpTo(d, Len(d)) =
              IF m.role = "tool" THEN ToolsUpTo(c, Len(c)) + 1 ELSE ToolsUpTo(c, Len(c))
<1>1. /\ Len(d) = Len(c) + 1 /\ Len(c) \in Nat
      /\ \A i \in 1..Len(c) : d[i] = c[i]
      /\ d[Len(c) + 1] = m
  BY ContextGrows
<1>2. ASSUME NEW i \in 0..Len(c)
      PROVE  {k \in 1..i : d[k].role = "tool"} = {k \in 1..i : c[k].role = "tool"}
  BY <1>1
<1> DEFINE T == {k \in 1..Len(c) : c[k].role = "tool"}
           U == {k \in 1..Len(d) : d[k].role = "tool"}
<1>3. IsFiniteSet(T) /\ Cardinality(T) \in Nat
  <2>1. IsFiniteSet(1..Len(c))
    BY <1>1, FS_Interval
  <2> QED
    BY <2>1, FS_Subset, FS_CardinalityType
<1>4. Len(c) + 1 \notin T
  BY <1>1
<1>5. U = IF m.role = "tool" THEN T \cup {Len(c) + 1} ELSE T
  <2>1. \A k \in 1..Len(d) : k = Len(c) + 1 \/ k \in 1..Len(c)
    BY <1>1
  <2>2. \A k \in 1..Len(c) : k \in 1..Len(d)
    BY <1>1
  <2>3. Len(c) + 1 \in 1..Len(d)
    BY <1>1
  <2> QED
    BY <1>1, <2>1, <2>2, <2>3
<1> HIDE DEF T, U
<1>6. Cardinality(U) = IF m.role = "tool" THEN Cardinality(T) + 1 ELSE Cardinality(T)
  BY <1>3, <1>4, <1>5, FS_AddElement
<1> QED
  BY <1>1, <1>2, <1>3, <1>6 DEF T, U, ToolsUpTo

(* Behind the last answer to a response another response has its place.    *)
LEMMA ResponseFits ==
  ASSUME NEW a, NEW c \in Seq(Messages), WellFormed(a, c), Round(c, 0),
         NEW n \in Nat, NEW d, d = Append(c, Assistant(n))
  PROVE  WellFormed(a, d) /\ Round(d, n) /\ ToolMessages(d) = ToolMessages(c)
<1>0. Assistant(n) \in Messages /\ Assistant(n).role = "assistant" /\ Assistant(n).calls = n
  BY DEF Assistant, Messages
<1>1. /\ d # << >> /\ Len(d) = Len(c) + 1 /\ Len(c) \in Nat
      /\ DOMAIN c = 1..Len(c) /\ DOMAIN d = 1..(Len(c) + 1)
      /\ \A i \in 1..Len(c) : d[i] = c[i]
      /\ d[Len(c) + 1] = Assistant(n)
  BY <1>0, ContextGrows
<1>2. /\ \A i \in 0..Len(c) : ToolsUpTo(d, i) = ToolsUpTo(c, i)
      /\ ToolMessages(d) = ToolMessages(c)
  BY <1>0, CountGrows DEF ToolMessages
<1>3. \A j \in 1..Len(c), i \in 0..Len(c) : Answering(c, j, i) => Answering(d, j, i)
  BY <1>1 DEF Answering
<1>4. ASSUME NEW i \in 1..Len(c)
      PROVE  Fits(a, d, i)
  <2>1. Fits(a, c, i) /\ i \in Nat /\ i - 1 \in 0..Len(c) /\ i \in 0..Len(c)
    BY <1>1 DEF WellFormed
  <2>2. \A j \in 1..(i - 1) : j \in 1..Len(c)
    BY <1>1
  <2> QED
    BY <1>1, <1>2, <1>3, <2>1, <2>2 DEF Fits
<1>5. Fits(a, d, Len(c) + 1)
  <2>1. CASE c = << >>
    BY <1>0, <1>1, <2>1 DEF Fits
  <2>2. CASE c # << >>
    <3>1. PICK j \in 1..Len(c) : Answering(c, j, Len(c)) /\ Len(c) + 0 = j + c[j].calls
      BY <1>1, <2>2 DEF Round
    <3>2. Len(c) + 1 - 1 = Len(c) /\ Len(c) + 0 = Len(c) /\ Len(c) \in 0..Len(c)
      BY <1>1
    <3>3. Answering(d, j, Len(c) + 1 - 1) /\ Len(c) + 1 - 1 = j + d[j].calls
      BY <1>1, <1>3, <3>1, <3>2
    <3> QED
      BY <1>0, <1>1, <3>2, <3>3 DEF Fits
  <2> QED
    BY <2>1, <2>2
<1>6. Round(d, n)
  <2>1. Answering(d, Len(d), Len(d))
    BY <1>0, <1>1 DEF Answering
  <2> QED
    BY <1>0, <1>1, <2>1 DEF Round
<1> QED
  BY <1>1, <1>2, <1>4, <1>5, <1>6 DEF WellFormed

(* The answer of the task made for the next open call has its place.       *)
LEMMA AnswerFits ==
  ASSUME NEW a, NEW c \in Seq(Messages), WellFormed(a, c),
         NEW n \in Nat \ {0}, Round(c, n),
         NEW task \in Tasks, task = <<a, ToolMessages(c) + 1>>,
         NEW d, d = Append(c, ToolMessage(task))
  PROVE  WellFormed(a, d) /\ Round(d, n - 1) /\ ToolMessages(d) = ToolMessages(c) + 1
<1>0. /\ ToolMessage(task) \in Messages /\ ToolMessage(task).role = "tool"
      /\ ToolMessage(task).task = task
  BY DEF ToolMessage, Messages
<1>1. /\ d # << >> /\ Len(d) = Len(c) + 1 /\ Len(c) \in Nat
      /\ DOMAIN c = 1..Len(c) /\ DOMAIN d = 1..(Len(c) + 1)
      /\ \A i \in 1..Len(c) : d[i] = c[i]
      /\ d[Len(c) + 1] = ToolMessage(task)
  BY <1>0, ContextGrows
<1>2. /\ \A i \in 0..Len(c) : ToolsUpTo(d, i) = ToolsUpTo(c, i)
      /\ ToolMessages(d) = ToolMessages(c) + 1
  BY <1>0, CountGrows DEF ToolMessages
<1>3. \A j \in 1..Len(c), i \in 0..Len(c) : Answering(c, j, i) => Answering(d, j, i)
  BY <1>1 DEF Answering
<1>4. ASSUME NEW i \in 1..Len(c)
      PROVE  Fits(a, d, i)
  <2>1. Fits(a, c, i) /\ i \in Nat /\ i - 1 \in 0..Len(c) /\ i \in 0..Len(c)
    BY <1>1 DEF WellFormed
  <2>2. \A j \in 1..(i - 1) : j \in 1..Len(c)
    BY <1>1
  <2> QED
    BY <1>1, <1>2, <1>3, <2>1, <2>2 DEF Fits
<1>5. c # << >>
  BY DEF Round
<1>6. PICK j \in 1..Len(c) : Answering(c, j, Len(c)) /\ Len(c) + n = j + c[j].calls
  BY <1>1, <1>5 DEF Round
<1>7. Answering(d, j, Len(c) + 1)
  <2>1. c[j].role = "assistant" /\ \A k \in (j + 1)..Len(c) : c[k].role = "tool"
    BY <1>6 DEF Answering
  <2>2. \A k \in (j + 1)..(Len(c) + 1) : k = Len(c) + 1 \/ (k \in (j + 1)..Len(c) /\ k \in 1..Len(c))
    BY <1>1
  <2> QED
    BY <1>0, <1>1, <2>1, <2>2 DEF Answering
<1>8. Len(c) + 1 <= j + c[j].calls /\ j \in 1..(Len(c) + 1 - 1)
      /\ (Len(c) + 1) + (n - 1) = j + c[j].calls
  BY <1>1, <1>6
<1>9. Fits(a, d, Len(c) + 1)
  <2> DEFINE i == Len(c) + 1
  <2>1. d[i].role = "tool"
    BY <1>0, <1>1
  <2>2. d[i].task = <<a, ToolsUpTo(d, i)>>
    <3>1. d[i].task = task /\ ToolsUpTo(d, i) = ToolMessages(c) + 1
      BY <1>0, <1>1, <1>2 DEF ToolMessages
    <3> QED
      BY <3>1
  <2>3. i <= j + d[j].calls /\ j \in 1..(i - 1)
    BY <1>1, <1>8
  <2>4. Answering(d, j, i)
    BY <1>7
  <2> HIDE DEF i
  <2>5. \E k \in 1..(i - 1) : Answering(d, k, i) /\ i <= k + d[k].calls
    BY <2>3, <2>4
  <2>6. Fits(a, d, i)
    BY <2>1, <2>2, <2>5 DEF Fits
  <2> QED
    BY <2>6 DEF i
<1>10. Round(d, n - 1)
  <2>1. j \in DOMAIN d
    BY <1>1
  <2> QED
    BY <1>1, <1>7, <1>8, <2>1 DEF Round
<1>11. \A i \in DOMAIN d : i \in 1..Len(c) \/ i = Len(c) + 1
  BY <1>1
<1> QED
  BY <1>2, <1>4, <1>9, <1>10, <1>11 DEF WellFormed

-----------------------------------------------------------------------------
(* The inductive invariant. *)

AgentTypes ==
  /\ pc \in [Agents -> AgentStates]
  /\ iterations \in [Agents -> 0..MaxIterations]
  /\ todo \in [Agents -> Nat]
  /\ calls \in [Agents -> Nat]
  /\ context \in [Agents -> Seq(Messages)]
  /\ got \in [Agents -> Settled \cup {None}]
  /\ ceiling \in [Agents -> 0..EngineTimeout]
  /\ starved \in [Agents -> BOOLEAN]

Emissions == [event : AnswerEvents, data : Settled, next : Nat, last : Nat]

BusTypes ==
  /\ listeners \in [AnswerEvents -> Seq(Handlers)]
  /\ emission \in Emissions \cup {None}
  /\ emitter \in Workers \cup {None}

LoopStates == [task : Tasks \cup {None}, left : 0..(PoolTimeout + PollTime)]

PoolTypes ==
  /\ queue \in Seq(Tasks)
  /\ poolUp \in BOOLEAN
  /\ worker \in [Workers -> LoopStates]

(* An agent is on both lists while it waits, once. *)
Registered(a) ==
  \A e \in AnswerEvents :
    /\ Once(listeners[e], a)
    /\ Has(listeners[e], a) <=> pc[a] = "waiting"

(* What an agent has asked for, created tasks for and put into its context *)
(* agree: while a call is open its task is the newest, and the answers so  *)
(* far are those of all the tasks before it.                               *)
CallOpen(a) == pc[a] \in {"creating", "waiting", "answered"}

InStep(a) ==
  /\ WellFormed(a, context[a])
  /\ Round(context[a], todo[a])
  /\ pc[a] \in {"idle", "thinking"} =>
       todo[a] = 0 /\ calls[a] = ToolMessages(context[a])
  /\ CallOpen(a) => todo[a] > 0 /\ calls[a] = ToolMessages(context[a]) + 1
  /\ pc[a] = "answered" => got[a] \in Settled /\ got[a].task = Task(a)

(* The loop that emits still holds the task it answers, and the pool does  *)
(* not pretend to be the engine's timer.                                   *)
EmissionInv ==
  emission # None =>
    /\ emission.next > 0
    /\ emission.data.answer # "timeout"
    /\ emitter \in Workers
    /\ worker[emitter].task = emission.data.task

AgentsInv == \A a \in Agents : Registered(a) /\ InStep(a)

IInv == AgentTypes /\ BusTypes /\ PoolTypes /\ EmissionInv /\ AgentsInv

LEMMA TypesAreTypeOK == AgentTypes /\ BusTypes /\ PoolTypes <=> TypeOK
BY DEF AgentTypes, BusTypes, PoolTypes, TypeOK, Emissions, LoopStates

(* A task of an open call is a task; nothing else is mistaken for one.     *)
LEMMA TaskOfCall ==
  ASSUME AgentTypes, NEW a \in Agents, InStep(a), CallOpen(a)
  PROVE  Task(a) \in Tasks /\ calls[a] >= 1 /\ Owner(Task(a)) = a
<1>1. context[a] \in Seq(Messages) /\ calls[a] \in Nat
  BY DEF AgentTypes
<1>2. ToolMessages(context[a]) \in Nat
  <2>1. Assistant(0) \in Messages
    BY DEF Assistant, Messages
  <2> QED
    BY <1>1, <2>1, CountGrows DEF ToolMessages
<1> QED
  BY <1>1, <1>2 DEF InStep, Task, Tasks, Owner

-----------------------------------------------------------------------------
(* Initially. *)

LEMMA InitHolds == Init => IInv
<1> SUFFICES ASSUME Init
             PROVE  IInv
  OBVIOUS
<1>1. AgentTypes
  <2>1. /\ pc \in [Agents -> AgentStates]
        /\ context \in [Agents -> Seq(Messages)]
        /\ got \in [Agents -> Settled \cup {None}]
    BY DEF Init, AgentStates
  <2>2. todo \in [Agents -> Nat] /\ calls \in [Agents -> Nat]
    BY DEF Init
  <2>3. iterations \in [Agents -> 0..MaxIterations]
    BY BoundsAssumption DEF Init
  <2>4. ceiling \in [Agents -> 0..EngineTimeout]
    BY TimeoutAssumption DEF Init
  <2>5. starved \in [Agents -> BOOLEAN]
    BY DEF Init
  <2> QED
    BY <2>1, <2>2, <2>3, <2>4, <2>5 DEF AgentTypes
<1>2. BusTypes
  BY DEF Init, BusTypes
<1>3. PoolTypes
  <2>1. Resting(0) \in LoopStates
    BY TimeoutAssumption DEF Resting, LoopStates
  <2>2. worker \in [Workers -> LoopStates]
    BY <2>1 DEF Init
  <2>3. queue \in Seq(Tasks)
    BY EmptySeq DEF Init
  <2>4. poolUp \in BOOLEAN
    BY Zenon DEF Init
  <2> QED
    BY <2>2, <2>3, <2>4, Zenon DEF PoolTypes
<1>4. EmissionInv
  BY DEF Init, EmissionInv
<1>5. ASSUME NEW a \in Agents
      PROVE  Registered(a) /\ InStep(a)
  <2>1. Registered(a)
    BY DEF Init, Registered, Once, Has
  <2>2. ToolMessages(<< >>) = 0
    <3>1. 1..Len(<< >>) = {}
      OBVIOUS
    <3>2. {k \in 1..Len(<< >>) : << >>[k].role = "tool"} = {}
      BY <3>1
    <3> QED
      BY <3>2, FS_EmptySet DEF ToolMessages, ToolsUpTo
  <2>3. pc[a] = "idle" /\ todo[a] = 0 /\ calls[a] = 0 /\ context[a] = << >>
    BY DEF Init
  <2> QED
    BY <2>1, <2>2, <2>3 DEF InStep, CallOpen, WellFormed, Round
<1> QED
  BY <1>1, <1>2, <1>3, <1>4, <1>5 DEF IInv, AgentsInv

-----------------------------------------------------------------------------
(* Steps of the pool: they leave the agents alone. *)

LEMMA AgentsUntouched ==
  ASSUME AgentTypes, AgentsInv, UNCHANGED agentVars, UNCHANGED listeners
  PROVE  AgentTypes' /\ AgentsInv'
<1>1. UNCHANGED <<pc, iterations, todo, calls, context, got, ceiling, starved>>
  BY DEF agentVars
<1> QED
  BY <1>1 DEF AgentTypes, AgentsInv, Registered, InStep, CallOpen, Task

(* A loop that looks for its next task takes a queued one or rests. *)
LEMMA NextTaskTyped ==
  ASSUME PoolTypes, NEW w \in Workers, NextTask(w)
  PROVE  queue' \in Seq(Tasks) /\ worker' \in [Workers -> LoopStates]
<1>1. CASE queue # << >> /\ queue' = Tail(queue)
           /\ worker' = [worker EXCEPT ![w] = [task |-> Head(queue), left |-> PoolTimeout]]
  <2>1. Head(queue) \in Tasks /\ Tail(queue) \in Seq(Tasks)
    BY <1>1, HeadTailProperties DEF PoolTypes
  <2>2. [task |-> Head(queue), left |-> PoolTimeout] \in LoopStates
    BY <2>1, TimeoutAssumption DEF LoopStates
  <2> QED
    BY <1>1, <2>1, <2>2 DEF PoolTypes
<1>2. CASE UNCHANGED queue /\ worker' = [worker EXCEPT ![w] = Resting(PollTime)]
  <2>1. Resting(PollTime) \in LoopStates
    BY TimeoutAssumption DEF Resting, LoopStates
  <2> QED
    BY <1>2, <2>1 DEF PoolTypes
<1> QED
  BY <1>1, <1>2 DEF NextTask

(* An answer is emitted by the loop that holds the task. *)
LEMMA EmitTyped ==
  ASSUME BusTypes, PoolTypes, NEW w \in Workers, ~Idle(w),
         NEW event \in AnswerEvents, NEW answer \in Answers \ {"timeout"},
         EmitAnswer(w, event, answer), UNCHANGED <<listeners, worker>>
  PROVE  BusTypes' /\ EmissionInv'
<1>1. worker[w].task \in Tasks
  BY DEF PoolTypes, LoopStates, Idle
<1>2. [task |-> worker[w].task, answer |-> answer] \in Settled
  BY <1>1 DEF Settled
<1>3. Len(listeners[event]) \in Nat
  BY LenProperties DEF BusTypes
<1>4. /\ emission' \in Emissions
      /\ emission'.data = [task |-> worker[w].task, answer |-> answer]
      /\ emission'.next = 1
  BY <1>2, <1>3 DEF EmitAnswer, Emission, Emissions
<1>5. emitter' = w
  BY DEF EmitAnswer
<1> QED
  BY <1>4, <1>5 DEF BusTypes, EmissionInv

LEMMA PoolStep ==
  ASSUME IInv, NEW w \in Workers, Poll(w) \/ Resolve(w) \/ TimeOut(w)
  PROVE  IInv'
<1> USE DEF IInv
<1>1. AgentTypes' /\ AgentsInv'
  BY AgentsUntouched DEF Poll, Resolve, TimeOut, busVars
<1>2. CASE Poll(w)
  <2>1. PoolTypes'
    BY <1>2, NextTaskTyped DEF Poll, PoolTypes
  <2>2. BusTypes' /\ EmissionInv'
    BY <1>2 DEF Poll, busVars, BusTypes, EmissionInv, Quiet
  <2> QED
    BY <1>1, <2>1, <2>2
<1>3. CASE Resolve(w)
  <2>1. BusTypes' /\ EmissionInv'
    BY <1>3, EmitTyped DEF Resolve, MayAnswer, poolVars, AnswerEvents, Answers
  <2>2. PoolTypes'
    BY <1>3 DEF Resolve, poolVars, PoolTypes
  <2> QED
    BY <1>1, <2>1, <2>2
<1>4. CASE TimeOut(w)
  <2>1. BusTypes' /\ EmissionInv'
    BY <1>4, EmitTyped DEF TimeOut, MayAnswer, poolVars, AnswerEvents, Answers
  <2>2. PoolTypes'
    BY <1>4 DEF TimeOut, poolVars, PoolTypes
  <2> QED
    BY <1>1, <2>1, <2>2
<1> QED
  BY <1>2, <1>3, <1>4

(* The index of an emission moves on. *)
LEMMA AdvanceTyped ==
  ASSUME emission \in Emissions
  PROVE  LET e == Advance(emission)
         IN /\ e \in Emissions /\ e.event = emission.event /\ e.data = emission.data
            /\ e.next = emission.next + 1 /\ e.last = emission.last
BY DEF Advance, Emissions

LEMMA DashboardStep ==
  ASSUME IInv, NEW d \in Dashboards, DeliverToDashboard(d)
  PROVE  IInv'
<1> USE DEF IInv
<1>1. AgentTypes' /\ AgentsInv' /\ PoolTypes'
  BY AgentsUntouched DEF DeliverToDashboard, poolVars, PoolTypes
<1>2. emission # None /\ emission \in Emissions
  BY DEF DeliverToDashboard, BusTypes
<1>3. UNCHANGED <<listeners, worker>>
  BY DEF DeliverToDashboard, poolVars
<1>4. CASE emission' = Advance(emission) /\ UNCHANGED emitter
  <2>1. BusTypes'
    BY <1>2, <1>3, <1>4, AdvanceTyped DEF BusTypes
  <2>2. emission.next \in Nat
    BY <1>2 DEF Emissions
  <2>3. EmissionInv'
    BY <1>2, <1>3, <1>4, <2>2, AdvanceTyped DEF EmissionInv
  <2> QED
    BY <1>1, <2>1, <2>3
<1>5. CASE EmitAnswer(emitter, "task:failed", "error")
  <2>1. emitter \in Workers /\ ~Idle(emitter)
    <3>1. emission.data.task \in Tasks
      BY <1>2 DEF Emissions, Settled
    <3> QED
      BY <1>2, <3>1, NoneAssumption DEF EmissionInv, Idle
  <2>2. BusTypes' /\ EmissionInv'
    BY <1>3, <1>5, <2>1, EmitTyped DEF AnswerEvents, Answers
  <2> QED
    BY <1>1, <2>2
<1> QED
  BY <1>4, <1>5 DEF DeliverToDashboard

LEMMA EmissionEndsStep == IInv /\ EmissionEnds => IInv'
<1> SUFFICES ASSUME IInv, EmissionEnds
             PROVE  IInv'
  OBVIOUS
<1> USE DEF IInv
<1>1. AgentTypes' /\ AgentsInv'
  BY AgentsUntouched DEF EmissionEnds
<1>2. emitter \in Workers
  BY DEF EmissionEnds, EmissionInv
<1>3. PoolTypes'
  BY <1>2, NextTaskTyped DEF EmissionEnds, PoolTypes
<1>4. BusTypes' /\ EmissionInv'
  BY DEF EmissionEnds, BusTypes, EmissionInv
<1> QED
  BY <1>1, <1>3, <1>4

-----------------------------------------------------------------------------
(* Steps of the surroundings. *)

LEMMA StartPoolStep == IInv /\ StartPool => IInv'
<1> SUFFICES ASSUME IInv, StartPool
             PROVE  IInv'
  OBVIOUS
<1> USE DEF IInv
<1>1. AgentTypes' /\ AgentsInv' /\ BusTypes'
  BY AgentsUntouched DEF StartPool, busVars, BusTypes
<1>2. Resting(0) \in LoopStates
  BY TimeoutAssumption DEF Resting, LoopStates
<1>3. PoolTypes'
  BY <1>2 DEF StartPool, PoolTypes
<1>4. EmissionInv'
  BY DEF StartPool, busVars, EmissionInv, Quiet
<1> QED
  BY <1>1, <1>3, <1>4

LEMMA StarvedTyped ==
  ASSUME AgentTypes, NEW I
  PROVE  StarvedAt(I) \in [Agents -> BOOLEAN]
<1>1. \A a \in Agents :
        (starved[a] \/ (pc[a] \in {"creating", "waiting"} /\ \E i \in I : queue[i] = Task(a)))
          \in BOOLEAN
  BY DEF AgentTypes
<1> QED
  BY <1>1, Zenon DEF StarvedAt

(* Time and the stopping of the pool touch clocks and marks only. *)
LEMMA ClockStep ==
  ASSUME IInv, StopPool \/ Tick
  PROVE  IInv'
<1> USE DEF IInv
<1>1. UNCHANGED <<pc, iterations, todo, calls, context, got, listeners, emission, emitter, queue>>
  BY DEF StopPool, Tick, busVars
<1>2. starved' \in [Agents -> BOOLEAN]
  BY StarvedTyped DEF StopPool, Tick
<1>3. ceiling' \in [Agents -> 0..EngineTimeout]
  <2>1. CASE StopPool
    BY <2>1 DEF StopPool, AgentTypes
  <2>2. CASE Tick
    <3>1. \A a \in Agents : Minus1(ceiling[a]) \in 0..EngineTimeout
      BY TimeoutAssumption DEF AgentTypes, Minus1
    <3> QED
      BY <2>2, <3>1 DEF Tick
  <2> QED
    BY <2>1, <2>2
<1>4. AgentTypes'
  BY <1>1, <1>2, <1>3 DEF AgentTypes
<1>5. AgentsInv'
  BY <1>1 DEF AgentsInv, Registered, InStep, CallOpen, Task
<1>6. BusTypes' /\ EmissionInv'
  BY <1>1 DEF BusTypes, EmissionInv, StopPool, Tick, Quiet
<1>7. worker' \in [Workers -> LoopStates]
  <2>1. CASE StopPool
    BY <2>1 DEF StopPool, PoolTypes
  <2>2. CASE Tick
    <3>1. ASSUME NEW w \in Workers
          PROVE  [worker[w] EXCEPT !.left = Minus1(@)] \in LoopStates
      <4>1. worker[w] \in LoopStates
        BY DEF PoolTypes
      <4>2. Minus1(worker[w].left) \in 0..(PoolTimeout + PollTime)
        BY <4>1, TimeoutAssumption DEF LoopStates, Minus1
      <4> QED
        BY <4>1, <4>2 DEF LoopStates
    <3> QED
      BY <2>2, <3>1 DEF Tick
  <2> QED
    BY <2>1, <2>2
<1>8. PoolTypes'
  BY <1>1, <1>7 DEF PoolTypes, StopPool, Tick
<1> QED
  BY <1>4, <1>5, <1>6, <1>8

(* A dashboard's handlers stand beside the agents'. *)
LEMMA StartDashboardStep ==
  ASSUME IInv, NEW d \in Dashboards, StartDashboard(d)
  PROVE  IInv'
<1> USE DEF IInv
<1>1. UNCHANGED <<agentVars, emission, emitter, poolVars>>
  BY DEF StartDashboard
<1>2. \A e \in AnswerEvents : listeners[e] \in Seq(Handlers)
  BY DEF BusTypes
<1>3. d \in Handlers
  BY DEF Handlers
<1>4. listeners' = [e \in AnswerEvents |-> On(listeners[e], d)]
  BY DEF StartDashboard
<1>5. BusTypes'
  BY <1>1, <1>2, <1>3, <1>4, OnAdds DEF BusTypes
<1>6. AgentTypes' /\ PoolTypes' /\ EmissionInv'
  BY <1>1 DEF agentVars, poolVars, AgentTypes, PoolTypes, EmissionInv
<1>7. ASSUME NEW a \in Agents
      PROVE  Registered(a)' /\ InStep(a)'
  <2>1. a # d
    BY HandlersAssumption
  <2>2. ASSUME NEW e \in AnswerEvents
        PROVE  /\ Once(listeners'[e], a)
               /\ Has(listeners'[e], a) <=> pc[a] = "waiting"
    BY <1>2, <1>3, <1>4, <2>1, OnAdds DEF AgentsInv, Registered
  <2>3. pc' = pc
    BY <1>1 DEF agentVars
  <2>4. Registered(a)'
    BY <2>2, <2>3 DEF Registered
  <2>5. InStep(a)'
    BY <1>1 DEF agentVars, AgentsInv, InStep, CallOpen, Task
  <2> QED
    BY <2>4, <2>5
<1> QED
  BY <1>5, <1>6, <1>7 DEF AgentsInv

-----------------------------------------------------------------------------
(* Steps of an agent. *)

(* A step of agent a leaves the other agents in step. *)
OthersKept(a) ==
  \A b \in Agents \ {a} :
    /\ pc'[b] = pc[b] /\ todo'[b] = todo[b] /\ calls'[b] = calls[b]
    /\ context'[b] = context[b] /\ got'[b] = got[b]

LEMMA OthersStayInStep ==
  ASSUME AgentsInv, NEW a \in Agents, OthersKept(a), InStep(a)'
  PROVE  \A b \in Agents : InStep(b)'
<1>1. ASSUME NEW b \in Agents \ {a}
      PROVE  InStep(b)'
  BY DEF AgentsInv, OthersKept, InStep, CallOpen, Task
<1> QED
  BY <1>1

(* An agent that neither starts nor stops to wait keeps the registrations. *)
LEMMA StaysRegistered ==
  ASSUME AgentsInv, UNCHANGED listeners, NEW a \in Agents, OthersKept(a),
         pc[a] # "waiting", pc'[a] # "waiting"
  PROVE  \A b \in Agents : Registered(b)'
<1>1. ASSUME NEW b \in Agents
      PROVE  Registered(b)'
  BY DEF AgentsInv, OthersKept, Registered
<1> QED
  BY <1>1

(* One more question, or the end of a loop that has asked too often. *)
LEMMA IterateTyped ==
  ASSUME AgentTypes, NEW a \in Agents, Iterate(a)
  PROVE  /\ pc' \in [Agents -> AgentStates]
         /\ iterations' \in [Agents -> 0..MaxIterations]
         /\ pc'[a] \in {"thinking", "failed"}
         /\ \A b \in Agents \ {a} : pc'[b] = pc[b]
         /\ UNCHANGED <<calls, queue>>
<1>1. CASE MayThink(a)
  <2>1. iterations[a] + 1 \in 0..MaxIterations
    BY <1>1, BoundsAssumption DEF MayThink, AgentTypes
  <2> QED
    BY <1>1, <2>1 DEF Iterate, AgentTypes, AgentStates
<1>2. CASE ~MayThink(a)
  BY <1>2 DEF Iterate, AgentTypes, AgentStates
<1> QED
  BY <1>1, <1>2

(* One more task at the end of the queue, or the end of a loop whose model *)
(* wrote arguments that do not parse.                                      *)
LEMMA DispatchTyped ==
  ASSUME AgentTypes, PoolTypes, NEW a \in Agents, Dispatch(a)
  PROVE  /\ pc' \in [Agents -> AgentStates]
         /\ calls' \in [Agents -> Nat]
         /\ queue' \in Seq(Tasks)
         /\ UNCHANGED iterations
         /\ \/ pc'[a] = "failed"
            \/ pc'[a] = "creating" /\ calls'[a] = calls[a] + 1
         /\ \A b \in Agents \ {a} : pc'[b] = pc[b] /\ calls'[b] = calls[b]
<1>1. CASE pc' = [pc EXCEPT ![a] = "failed"] /\ UNCHANGED <<calls, queue>>
  BY <1>1 DEF Dispatch, AgentTypes, PoolTypes, AgentStates
<1>2. CASE /\ calls' = [calls EXCEPT ![a] = @ + 1]
           /\ queue' = Append(queue, <<a, calls[a] + 1>>)
           /\ pc' = [pc EXCEPT ![a] = "creating"]
  <2>1. calls[a] \in Nat
    BY DEF AgentTypes
  <2>2. <<a, calls[a] + 1>> \in Tasks
    BY <2>1 DEF Tasks
  <2>3. queue' \in Seq(Tasks)
    BY <1>2, <2>2, AppendProperties DEF PoolTypes
  <2>4. calls' \in [Agents -> Nat]
    BY <1>2, <2>1 DEF AgentTypes
  <2> QED
    BY <1>2, <2>3, <2>4 DEF Dispatch, AgentTypes, AgentStates
<1> QED
  BY <1>1, <1>2 DEF Dispatch

(* Neither the bus nor a loop of the pool takes part. *)
LEMMA BusUntouched ==
  ASSUME BusTypes, EmissionInv, Quiet, UNCHANGED <<busVars, poolUp, worker>>, PoolTypes,
         queue' \in Seq(Tasks)
  PROVE  BusTypes' /\ EmissionInv' /\ PoolTypes' /\ UNCHANGED listeners
BY DEF BusTypes, EmissionInv, PoolTypes, busVars, Quiet

LEMMA RunStep ==
  ASSUME IInv, NEW a \in Agents, Run(a)
  PROVE  IInv'
<1> USE DEF IInv
<1>1. /\ pc[a] = "idle" /\ Iterate(a)
      /\ UNCHANGED <<todo, context, got, ceiling, starved, busVars, poolUp, worker>>
  BY DEF Run
<1>2. AgentTypes'
  BY <1>1, IterateTyped DEF AgentTypes
<1>3. BusTypes' /\ EmissionInv' /\ PoolTypes' /\ UNCHANGED listeners
  BY <1>1, IterateTyped, BusUntouched DEF Run, PoolTypes
<1>4. OthersKept(a)
  BY <1>1, IterateTyped DEF OthersKept
<1>5. InStep(a)'
  BY <1>1, IterateTyped DEF AgentsInv, InStep, CallOpen
<1>6. \A b \in Agents : Registered(b)'
  BY <1>1, <1>3, <1>4, IterateTyped, StaysRegistered
<1> QED
  BY <1>2, <1>3, <1>4, <1>5, <1>6, OthersStayInStep DEF AgentsInv

(* What becomes of the context when the model has spoken. *)
LEMMA SaysTyped ==
  ASSUME AgentTypes, AgentsInv, NEW a \in Agents, pc[a] = "thinking",
         NEW n \in Nat, Says(a, n)
  PROVE  /\ context' \in [Agents -> Seq(Messages)]
         /\ \A b \in Agents \ {a} : context'[b] = context[b]
         /\ WellFormed(a, context'[a])
         /\ Round(context'[a], n)
         /\ ToolMessages(context'[a]) = calls[a]
<1>1. context[a] \in Seq(Messages)
  BY DEF AgentTypes
<1>2. WellFormed(a, context[a]) /\ Round(context[a], 0) /\ calls[a] = ToolMessages(context[a])
  BY DEF AgentsInv, InStep
<1>3. Assistant(n) \in Messages
  BY DEF Assistant, Messages
<1>4. Append(context[a], Assistant(n)) \in Seq(Messages)
  BY <1>1, <1>3, AppendProperties
<1>5. context' = [context EXCEPT ![a] = Append(context[a], Assistant(n))]
  BY DEF Says
<1>6. /\ context'[a] = Append(context[a], Assistant(n))
      /\ context' \in [Agents -> Seq(Messages)]
      /\ \A b \in Agents \ {a} : context'[b] = context[b]
  BY <1>4, <1>5 DEF AgentTypes
<1>7. \A d : d = Append(context[a], Assistant(n))
        => WellFormed(a, d) /\ Round(d, n) /\ ToolMessages(d) = ToolMessages(context[a])
  BY ZenonT(40), <1>1, <1>2, ResponseFits
<1> QED
  BY <1>2, <1>6, <1>7

LEMMA WantsToolsStep ==
  ASSUME IInv, NEW a \in Agents, WantsTools(a)
  PROVE  IInv'
<1> USE DEF IInv
<1>1. PICK n \in 1..(MaxCalls[a] - calls[a]) :
        Says(a, n) /\ todo' = [todo EXCEPT ![a] = n]
  BY DEF WantsTools
<1>2. n \in Nat /\ n > 0
  BY <1>1, BoundsAssumption DEF AgentTypes
<1>3. /\ pc[a] = "thinking" /\ Dispatch(a)
      /\ UNCHANGED <<got, ceiling, starved, busVars, poolUp, worker>>
  BY DEF WantsTools
<1>4. AgentTypes'
  <2>1. todo' \in [Agents -> Nat]
    BY <1>1, <1>2 DEF AgentTypes
  <2> QED
    BY <1>1, <1>2, <1>3, <2>1, SaysTyped, DispatchTyped DEF AgentTypes
<1>5. BusTypes' /\ EmissionInv' /\ PoolTypes' /\ UNCHANGED listeners
  BY <1>3, DispatchTyped, BusUntouched DEF WantsTools
<1>6. OthersKept(a)
  BY <1>1, <1>2, <1>3, SaysTyped, DispatchTyped DEF OthersKept, AgentTypes
<1>7. InStep(a)'
  <2>1. todo'[a] = n
    BY <1>1 DEF AgentTypes
  <2>2. /\ WellFormed(a, context'[a]) /\ Round(context'[a], n)
        /\ ToolMessages(context'[a]) = calls[a]
    BY <1>1, <1>2, <1>3, SaysTyped
  <2> QED
    BY <1>2, <1>3, <2>1, <2>2, DispatchTyped DEF InStep, CallOpen
<1>8. \A b \in Agents : Registered(b)'
  BY <1>3, <1>5, <1>6, DispatchTyped, StaysRegistered
<1> QED
  BY <1>4, <1>5, <1>6, <1>7, <1>8, OthersStayInStep DEF AgentsInv

LEMMA SynthesisStep ==
  ASSUME IInv, NEW a \in Agents, Synthesis(a)
  PROVE  IInv'
<1> USE DEF IInv
<1>1. /\ pc[a] = "thinking" /\ Says(a, 0) /\ pc' = [pc EXCEPT ![a] = "done"]
      /\ UNCHANGED <<iterations, todo, calls, got, ceiling, starved, busVars, poolVars>>
  BY DEF Synthesis
<1>2. pc' \in [Agents -> AgentStates] /\ pc'[a] = "done"
      /\ \A b \in Agents \ {a} : pc'[b] = pc[b]
  BY <1>1 DEF AgentTypes, AgentStates
<1>3. AgentTypes'
  BY <1>1, <1>2, SaysTyped DEF AgentTypes
<1>4. BusTypes' /\ EmissionInv' /\ PoolTypes' /\ UNCHANGED listeners
  BY <1>1, BusUntouched DEF Synthesis, poolVars, PoolTypes
<1>5. OthersKept(a)
  BY <1>1, <1>2, SaysTyped DEF OthersKept
<1>6. InStep(a)'
  <2>1. todo'[a] = 0
    BY <1>1 DEF AgentsInv, InStep
  <2>2. WellFormed(a, context'[a]) /\ Round(context'[a], 0)
    BY <1>1, SaysTyped
  <2> QED
    BY <1>2, <2>1, <2>2 DEF InStep, CallOpen
<1>7. \A b \in Agents : Registered(b)'
  BY <1>1, <1>2, <1>4, <1>5, StaysRegistered
<1> QED
  BY <1>3, <1>4, <1>5, <1>6, <1>7, OthersStayInStep DEF AgentsInv

LEMMA InvokeFailsStep ==
  ASSUME IInv, NEW a \in Agents, InvokeFails(a)
  PROVE  IInv'
<1> USE DEF IInv
<1>1. /\ pc[a] = "thinking" /\ pc' = [pc EXCEPT ![a] = "failed"]
      /\ UNCHANGED <<iterations, todo, calls, context, got, ceiling, starved, busVars, poolVars>>
  BY DEF InvokeFails
<1>2. pc' \in [Agents -> AgentStates] /\ pc'[a] = "failed"
      /\ \A b \in Agents \ {a} : pc'[b] = pc[b]
  BY <1>1 DEF AgentTypes, AgentStates
<1>3. AgentTypes'
  BY <1>1, <1>2 DEF AgentTypes
<1>4. BusTypes' /\ EmissionInv' /\ PoolTypes' /\ UNCHANGED listeners
  BY <1>1, BusUntouched DEF InvokeFails, poolVars, PoolTypes
<1>5. OthersKept(a)
  BY <1>1, <1>2 DEF OthersKept
<1>6. InStep(a)'
  BY <1>1, <1>2 DEF AgentsInv, InStep, CallOpen
<1>7. \A b \in Agents : Registered(b)'
  BY <1>1, <1>2, <1>4, <1>5, StaysRegistered
<1> QED
  BY <1>3, <1>4, <1>5, <1>6, <1>7, OthersStayInStep DEF AgentsInv

LEMMA ContinueStep ==
  ASSUME IInv, NEW a \in Agents, Continue(a)
  PROVE  IInv'
<1> USE DEF IInv
<1>1. /\ pc[a] = "answered" /\ got' = [got EXCEPT ![a] = None]
      /\ starved' = [starved EXCEPT ![a] = FALSE]
      /\ UNCHANGED <<ceiling, busVars, poolUp, worker>>
  BY DEF Continue
<1>2. /\ got' \in [Agents -> Settled \cup {None}]
      /\ starved' \in [Agents -> BOOLEAN]
      /\ \A b \in Agents \ {a} : got'[b] = got[b]
  BY <1>1 DEF AgentTypes
<1>3. CASE pc' = [pc EXCEPT ![a] = "failed"]
           /\ UNCHANGED <<iterations, todo, calls, context, queue>>
  <2>1. pc' \in [Agents -> AgentStates] /\ pc'[a] = "failed"
        /\ \A b \in Agents \ {a} : pc'[b] = pc[b]
    BY <1>3 DEF AgentTypes, AgentStates
  <2>2. AgentTypes'
    BY <1>1, <1>2, <1>3, <2>1 DEF AgentTypes
  <2>3. BusTypes' /\ EmissionInv' /\ PoolTypes' /\ UNCHANGED listeners
    BY <1>1, <1>3, BusUntouched DEF Continue, PoolTypes
  <2>4. OthersKept(a)
    BY <1>2, <1>3, <2>1 DEF OthersKept
  <2>5. InStep(a)'
    BY <1>3, <2>1 DEF AgentsInv, InStep, CallOpen
  <2>6. \A b \in Agents : Registered(b)'
    BY <1>1, <2>1, <2>3, <2>4, StaysRegistered
  <2> QED
    BY <2>2, <2>3, <2>4, <2>5, <2>6, OthersStayInStep DEF AgentsInv
<1>4. CASE /\ context' = [context EXCEPT ![a] = Append(@, ToolMessage(got[a].task))]
           /\ todo' = [todo EXCEPT ![a] = @ - 1]
           /\ IF todo[a] > 1 THEN Dispatch(a) ELSE Iterate(a)
  <2>1. /\ todo[a] \in Nat \ {0} /\ calls[a] = ToolMessages(context[a]) + 1
        /\ WellFormed(a, context[a]) /\ Round(context[a], todo[a])
        /\ got[a].task = <<a, calls[a]>> /\ context[a] \in Seq(Messages)
    BY <1>1 DEF AgentsInv, InStep, CallOpen, AgentTypes, Task
  <2>2. got[a].task \in Tasks
    BY <1>1 DEF AgentsInv, InStep, Settled
  <2>3. context'[a] = Append(context[a], ToolMessage(got[a].task)) /\ todo'[a] = todo[a] - 1
    BY <1>4 DEF AgentTypes
  <2>4. /\ WellFormed(a, context'[a]) /\ Round(context'[a], todo'[a])
        /\ ToolMessages(context'[a]) = calls[a]
    <3> DEFINE c == context[a]
               n == todo[a]
               task == got[a].task
               d == context'[a]
    <3>1. /\ c \in Seq(Messages) /\ WellFormed(a, c) /\ n \in Nat \ {0} /\ Round(c, n)
          /\ task \in Tasks /\ task = <<a, ToolMessages(c) + 1>>
          /\ d = Append(c, ToolMessage(task))
      BY <2>1, <2>2, <2>3
    <3> HIDE DEF c, n, task, d
    <3>2. WellFormed(a, d) /\ Round(d, n - 1) /\ ToolMessages(d) = ToolMessages(c) + 1
      BY <3>1, AnswerFits
    <3> QED
      BY <2>1, <2>3, <3>2 DEF c, n, d
  <2>5. /\ context' \in [Agents -> Seq(Messages)] /\ todo' \in [Agents -> Nat]
        /\ \A b \in Agents \ {a} : context'[b] = context[b] /\ todo'[b] = todo[b]
    <3>1. ToolMessage(got[a].task) \in Messages
      BY <2>2 DEF ToolMessage, Messages
    <3>2. Append(context[a], ToolMessage(got[a].task)) \in Seq(Messages)
      BY <2>1, <3>1, AppendProperties
    <3>3. todo[a] - 1 \in Nat
      BY <2>1
    <3> QED
      BY <1>4, <3>2, <3>3 DEF AgentTypes
  <2>6. CASE todo[a] > 1 /\ Dispatch(a)
    <3>1. AgentTypes'
      BY <1>1, <1>2, <2>5, <2>6, DispatchTyped DEF AgentTypes
    <3>2. BusTypes' /\ EmissionInv' /\ PoolTypes' /\ UNCHANGED listeners
      BY <1>1, <2>6, DispatchTyped, BusUntouched DEF Continue
    <3>3. OthersKept(a)
      BY <1>2, <2>5, <2>6, DispatchTyped DEF OthersKept
    <3>4. todo'[a] > 0
      BY <2>1, <2>3, <2>6
    <3>5. InStep(a)'
      BY <2>4, <2>6, <3>4, DispatchTyped DEF InStep, CallOpen
    <3>6. \A b \in Agents : Registered(b)'
      BY <1>1, <2>6, <3>2, <3>3, DispatchTyped, StaysRegistered
    <3> QED
      BY <3>1, <3>2, <3>3, <3>5, <3>6, OthersStayInStep DEF AgentsInv
  <2>7. CASE ~(todo[a] > 1) /\ Iterate(a)
    <3>1. AgentTypes'
      BY <1>1, <1>2, <2>5, <2>7, IterateTyped DEF AgentTypes
    <3>2. BusTypes' /\ EmissionInv' /\ PoolTypes' /\ UNCHANGED listeners
      BY <1>1, <2>7, IterateTyped, BusUntouched DEF Continue, PoolTypes
    <3>3. OthersKept(a)
      BY <1>2, <2>5, <2>7, IterateTyped DEF OthersKept
    <3>4. todo'[a] = 0
      BY <2>1, <2>3, <2>7
    <3>5. InStep(a)'
      BY <2>4, <2>7, <3>4, IterateTyped DEF InStep, CallOpen
    <3>6. \A b \in Agents : Registered(b)'
      BY <1>1, <2>7, <3>2, <3>3, IterateTyped, StaysRegistered
    <3> QED
      BY <3>1, <3>2, <3>3, <3>5, <3>6, OthersStayInStep DEF AgentsInv
  <2> QED
    BY <1>4, <2>6, <2>7
<1> QED
  BY <1>3, <1>4 DEF Continue

LEMMA ListenStep ==
  ASSUME IInv, NEW a \in Agents, Listen(a)
  PROVE  IInv'
<1> USE DEF IInv
<1>1. /\ pc[a] = "creating" /\ pc' = [pc EXCEPT ![a] = "waiting"]
      /\ listeners' = [e \in AnswerEvents |-> On(listeners[e], a)]
      /\ ceiling' = [ceiling EXCEPT ![a] = EngineTimeout]
      /\ UNCHANGED <<iterations, todo, calls, context, got, starved, emission, emitter, poolVars>>
  BY DEF Listen, Ceiling
<1>2. pc' \in [Agents -> AgentStates] /\ pc'[a] = "waiting"
      /\ \A b \in Agents \ {a} : pc'[b] = pc[b]
  BY <1>1 DEF AgentTypes, AgentStates
<1>3. ceiling' \in [Agents -> 0..EngineTimeout]
  <2>1. EngineTimeout \in 0..EngineTimeout
    BY TimeoutAssumption
  <2> QED
    BY <1>1, <2>1 DEF AgentTypes
<1>4. AgentTypes'
  BY <1>1, <1>2, <1>3 DEF AgentTypes
<1>5. /\ \A e \in AnswerEvents : listeners[e] \in Seq(Handlers)
      /\ a \in Handlers
      /\ \A e \in AnswerEvents : listeners'[e] = On(listeners[e], a)
  BY <1>1 DEF BusTypes, Handlers
<1>6. BusTypes'
  BY <1>1, <1>5, OnAdds DEF BusTypes
<1>7. PoolTypes' /\ EmissionInv'
  BY <1>1 DEF poolVars, PoolTypes, EmissionInv
<1>8. OthersKept(a)
  BY <1>1, <1>2 DEF OthersKept
<1>9. InStep(a)'
  BY <1>1, <1>2 DEF AgentsInv, InStep, CallOpen
<1>10. ASSUME NEW b \in Agents
       PROVE  Registered(b)'
  <2>1. CASE b = a
    <3>1. \A e \in AnswerEvents : ~Has(listeners[e], a)
      BY <1>1 DEF AgentsInv, Registered
    <3> QED
      BY <1>2, <1>5, <2>1, <3>1, OnAdds DEF Registered
  <2>2. CASE b # a
    BY <1>2, <1>5, <2>2, OnAdds DEF AgentsInv, Registered
  <2> QED
    BY <2>1, <2>2
<1> QED
  BY <1>4, <1>6, <1>7, <1>8, <1>9, <1>10, OthersStayInStep DEF AgentsInv

(* The wait ends, with an answer to the agent's own task. *)
LEMMA Settles ==
  ASSUME IInv, NEW a \in Agents, pc[a] = "waiting",
         NEW answer \in Settled, answer.task = Task(a), SettleWith(a, answer)
  PROVE  /\ AgentTypes' /\ AgentsInv'
         /\ listeners' \in [AnswerEvents -> Seq(Handlers)]
<1> USE DEF IInv
<1>1. /\ listeners' = [e \in AnswerEvents |-> Off(listeners[e], a)]
      /\ ceiling' = [ceiling EXCEPT ![a] = 0]
      /\ got' = [got EXCEPT ![a] = answer]
      /\ pc' = [pc EXCEPT ![a] = "answered"]
      /\ UNCHANGED <<iterations, todo, calls, context, starved>>
  BY DEF SettleWith, Cleanup
<1>2. pc' \in [Agents -> AgentStates] /\ pc'[a] = "answered"
      /\ \A b \in Agents \ {a} : pc'[b] = pc[b]
  BY <1>1 DEF AgentTypes, AgentStates
<1>3. ceiling' \in [Agents -> 0..EngineTimeout]
  BY <1>1, TimeoutAssumption DEF AgentTypes
<1>4. /\ got' \in [Agents -> Settled \cup {None}] /\ got'[a] = answer
      /\ \A b \in Agents \ {a} : got'[b] = got[b]
  BY <1>1 DEF AgentTypes
<1>5. AgentTypes'
  BY <1>1, <1>2, <1>3, <1>4 DEF AgentTypes
<1>6. \A e \in AnswerEvents : /\ listeners[e] \in Seq(Handlers)
                              /\ Once(listeners[e], a)
                              /\ listeners'[e] = Off(listeners[e], a)
  BY <1>1 DEF BusTypes, AgentsInv, Registered
<1>7. listeners' \in [AnswerEvents -> Seq(Handlers)]
  BY <1>1, <1>6, OffRemoves
<1>8. OthersKept(a)
  BY <1>1, <1>2, <1>4 DEF OthersKept
<1>9. InStep(a)'
  BY <1>1, <1>2, <1>4 DEF AgentsInv, InStep, CallOpen, Task
<1>10. ASSUME NEW b \in Agents
       PROVE  Registered(b)'
  <2>1. CASE b = a
    <3>1. \A e \in AnswerEvents : ~Has(listeners'[e], a)
      BY <1>6, OffRemoves
    <3>2. \A e \in AnswerEvents : Once(listeners'[e], a)
      BY <3>1 DEF Has, Once
    <3> QED
      BY <1>2, <2>1, <3>1, <3>2 DEF Registered
  <2>2. CASE b # a
    BY SMTT(40), <1>2, <1>6, <2>2, OffRemoves DEF AgentsInv, Registered
  <2> QED
    BY <2>1, <2>2
<1> QED
  BY <1>5, <1>7, <1>8, <1>9, <1>10, OthersStayInStep DEF AgentsInv

LEMMA GiveUpStep ==
  ASSUME IInv, NEW a \in Agents, GiveUp(a)
  PROVE  IInv'
<1> USE DEF IInv
<1>1. pc[a] = "waiting"
  BY DEF GiveUp, CeilingDue
<1>2. Task(a) \in Tasks
  BY <1>1, TaskOfCall DEF AgentsInv, CallOpen
<1>3. [task |-> Task(a), answer |-> "timeout"] \in Settled
  BY <1>2 DEF Settled, Answers
<1>4. AgentTypes' /\ AgentsInv' /\ listeners' \in [AnswerEvents -> Seq(Handlers)]
  BY <1>1, <1>3, Settles DEF GiveUp
<1>5. BusTypes' /\ EmissionInv' /\ PoolTypes'
  BY <1>4 DEF GiveUp, poolVars, BusTypes, EmissionInv, PoolTypes
<1> QED
  BY <1>4, <1>5

(* Whoever an emission reaches is on the list it runs over. *)
LEMMA ReceiverListed ==
  ASSUME IInv, emission # None, NEW h,
         Delivers(emission, listeners[emission.event]),
         Receiver(emission, listeners[emission.event]) = h
  PROVE  Has(listeners[emission.event], h)
<1>1. emission \in Emissions /\ emission.next > 0
  BY DEF IInv, BusTypes, EmissionInv
<1>2. /\ emission.event \in AnswerEvents /\ emission.next \in Nat
      /\ listeners[emission.event] \in Seq(Handlers)
  BY <1>1 DEF IInv, BusTypes, Emissions
<1>3. emission.next \in DOMAIN listeners[emission.event]
  BY <1>1, <1>2, LenProperties DEF Delivers
<1> QED
  BY <1>3 DEF Receiver, Has

LEMMA DeliverToAgentStep ==
  ASSUME IInv, NEW a \in Agents, DeliverToAgent(a)
  PROVE  IInv'
<1> USE DEF IInv
<1>1. /\ emission # None /\ emission \in Emissions /\ emission' = Advance(emission)
      /\ UNCHANGED <<emitter, poolVars>>
  BY DEF DeliverToAgent, BusTypes
<1>2. emission.event \in AnswerEvents /\ emission.data \in Settled /\ emission.next \in Nat
  BY <1>1 DEF Emissions
<1>3. pc[a] = "waiting"
  BY <1>1, <1>2, ReceiverListed DEF DeliverToAgent, AgentsInv, Registered
<1>4. AgentTypes' /\ AgentsInv' /\ listeners' \in [AnswerEvents -> Seq(Handlers)]
  <2>1. CASE Mine(a, emission.data.task)
    <3>1. emission.data.task = Task(a) /\ SettleWith(a, emission.data)
      BY <2>1 DEF DeliverToAgent, Mine
    <3> QED
      BY <1>2, <1>3, <3>1, Settles
  <2>2. CASE UNCHANGED <<agentVars, listeners>>
    BY <2>2, AgentsUntouched DEF BusTypes
  <2> QED
    BY <2>1, <2>2 DEF DeliverToAgent
<1>5. BusTypes'
  BY <1>1, <1>4, AdvanceTyped DEF BusTypes
<1>6. EmissionInv'
  BY <1>1, <1>2, AdvanceTyped DEF poolVars, EmissionInv
<1>7. PoolTypes'
  BY <1>1 DEF poolVars, PoolTypes
<1> QED
  BY <1>4, <1>5, <1>6, <1>7

-----------------------------------------------------------------------------
(* The theorems about contexts and listeners. *)

LEMMA Inductive ==
  ASSUME IInv, [Next]_vars
  PROVE  IInv'
<1>1. ASSUME NEW a \in Agents, Run(a) \/ AgentStep(a)
      PROVE  IInv'
  BY <1>1, RunStep, WantsToolsStep, SynthesisStep, InvokeFailsStep, ListenStep,
     GiveUpStep, DeliverToAgentStep, ContinueStep DEF AgentStep
<1>2. CASE UNCHANGED vars
  <2>1. AgentTypes' /\ AgentsInv'
    BY <1>2, AgentsUntouched DEF IInv, vars, busVars
  <2>2. BusTypes' /\ EmissionInv' /\ PoolTypes'
    BY <1>2 DEF IInv, vars, busVars, poolVars, BusTypes, EmissionInv, PoolTypes
  <2> QED
    BY <2>1, <2>2 DEF IInv
<1> QED
  BY <1>1, <1>2, PoolStep, DashboardStep, StartDashboardStep, EmissionEndsStep,
     StartPoolStep, ClockStep DEF Next

LEMMA Invariance == Spec => []IInv
BY InitHolds, Inductive, PTL DEF Spec

(* The variables keep their types: the iterations of a run stay below      *)
(* maxIterations, an emission always carries a task's answer, and no loop  *)
(* of the pool is ever handed something else than a task.                  *)
THEOREM TypeCorrect == Spec => []TypeOK
<1>1. IInv => TypeOK
  BY TypesAreTypeOK DEF IInv
<1> QED
  BY <1>1, Invariance, PTL

(* The context a run sends to the model is well formed, whatever answers   *)
(* come late, come twice or belong to other agents' tasks, for any number  *)
(* of agents, rounds and tool calls (AgentEngine.ts:58-94).                *)
THEOREM ContextsWellFormed == Spec => []ContextWellFormed
<1>1. IInv => ContextWellFormed
  BY DEF IInv, AgentsInv, InStep, WellFormed, ContextWellFormed
<1> QED
  BY <1>1, Invariance, PTL

(* No exit of waitForTaskCompletion leaves a handler on the bus or takes a *)
(* handler of another agent off it (AgentEngine.ts:105-136).               *)
THEOREM ListenersAreWaiters == Spec => []ListenersOfWaiters
<1>1. ASSUME NEW list, NEW a, Once(list, a)
      PROVE  Cardinality({i \in DOMAIN list : list[i] = a}) = IF Has(list, a) THEN 1 ELSE 0
  <2>1. CASE ~Has(list, a)
    <3>1. {i \in DOMAIN list : list[i] = a} = {}
      BY <2>1 DEF Has
    <3> QED
      BY <2>1, <3>1, FS_EmptySet
  <2>2. CASE Has(list, a)
    <3>1. PICK k \in DOMAIN list : list[k] = a
      BY <2>2 DEF Has
    <3>2. {i \in DOMAIN list : list[i] = a} = {k}
      BY <1>1, <3>1 DEF Once
    <3> QED
      BY <2>2, <3>2, FS_Singleton
  <2> QED
    BY <2>1, <2>2
<1>2. IInv => ListenersOfWaiters
  BY <1>1 DEF IInv, AgentsInv, Registered, ListenersOfWaiters
<1> QED
  BY <1>2, Invariance, PTL

-----------------------------------------------------------------------------
(* Why the engine's timer never overtakes the pool's: where the task of a  *)
(* waiting agent is, and how much of the two limits is left there.         *)

(* A task at position i is pulled before e plus its nap exceed a nap.      *)
Soon(i, e) ==
  \/ e = 0
  \/ /\ poolUp
     /\ i <= FreeLoops
     /\ \A w \in Workers : Idle(w) => worker[w].left + e <= PollTime

Ahead(t, e) == \E i \in DOMAIN queue : queue[i] = t /\ Soon(i, e)

Taken(t, e) ==
  \E w \in Workers :
    worker[w].task = t /\ worker[w].left + e <= PoolTimeout + PollTime

(* e after the agent began to wait, t is on its way to an answer in time.  *)
Served(t, e) == Ahead(t, e) \/ Taken(t, e)

Since(a) == IF pc[a] = "creating" THEN 0 ELSE EngineTimeout - ceiling[a]

InHand(a) ==
  pc[a] \in {"creating", "waiting"} /\ ~starved[a] => Served(Task(a), Since(a))

(* An emission of its answer still has the waiting agent before it. *)
Reaches(a) ==
  emission # None /\ emission.data.task = Task(a) =>
    /\ pc[a] # "creating"
    /\ pc[a] = "waiting" =>
         LET list == listeners[emission.event]
         IN \E p \in DOMAIN list :
              emission.next <= p /\ p <= emission.last /\ list[p] = a

Patience(a) == got[a] # None /\ got[a].answer = "timeout" => starved[a]

Timely(a) == InHand(a) /\ Reaches(a) /\ Patience(a)

Naps == \A w \in Workers : Idle(w) => worker[w].left <= PollTime

TimeInv == Naps /\ \A a \in Agents : Timely(a)

(* The free loops, as a number. *)
LEMMA FreeLoopsNat ==
  /\ FreeLoops \in Nat
  /\ FreeLoops >= 1 => poolUp /\ \E w \in Workers : Idle(w)
<1> DEFINE S == {w \in Workers : Idle(w)}
<1>1. IsFiniteSet(S) /\ Cardinality(S) \in Nat
  BY WorkersAssumption, FS_Subset, FS_CardinalityType
<1>2. S = {} => Cardinality(S) = 0
  BY FS_EmptySet
<1>3. FreeLoops = IF poolUp THEN Cardinality(S) ELSE 0
  BY DEF FreeLoops
<1>4. S # {} => \E w \in Workers : Idle(w)
  OBVIOUS
<1> HIDE DEF S
<1> QED
  BY <1>1, <1>2, <1>3, <1>4

(* Whoever is soon pulled has waited for a nap at most. *)
LEMMA SoonBound ==
  ASSUME PoolTypes, NEW i \in Nat \ {0}, NEW e \in Nat, Soon(i, e)
  PROVE  e <= PollTime
<1>1. CASE e = 0
  BY <1>1, TimeoutAssumption
<1>2. CASE i <= FreeLoops /\ \A w \in Workers : Idle(w) => worker[w].left + e <= PollTime
  <2>1. PICK w \in Workers : Idle(w)
    BY <1>2, FreeLoopsNat
  <2>2. worker[w].left \in Nat
    BY DEF PoolTypes, LoopStates
  <2> QED
    BY <1>2, <2>1, <2>2, TimeoutAssumption
<1> QED
  BY <1>1, <1>2 DEF Soon

(* When the engine's limit is over, nobody is still being served.          *)
LEMMA NotServedTooLate ==
  ASSUME PoolTypes, NEW t
  PROVE  ~Served(t, EngineTimeout)
<1>1. ~Ahead(t, EngineTimeout)
  <2> SUFFICES ASSUME NEW i \in DOMAIN queue, Soon(i, EngineTimeout)
               PROVE  FALSE
    BY DEF Ahead
  <2>1. i \in Nat \ {0}
    BY LenProperties DEF PoolTypes
  <2>2. EngineTimeout <= PollTime
    BY <2>1, SoonBound, TimeoutAssumption
  <2> QED
    BY <2>2, TimeoutAssumption
<1>2. ~Taken(t, EngineTimeout)
  <2> SUFFICES ASSUME NEW w \in Workers,
                      worker[w].left + EngineTimeout <= PoolTimeout + PollTime
               PROVE  FALSE
    BY DEF Taken
  <2>1. worker[w].left \in Nat
    BY DEF PoolTypes, LoopStates
  <2> QED
    BY <2>1, TimeoutAssumption
<1> QED
  BY <1>1, <1>2 DEF Served

(* A loop that looks for its next task, be it after a nap or after a task  *)
(* of somebody else, keeps every task on its way.                          *)
LEMMA NextTaskServes ==
  ASSUME PoolTypes, UNCHANGED poolUp, NEW w \in Workers, NextTask(w),
         Idle(w) => worker[w].left = 0,
         NEW t \in Tasks, worker[w].task # t, NEW e \in Nat, Served(t, e)
  PROVE  Served(t, e)'
<1>1. \A u \in Workers \ {w} : worker'[u] = worker[u]
  BY DEF NextTask, PoolTypes
<1>2. CASE Taken(t, e)
  BY <1>1, <1>2 DEF Taken, Served
<1>3. CASE Ahead(t, e)
  <2>1. PICK i \in DOMAIN queue : queue[i] = t /\ Soon(i, e)
    BY <1>3 DEF Ahead
  <2>2. /\ queue # << >> /\ queue \in Seq(Tasks)
        /\ DOMAIN queue = 1..Len(queue) /\ Len(queue) \in Nat
    BY <2>1, LenProperties DEF PoolTypes
  <2>3. CASE ~poolUp /\ UNCHANGED queue
    BY <2>1, <2>3 DEF Soon, Ahead, Served
  <2>4. CASE /\ poolUp /\ queue' = Tail(queue)
             /\ worker' = [worker EXCEPT ![w] = [task |-> Head(queue), left |-> PoolTimeout]]
    <3>1. worker'[w] = [task |-> queue[1], left |-> PoolTimeout]
      BY <2>2, <2>4, HeadTailProperties DEF PoolTypes
    <3>2. e <= PollTime
      BY <2>1, <2>2, SoonBound
    <3>3. CASE i = 1
      <4>1. worker'[w].task = t /\ worker'[w].left + e <= PoolTimeout + PollTime
        BY <2>1, <3>1, <3>2, <3>3, TimeoutAssumption
      <4> QED
        BY <4>1 DEF Taken, Served
    <3>4. CASE i # 1
      <4>1. /\ i - 1 \in DOMAIN queue' /\ queue'[i - 1] = t
        <5>1. /\ Tail(queue) \in Seq(Tasks) /\ Len(Tail(queue)) = Len(queue) - 1
              /\ \A j \in 1..Len(Tail(queue)) : Tail(queue)[j] = queue[j + 1]
          BY <2>2, HeadTailProperties
        <5>2. i - 1 \in 1..(Len(queue) - 1) /\ i - 1 + 1 = i
          BY <2>1, <2>2, <3>4
        <5> QED
          BY <2>1, <2>4, <5>1, <5>2, LenProperties
      <4>2. Soon(i - 1, e)'
        <5>1. CASE e = 0
          BY <5>1 DEF Soon
        <5>2. CASE /\ i <= FreeLoops
                   /\ \A u \in Workers : Idle(u) => worker[u].left + e <= PollTime
          <6>1. queue[1] # None
            BY <2>2, NoneAssumption, ElementOfSeq
          <6>2. \A u \in Workers : Idle(u)' <=> u # w /\ Idle(u)
            BY <1>1, <3>1, <6>1 DEF Idle
          <6> DEFINE S == {u \in Workers : Idle(u)}
                     T == {u \in Workers : Idle(u)'}
          <6>3. T = S \ {w}
            BY <6>2
          <6>4. IsFiniteSet(S) /\ Cardinality(S) \in Nat
            BY WorkersAssumption, FS_Subset, FS_CardinalityType
          <6>5. FreeLoops = Cardinality(S) /\ FreeLoops' = Cardinality(T)
            BY <2>4 DEF FreeLoops, Idle
          <6> HIDE DEF S, T
          <6>6. Cardinality(T) = Cardinality(S) \/ Cardinality(T) = Cardinality(S) - 1
            BY <6>3, <6>4, FS_RemoveElement
          <6>7. i - 1 <= FreeLoops'
            BY <2>1, <2>2, <5>2, <6>4, <6>5, <6>6
          <6>8. \A u \in Workers : Idle(u)' => worker'[u].left + e <= PollTime
            BY <1>1, <5>2, <6>2
          <6> QED
            BY <2>4, <6>7, <6>8 DEF Soon
        <5> QED
          BY <2>1, <5>1, <5>2 DEF Soon
      <4> QED
        BY <4>1, <4>2 DEF Ahead, Served
    <3> QED
      BY <3>3, <3>4
  <2> QED
    BY <2>2, <2>3, <2>4 DEF NextTask
<1> QED
  BY <1>2, <1>3 DEF Served

LEMMA NextTaskNaps ==
  ASSUME PoolTypes, Naps, NEW w \in Workers, NextTask(w)
  PROVE  Naps'
<1>1. \A u \in Workers \ {w} : worker'[u] = worker[u]
  BY DEF NextTask, PoolTypes
<1>2. worker'[w] = Resting(PollTime) \/ worker'[w].task \in Tasks
  <2>1. queue # << >> => Head(queue) \in Tasks
    BY HeadTailProperties DEF PoolTypes
  <2> QED
    BY <2>1 DEF NextTask, PoolTypes
<1> QED
  BY <1>1, <1>2, NoneAssumption, TimeoutAssumption DEF Naps, Idle, Resting

(* Appending to the queue keeps every task on its way, and adds one.       *)
LEMMA AppendServes ==
  ASSUME PoolTypes, UNCHANGED <<poolUp, worker>>, NEW x \in Tasks,
         queue' = Append(queue, x)
  PROVE  /\ \A t, e : Served(t, e) => Served(t, e)'
         /\ Served(x, 0)'
<1>1. /\ queue' \in Seq(Tasks) /\ Len(queue') = Len(queue) + 1
      /\ \A i \in 1..Len(queue) : queue'[i] = queue[i]
      /\ queue'[Len(queue) + 1] = x
      /\ Len(queue) \in Nat /\ DOMAIN queue = 1..Len(queue)
      /\ DOMAIN queue' = 1..Len(queue')
  BY AppendProperties, LenProperties DEF PoolTypes
<1>2. \A i \in DOMAIN queue : i \in DOMAIN queue' /\ queue'[i] = queue[i]
  BY <1>1
<1>3. \A i, e : Soon(i, e)' <=> Soon(i, e)
  BY DEF Soon, FreeLoops, Idle
<1>4. Len(queue) + 1 \in DOMAIN queue'
  BY <1>1
<1>5. Served(x, 0)'
  BY <1>1, <1>4 DEF Served, Ahead, Soon
<1>6. ASSUME NEW t, NEW e, Served(t, e)
      PROVE  Served(t, e)'
  BY <1>2, <1>3, <1>6 DEF Served, Ahead, Taken
<1> QED
  BY <1>5, <1>6

LEMMA ServedUnchanged ==
  ASSUME UNCHANGED poolVars
  PROVE  \A t, e : Served(t, e)' <=> Served(t, e)
<1>1. UNCHANGED <<queue, poolUp, worker>>
  BY DEF poolVars
<1>2. \A i, e : Soon(i, e)' <=> Soon(i, e)
  BY <1>1 DEF Soon, FreeLoops, Idle
<1> QED
  BY <1>1, <1>2 DEF Served, Ahead, Taken

(* A moment goes by: what is not left behind the free loops stays on its   *)
(* way.                                                                    *)
LEMMA TickServes ==
  ASSUME PoolTypes, Naps, Tick, NEW t, NEW e \in Nat, Served(t, e),
         ~ \E i \in DOMAIN queue : i > FreeLoops /\ queue[i] = t
  PROVE  Served(t, e + 1)'
<1>1. /\ UNCHANGED <<queue, poolUp>>
      /\ \A w \in Workers : worker[w].left \in Nat /\ worker[w].left > 0
      /\ \A w \in Workers : /\ worker'[w].task = worker[w].task
                            /\ worker'[w].left = worker[w].left - 1
  <2>1. UNCHANGED <<queue, poolUp>> /\ \A w \in Workers : worker[w].left > 0
    BY DEF Tick
  <2>2. \A w \in Workers : worker[w].left \in Nat /\ worker[w] \in LoopStates
    BY DEF PoolTypes, LoopStates
  <2>3. worker' = [w \in Workers |-> [worker[w] EXCEPT !.left = Minus1(@)]]
    BY DEF Tick
  <2>4. ASSUME NEW w \in Workers
        PROVE  /\ worker'[w].task = worker[w].task
               /\ worker'[w].left = Minus1(worker[w].left)
    BY <2>2, <2>3 DEF LoopStates
  <2> QED
    BY <2>1, <2>2, <2>4 DEF Minus1
<1>2. \A w \in Workers : Idle(w)' <=> Idle(w)
  BY <1>1 DEF Idle
<1>3. FreeLoops' = FreeLoops
  <2>1. {w \in Workers : Idle(w)}' = {w \in Workers : Idle(w)}
    BY <1>2
  <2> QED
    BY <1>1, <2>1 DEF FreeLoops
<1>4. CASE Taken(t, e)
  BY <1>1, <1>4 DEF Taken, Served
<1>5. CASE Ahead(t, e)
  <2>1. PICK i \in DOMAIN queue : queue[i] = t /\ Soon(i, e)
    BY <1>5 DEF Ahead
  <2>2. i \in Nat \ {0}
    BY LenProperties DEF PoolTypes
  <2>3. i <= FreeLoops
    BY <2>1, <2>2, FreeLoopsNat
  <2>4. poolUp
    BY <2>2, <2>3, FreeLoopsNat
  <2>5. \A w \in Workers : Idle(w) => worker[w].left + e <= PollTime
    BY <1>1, <2>1 DEF Soon, Naps
  <2>6. \A w \in Workers : Idle(w)' => worker'[w].left + (e + 1) <= PollTime
    <3> SUFFICES ASSUME NEW w \in Workers, Idle(w)
                 PROVE  worker'[w].left + (e + 1) <= PollTime
      BY <1>2
    <3> QED
      BY <1>1, <2>5, TimeoutAssumption
  <2>7. Soon(i, e + 1)'
    BY <1>1, <1>3, <2>3, <2>4, <2>6 DEF Soon
  <2> QED
    BY <1>1, <2>1, <2>7 DEF Ahead, Served
<1> QED
  BY <1>4, <1>5 DEF Served

-----------------------------------------------------------------------------
(* Every step keeps waiting agents served. *)

LEMMA TimeInit == Init => TimeInv
<1> SUFFICES ASSUME Init
             PROVE  TimeInv
  OBVIOUS
<1>1. Naps
  BY TimeoutAssumption DEF Init, Naps, Resting
<1>2. ASSUME NEW a \in Agents
      PROVE  Timely(a)
  BY DEF Init, Timely, InHand, Reaches, Patience
<1> QED
  BY <1>1, <1>2 DEF TimeInv

(* What a waiting agent counts with. *)
Kept(a) ==
  /\ pc'[a] = pc[a] /\ calls'[a] = calls[a] /\ got'[a] = got[a]
  /\ ceiling'[a] = ceiling[a] /\ starved'[a] = starved[a]

LEMMA TaskServed ==
  ASSUME IInv, NEW a \in Agents, pc[a] \in {"creating", "waiting"}
  PROVE  Task(a) \in Tasks /\ Since(a) \in Nat
<1>1. Task(a) \in Tasks
  BY TaskOfCall DEF IInv, AgentsInv, CallOpen
<1>2. ceiling[a] \in 0..EngineTimeout
  BY DEF IInv, AgentTypes
<1> QED
  BY <1>1, <1>2, TimeoutAssumption DEF Since

(* An agent that a step passes by is still in hand if its task is served.  *)
LEMMA StaysInHand ==
  ASSUME IInv, NEW a \in Agents, InHand(a), Kept(a),
         pc[a] \in {"creating", "waiting"} /\ ~starved[a] =>
           \A t \in Tasks, e \in Nat : t = Task(a) /\ Served(t, e) => Served(t, e)'
  PROVE  InHand(a)'
<1>1. Task(a)' = Task(a) /\ Since(a)' = Since(a)
  BY DEF Kept, Task, Since
<1>2. ASSUME pc[a] \in {"creating", "waiting"}, ~starved[a]
      PROVE  Served(Task(a), Since(a))'
  <2> DEFINE t == Task(a)
             e == Since(a)
  <2>1. t \in Tasks /\ e \in Nat /\ Served(t, e) /\ t' = t /\ e' = e
    BY <1>1, <1>2, TaskServed DEF InHand
  <2>2. \A x \in Tasks, y \in Nat : x = t /\ Served(x, y) => Served(x, y)'
    BY <1>2
  <2> HIDE DEF t, e
  <2>3. Served(t, e)'
    BY <2>1, <2>2
  <2> QED
    BY <2>3 DEF t, e
<1> QED
  BY <1>1, <1>2 DEF Kept, InHand

(* The same, with no emission in progress after the step. *)
LEMMA PassedBy ==
  ASSUME IInv, NEW a \in Agents, Timely(a), Kept(a), emission' = None,
         pc[a] \in {"creating", "waiting"} /\ ~starved[a] =>
           \A t \in Tasks, e \in Nat : t = Task(a) /\ Served(t, e) => Served(t, e)'
  PROVE  Timely(a)'
<1>1. InHand(a)'
  BY StaysInHand DEF Timely
<1> QED
  BY <1>1 DEF Timely, Kept, Reaches, Patience

LEMMA PollTimely ==
  ASSUME IInv, TimeInv, NEW w \in Workers, Poll(w)
  PROVE  TimeInv'
<1> USE DEF IInv, TimeInv
<1>1. Naps'
  BY NextTaskNaps DEF Poll
<1>2. /\ UNCHANGED <<agentVars, busVars, poolUp>> /\ NextTask(w)
      /\ Idle(w) /\ worker[w].left = 0 /\ emission' = None
  BY DEF Poll, busVars, Quiet
<1>3. \A t \in Tasks, e \in Nat : Served(t, e) => Served(t, e)'
  <2>1. worker[w].task \notin Tasks
    BY <1>2, NoneAssumption DEF Idle
  <2> QED
    BY <1>2, <2>1, NextTaskServes
<1>4. ASSUME NEW a \in Agents
      PROVE  Timely(a)'
  BY <1>2, <1>3, PassedBy DEF agentVars, Kept
<1> QED
  BY <1>1, <1>4

(* The loop that is done answers nobody who still waits: the emission has  *)
(* reached its owner before it ends.                                       *)
LEMMA EmissionEndsTimely == IInv /\ TimeInv /\ EmissionEnds => TimeInv'
<1> SUFFICES ASSUME IInv, TimeInv, EmissionEnds
             PROVE  TimeInv'
  OBVIOUS
<1> USE DEF IInv, TimeInv
<1>1. /\ UNCHANGED <<agentVars, listeners, poolUp>> /\ NextTask(emitter)
      /\ emission # None /\ emission' = None
      /\ ~Delivers(emission, listeners[emission.event])
  BY DEF EmissionEnds
<1>2. /\ emitter \in Workers /\ worker[emitter].task = emission.data.task
      /\ emission \in Emissions
  BY <1>1 DEF EmissionInv, BusTypes
<1>3. ~Idle(emitter)
  <2>1. emission.data.task \in Tasks
    BY <1>2 DEF Emissions, Settled
  <2> QED
    BY <1>2, <2>1, NoneAssumption DEF Idle
<1>4. Naps'
  BY <1>1, <1>2, NextTaskNaps
<1>5. \A t \in Tasks, e \in Nat :
        t # emission.data.task /\ Served(t, e) => Served(t, e)'
  BY <1>1, <1>2, <1>3, NextTaskServes
<1>6. ASSUME NEW a \in Agents
      PROVE  Timely(a)'
  <2>1. ASSUME pc[a] \in {"creating", "waiting"}
        PROVE  Task(a) # emission.data.task
    <3> SUFFICES ASSUME Task(a) = emission.data.task
                 PROVE  FALSE
      OBVIOUS
    <3> DEFINE list == listeners[emission.event]
    <3>1. PICK p \in DOMAIN list : emission.next <= p /\ p <= emission.last
      BY <1>1, <2>1 DEF Timely, Reaches
    <3>2. emission.next \in Nat /\ emission.last \in Nat /\ list \in Seq(Handlers)
      BY <1>2 DEF Emissions, BusTypes
    <3>3. p \in 1..Len(list) /\ Len(list) \in Nat
      BY <3>2, LenProperties
    <3>4. emission.next <= emission.last /\ emission.next <= Len(list)
      BY <3>1, <3>2, <3>3
    <3> QED
      BY <1>1, <3>4 DEF Delivers
  <2>2. Kept(a)
    BY <1>1 DEF agentVars, Kept
  <2> QED
    BY <1>1, <1>5, <2>1, <2>2, PassedBy
<1> QED
  BY <1>4, <1>6

(* An emission that begins finds the owner of its task on the list. *)
LEMMA EmitReaches ==
  ASSUME IInv, NEW event \in AnswerEvents, NEW answer, NEW w, EmitAnswer(w, event, answer),
         UNCHANGED <<agentVars, listeners>>, NEW a \in Agents,
         Task(a) = worker[w].task => pc[a] # "creating"
  PROVE  Reaches(a)'
<1> SUFFICES ASSUME Task(a) = worker[w].task, pc[a] = "waiting"
             PROVE  \E p \in DOMAIN listeners[event] :
                      1 <= p /\ p <= Len(listeners[event]) /\ listeners[event][p] = a
  BY DEF EmitAnswer, Emission, Reaches, agentVars, Task
<1>1. listeners[event] \in Seq(Handlers) /\ Has(listeners[event], a)
  BY DEF IInv, BusTypes, AgentsInv, Registered
<1>2. DOMAIN listeners[event] = 1..Len(listeners[event]) /\ Len(listeners[event]) \in Nat
  BY <1>1, LenProperties
<1> QED
  BY <1>1, <1>2 DEF Has

LEMMA AnswerTimely ==
  ASSUME IInv, TimeInv, NEW w \in Workers, Resolve(w) \/ TimeOut(w)
  PROVE  TimeInv'
<1> USE DEF IInv, TimeInv
<1>1. /\ UNCHANGED <<agentVars, listeners, poolVars>> /\ MayAnswer(w)
      /\ \E event \in AnswerEvents, answer \in Answers : EmitAnswer(w, event, answer)
  BY DEF Resolve, TimeOut, AnswerEvents, Answers
<1>2. Naps'
  BY <1>1 DEF poolVars, Naps, Idle
<1>3. ASSUME NEW a \in Agents
      PROVE  Timely(a)'
  <2>1. Kept(a)
    BY <1>1 DEF agentVars, Kept
  <2>2. InHand(a)'
    BY <1>1, <2>1, ServedUnchanged, StaysInHand DEF Timely
  <2>3. Task(a) = worker[w].task => pc[a] # "creating"
    <3>1. Owner(Task(a)) = a
      BY DEF Owner, Task
    <3> QED
      BY <1>1, <3>1 DEF MayAnswer
  <2>4. Reaches(a)'
    BY <1>1, <2>3, EmitReaches
  <2>5. Patience(a)'
    BY <2>1 DEF Timely, Kept, Patience
  <2> QED
    BY <2>2, <2>4, <2>5 DEF Timely
<1> QED
  BY <1>2, <1>3

(* The emission passes a handler that is not the one of agent a. *)
LEMMA AdvanceReaches ==
  ASSUME IInv, NEW a \in Agents, Reaches(a), UNCHANGED <<agentVars, listeners>>,
         emission # None, emission' = Advance(emission),
         Receiver(emission, listeners[emission.event]) # a \/ emission.data.task # Task(a)
  PROVE  Reaches(a)'
<1>1. emission \in Emissions
  BY DEF IInv, BusTypes
<1>2. /\ emission'.event = emission.event /\ emission'.data = emission.data
      /\ emission'.next = emission.next + 1 /\ emission'.last = emission.last
      /\ emission.next \in Nat
  BY <1>1, AdvanceTyped DEF Emissions
<1>3. pc' = pc /\ Task(a)' = Task(a)
  BY DEF agentVars, Task
<1> SUFFICES ASSUME emission.data.task = Task(a), pc[a] = "waiting"
             PROVE  \E p \in DOMAIN listeners[emission.event] :
                      /\ emission.next + 1 <= p /\ p <= emission.last
                      /\ listeners[emission.event][p] = a
  BY <1>2, <1>3 DEF Reaches
<1>4. PICK p \in DOMAIN listeners[emission.event] :
        emission.next <= p /\ p <= emission.last /\ listeners[emission.event][p] = a
  BY DEF Reaches
<1>5. p # emission.next
  BY <1>4 DEF Receiver
<1>6. p \in Nat
  <2>1. listeners[emission.event] \in Seq(Handlers)
    BY <1>1 DEF IInv, BusTypes, Emissions
  <2> QED
    BY <2>1, LenProperties
<1> QED
  BY <1>2, <1>4, <1>5, <1>6

LEMMA DashboardTimely ==
  ASSUME IInv, TimeInv, NEW d \in Dashboards, DeliverToDashboard(d)
  PROVE  TimeInv'
<1> USE DEF IInv, TimeInv
<1>1. /\ UNCHANGED <<agentVars, listeners, poolVars>> /\ emission # None
      /\ Receiver(emission, listeners[emission.event]) = d
  BY DEF DeliverToDashboard
<1>2. Naps'
  BY <1>1 DEF poolVars, Naps, Idle
<1>3. ASSUME NEW a \in Agents
      PROVE  Timely(a)'
  <2>1. Kept(a)
    BY <1>1 DEF agentVars, Kept
  <2>2. InHand(a)'
    BY <1>1, <2>1, ServedUnchanged, StaysInHand DEF Timely
  <2>3. CASE emission' = Advance(emission)
    <3>1. a # d
      BY HandlersAssumption
    <3> QED
      BY <1>1, <2>1, <2>2, <2>3, <3>1, AdvanceReaches DEF Timely, Kept, Patience
  <2>4. CASE EmitAnswer(emitter, "task:failed", "error")
    <3>1. Task(a) = worker[emitter].task => pc[a] # "creating"
      BY <1>1 DEF Timely, Reaches, EmissionInv
    <3>2. Reaches(a)'
      BY <1>1, <2>4, <3>1, EmitReaches DEF AnswerEvents
    <3> QED
      BY <2>1, <2>2, <3>2 DEF Timely, Kept, Patience
  <2> QED
    BY <2>3, <2>4 DEF DeliverToDashboard
<1> QED
  BY <1>2, <1>3

LEMMA StartPoolTimely == IInv /\ TimeInv /\ StartPool => TimeInv'
<1> SUFFICES ASSUME IInv, TimeInv, StartPool
             PROVE  TimeInv'
  OBVIOUS
<1> USE DEF IInv, TimeInv
<1>1. /\ UNCHANGED <<agentVars, busVars, queue>> /\ ~poolUp /\ emission' = None
      /\ worker' = [w \in Workers |-> IF Idle(w) THEN Resting(0) ELSE worker[w]]
  BY DEF StartPool, busVars, Quiet
<1>2. Naps'
  BY <1>1, TimeoutAssumption DEF Naps, Idle, Resting
<1>3. ASSUME NEW t \in Tasks, NEW e \in Nat, Served(t, e)
      PROVE  Served(t, e)'
  <2>1. CASE Ahead(t, e)
    BY <1>1, <2>1 DEF Ahead, Soon, Served
  <2>2. CASE Taken(t, e)
    <3>1. PICK w \in Workers :
            worker[w].task = t /\ worker[w].left + e <= PoolTimeout + PollTime
      BY <2>2 DEF Taken
    <3>2. worker'[w] = worker[w]
      BY <1>1, <3>1, NoneAssumption DEF Idle
    <3> QED
      BY <3>1, <3>2 DEF Taken, Served
  <2> QED
    BY <1>3, <2>1, <2>2 DEF Served
<1>4. ASSUME NEW a \in Agents
      PROVE  Timely(a)'
  BY <1>1, <1>3, PassedBy DEF agentVars, Kept
<1> QED
  BY <1>2, <1>4

LEMMA StarvedGrows ==
  ASSUME AgentTypes, NEW I, starved' = StarvedAt(I), NEW a \in Agents
  PROVE  /\ starved[a] => starved'[a]
         /\ ~starved'[a] /\ pc[a] \in {"creating", "waiting"}
              => ~ \E i \in I : queue[i] = Task(a)
<1>1. starved'[a] = (\/ starved[a]
                     \/ /\ pc[a] \in {"creating", "waiting"}
                        /\ \E i \in I : queue[i] = Task(a))
  BY Zenon DEF StarvedAt
<1> QED
  BY <1>1, Zenon

(* Whoever still queues when the pool stops is marked. *)
LEMMA StopPoolTimely == IInv /\ TimeInv /\ StopPool => TimeInv'
<1> SUFFICES ASSUME IInv, TimeInv, StopPool
             PROVE  TimeInv'
  OBVIOUS
<1> USE DEF IInv, TimeInv
<1>1. /\ UNCHANGED <<pc, calls, got, ceiling, queue, worker>> /\ emission' = None
      /\ starved' = StarvedAt(DOMAIN queue)
  BY DEF StopPool, busVars, Quiet
<1>2. Naps'
  BY <1>1 DEF Naps, Idle
<1>3. ASSUME NEW a \in Agents
      PROVE  Timely(a)'
  <2>1. Task(a)' = Task(a) /\ Since(a)' = Since(a)
    BY <1>1 DEF Task, Since
  <2>2. ASSUME pc[a] \in {"creating", "waiting"}, ~starved'[a]
        PROVE  Served(Task(a), Since(a))'
    <3>1. ~starved[a] /\ ~ \E i \in DOMAIN queue : queue[i] = Task(a)
      BY <1>1, <2>2, StarvedGrows
    <3>2. Taken(Task(a), Since(a))
      BY <2>2, <3>1 DEF Timely, InHand, Served, Ahead
    <3> QED
      BY <1>1, <2>1, <3>2 DEF Taken, Served
  <2>3. InHand(a)'
    BY <1>1, <2>2 DEF InHand
  <2>4. Reaches(a)' /\ Patience(a)'
    BY <1>1, StarvedGrows DEF Reaches, Timely, Patience
  <2> QED
    BY <2>3, <2>4 DEF Timely
<1> QED
  BY <1>2, <1>3

(* A moment goes by for every clock at once. *)
LEMMA TickTimely == IInv /\ TimeInv /\ Tick => TimeInv'
<1> SUFFICES ASSUME IInv, TimeInv, Tick
             PROVE  TimeInv'
  OBVIOUS
<1> USE DEF IInv, TimeInv
<1>1. /\ UNCHANGED <<pc, calls, got, queue, poolUp>> /\ emission' = None
      /\ starved' = StarvedAt({i \in DOMAIN queue : i > FreeLoops})
      /\ \A a \in Agents : pc[a] # "creating" /\ ~CeilingDue(a)
      /\ \A a \in Agents : ceiling'[a] = Minus1(ceiling[a])
  BY DEF Tick, busVars, Quiet
<1>2. Naps'
  <2>1. worker' = [w \in Workers |-> [worker[w] EXCEPT !.left = Minus1(@)]]
    BY DEF Tick
  <2>2. \A w \in Workers : worker[w] \in LoopStates /\ worker[w].left \in Nat
    BY DEF PoolTypes, LoopStates
  <2>3. \A w \in Workers : /\ worker'[w].task = worker[w].task
                           /\ worker'[w].left = Minus1(worker[w].left)
    BY <2>1, <2>2 DEF LoopStates
  <2> QED
    BY <2>2, <2>3, TimeoutAssumption DEF Naps, Idle, Minus1
<1>3. ASSUME NEW a \in Agents
      PROVE  Timely(a)'
  <2>1. Task(a)' = Task(a)
    BY <1>1 DEF Task
  <2>2. ASSUME pc[a] \in {"creating", "waiting"}, ~starved'[a]
        PROVE  Served(Task(a), Since(a))'
    <3>1. pc[a] = "waiting" /\ ceiling[a] \in 0..EngineTimeout /\ ceiling[a] # 0
      BY <1>1, <2>2 DEF CeilingDue, AgentTypes
    <3>2. ceiling'[a] = ceiling[a] - 1 /\ Since(a)' = Since(a) + 1
      BY <1>1, <3>1, TimeoutAssumption DEF Minus1, Since
    <3>3. /\ ~starved[a]
          /\ ~ \E i \in {k \in DOMAIN queue : k > FreeLoops} : queue[i] = Task(a)
      BY <1>1, <2>2, StarvedGrows
    <3>4. ~ \E i \in DOMAIN queue : i > FreeLoops /\ queue[i] = Task(a)
      BY <3>3
    <3> DEFINE t == Task(a)
               e == Since(a)
    <3>5. e \in Nat /\ Served(t, e)
      BY <2>2, <3>3, TaskServed DEF Timely, InHand
    <3>6. \A x, y : y \in Nat /\ Served(x, y)
                    /\ ~(\E i \in DOMAIN queue : i > FreeLoops /\ queue[i] = x)
                      => Served(x, y + 1)'
      BY TickServes
    <3>7. \A x, y : x = t /\ y = e => Served(x, y + 1)'
      BY <3>4, <3>5, <3>6
    <3> HIDE DEF t, e
    <3>8. t' = t /\ (e + 1) = Since(a)' /\ t = Task(a)'
      BY <2>1, <3>2 DEF t, e
    <3> QED
      BY <3>7, <3>8
  <2>3. InHand(a)'
    BY <1>1, <2>2 DEF InHand
  <2>4. Reaches(a)' /\ Patience(a)'
    BY <1>1, StarvedGrows DEF Reaches, Timely, Patience
  <2> QED
    BY <2>3, <2>4 DEF Timely
<1> QED
  BY <1>2, <1>3

(* An agent whose task nobody waits for has nothing to be late for.        *)
LEMMA NotWaiting ==
  ASSUME NEW a \in Agents, pc'[a] \notin {"creating", "waiting"}, emission' = None,
         Patience(a)'
  PROVE  Timely(a)'
BY DEF Timely, InHand, Reaches, Patience

(* A step of agent a with at most one more task in the queue, its own.     *)
LEMMA AgentTimely ==
  ASSUME IInv, TimeInv, NEW a \in Agents, emission' = None, UNCHANGED <<poolUp, worker>>,
         \/ UNCHANGED queue
         \/ queue' = Append(queue, Task(a)') /\ Task(a)' \in Tasks,
         \A b \in Agents \ {a} : Kept(b),
         Timely(a)'
  PROVE  TimeInv'
<1> USE DEF IInv, TimeInv
<1>1. Naps'
  BY DEF Naps, Idle
<1>2. \A t \in Tasks, e \in Nat : Served(t, e) => Served(t, e)'
  <2>1. CASE UNCHANGED queue
    BY <2>1, ServedUnchanged DEF poolVars
  <2>2. CASE queue' = Append(queue, Task(a)') /\ Task(a)' \in Tasks
    <3>1. PICK x \in Tasks : queue' = Append(queue, x)
      BY <2>2
    <3> QED
      BY <3>1, AppendServes
  <2> QED
    BY <2>1, <2>2
<1>3. ASSUME NEW b \in Agents \ {a}
      PROVE  Timely(b)'
  BY <1>2, PassedBy
<1> QED
  BY <1>1, <1>3

(* A new task is at the end of the queue and on its way from there.        *)
LEMMA DispatchTimely ==
  ASSUME IInv, NEW a \in Agents, Dispatch(a), emission' = None,
         UNCHANGED <<poolUp, worker>>, Patience(a)'
  PROVE  /\ Timely(a)'
         /\ UNCHANGED queue \/ (queue' = Append(queue, Task(a)') /\ Task(a)' \in Tasks)
<1> USE DEF IInv
<1>1. CASE pc' = [pc EXCEPT ![a] = "failed"] /\ UNCHANGED <<calls, queue>>
  <2>1. pc'[a] = "failed"
    BY <1>1 DEF AgentTypes
  <2> QED
    BY <1>1, <2>1, NotWaiting
<1>2. CASE /\ calls' = [calls EXCEPT ![a] = @ + 1]
           /\ queue' = Append(queue, <<a, calls[a] + 1>>)
           /\ pc' = [pc EXCEPT ![a] = "creating"]
  <2>1. calls[a] \in Nat /\ calls'[a] = calls[a] + 1 /\ pc'[a] = "creating"
    BY <1>2 DEF AgentTypes
  <2>2. PICK x \in Tasks : x = <<a, calls[a] + 1>>
    <3>1. <<a, calls[a] + 1>> \in Tasks
      BY <2>1 DEF Tasks
    <3> QED
      BY <3>1
  <2>3. Task(a)' = x /\ Since(a)' = 0
    BY <2>1, <2>2 DEF Task, Since
  <2>4. Served(x, 0)'
    BY <1>2, <2>2, AppendServes
  <2>5. Served(Task(a), Since(a))'
    BY <2>3, <2>4 DEF Served, Ahead, Soon, Taken
  <2>6. Timely(a)'
    BY <2>5 DEF Timely, InHand, Reaches
  <2> QED
    BY <1>2, <2>2, <2>3, <2>6
<1> QED
  BY <1>1, <1>2 DEF Dispatch

LEMMA RoundTimely ==
  ASSUME IInv, TimeInv, NEW a \in Agents,
         Run(a) \/ WantsTools(a) \/ Synthesis(a) \/ InvokeFails(a)
  PROVE  TimeInv'
<1> USE DEF IInv, TimeInv
<1>1. /\ UNCHANGED <<got, ceiling, starved, poolUp, worker>> /\ emission' = None
  BY DEF Run, WantsTools, Synthesis, InvokeFails, busVars, poolVars, Quiet
<1>2. Patience(a)'
  BY <1>1 DEF Timely, Patience
<1>3. CASE WantsTools(a)
  <2>1. Dispatch(a)
    BY <1>3 DEF WantsTools
  <2>2. \A b \in Agents \ {a} : Kept(b)
    BY <1>1, <2>1, DispatchTyped DEF Kept
  <2> QED
    BY <1>1, <1>2, <2>1, <2>2, DispatchTimely, AgentTimely
<1>4. CASE ~WantsTools(a)
  <2>1. /\ UNCHANGED <<calls, queue>> /\ pc'[a] \in {"thinking", "failed", "done"}
        /\ \A b \in Agents \ {a} : pc'[b] = pc[b]
    <3>1. CASE Run(a)
      BY <3>1, IterateTyped DEF Run
    <3>2. CASE Synthesis(a)
      BY <3>2 DEF Synthesis, AgentTypes, poolVars
    <3>3. CASE InvokeFails(a)
      BY <3>3 DEF InvokeFails, AgentTypes, poolVars
    <3> QED
      BY <1>4, <3>1, <3>2, <3>3
  <2>2. \A b \in Agents \ {a} : Kept(b)
    BY <1>1, <2>1 DEF Kept
  <2>3. Timely(a)'
    BY <1>1, <1>2, <2>1, NotWaiting
  <2> QED
    BY <1>1, <2>1, <2>2, <2>3, AgentTimely
<1> QED
  BY <1>3, <1>4

LEMMA ContinueTimely ==
  ASSUME IInv, TimeInv, NEW a \in Agents, Continue(a)
  PROVE  TimeInv'
<1> USE DEF IInv, TimeInv
<1>1. /\ UNCHANGED <<ceiling, poolUp, worker>> /\ emission' = None
      /\ got' = [got EXCEPT ![a] = None] /\ starved' = [starved EXCEPT ![a] = FALSE]
  BY DEF Continue, busVars, Quiet
<1>2. Patience(a)'
  BY <1>1 DEF Patience, AgentTypes
<1>3. \A b \in Agents \ {a} : /\ got'[b] = got[b] /\ starved'[b] = starved[b]
                              /\ ceiling'[b] = ceiling[b]
  BY <1>1 DEF AgentTypes
<1>4. CASE Dispatch(a)
  <2>1. \A b \in Agents \ {a} : Kept(b)
    BY <1>3, <1>4, DispatchTyped DEF Kept
  <2> QED
    BY <1>1, <1>2, <1>4, <2>1, DispatchTimely, AgentTimely
<1>5. CASE Iterate(a) \/ (pc' = [pc EXCEPT ![a] = "failed"] /\ UNCHANGED <<calls, queue>>)
  <2>1. /\ UNCHANGED <<calls, queue>> /\ pc'[a] \in {"thinking", "failed"}
        /\ \A b \in Agents \ {a} : pc'[b] = pc[b]
    BY <1>5, IterateTyped DEF AgentTypes
  <2>2. \A b \in Agents \ {a} : Kept(b)
    BY <1>3, <2>1 DEF Kept
  <2>3. Timely(a)'
    BY <1>1, <1>2, <2>1, NotWaiting
  <2> QED
    BY <1>1, <2>1, <2>2, <2>3, AgentTimely
<1> QED
  BY <1>4, <1>5 DEF Continue

(* The engine's clock starts while the task is still where creating it     *)
(* left it.                                                                *)
LEMMA ListenTimely ==
  ASSUME IInv, TimeInv, NEW a \in Agents, Listen(a)
  PROVE  TimeInv'
<1> USE DEF IInv, TimeInv
<1>1. /\ pc[a] = "creating" /\ pc' = [pc EXCEPT ![a] = "waiting"]
      /\ ceiling' = [ceiling EXCEPT ![a] = EngineTimeout]
      /\ UNCHANGED <<calls, got, starved, poolVars>> /\ emission' = None
  BY DEF Listen, Ceiling, Quiet
<1>2. \A b \in Agents \ {a} : Kept(b)
  BY <1>1 DEF Kept, AgentTypes
<1>3. pc'[a] = "waiting" /\ ceiling'[a] = EngineTimeout
  BY <1>1 DEF AgentTypes
<1>4. Since(a) = 0 /\ Since(a)' = 0 /\ Task(a)' = Task(a)
  BY <1>1, <1>3, TimeoutAssumption DEF Since, Task
<1>5. ~starved[a] => Served(Task(a), 0)'
  <2>1. ~starved[a] => Served(Task(a), 0)
    BY <1>1, <1>4 DEF Timely, InHand
  <2> DEFINE t == Task(a)
  <2>2. (~starved[a] => Served(t, 0)) /\ t' = t
    BY <1>4, <2>1
  <2> HIDE DEF t
  <2>3. ~starved[a] => Served(t, 0)'
    BY <1>1, <2>2, ServedUnchanged
  <2> QED
    BY <2>3 DEF t
<1>6. Timely(a)'
  <2>1. InHand(a)'
    BY <1>1, <1>4, <1>5 DEF InHand
  <2>2. Reaches(a)' /\ Patience(a)'
    BY <1>1 DEF Timely, Reaches, Patience
  <2> QED
    BY <2>1, <2>2 DEF Timely
<1> QED
  BY <1>1, <1>2, <1>6, AgentTimely DEF poolVars

LEMMA GiveUpTimely ==
  ASSUME IInv, TimeInv, NEW a \in Agents, GiveUp(a)
  PROVE  TimeInv'
<1> USE DEF IInv, TimeInv
<1>1. /\ pc[a] = "waiting" /\ ceiling[a] = 0 /\ pc' = [pc EXCEPT ![a] = "answered"]
      /\ ceiling' = [ceiling EXCEPT ![a] = 0]
      /\ got' = [got EXCEPT ![a] = [task |-> Task(a), answer |-> "timeout"]]
      /\ UNCHANGED <<calls, starved, poolVars>> /\ emission' = None
  BY DEF GiveUp, CeilingDue, SettleWith, Quiet
<1>2. \A b \in Agents \ {a} : Kept(b)
  BY <1>1 DEF Kept, AgentTypes
<1>3. Since(a) = EngineTimeout
  BY <1>1, TimeoutAssumption DEF Since
<1>4. starved[a]
  BY <1>1, <1>3, NotServedTooLate DEF Timely, InHand
<1>5. Timely(a)'
  <2>1. pc'[a] = "answered"
    BY <1>1 DEF AgentTypes
  <2>2. Patience(a)'
    BY <1>1, <1>4 DEF Patience
  <2> QED
    BY <1>1, <2>1, <2>2, NotWaiting
<1> QED
  BY <1>1, <1>2, <1>5, AgentTimely DEF poolVars

LEMMA DeliverToAgentTimely ==
  ASSUME IInv, TimeInv, NEW a \in Agents, DeliverToAgent(a)
  PROVE  TimeInv'
<1> USE DEF IInv, TimeInv
<1>1. /\ UNCHANGED poolVars /\ emission # None /\ emission' = Advance(emission)
      /\ Receiver(emission, listeners[emission.event]) = a
  BY DEF DeliverToAgent
<1>2. Naps'
  BY <1>1 DEF poolVars, Naps, Idle
<1>3. CASE ~Mine(a, emission.data.task)
  <2>1. UNCHANGED <<agentVars, listeners>> /\ emission.data.task # Task(a)
    BY <1>3 DEF DeliverToAgent, Mine
  <2>2. ASSUME NEW b \in Agents
        PROVE  Timely(b)'
    <3>1. Kept(b)
      BY <2>1 DEF agentVars, Kept
    <3>2. InHand(b)'
      BY <1>1, <3>1, ServedUnchanged, StaysInHand DEF Timely
    <3>3. Reaches(b)'
      BY <1>1, <2>1, AdvanceReaches DEF Timely
    <3> QED
      BY <3>1, <3>2, <3>3 DEF Timely, Kept, Patience
  <2> QED
    BY <1>2, <2>2
<1>4. CASE Mine(a, emission.data.task)
  <2>1. /\ emission.data.task = Task(a)
        /\ pc' = [pc EXCEPT ![a] = "answered"]
        /\ ceiling' = [ceiling EXCEPT ![a] = 0]
        /\ got' = [got EXCEPT ![a] = emission.data]
        /\ UNCHANGED <<calls, starved>>
    BY <1>4 DEF DeliverToAgent, Mine, SettleWith
  <2>2. emission \in Emissions /\ emission'.data = emission.data
    BY <1>1, AdvanceTyped DEF BusTypes
  <2>3. ASSUME NEW b \in Agents \ {a}
        PROVE  Timely(b)'
    <3>1. Kept(b)
      BY <2>1 DEF Kept, AgentTypes
    <3>2. InHand(b)'
      BY <1>1, <3>1, ServedUnchanged, StaysInHand DEF Timely
    <3>3. Task(b)' # emission'.data.task
      BY <2>1, <2>2 DEF Task
    <3> QED
      BY <3>1, <3>2, <3>3 DEF Timely, Kept, Patience, Reaches
  <2>4. pc'[a] = "answered" /\ got'[a] = emission.data
    BY <2>1 DEF AgentTypes
  <2>5. Timely(a)'
    BY <1>1, <2>4 DEF Timely, InHand, Reaches, Patience, EmissionInv
  <2> QED
    BY <1>2, <2>3, <2>5
<1> QED
  BY <1>3, <1>4

LEMMA StartDashboardTimely ==
  ASSUME IInv, TimeInv, NEW d \in Dashboards, StartDashboard(d)
  PROVE  TimeInv'
<1> USE DEF IInv, TimeInv
<1>1. UNCHANGED <<agentVars, poolVars>> /\ emission' = None
  BY DEF StartDashboard, Quiet
<1>2. Naps'
  BY <1>1 DEF poolVars, Naps, Idle
<1>3. ASSUME NEW a \in Agents
      PROVE  Timely(a)'
  BY <1>1, ServedUnchanged, PassedBy DEF agentVars, Kept
<1> QED
  BY <1>2, <1>3

LEMMA TimeStutters == IInv /\ TimeInv /\ UNCHANGED vars => TimeInv'
<1> SUFFICES ASSUME IInv, TimeInv, UNCHANGED vars
             PROVE  TimeInv'
  OBVIOUS
<1> USE DEF IInv, TimeInv
<1>1. UNCHANGED <<agentVars, listeners, emission, poolVars>>
  BY DEF vars, busVars
<1>2. Naps'
  BY <1>1 DEF poolVars, Naps, Idle
<1>3. ASSUME NEW a \in Agents
      PROVE  Timely(a)'
  <2>1. Kept(a)
    BY <1>1 DEF agentVars, Kept
  <2>2. InHand(a)'
    BY <1>1, <2>1, ServedUnchanged, StaysInHand DEF Timely
  <2> QED
    BY <1>1, <2>1, <2>2 DEF Timely, Kept, Patience, Reaches, Task
<1> QED
  BY <1>2, <1>3

LEMMA TimeInductive ==
  ASSUME IInv, TimeInv, [Next]_vars
  PROVE  TimeInv'
<1>1. ASSUME NEW a \in Agents, Run(a) \/ AgentStep(a)
      PROVE  TimeInv'
  BY <1>1, RoundTimely, ListenTimely, GiveUpTimely, DeliverToAgentTimely,
     ContinueTimely DEF AgentStep
<1> QED
  BY <1>1, PollTimely, AnswerTimely, DashboardTimely, StartDashboardTimely,
     EmissionEndsTimely, StartPoolTimely, StopPoolTimely, TickTimely, TimeStutters DEF Next

(* The 65 s of the engine never end while a loop is free for the task: a   *)
(* nap of 1 s and the pool's own 60 s fit in, whatever else happens, for   *)
(* any number of agents and loops and all limits that satisfy              *)
(* TimeoutAssumption (AgentEngine.ts:130-134, WorkerPool.ts:102-123).      *)
THEOREM GivesUpOnlyWhenStarved == Spec => []GivesUpOnlyBehindQueue
<1>1. Init => IInv /\ TimeInv
  BY InitHolds, TimeInit
<1>2. (IInv /\ TimeInv) /\ [Next]_vars => (IInv /\ TimeInv)'
  BY Inductive, TimeInductive
<1>3. TimeInv => GivesUpOnlyBehindQueue
  BY DEF TimeInv, Timely, Patience, GivesUpOnlyBehindQueue
<1> QED
  BY <1>1, <1>2, <1>3, PTL DEF Spec

=============================================================================
