--------------------------- MODULE TaskStoreProofs ---------------------------
(***************************************************************************)
(* What holds of tasks, their rows and the executions that replay them for *)
(* any set of tasks, any number of steps and of process deaths.            *)
(***************************************************************************)
EXTENDS TaskStore, TLAPS

(* The steps whose function has taken effect. *)
RanSteps(t) == effects[t]

(* Histories name steps that ran: every history object of a task, those    *)
(* nobody holds any more too, its row, and what is on its way to the row.  *)
HistoriesRan(t) ==
  /\ \A r \in Refs : mem[t].heap[r] \subseteq RanSteps(t)
  /\ rows[t] # Absent => rows[t].hist \subseteq RanSteps(t)
  /\ \A p \in patches : p.task = t => p.step \in RanSteps(t)

(* A context and its history object agree, and what is still to be written *)
(* to that object is in it already; an entry that waits with a history of  *)
(* its own has an empty one, which nothing is about to write to.  What     *)
(* runs or waits to run does not sleep.                                    *)
InStep(t) ==
  /\ frame[t] # Absent =>
       /\ queue[t] = Absent
       /\ frame[t].ran => /\ frame[t].pos < NumSteps
                          /\ frame[t].pos + 1 \in RanSteps(t)
       /\ mem[t].heap[frame[t].hist] = 1..frame[t].pos
       /\ \A p \in patches :
            (p.task = t /\ p.ws = frame[t].hist) => p.step <= frame[t].pos
  /\ queue[t] \in Refs =>
       /\ mem[t].heap[queue[t]] = {}
       /\ \A p \in patches : p.task # t
  /\ (queue[t] # Absent \/ frame[t] # Absent) => t \notin timers \cup woken

(* Nothing works on a task, or is to wake it. *)
Idle(t) ==
  /\ queue[t] = Absent
  /\ frame[t] = Absent
  /\ t \notin timers \cup woken
  /\ \A p \in patches : p.task # t

(* There is nothing of a task before createTask, and no work before the    *)
(* recovery has returned.                                                  *)
Born(t) ==
  /\ t \notin issued =>
       /\ Idle(t)
       /\ mem[t].own = Absent /\ mem[t].cached = Absent /\ rows[t] = Absent
       /\ t \notin creating /\ t \notin completing
  /\ ~booted => Idle(t)

(* One object is one object. *)
Aliased(m) == m.same => m.own # Absent /\ m.own = m.cached

Done(m) == m.own # Absent => m.own.status = "completed"

(* The object in tasks is never behind a completed row: persistAll would   *)
(* take the row back.  A completion under way needs the object completed   *)
(* wherever its second half will not complete it.                          *)
OwnNotBehind(t) ==
  /\ Aliased(mem[t])
  /\ mem[t].cached # Absent => mode = "db"
  /\ t \in completing =>
       /\ rows[t] = Absent => Done(mem[t])
       /\ (mode = "db" /\ ~mem[t].same) => Done(mem[t])
  /\ (mode = "db" /\ rows[t] # Absent /\ rows[t].status = "completed")
       => Done(mem[t])

(* With a driver, what is cached has a row, and both objects have its      *)
(* status unless a completion is between them or a statement failed.       *)
Matching(t) ==
  (DriverPresent /\ mem[t].cached # Absent) =>
    /\ rows[t] # Absent
    /\ (t \notin completing /\ t \notin failed) =>
         /\ mem[t].cached.status = rows[t].status
         /\ mem[t].own # Absent => mem[t].own.status = rows[t].status

TaskInv(t) ==
  HistoriesRan(t) /\ InStep(t) /\ Born(t) /\ OwnNotBehind(t) /\ Matching(t)

IInv == TypeOK /\ \A t \in Tasks : TaskInv(t)

(* Within one process, a call of a step's function that has not rejected   *)
(* stands alone: an entry is made by createTask or by the recovery of the  *)
(* process, a context does not turn back, and calls again only what        *)
(* rejected.                                                               *)
OncePerProcess == \A t \in Tasks, s \in Steps : standing[t][s] \in {0, 1}

(* The steps a task may still run in this process. *)
Ahead(t, s) ==
  \/ t \notin issued \/ ~booted \/ queue[t] # Absent
  \/ /\ frame[t] # Absent
     /\ frame[t].ran => s # frame[t].pos + 1
     /\ s > frame[t].pos

(* The step whose function has been called and has not answered. *)
Called(t, s) == frame[t] # Absent /\ frame[t].ran /\ s = frame[t].pos + 1

Spared(t) ==
  \A s \in Steps : /\ standing[t][s] \in {0, 1}
                   /\ Ahead(t, s) => standing[t][s] = 0
                   /\ Called(t, s) => standing[t][s] = 1

-----------------------------------------------------------------------------
(* Memory: what each change of the objects of a task does. *)

LEMMA NatSteps == NumSteps \in Nat /\ Steps \subseteq Nat
  BY StepsAssumption DEF Steps

LEMMA MemoryFields ==
  ASSUME NEW m \in Memory
  PROVE  /\ m.own \in Objects \cup {Absent} /\ m.cached \in Objects \cup {Absent}
         /\ m.same \in BOOLEAN /\ m.heap \in [Refs -> SUBSET Steps]
         /\ \A r \in Refs : m.heap[r] \subseteq Steps
  BY DEF Memory

LEMMA ObjectFields ==
  ASSUME NEW o \in Objects
  PROVE  /\ o.status \in Statuses /\ o.done \in BOOLEAN
         /\ o.ws \in Refs \cup {NoRef} /\ o # Absent
  BY AbsentAssumption DEF Objects

LEMMA RowFields ==
  ASSUME NEW row \in Rows
  PROVE  /\ row.status \in Statuses /\ row.done \in BOOLEAN
         /\ row.hist \subseteq Steps /\ row # Absent
  BY AbsentAssumption DEF Rows

LEMMA FreshRef ==
  ASSUME NEW m, NEW held,
         \E r \in Refs : r \notin held \cup {WsOf(m.own), WsOf(m.cached)}
  PROVE  /\ Fresh(m, held) \in Refs
         /\ Fresh(m, held) \notin held
         /\ Fresh(m, held) # WsOf(m.own) /\ Fresh(m, held) # WsOf(m.cached)
  BY DEF Fresh

LEMMA ObjectOfRowTyped ==
  ASSUME NEW row \in Rows
  PROVE  /\ ObjectOfRow(row) \in Objects
         /\ ObjectOfRow(row).status = row.status
         /\ ObjectOfRow(row).ws = NoRef
  BY DEF ObjectOfRow, Objects, Rows

LEMMA LoadedFields ==
  ASSUME NEW m \in Memory, NEW o \in Objects
  PROVE  /\ Loaded(m, o) \in Memory
         /\ Loaded(m, o).own = o /\ Loaded(m, o).cached = o
         /\ Loaded(m, o).same /\ Loaded(m, o).heap = m.heap
         /\ Aliased(Loaded(m, o))
  BY ObjectFields DEF Loaded, Memory, Aliased

LEMMA SetOwnFields ==
  ASSUME NEW m \in Memory, NEW o \in Objects
  PROVE  /\ SetOwn(m, o) \in Memory
         /\ SetOwn(m, o).own = o
         /\ SetOwn(m, o).cached = IF m.same THEN o ELSE m.cached
         /\ SetOwn(m, o).same = m.same /\ SetOwn(m, o).heap = m.heap
         /\ Aliased(m) => Aliased(SetOwn(m, o))
<1> DEFINE c == IF m.same THEN o ELSE m.cached
<1>1. SetOwn(m, o) = [m EXCEPT !.own = o, !.cached = c]
  BY DEF SetOwn
<1>2. o \in Objects \cup {Absent} /\ o # Absent
  BY ObjectFields
<1>3. c \in Objects \cup {Absent}
  BY <1>2, MemoryFields
<1>4. (m.same => c = o) /\ (~m.same => c = m.cached)
  OBVIOUS
<1> HIDE DEF c
<1>5. SetOwn(m, o) = [own |-> o, cached |-> c, same |-> m.same, heap |-> m.heap]
  BY <1>1 DEF Memory
<1>6. /\ SetOwn(m, o).own = o /\ SetOwn(m, o).cached = c
      /\ SetOwn(m, o).same = m.same /\ SetOwn(m, o).heap = m.heap
  BY <1>5
<1>7. SetOwn(m, o) \in Memory
  BY <1>2, <1>3, <1>5, MemoryFields DEF Memory
<1>8. Aliased(m) => Aliased(SetOwn(m, o))
  BY <1>2, <1>4, <1>6 DEF Aliased
<1> QED
  BY <1>6, <1>7, <1>8 DEF c

LEMMA SetCachedFields ==
  ASSUME NEW m \in Memory, NEW o \in Objects
  PROVE  /\ SetCached(m, o) \in Memory
         /\ SetCached(m, o).cached = o
         /\ SetCached(m, o).own = IF m.same THEN o ELSE m.own
         /\ SetCached(m, o).same = m.same /\ SetCached(m, o).heap = m.heap
         /\ Aliased(m) => Aliased(SetCached(m, o))
<1> DEFINE c == IF m.same THEN o ELSE m.own
<1>1. SetCached(m, o) = [m EXCEPT !.cached = o, !.own = c]
  BY DEF SetCached
<1>2. o \in Objects \cup {Absent} /\ o # Absent
  BY ObjectFields
<1>3. c \in Objects \cup {Absent}
  BY <1>2, MemoryFields
<1>4. (m.same => c = o) /\ (~m.same => c = m.own)
  OBVIOUS
<1> HIDE DEF c
<1>5. SetCached(m, o) = [own |-> c, cached |-> o, same |-> m.same, heap |-> m.heap]
  BY <1>1 DEF Memory
<1>6. /\ SetCached(m, o).own = c /\ SetCached(m, o).cached = o
      /\ SetCached(m, o).same = m.same /\ SetCached(m, o).heap = m.heap
  BY <1>5
<1>7. SetCached(m, o) \in Memory
  BY <1>2, <1>3, <1>5, MemoryFields DEF Memory
<1>8. Aliased(m) => Aliased(SetCached(m, o))
  BY <1>2, <1>4, <1>6 DEF Aliased
<1> QED
  BY <1>6, <1>7, <1>8 DEF c

LEMMA HeapFields ==
  ASSUME NEW m \in Memory, NEW r \in Refs, NEW S \in SUBSET Steps
  PROVE  LET n == [m EXCEPT !.heap[r] = S]
         IN /\ n \in Memory
            /\ n.own = m.own /\ n.cached = m.cached /\ n.same = m.same
            /\ n.heap = [m.heap EXCEPT ![r] = S]
            /\ n.heap[r] = S
            /\ \A q \in Refs : q # r => n.heap[q] = m.heap[q]
            /\ Aliased(m) => Aliased(n)
<1> DEFINE h == [m.heap EXCEPT ![r] = S]
           n == [m EXCEPT !.heap[r] = S]
<1>1. h \in [Refs -> SUBSET Steps] /\ h[r] = S
      /\ \A q \in Refs : q # r => h[q] = m.heap[q]
  BY MemoryFields
<1>2. n = [own |-> m.own, cached |-> m.cached, same |-> m.same, heap |-> h]
  BY DEF Memory
<1> HIDE DEF h
<1>3. n \in Memory /\ n.heap = h /\ n.own = m.own /\ n.cached = m.cached
      /\ n.same = m.same
  BY <1>1, <1>2, MemoryFields DEF Memory
<1> HIDE DEF n
<1>4. Aliased(m) => Aliased(n)
  BY <1>3 DEF Aliased
<1> QED
  BY <1>1, <1>3, <1>4 DEF h, n

(* Whatever happens to its history, an object keeps its status and its     *)
(* identity.                                                               *)
Like(m, n) ==
  /\ n.own = Absent <=> m.own = Absent
  /\ m.own # Absent => n.own.status = m.own.status
  /\ n.cached = Absent <=> m.cached = Absent
  /\ m.cached # Absent => n.cached.status = m.cached.status
  /\ n.same = m.same

Grown(m, n, S) == \A r \in Refs : n.heap[r] \subseteq m.heap[r] \cup S

Free(m, held) == Refs \ (held \cup {WsOf(m.own), WsOf(m.cached)})

LEMMA OwnHistory ==
  ASSUME NEW m \in Memory, NEW r \in Refs, Aliased(m), m.own # Absent
  PROVE  LET n == SetOwn(m, [m.own EXCEPT !.ws = r])
         IN /\ n \in Memory /\ Aliased(n) /\ Like(m, n) /\ n.heap = m.heap
            /\ n.own # Absent /\ n.own.ws = r
            /\ WsOf(n.own) = r /\ WsOf(n.cached) \in {r, WsOf(m.cached)}
<1> DEFINE o == [m.own EXCEPT !.ws = r]
           n == SetOwn(m, o)
<1>1. m.own \in Objects
  BY MemoryFields
<1>2. o \in Objects /\ o.status = m.own.status /\ o.ws = r
  BY <1>1 DEF Objects
<1>3. o # Absent
  BY <1>2, ObjectFields
<1> HIDE DEF o
<1>4. /\ n \in Memory /\ n.own = o /\ n.same = m.same /\ n.heap = m.heap
      /\ n.cached = IF m.same THEN o ELSE m.cached
      /\ Aliased(m) => Aliased(n)
  BY <1>2, SetOwnFields
<1> HIDE DEF n
<1>5. m.same => m.cached = m.own
  BY DEF Aliased
<1>6. Like(m, n)
  BY <1>2, <1>3, <1>4, <1>5 DEF Like
<1>7. WsOf(n.own) = r /\ WsOf(n.cached) \in {r, WsOf(m.cached)}
  BY <1>2, <1>3, <1>4 DEF WsOf
<1> QED
  BY <1>2, <1>3, <1>4, <1>6, <1>7 DEF n, o

LEMMA CachedHistory ==
  ASSUME NEW m \in Memory, NEW r \in Refs, Aliased(m), m.cached # Absent
  PROVE  LET n == SetCached(m, [m.cached EXCEPT !.ws = r])
         IN /\ n \in Memory /\ Aliased(n) /\ Like(m, n) /\ n.heap = m.heap
            /\ n.cached # Absent /\ n.cached.ws = r
<1> DEFINE o == [m.cached EXCEPT !.ws = r]
           n == SetCached(m, o)
<1>1. m.cached \in Objects
  BY MemoryFields
<1>2. o \in Objects /\ o.status = m.cached.status /\ o.ws = r
  BY <1>1 DEF Objects
<1>3. o # Absent
  BY <1>2, ObjectFields
<1> HIDE DEF o
<1>4. /\ n \in Memory /\ n.cached = o /\ n.same = m.same /\ n.heap = m.heap
      /\ n.own = IF m.same THEN o ELSE m.own
      /\ Aliased(m) => Aliased(n)
  BY <1>2, SetCachedFields
<1> HIDE DEF n
<1>5. m.same => m.cached = m.own
  BY DEF Aliased
<1>6. Like(m, n)
  BY <1>2, <1>3, <1>4, <1>5 DEF Like
<1> QED
  BY <1>2, <1>3, <1>4, <1>6 DEF n, o

(* The context's own record of a step. *)
LEMMA RememberEffect ==
  ASSUME NEW m \in Memory, Aliased(m), NEW r \in Refs, NEW s \in Steps
  PROVE  LET n == Remember(m, r, s)
         IN /\ n \in Memory /\ Aliased(n) /\ Like(m, n) /\ Grown(m, n, {s})
            /\ n.heap[r] = m.heap[r] \cup {s}
            /\ n.own = m.own /\ n.cached = m.cached
            /\ \A held : Free(n, held) = Free(m, held)
<1> DEFINE S == m.heap[r] \cup {s}
           n == [m EXCEPT !.heap[r] = S]
<1>1. S \in SUBSET Steps
  BY MemoryFields
<1>2. Remember(m, r, s) = n
  BY DEF Remember
<1> HIDE DEF S
<1>3. /\ n \in Memory
      /\ n.own = m.own /\ n.cached = m.cached /\ n.same = m.same
      /\ n.heap[r] = S
      /\ \A q \in Refs : q # r => n.heap[q] = m.heap[q]
      /\ Aliased(m) => Aliased(n)
  BY <1>1, HeapFields
<1> HIDE DEF n
<1>4. Like(m, n)
  BY <1>3 DEF Like
<1>5. Grown(m, n, {s})
  BY <1>3 DEF Grown, S
<1>6. \A held : Free(n, held) = Free(m, held)
  BY <1>3 DEF Free
<1> QED
  BY <1>2, <1>3, <1>4, <1>5, <1>6 DEF S

LEMMA RememberOthers ==
  ASSUME NEW m \in Memory, NEW r \in Refs, NEW s \in Steps, NEW q \in Refs, q # r
  PROVE  Remember(m, r, s).heap[q] = m.heap[q]
<1> DEFINE S == m.heap[r] \cup {s}
<1>1. S \in SUBSET Steps
  BY MemoryFields
<1>2. Remember(m, r, s) = [m EXCEPT !.heap[r] = S]
  BY DEF Remember
<1> HIDE DEF S
<1> QED
  BY <1>1, <1>2, HeapFields

(* The task manager's record of it: of what is held, no history but the    *)
(* object's own can change, and no more than one history is taken.         *)
LEMMA RecordEffect ==
  ASSUME NEW m \in Memory, Aliased(m), NEW s \in Steps, NEW held,
         Free(m, held) # {}
  PROVE  LET n == Record(m, s, held)
         IN /\ n \in Memory /\ Aliased(n) /\ Like(m, n) /\ Grown(m, n, {s})
            /\ \A q \in held \cap Refs :
                 n.heap[q] = m.heap[q] \/ n.heap[q] = m.heap[q] \cup {s}
            /\ n.own # Absent => n.own.ws \in Refs
            /\ \E r \in Refs : Free(m, held) \ {r} \subseteq Free(n, held)
<1> DEFINE n == Record(m, s, held)
<1>1. PICK a \in Refs : a \in Free(m, held)
  BY DEF Free
<1>2. CASE m.own = Absent
  <2>1. n = m
    BY <1>2 DEF Record
  <2>2. Like(m, m) /\ Grown(m, m, {s})
    BY DEF Like, Grown
  <2> HIDE DEF n
  <2> QED
    BY <1>1, <1>2, <2>1, <2>2 DEF n
<1>3. CASE m.own # Absent /\ m.own.ws # NoRef
  <2> DEFINE r == m.own.ws
             S == m.heap[r] \cup {s}
  <2>1. r \in Refs
    BY <1>3, MemoryFields, ObjectFields
  <2>2. S \in SUBSET Steps
    BY <2>1, MemoryFields
  <2>3. n = [m EXCEPT !.heap[r] = S]
    BY <1>3 DEF Record
  <2>4. m.own.ws = r
    OBVIOUS
  <2> HIDE DEF r, S, n
  <2>5. /\ n \in Memory
        /\ n.own = m.own /\ n.cached = m.cached /\ n.same = m.same
        /\ n.heap[r] = S
        /\ \A q \in Refs : q # r => n.heap[q] = m.heap[q]
        /\ Aliased(n)
    BY <2>1, <2>2, <2>3, HeapFields
  <2>6. Like(m, n)
    BY <2>5 DEF Like
  <2>7. Grown(m, n, {s})
    BY <2>5 DEF Grown, S
  <2>8. Free(n, held) = Free(m, held)
    BY <2>5 DEF Free
  <2>9. \A q \in held \cap Refs :
          n.heap[q] = m.heap[q] \/ n.heap[q] = m.heap[q] \cup {s}
    BY <2>5 DEF S
  <2> QED
    BY <1>1, <2>1, <2>4, <2>5, <2>6, <2>7, <2>8, <2>9 DEF n
<1>4. CASE m.own # Absent /\ m.own.ws = NoRef
  <2> DEFINE r == Fresh(m, held)
             k == SetOwn(m, [m.own EXCEPT !.ws = r])
             S == {s}
  <2>1. \E q \in Refs : q \notin held \cup {WsOf(m.own), WsOf(m.cached)}
    BY <1>1 DEF Free
  <2>2. r \in Refs /\ r \notin held
    BY <2>1, FreshRef
  <2>3. n = [k EXCEPT !.heap[r] = S]
    BY <1>4 DEF Record
  <2> HIDE DEF r
  <2>4. /\ k \in Memory /\ Aliased(k) /\ Like(m, k) /\ k.heap = m.heap
        /\ k.own # Absent /\ k.own.ws = r
        /\ WsOf(k.own) = r /\ WsOf(k.cached) \in {r, WsOf(m.cached)}
    BY <1>4, <2>2, OwnHistory
  <2> HIDE DEF k, n
  <2>5. S \in SUBSET Steps
    OBVIOUS
  <2> HIDE DEF S
  <2>6. /\ n \in Memory
        /\ n.own = k.own /\ n.cached = k.cached /\ n.same = k.same
        /\ n.heap[r] = S
        /\ \A q \in Refs : q # r => n.heap[q] = k.heap[q]
        /\ Aliased(n)
    BY <2>2, <2>3, <2>4, <2>5, HeapFields
  <2>7. Like(m, n)
    BY <2>4, <2>6 DEF Like
  <2>8. Grown(m, n, {s})
    BY <2>4, <2>6 DEF Grown, S
  <2>9. Free(m, held) \ {r} \subseteq Free(n, held)
    BY <2>4, <2>6 DEF Free
  <2>10. \A q \in held \cap Refs :
           n.heap[q] = m.heap[q] \/ n.heap[q] = m.heap[q] \cup {s}
    BY <2>2, <2>4, <2>6
  <2> QED
    BY <2>2, <2>4, <2>6, <2>7, <2>8, <2>9, <2>10 DEF n, S
<1> QED
  BY <1>2, <1>3, <1>4

LEMMA Composed ==
  ASSUME NEW m, NEW n, NEW k, NEW s, Like(m, n), Like(n, k),
         Grown(m, n, {s}), Grown(n, k, {s})
  PROVE  Like(m, k) /\ Grown(m, k, {s})
  BY DEF Like, Grown

(* The objects after the context and the first listener of                 *)
(* task:step_completed, and after the second.                              *)
Noted(m, hist, s, held) == Record(Remember(m, hist, s), s, held)
Opened(m, held) ==
  LET r == Fresh(m, held)
  IN IF WsOf(CapturedObject(m)) # NoRef THEN m
     ELSE [SetCached(m, [m.cached EXCEPT !.ws = r]) EXCEPT !.heap[r] = {}]

(* The first listener keeps the statuses, the second may read the row back *)
(* into m3, on which it then works.                                        *)
Heard(m, hist, s, held, row, m3) ==
  LET m2 == Noted(m, hist, s, held)
      m4 == Opened(m3, held)
  IN /\ m2 \in Memory /\ Aliased(m2) /\ Like(m, m2) /\ Grown(m, m2, {s})
     /\ m2.heap[hist] = m.heap[hist] \cup {s}
     /\ CapturedObject(m3) # Absent =>
          /\ m4 \in Memory /\ Aliased(m4) /\ Grown(m, m4, {s})
          /\ m4.heap[hist] = m.heap[hist] \cup {s}
          /\ CapturedObject(m4) # Absent /\ CapturedObject(m4).ws \in Refs
          /\ \/ Like(m, m4)
             \/ /\ m.cached = Absent /\ row # Absent
                /\ m4.same /\ m4.own # Absent
                /\ m4.own.status = row.status

LEMMA ListenersEffect ==
  ASSUME NEW m \in Memory, Aliased(m), NEW row \in Rows \cup {Absent},
         NEW held, NEW hist \in Refs, hist \in held, NEW s \in Steps,
         \E a, b \in Free(m, held) : a # b,
         NEW m3 \in Captured(Noted(m, hist, s, held), row)
  PROVE  Heard(m, hist, s, held, row, m3)
<1> DEFINE m1 == Remember(m, hist, s)
           m2 == Record(m1, s, held)
           r == Fresh(m3, held)
           k == SetCached(m3, [m3.cached EXCEPT !.ws = r])
           m4 == Opened(m3, held)
<1> PICK a, b \in Free(m, held) : a # b
  OBVIOUS
<1>1. /\ m1 \in Memory /\ Aliased(m1) /\ Like(m, m1) /\ Grown(m, m1, {s})
      /\ m1.heap[hist] = m.heap[hist] \cup {s}
      /\ Free(m1, held) = Free(m, held)
  BY RememberEffect
<1>2. Free(m1, held) # {}
  BY <1>1
<1>3. Noted(m, hist, s, held) = m2
  BY DEF Noted
<1> HIDE DEF m1
<1>4. /\ m2 \in Memory /\ Aliased(m2) /\ Like(m1, m2) /\ Grown(m1, m2, {s})
      /\ \A q \in held \cap Refs :
           m2.heap[q] = m1.heap[q] \/ m2.heap[q] = m1.heap[q] \cup {s}
      /\ m2.own # Absent => m2.own.ws \in Refs
      /\ \E q \in Refs : Free(m1, held) \ {q} \subseteq Free(m2, held)
  BY <1>1, <1>2, RecordEffect
<1> HIDE DEF m2
<1>5. Like(m, m2) /\ Grown(m, m2, {s})
  BY <1>1, <1>4, Composed
<1>6. m2.heap[hist] = m.heap[hist] \cup {s}
  BY <1>1, <1>4
<1>7. PICK e \in Refs : e \in Free(m2, held)
  BY <1>1, <1>4 DEF Free
<1>8. ASSUME CapturedObject(m3) # Absent
      PROVE  /\ m4 \in Memory /\ Aliased(m4) /\ Grown(m, m4, {s})
             /\ m4.heap[hist] = m.heap[hist] \cup {s}
             /\ CapturedObject(m4) # Absent /\ CapturedObject(m4).ws \in Refs
             /\ \/ Like(m, m4)
                \/ /\ m.cached = Absent /\ row # Absent
                   /\ m4.same /\ m4.own # Absent
                   /\ m4.own.status = row.status
  <2>1. /\ m3 \in Memory /\ Aliased(m3) /\ m3.heap = m2.heap
        /\ Free(m2, held) \subseteq Free(m3, held)
        /\ m3.cached = Absent => m3.own # Absent /\ m3.own.ws \in Refs
        /\ \/ Like(m, m3)
           \/ /\ m.cached = Absent /\ row # Absent
              /\ m3.same /\ m3.own # Absent /\ m3.cached # Absent
              /\ m3.own.status = row.status
    <3>0. \/ m3 = m2
          \/ /\ m2.cached = Absent /\ row # Absent
             /\ m3 = Loaded(m2, ObjectOfRow(row))
      BY <1>3 DEF Captured
    <3>1. CASE m3 = m2
      <4>1. m2.cached = Absent => m2.own # Absent
        BY <1>8, <3>1 DEF CapturedObject
      <4> QED
        BY <1>4, <1>5, <3>1, <4>1
    <3>2. CASE /\ m2.cached = Absent /\ row # Absent
               /\ m3 = Loaded(m2, ObjectOfRow(row))
      <4> DEFINE o == ObjectOfRow(row)
      <4>1. m3 = Loaded(m2, o)
        BY <3>2
      <4>2. o \in Objects /\ o.status = row.status /\ o.ws = NoRef
        BY <3>2, ObjectOfRowTyped
      <4> HIDE DEF o
      <4>3. /\ m3 \in Memory /\ m3.own = o /\ m3.cached = o
            /\ m3.same /\ m3.heap = m2.heap /\ Aliased(m3)
        BY <1>4, <4>1, <4>2, LoadedFields
      <4>4. o # Absent
        BY <4>2, ObjectFields
      <4>5. Free(m2, held) \subseteq Free(m3, held)
        BY <4>2, <4>3, <4>4, NoRefAssumption DEF Free, WsOf
      <4>6. m.cached = Absent
        BY <1>5, <3>2 DEF Like
      <4> QED
        BY <3>2, <4>2, <4>3, <4>4, <4>5, <4>6
    <3> QED
      BY <3>0, <3>1, <3>2
  <2>2. CASE WsOf(CapturedObject(m3)) # NoRef
    <3>1. m4 = m3
      BY <2>2 DEF Opened
    <3>2. CapturedObject(m3).ws \in Refs
      <4>1. CapturedObject(m3) \in Objects
        BY <1>8, <2>1, MemoryFields DEF CapturedObject
      <4>2. CapturedObject(m3).ws # NoRef
        BY <1>8, <2>2 DEF WsOf
      <4> QED
        BY <4>1, <4>2, ObjectFields
    <3>3. Grown(m, m3, {s})
      BY <1>5, <2>1 DEF Grown
    <3> HIDE DEF m4
    <3> QED
      BY <1>6, <1>8, <2>1, <3>1, <3>2, <3>3
  <2>3. CASE WsOf(CapturedObject(m3)) = NoRef
    <3>1. m4 = [k EXCEPT !.heap[r] = {}]
      BY <2>3 DEF Opened
    <3>2. m3.cached # Absent
      BY <1>8, <2>1, <2>3, NoRefAssumption DEF CapturedObject, WsOf
    <3>3. \E q \in Refs : q \notin held \cup {WsOf(m3.own), WsOf(m3.cached)}
      BY <1>7, <2>1 DEF Free
    <3>4. r \in Refs /\ r \notin held
      BY <3>3, FreshRef
    <3> HIDE DEF r, m4
    <3>5. /\ k \in Memory /\ Aliased(k) /\ Like(m3, k) /\ k.heap = m3.heap
          /\ k.cached # Absent /\ k.cached.ws = r
      BY <2>1, <3>2, <3>4, CachedHistory
    <3> DEFINE S == {}
    <3>6. S \in SUBSET Steps /\ m4 = [k EXCEPT !.heap[r] = S]
      BY <3>1
    <3> HIDE DEF k, S
    <3>7. /\ m4 \in Memory
          /\ m4.own = k.own /\ m4.cached = k.cached /\ m4.same = k.same
          /\ m4.heap[r] = S
          /\ \A q \in Refs : q # r => m4.heap[q] = k.heap[q]
          /\ Aliased(m4)
      BY <3>4, <3>5, <3>6, HeapFields
    <3>8. Like(m3, m4)
      BY <3>5, <3>7 DEF Like
    <3>9. Grown(m, m4, {s})
      BY <1>5, <2>1, <3>5, <3>7 DEF Grown, S
    <3>10. m4.heap[hist] = m.heap[hist] \cup {s}
      BY <1>6, <2>1, <3>4, <3>5, <3>7
    <3>11. CapturedObject(m4) # Absent /\ CapturedObject(m4).ws \in Refs
      BY <3>4, <3>5, <3>7 DEF CapturedObject
    <3>12. CASE Like(m, m3)
      <4>1. Like(m, m4)
        BY <3>8, <3>12 DEF Like
      <4> QED
        BY <3>7, <3>9, <3>10, <3>11, <4>1
    <3>13. CASE ~Like(m, m3)
      <4>1. m4.same /\ m4.own # Absent /\ m4.own.status = row.status
        BY <2>1, <3>8, <3>13 DEF Like
      <4> QED
        BY <2>1, <3>7, <3>9, <3>10, <3>11, <3>13, <4>1
    <3> QED
      BY <3>12, <3>13
  <2> QED
    BY <2>2, <2>3
<1> QED
  BY <1>3, <1>4, <1>5, <1>6, <1>8 DEF Heard

-----------------------------------------------------------------------------
(* What steps do to one task. *)

LEMMA TypesAt ==
  ASSUME TypeOK, NEW t \in Tasks
  PROVE  /\ mem[t] \in Memory
         /\ rows[t] \in Rows \cup {Absent}
         /\ queue[t] \in Refs \cup {NoRef, Absent}
         /\ frame[t] \in Frames \cup {Absent}
         /\ effects[t] \in SUBSET Steps
         /\ committed[t] \in SUBSET Steps
         /\ RanSteps(t) \subseteq Steps
  BY DEF TypeOK, RanSteps

(* A step that leaves a task alone. *)
LEMMA Untouched ==
  ASSUME NEW t \in Tasks, TaskInv(t),
         mem'[t] = mem[t], rows'[t] = rows[t], queue'[t] = queue[t],
         frame'[t] = frame[t], effects'[t] = effects[t],
         t \in timers' \cup woken' => t \in timers \cup woken,
         \A p \in patches' : p.task = t => p \in patches,
         t \in creating' => t \in creating,
         t \in completing' <=> t \in completing,
         t \in issued => t \in issued',
         t \in failed => t \in failed',
         mode' = mode, booted' = booted
  PROVE  TaskInv(t)'
<1>1. HistoriesRan(t)'
  BY DEF TaskInv, HistoriesRan, RanSteps
<1>2. InStep(t)'
  BY DEF TaskInv, InStep, RanSteps
<1>3. Born(t)'
  BY DEF TaskInv, Born, Idle
<1>4. OwnNotBehind(t)'
  BY DEF TaskInv, OwnNotBehind, Aliased, Done
<1>5. Matching(t)'
  BY DEF TaskInv, Matching
<1> QED
  BY <1>1, <1>2, <1>3, <1>4, <1>5 DEF TaskInv

(* A step that changes the objects or the row of a task, and no history    *)
(* that is in use.                                                         *)
LEMMA ObjectStep ==
  ASSUME TypeOK, NEW t \in Tasks, TaskInv(t),
         frame'[t] = frame[t], effects'[t] = effects[t],
         t \in timers' \cup woken' => t \in timers \cup woken,
         \A p \in patches' : p.task = t => p \in patches,
         \A r \in Refs : mem'[t].heap[r] \subseteq mem[t].heap[r],
         \A r \in HeldRefs(t) \cap Refs : mem'[t].heap[r] = mem[t].heap[r],
         rows'[t] # Absent => rows'[t].hist \subseteq RanSteps(t),
         issued' = issued, booted => booted',
         queue'[t] # queue[t] =>
           /\ queue'[t] = NoRef /\ frame[t] = Absent /\ t \in issued /\ booted'
           /\ t \notin timers \cup woken,
         t \notin issued =>
           /\ mem'[t].own = Absent /\ mem'[t].cached = Absent
           /\ rows'[t] = Absent
           /\ t \notin creating' /\ t \notin completing'
  PROVE  HistoriesRan(t)' /\ InStep(t)' /\ Born(t)'
<1>1. RanSteps(t)' = RanSteps(t)
  BY DEF RanSteps
<1>2. HistoriesRan(t)'
  BY <1>1 DEF TaskInv, HistoriesRan
<1>3. ASSUME frame[t] # Absent
      PROVE  /\ queue'[t] = Absent
             /\ mem'[t].heap[frame[t].hist] = mem[t].heap[frame[t].hist]
  <2>1. queue'[t] = Absent
    BY <1>3 DEF TaskInv, InStep
  <2>2. frame[t].hist \in HeldRefs(t)
    BY <1>3 DEF HeldRefs
  <2>3. frame[t].hist \in Refs
    BY <1>3, TypesAt DEF Frames
  <2> QED
    BY <2>1, <2>2, <2>3
<1>4. ASSUME queue'[t] \in Refs
      PROVE  /\ queue'[t] = queue[t]
             /\ mem'[t].heap[queue[t]] = mem[t].heap[queue[t]]
  <2>1. queue'[t] = queue[t]
    BY <1>4, NoRefAssumption
  <2>2. queue[t] \in HeldRefs(t)
    BY DEF HeldRefs
  <2> QED
    BY <1>4, <2>1, <2>2
<1>5. InStep(t)'
  BY <1>1, <1>3, <1>4 DEF TaskInv, InStep
<1>6. Born(t)'
  BY DEF TaskInv, Born, Idle
<1> QED
  BY <1>2, <1>5, <1>6

(* The row takes the place of both objects. *)
LEMMA Reloaded ==
  ASSUME TypeOK, NEW t \in Tasks, TaskInv(t), rows[t] # Absent,
         NEW o \in Objects, o.status = rows'[t].status,
         mem'[t] = Loaded(mem[t], o), mode' = "db",
         rows'[t] # Absent, rows'[t].hist = rows[t].hist,
         frame'[t] = frame[t], effects' = effects, patches' = patches,
         timers' = timers, woken' = woken,
         creating' = creating, completing' = completing, issued' = issued,
         booted => booted',
         queue'[t] # queue[t] =>
           /\ queue'[t] = NoRef /\ frame[t] = Absent /\ t \in issued /\ booted'
           /\ t \notin timers \cup woken
  PROVE  TaskInv(t)'
<1>1. /\ mem'[t].own = o /\ mem'[t].cached = o /\ mem'[t].same
      /\ mem'[t].heap = mem[t].heap /\ Aliased(mem'[t])
  BY TypesAt, LoadedFields
<1>2. t \in issued
  BY DEF TaskInv, Born
<1>3. rows'[t].hist \subseteq RanSteps(t)
  BY DEF TaskInv, HistoriesRan
<1>4. HistoriesRan(t)' /\ InStep(t)' /\ Born(t)'
  BY <1>1, <1>2, <1>3, ObjectStep
<1>5. o # Absent
  BY ObjectFields
<1>6. OwnNotBehind(t)'
  BY <1>1, <1>5 DEF OwnNotBehind, Done, Aliased
<1>7. Matching(t)'
  BY <1>1 DEF Matching
<1> QED
  BY <1>4, <1>6, <1>7 DEF TaskInv

-----------------------------------------------------------------------------
(* Lifecycle of the manager. *)

LEMMA InitHolds == Init => IInv
<1> SUFFICES ASSUME Init PROVE IInv
  OBVIOUS
<1>1. /\ NoMemory \in Memory
      /\ NoMemory.own = Absent /\ NoMemory.cached = Absent /\ ~NoMemory.same
      /\ \A r \in Refs : NoMemory.heap[r] = {}
  BY DEF NoMemory, Memory
<1> DEFINE none == [s \in Steps |-> 0]
<1>2. none \in [Steps -> Int]
  OBVIOUS
<1>3. standing \in [Tasks -> [Steps -> Int]]
  <2> HIDE DEF none
  <2>1. standing = [t \in Tasks |-> none]
    BY DEF Init, none
  <2> QED
    BY <1>2, <2>1
<1>4. mem \in [Tasks -> Memory]
  BY <1>1 DEF Init
<1>5. /\ rows \in [Tasks -> Rows \cup {Absent}]
      /\ queue \in [Tasks -> Refs \cup {NoRef, Absent}]
      /\ frame \in [Tasks -> Frames \cup {Absent}]
      /\ committed \in [Tasks -> SUBSET Steps]
      /\ effects \in [Tasks -> SUBSET Steps]
  BY DEF Init
<1>6. crashes \in 0..MaxCrashes
  BY FlagsAssumption DEF Init
<1>7. booted \in BOOLEAN /\ mode \in {"off", "db", "memory"}
  BY DEF Init
<1>8. TypeOK
  BY <1>3, <1>4, <1>5, <1>6, <1>7 DEF TypeOK, Init
<1>9. ASSUME NEW t \in Tasks
      PROVE  TaskInv(t)
  <2>1. /\ mem[t].own = Absent /\ mem[t].cached = Absent /\ ~mem[t].same
        /\ \A r \in Refs : mem[t].heap[r] = {}
    BY <1>1 DEF Init
  <2>2. /\ rows[t] = Absent /\ queue[t] = Absent /\ frame[t] = Absent
        /\ patches = {} /\ creating = {} /\ completing = {} /\ ~booted
        /\ timers = {} /\ woken = {}
    BY DEF Init
  <2>3. HistoriesRan(t)
    BY <2>1, <2>2 DEF HistoriesRan
  <2>4. InStep(t)
    BY <2>2, AbsentAssumption DEF InStep
  <2>5. Born(t)
    BY <2>1, <2>2 DEF Born, Idle
  <2>6. OwnNotBehind(t)
    BY <2>1, <2>2 DEF OwnNotBehind, Aliased
  <2>7. Matching(t)
    BY <2>1 DEF Matching
  <2> QED
    BY <2>3, <2>4, <2>5, <2>6, <2>7 DEF TaskInv
<1> QED
  BY <1>8, <1>9 DEF IInv

LEMMA InitializeHolds == IInv /\ Initialize => IInv'
<1> SUFFICES ASSUME IInv, Initialize PROVE IInv'
  OBVIOUS
<1> USE DEF memVars, execVars, timerVars, ghostVars, callVars
<1>1. ASSUME NEW t \in Tasks
      PROVE  mem'[t] \in Memory /\ TaskInv(t)'
  <2>1. TypeOK /\ TaskInv(t) /\ mem[t] \in Memory /\ mem[t].cached = Absent
    BY TypesAt DEF IInv, TaskInv, OwnNotBehind, Initialize
  <2>2. CASE mode' = "db" /\ rows[t] # Absent
    <3> DEFINE o == ObjectOfRow(rows[t])
    <3>1. o \in Objects /\ o.status = rows[t].status
      BY <2>1, <2>2, TypesAt, ObjectOfRowTyped
    <3>2. mem'[t] = Loaded(mem[t], o)
      BY <2>2 DEF Initialize
    <3> HIDE DEF o
    <3>3. TaskInv(t)'
      BY <2>1, <2>2, <3>1, <3>2, Reloaded DEF Initialize
    <3> QED
      BY <2>1, <3>1, <3>2, <3>3, LoadedFields
  <2>3. CASE mode' = "memory" \/ rows[t] = Absent
    <3>1. mem'[t] = mem[t]
      BY <2>3 DEF Initialize
    <3>2. rows'[t] # Absent => rows'[t].hist \subseteq RanSteps(t)
      BY <2>1 DEF TaskInv, HistoriesRan, Initialize
    <3>3. t \notin issued => /\ mem[t].own = Absent /\ rows[t] = Absent
                             /\ t \notin creating /\ t \notin completing
      BY <2>1 DEF TaskInv, Born
    <3>4. HistoriesRan(t)' /\ InStep(t)' /\ Born(t)'
      BY <2>1, <3>1, <3>2, <3>3, ObjectStep DEF Initialize
    <3>5. OwnNotBehind(t)'
      BY <2>1, <2>3, <3>1 DEF TaskInv, OwnNotBehind, Aliased, Done, Initialize
    <3>6. Matching(t)'
      BY <2>1, <3>1 DEF Matching
    <3> QED
      BY <2>1, <3>1, <3>4, <3>5, <3>6 DEF TaskInv
  <2>4. mode' = "db" \/ mode' = "memory"
    BY DEF Initialize
  <2> QED
    BY <2>2, <2>3, <2>4
<1>2. mem' \in [Tasks -> Memory]
  <2>1. mem' = [t \in Tasks |-> mem'[t]]
    BY DEF Initialize, IInv, TypeOK
  <2> QED
    BY <1>1, <2>1
<1>3. mode' \in {"off", "db", "memory"}
  BY DEF Initialize
<1>4. TypeOK'
  BY <1>2, <1>3 DEF IInv, TypeOK, Initialize
<1> QED
  BY <1>1, <1>4 DEF IInv

LEMMA CloseHolds == IInv /\ Close => IInv'
<1> SUFFICES ASSUME IInv, Close PROVE IInv'
  OBVIOUS
<1> USE DEF memVars, execVars, timerVars, ghostVars, callVars
<1>1. ASSUME NEW t \in Tasks
      PROVE  mem'[t] \in Memory /\ TaskInv(t)'
  <2>1. TypeOK /\ TaskInv(t) /\ mem[t] \in Memory
    BY TypesAt DEF IInv
  <2>2. mem'[t] = [mem[t] EXCEPT !.cached = Absent, !.same = FALSE]
    BY DEF Close
  <2>3. /\ mem'[t] \in Memory
        /\ mem'[t].own = mem[t].own /\ mem'[t].cached = Absent
        /\ ~mem'[t].same /\ mem'[t].heap = mem[t].heap
    BY <2>1, <2>2 DEF Memory
  <2>4. rows'[t] # Absent => rows'[t].hist \subseteq RanSteps(t)
    BY <2>1 DEF TaskInv, HistoriesRan, Close
  <2>5. t \notin issued => /\ mem[t].own = Absent /\ rows[t] = Absent
                           /\ t \notin creating /\ t \notin completing
    BY <2>1 DEF TaskInv, Born
  <2>6. HistoriesRan(t)' /\ InStep(t)' /\ Born(t)'
    BY <2>1, <2>3, <2>4, <2>5, ObjectStep DEF Close
  <2>7. OwnNotBehind(t)'
    BY <2>1, <2>3 DEF TaskInv, OwnNotBehind, Aliased, Done, Close
  <2>8. Matching(t)'
    BY <2>3 DEF Matching
  <2> QED
    BY <2>3, <2>6, <2>7, <2>8 DEF TaskInv
<1>2. mem' \in [Tasks -> Memory]
  <2>1. mem' = [t \in Tasks |-> mem'[t]]
    BY DEF Close
  <2> QED
    BY <1>1, <2>1
<1>3. TypeOK'
  BY <1>2 DEF IInv, TypeOK, Close
<1> QED
  BY <1>1, <1>3 DEF IInv

LEMMA CrashHolds == IInv /\ Crash => IInv'
<1> SUFFICES ASSUME IInv, Crash PROVE IInv'
  OBVIOUS
<1>1. /\ NoMemory \in Memory
      /\ NoMemory.own = Absent /\ NoMemory.cached = Absent /\ ~NoMemory.same
      /\ \A r \in Refs : NoMemory.heap[r] = {}
  BY DEF NoMemory, Memory
<1>2. ASSUME NEW t \in Tasks
      PROVE  TaskInv(t)'
  <2>1. /\ mem'[t].own = Absent /\ mem'[t].cached = Absent /\ ~mem'[t].same
        /\ \A r \in Refs : mem'[t].heap[r] = {}
    BY <1>1 DEF Crash
  <2>2. /\ queue'[t] = Absent /\ frame'[t] = Absent /\ ~booted'
        /\ patches' = {} /\ creating' = {} /\ completing' = {}
        /\ timers' = {} /\ woken' = {}
    BY DEF Crash
  <2>3. HistoriesRan(t)'
    BY <2>1, <2>2 DEF IInv, TaskInv, HistoriesRan, RanSteps, Crash
  <2>4. InStep(t)'
    BY <2>2, AbsentAssumption DEF InStep
  <2>5. Born(t)'
    BY <2>1, <2>2 DEF IInv, TaskInv, Born, Idle, Crash
  <2>6. OwnNotBehind(t)'
    BY <2>1, <2>2 DEF OwnNotBehind, Aliased, Crash, Done
  <2>7. Matching(t)'
    BY <2>1 DEF Matching
  <2> QED
    BY <2>3, <2>4, <2>5, <2>6, <2>7 DEF TaskInv
<1>3. mem' \in [Tasks -> Memory]
  BY <1>1 DEF Crash
<1>4. /\ queue' \in [Tasks -> Refs \cup {NoRef, Absent}]
      /\ frame' \in [Tasks -> Frames \cup {Absent}]
      /\ mode' \in {"off", "db", "memory"} /\ booted' \in BOOLEAN
  BY DEF Crash
<1>5. crashes' \in 0..MaxCrashes
  BY FlagsAssumption DEF Crash, IInv, TypeOK
<1> DEFINE none == [s \in Steps |-> 0]
<1>6. none \in [Steps -> Int]
  OBVIOUS
<1>7. standing' \in [Tasks -> [Steps -> Int]]
  <2> HIDE DEF none
  <2>1. standing' = [t \in Tasks |-> none]
    BY DEF Crash, none
  <2> QED
    BY <1>6, <2>1
<1> HIDE DEF none
<1>8. TypeOK'
  BY <1>3, <1>4, <1>5, <1>7 DEF IInv, TypeOK, Crash
<1> QED
  BY <1>2, <1>8 DEF IInv

(* A task whose row the recovery selects, and which is marked, if not in   *)
(* the table then at least in memory.                                      *)
LEMMA MarkedTask ==
  ASSUME IInv, NEW t \in Tasks, Orphaned(rows[t]), mode = "db", ~booted,
         mem'[t] = Loaded(mem[t], [ObjectOfRow(rows[t])
                                     EXCEPT !.status = "recovering"]),
         mode' = mode, booted' = TRUE,
         UNCHANGED <<creating, completing, patches, frame, effects, issued, timers,
                     woken>>,
         \/ /\ rows'[t] = [rows[t] EXCEPT !.status = "recovering"]
            /\ queue'[t] = NoRef
         \/ /\ rows'[t] = rows[t] /\ queue'[t] = queue[t]
            /\ t \in failed'
  PROVE  mem'[t] \in Memory /\ TaskInv(t)'
<1> DEFINE o == [ObjectOfRow(rows[t]) EXCEPT !.status = "recovering"]
<1>1. /\ TypeOK /\ TaskInv(t) /\ mem[t] \in Memory /\ rows[t] \in Rows
      /\ rows[t] # Absent
  BY TypesAt DEF IInv, Orphaned
<1>2. o \in Objects /\ o.status = "recovering"
  BY <1>1, ObjectOfRowTyped DEF Objects, Statuses
<1>3. mem'[t] = Loaded(mem[t], o)
  OBVIOUS
<1> HIDE DEF o
<1>4. mem'[t] \in Memory
  BY <1>1, <1>2, <1>3, LoadedFields
<1>5. t \in issued /\ frame[t] = Absent /\ t \notin timers \cup woken
  BY <1>1 DEF TaskInv, Born, Idle
<1>6. CASE /\ rows'[t] = [rows[t] EXCEPT !.status = "recovering"]
           /\ queue'[t] = NoRef
  <2>1. /\ rows'[t] \in Rows /\ rows'[t].status = "recovering"
        /\ rows'[t].hist = rows[t].hist
    BY <1>1, <1>6 DEF Rows, Statuses
  <2>2. TaskInv(t)'
    BY <1>1, <1>2, <1>3, <1>5, <1>6, <2>1, Reloaded, RowFields
  <2> QED
    BY <1>4, <2>2
<1>7. CASE rows'[t] = rows[t] /\ queue'[t] = queue[t] /\ t \in failed'
  <2>1. /\ mem'[t].own = o /\ mem'[t].cached = o /\ mem'[t].same
        /\ mem'[t].heap = mem[t].heap /\ Aliased(mem'[t])
    BY <1>1, <1>2, <1>3, LoadedFields
  <2>2. rows[t].hist \subseteq RanSteps(t) /\ rows[t].status = "active"
    BY <1>1 DEF TaskInv, HistoriesRan, Orphaned
  <2>3. HistoriesRan(t)' /\ InStep(t)' /\ Born(t)'
    BY <1>1, <1>5, <1>7, <2>1, <2>2, ObjectStep
  <2>4. OwnNotBehind(t)'
    BY <1>1, <1>7, <2>1, <2>2 DEF OwnNotBehind
  <2>5. Matching(t)'
    BY <1>1, <1>7 DEF Matching
  <2> QED
    BY <1>4, <2>3, <2>4, <2>5 DEF TaskInv
<1> QED
  BY <1>6, <1>7

LEMMA RecoverHolds == IInv /\ Recover => IInv'
<1> SUFFICES ASSUME IInv, Recover PROVE IInv'
  OBVIOUS
<1> DEFINE orphans == {t \in Tasks : mode = "db" /\ Orphaned(rows[t])}
           marked(S) == [t \in Tasks |-> IF t \notin S THEN mem[t]
                          ELSE Loaded(mem[t], [ObjectOfRow(rows[t])
                                                 EXCEPT !.status = "recovering"])]
<1>1. /\ ~booted /\ booted' = TRUE /\ mode' = mode
      /\ UNCHANGED <<mode, creating, completing, patches, frame, aged, crashes,
                     issued, effects, standing, timers, woken, committed>>
  BY DEF Recover, timerVars, callVars
<1>2. PICK S \in SUBSET orphans :
        /\ mem' = marked(S)
        /\ \/ /\ S = orphans
              /\ rows' = [t \in Tasks |-> IF t \in orphans
                            THEN [rows[t] EXCEPT !.status = "recovering"]
                            ELSE rows[t]]
              /\ queue' = [t \in Tasks |-> IF t \in orphans THEN NoRef
                                            ELSE queue[t]]
              /\ failed' = failed
           \/ /\ rows' = rows /\ queue' = queue
              /\ failed' = failed \cup orphans
  BY DEF Recover
<1>3. ASSUME NEW t \in Tasks
      PROVE  mem'[t] \in Memory /\ TaskInv(t)'
  <2>1. TypeOK /\ TaskInv(t) /\ mem[t] \in Memory
    BY TypesAt DEF IInv
  <2>2. CASE t \in S
    <3>1. Orphaned(rows[t]) /\ mode = "db" /\ t \in orphans
      BY <2>2
    <3>2. mem'[t] = Loaded(mem[t], [ObjectOfRow(rows[t])
                                      EXCEPT !.status = "recovering"])
      BY <1>2, <2>2
    <3>3. \/ /\ rows'[t] = [rows[t] EXCEPT !.status = "recovering"]
             /\ queue'[t] = NoRef
          \/ /\ rows'[t] = rows[t] /\ queue'[t] = queue[t]
             /\ t \in failed'
      BY <1>2, <3>1
    <3> QED
      BY <1>1, <3>1, <3>2, <3>3, MarkedTask
  <2>3. CASE t \notin S
    <3>1. mem'[t] = mem[t]
      BY <1>2, <2>3
    <3>2. rows'[t] = rows[t] /\ queue'[t] = queue[t]
      BY <1>2, <2>3
    <3>3. t \in failed => t \in failed'
      BY <1>2
    <3>4. rows[t] # Absent => rows[t].hist \subseteq RanSteps(t)
      BY <2>1 DEF TaskInv, HistoriesRan
    <3>5. t \notin issued => /\ mem[t].own = Absent /\ mem[t].cached = Absent
                             /\ rows[t] = Absent
                             /\ t \notin creating /\ t \notin completing
      BY <2>1 DEF TaskInv, Born
    <3>6. HistoriesRan(t)' /\ InStep(t)' /\ Born(t)'
      BY <1>1, <2>1, <3>1, <3>2, <3>4, <3>5, ObjectStep
    <3>7. OwnNotBehind(t)'
      BY <1>1, <2>1, <3>1, <3>2 DEF TaskInv, OwnNotBehind, Aliased, Done
    <3>8. Matching(t)'
      BY <1>1, <2>1, <3>1, <3>2, <3>3 DEF TaskInv, Matching
    <3> QED
      BY <2>1, <3>1, <3>6, <3>7, <3>8 DEF TaskInv
  <2> QED
    BY <2>2, <2>3
<1>4. mem' \in [Tasks -> Memory]
  <2>1. mem' = [t \in Tasks |-> mem'[t]]
    BY <1>2
  <2> QED
    BY <1>3, <2>1
<1>5. rows' \in [Tasks -> Rows \cup {Absent}]
  <2>1. ASSUME NEW t \in orphans
        PROVE  [rows[t] EXCEPT !.status = "recovering"] \in Rows
    BY <2>1, TypesAt DEF IInv, Orphaned, Rows, Statuses
  <2> HIDE DEF orphans
  <2>2. \A t \in Tasks : rows[t] \in Rows \cup {Absent}
    BY TypesAt DEF IInv
  <2>3. rows \in [Tasks -> Rows \cup {Absent}]
    BY DEF IInv, TypeOK
  <2> QED
    BY <1>2, <2>1, <2>2, <2>3
<1>6. queue' \in [Tasks -> Refs \cup {NoRef, Absent}]
  BY <1>2 DEF IInv, TypeOK
<1>7. failed' \subseteq Tasks
  BY <1>2 DEF IInv, TypeOK
<1>8. booted' \in BOOLEAN
  BY <1>1
<1>9. TypeOK'
  BY <1>1, <1>4, <1>5, <1>6, <1>7, <1>8 DEF IInv, TypeOK
<1> QED
  BY <1>3, <1>9 DEF IInv

-----------------------------------------------------------------------------
(* The manager's operations. *)

LEMMA GetTaskHolds ==
  ASSUME IInv, NEW t \in Tasks, GetTask(t)
  PROVE  IInv'
<1> USE DEF memVars, execVars, timerVars, ghostVars, callVars
<1> DEFINE o == ObjectOfRow(rows[t])
           m == Loaded(mem[t], o)
<1>1. /\ TypeOK /\ TaskInv(t) /\ mem[t] \in Memory /\ rows[t] # Absent
      /\ rows[t] \in Rows
  BY TypesAt DEF IInv, GetTask
<1>2. o \in Objects /\ o.status = rows[t].status
  BY <1>1, ObjectOfRowTyped
<1>3. mem' = [mem EXCEPT ![t] = m]
  BY DEF GetTask
<1> HIDE DEF o
<1>4. m \in Memory
  BY <1>1, <1>2, LoadedFields
<1>5. mem'[t] = m
  BY <1>3 DEF IInv, TypeOK
<1>6. TaskInv(t)'
  BY <1>1, <1>2, <1>5, Reloaded DEF GetTask
<1>7. ASSUME NEW u \in Tasks, u # t
      PROVE  TaskInv(u)'
  <2>1. mem'[u] = mem[u] /\ TaskInv(u)
    BY <1>3, <1>7 DEF IInv, TypeOK
  <2> QED
    BY <2>1, Untouched DEF GetTask
<1> HIDE DEF m
<1>8. TypeOK'
  BY <1>3, <1>4 DEF IInv, TypeOK, GetTask
<1> QED
  BY <1>6, <1>7, <1>8 DEF IInv

LEMMA GetAllTasksHolds == IInv /\ GetAllTasks => IInv'
<1> SUFFICES ASSUME IInv, GetAllTasks PROVE IInv'
  OBVIOUS
<1> USE DEF memVars, execVars, timerVars, ghostVars, callVars
<1>1. ASSUME NEW t \in Tasks
      PROVE  mem'[t] \in Memory /\ TaskInv(t)'
  <2>1. TypeOK /\ TaskInv(t) /\ mem[t] \in Memory
    BY TypesAt DEF IInv
  <2>2. CASE rows[t] # Absent
    <3> DEFINE o == ObjectOfRow(rows[t])
    <3>1. o \in Objects /\ o.status = rows[t].status
      BY <2>1, <2>2, TypesAt, ObjectOfRowTyped
    <3>2. mem'[t] = Loaded(mem[t], o)
      BY <2>2 DEF GetAllTasks
    <3> HIDE DEF o
    <3>3. TaskInv(t)'
      BY <2>1, <2>2, <3>1, <3>2, Reloaded DEF GetAllTasks
    <3> QED
      BY <2>1, <3>1, <3>2, <3>3, LoadedFields
  <2>3. CASE rows[t] = Absent
    <3>1. mem'[t] = mem[t]
      BY <2>3 DEF GetAllTasks
    <3> QED
      BY <2>1, <3>1, Untouched DEF GetAllTasks
  <2> QED
    BY <2>2, <2>3
<1>2. mem' \in [Tasks -> Memory]
  <2>1. mem' = [t \in Tasks |-> mem'[t]]
    BY DEF GetAllTasks
  <2> QED
    BY <1>1, <2>1
<1>3. TypeOK'
  BY <1>2 DEF IInv, TypeOK, GetAllTasks
<1> QED
  BY <1>1, <1>3 DEF IInv

LEMMA RoomIsFree ==
  ASSUME NEW t, Room(t)
  PROVE  /\ \E a, b \in Free(mem[t], HeldRefs(t)) : a # b
         /\ Fresh(mem[t], HeldRefs(t)) \in Refs
         /\ Fresh(mem[t], HeldRefs(t)) \notin HeldRefs(t)
<1>1. PICK a, b \in Refs \ (HeldRefs(t)
                              \cup {WsOf(mem[t].own), WsOf(mem[t].cached)}) : a # b
  BY DEF Room
<1>2. \E r \in Refs : r \notin HeldRefs(t)
                                 \cup {WsOf(mem[t].own), WsOf(mem[t].cached)}
  BY <1>1
<1> QED
  BY <1>1, <1>2, FreshRef DEF Free

LEMMA NewObject ==
  ASSUME NEW r \in Refs
  PROVE  LET o == [status |-> "active", done |-> FALSE, ws |-> r]
         IN o \in Objects /\ o.status = "active" /\ o # Absent
<1> DEFINE o == [status |-> "active", done |-> FALSE, ws |-> r]
<1>1. o \in Objects /\ o.status = "active"
  BY DEF Objects, Statuses
<1> HIDE DEF o
<1>2. o # Absent
  BY <1>1, ObjectFields
<1> QED
  BY <1>1, <1>2 DEF o

Created(m, o, r) == [m EXCEPT !.own = o, !.heap[r] = {}]

LEMMA CreatedMemory ==
  ASSUME NEW m \in Memory, NEW o \in Objects, NEW r \in Refs
  PROVE  LET n == Created(m, o, r)
         IN /\ n \in Memory
            /\ n.own = o /\ n.cached = m.cached /\ n.same = m.same
            /\ n.heap[r] = {}
            /\ \A q \in Refs : n.heap[q] \subseteq m.heap[q]
<1> DEFINE k == [m EXCEPT !.own = o]
           S == {}
           n == [k EXCEPT !.heap[r] = S]
<1>1. S \in SUBSET Steps
  OBVIOUS
<1>2. /\ k \in Memory
      /\ k.own = o /\ k.cached = m.cached /\ k.same = m.same /\ k.heap = m.heap
  BY DEF Memory
<1> HIDE DEF S, k
<1>3. /\ n \in Memory /\ n.own = k.own /\ n.cached = k.cached
      /\ n.same = k.same /\ n.heap[r] = S
      /\ \A q \in Refs : q # r => n.heap[q] = k.heap[q]
  BY <1>1, <1>2, HeapFields
<1> HIDE DEF n
<1>4. \A q \in Refs : n.heap[q] \subseteq m.heap[q]
  BY <1>2, <1>3 DEF S
<1>5. Created(m, o, r) = n
  BY DEF Created, n, k, S
<1> QED
  BY <1>2, <1>3, <1>4, <1>5 DEF S

LEMMA CreateTaskHolds ==
  ASSUME IInv, NEW t \in Tasks, CreateTask(t)
  PROVE  IInv'
<1> DEFINE r == Fresh(mem[t], HeldRefs(t))
           o == [status |-> "active", done |-> FALSE, ws |-> r]
           m == Created(mem[t], o, r)
<1>1. /\ TypeOK /\ TaskInv(t) /\ mem[t] \in Memory /\ booted /\ t \notin issued
      /\ issued' = issued \cup {t} /\ queue' = [queue EXCEPT ![t] = r]
      /\ creating' = creating \cup {t}
      /\ UNCHANGED <<mode, booted, completing, patches, rows, frame, aged,
                     crashes, effects, standing,
                     timers, woken, committed, failed>>
  BY TypesAt DEF IInv, CreateTask, Ready, timerVars, callVars
<1>2. r \in Refs
  BY RoomIsFree DEF CreateTask
<1>3. mem' = [mem EXCEPT ![t] = m]
  BY DEF CreateTask, Created
<1> HIDE DEF r
<1>4. o \in Objects /\ o.status = "active" /\ o # Absent
  BY <1>2, NewObject
<1> HIDE DEF o
<1>5. /\ m \in Memory /\ m.own = o /\ m.cached = mem[t].cached
      /\ m.same = mem[t].same /\ m.heap[r] = {}
      /\ \A q \in Refs : m.heap[q] \subseteq mem[t].heap[q]
  BY <1>1, <1>2, <1>4, CreatedMemory
<1> HIDE DEF m
<1>6. mem'[t] = m /\ queue'[t] = r
  BY <1>1, <1>3 DEF IInv, TypeOK
<1>7. /\ mem[t].own = Absent /\ mem[t].cached = Absent /\ rows[t] = Absent
      /\ t \notin completing /\ Idle(t)
  BY <1>1 DEF TaskInv, Born
<1>8. ~mem[t].same
  BY <1>1, <1>7 DEF TaskInv, OwnNotBehind, Aliased
<1>9. HistoriesRan(t)'
  BY <1>1, <1>5, <1>6 DEF TaskInv, HistoriesRan, RanSteps
<1>10. InStep(t)'
  BY <1>1, <1>5, <1>6, <1>7 DEF InStep, Idle
<1>11. Born(t)'
  BY <1>1 DEF Born
<1>12. OwnNotBehind(t)'
  BY <1>1, <1>5, <1>6, <1>7, <1>8 DEF OwnNotBehind, Aliased
<1>13. Matching(t)'
  BY <1>5, <1>6, <1>7 DEF Matching
<1>14. TaskInv(t)'
  BY <1>9, <1>10, <1>11, <1>12, <1>13 DEF TaskInv
<1>15. ASSUME NEW u \in Tasks, u # t
       PROVE  TaskInv(u)'
  <2>1. mem'[u] = mem[u] /\ queue'[u] = queue[u] /\ TaskInv(u)
    BY <1>1, <1>3, <1>15 DEF IInv, TypeOK
  <2> QED
    BY <1>1, <1>15, <2>1, Untouched
<1>16. TypeOK'
  BY <1>1, <1>2, <1>3, <1>5 DEF TypeOK
<1> QED
  BY <1>14, <1>15, <1>16 DEF IInv

LEMMA RowOfTyped ==
  ASSUME NEW m \in Memory, m.own # Absent
  PROVE  /\ RowOf(m) \in Rows
         /\ RowOf(m).status = m.own.status
         /\ \A S : (\A r \in Refs : m.heap[r] \subseteq S)
                     => RowOf(m).hist \subseteq S
<1> DEFINE h == HistoryOf(m.heap, m.own.ws)
<1>1. /\ m.own.status \in Statuses /\ m.own.done \in BOOLEAN
      /\ m.own.ws \in Refs \cup {NoRef}
  BY MemoryFields, ObjectFields
<1>2. h \in SUBSET Steps
  BY <1>1, MemoryFields DEF HistoryOf
<1>3. \A S : (\A r \in Refs : m.heap[r] \subseteq S) => h \subseteq S
  BY <1>1 DEF HistoryOf
<1>4. RowOf(m) = [status |-> m.own.status, done |-> m.own.done, hist |-> h]
  BY DEF RowOf
<1> HIDE DEF h
<1>5. RowOf(m) \in Rows
  BY <1>1, <1>2, <1>4 DEF Rows
<1>6. RowOf(m).status = m.own.status /\ RowOf(m).hist = h
  BY <1>4
<1> QED
  BY <1>3, <1>5, <1>6

LEMMA InsertedTyped ==
  ASSUME NEW row \in Rows
  PROVE  /\ Inserted(row) \in Rows
         /\ Inserted(row).status = row.status /\ Inserted(row).hist = row.hist
  BY DEF Inserted, Rows

LEMMA WrittenTyped ==
  ASSUME TypeOK, NEW t \in Tasks, NEW row \in Rows
  PROVE  /\ Written(t, row) \in [Tasks -> Rows \cup {Absent}]
         /\ Written(t, row)[t] = IF DriverPresent THEN row ELSE rows[t]
         /\ \A u \in Tasks : u # t => Written(t, row)[u] = rows[u]
  BY DEF TypeOK, Written

(* createTask's object with a workflowState, once it has one to give. *)
WithHistory(m, r) ==
  IF m.own = Absent \/ WsOf(m.own) # NoRef THEN m
  ELSE [SetOwn(m, [m.own EXCEPT !.ws = r]) EXCEPT !.heap[r] = {}]

LEMMA WithHistoryEffect ==
  ASSUME NEW m \in Memory, Aliased(m), NEW r \in Refs
  PROVE  LET n == WithHistory(m, r)
         IN /\ n \in Memory /\ Aliased(n) /\ Like(m, n)
            /\ \A q \in Refs : n.heap[q] \subseteq m.heap[q]
            /\ \A q \in Refs : q # r => n.heap[q] = m.heap[q]
<1> DEFINE n == WithHistory(m, r)
<1>1. CASE m.own = Absent \/ WsOf(m.own) # NoRef
  BY <1>1 DEF WithHistory, Like
<1>2. CASE m.own # Absent /\ WsOf(m.own) = NoRef
  <2> DEFINE k == SetOwn(m, [m.own EXCEPT !.ws = r])
             S == {}
  <2>1. n = [k EXCEPT !.heap[r] = S] /\ S \in SUBSET Steps
    BY <1>2 DEF WithHistory
  <2>2. k \in Memory /\ Aliased(k) /\ Like(m, k) /\ k.heap = m.heap
    BY <1>2, OwnHistory
  <2> HIDE DEF k, S, n
  <2>3. /\ n \in Memory
        /\ n.own = k.own /\ n.cached = k.cached /\ n.same = k.same
        /\ n.heap[r] = S
        /\ \A q \in Refs : q # r => n.heap[q] = k.heap[q]
        /\ Aliased(n)
    BY <2>1, <2>2, HeapFields
  <2>4. Like(m, n)
    BY <2>2, <2>3 DEF Like
  <2>5. \A q \in Refs : n.heap[q] \subseteq m.heap[q]
    BY <2>2, <2>3 DEF S
  <2> QED
    BY <2>2, <2>3, <2>4, <2>5 DEF n
<1> QED
  BY <1>1, <1>2

(* The cache gets a copy of the object in tasks. *)
Copied(m) == [m EXCEPT !.cached = m.own, !.same = FALSE]

LEMMA CopiedFields ==
  ASSUME NEW m \in Memory
  PROVE  /\ Copied(m) \in Memory
         /\ Copied(m).own = m.own /\ Copied(m).cached = m.own
         /\ ~Copied(m).same /\ Copied(m).heap = m.heap
  BY DEF Copied, Memory

LEMMA CommitCreateHolds ==
  ASSUME IInv, NEW t \in Tasks, CommitCreate(t)
  PROVE  IInv'
<1> DEFINE r == Fresh(mem[t], HeldRefs(t))
           m == WithHistory(mem[t], r)
           inserts == mode = "db" /\ rows[t] = Absent /\ m.own # Absent
           row == Inserted(RowOf(m))
<1>1. /\ TypeOK /\ TaskInv(t) /\ mem[t] \in Memory /\ Aliased(mem[t])
      /\ t \in creating /\ creating' = creating \ {t}
      /\ UNCHANGED <<mode, booted, completing, patches, queue, frame, aged,
                     crashes, issued, effects, standing,
                     timers, woken, committed, failed>>
  BY TypesAt DEF IInv, TaskInv, OwnNotBehind, CommitCreate,
     execVars, timerVars, ghostVars, callVars
<1>2. r \in Refs /\ r \notin HeldRefs(t)
  BY RoomIsFree DEF CommitCreate
<1>3. \/ /\ inserts
         /\ rows' = Written(t, row)
         /\ mem' = [mem EXCEPT ![t] = Copied(m)]
      \/ /\ mem' = [mem EXCEPT ![t] = m]
         /\ rows' = rows
  BY DEF CommitCreate, WithHistory, Copied
<1> HIDE DEF r
<1>4. /\ m \in Memory /\ Aliased(m) /\ Like(mem[t], m)
      /\ \A q \in Refs : m.heap[q] \subseteq mem[t].heap[q]
      /\ \A q \in Refs : q # r => m.heap[q] = mem[t].heap[q]
  BY <1>1, <1>2, WithHistoryEffect
<1> HIDE DEF m
<1>5. /\ Copied(m) \in Memory
      /\ Copied(m).own = m.own /\ Copied(m).cached = m.own
      /\ ~Copied(m).same /\ Copied(m).heap = m.heap
  BY <1>4, CopiedFields
<1>6. t \in issued
  BY <1>1 DEF TaskInv, Born
<1>7. /\ \A q \in Refs : mem[t].heap[q] \subseteq RanSteps(t)
      /\ rows[t] # Absent => rows[t].hist \subseteq RanSteps(t)
  BY <1>1 DEF TaskInv, HistoriesRan
<1>8. ASSUME inserts
      PROVE  /\ row \in Rows /\ row.status = m.own.status
             /\ row.hist \subseteq RanSteps(t) /\ row # Absent
  <2>1. /\ RowOf(m) \in Rows /\ RowOf(m).status = m.own.status
        /\ RowOf(m).hist \subseteq RanSteps(t)
    BY <1>4, <1>7, <1>8, RowOfTyped
  <2> QED
    BY <2>1, InsertedTyped, RowFields
<1> HIDE DEF row
<1>9. /\ rows' \in [Tasks -> Rows \cup {Absent}]
      /\ mem' \in [Tasks -> Memory]
      /\ \A u \in Tasks : u # t => rows'[u] = rows[u] /\ mem'[u] = mem[u]
  <2>1. mem' \in [Tasks -> Memory] /\ \A u \in Tasks : u # t => mem'[u] = mem[u]
    BY <1>1, <1>3, <1>4, <1>5 DEF TypeOK
  <2>2. CASE inserts /\ rows' = Written(t, row)
    BY <1>1, <1>8, <2>1, <2>2, WrittenTyped
  <2>3. CASE rows' = rows
    BY <1>1, <2>1, <2>3 DEF TypeOK
  <2> QED
    BY <1>3, <2>2, <2>3
<1>10. \/ /\ inserts
          /\ rows'[t] = IF DriverPresent THEN row ELSE rows[t]
          /\ mem'[t] = Copied(m)
       \/ mem'[t] = m /\ rows'[t] = rows[t]
  BY <1>1, <1>3, <1>8, WrittenTyped DEF TypeOK
<1>11. mem'[t].heap = m.heap
  BY <1>5, <1>10
<1>12. rows'[t] # Absent => rows'[t].hist \subseteq RanSteps(t)
  BY <1>7, <1>8, <1>10
<1>13. \A q \in HeldRefs(t) \cap Refs : m.heap[q] = mem[t].heap[q]
  BY <1>2, <1>4
<1>14. HistoriesRan(t)' /\ InStep(t)' /\ Born(t)'
  BY <1>1, <1>4, <1>6, <1>11, <1>12, <1>13, ObjectStep
<1>15. ASSUME mem'[t] = m, rows'[t] = rows[t]
       PROVE  TaskInv(t)'
  <2>1. OwnNotBehind(t)'
    BY <1>1, <1>4, <1>15 DEF TaskInv, OwnNotBehind, Done, Like
  <2>2. Matching(t)'
    BY <1>1, <1>4, <1>15 DEF TaskInv, Matching, Like
  <2> QED
    BY <1>14, <2>1, <2>2 DEF TaskInv
<1>16. ASSUME inserts, mem'[t] = Copied(m),
              rows'[t] = IF DriverPresent THEN row ELSE rows[t]
       PROVE  TaskInv(t)'
  <2>1. t \in completing => Done(m)
    BY <1>1, <1>4, <1>16 DEF TaskInv, OwnNotBehind, Done, Like
  <2>2. OwnNotBehind(t)'
    BY <1>1, <1>5, <1>8, <1>16, <2>1 DEF OwnNotBehind, Done, Aliased
  <2>3. Matching(t)'
    BY <1>5, <1>8, <1>16 DEF Matching
  <2> QED
    BY <1>14, <2>2, <2>3 DEF TaskInv
<1>17. TaskInv(t)'
  BY <1>10, <1>15, <1>16
<1>18. ASSUME NEW u \in Tasks, u # t
       PROVE  TaskInv(u)'
  <2>1. mem'[u] = mem[u] /\ rows'[u] = rows[u] /\ TaskInv(u)
    BY <1>9, <1>18 DEF IInv
  <2> QED
    BY <1>1, <1>18, <2>1, Untouched
<1>19. TypeOK'
  BY <1>1, <1>9 DEF TypeOK
<1> QED
  BY <1>17, <1>18, <1>19 DEF IInv

LEMMA CompletedFields ==
  ASSUME NEW o \in Objects
  PROVE  /\ CompletedObject(o) \in Objects
         /\ CompletedObject(o).status = "completed"
         /\ [o EXCEPT !.status = "completed"] \in Objects
         /\ [o EXCEPT !.status = "completed"].status = "completed"
  BY DEF CompletedObject, Objects, Statuses

LEMMA CompleteTaskHolds ==
  ASSUME IInv, NEW t \in Tasks, CompleteTask(t)
  PROVE  IInv'
<1> DEFINE o == [mem[t].own EXCEPT !.status = "completed"]
           m == SetOwn(mem[t], o)
<1>1. /\ TypeOK /\ TaskInv(t) /\ mem[t] \in Memory /\ Aliased(mem[t])
      /\ mem[t].own # Absent
      /\ mem' = [mem EXCEPT ![t] = m]
      /\ completing' = completing \cup {t}
      /\ aged' = IF mode = "memory" THEN aged \ {t} ELSE aged
      /\ UNCHANGED <<mode, booted, creating, patches, rows, queue, frame,
                     crashes, issued, effects, standing,
                     timers, woken, committed, failed>>
  BY TypesAt DEF IInv, TaskInv, OwnNotBehind, CompleteTask,
     execVars, timerVars, ghostVars, callVars
<1>2. o \in Objects /\ o.status = "completed"
  BY <1>1, MemoryFields, CompletedFields
<1> HIDE DEF o
<1>3. /\ m \in Memory /\ m.own = o /\ m.same = mem[t].same
      /\ m.cached = IF mem[t].same THEN o ELSE mem[t].cached
      /\ m.heap = mem[t].heap /\ Aliased(m)
  BY <1>1, <1>2, SetOwnFields
<1> HIDE DEF m
<1>4. mem'[t] = m
  BY <1>1 DEF TypeOK
<1>5. t \in issued
  BY <1>1 DEF TaskInv, Born
<1>6. rows[t] # Absent => rows[t].hist \subseteq RanSteps(t)
  BY <1>1 DEF TaskInv, HistoriesRan
<1>7. HistoriesRan(t)' /\ InStep(t)' /\ Born(t)'
  BY <1>1, <1>3, <1>4, <1>5, <1>6, ObjectStep
<1>8. m.cached # Absent => mem[t].cached # Absent
  BY <1>1, <1>3 DEF Aliased
<1>9. OwnNotBehind(t)'
  BY <1>1, <1>2, <1>3, <1>4, <1>8 DEF TaskInv, OwnNotBehind, Done
<1>10. Matching(t)'
  BY <1>1, <1>4, <1>8 DEF TaskInv, Matching
<1>11. TaskInv(t)'
  BY <1>7, <1>9, <1>10 DEF TaskInv
<1>12. ASSUME NEW u \in Tasks, u # t
       PROVE  TaskInv(u)'
  <2>1. mem'[u] = mem[u] /\ TaskInv(u)
    BY <1>1, <1>12 DEF IInv, TypeOK
  <2> QED
    BY <1>1, <1>12, <2>1, Untouched
<1>13. TypeOK'
  BY <1>1, <1>3 DEF TypeOK
<1> QED
  BY <1>11, <1>12, <1>13 DEF IInv

LEMMA CompletedRowFields ==
  ASSUME NEW row \in Rows
  PROVE  /\ CompletedRow(row) \in Rows
         /\ CompletedRow(row).status = "completed"
         /\ CompletedRow(row).hist = row.hist
  BY DEF CompletedRow, Rows, Statuses

(* The second half of completeTask on the objects. *)
CacheCompleted(m) ==
  IF m.cached = Absent THEN m ELSE SetCached(m, CompletedObject(m.cached))

LEMMA CacheCompletedFields ==
  ASSUME NEW m \in Memory, Aliased(m)
  PROVE  LET n == CacheCompleted(m)
         IN /\ n \in Memory /\ Aliased(n)
            /\ n.heap = m.heap /\ n.same = m.same
            /\ n.own = Absent <=> m.own = Absent
            /\ n.cached = Absent <=> m.cached = Absent
            /\ n.cached # Absent => n.cached.status = "completed"
            /\ n.same => Done(n)
            /\ ~n.same => n.own = m.own
<1> DEFINE n == CacheCompleted(m)
           o == CompletedObject(m.cached)
<1>1. CASE m.cached = Absent
  <2>1. n = m /\ ~m.same
    BY <1>1 DEF CacheCompleted, Aliased
  <2> HIDE DEF n
  <2> QED
    BY <1>1, <2>1 DEF n
<1>2. CASE m.cached # Absent
  <2>1. o \in Objects /\ o.status = "completed"
    BY <1>2, MemoryFields, CompletedFields
  <2>2. n = SetCached(m, o)
    BY <1>2 DEF CacheCompleted
  <2> HIDE DEF o, n
  <2>3. /\ n \in Memory /\ n.cached = o /\ n.same = m.same
        /\ n.own = IF m.same THEN o ELSE m.own
        /\ n.heap = m.heap /\ Aliased(n)
    BY <2>1, <2>2, SetCachedFields
  <2>4. o # Absent /\ (m.same => m.own # Absent)
    BY <2>1, ObjectFields DEF Aliased
  <2> QED
    BY <1>2, <2>1, <2>3, <2>4 DEF Done, n
<1> QED
  BY <1>1, <1>2

LEMMA CommitCompleteHolds ==
  ASSUME IInv, NEW t \in Tasks, CommitComplete(t)
  PROVE  IInv'
<1> DEFINE m == CacheCompleted(mem[t])
           row == CompletedRow(rows[t])
           after == IF rows[t] = Absent THEN rows ELSE Written(t, row)
<1>1. /\ TypeOK /\ TaskInv(t) /\ mem[t] \in Memory /\ Aliased(mem[t])
      /\ t \in completing /\ completing' = completing \ {t}
      /\ UNCHANGED <<mode, booted, creating, patches, queue, frame, crashes,
                     issued, effects, standing,
                     timers, woken, committed>>
  BY TypesAt DEF IInv, TaskInv, OwnNotBehind, CommitComplete,
     execVars, timerVars, callVars
<1>2. \/ /\ mode = "db" /\ rows' = after /\ mem' = [mem EXCEPT ![t] = m]
         /\ aged' = aged \ {t} /\ failed' = failed
      \/ /\ failed' = IF mode = "db" THEN failed \cup {t} ELSE failed
         /\ rows' = rows /\ mem' = mem /\ aged' = aged
  BY DEF CommitComplete, CacheCompleted
<1>3. /\ m \in Memory /\ Aliased(m)
      /\ m.heap = mem[t].heap /\ m.same = mem[t].same
      /\ m.own = Absent <=> mem[t].own = Absent
      /\ m.cached = Absent <=> mem[t].cached = Absent
      /\ m.cached # Absent => m.cached.status = "completed"
      /\ m.same => Done(m)
      /\ ~m.same => m.own = mem[t].own
  BY <1>1, CacheCompletedFields
<1> HIDE DEF m
<1>4. rows[t] # Absent =>
        row \in Rows /\ row.status = "completed" /\ row.hist = rows[t].hist
        /\ row # Absent
  BY <1>1, TypesAt, CompletedRowFields, RowFields
<1> HIDE DEF row
<1>5. /\ after \in [Tasks -> Rows \cup {Absent}]
      /\ after[t] = IF rows[t] # Absent /\ DriverPresent THEN row ELSE rows[t]
      /\ \A u \in Tasks : u # t => after[u] = rows[u]
  BY <1>1, <1>4, WrittenTyped DEF TypeOK
<1> HIDE DEF after
<1>6. /\ rows' \in [Tasks -> Rows \cup {Absent}] /\ mem' \in [Tasks -> Memory]
      /\ \A u \in Tasks : u # t => rows'[u] = rows[u] /\ mem'[u] = mem[u]
  BY <1>1, <1>2, <1>3, <1>5 DEF TypeOK
<1>7. t \in issued
  BY <1>1 DEF TaskInv, Born
<1>8. rows[t] # Absent => rows[t].hist \subseteq RanSteps(t)
  BY <1>1 DEF TaskInv, HistoriesRan
<1>9. ASSUME mode = "db", mem'[t] = m, rows'[t] = after[t], failed' = failed
      PROVE  TaskInv(t)'
  <2>1. rows'[t] # Absent => rows'[t].hist \subseteq RanSteps(t)
    BY <1>4, <1>5, <1>8, <1>9
  <2>2. HistoriesRan(t)' /\ InStep(t)' /\ Born(t)'
    BY <1>1, <1>3, <1>7, <1>9, <2>1, ObjectStep
  <2>3. ~m.same => Done(m)
    BY <1>1, <1>3, <1>9 DEF TaskInv, OwnNotBehind, Done
  <2>4. OwnNotBehind(t)'
    BY <1>1, <1>3, <1>9, <2>3 DEF OwnNotBehind
  <2>5. Matching(t)'
    BY <1>1, <1>3, <1>4, <1>5, <1>9, <2>3 DEF TaskInv, Matching, Done
  <2> QED
    BY <2>2, <2>4, <2>5 DEF TaskInv
<1>10. ASSUME mem'[t] = mem[t], rows'[t] = rows[t], mode # "db" \/ t \in failed'
       PROVE  TaskInv(t)'
  <2>1. HistoriesRan(t)' /\ InStep(t)' /\ Born(t)'
    BY <1>1, <1>7, <1>8, <1>10, ObjectStep
  <2>2. OwnNotBehind(t)'
    BY <1>1, <1>10 DEF TaskInv, OwnNotBehind, Done
  <2>3. Matching(t)'
    BY <1>1, <1>10 DEF TaskInv, Matching, OwnNotBehind
  <2> QED
    BY <2>1, <2>2, <2>3 DEF TaskInv
<1>11. TaskInv(t)'
  BY <1>1, <1>2, <1>9, <1>10 DEF TypeOK
<1>12. ASSUME NEW u \in Tasks, u # t
       PROVE  TaskInv(u)'
  <2>1. mem'[u] = mem[u] /\ rows'[u] = rows[u] /\ TaskInv(u)
    BY <1>6, <1>12 DEF IInv
  <2>2. u \in failed => u \in failed'
    BY <1>2
  <2> QED
    BY <1>1, <1>12, <2>1, <2>2, Untouched
<1>13. failed' \subseteq Tasks /\ aged' \subseteq Tasks
  BY <1>1, <1>2 DEF TypeOK
<1>14. TypeOK'
  BY <1>1, <1>6, <1>13 DEF TypeOK
<1> QED
  BY <1>11, <1>12, <1>14 DEF IInv

LEMMA AgeHolds ==
  ASSUME IInv, NEW t \in Tasks, Age(t)
  PROVE  IInv'
<1> USE DEF memVars, execVars, timerVars, ghostVars, callVars
<1>1. ASSUME NEW u \in Tasks
      PROVE  TaskInv(u)'
  <2>1. TaskInv(u)
    BY DEF IInv
  <2> QED
    BY <2>1, Untouched DEF Age
<1>2. TypeOK'
  BY DEF IInv, TypeOK, Age
<1> QED
  BY <1>1, <1>2 DEF IInv

(* The objects of a task are forgotten. *)
Dropped(m) == [m EXCEPT !.own = Absent, !.cached = Absent, !.same = FALSE]

LEMMA DroppedFields ==
  ASSUME NEW m \in Memory
  PROVE  /\ Dropped(m) \in Memory
         /\ Dropped(m).own = Absent /\ Dropped(m).cached = Absent
         /\ ~Dropped(m).same /\ Dropped(m).heap = m.heap
  BY DEF Dropped, Memory

LEMMA CleanupHolds == IInv /\ CleanupOldTasks => IInv'
<1> SUFFICES ASSUME IInv, CleanupOldTasks PROVE IInv'
  OBVIOUS
<1>1. /\ rows' = [t \in Tasks |-> IF mode = "db" /\ Deletable(t)
                                    THEN Absent ELSE rows[t]]
      /\ UNCHANGED <<mode, booted, creating, completing, patches, queue, frame,
                     aged, crashes, issued, effects, standing,
                     timers, woken, committed, failed>>
  BY DEF CleanupOldTasks, execVars, timerVars, ghostVars, callVars
<1>2. PICK gone \in SUBSET Tasks :
        /\ mem' = [t \in Tasks |-> IF t \in gone THEN Dropped(mem[t])
                                                  ELSE mem[t]]
        /\ mode = "db" => gone = {t \in Tasks : /\ mem[t].cached # Absent
                                                /\ rows'[t] = Absent}
  <2> DEFINE gone == IF mode = "db"
               THEN {t \in Tasks : mem[t].cached # Absent /\ rows'[t] = Absent}
               ELSE {t \in aged : /\ mem[t].own # Absent
                                  /\ mem[t].own.status = "completed"}
  <2>1. gone \in SUBSET Tasks
    BY DEF IInv, TypeOK
  <2>2. mem' = [t \in Tasks |-> IF t \in gone THEN Dropped(mem[t]) ELSE mem[t]]
    BY DEF CleanupOldTasks, Dropped
  <2> QED
    BY <2>1, <2>2
<1>3. ASSUME NEW t \in Tasks
      PROVE  /\ mem'[t] \in Memory /\ rows'[t] \in Rows \cup {Absent}
             /\ TaskInv(t)'
  <2>1. /\ TypeOK /\ TaskInv(t) /\ mem[t] \in Memory
        /\ rows[t] \in Rows \cup {Absent}
    BY TypesAt DEF IInv
  <2>2. mem'[t] = IF t \in gone THEN Dropped(mem[t]) ELSE mem[t]
    BY <1>2
  <2>3. /\ Dropped(mem[t]) \in Memory
        /\ Dropped(mem[t]).own = Absent /\ Dropped(mem[t]).cached = Absent
        /\ ~Dropped(mem[t]).same /\ Dropped(mem[t]).heap = mem[t].heap
    BY <2>1, DroppedFields
  <2>4. \/ rows'[t] = rows[t]
        \/ /\ rows'[t] = Absent /\ mode = "db" /\ rows[t] # Absent
           /\ rows[t].status = "completed"
    BY <1>1 DEF Deletable
  <2>5. mem'[t] \in Memory /\ mem'[t].heap = mem[t].heap
    BY <2>1, <2>2, <2>3
  <2>6. rows'[t] # Absent => rows'[t].hist \subseteq RanSteps(t)
    BY <2>1, <2>4 DEF TaskInv, HistoriesRan
  <2>7. t \notin issued =>
          /\ mem'[t].own = Absent /\ mem'[t].cached = Absent
          /\ rows'[t] = Absent /\ t \notin creating /\ t \notin completing
    BY <2>1, <2>2, <2>3, <2>4 DEF TaskInv, Born
  <2>8. HistoriesRan(t)' /\ InStep(t)' /\ Born(t)'
    BY <1>1, <2>1, <2>5, <2>6, <2>7, ObjectStep
  <2>9. OwnNotBehind(t)'
    <3>1. CASE t \in gone
      BY <1>1, <2>2, <2>3, <3>1 DEF OwnNotBehind, Aliased, Done
    <3>2. CASE t \notin gone
      <4>1. mem'[t] = mem[t]
        BY <2>2, <3>2
      <4> QED
        BY <1>1, <2>1, <2>4, <4>1 DEF TaskInv, OwnNotBehind, Done
    <3> QED
      BY <3>1, <3>2
  <2>10. Matching(t)'
    <3>1. CASE t \in gone
      BY <2>2, <2>3, <3>1 DEF Matching
    <3>2. CASE t \notin gone
      <4>1. mem'[t] = mem[t]
        BY <2>2, <3>2
      <4>2. mem[t].cached # Absent => rows'[t] = rows[t]
        BY <1>2, <2>1, <2>4, <3>2 DEF TaskInv, OwnNotBehind
      <4> QED
        BY <1>1, <2>1, <4>1, <4>2 DEF TaskInv, Matching
    <3> QED
      BY <3>1, <3>2
  <2>11. TaskInv(t)'
    BY <2>8, <2>9, <2>10 DEF TaskInv
  <2> QED
    BY <2>1, <2>4, <2>5, <2>11
<1>4. mem' \in [Tasks -> Memory] /\ rows' \in [Tasks -> Rows \cup {Absent}]
  <2>1. mem' = [t \in Tasks |-> mem'[t]] /\ rows' = [t \in Tasks |-> rows'[t]]
    BY <1>1, <1>2
  <2> QED
    BY <1>3, <2>1
<1>5. TypeOK'
  BY <1>1, <1>4 DEF IInv, TypeOK
<1> QED
  BY <1>3, <1>5 DEF IInv

LEMMA PersistAllHolds == IInv /\ PersistAll => IInv'
<1> SUFFICES ASSUME IInv, PersistAll PROVE IInv'
  OBVIOUS
<1>1. /\ mode = "db" /\ DriverPresent
      /\ rows' = [t \in Tasks |->
           IF mem[t].own = Absent THEN rows[t]
           ELSE IF rows[t] = Absent THEN Inserted(RowOf(mem[t])) ELSE RowOf(mem[t])]
      /\ UNCHANGED <<mode, mem, booted, creating, completing, patches, queue,
                     frame, aged, crashes, issued, effects, standing,
                     timers, woken, committed, failed>>
  BY DEF PersistAll, memVars, execVars, timerVars, ghostVars, callVars
<1>2. ASSUME NEW t \in Tasks
      PROVE  rows'[t] \in Rows \cup {Absent} /\ TaskInv(t)'
  <2>1. /\ TypeOK /\ TaskInv(t) /\ mem[t] \in Memory
        /\ rows[t] \in Rows \cup {Absent}
    BY TypesAt DEF IInv
  <2>2. CASE mem[t].own = Absent
    <3>1. rows'[t] = rows[t] /\ mem'[t] = mem[t]
      BY <1>1, <2>2
    <3> QED
      BY <1>1, <2>1, <3>1, Untouched
  <2>3. CASE mem[t].own # Absent
    <3>1. \A r \in Refs : mem[t].heap[r] \subseteq RanSteps(t)
      BY <2>1 DEF TaskInv, HistoriesRan
    <3>2. /\ RowOf(mem[t]) \in Rows /\ RowOf(mem[t]).status = mem[t].own.status
          /\ RowOf(mem[t]).hist \subseteq RanSteps(t)
      BY <2>1, <2>3, <3>1, RowOfTyped
    <3>3. rows'[t] = Inserted(RowOf(mem[t])) \/ rows'[t] = RowOf(mem[t])
      BY <1>1, <2>3
    <3>4. /\ rows'[t] \in Rows /\ rows'[t].status = mem[t].own.status
          /\ rows'[t].hist \subseteq RanSteps(t) /\ rows'[t] # Absent
      BY <3>2, <3>3, InsertedTyped, RowFields
    <3>5. t \in issued
      BY <2>1, <2>3 DEF TaskInv, Born
    <3>6. HistoriesRan(t)' /\ InStep(t)' /\ Born(t)'
      BY <1>1, <2>1, <3>4, <3>5, ObjectStep
    <3>7. OwnNotBehind(t)'
      BY <1>1, <2>1, <3>4 DEF TaskInv, OwnNotBehind, Done
    <3>8. Matching(t)'
      BY <1>1, <2>1, <2>3, <3>4 DEF TaskInv, Matching
    <3>9. TaskInv(t)'
      BY <3>6, <3>7, <3>8 DEF TaskInv
    <3> QED
      BY <3>4, <3>9
  <2> QED
    BY <2>2, <2>3
<1>3. rows' \in [Tasks -> Rows \cup {Absent}]
  <2>1. rows' = [t \in Tasks |-> rows'[t]]
    BY <1>1
  <2> QED
    BY <1>2, <2>1
<1>4. TypeOK'
  BY <1>1, <1>3 DEF IInv, TypeOK
<1> QED
  BY <1>2, <1>4 DEF IInv

-----------------------------------------------------------------------------
(* Executions. *)

LEMMA FrameFields ==
  ASSUME TypeOK, NEW t \in Tasks, frame[t] # Absent
  PROVE  /\ frame[t] \in Frames
         /\ frame[t].pos \in 0..NumSteps /\ frame[t].pos \in Nat
         /\ frame[t].hist \in Refs /\ frame[t].ran \in BOOLEAN
         /\ frame[t].hist \in HeldRefs(t)
<1>1. frame[t] \in Frames
  BY TypesAt
<1> QED
  BY <1>1, NatSteps DEF Frames, HeldRefs

Emptied(m, r) == [m EXCEPT !.heap[r] = {}]

LEMMA EmptiedFields ==
  ASSUME NEW m \in Memory, NEW r \in Refs
  PROVE  LET n == Emptied(m, r)
         IN /\ n \in Memory
            /\ n.own = m.own /\ n.cached = m.cached /\ n.same = m.same
            /\ n.heap[r] = {}
            /\ \A q \in Refs : n.heap[q] \subseteq m.heap[q]
<1> DEFINE n == Emptied(m, r)
           S == {}
<1>1. S \in SUBSET Steps /\ n = [m EXCEPT !.heap[r] = S]
  BY DEF Emptied
<1> HIDE DEF S, n
<1>2. /\ n \in Memory
      /\ n.own = m.own /\ n.cached = m.cached /\ n.same = m.same
      /\ n.heap[r] = S
      /\ \A q \in Refs : q # r => n.heap[q] = m.heap[q]
  BY <1>1, HeapFields
<1>3. n.heap[r] = {} /\ \A q \in Refs : n.heap[q] \subseteq m.heap[q]
  BY <1>2 DEF S
<1> QED
  BY <1>2, <1>3 DEF n

LEMMA BeginHolds ==
  ASSUME IInv, NEW t \in Tasks, Begin(t)
  PROVE  IInv'
<1> DEFINE r == IF queue[t] # NoRef THEN queue[t] ELSE Fresh(mem[t], HeldRefs(t))
           f == [pos |-> 0, hist |-> r, ran |-> FALSE]
           m == IF queue[t] # NoRef THEN mem[t] ELSE Emptied(mem[t], r)
<1>1. /\ TypeOK /\ TaskInv(t) /\ mem[t] \in Memory /\ Aliased(mem[t])
      /\ queue[t] # Absent /\ frame[t] = Absent
      /\ frame' = [frame EXCEPT ![t] = f]
      /\ queue' = [queue EXCEPT ![t] = Absent]
      /\ mem' = [mem EXCEPT ![t] = m]
      /\ UNCHANGED <<mode, booted, creating, completing, patches, rows, aged,
                     crashes, issued, effects, standing,
                     timers, woken, committed, failed>>
  <2>1. mem' = [mem EXCEPT ![t] = m]
    BY DEF Begin, Emptied, IInv, TypeOK
  <2> HIDE DEF m
  <2> QED
    BY <2>1, TypesAt DEF IInv, TaskInv, OwnNotBehind, Begin, timerVars,
       ghostVars, callVars
<1>2. /\ r \in Refs
      /\ queue[t] = NoRef => r \notin HeldRefs(t)
      /\ queue[t] # NoRef => queue[t] \in Refs
  BY <1>1, TypesAt, RoomIsFree DEF Begin
<1>3. queue[t] = NoRef \/ r = queue[t]
  OBVIOUS
<1> HIDE DEF r
<1>4. /\ m \in Memory
      /\ m.own = mem[t].own /\ m.cached = mem[t].cached /\ m.same = mem[t].same
      /\ m.heap[r] = {}
      /\ \A q \in Refs : m.heap[q] \subseteq mem[t].heap[q]
  <2>1. CASE queue[t] # NoRef
    <3>1. m = mem[t] /\ r = queue[t]
      BY <1>3, <2>1
    <3> HIDE DEF m
    <3> QED
      BY <1>1, <1>2, <2>1, <3>1 DEF TaskInv, InStep
  <2>2. CASE queue[t] = NoRef
    <3>1. m = Emptied(mem[t], r)
      BY <2>2
    <3> HIDE DEF m
    <3> QED
      BY <1>1, <1>2, <3>1, EmptiedFields
  <2> QED
    BY <2>1, <2>2
<1> HIDE DEF m
<1>5. f \in Frames /\ f.pos = 0 /\ f.hist = r /\ f.ran = FALSE
  BY <1>2, NatSteps DEF Frames
<1> HIDE DEF f
<1>6. mem'[t] = m /\ frame'[t] = f /\ queue'[t] = Absent
  BY <1>1 DEF TypeOK
<1>7. HistoriesRan(t)'
  BY <1>1, <1>4, <1>6 DEF TaskInv, HistoriesRan, RanSteps
<1>8. \A p \in patches : p.task = t => p.ws # r
  <2>1. CASE queue[t] = NoRef
    BY <1>2, <2>1 DEF HeldRefs
  <2>2. CASE queue[t] # NoRef
    BY <1>1, <1>2, <2>2 DEF TaskInv, InStep
  <2> QED
    BY <2>1, <2>2
<1>9. InStep(t)'
  <2>1. 1..f.pos = {}
    BY <1>5
  <2>2. t \notin timers' \cup woken'
    BY <1>1 DEF TaskInv, InStep
  <2> QED
    BY <1>1, <1>4, <1>5, <1>6, <1>8, <2>1, <2>2, AbsentAssumption DEF InStep
<1>10. Born(t)'
  <2>1. t \in issued /\ booted
    BY <1>1 DEF TaskInv, Born, Idle
  <2> QED
    BY <1>1, <2>1 DEF Born
<1>11. OwnNotBehind(t)'
  BY <1>1, <1>4, <1>6 DEF TaskInv, OwnNotBehind, Aliased, Done
<1>12. Matching(t)'
  BY <1>1, <1>4, <1>6 DEF TaskInv, Matching
<1>13. TaskInv(t)'
  BY <1>7, <1>9, <1>10, <1>11, <1>12 DEF TaskInv
<1>14. ASSUME NEW u \in Tasks, u # t
       PROVE  TaskInv(u)'
  <2>1. /\ mem'[u] = mem[u] /\ queue'[u] = queue[u] /\ frame'[u] = frame[u]
        /\ TaskInv(u)
    BY <1>1, <1>14 DEF IInv, TypeOK
  <2> QED
    BY <1>1, <1>14, <2>1, Untouched
<1>15. TypeOK'
  BY <1>1, <1>4, <1>5 DEF TypeOK
<1> QED
  BY <1>13, <1>14, <1>15 DEF IInv

LEMMA StandingTyped ==
  ASSUME NEW st \in [Tasks -> [Steps -> Int]], NEW t \in Tasks, NEW s \in Steps
  PROVE  /\ [st EXCEPT ![t][s] = @ + 1] \in [Tasks -> [Steps -> Int]]
         /\ [st EXCEPT ![t][s] = @ - 1] \in [Tasks -> [Steps -> Int]]
  OBVIOUS

LEMMA StepRunsHolds ==
  ASSUME IInv, NEW t \in Tasks, StepRuns(t)
  PROVE  IInv'
<1> DEFINE f == [frame[t] EXCEPT !.ran = TRUE]
           s == frame[t].pos + 1
<1>1. /\ TypeOK /\ TaskInv(t)
      /\ frame[t] # Absent /\ frame[t].pos < NumSteps
      /\ frame' = [frame EXCEPT ![t] = f]
      /\ effects' = [effects EXCEPT ![t] = @ \cup {s}]
      /\ standing' = [standing EXCEPT ![t][s] = @ + 1]
      /\ UNCHANGED <<mode, mem, booted, creating, completing, patches, rows,
                     queue, timers, woken, aged, crashes, issued, committed,
                     failed>>
  BY DEF IInv, StepRuns, memVars, timerVars
<1>2. /\ frame[t] \in Frames /\ frame[t].pos \in Nat
      /\ frame[t].pos \in 0..NumSteps
  BY <1>1, FrameFields
<1>3. /\ f \in Frames /\ f.pos = frame[t].pos /\ f.hist = frame[t].hist
      /\ f.ran = TRUE /\ f # Absent
  BY <1>2, AbsentAssumption DEF Frames
<1>4. s \in Steps
  BY <1>1, <1>2, NatSteps DEF Steps
<1>5. s = f.pos + 1 /\ f.pos < NumSteps
  BY <1>1, <1>3
<1> HIDE DEF f, s
<1>6. frame'[t] = f
  BY <1>1 DEF TypeOK
<1>7. /\ effects' \in [Tasks -> SUBSET Steps]
      /\ effects'[t] = effects[t] \cup {s}
      /\ \A u \in Tasks : u # t => effects'[u] = effects[u]
  BY <1>1, <1>4 DEF TypeOK
<1>8. standing' \in [Tasks -> [Steps -> Int]]
  BY <1>1, <1>4, StandingTyped DEF TypeOK
<1>9. RanSteps(t) \subseteq RanSteps(t)' /\ s \in RanSteps(t)'
  BY <1>7 DEF RanSteps
<1>10. HistoriesRan(t)'
  BY <1>1, <1>9 DEF TaskInv, HistoriesRan
<1>11. InStep(t)'
  BY <1>1, <1>3, <1>5, <1>6, <1>9 DEF TaskInv, InStep
<1>12. Born(t)'
  BY <1>1 DEF TaskInv, Born, Idle
<1>13. OwnNotBehind(t)' /\ Matching(t)'
  BY <1>1 DEF TaskInv, OwnNotBehind, Aliased, Done, Matching
<1>14. TaskInv(t)'
  BY <1>10, <1>11, <1>12, <1>13 DEF TaskInv
<1>15. ASSUME NEW u \in Tasks, u # t
       PROVE  TaskInv(u)'
  <2>1. frame'[u] = frame[u] /\ effects'[u] = effects[u] /\ TaskInv(u)
    BY <1>1, <1>7, <1>15 DEF IInv, TypeOK
  <2> QED
    BY <1>1, <1>15, <2>1, Untouched
<1>16. TypeOK'
  BY <1>1, <1>3, <1>7, <1>8 DEF TypeOK
<1> QED
  BY <1>14, <1>15, <1>16 DEF IInv

LEMMA StepRejectsHolds ==
  ASSUME IInv, NEW t \in Tasks, StepRejects(t)
  PROVE  IInv'
<1> DEFINE f == [frame[t] EXCEPT !.ran = FALSE]
           s == frame[t].pos + 1
<1>1. /\ TypeOK /\ TaskInv(t)
      /\ frame[t] # Absent /\ frame[t].ran
      /\ frame' = [frame EXCEPT ![t] = f]
      /\ standing' = [standing EXCEPT ![t][s] = @ - 1]
      /\ UNCHANGED <<mode, mem, booted, creating, completing, patches, rows,
                     queue, timers, woken, aged, crashes, issued, effects,
                     committed, failed>>
  BY DEF IInv, StepRejects, memVars, timerVars
<1>2. /\ frame[t] \in Frames /\ frame[t].pos \in Nat
      /\ frame[t].pos \in 0..NumSteps
  BY <1>1, FrameFields
<1>3. /\ f \in Frames /\ f.pos = frame[t].pos /\ f.hist = frame[t].hist
      /\ f.ran = FALSE /\ f # Absent
  BY <1>2, AbsentAssumption DEF Frames
<1>4. s \in Steps
  BY <1>1, <1>2, NatSteps DEF Steps, TaskInv, InStep
<1> HIDE DEF f, s
<1>5. frame'[t] = f
  BY <1>1 DEF TypeOK
<1>6. standing' \in [Tasks -> [Steps -> Int]]
  BY <1>1, <1>4, StandingTyped DEF TypeOK
<1>7. HistoriesRan(t)'
  BY <1>1 DEF TaskInv, HistoriesRan, RanSteps
<1>8. InStep(t)'
  BY <1>1, <1>3, <1>5 DEF TaskInv, InStep, RanSteps
<1>9. Born(t)'
  BY <1>1 DEF TaskInv, Born, Idle
<1>10. OwnNotBehind(t)' /\ Matching(t)'
  BY <1>1 DEF TaskInv, OwnNotBehind, Aliased, Done, Matching
<1>11. TaskInv(t)'
  BY <1>7, <1>8, <1>9, <1>10 DEF TaskInv
<1>12. ASSUME NEW u \in Tasks, u # t
       PROVE  TaskInv(u)'
  <2>1. frame'[u] = frame[u] /\ TaskInv(u)
    BY <1>1, <1>12 DEF IInv, TypeOK
  <2> QED
    BY <1>1, <1>12, <2>1, Untouched
<1>13. TypeOK'
  BY <1>1, <1>3, <1>6 DEF TypeOK
<1> QED
  BY <1>11, <1>12, <1>13 DEF IInv

LEMMA FrameEndsHolds ==
  ASSUME IInv, NEW t \in Tasks, FrameEnds(t)
  PROVE  IInv'
<1>1. /\ TypeOK /\ TaskInv(t) /\ frame[t] # Absent
      /\ frame' = [frame EXCEPT ![t] = Absent]
      /\ UNCHANGED <<mode, mem, booted, creating, completing, patches, rows,
                     queue, aged, crashes, issued, effects, standing,
                     timers, woken, committed, failed>>
  BY DEF IInv, FrameEnds, memVars, timerVars, ghostVars, callVars
<1>2. frame'[t] = Absent /\ queue[t] = Absent
  BY <1>1 DEF TypeOK, TaskInv, InStep
<1>3. HistoriesRan(t)'
  BY <1>1 DEF TaskInv, HistoriesRan, RanSteps
<1>4. InStep(t)'
  BY <1>1, <1>2, AbsentAssumption DEF InStep
<1>5. Born(t)'
  BY <1>1, <1>2 DEF TaskInv, Born, Idle
<1>6. OwnNotBehind(t)' /\ Matching(t)'
  BY <1>1 DEF TaskInv, OwnNotBehind, Aliased, Done, Matching
<1>7. TaskInv(t)'
  BY <1>3, <1>4, <1>5, <1>6 DEF TaskInv
<1>8. ASSUME NEW u \in Tasks, u # t
      PROVE  TaskInv(u)'
  <2>1. frame'[u] = frame[u] /\ TaskInv(u)
    BY <1>1, <1>8 DEF IInv, TypeOK
  <2> QED
    BY <1>1, <1>8, <2>1, Untouched
<1>9. TypeOK'
  BY <1>1 DEF TypeOK
<1> QED
  BY <1>7, <1>8, <1>9 DEF IInv

LEMMA FrameSuspendsHolds ==
  ASSUME IInv, NEW t \in Tasks, FrameSuspends(t)
  PROVE  IInv'
<1>1. /\ TypeOK /\ TaskInv(t) /\ frame[t] # Absent
      /\ frame' = [frame EXCEPT ![t] = Absent]
      /\ timers' = timers \cup {t}
      /\ UNCHANGED <<mode, mem, booted, creating, completing, patches, rows,
                     queue, aged, crashes, issued, effects, standing, woken,
                     committed, failed>>
  BY DEF IInv, FrameSuspends, memVars, ghostVars, callVars
<1>2. frame'[t] = Absent /\ queue[t] = Absent /\ t \in issued /\ booted
  BY <1>1 DEF TypeOK, TaskInv, InStep, Born, Idle
<1>3. HistoriesRan(t)'
  BY <1>1 DEF TaskInv, HistoriesRan, RanSteps
<1>4. InStep(t)'
  BY <1>1, <1>2, AbsentAssumption DEF InStep
<1>5. Born(t)'
  BY <1>1, <1>2 DEF Born
<1>6. OwnNotBehind(t)' /\ Matching(t)'
  BY <1>1 DEF TaskInv, OwnNotBehind, Aliased, Done, Matching
<1>7. TaskInv(t)'
  BY <1>3, <1>4, <1>5, <1>6 DEF TaskInv
<1>8. ASSUME NEW u \in Tasks, u # t
      PROVE  TaskInv(u)'
  <2>1. /\ frame'[u] = frame[u] /\ TaskInv(u)
        /\ u \in timers' \cup woken' => u \in timers \cup woken
    BY <1>1, <1>8 DEF IInv, TypeOK
  <2> QED
    BY <1>1, <1>8, <2>1, Untouched
<1>9. TypeOK'
  BY <1>1 DEF TypeOK
<1> QED
  BY <1>7, <1>8, <1>9 DEF IInv

(* The wake-up changes nothing of the task it is for. *)
LEMMA WakeUpHolds ==
  ASSUME IInv, NEW t \in Tasks, TimerFires(t) \/ LoseContext(t)
  PROVE  IInv'
<1>1. /\ UNCHANGED <<mode, mem, booted, creating, completing, patches, rows,
                     queue, frame, aged, crashes, issued, effects, standing,
                     committed, failed>>
      /\ timers' \cup woken' \subseteq timers \cup woken
  BY DEF TimerFires, LoseContext, memVars, ghostVars, callVars
<1>2. ASSUME NEW u \in Tasks
      PROVE  TaskInv(u)'
  <2>1. TaskInv(u)
    BY DEF IInv
  <2> QED
    BY <1>1, <2>1, Untouched
<1>3. TypeOK'
  BY <1>1 DEF IInv, TypeOK
<1> QED
  BY <1>2, <1>3 DEF IInv

(* A step that keeps the statuses of objects and row. *)
LEMMA StatusKept ==
  ASSUME NEW t \in Tasks, TaskInv(t),
         Like(mem[t], mem'[t]), Aliased(mem'[t]),
         rows'[t] = Absent <=> rows[t] = Absent,
         rows[t] # Absent => rows'[t].status = rows[t].status,
         mode' = mode, completing' = completing, failed' = failed
  PROVE  OwnNotBehind(t)' /\ Matching(t)'
<1>1. OwnNotBehind(t)'
  BY DEF TaskInv, OwnNotBehind, Done, Like
<1>2. Matching(t)'
  BY DEF TaskInv, Matching, Like
<1> QED
  BY <1>1, <1>2

LEMMA OneMore ==
  ASSUME NEW n \in Nat
  PROVE  (1..n) \cup {n + 1} = 1..(n + 1)
  OBVIOUS

LEMMA StepCompletesHolds ==
  ASSUME IInv, NEW t \in Tasks, StepCompletes(t)
  PROVE  IInv'
<1> DEFINE s == frame[t].pos + 1
           hist == frame[t].hist
           f == [frame[t] EXCEPT !.pos = s, !.ran = FALSE]
           m2 == Noted(mem[t], hist, s, HeldRefs(t))
<1>1. PICK m3 \in Captured(m2, rows[t]) :
        IF mode = "db" /\ CapturedObject(m3) # Absent
        THEN /\ mem' = [mem EXCEPT ![t] = Opened(m3, HeldRefs(t))]
             /\ patches' = patches \cup
                  {[task |-> t, step |-> s,
                    ws |-> CapturedObject(Opened(m3, HeldRefs(t))).ws]}
        ELSE mem' = [mem EXCEPT ![t] = m2] /\ patches' = patches
  BY Zenon DEF StepCompletes, Noted, Opened
<1> DEFINE m4 == Opened(m3, HeldRefs(t))
           patch == [task |-> t, step |-> s, ws |-> CapturedObject(m4).ws]
<1>2. /\ TypeOK /\ TaskInv(t) /\ mem[t] \in Memory /\ Aliased(mem[t])
      /\ rows[t] \in Rows \cup {Absent}
      /\ frame[t] # Absent /\ frame[t].ran
      /\ frame' = [frame EXCEPT ![t] = f]
      /\ UNCHANGED <<mode, booted, creating, completing, rows, queue, aged,
                     crashes, issued, effects, standing,
                     timers, woken, committed, failed>>
  BY ZenonT(40), TypesAt DEF IInv, TaskInv, OwnNotBehind, StepCompletes,
     timerVars, ghostVars, callVars
<1>3. \/ /\ mode = "db" /\ CapturedObject(m3) # Absent
         /\ mem' = [mem EXCEPT ![t] = m4]
         /\ patches' = patches \cup {patch}
      \/ mem' = [mem EXCEPT ![t] = m2] /\ patches' = patches
  BY Zenon, <1>1
<1>4. /\ frame[t] \in Frames /\ frame[t].pos \in Nat
      /\ hist \in Refs /\ hist \in HeldRefs(t)
  BY <1>2, FrameFields
<1>5. /\ frame[t].pos < NumSteps /\ s \in RanSteps(t)
      /\ mem[t].heap[hist] = 1..frame[t].pos
      /\ \A p \in patches : (p.task = t /\ p.ws = hist) => p.step <= frame[t].pos
      /\ queue[t] = Absent
  BY <1>2 DEF TaskInv, InStep
<1>6. s \in Steps /\ s \in Nat /\ s \in 0..NumSteps /\ frame[t].pos <= s
  BY <1>4, <1>5, NatSteps DEF Steps
<1>7. (1..frame[t].pos) \cup {s} = 1..s
  BY <1>4, OneMore
<1>8. /\ f \in Frames /\ f.pos = s /\ f.hist = hist /\ ~f.ran
  BY Zenon, <1>4, <1>6 DEF Frames
<1>9. \E a, b \in Free(mem[t], HeldRefs(t)) : a # b
  BY Zenon, RoomIsFree DEF StepCompletes
<1> HIDE DEF s, hist, f
<1>10. m3 \in Captured(Noted(mem[t], hist, s, HeldRefs(t)), rows[t])
  BY Zenon, <1>1
<1>11. /\ mem[t] \in Memory /\ Aliased(mem[t]) /\ rows[t] \in Rows \cup {Absent}
       /\ hist \in Refs /\ hist \in HeldRefs(t) /\ s \in Steps
  BY Zenon, <1>2, <1>4, <1>6
<1>12. Heard(mem[t], hist, s, HeldRefs(t), rows[t], m3)
  BY <1>9, <1>10, <1>11, ListenersEffect
<1>13. /\ m2 \in Memory /\ Aliased(m2) /\ Like(mem[t], m2)
       /\ Grown(mem[t], m2, {s})
       /\ m2.heap[hist] = mem[t].heap[hist] \cup {s}
       /\ CapturedObject(m3) # Absent =>
            /\ m4 \in Memory /\ Aliased(m4) /\ Grown(mem[t], m4, {s})
            /\ m4.heap[hist] = mem[t].heap[hist] \cup {s}
            /\ CapturedObject(m4) # Absent /\ CapturedObject(m4).ws \in Refs
            /\ \/ Like(mem[t], m4)
               \/ /\ mem[t].cached = Absent /\ rows[t] # Absent
                  /\ m4.same /\ m4.own # Absent
                  /\ m4.own.status = rows[t].status
  BY <1>12 DEF Heard
<1>14. CapturedObject(m3) # Absent =>
         /\ patch \in Patches /\ patch.task = t /\ patch.step = s
  BY <1>6, <1>13 DEF Patches
<1> HIDE DEF m2, m4, patch
<1>15. /\ mem'[t] \in Memory /\ Aliased(mem'[t])
       /\ Grown(mem[t], mem'[t], {s})
       /\ mem'[t].heap[hist] = 1..s
       /\ \/ Like(mem[t], mem'[t])
          \/ /\ mode = "db" /\ mem[t].cached = Absent /\ rows[t] # Absent
             /\ mem'[t].same /\ mem'[t].own # Absent
             /\ mem'[t].own.status = rows[t].status
  <2>1. CASE /\ mode = "db" /\ CapturedObject(m3) # Absent
             /\ mem' = [mem EXCEPT ![t] = m4]
    <3>1. mem'[t] = m4
      BY <1>2, <2>1 DEF TypeOK
    <3> QED
      BY <1>5, <1>7, <1>13, <2>1, <3>1
  <2>2. CASE mem' = [mem EXCEPT ![t] = m2]
    <3>1. mem'[t] = m2
      BY <1>2, <2>2 DEF TypeOK
    <3> QED
      BY <1>5, <1>7, <1>13, <3>1
  <2> QED
    BY <1>3, <2>1, <2>2
<1>16. /\ mem' \in [Tasks -> Memory]
       /\ \A u \in Tasks : u # t => mem'[u] = mem[u]
  BY <1>2, <1>3, <1>13 DEF TypeOK
<1>17. /\ patches' \subseteq Patches
       /\ \A p \in patches' : p \in patches \/ (p.task = t /\ p.step = s)
  BY <1>2, <1>3, <1>14 DEF TypeOK
<1>18. frame'[t] = f
  BY <1>2 DEF TypeOK
<1>19. HistoriesRan(t)'
  <2>1. RanSteps(t)' = RanSteps(t)
    BY <1>2 DEF RanSteps
  <2>2. \A r \in Refs : mem'[t].heap[r] \subseteq RanSteps(t)
    BY <1>2, <1>5, <1>15 DEF TaskInv, HistoriesRan, Grown
  <2>3. \A p \in patches' : p.task = t => p.step \in RanSteps(t)
    BY <1>2, <1>5, <1>17 DEF TaskInv, HistoriesRan
  <2> QED
    BY <1>2, <2>1, <2>2, <2>3 DEF TaskInv, HistoriesRan
<1>20. InStep(t)'
  <2>1. \A p \in patches' : (p.task = t /\ p.ws = hist) => p.step <= s
    <3>1. \A p \in patches : p.task = t => p.step \in Nat
      BY <1>2, NatSteps, TypesAt DEF TaskInv, HistoriesRan
    <3> QED
      BY <1>4, <1>5, <1>6, <1>17, <3>1
  <2>2. t \notin timers' \cup woken'
    BY <1>2 DEF TaskInv, InStep
  <2> QED
    BY <1>2, <1>5, <1>8, <1>15, <1>18, <2>1, <2>2, AbsentAssumption DEF InStep
<1>21. Born(t)'
  <2>1. t \in issued /\ booted
    BY <1>2 DEF TaskInv, Born, Idle
  <2> QED
    BY <1>2, <2>1 DEF Born
<1>22. OwnNotBehind(t)' /\ Matching(t)'
  <2>1. CASE Like(mem[t], mem'[t])
    BY <1>2, <1>15, <2>1, StatusKept
  <2>2. CASE /\ mode = "db" /\ rows[t] # Absent
             /\ mem'[t].same /\ mem'[t].own # Absent
             /\ mem'[t].own.status = rows[t].status
    <3>1. mem'[t].cached = mem'[t].own
      BY <1>15, <2>2 DEF Aliased
    <3>2. OwnNotBehind(t)'
      BY <1>2, <1>15, <2>2 DEF OwnNotBehind, Done
    <3>3. Matching(t)'
      BY <1>2, <2>2, <3>1 DEF Matching
    <3> QED
      BY <3>2, <3>3
  <2> QED
    BY <1>15, <2>1, <2>2
<1>23. TaskInv(t)'
  BY <1>19, <1>20, <1>21, <1>22 DEF TaskInv
<1>24. ASSUME NEW u \in Tasks, u # t
       PROVE  TaskInv(u)'
  <2>1. mem'[u] = mem[u] /\ frame'[u] = frame[u] /\ TaskInv(u)
    BY <1>2, <1>16, <1>24 DEF IInv, TypeOK
  <2>2. \A p \in patches' : p.task = u => p \in patches
    BY <1>17, <1>24
  <2> QED
    BY <1>2, <2>1, <2>2, Untouched
<1>25. TypeOK'
  BY <1>2, <1>8, <1>16, <1>17 DEF TypeOK
<1> QED
  BY SMTT(40), <1>23, <1>24, <1>25 DEF IInv

LEMMA CommitPatchHolds ==
  ASSUME IInv, NEW p \in patches, CommitPatch(p)
  PROVE  IInv'
<1> DEFINE t == p.task
           m == Remember(mem[t], p.ws, p.step)
           h == m.heap[p.ws]
           row == [rows[t] EXCEPT !.hist = h]
<1>1. p \in Patches /\ t \in Tasks /\ p.ws \in Refs /\ p.step \in Steps
  BY DEF IInv, TypeOK, Patches
<1> HIDE DEF t
<1>2. /\ TypeOK /\ TaskInv(t) /\ mem[t] \in Memory /\ Aliased(mem[t])
      /\ rows[t] \in Rows \cup {Absent} /\ p.task = t
      /\ patches' = patches \ {p}
      /\ UNCHANGED <<mode, booted, creating, completing, queue, frame, aged,
                     crashes, issued, effects, standing,
                     timers, woken, failed>>
  BY <1>1, TypesAt DEF IInv, TaskInv, OwnNotBehind, CommitPatch,
     execVars, timerVars, callVars, t
<1>3. /\ m \in Memory /\ Aliased(m) /\ Like(mem[t], m)
      /\ Grown(mem[t], m, {p.step})
      /\ m.heap[p.ws] = mem[t].heap[p.ws] \cup {p.step}
      /\ \A q \in Refs : q # p.ws => m.heap[q] = mem[t].heap[q]
  <2>1. \A q \in Refs : q # p.ws => m.heap[q] = mem[t].heap[q]
    BY <1>1, <1>2, RememberOthers
  <2> QED
    BY ZenonT(40), <1>1, <1>2, <2>1, RememberEffect
<1>4. /\ mem' = [mem EXCEPT ![t] = m]
      /\ \/ /\ rows[t] # Absent /\ rows' = Written(t, row)
            /\ committed' = [committed EXCEPT ![t] = @ \cup h]
         \/ rows' = rows /\ committed' = committed
  <2> DEFINE heap == [mem[t].heap EXCEPT ![p.ws] = @ \cup {p.step}]
  <2>1. heap[p.ws] = mem[t].heap[p.ws] \cup {p.step}
    BY <1>1, <1>2, MemoryFields
  <2>2. heap[p.ws] = h
    BY <1>3, <2>1
  <2>3. mem' = [mem EXCEPT ![t] = m]
    BY DEF CommitPatch, Remember, t
  <2>4. \/ /\ rows[t] # Absent
           /\ rows' = Written(t, [rows[t] EXCEPT !.hist = heap[p.ws]])
           /\ committed' = [committed EXCEPT ![t] = @ \cup heap[p.ws]]
        \/ rows' = rows /\ committed' = committed
    BY DEF CommitPatch, t
  <2> HIDE DEF heap, m
  <2> QED
    BY <2>2, <2>3, <2>4
<1> HIDE DEF m
<1>5. mem'[t] = m
  BY <1>1, <1>2, <1>4 DEF TypeOK
<1>6. p.step \in RanSteps(t) /\ \A r \in Refs : mem[t].heap[r] \subseteq RanSteps(t)
  BY <1>2 DEF TaskInv, HistoriesRan
<1>7. h \subseteq RanSteps(t) /\ h \subseteq Steps
  BY <1>1, <1>2, <1>3, <1>6, TypesAt
<1> HIDE DEF h
<1>8. rows[t] # Absent =>
        row \in Rows /\ row.status = rows[t].status /\ row.hist = h
        /\ row # Absent
  <2>1. ASSUME rows[t] # Absent
        PROVE  row \in Rows /\ row.status = rows[t].status /\ row.hist = h
    BY <1>2, <1>7, <2>1 DEF Rows
  <2> HIDE DEF row
  <2> QED
    BY <2>1, RowFields
<1> HIDE DEF row
<1>9. /\ rows' \in [Tasks -> Rows \cup {Absent}]
      /\ rows'[t] = rows[t] \/ (rows[t] # Absent /\ rows'[t] = row)
      /\ \A u \in Tasks : u # t => rows'[u] = rows[u]
  <2>1. CASE rows' = rows
    BY <1>2, <2>1 DEF TypeOK
  <2>2. CASE rows[t] # Absent /\ rows' = Written(t, row)
    BY <1>1, <1>2, <1>8, <2>2, WrittenTyped
  <2> QED
    BY <1>4, <2>1, <2>2
<1>10. committed' \in [Tasks -> SUBSET Steps]
  BY <1>1, <1>2, <1>4, <1>7 DEF TypeOK
<1>11. HistoriesRan(t)'
  <2>1. RanSteps(t)' = RanSteps(t)
    BY <1>2 DEF RanSteps
  <2>2. \A r \in Refs : mem'[t].heap[r] \subseteq RanSteps(t)
    BY <1>3, <1>5, <1>6 DEF Grown
  <2>3. rows'[t] # Absent => rows'[t].hist \subseteq RanSteps(t)
    BY <1>2, <1>7, <1>8, <1>9 DEF TaskInv, HistoriesRan
  <2> QED
    BY <1>2, <2>1, <2>2, <2>3 DEF TaskInv, HistoriesRan
<1>12. InStep(t)'
  <2>1. RanSteps(t)' = RanSteps(t)
    BY <1>2 DEF RanSteps
  <2>2. queue[t] \notin Refs
    BY <1>2 DEF TaskInv, InStep
  <2>3. frame[t] # Absent =>
          mem'[t].heap[frame[t].hist] = mem[t].heap[frame[t].hist]
    <3>1. CASE frame[t] # Absent /\ p.ws = frame[t].hist
      <4>1. /\ p.step <= frame[t].pos /\ frame[t].pos \in Nat
            /\ mem[t].heap[p.ws] = 1..frame[t].pos
        BY <1>1, <1>2, <3>1, FrameFields DEF TaskInv, InStep
      <4>2. p.step \in 1..frame[t].pos
        BY <1>1, <4>1, NatSteps DEF Steps
      <4> QED
        BY <1>3, <1>5, <3>1, <4>1, <4>2
    <3>2. CASE frame[t] # Absent /\ p.ws # frame[t].hist
      <4>1. frame[t].hist \in Refs
        BY <1>1, <1>2, <3>2, FrameFields
      <4> QED
        BY <1>3, <1>5, <3>2, <4>1
    <3> QED
      BY <3>1, <3>2
  <2> QED
    BY <1>2, <2>1, <2>2, <2>3 DEF TaskInv, InStep
<1>13. Born(t)'
  <2>1. t \in issued /\ booted
    BY <1>2 DEF TaskInv, Born, Idle
  <2> QED
    BY <1>2, <2>1 DEF Born
<1>14. OwnNotBehind(t)' /\ Matching(t)'
  <2>1. /\ rows'[t] = Absent <=> rows[t] = Absent
        /\ rows[t] # Absent => rows'[t].status = rows[t].status
    BY <1>8, <1>9
  <2> QED
    BY <1>1, <1>2, <1>3, <1>5, <2>1, StatusKept
<1>15. TaskInv(t)'
  BY <1>11, <1>12, <1>13, <1>14 DEF TaskInv
<1>16. ASSUME NEW u \in Tasks, u # t
       PROVE  TaskInv(u)'
  <2>1. mem'[u] = mem[u] /\ rows'[u] = rows[u] /\ TaskInv(u)
    BY <1>2, <1>4, <1>9, <1>16 DEF IInv, TypeOK
  <2> QED
    BY <1>2, <2>1, Untouched
<1>17. TypeOK'
  BY <1>1, <1>2, <1>3, <1>4, <1>9, <1>10 DEF TypeOK
<1> QED
  BY <1>15, <1>16, <1>17 DEF IInv

-----------------------------------------------------------------------------
(* The invariant. *)

LEMMA StutterHolds == IInv /\ UNCHANGED vars => IInv'
<1> SUFFICES ASSUME IInv, UNCHANGED vars PROVE IInv'
  OBVIOUS
<1> USE DEF vars, memVars, execVars, timerVars, ghostVars, callVars
<1>1. TypeOK'
  BY DEF IInv, TypeOK
<1>2. ASSUME NEW t \in Tasks
      PROVE  TaskInv(t)'
  <2>1. TaskInv(t)
    BY DEF IInv
  <2> QED
    BY <2>1, Untouched
<1> QED
  BY <1>1, <1>2 DEF IInv

LEMMA NextHolds == IInv /\ [Next]_vars => IInv'
<1> SUFFICES ASSUME IInv, [Next]_vars PROVE IInv'
  OBVIOUS
<1>1. CASE Initialize \/ Close \/ Crash \/ Recover
  BY <1>1, InitializeHolds, CloseHolds, CrashHolds, RecoverHolds
<1>2. CASE GetAllTasks \/ CleanupOldTasks \/ PersistAll
  BY <1>2, GetAllTasksHolds, CleanupHolds, PersistAllHolds
<1>3. ASSUME NEW t \in Tasks,
             \/ CreateTask(t) \/ CommitCreate(t) \/ GetTask(t)
             \/ CompleteTask(t) \/ CommitComplete(t) \/ Age(t)
      PROVE  IInv'
  BY <1>3, CreateTaskHolds, CommitCreateHolds, GetTaskHolds, CompleteTaskHolds,
     CommitCompleteHolds, AgeHolds
<1>4. ASSUME NEW t \in Tasks,
             \/ Begin(t) \/ StepRuns(t) \/ StepRejects(t) \/ StepCompletes(t)
             \/ FrameEnds(t) \/ FrameSuspends(t) \/ TimerFires(t)
             \/ LoseContext(t)
      PROVE  IInv'
  BY <1>4, BeginHolds, StepRunsHolds, StepRejectsHolds, StepCompletesHolds,
     FrameEndsHolds, FrameSuspendsHolds, WakeUpHolds
<1>5. CASE \E p \in patches : CommitPatch(p)
  BY <1>5, CommitPatchHolds
<1>6. CASE UNCHANGED vars
  BY <1>6, StutterHolds
<1> QED
  BY <1>1, <1>2, <1>3, <1>4, <1>5, <1>6 DEF Next

LEMMA Inductive == Spec => []IInv
  BY InitHolds, NextHolds, PTL DEF Spec

-----------------------------------------------------------------------------
(* What one step may not do. *)

(* The rows of the tasks a step does not write. *)
LEMMA RowsKept ==
  ASSUME TypeOK, NEW t \in Tasks, NEW u \in Tasks, NEW row,
         rows' = rows \/ rows' = Written(t, row), u # t
  PROVE  rows'[u] = rows[u]
  BY DEF TypeOK, Written

LEMMA WrittenAt ==
  ASSUME TypeOK, NEW t \in Tasks, NEW row
  PROVE  Written(t, row)[t] = row \/ Written(t, row)[t] = rows[t]
  BY DEF TypeOK, Written

(* Every action but these leaves the table as it is. *)
LEMMA RowWriters ==
  ASSUME [Next]_vars, rows' # rows
  PROVE  \/ Recover \/ CleanupOldTasks \/ PersistAll
         \/ \E t \in Tasks : CommitCreate(t) \/ CommitComplete(t)
         \/ \E p \in patches : CommitPatch(p)
<1> USE DEF vars, memVars, execVars, timerVars, ghostVars, callVars
<1>1. ~Initialize /\ ~Close /\ ~Crash /\ ~GetAllTasks
  BY ZenonT(40) DEF Initialize, Close, Crash, GetAllTasks
<1>2. \A t \in Tasks : /\ ~CreateTask(t) /\ ~GetTask(t) /\ ~CompleteTask(t)
                       /\ ~Age(t) /\ ~Begin(t) /\ ~StepRuns(t)
                       /\ ~StepRejects(t) /\ ~StepCompletes(t) /\ ~FrameEnds(t)
                       /\ ~FrameSuspends(t) /\ ~TimerFires(t) /\ ~LoseContext(t)
  BY ZenonT(40) DEF CreateTask, GetTask, CompleteTask, Age, Begin, StepRuns,
     StepRejects, StepCompletes, FrameEnds, FrameSuspends, TimerFires, LoseContext
<1> QED
  BY <1>1, <1>2 DEF Next

LEMMA CompletedRowStays ==
  ASSUME IInv, [Next]_vars, NEW t \in Tasks,
         rows[t] # Absent, rows[t].status = "completed"
  PROVE  rows'[t] = Absent \/ rows'[t].status = "completed"
<1>1. /\ TypeOK /\ TaskInv(t) /\ mem[t] \in Memory /\ rows[t] \in Rows
  BY TypesAt DEF IInv
<1>2. CASE rows' = rows
  BY <1>2
<1>3. CASE Recover
  <2>1. ~Orphaned(rows[t])
    BY DEF Orphaned
  <2>2. rows'[t] = rows[t]
    BY <1>3, <2>1 DEF Recover
  <2> QED
    BY <2>2
<1>4. CASE CleanupOldTasks
  BY <1>4 DEF CleanupOldTasks
<1>5. CASE PersistAll
  <2>1. mode = "db"
    BY <1>5 DEF PersistAll
  <2>2. CASE mem[t].own = Absent
    BY <1>5, <2>2 DEF PersistAll
  <2>3. CASE mem[t].own # Absent
    <3>1. rows'[t] = RowOf(mem[t])
      BY <1>5, <2>3 DEF PersistAll
    <3>2. mem[t].own.status = "completed"
      BY <1>1, <2>1, <2>3 DEF TaskInv, OwnNotBehind, Done
    <3> QED
      BY <1>1, <2>3, <3>1, <3>2, RowOfTyped
  <2> QED
    BY <2>2, <2>3
<1>6. ASSUME NEW u \in Tasks, CommitCreate(u)
      PROVE  rows'[t] = rows[t]
  <2>1. PICK row : rows' = rows \/ (rows' = Written(u, row) /\ rows[u] = Absent)
    BY <1>6 DEF CommitCreate
  <2> QED
    BY <1>1, <2>1, RowsKept
<1>7. ASSUME NEW u \in Tasks, CommitComplete(u)
      PROVE  rows'[t] = rows[t] \/ rows'[t].status = "completed"
  <2>1. rows' = rows \/ rows' = Written(u, CompletedRow(rows[u]))
    BY <1>7 DEF CommitComplete
  <2>2. CASE u # t
    BY <1>1, <2>1, <2>2, RowsKept
  <2>3. CASE u = t
    <3>1. CompletedRow(rows[t]).status = "completed"
      BY <1>1, CompletedRowFields
    <3> QED
      BY <1>1, <2>1, <2>3, <3>1, WrittenAt
  <2> QED
    BY <2>2, <2>3
<1>8. ASSUME NEW p \in patches, CommitPatch(p)
      PROVE  rows'[t].status = rows[t].status
  <2>1. p.task \in Tasks
    BY <1>1 DEF TypeOK, Patches
  <2>2. PICK h : rows' = rows \/ rows' = Written(p.task,
                                           [rows[p.task] EXCEPT !.hist = h])
    BY <1>8 DEF CommitPatch
  <2>3. CASE p.task # t
    BY <1>1, <2>1, <2>2, <2>3, RowsKept
  <2>4. CASE p.task = t
    <3> DEFINE row == [rows[t] EXCEPT !.hist = h]
    <3>1. row.status = rows[t].status
      BY <1>1 DEF Rows
    <3>2. rows' = rows \/ rows' = Written(t, row)
      BY <2>2, <2>4
    <3> HIDE DEF row
    <3> QED
      BY <1>1, <3>1, <3>2, WrittenAt
  <2> QED
    BY <2>3, <2>4
<1> QED
  BY <1>2, <1>3, <1>4, <1>5, <1>6, <1>7, <1>8, RowWriters

LEMMA EnqueuedOpen ==
  ASSUME IInv, [Next]_vars, NEW t \in Tasks,
         queue[t] = Absent, queue'[t] # Absent
  PROVE  /\ frame[t] = Absent /\ t \notin timers \cup woken
         /\ rows[t] # Absent => rows[t].status # "completed"
<1> USE DEF vars, memVars, execVars, timerVars, ghostVars, callVars
<1>1. TypeOK /\ TaskInv(t)
  BY DEF IInv
<1>2. ~Initialize /\ ~Close /\ ~Crash /\ ~GetAllTasks /\ ~CleanupOldTasks
      /\ ~PersistAll /\ ~UNCHANGED vars
  BY ZenonT(40) DEF Initialize, Close, Crash, GetAllTasks, CleanupOldTasks, PersistAll
<1>3. \A u \in Tasks : /\ ~CommitCreate(u) /\ ~GetTask(u) /\ ~CompleteTask(u)
                       /\ ~CommitComplete(u) /\ ~Age(u) /\ ~StepRuns(u)
                       /\ ~StepRejects(u) /\ ~StepCompletes(u) /\ ~FrameEnds(u)
                       /\ ~FrameSuspends(u) /\ ~TimerFires(u) /\ ~LoseContext(u)
  BY ZenonT(40) DEF CommitCreate, GetTask, CompleteTask, CommitComplete, Age,
     StepRuns, StepRejects, StepCompletes, FrameEnds, FrameSuspends, TimerFires,
     LoseContext
<1>4. \A u \in Tasks : ~Begin(u)
  BY <1>1 DEF Begin, TypeOK
<1>5. \A p \in patches : ~CommitPatch(p)
  BY DEF CommitPatch
<1>6. CASE Recover
  <2>1. frame[t] = Absent /\ t \notin timers \cup woken
    BY <1>1, <1>6 DEF TaskInv, Born, Idle, Recover
  <2>2. Orphaned(rows[t])
    BY <1>6 DEF Recover
  <2> QED
    BY <2>1, <2>2 DEF Orphaned
<1>7. ASSUME NEW u \in Tasks, CreateTask(u)
      PROVE  /\ frame[t] = Absent /\ rows[t] = Absent
             /\ t \notin timers \cup woken
  <2>1. u = t
    BY <1>1, <1>7 DEF CreateTask, TypeOK
  <2> QED
    BY <1>1, <1>7, <2>1 DEF TaskInv, Born, Idle, CreateTask
<1> QED
  BY <1>2, <1>3, <1>4, <1>5, <1>6, <1>7 DEF Next

(* A wake-up is pushed by a timer, which is armed while nothing runs the   *)
(* task or waits to.                                                       *)
LEMMA WokenIdle ==
  ASSUME IInv, [Next]_vars, NEW t \in Tasks, t \in woken' \ woken
  PROVE  frame[t] = Absent /\ queue[t] = Absent
<1>1. TaskInv(t)
  BY DEF IInv
<1>2. ASSUME t \in timers
      PROVE  frame[t] = Absent /\ queue[t] = Absent
  BY <1>1, <1>2 DEF TaskInv, InStep
<1>3. ASSUME NEW u \in Tasks, TimerFires(u)
      PROVE  t \in timers
  BY <1>3 DEF TimerFires
<1> USE DEF vars, memVars, execVars, timerVars
<1>4. /\ ~Initialize /\ ~Close /\ ~Crash /\ ~Recover /\ ~GetAllTasks
      /\ ~CleanupOldTasks /\ ~PersistAll /\ ~UNCHANGED vars
  BY ZenonT(40) DEF Initialize, Close, Crash, Recover, GetAllTasks,
     CleanupOldTasks, PersistAll
<1>5. \A u \in Tasks : /\ ~CreateTask(u) /\ ~CommitCreate(u) /\ ~GetTask(u)
                       /\ ~CompleteTask(u) /\ ~CommitComplete(u) /\ ~Age(u)
                       /\ ~Begin(u) /\ ~StepRuns(u) /\ ~StepRejects(u)
                       /\ ~StepCompletes(u) /\ ~FrameEnds(u)
                       /\ ~FrameSuspends(u) /\ ~LoseContext(u)
  BY ZenonT(40) DEF CreateTask, CommitCreate, GetTask, CompleteTask,
     CommitComplete, Age, Begin, StepRuns, StepRejects, StepCompletes, FrameEnds,
     FrameSuspends, LoseContext
<1>6. \A p \in patches : ~CommitPatch(p)
  BY DEF CommitPatch
<1> QED
  BY <1>2, <1>3, <1>4, <1>5, <1>6 DEF Next

LEMMA LoadedOwn ==
  ASSUME TypeOK, NEW t \in Tasks, rows[t] # Absent
  PROVE  /\ Loaded(mem[t], ObjectOfRow(rows[t])).own # Absent
         /\ Loaded(mem[t], [ObjectOfRow(rows[t])
                              EXCEPT !.status = "recovering"]).own # Absent
<1> DEFINE o == ObjectOfRow(rows[t])
           q == [o EXCEPT !.status = "recovering"]
<1>1. mem[t] \in Memory /\ rows[t] \in Rows
  BY TypesAt
<1>2. o \in Objects
  BY <1>1, ObjectOfRowTyped
<1> HIDE DEF o
<1>3. q \in Objects
  BY <1>2 DEF Objects, Statuses
<1>4. Loaded(mem[t], o).own # Absent
  BY <1>1, <1>2, LoadedFields, ObjectFields
<1> HIDE DEF q
<1>5. Loaded(mem[t], q).own # Absent
  BY <1>1, <1>3, LoadedFields, ObjectFields
<1> QED
  BY <1>4, <1>5 DEF o, q

LEMMA ListenersKeepOwn ==
  ASSUME IInv, NEW t \in Tasks, StepCompletes(t), mem[t].own # Absent
  PROVE  mem'[t].own # Absent
<1> DEFINE s == frame[t].pos + 1
           hist == frame[t].hist
           m2 == Noted(mem[t], hist, s, HeldRefs(t))
<1>1. PICK m3 \in Captured(m2, rows[t]) :
        IF mode = "db" /\ CapturedObject(m3) # Absent
        THEN /\ mem' = [mem EXCEPT ![t] = Opened(m3, HeldRefs(t))]
             /\ patches' = patches \cup
                  {[task |-> t, step |-> s,
                    ws |-> CapturedObject(Opened(m3, HeldRefs(t))).ws]}
        ELSE mem' = [mem EXCEPT ![t] = m2] /\ patches' = patches
  BY Zenon DEF StepCompletes, Noted, Opened
<1> DEFINE m4 == Opened(m3, HeldRefs(t))
<1>2. /\ TypeOK /\ TaskInv(t) /\ mem[t] \in Memory /\ Aliased(mem[t])
      /\ rows[t] \in Rows \cup {Absent} /\ frame[t] # Absent /\ frame[t].ran
  BY Zenon, TypesAt DEF IInv, TaskInv, OwnNotBehind, StepCompletes
<1>3. hist \in Refs /\ hist \in HeldRefs(t)
  BY <1>2, FrameFields
<1>4. s \in Steps
  BY Zenon, <1>2, TypesAt DEF TaskInv, InStep
<1>5. \E a, b \in Free(mem[t], HeldRefs(t)) : a # b
  BY Zenon, RoomIsFree DEF StepCompletes
<1>6. \/ CapturedObject(m3) # Absent /\ mem' = [mem EXCEPT ![t] = m4]
      \/ mem' = [mem EXCEPT ![t] = m2]
  BY Zenon, <1>1
<1> HIDE DEF s, hist
<1>7. Heard(mem[t], hist, s, HeldRefs(t), rows[t], m3)
  BY <1>1, <1>2, <1>3, <1>4, <1>5, ListenersEffect
<1>8. /\ m2 \in Memory /\ Aliased(m2) /\ Like(mem[t], m2)
      /\ Grown(mem[t], m2, {s})
      /\ m2.heap[hist] = mem[t].heap[hist] \cup {s}
      /\ CapturedObject(m3) # Absent =>
           /\ m4 \in Memory /\ Aliased(m4) /\ Grown(mem[t], m4, {s})
           /\ m4.heap[hist] = mem[t].heap[hist] \cup {s}
           /\ CapturedObject(m4) # Absent /\ CapturedObject(m4).ws \in Refs
           /\ \/ Like(mem[t], m4)
              \/ /\ mem[t].cached = Absent /\ rows[t] # Absent
                 /\ m4.same /\ m4.own # Absent
                 /\ m4.own.status = rows[t].status
  BY <1>7 DEF Heard
<1> HIDE DEF m2, m4
<1> QED
  BY <1>2, <1>6, <1>8 DEF Like, TypeOK

(* But for the cleanup and the end of the process, no step takes a task    *)
(* out of memory.                                                          *)
LEMMA OwnStays ==
  ASSUME IInv, [Next]_vars, ~Crash, ~CleanupOldTasks,
         NEW t \in Tasks, mem[t].own # Absent
  PROVE  mem'[t].own # Absent
<1> USE DEF vars, memVars, execVars, timerVars, ghostVars, callVars
<1>1. /\ TypeOK /\ TaskInv(t) /\ mem[t] \in Memory /\ Aliased(mem[t])
      /\ t \in issued /\ mem \in [Tasks -> Memory]
  BY TypesAt DEF IInv, TaskInv, OwnNotBehind, Born, TypeOK
<1>2. CASE Initialize
  BY <1>1, <1>2, LoadedOwn DEF Initialize
<1>3. CASE Close
  BY <1>1, <1>3 DEF Close, Memory
<1>4. CASE Recover
  <2>1. \/ mem'[t] = mem[t]
        \/ /\ rows[t] # Absent
           /\ mem'[t] = Loaded(mem[t], [ObjectOfRow(rows[t])
                                          EXCEPT !.status = "recovering"])
    BY <1>4 DEF Recover, Orphaned
  <2> QED
    BY <1>1, <2>1, LoadedOwn
<1>5. CASE GetAllTasks
  BY Zenon, <1>1, <1>5, LoadedOwn DEF GetAllTasks
<1>6. CASE PersistAll
  BY <1>6 DEF PersistAll
<1>7. ASSUME NEW u \in Tasks, u # t,
             \/ CreateTask(u) \/ CommitCreate(u) \/ GetTask(u) \/ CompleteTask(u)
             \/ CommitComplete(u) \/ Begin(u) \/ StepCompletes(u)
      PROVE  mem'[t] = mem[t]
  <2>1. PICK m : mem' = mem \/ mem' = [mem EXCEPT ![u] = m]
    BY Zenon, <1>7 DEF CreateTask, CommitCreate, GetTask, CompleteTask, CommitComplete,
                Begin, StepCompletes
  <2> QED
    BY <1>1, <1>7, <2>1
<1>8. ~CreateTask(t)
  BY <1>1 DEF CreateTask
<1>9. CASE CommitCreate(t)
  <2> DEFINE r == Fresh(mem[t], HeldRefs(t))
             m == WithHistory(mem[t], r)
  <2>1. r \in Refs
    BY <1>9, RoomIsFree DEF CommitCreate
  <2>2. mem' = [mem EXCEPT ![t] = Copied(m)] \/ mem' = [mem EXCEPT ![t] = m]
    BY <1>9 DEF CommitCreate, WithHistory, Copied
  <2> HIDE DEF r
  <2>3. m \in Memory /\ Like(mem[t], m)
    BY <1>1, <2>1, WithHistoryEffect
  <2> HIDE DEF m
  <2>4. m.own # Absent /\ Copied(m).own = m.own
    BY <2>3, CopiedFields DEF Like
  <2> QED
    BY <1>1, <2>2, <2>4
<1>10. CASE GetTask(t)
  BY <1>1, <1>10, LoadedOwn DEF GetTask
<1>11. CASE CompleteTask(t)
  <2> DEFINE o == [mem[t].own EXCEPT !.status = "completed"]
  <2>1. o \in Objects
    BY <1>1, MemoryFields, CompletedFields
  <2>2. mem'[t] = SetOwn(mem[t], o)
    BY <1>1, <1>11 DEF CompleteTask
  <2> HIDE DEF o
  <2> QED
    BY <1>1, <2>1, <2>2, SetOwnFields, ObjectFields
<1>12. CASE CommitComplete(t)
  <2>1. mem'[t] = mem[t] \/ mem'[t] = CacheCompleted(mem[t])
    BY <1>1, <1>12 DEF CommitComplete, CacheCompleted
  <2> QED
    BY <1>1, <2>1, CacheCompletedFields
<1>13. CASE Begin(t)
  <2> DEFINE r == Fresh(mem[t], HeldRefs(t))
  <2>1. r \in Refs
    BY <1>13, RoomIsFree DEF Begin
  <2>2. mem'[t] = mem[t] \/ mem'[t] = Emptied(mem[t], r)
    BY <1>1, <1>13 DEF Begin, Emptied
  <2> HIDE DEF r
  <2> QED
    BY <1>1, <2>1, <2>2, EmptiedFields
<1>14. CASE StepCompletes(t)
  BY <1>14, ListenersKeepOwn
<1>15. ASSUME NEW p \in patches, CommitPatch(p)
       PROVE  mem'[t].own = mem[t].own
  <2>1. p.task \in Tasks /\ p.ws \in Refs /\ p.step \in Steps
    BY <1>1 DEF TypeOK, Patches
  <2>2. mem' = [mem EXCEPT ![p.task] = Remember(mem[p.task], p.ws, p.step)]
    BY <1>15 DEF CommitPatch, Remember
  <2>3. CASE p.task # t
    BY <1>1, <2>1, <2>2, <2>3
  <2>4. CASE p.task = t
    BY <1>1, <2>1, <2>2, <2>4, RememberEffect
  <2> QED
    BY <2>3, <2>4
<1>16. ASSUME NEW u \in Tasks,
              \/ Age(u) \/ StepRuns(u) \/ StepRejects(u) \/ FrameEnds(u)
              \/ FrameSuspends(u) \/ TimerFires(u) \/ LoseContext(u)
       PROVE  mem' = mem
  BY <1>16 DEF Age, StepRuns, StepRejects, FrameEnds, FrameSuspends, TimerFires,
     LoseContext
<1> QED
  BY <1>2, <1>3, <1>4, <1>5, <1>6, <1>7, <1>8, <1>9, <1>10, <1>11, <1>12, <1>13,
     <1>14, <1>15, <1>16 DEF Next

(* Only the cleanup deletes rows.                                          *)
LEMMA RowStays ==
  ASSUME IInv, [Next]_vars, ~CleanupOldTasks,
         NEW t \in Tasks, rows[t] # Absent
  PROVE  rows'[t] # Absent
<1>1. /\ TypeOK /\ TaskInv(t) /\ mem[t] \in Memory /\ rows[t] \in Rows
  BY TypesAt DEF IInv
<1>2. CASE rows' = rows
  BY <1>2
<1>3. CASE Recover
  <2>1. [rows[t] EXCEPT !.status = "recovering"] \in Rows
    BY <1>1 DEF Rows, Statuses
  <2>2. rows'[t] = rows[t] \/ rows'[t] = [rows[t] EXCEPT !.status = "recovering"]
    BY <1>3 DEF Recover
  <2> QED
    BY <2>1, <2>2, RowFields
<1>4. CASE PersistAll
  <2>1. CASE mem[t].own = Absent
    BY <1>4, <2>1 DEF PersistAll
  <2>2. CASE mem[t].own # Absent
    <3>1. rows'[t] = RowOf(mem[t])
      BY <1>4, <2>2 DEF PersistAll
    <3> QED
      BY <1>1, <2>2, <3>1, RowOfTyped, RowFields
  <2> QED
    BY <2>1, <2>2
<1>5. ASSUME NEW u \in Tasks, CommitCreate(u)
      PROVE  rows'[t] = rows[t]
  <2>1. PICK row : rows' = rows \/ (rows' = Written(u, row) /\ rows[u] = Absent)
    BY <1>5 DEF CommitCreate
  <2> QED
    BY <1>1, <2>1, RowsKept
<1>6. ASSUME NEW u \in Tasks, CommitComplete(u)
      PROVE  rows'[t] # Absent
  <2>1. rows' = rows \/ rows' = Written(u, CompletedRow(rows[u]))
    BY <1>6 DEF CommitComplete
  <2>2. CASE u # t
    BY <1>1, <2>1, <2>2, RowsKept
  <2>3. CASE u = t
    <3>1. CompletedRow(rows[t]) # Absent
      BY <1>1, CompletedRowFields, RowFields
    <3> QED
      BY <1>1, <2>1, <2>3, <3>1, WrittenAt
  <2> QED
    BY <2>2, <2>3
<1>7. ASSUME NEW p \in patches, CommitPatch(p)
      PROVE  rows'[t] # Absent
  <2> DEFINE h == [mem[p.task].heap EXCEPT ![p.ws] = @ \cup {p.step}][p.ws]
             row == [rows[p.task] EXCEPT !.hist = h]
  <2>1. p.task \in Tasks /\ p.ws \in Refs /\ p.step \in Steps
    BY <1>1 DEF TypeOK, Patches
  <2>2. h \in SUBSET Steps
    <3>1. mem[p.task] \in Memory
      BY <1>1, <2>1, TypesAt
    <3> QED
      BY <2>1, <3>1, MemoryFields
  <2>3. rows' = rows \/ rows' = Written(p.task, row)
    BY <1>7 DEF CommitPatch
  <2> HIDE DEF h
  <2>4. CASE p.task # t
    <3> HIDE DEF row
    <3> QED
      BY <1>1, <2>1, <2>3, <2>4, RowsKept
  <2>5. CASE p.task = t
    <3>1. row \in Rows
      BY <1>1, <2>2, <2>5 DEF Rows
    <3> HIDE DEF row
    <3>2. row # Absent
      BY <3>1, RowFields
    <3> QED
      BY <1>1, <2>3, <2>5, <3>2, WrittenAt
  <2> QED
    BY <2>4, <2>5
<1> QED
  BY <1>2, <1>3, <1>4, <1>5, <1>6, <1>7, RowWriters

(* With a driver, what the cleanup takes from memory had a completed row,  *)
(* and the object beside a completed row is completed.                     *)
LEMMA CleanedWasDone ==
  ASSUME IInv, CleanupOldTasks, NEW t \in Tasks
  PROVE  /\ (rows[t] # Absent /\ rows'[t] = Absent) => t \in aged
         /\ (DriverPresent /\ mem[t].own # Absent /\ mem'[t].own = Absent)
              => t \in aged /\ mem[t].own.status = "completed"
<1>1. TypeOK /\ TaskInv(t)
  BY DEF IInv
<1>2. (rows[t] # Absent /\ rows'[t] = Absent) => mode = "db" /\ Deletable(t)
  BY DEF CleanupOldTasks
<1>3. ASSUME DriverPresent, mem[t].own # Absent, mem'[t].own = Absent
      PROVE  t \in aged /\ mem[t].own.status = "completed"
  <2>1. CASE mode = "db"
    <3>1. mem[t].cached # Absent /\ rows'[t] = Absent
      BY <1>3, <2>1 DEF CleanupOldTasks
    <3>2. rows[t] # Absent
      BY <1>1, <1>3, <3>1 DEF TaskInv, Matching
    <3> QED
      BY <1>1, <1>2, <1>3, <2>1, <3>1, <3>2
      DEF Deletable, TaskInv, OwnNotBehind, Done
  <2>2. CASE mode # "db"
    BY <1>3, <2>2 DEF CleanupOldTasks
  <2> QED
    BY <2>1, <2>2
<1> QED
  BY <1>2, <1>3 DEF Deletable

-----------------------------------------------------------------------------
(* How often a step runs. *)

LEMMA SparedIfStill ==
  ASSUME NEW t \in Tasks, Spared(t), standing'[t] = standing[t],
         \A s \in Steps : /\ Ahead(t, s)' => Ahead(t, s)
                          /\ Called(t, s)' => Called(t, s)
  PROVE  Spared(t)'
  BY DEF Spared

LEMMA SparedStep ==
  ASSUME IInv, [Next]_vars, NEW t \in Tasks, Spared(t)
  PROVE  Spared(t)'
<1> USE DEF vars, memVars, execVars, timerVars, ghostVars, callVars
<1>1. TypeOK /\ TaskInv(t)
  BY DEF IInv
<1>2. CASE /\ standing'[t] = standing[t] /\ queue'[t] = queue[t]
           /\ frame'[t] = frame[t]
           /\ UNCHANGED <<issued, booted>>
  BY <1>2, SparedIfStill DEF Ahead, Called
<1>3. CASE Crash
  <2>1. \A s \in Steps : standing'[t][s] = 0 /\ ~Called(t, s)'
    BY <1>3 DEF Crash, Called
  <2> QED
    BY <2>1 DEF Spared
<1>4. CASE Recover
  <2>1. \A s \in Steps : Ahead(t, s)
    BY <1>4 DEF Recover, Ahead
  <2>2. frame' = frame /\ standing' = standing
    BY <1>4 DEF Recover
  <2> QED
    BY <2>1, <2>2, SparedIfStill DEF Called
<1>5. ASSUME NEW u \in Tasks, CreateTask(u)
      PROVE  Spared(t)'
  <2>1. frame' = frame /\ standing' = standing
    BY <1>5 DEF CreateTask
  <2>2. \A s \in Steps : Ahead(t, s)' => Ahead(t, s)
    <3>1. CASE u = t
      BY <1>5, <3>1 DEF CreateTask, Ahead
    <3>2. CASE u # t
      <4>1. queue'[t] = queue[t] /\ (t \in issued' <=> t \in issued)
        BY <1>1, <1>5, <3>2 DEF CreateTask, TypeOK
      <4> QED
        BY <1>5, <4>1 DEF CreateTask, Ahead
    <3> QED
      BY <3>1, <3>2
  <2> QED
    BY <2>1, <2>2, SparedIfStill DEF Called
<1>6. CASE Begin(t)
  <2>1. /\ queue[t] # Absent /\ standing' = standing
        /\ frame' = [frame EXCEPT ![t] = frame'[t]] /\ ~frame'[t].ran
    BY <1>1, <1>6 DEF Begin, TypeOK
  <2>2. \A s \in Steps : Ahead(t, s) /\ ~Called(t, s)'
    BY <2>1 DEF Ahead, Called
  <2> QED
    BY <2>1, <2>2, SparedIfStill
<1>7. ASSUME NEW u \in Tasks, u # t,
             \/ Begin(u) \/ StepRuns(u) \/ StepRejects(u) \/ StepCompletes(u)
             \/ FrameEnds(u) \/ FrameSuspends(u)
      PROVE  Spared(t)'
  <2>1. /\ frame'[t] = frame[t] /\ standing'[t] = standing[t]
        /\ queue'[t] = queue[t]
        /\ UNCHANGED <<issued, booted>>
    BY ZenonT(40), <1>1, <1>7 DEF Begin, StepRuns, StepRejects, StepCompletes,
       FrameEnds, FrameSuspends, TypeOK
  <2> QED
    BY <1>2, <2>1
<1>8. ASSUME frame[t] # Absent
      PROVE  /\ t \in issued /\ booted /\ queue[t] = Absent
             /\ frame[t] \in Frames /\ frame[t].pos \in Nat
  BY <1>1, <1>8, FrameFields DEF TaskInv, Born, Idle, InStep
<1>9. CASE StepRuns(t)
  <2> DEFINE f == [frame[t] EXCEPT !.ran = TRUE]
  <2>1. /\ frame[t] # Absent /\ ~frame[t].ran /\ frame[t].pos < NumSteps
        /\ UNCHANGED <<issued, booted, queue>>
        /\ frame' = [frame EXCEPT ![t] = f]
        /\ standing' = [standing EXCEPT ![t][frame[t].pos + 1] = @ + 1]
    BY <1>9 DEF StepRuns
  <2>2. PICK s \in Steps : s = frame[t].pos + 1
    BY <1>8, <2>1, NatSteps DEF Steps
  <2>3. f.pos = frame[t].pos /\ f.ran
    BY <1>8, <2>1 DEF Frames
  <2>4. s = f.pos + 1 /\ s > frame[t].pos
    BY <1>8, <2>1, <2>2, <2>3
  <2> HIDE DEF f
  <2>5. frame'[t] = f
    BY <1>1, <2>1 DEF TypeOK
  <2>6. Ahead(t, s) /\ ~Ahead(t, s)'
    BY <1>8, <2>1, <2>3, <2>4, <2>5 DEF Ahead
  <2>7. /\ standing'[t][s] = standing[t][s] + 1
        /\ \A q \in Steps : q # s => standing'[t][q] = standing[t][q]
    BY <1>1, <2>1, <2>2 DEF TypeOK
  <2>8. standing'[t][s] = 1
    BY <2>6, <2>7 DEF Spared
  <2>9. \A q \in Steps : q # s =>
          (Ahead(t, q)' => Ahead(t, q)) /\ ~Called(t, q)'
    BY <2>1, <2>2, <2>3, <2>4, <2>5 DEF Ahead, Called
  <2>10. ASSUME NEW q \in Steps, q # s
         PROVE  /\ standing'[t][q] \in {0, 1}
                /\ Ahead(t, q)' => standing'[t][q] = 0
                /\ ~Called(t, q)'
    BY <2>7, <2>9, <2>10 DEF Spared
  <2> QED
    BY <2>6, <2>8, <2>10 DEF Spared
<1>10. CASE StepRejects(t)
  <2> DEFINE f == [frame[t] EXCEPT !.ran = FALSE]
  <2>1. /\ frame[t] # Absent /\ frame[t].ran
        /\ UNCHANGED <<issued, booted, queue>>
        /\ frame' = [frame EXCEPT ![t] = f]
        /\ standing' = [standing EXCEPT ![t][frame[t].pos + 1] = @ - 1]
    BY <1>10 DEF StepRejects
  <2>2. PICK s \in Steps : s = frame[t].pos + 1
    BY <1>1, <1>8, <2>1, NatSteps DEF Steps, TaskInv, InStep
  <2>3. f.pos = frame[t].pos /\ ~f.ran
    BY <1>8, <2>1 DEF Frames
  <2> HIDE DEF f
  <2>4. frame'[t] = f
    BY <1>1, <2>1 DEF TypeOK
  <2>5. /\ standing'[t][s] = standing[t][s] - 1
        /\ \A q \in Steps : q # s => standing'[t][q] = standing[t][q]
    BY <1>1, <2>1, <2>2 DEF TypeOK
  <2>6. standing'[t][s] = 0
    BY <2>1, <2>2, <2>5 DEF Spared, Called
  <2>7. \A q \in Steps : ~Called(t, q)'
    BY <2>3, <2>4 DEF Called
  <2>8. \A q \in Steps : (q # s /\ Ahead(t, q)') => Ahead(t, q)
    BY <2>1, <2>2, <2>3, <2>4 DEF Ahead
  <2>9. ASSUME NEW q \in Steps, q # s
        PROVE  /\ standing'[t][q] \in {0, 1}
               /\ Ahead(t, q)' => standing'[t][q] = 0
    BY <2>5, <2>8, <2>9 DEF Spared
  <2> QED
    BY <2>6, <2>7, <2>9 DEF Spared
<1>11. CASE StepCompletes(t)
  <2> DEFINE s == frame[t].pos + 1
             f == [frame[t] EXCEPT !.pos = s, !.ran = FALSE]
  <2>1. /\ frame[t] # Absent /\ frame' = [frame EXCEPT ![t] = f]
        /\ UNCHANGED <<issued, booted, queue, standing>>
    BY Zenon, <1>11 DEF StepCompletes
  <2>2. f.pos = s /\ ~f.ran
    BY <1>8, <2>1 DEF Frames
  <2> HIDE DEF f
  <2>3. frame'[t] = f
    BY <1>1, <2>1 DEF TypeOK
  <2>4. \A q \in Steps : q > s => q > frame[t].pos /\ q # frame[t].pos + 1
    <3>1. frame[t].pos \in Nat /\ Steps \subseteq Nat
      BY <1>8, <2>1, NatSteps
    <3> QED
      BY <3>1
  <2> HIDE DEF s
  <2>5. \A q \in Steps : /\ Ahead(t, q)' => Ahead(t, q)
                         /\ ~Called(t, q)'
    BY <2>1, <2>2, <2>3, <2>4 DEF Ahead, Called
  <2> QED
    BY SMTT(40), <2>1, <2>5, SparedIfStill
<1>12. CASE FrameEnds(t) \/ FrameSuspends(t)
  <2>1. /\ frame'[t] = Absent
        /\ UNCHANGED <<issued, booted, queue, standing>>
    BY <1>1, <1>12 DEF FrameEnds, FrameSuspends, TypeOK
  <2> QED
    BY <2>1, SparedIfStill DEF Ahead, Called
<1>13. CASE Initialize \/ Close \/ GetAllTasks \/ CleanupOldTasks \/ PersistAll
  BY <1>2, <1>13 DEF Initialize, Close, GetAllTasks, CleanupOldTasks, PersistAll
<1>14. ASSUME NEW u \in Tasks,
              \/ CommitCreate(u) \/ GetTask(u) \/ CompleteTask(u)
              \/ CommitComplete(u) \/ Age(u) \/ TimerFires(u) \/ LoseContext(u)
       PROVE  Spared(t)'
  BY <1>2, <1>14 DEF CommitCreate, GetTask, CompleteTask, CommitComplete, Age,
     TimerFires, LoseContext
<1>15. ASSUME NEW p \in patches, CommitPatch(p)
       PROVE  Spared(t)'
  BY <1>2, <1>15 DEF CommitPatch
<1>16. CASE UNCHANGED vars
  BY <1>2, <1>16
<1> QED
  BY <1>3, <1>4, <1>5, <1>6, <1>7, <1>9, <1>10, <1>11, <1>12, <1>13, <1>14,
     <1>15, <1>16 DEF Next

-----------------------------------------------------------------------------
(* Theorems. *)

(* Objects, rows, histories and executions keep their shape: no handler    *)
(* reads a field of an object that is not there, or goes past its steps.   *)
THEOREM TypeCorrect == Spec => []TypeOK
<1>1. IInv => TypeOK
  BY DEF IInv
<1> QED
  BY <1>1, Inductive, PTL

(* No history in a row or an object names a step whose function has not    *)
(* run, however objects share histories and whichever of them is written   *)
(* back last, over any number of process deaths.                           *)
THEOREM HistoriesAreTrue == Spec => []NoPhantomSteps
<1>1. IInv => NoPhantomSteps
  <2> SUFFICES ASSUME IInv, NEW t \in Tasks, NEW s \in Steps,
                      \/ rows[t] # Absent /\ s \in rows[t].hist
                      \/ \E r \in Refs : s \in mem[t].heap[r]
               PROVE  s \in effects[t]
    BY DEF NoPhantomSteps
  <2> QED
    BY DEF IInv, TaskInv, HistoriesRan, RanSteps
<1> QED
  BY <1>1, Inductive, PTL

(* A running context knows the steps it went through and no other.         *)
THEOREM FramesInStep == Spec => []FrameSeesOwnSteps
<1>1. IInv => FrameSeesOwnSteps
  BY DEF IInv, TaskInv, InStep, FrameSeesOwnSteps
<1> QED
  BY <1>1, Inductive, PTL

(* With a driver, what the cache answers has the status of the row, but    *)
(* for completions under way and failed statements.                        *)
THEOREM CacheIsTrue ==
  ASSUME DriverPresent
  PROVE  Spec => []CacheMatchesRows
<1>1. IInv => CacheMatchesRows
  BY DEF IInv, TaskInv, Matching, CacheMatchesRows
<1> QED
  BY <1>1, Inductive, PTL

(* Neither a late patch, nor persistAll, nor the recovery reopens a        *)
(* completed row.                                                          *)
THEOREM CompletionIsFinal == Spec => CompletedStays
<1> DEFINE Stays ==
      \A t \in Tasks :
        (rows[t] # Absent /\ rows[t].status = "completed")
          => rows'[t] = Absent \/ rows'[t].status = "completed"
<1>1. IInv /\ [Next]_vars => Stays
  BY CompletedRowStays
<1>2. Spec => [][Stays]_vars
  BY <1>1, Inductive, PTL DEF Spec
<1> QED
  BY <1>2 DEF CompletedStays

(* createTask and the recovery enqueue no task that runs, sleeps or is     *)
(* done, and no wake-up comes beside an execution or an entry of its task. *)
THEOREM OnlyOpenTasksEnqueued == Spec => EnqueuedOnlyIfOpen
<1> DEFINE Open ==
      \A t \in Tasks :
        /\ (queue[t] = Absent /\ queue'[t] # Absent)
             => /\ frame[t] = Absent /\ t \notin timers \cup woken
                /\ rows[t] # Absent => rows[t].status # "completed"
        /\ t \in woken' \ woken => frame[t] = Absent /\ queue[t] = Absent
<1>1. IInv /\ [Next]_vars => Open
  BY EnqueuedOpen, WokenIdle
<1>2. Spec => [][Open]_vars
  BY <1>1, Inductive, PTL DEF Spec
<1> QED
  BY <1>2 DEF EnqueuedOnlyIfOpen

(* With a driver, no step of a living process takes a task from the table  *)
(* or from memory, but the cleanup, and that one a completed, aged one.    *)
THEOREM OpenTasksKept ==
  ASSUME DriverPresent
  PROVE  Spec => CleanupKeepsOpenTasks
<1> DEFINE Keeps ==
      crashes' = crashes =>
        \A t \in Tasks :
          /\ (rows[t] # Absent /\ rows'[t] = Absent) => t \in aged
          /\ (mem[t].own # Absent /\ mem'[t].own = Absent)
               => t \in aged /\ mem[t].own.status = "completed"
<1>1. IInv /\ [Next]_vars => Keeps
  <2> SUFFICES ASSUME IInv, [Next]_vars, crashes' = crashes, NEW t \in Tasks
               PROVE  /\ (rows[t] # Absent /\ rows'[t] = Absent) => t \in aged
                      /\ (mem[t].own # Absent /\ mem'[t].own = Absent)
                           => t \in aged /\ mem[t].own.status = "completed"
    OBVIOUS
  <2>1. crashes \in Int
    BY FlagsAssumption DEF IInv, TypeOK
  <2>2. ~Crash
    BY <2>1 DEF Crash
  <2>3. CASE CleanupOldTasks
    BY <2>3, CleanedWasDone
  <2>4. CASE ~CleanupOldTasks
    BY <2>2, <2>4, OwnStays, RowStays
  <2> QED
    BY <2>3, <2>4
<1>2. Spec => [][Keeps]_vars
  BY <1>1, Inductive, PTL DEF Spec
<1> QED
  BY <1>2 DEF CleanupKeepsOpenTasks

(* In one process, recovery included, a step's function is called again    *)
(* only after it has rejected: of its calls at most one is pending or has  *)
(* returned.  What else repeats a step is the death of the process.        *)
THEOREM StepsOncePerProcess == Spec => []OncePerProcess
<1> DEFINE AllSpared == \A t \in Tasks : Spared(t)
<1>1. Init => AllSpared
  <2> SUFFICES ASSUME Init, NEW t \in Tasks, NEW s \in Steps
               PROVE  standing[t][s] = 0 /\ ~Called(t, s)
    BY DEF Spared, Init
  <2> QED
    BY DEF Init, Called
<1>2. IInv /\ AllSpared /\ [Next]_vars => AllSpared'
  BY SparedStep
<1>3. AllSpared => OncePerProcess
  BY DEF Spared, OncePerProcess
<1> HIDE DEF AllSpared
<1> QED
  BY <1>1, <1>2, <1>3, Inductive, PTL DEF Spec
=============================================================================
