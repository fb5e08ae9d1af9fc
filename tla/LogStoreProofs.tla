--------------------------- MODULE LogStoreProofs ---------------------------
(***************************************************************************)
(* What holds of the log store however many calls overlap, however many    *)
(* entries are written and however often the process dies.                 *)
(***************************************************************************)
EXTENDS LogStore, TLAPS

(* Which call is where: who writes has an entry, who cleans has a policy,  *)
(* and the awaits outside ensureInitialized tell the call.                 *)
CallInv ==
  \A c \in Calls :
    /\ doing[c] = "write" <=> entry[c] # NoEntry
    /\ doing[c] = "cleanup" <=> policy[c] # NoPolicy
    /\ at[c] = "idle" => doing[c] = "none"
    /\ at[c] = "pushed" => doing[c] = "write"
    /\ at[c] = "closing" => doing[c] = "close"

IInv == TypeOK /\ CallInv /\ MemoryIsBacked

-----------------------------------------------------------------------------
(* Sequences. *)

LEMMA AppendToSet ==
  ASSUME NEW S, NEW s \in Seq(S), NEW e \in S
  PROVE  ToSet(Append(s, e)) = ToSet(s) \cup {e}
<1> DEFINE t == Append(s, e)
<1>1. /\ DOMAIN t = 1..(Len(s) + 1) /\ DOMAIN s = 1..Len(s)
      /\ \A i \in 1..Len(s) : t[i] = s[i]
      /\ t[Len(s) + 1] = e
  OBVIOUS
<1>2. 1..(Len(s) + 1) = 1..Len(s) \cup {Len(s) + 1}
  OBVIOUS
<1> HIDE DEF t
<1> QED
  BY <1>1, <1>2, Zenon DEF ToSet, t

LEMMA ReverseSeq ==
  ASSUME NEW S, NEW s \in Seq(S)
  PROVE  /\ Reverse(s) \in Seq(S)
         /\ Len(Reverse(s)) = Len(s)
         /\ \A i \in 1..Len(s) : Reverse(s)[i] = s[Len(s) - i + 1]
<1>1. \A i \in 1..Len(s) : s[(Len(s) - i) + 1] \in S
  OBVIOUS
<1>2. Len(s) \in Nat
  OBVIOUS
<1> QED
  BY <1>1, <1>2 DEF Reverse

(* What is left behind the first k elements: how long it is, and that it  *)
(* is a suffix.                                                            *)
LEMMA DropFirst ==
  ASSUME NEW S, NEW s \in Seq(S), NEW k \in 0..Len(s)
  PROVE  /\ SubSeq(s, k + 1, Len(s)) \in Seq(S)
         /\ Len(SubSeq(s, k + 1, Len(s))) = Len(s) - k
         /\ IsSuffix(SubSeq(s, k + 1, Len(s)), s)
<1> DEFINE t == SubSeq(s, k + 1, Len(s))
<1>1. t \in Seq(S) /\ Len(t) = Len(s) - k /\ \A i \in 1..Len(t) : t[i] = s[k + i]
  OBVIOUS
<1>2. Reverse(t) \in Seq(S) /\ Len(Reverse(t)) = Len(t)
  BY <1>1, ReverseSeq
<1>3. Reverse(s) \in Seq(S) /\ Len(Reverse(s)) = Len(s)
  BY ReverseSeq
<1>4. ASSUME NEW i \in 1..Len(t) PROVE Reverse(t)[i] = Reverse(s)[i]
  <2>1. Reverse(t)[i] = t[Len(t) - i + 1]
    BY <1>1, ReverseSeq
  <2>2. Reverse(s)[i] = s[Len(s) - i + 1]
    BY <1>1, ReverseSeq
  <2>3. Len(t) - i + 1 \in 1..Len(t) /\ k + (Len(t) - i + 1) = Len(s) - i + 1
    BY <1>1
  <2> QED
    BY <1>1, <2>1, <2>2, <2>3
<1>5. SubSeq(Reverse(t), 1, Len(t)) = SubSeq(Reverse(s), 1, Len(t))
  BY <1>1, <1>2, <1>3, <1>4
<1>6. IsPrefix(Reverse(t), Reverse(s))
  BY <1>1, <1>2, <1>3, <1>4, <1>5 DEF IsPrefix
<1> QED
  BY <1>1, <1>6 DEF IsSuffix

-----------------------------------------------------------------------------
(* Induction. *)

LEMMA NoPolicyIsNone == \A p \in Policies : p # NoPolicy
  BY NoPolicyAssumption

LEMMA NoEntryIsNone == NoEntry \notin Entries
  BY DEF NoEntry, Entries

LEMMA InitHolds == Init => IInv
<1> SUFFICES ASSUME Init PROVE IInv
  OBVIOUS
<1>1. 0 \in 0..MaxLogs /\ 0 \in 0..MaxCrashes
  BY BoundsAssumption
<1>2. TypeOK
  <2>1. rows \in Seq(Entries) /\ written \in 0..MaxLogs /\ crashes \in 0..MaxCrashes
    BY <1>1 DEF Init
  <2>2. initialized \in BOOLEAN /\ persistent \in BOOLEAN
    BY DEF Init
  <2>3. /\ at \in [Calls -> Awaits] /\ doing \in [Calls -> Operations]
        /\ entry \in [Calls -> Entries \cup {NoEntry}]
        /\ policy \in [Calls -> Policies \cup {NoPolicy}]
    BY DEF Init, Awaits, Operations
  <2> QED
    BY <2>1, <2>2, <2>3, Zenon DEF Init, TypeOK
<1>3. CallInv
  BY Zenon DEF Init, CallInv
<1>4. MemoryIsBacked
  BY DEF Init, MemoryIsBacked
<1> QED
  BY <1>2, <1>3, <1>4 DEF IInv

(* One step of one call. *)
CallStep(c) ==
  \/ CallEnsure(c) \/ CallWrite(c) \/ CallCleanup(c) \/ CallClose(c)
  \/ Pushed(c) \/ Connected(c) \/ Refused(c) \/ Loaded(c) \/ Ensured(c)
  \/ Insert(c) \/ Delete(c) \/ Reload(c) \/ Closed(c)

LEMMA ToSetType ==
  ASSUME NEW S, NEW s \in Seq(S)
  PROVE  ToSet(s) \subseteq S
  BY DEF ToSet

(* keepLast comes with the number of rows to keep. *)
LEMMA KeepIsNat ==
  ASSUME NEW p \in Policies, p.kind = "keepLast"
  PROVE  p.keep \in Nat
<1>1. p # OlderThan /\ p # Everything
  BY DEF OlderThan, Everything
<1>2. PICK n \in KeepLasts : p = KeepLast(n)
  BY <1>1 DEF Policies
<1>3. n \in Nat
  BY BoundsAssumption
<1> QED
  BY <1>2, <1>3 DEF KeepLast

(* What a DELETE leaves. *)
LEMMA DeletedRows ==
  ASSUME TypeOK, NEW p \in Policies, NEW k \in Deleted(p)
  PROVE  /\ k \in 0..Len(rows)
         /\ p.kind = "keepLast" /\ ~NothingToDelete(p) => Len(rows) - k = p.keep
<1>1. p.kind = "keepLast" => p.keep \in Nat
  BY KeepIsNat
<1>2. Len(rows) \in Nat
  BY DEF TypeOK
<1>3. CASE p.kind = "keepLast"
  BY <1>1, <1>2, <1>3 DEF Deleted, MostOf, NothingToDelete
<1>4. CASE p.kind = "olderThan"
  BY <1>2, <1>4 DEF Deleted
<1>5. CASE p.kind \notin {"keepLast", "olderThan"}
  BY <1>2, <1>5 DEF Deleted
<1> QED
  BY <1>3, <1>4, <1>5

(* What an INSERT, successful or not, makes of an entry.                   *)
LEMMA InsertedRows ==
  ASSUME NEW c \in Calls, TypeOK, CallInv, Insert(c)
  PROVE  /\ entry[c] \in Entries
         /\ rows' \in Seq(Entries)
         /\ ToSet(rows) \subseteq ToSet(rows')
         /\ ToSet(rows') \cup unsaved' = ToSet(rows) \cup unsaved \cup {entry[c]}
<1>1. entry[c] \in Entries
  BY DEF Insert, CallInv, TypeOK
<1>2. rows \in Seq(Entries)
  BY DEF TypeOK
<1>3. ToSet(Append(rows, entry[c])) = ToSet(rows) \cup {entry[c]}
  BY <1>1, <1>2, AppendToSet
<1>4. Append(rows, entry[c]) \in Seq(Entries)
  BY <1>1, <1>2
<1>5. CASE rows' = Append(rows, entry[c]) /\ unsaved' = unsaved
  BY <1>1, <1>3, <1>4, <1>5
<1>6. CASE rows' = rows /\ unsaved' = unsaved \cup {entry[c]}
  BY <1>1, <1>2, <1>6
<1> QED
  BY <1>5, <1>6 DEF Insert

LEMMA CallTypes ==
  ASSUME NEW c \in Calls, TypeOK, CallInv, CallStep(c)
  PROVE  TypeOK'
<1> USE DEF TypeOK, Awaits, Operations, handleVars, historyVars
<1>1. CASE CallEnsure(c)
  BY <1>1 DEF CallEnsure, Ensure
<1>2. CASE CallWrite(c)
  BY <1>2, BoundsAssumption DEF CallWrite, NextEntry, Entries
<1>3. CASE CallCleanup(c)
  BY <1>3 DEF CallCleanup, Ensure
<1>4. CASE CallClose(c)
  BY <1>4 DEF CallClose
<1>5. CASE Pushed(c)
  BY <1>5 DEF Pushed, Ensure, Returns, CallInv
<1>6. CASE Connected(c)
  BY <1>6 DEF Connected
<1>7. CASE Refused(c)
  BY <1>7 DEF Refused
<1>8. CASE Loaded(c)
  BY <1>8, ToSetType DEF Loaded, Load
<1>9. CASE Ensured(c)
  BY <1>9 DEF Ensured, Returns
<1>10. CASE Insert(c)
  <2>1. rows' \in Seq(Entries) /\ unsaved' \subseteq Entries
    BY <1>10, InsertedRows DEF Insert
  <2> QED
    BY <1>10, <2>1 DEF Insert, Returns
<1>11. CASE Delete(c)
  <2>1. \A p \in Policies : \A k \in Deleted(p) :
          SubSeq(rows, k + 1, Len(rows)) \in Seq(Entries)
    BY DeletedRows, DropFirst
  <2>2. policy[c] \in Policies
    BY <1>11 DEF Delete, CallInv
  <2>3. rows' \in Seq(Entries)
    BY <1>11, <2>1, <2>2 DEF Delete
  <2> QED
    BY <1>11, <2>3 DEF Delete, Ensure, Returns
<1>12. CASE Reload(c)
  BY <1>12, ToSetType DEF Reload, Load, Returns
<1>13. CASE Closed(c)
  BY <1>13 DEF Closed, Returns
<1> QED
  BY <1>1, <1>2, <1>3, <1>4, <1>5, <1>6, <1>7, <1>8, <1>9, <1>10, <1>11, <1>12,
     <1>13 DEF CallStep

LEMMA CallKeepsCallInv ==
  ASSUME NEW c \in Calls, TypeOK, CallInv, CallStep(c)
  PROVE  CallInv'
<1> USE DEF TypeOK, CallInv, handleVars, historyVars
<1>1. CASE CallEnsure(c)
  BY <1>1 DEF CallEnsure, Ensure
<1>2. CASE CallWrite(c)
  <2>1. NextEntry # NoEntry
    BY DEF NextEntry, NoEntry
  <2> QED
    BY <1>2, <2>1 DEF CallWrite
<1>3. CASE CallCleanup(c)
  BY <1>3, NoPolicyIsNone DEF CallCleanup, Ensure
<1>4. CASE CallClose(c)
  BY <1>4 DEF CallClose
<1>5. CASE Pushed(c)
  BY <1>5 DEF Pushed, Ensure, Returns
<1>6. CASE Connected(c)
  BY <1>6 DEF Connected
<1>7. CASE Refused(c)
  BY <1>7 DEF Refused
<1>8. CASE Loaded(c)
  BY <1>8 DEF Loaded
<1>9. CASE Ensured(c)
  BY <1>9 DEF Ensured, Returns
<1>10. CASE Insert(c)
  BY <1>10 DEF Insert, Returns
<1>11. CASE Delete(c)
  BY <1>11 DEF Delete, Ensure, Returns
<1>12. CASE Reload(c)
  BY <1>12 DEF Reload, Returns
<1>13. CASE Closed(c)
  BY <1>13 DEF Closed, Returns
<1> QED
  BY <1>1, <1>2, <1>3, <1>4, <1>5, <1>6, <1>7, <1>8, <1>9, <1>10, <1>11, <1>12,
     <1>13 DEF CallStep

(* Who lets an entry out of memory's witnesses gives it another one: the   *)
(* INSERT a row or a refusal, a cleanup the reload that follows, and while *)
(* there is none the store is in memory only.                              *)
LEMMA CallKeepsMemory ==
  ASSUME NEW c \in Calls, IInv, CallStep(c)
  PROVE  MemoryIsBacked'
<1> USE DEF IInv, TypeOK, CallInv, MemoryIsBacked, handleVars, historyVars
<1>1. CASE CallEnsure(c)
  BY <1>1 DEF CallEnsure, Ensure
<1>2. CASE CallWrite(c)
  BY <1>2, NoEntryIsNone DEF CallWrite
<1>3. CASE CallCleanup(c)
  BY <1>3 DEF CallCleanup
<1>4. CASE CallClose(c)
  BY <1>4 DEF CallClose
<1>5. CASE Pushed(c)
  BY <1>5 DEF Pushed, Ensure
<1>6. CASE Connected(c)
  BY <1>6 DEF Connected
<1>7. CASE Refused(c)
  BY <1>7 DEF Refused
<1>8. CASE Loaded(c)
  BY <1>8 DEF Loaded, Load
<1>9. CASE Ensured(c)
  BY <1>9 DEF Ensured, Returns
<1>10. CASE Insert(c)
  <2>1. ToSet(rows') \cup unsaved' = ToSet(rows) \cup unsaved \cup {entry[c]}
    BY <1>10, InsertedRows
  <2> QED
    BY <1>10, <2>1 DEF Insert, Returns
<1>11. CASE Delete(c)
  BY <1>11 DEF Delete, Ensure, Returns
<1>12. CASE Reload(c)
  BY <1>12 DEF Reload, Load, Returns
<1>13. CASE Closed(c)
  BY <1>13 DEF Closed, Returns
<1> QED
  BY <1>1, <1>2, <1>3, <1>4, <1>5, <1>6, <1>7, <1>8, <1>9, <1>10, <1>11, <1>12,
     <1>13 DEF CallStep

LEMMA CrashKeeps == IInv /\ Crash => IInv'
<1> SUFFICES ASSUME IInv, Crash PROVE IInv'
  OBVIOUS
<1>1. crashes' \in 0..MaxCrashes
  BY BoundsAssumption DEF IInv, TypeOK, Crash
<1>2. TypeOK'
  BY <1>1 DEF IInv, TypeOK, Crash, Awaits, Operations
<1>3. CallInv' /\ MemoryIsBacked'
  BY DEF Crash, CallInv, MemoryIsBacked
<1> QED
  BY <1>2, <1>3 DEF IInv

LEMMA NextKeeps == IInv /\ [Next]_vars => IInv'
<1> SUFFICES ASSUME IInv, [Next]_vars PROVE IInv'
  OBVIOUS
<1>1. ASSUME NEW c \in Calls, CallStep(c) PROVE IInv'
  BY <1>1, CallTypes, CallKeepsCallInv, CallKeepsMemory DEF IInv
<1>2. CASE Crash
  BY <1>2, CrashKeeps
<1>3. CASE UNCHANGED vars
  BY <1>3 DEF IInv, TypeOK, CallInv, MemoryIsBacked, vars, handleVars, callVars,
              historyVars
<1> QED
  BY <1>1, <1>2, <1>3 DEF Next, CallStep

LEMMA Inductive == Spec => []IInv
  BY InitHolds, NextKeeps, PTL DEF Spec

-----------------------------------------------------------------------------

(* The variables keep their types.                                         *)
THEOREM TypeCorrect == Spec => []TypeOK
<1>1. IInv => TypeOK
  BY DEF IInv
<1> QED
  BY <1>1, Inductive, PTL

(* While the store is persistent, what memory shows is in the table, on    *)
(* its way there, or refused by it, or a cleanup is about to reload: with  *)
(* any number of overlapping writes, cleanups, reconnections and crashes.  *)
THEOREM MemoryBacked == Spec => []MemoryIsBacked
<1>1. IInv => MemoryIsBacked
  BY DEF IInv
<1> QED
  BY <1>1, Inductive, PTL

(* A row goes away with a cleanup only, oldest first, and one that keeps   *)
(* the newest n leaves that many.                                          *)
THEOREM RowsKept == Spec => RowsGoByPolicy
<1> DEFINE A == \A e \in ToSet(rows) \ ToSet(rows') :
                  \E c \in Calls :
                    /\ policy[c] # NoPolicy /\ policy'[c] = NoPolicy
                    /\ IsSuffix(rows', rows)
                    /\ policy[c].kind = "keepLast" =>
                         Len(rows') >= policy[c].keep
<1>1. IInv /\ [Next]_vars => [A]_vars
  <2> SUFFICES ASSUME IInv, Next PROVE A
    BY DEF vars
  <2> USE DEF IInv, handleVars, historyVars
  <2>1. CASE rows' = rows
    BY <2>1
  <2>2. ASSUME NEW c \in Calls, Insert(c) PROVE A
    BY <2>2, InsertedRows
  <2>3. ASSUME NEW c \in Calls, Delete(c), rows' # rows PROVE A
    <3>1. /\ policy[c] # NoPolicy /\ policy[c] \in Policies
          /\ policy'[c] = NoPolicy
      BY <2>3 DEF Delete, CallInv, TypeOK, Returns
    <3>2. PICK k \in Deleted(policy[c]) :
            ~NothingToDelete(policy[c]) /\ rows' = SubSeq(rows, k + 1, Len(rows))
      BY <2>3 DEF Delete
    <3>3. /\ k \in 0..Len(rows)
          /\ policy[c].kind = "keepLast" => Len(rows) - k = policy[c].keep
      BY <3>1, <3>2, DeletedRows
    <3>4. IsSuffix(rows', rows) /\ Len(rows') = Len(rows) - k
      BY <3>2, <3>3, DropFirst DEF TypeOK
    <3>5. policy[c].kind = "keepLast" => Len(rows') >= policy[c].keep
      BY <3>3, <3>4 DEF TypeOK
    <3> QED
      BY <3>1, <3>4, <3>5
  <2>4. rows' = rows \/ \E c \in Calls : Insert(c) \/ Delete(c)
    BY DEF Next, CallEnsure, CallWrite, CallCleanup, CallClose, Pushed,
           Connected, Refused, Loaded, Ensured, Reload, Closed, Crash
  <2> QED
    BY <2>1, <2>2, <2>3, <2>4
<1>2. [][A]_vars <=> RowsGoByPolicy
  BY DEF RowsGoByPolicy
<1> QED
  BY <1>1, Inductive, PTL DEF Spec, RowsGoByPolicy
=============================================================================
