--------------------------- MODULE FdbTypeProofs ----------------------------
(***************************************************************************)
(* Every operation of the learning table keeps its types, its pointers and  *)
(* its lock in order.  The lemmas are stated per operation, so that they    *)
(* serve both the table on its own and the table inside the engine.         *)
(***************************************************************************)
EXTENDS Fdb, TLAPS

FdbInv == FdbTypeOK /\ PointerOK /\ LockOK

\* What the assumptions say of ports, cells and times.
LEMMA PortFacts ==
  /\ Ports \subseteq Int /\ Slots \subseteq Int /\ Time \subseteq Int
  /\ 0 \in Ports /\ 0 \in Time
  /\ Nil \notin Slots /\ Nil \notin Ports /\ Nil \notin macKey
  BY ConfigAssumption, FdbAssumption DEF Ports, Slots

\* The records of idle goroutines are well-typed.
LEMMA IdleFacts == IdleThread \in Thread /\ IdleCollector \in Collector
  BY PortFacts DEF IdleThread, Thread, IdleCollector, Collector

\* The table newFDB makes, with idle goroutines, is in order.
LEMMA FdbInvInit == ASSUME FdbInit PROVE FdbInv
<1>1. FdbTypeOK
  BY PortFacts, IdleFacts, FdbAssumption DEF FdbInit, newFDB, FdbTypeOK, entry
<1>2. PointerOK
  BY PortFacts DEF FdbInit, IdleThread, PointerOK, Pointing
<1>3. LockOK
  BY DEF FdbInit, newFDB, IdleThread, IdleCollector, LockOK, Locking
<1> QED
  BY <1>1, <1>2, <1>3 DEF FdbInv
-----------------------------------------------------------------------------
\* The key of a call is a key of the table; a pointer it holds is a cell.
LEMMA CallInProgress ==
  ASSUME FdbInv, NEW p \in Ports
  PROVE  /\ th[p] \in Thread
         /\ th[p].pc # "idle" => th[p].key \in macKey
         /\ th[p].pc \in Pointing => th[p].ent \in Slots
         /\ th[p].key \in macKey => table[th[p].key] \in Slots \cup {Nil}
  BY DEF FdbInv, FdbTypeOK, PointerOK, Thread

\* Moving an entry keeps the heap well-typed.
LEMMA HeapMoved ==
  ASSUME heap \in [macKey -> [Slots -> entry]],
         NEW k \in macKey, NEW s \in Slots, NEW p \in Ports
  PROVE  [heap EXCEPT ![k][s].portIdx = p] \in [macKey -> [Slots -> entry]]
<1> DEFINE e == [heap[k][s] EXCEPT !.portIdx = p]
<1>1. e \in entry
  BY DEF entry
<1>2. [heap EXCEPT ![k][s].portIdx = p] = [heap EXCEPT ![k] = [heap[k] EXCEPT ![s] = e]]
  OBVIOUS
<1> HIDE DEF e
<1> QED
  BY <1>1, <1>2

\* Refreshing an entry keeps the heap well-typed.
LEMMA HeapTouched ==
  ASSUME heap \in [macKey -> [Slots -> entry]],
         NEW k \in macKey, NEW s \in Slots, NEW t \in Time
  PROVE  [heap EXCEPT ![k][s].seenAt = t] \in [macKey -> [Slots -> entry]]
<1> DEFINE e == [heap[k][s] EXCEPT !.seenAt = t]
<1>1. e \in entry
  BY DEF entry
<1>2. [heap EXCEPT ![k][s].seenAt = t] = [heap EXCEPT ![k] = [heap[k] EXCEPT ![s] = e]]
  OBVIOUS
<1> HIDE DEF e
<1> QED
  BY <1>1, <1>2

\* A step of a goroutine that neither takes, holds nor releases the lock.
LEMMA LockKeptHeap ==
  ASSUME LockOK, UNCHANGED <<mu, table, gc>>, NEW p \in Ports,
         \A q \in Ports \ {p} : th'[q] = th[q],
         th[p].pc \notin Locking, th'[p].pc \notin Locking,
         \A q \in Ports : th[q].pc = "learn_touch" =>
           heap'[th[q].key][table[th[q].key]].portIdx = heap[th[q].key][table[th[q].key]].portIdx
  PROVE  LockOK'
<1>1. \A q \in Ports : /\ th'[q].pc \in Locking <=> th[q].pc \in Locking
                       /\ th[q].pc \in Locking => th'[q] = th[q]
  OBVIOUS
<1>2. \A q \in Ports : th'[q].pc = "learn_touch" => th'[q] = th[q]
  BY <1>1 DEF Locking
<1> QED
  BY <1>1, <1>2 DEF LockOK

\* The same for a step that leaves the heap alone.
LEMMA LockKept ==
  ASSUME LockOK, UNCHANGED <<mu, table, heap, gc>>, NEW p \in Ports,
         \A q \in Ports \ {p} : th'[q] = th[q],
         th[p].pc \notin Locking, th'[p].pc \notin Locking
  PROVE  LockOK'
  BY LockKeptHeap

\* Learn is called.
LEMMA LearnCallEffect ==
  ASSUME FdbInv, NEW p \in Ports, NEW k \in macKey, NEW now \in Time, Learn(p, k, now)
  PROVE  /\ th[p].pc = "idle"
         /\ th' \in [Ports -> Thread] /\ \A q \in Ports \ {p} : th'[q] = th[q]
         /\ th'[p].pc = "learn_read" /\ th'[p].key = k /\ th'[p].now = now
         /\ th'[p].ent = Nil /\ th'[p].out = Nil
<1> DEFINE c == [IdleThread EXCEPT !.pc = "learn_read", !.key = k, !.now = now]
<1>1. /\ c \in Thread /\ c.pc = "learn_read" /\ c.key = k /\ c.now = now
      /\ c.ent = Nil /\ c.out = Nil
  BY PortFacts DEF IdleThread, Thread, LearnPCs, LookPCs
<1>2. th[p].pc = "idle" /\ th' = [th EXCEPT ![p] = c]
  BY DEF Learn
<1> HIDE DEF c
<1> QED
  BY <1>1, <1>2 DEF FdbInv, FdbTypeOK

LEMMA LearnCallInv ==
  ASSUME FdbInv, NEW p \in Ports, NEW k \in macKey, NEW now \in Time, Learn(p, k, now)
  PROVE  FdbInv'
<1>1. /\ th[p].pc = "idle"
      /\ th' \in [Ports -> Thread] /\ \A q \in Ports \ {p} : th'[q] = th[q]
      /\ th'[p].pc = "learn_read" /\ th'[p].key = k /\ th'[p].ent = Nil /\ th'[p].out = Nil
  BY LearnCallEffect
<1>2. FdbTypeOK'
  BY <1>1 DEF Learn, FdbInv, FdbTypeOK
<1>3. PointerOK'
  BY <1>1, PortFacts DEF FdbInv, PointerOK, Pointing
<1>4. LockOK'
  BY <1>1, LockKept DEF Learn, FdbInv, Locking
<1> QED
  BY <1>2, <1>3, <1>4 DEF FdbInv

\* Lookup is called.
LEMMA LookupCallEffect ==
  ASSUME FdbInv, NEW p \in Ports, NEW k \in macKey, NEW now \in Time, Lookup(p, k, now)
  PROVE  /\ th[p].pc = "idle"
         /\ th' \in [Ports -> Thread] /\ \A q \in Ports \ {p} : th'[q] = th[q]
         /\ th'[p].pc = "look_read" /\ th'[p].key = k /\ th'[p].now = now
         /\ th'[p].ent = Nil /\ th'[p].out = Nil
<1> DEFINE c == [IdleThread EXCEPT !.pc = "look_read", !.key = k, !.now = now]
<1>1. /\ c \in Thread /\ c.pc = "look_read" /\ c.key = k /\ c.now = now
      /\ c.ent = Nil /\ c.out = Nil
  BY PortFacts DEF IdleThread, Thread, LearnPCs, LookPCs
<1>2. th[p].pc = "idle" /\ th' = [th EXCEPT ![p] = c]
  BY DEF Lookup
<1> HIDE DEF c
<1> QED
  BY <1>1, <1>2 DEF FdbInv, FdbTypeOK

LEMMA LookupCallInv ==
  ASSUME FdbInv, NEW p \in Ports, NEW k \in macKey, NEW now \in Time, Lookup(p, k, now)
  PROVE  FdbInv'
<1>1. /\ th[p].pc = "idle"
      /\ th' \in [Ports -> Thread] /\ \A q \in Ports \ {p} : th'[q] = th[q]
      /\ th'[p].pc = "look_read" /\ th'[p].key = k /\ th'[p].ent = Nil /\ th'[p].out = Nil
  BY LookupCallEffect
<1>2. FdbTypeOK'
  BY <1>1 DEF Lookup, FdbInv, FdbTypeOK
<1>3. PointerOK'
  BY <1>1, PortFacts DEF FdbInv, PointerOK, Pointing
<1>4. LockOK'
  BY <1>1, LockKept DEF Lookup, FdbInv, Locking
<1> QED
  BY <1>2, <1>3, <1>4 DEF FdbInv

\* A call returns to its caller.
LEMMA ReturnInv ==
  ASSUME FdbInv, NEW p \in Ports, Return(p)
  PROVE  FdbInv'
<1>1. th' \in [Ports -> Thread] /\ th'[p] = IdleThread /\ \A q \in Ports \ {p} : th'[q] = th[q]
  BY IdleFacts DEF Return, FdbInv, FdbTypeOK
<1>2. FdbTypeOK'
  BY <1>1 DEF Return, FdbInv, FdbTypeOK
<1>3. PointerOK'
  BY <1>1, PortFacts DEF FdbInv, PointerOK, Pointing, IdleThread
<1>4. LockOK'
  BY <1>1, LockKept DEF Return, ReturnPCs, FdbInv, Locking, IdleThread
<1> QED
  BY <1>2, <1>3, <1>4 DEF FdbInv

-----------------------------------------------------------------------------
(* What each step of a call does: the goroutine goes on at pc, with pointer  *)
(* ent, result out and loaded duration age; no other goroutine moves.        *)

Becomes(p, pc, ent, out, age) ==
  /\ th' \in [Ports -> Thread]
  /\ \A q \in Ports \ {p} : th'[q] = th[q]
  /\ th'[p].key = th[p].key /\ th'[p].now = th[p].now
  /\ th'[p].pc = pc /\ th'[p].ent = ent /\ th'[p].out = out /\ th'[p].age = age

\* Pointers and results stay in order if the new ones fit the new state.
LEMMA PointerKept ==
  ASSUME PointerOK, NEW p \in Ports, th[p].key # Nil,
         NEW pc, NEW ent, NEW out, NEW age, Becomes(p, pc, ent, out, age),
         pc # "idle", ent # Nil <=> pc \in Pointing, out # Nil <=> pc = "hit"
  PROVE  PointerOK'
<1> SUFFICES ASSUME NEW q \in Ports
             PROVE  /\ th'[q].key = Nil <=> th'[q].pc = "idle"
                    /\ th'[q].ent # Nil <=> th'[q].pc \in Pointing
                    /\ th'[q].out # Nil <=> th'[q].pc = "hit"
  BY DEF PointerOK
<1>1. CASE q = p
  BY <1>1 DEF Becomes
<1>2. CASE q # p
  BY <1>2 DEF Becomes, PointerOK
<1> QED
  BY <1>1, <1>2

LEMMA LearnReadEffect ==
  ASSUME FdbInv, NEW p \in Ports, LearnRead(p)
  PROVE  /\ th[p].pc = "learn_read" /\ th[p].key \in macKey
         /\ Becomes(p, (IF table[th[p].key] # Nil THEN "learn_check" ELSE "learn_lock"),
                    table[th[p].key], Nil, th[p].age)
<1>1. /\ th[p].pc = "learn_read" /\ th[p].key \in macKey
      /\ th \in [Ports -> Thread] /\ th[p] \in Thread
      /\ th[p].out = Nil /\ th[p].ent = Nil
  BY PortFacts, CallInProgress DEF LearnRead, Pointing, FdbInv, FdbTypeOK, PointerOK
<1>2. table[th[p].key] \in Slots \cup {Nil}
  BY <1>1 DEF FdbInv, FdbTypeOK
<1> QED
  BY <1>1, <1>2, PortFacts DEF LearnRead, Becomes, Thread, LearnPCs, LookPCs, ReturnPCs

LEMMA LearnCheckEffect ==
  ASSUME FdbInv, NEW p \in Ports, LearnCheck(p)
  PROVE  /\ th[p].pc = "learn_check" /\ th[p].key \in macKey /\ th[p].ent \in Slots
         /\ Becomes(p, (IF heap[th[p].key][th[p].ent].portIdx = p THEN "learn_store" ELSE "learn_lock"),
                    (IF heap[th[p].key][th[p].ent].portIdx = p THEN th[p].ent ELSE Nil), Nil, th[p].age)
<1>1. /\ th[p].pc = "learn_check" /\ th[p].key \in macKey /\ th[p].ent \in Slots
      /\ th \in [Ports -> Thread] /\ th[p] \in Thread
      /\ th[p].out = Nil
  BY PortFacts, CallInProgress DEF LearnCheck, Pointing, FdbInv, FdbTypeOK, PointerOK
<1> QED
  BY <1>1, PortFacts DEF LearnCheck, Becomes, Thread, LearnPCs, LookPCs, ReturnPCs

LEMMA LearnRefreshEffect ==
  ASSUME FdbInv, NEW p \in Ports, LearnRefresh(p)
  PROVE  /\ th[p].pc = "learn_store" /\ th[p].key \in macKey /\ th[p].ent \in Slots
         /\ Becomes(p, "learned",
                    Nil, Nil, th[p].age)
<1>1. /\ th[p].pc = "learn_store" /\ th[p].key \in macKey /\ th[p].ent \in Slots
      /\ th \in [Ports -> Thread] /\ th[p] \in Thread
      /\ th[p].out = Nil
  BY PortFacts, CallInProgress DEF LearnRefresh, Pointing, FdbInv, FdbTypeOK, PointerOK
<1> QED
  BY <1>1, PortFacts DEF LearnRefresh, Becomes, Thread, LearnPCs, LookPCs, ReturnPCs

LEMMA LearnLockEffect ==
  ASSUME FdbInv, NEW p \in Ports, LearnLock(p)
  PROVE  /\ th[p].pc = "learn_lock" /\ th[p].key \in macKey
         /\ Becomes(p, "learn_locked",
                    Nil, Nil, th[p].age)
<1>1. /\ th[p].pc = "learn_lock" /\ th[p].key \in macKey
      /\ th \in [Ports -> Thread] /\ th[p] \in Thread
      /\ th[p].out = Nil /\ th[p].ent = Nil
  BY PortFacts, CallInProgress DEF LearnLock, Pointing, FdbInv, FdbTypeOK, PointerOK
<1> QED
  BY <1>1, PortFacts DEF LearnLock, Becomes, Thread, LearnPCs, LookPCs, ReturnPCs

LEMMA LearnMoveEffect ==
  ASSUME FdbInv, NEW p \in Ports, LearnMove(p)
  PROVE  /\ th[p].pc = "learn_locked" /\ th[p].key \in macKey
         /\ Becomes(p, "learn_touch",
                    Nil, Nil, th[p].age)
<1>1. /\ th[p].pc = "learn_locked" /\ th[p].key \in macKey
      /\ th \in [Ports -> Thread] /\ th[p] \in Thread
      /\ th[p].out = Nil /\ th[p].ent = Nil
  BY PortFacts, CallInProgress DEF LearnMove, Pointing, FdbInv, FdbTypeOK, PointerOK
<1> QED
  BY <1>1, PortFacts DEF LearnMove, Becomes, Thread, LearnPCs, LookPCs, ReturnPCs

LEMMA LearnTouchEffect ==
  ASSUME FdbInv, NEW p \in Ports, LearnTouch(p)
  PROVE  /\ th[p].pc = "learn_touch" /\ th[p].key \in macKey
         /\ Becomes(p, "learned",
                    Nil, Nil, th[p].age)
<1>1. /\ th[p].pc = "learn_touch" /\ th[p].key \in macKey
      /\ th \in [Ports -> Thread] /\ th[p] \in Thread
      /\ th[p].out = Nil /\ th[p].ent = Nil
  BY PortFacts, CallInProgress DEF LearnTouch, Pointing, FdbInv, FdbTypeOK, PointerOK
<1> QED
  BY <1>1, PortFacts DEF LearnTouch, Becomes, Thread, LearnPCs, LookPCs, ReturnPCs

LEMMA LearnInsertEffect ==
  ASSUME FdbInv, NEW p \in Ports, LearnInsert(p)
  PROVE  /\ th[p].pc = "learn_locked" /\ th[p].key \in macKey
         /\ Becomes(p, "learned",
                    Nil, Nil, th[p].age)
<1>1. /\ th[p].pc = "learn_locked" /\ th[p].key \in macKey
      /\ th \in [Ports -> Thread] /\ th[p] \in Thread
      /\ th[p].out = Nil /\ th[p].ent = Nil
  BY PortFacts, CallInProgress DEF LearnInsert, Pointing, FdbInv, FdbTypeOK, PointerOK
<1> QED
  BY <1>1, PortFacts DEF LearnInsert, Becomes, Thread, LearnPCs, LookPCs, ReturnPCs

LEMMA LookReadEffect ==
  ASSUME FdbInv, NEW p \in Ports, LookRead(p)
  PROVE  /\ th[p].pc = "look_read" /\ th[p].key \in macKey
         /\ Becomes(p, (IF table[th[p].key] # Nil THEN "look_age" ELSE "miss"),
                    table[th[p].key], Nil, th[p].age)
<1>1. /\ th[p].pc = "look_read" /\ th[p].key \in macKey
      /\ th \in [Ports -> Thread] /\ th[p] \in Thread
      /\ th[p].out = Nil /\ th[p].ent = Nil
  BY PortFacts, CallInProgress DEF LookRead, Pointing, FdbInv, FdbTypeOK, PointerOK
<1>2. table[th[p].key] \in Slots \cup {Nil}
  BY <1>1 DEF FdbInv, FdbTypeOK
<1> QED
  BY <1>1, <1>2, PortFacts DEF LookRead, Becomes, Thread, LearnPCs, LookPCs, ReturnPCs

LEMMA LookAgeEffect ==
  ASSUME FdbInv, NEW p \in Ports, LookAge(p)
  PROVE  /\ th[p].pc = "look_age" /\ th[p].key \in macKey /\ th[p].ent \in Slots
         /\ Becomes(p, (IF ageing > 0 THEN "look_seen" ELSE "look_port"),
                    th[p].ent, Nil, ageing)
<1>1. /\ th[p].pc = "look_age" /\ th[p].key \in macKey /\ th[p].ent \in Slots
      /\ th \in [Ports -> Thread] /\ th[p] \in Thread
      /\ th[p].out = Nil
  BY PortFacts, CallInProgress DEF LookAge, Pointing, FdbInv, FdbTypeOK, PointerOK
<1>2. ageing \in Int
  BY DEF FdbInv, FdbTypeOK
<1> QED
  BY <1>1, <1>2, PortFacts DEF LookAge, Becomes, Thread, LearnPCs, LookPCs, ReturnPCs

LEMMA LookSeenEffect ==
  ASSUME FdbInv, NEW p \in Ports, LookSeen(p)
  PROVE  /\ th[p].pc = "look_seen" /\ th[p].key \in macKey /\ th[p].ent \in Slots
         /\ Becomes(p, (IF th[p].now - heap[th[p].key][th[p].ent].seenAt > th[p].age THEN "miss" ELSE "look_port"),
                    (IF th[p].now - heap[th[p].key][th[p].ent].seenAt > th[p].age THEN Nil ELSE th[p].ent), Nil, th[p].age)
<1>1. /\ th[p].pc = "look_seen" /\ th[p].key \in macKey /\ th[p].ent \in Slots
      /\ th \in [Ports -> Thread] /\ th[p] \in Thread
      /\ th[p].out = Nil
  BY PortFacts, CallInProgress DEF LookSeen, Pointing, FdbInv, FdbTypeOK, PointerOK
<1> QED
  BY <1>1, PortFacts DEF LookSeen, Becomes, Thread, LearnPCs, LookPCs, ReturnPCs

LEMMA LookPortEffect ==
  ASSUME FdbInv, NEW p \in Ports, LookPort(p)
  PROVE  /\ th[p].pc = "look_port" /\ th[p].key \in macKey /\ th[p].ent \in Slots
         /\ Becomes(p, "hit",
                    Nil, heap[th[p].key][th[p].ent].portIdx, th[p].age)
<1>1. /\ th[p].pc = "look_port" /\ th[p].key \in macKey /\ th[p].ent \in Slots
      /\ th \in [Ports -> Thread] /\ th[p] \in Thread
      /\ th[p].out = Nil
  BY PortFacts, CallInProgress DEF LookPort, Pointing, FdbInv, FdbTypeOK, PointerOK
<1>2. heap[th[p].key][th[p].ent].portIdx \in Ports
  BY <1>1 DEF FdbInv, FdbTypeOK, entry
<1> QED
  BY <1>1, <1>2, PortFacts DEF LookPort, Becomes, Thread, LearnPCs, LookPCs, ReturnPCs

(* What the steps that write to the heap do to it. *)

LEMMA LearnRefreshHeap ==
  ASSUME FdbInv, NEW p \in Ports, LearnRefresh(p), NEW k \in macKey, NEW s \in Slots
  PROVE  /\ heap'[k][s].portIdx = heap[k][s].portIdx
         /\ heap'[k][s].seenAt = IF k = th[p].key /\ s = th[p].ent
                                   THEN th[p].now ELSE heap[k][s].seenAt
<1>1. th[p].key \in macKey /\ th[p].ent \in Slots
  BY LearnRefreshEffect
<1> QED
  BY <1>1 DEF LearnRefresh, FdbInv, FdbTypeOK, entry

LEMMA LearnMoveHeap ==
  ASSUME FdbInv, NEW p \in Ports, LearnMove(p), NEW k \in macKey, NEW s \in Slots
  PROVE  /\ heap'[k][s].seenAt = heap[k][s].seenAt
         /\ heap'[k][s].portIdx = IF k = th[p].key /\ s = table[k]
                                    THEN p ELSE heap[k][s].portIdx
<1>1. th[p].key \in macKey /\ table[th[p].key] \in Slots
  BY LearnMoveEffect DEF LearnMove, FdbInv, FdbTypeOK
<1> QED
  BY <1>1 DEF LearnMove, FdbInv, FdbTypeOK, entry

LEMMA LearnTouchHeap ==
  ASSUME FdbInv, NEW p \in Ports, LearnTouch(p), NEW k \in macKey, NEW s \in Slots
  PROVE  /\ heap'[k][s].portIdx = heap[k][s].portIdx
         /\ heap'[k][s].seenAt = IF k = th[p].key /\ s = table[k]
                                   THEN th[p].now ELSE heap[k][s].seenAt
<1>1. th[p].key \in macKey /\ table[th[p].key] \in Slots
  BY LearnTouchEffect DEF FdbInv, FdbTypeOK, LockOK
<1> QED
  BY <1>1 DEF LearnTouch, FdbInv, FdbTypeOK, entry

\* The cell an insert fills is one that no goroutine points to.
LEMMA LearnInsertHeap ==
  ASSUME FdbInv, NEW p \in Ports, LearnInsert(p)
  PROVE  \E c \in Slots :
           /\ table' = [table EXCEPT ![th[p].key] = c]
           /\ heap' = [heap EXCEPT ![th[p].key][c] = [portIdx |-> p, seenAt |-> th[p].now]]
           /\ \A q \in Ports : th[q].key = th[p].key => th[q].ent # c
  BY DEF LearnInsert, FreeSlots

(***************************************************************************)
(* A call under way takes a step.                                           *)
(***************************************************************************)
LEMMA CallStepInv ==
  ASSUME FdbInv, NEW p \in Ports, CallStep(p)
  PROVE  FdbInv'
<1>0. FdbTypeOK /\ PointerOK /\ LockOK /\ th[p] \in Thread
  BY DEF FdbInv, FdbTypeOK
<1>1. CASE LearnRead(p)
  <2>1. /\ th[p].pc = "learn_read" /\ th[p].key \in macKey
        /\ Becomes(p, (IF table[th[p].key] # Nil THEN "learn_check" ELSE "learn_lock"),
                   table[th[p].key], Nil, th[p].age)
    BY <1>1, LearnReadEffect
  <2>2. FdbTypeOK'
    BY <1>0, <1>1, <2>1 DEF Becomes, LearnRead, FdbTypeOK
  <2>3. PointerOK'
    BY <1>0, <1>1, <2>1, PortFacts, PointerKept DEF Pointing
  <2>4. th[p].pc \notin Locking /\ th'[p].pc \notin Locking
    BY <1>0, <1>1, <2>1 DEF Becomes, Locking
  <2>5. LockOK'
    BY <1>0, <1>1, <2>4, <2>1, LockKept DEF Becomes, LearnRead
  <2> QED
    BY <2>2, <2>3, <2>5 DEF FdbInv
<1>2. CASE LearnCheck(p)
  <2>1. /\ th[p].pc = "learn_check" /\ th[p].key \in macKey /\ th[p].ent \in Slots
        /\ Becomes(p, (IF heap[th[p].key][th[p].ent].portIdx = p THEN "learn_store" ELSE "learn_lock"),
                   (IF heap[th[p].key][th[p].ent].portIdx = p THEN th[p].ent ELSE Nil), Nil, th[p].age)
    BY <1>2, LearnCheckEffect
  <2>2. FdbTypeOK'
    BY <1>0, <1>2, <2>1 DEF Becomes, LearnCheck, FdbTypeOK
  <2>3. PointerOK'
    BY <1>0, <1>2, <2>1, PortFacts, PointerKept DEF Pointing
  <2>4. th[p].pc \notin Locking /\ th'[p].pc \notin Locking
    BY <1>0, <1>2, <2>1 DEF Becomes, Locking
  <2>5. LockOK'
    BY <1>0, <1>2, <2>4, <2>1, LockKept DEF Becomes, LearnCheck
  <2> QED
    BY <2>2, <2>3, <2>5 DEF FdbInv
<1>3. CASE LearnRefresh(p)
  <2>1. /\ th[p].pc = "learn_store" /\ th[p].key \in macKey /\ th[p].ent \in Slots
        /\ Becomes(p, "learned",
                   Nil, Nil, th[p].age)
    BY <1>3, LearnRefreshEffect
  <2>2. heap' \in [macKey -> [Slots -> entry]]
    BY <1>0, <1>3, <2>1, HeapTouched DEF LearnRefresh, FdbTypeOK, Thread
  <2>3. FdbTypeOK'
    BY <1>0, <1>3, <2>1, <2>2 DEF Becomes, LearnRefresh, FdbTypeOK
  <2>4. PointerOK'
    BY <1>0, <1>3, <2>1, PortFacts, PointerKept DEF Pointing
  <2>5. \A q \in Ports : th[q].pc = "learn_touch" =>
          heap'[th[q].key][table[th[q].key]].portIdx = heap[th[q].key][table[th[q].key]].portIdx
    <3>1. SUFFICES ASSUME NEW q \in Ports, th[q].pc = "learn_touch"
                   PROVE  heap'[th[q].key][table[th[q].key]].portIdx
                            = heap[th[q].key][table[th[q].key]].portIdx
      OBVIOUS
    <3>2. th[q].key \in macKey /\ table[th[q].key] \in Slots
      BY <1>0, <3>1, CallInProgress DEF LockOK
    <3> QED
      BY <1>3, <3>2, LearnRefreshHeap
  <2>6. LockOK'
    <3>1. /\ UNCHANGED <<mu, table, gc>> /\ \A q \in Ports \ {p} : th'[q] = th[q]
          /\ th[p].pc \notin Locking /\ th'[p].pc \notin Locking
      BY <1>3, <2>1 DEF Becomes, LearnRefresh, Locking
    <3> QED
      BY <1>0, <2>5, <3>1, LockKeptHeap
  <2> QED
    BY <2>3, <2>4, <2>6 DEF FdbInv
<1>4. CASE LearnLock(p)
  <2>1. /\ th[p].pc = "learn_lock" /\ th[p].key \in macKey
        /\ Becomes(p, "learn_locked",
                   Nil, Nil, th[p].age)
    BY <1>4, LearnLockEffect
  <2>2. FdbTypeOK'
    BY <1>0, <1>4, <2>1 DEF Becomes, LearnLock, FdbTypeOK
  <2>3. PointerOK'
    BY <1>0, <1>4, <2>1, PortFacts, PointerKept DEF Pointing
  <2>4. LockOK'
    BY <1>0, <1>4, <2>1 DEF Becomes, LearnLock, FdbTypeOK, LockOK, Locking
  <2> QED
    BY <2>2, <2>3, <2>4 DEF FdbInv
<1>5. CASE LearnMove(p)
  <2>1. /\ th[p].pc = "learn_locked" /\ th[p].key \in macKey
        /\ Becomes(p, "learn_touch",
                   Nil, Nil, th[p].age)
    BY <1>5, LearnMoveEffect
  <2>2. th[p].key \in macKey /\ table[th[p].key] \in Slots
    BY <1>0, <1>5, <2>1 DEF Becomes, LearnMove, FdbTypeOK
  <2>3. heap' \in [macKey -> [Slots -> entry]]
    BY <1>0, <1>5, <2>2, HeapMoved DEF Becomes, LearnMove, FdbTypeOK
  <2>4. FdbTypeOK'
    BY <1>0, <1>5, <2>3, <2>1 DEF Becomes, LearnMove, FdbTypeOK
  <2>5. PointerOK'
    BY <1>0, <1>5, <2>1, PortFacts, PointerKept DEF Pointing
  <2>6. heap'[th[p].key][table[th[p].key]].portIdx = p
    BY <1>5, <2>2, LearnMoveHeap
  <2>7. LockOK'
    <3>1. /\ UNCHANGED <<mu, table, gc>> /\ \A q \in Ports \ {p} : th'[q] = th[q]
          /\ th[p].pc \in Locking /\ th'[p].pc \in Locking /\ th'[p].key = th[p].key
      BY <1>5, <2>1 DEF Becomes, LearnMove, Locking
    <3>2. /\ \A q \in Ports : th'[q].pc \in Locking <=> th[q].pc \in Locking
          /\ \A q \in Ports : th'[q].pc \in Locking => q = p
      BY <1>0, <3>1 DEF LockOK
    <3>3. \A q \in Ports : th'[q].pc = "learn_touch" => q = p
      BY <3>2 DEF Locking
    <3>4. table[th[p].key] # Nil
      BY <2>2, PortFacts
    <3> QED
      BY <1>0, <2>6, <3>1, <3>2, <3>3, <3>4 DEF LockOK
  <2> QED
    BY <2>4, <2>5, <2>7 DEF FdbInv
<1>6. CASE LearnTouch(p)
  <2>1. /\ th[p].pc = "learn_touch" /\ th[p].key \in macKey
        /\ Becomes(p, "learned",
                   Nil, Nil, th[p].age)
    BY <1>6, LearnTouchEffect
  <2>2. th[p].key \in macKey /\ table[th[p].key] \in Slots
    BY <1>0, <1>6, <2>1 DEF Becomes, FdbTypeOK, LockOK
  <2>3. heap' \in [macKey -> [Slots -> entry]]
    BY <1>0, <1>6, <2>2, HeapTouched DEF LearnTouch, FdbTypeOK, Thread
  <2>4. FdbTypeOK'
    BY <1>0, <1>6, <2>1, <2>3 DEF Becomes, LearnTouch, FdbTypeOK
  <2>5. PointerOK'
    BY <1>0, <1>6, <2>1, PortFacts, PointerKept DEF Pointing
  <2>6. LockOK'
    BY <1>0, <1>6, <2>1 DEF Becomes, LearnTouch, LockOK, Locking
  <2> QED
    BY <2>4, <2>5, <2>6 DEF FdbInv
<1>7. CASE LearnInsert(p)
  <2>1. /\ th[p].pc = "learn_locked" /\ th[p].key \in macKey
        /\ Becomes(p, "learned",
                   Nil, Nil, th[p].age)
    BY <1>7, LearnInsertEffect
  <2>2. PICK c \in Slots : /\ table' = [table EXCEPT ![th[p].key] = c]
                           /\ heap' = [heap EXCEPT ![th[p].key][c] =
                                        [portIdx |-> p, seenAt |-> th[p].now]]
    BY <1>7, LearnInsertHeap
  <2>3. FdbTypeOK'
    BY <1>0, <1>7, <2>2, <2>1 DEF Becomes, LearnInsert, FdbTypeOK, Thread, entry
  <2>4. PointerOK'
    BY <1>0, <1>7, <2>1, PortFacts, PointerKept DEF Pointing
  <2>5. LockOK'
    BY <1>0, <1>7, <2>1 DEF Becomes, LearnInsert, LockOK, Locking
  <2> QED
    BY <2>3, <2>4, <2>5 DEF FdbInv
<1>8. CASE LookRead(p)
  <2>1. /\ th[p].pc = "look_read" /\ th[p].key \in macKey
        /\ Becomes(p, (IF table[th[p].key] # Nil THEN "look_age" ELSE "miss"),
                   table[th[p].key], Nil, th[p].age)
    BY <1>8, LookReadEffect
  <2>2. FdbTypeOK'
    BY <1>0, <1>8, <2>1 DEF Becomes, LookRead, FdbTypeOK
  <2>3. PointerOK'
    BY <1>0, <1>8, <2>1, PortFacts, PointerKept DEF Pointing
  <2>4. th[p].pc \notin Locking /\ th'[p].pc \notin Locking
    BY <1>0, <1>8, <2>1 DEF Becomes, Locking
  <2>5. LockOK'
    BY <1>0, <1>8, <2>4, <2>1, LockKept DEF Becomes, LookRead
  <2> QED
    BY <2>2, <2>3, <2>5 DEF FdbInv
<1>9. CASE LookAge(p)
  <2>1. /\ th[p].pc = "look_age" /\ th[p].key \in macKey /\ th[p].ent \in Slots
        /\ Becomes(p, (IF ageing > 0 THEN "look_seen" ELSE "look_port"),
                   th[p].ent, Nil, ageing)
    BY <1>9, LookAgeEffect
  <2>2. FdbTypeOK'
    BY <1>0, <1>9, <2>1 DEF Becomes, LookAge, FdbTypeOK
  <2>3. PointerOK'
    <3>1. /\ th'[p].pc \in {"look_seen", "look_port"}
          /\ th'[p].ent # Nil /\ th'[p].out = Nil /\ th'[p].key # Nil
      BY <2>1, PortFacts DEF Becomes
    <3>2. \A q \in Ports \ {p} : th'[q] = th[q]
      BY <2>1 DEF Becomes
    <3> QED
      BY <1>0, <3>1, <3>2 DEF PointerOK, Pointing
  <2>4. th[p].pc \notin Locking /\ th'[p].pc \notin Locking
    BY <1>0, <1>9, <2>1 DEF Becomes, Locking
  <2>5. LockOK'
    BY <1>0, <1>9, <2>4, <2>1, LockKept DEF Becomes, LookAge
  <2> QED
    BY <2>2, <2>3, <2>5 DEF FdbInv
<1>10. CASE LookSeen(p)
  <2>1. /\ th[p].pc = "look_seen" /\ th[p].key \in macKey /\ th[p].ent \in Slots
        /\ Becomes(p, (IF th[p].now - heap[th[p].key][th[p].ent].seenAt > th[p].age THEN "miss" ELSE "look_port"),
                   (IF th[p].now - heap[th[p].key][th[p].ent].seenAt > th[p].age THEN Nil ELSE th[p].ent), Nil, th[p].age)
    BY <1>10, LookSeenEffect
  <2>2. FdbTypeOK'
    BY <1>0, <1>10, <2>1 DEF Becomes, LookSeen, FdbTypeOK
  <2>3. PointerOK'
    BY <1>0, <1>10, <2>1, PortFacts, PointerKept DEF Pointing
  <2>4. th[p].pc \notin Locking /\ th'[p].pc \notin Locking
    BY <1>0, <1>10, <2>1 DEF Becomes, Locking
  <2>5. LockOK'
    BY <1>0, <1>10, <2>4, <2>1, LockKept DEF Becomes, LookSeen
  <2> QED
    BY <2>2, <2>3, <2>5 DEF FdbInv
<1>11. CASE LookPort(p)
  <2>1. /\ th[p].pc = "look_port" /\ th[p].key \in macKey /\ th[p].ent \in Slots
        /\ Becomes(p, "hit",
                   Nil, heap[th[p].key][th[p].ent].portIdx, th[p].age)
    BY <1>11, LookPortEffect
  <2>2. FdbTypeOK'
    BY <1>0, <1>11, <2>1 DEF Becomes, LookPort, FdbTypeOK
  <2>3. heap[th[p].key][th[p].ent].portIdx \in Ports
    BY <1>0, <2>1 DEF FdbTypeOK, entry
  <2>4. PointerOK'
    <3>1. th'[p].pc = "hit" /\ th'[p].ent = Nil /\ th'[p].out # Nil /\ th'[p].key # Nil
      BY <2>1, <2>3, PortFacts DEF Becomes
    <3>2. \A q \in Ports \ {p} : th'[q] = th[q]
      BY <2>1 DEF Becomes
    <3> QED
      BY <1>0, <3>1, <3>2 DEF PointerOK, Pointing
  <2>5. th[p].pc \notin Locking /\ th'[p].pc \notin Locking
    BY <1>0, <1>11, <2>1 DEF Becomes, Locking
  <2>6. LockOK'
    BY <1>0, <1>11, <2>5, <2>1, LockKept DEF Becomes, LookPort
  <2> QED
    BY <2>2, <2>4, <2>6 DEF FdbInv
<1> QED
  BY <1>1, <1>2, <1>3, <1>4, <1>5, <1>6, <1>7, <1>8, <1>9, <1>10, <1>11 DEF CallStep
-----------------------------------------------------------------------------
\* gcLoop's ticker fires.
LEMMA GcTickInv ==
  ASSUME FdbInv, GcTick
  PROVE  FdbInv'
<1> USE PortFacts DEF FdbInv
<1>1. FdbTypeOK'
  BY DEF GcTick, FdbTypeOK, Collector
<1>2. PointerOK'
  BY DEF GcTick, FdbTypeOK, PointerOK
<1>3. LockOK'
  BY DEF GcTick, FdbTypeOK, PointerOK, LockOK, Collector
<1> QED
  BY <1>1, <1>2, <1>3

\* reap loads the ageing duration.
LEMMA ReapLoadInv ==
  ASSUME FdbInv, ReapLoad
  PROVE  FdbInv'
<1> USE PortFacts DEF FdbInv
<1>1. FdbTypeOK'
  BY IdleFacts DEF ReapLoad, FdbTypeOK, Collector
<1>2. PointerOK'
  BY IdleFacts DEF ReapLoad, FdbTypeOK, PointerOK
<1>3. LockOK'
  BY IdleFacts DEF ReapLoad, FdbTypeOK, PointerOK, LockOK, Collector, IdleCollector
<1> QED
  BY <1>1, <1>2, <1>3

\* reap takes the lock.
LEMMA ReapLockInv ==
  ASSUME FdbInv, ReapLock
  PROVE  FdbInv'
<1> USE PortFacts DEF FdbInv
<1>1. FdbTypeOK'
  BY DEF ReapLock, FdbTypeOK, Collector
<1>2. PointerOK'
  BY DEF ReapLock, FdbTypeOK, PointerOK
<1>3. LockOK'
  BY DEF ReapLock, FdbTypeOK, PointerOK, LockOK, Collector
<1> QED
  BY <1>1, <1>2, <1>3

\* reap visits an entry.
LEMMA ReapEntryInv ==
  ASSUME FdbInv, NEW k \in macKey, ReapEntry(k)
  PROVE  FdbInv'
<1>1. /\ gc.pc = "scan" /\ gc' = [gc EXCEPT !.todo = @ \ {k}]
      /\ table' \in {table, [table EXCEPT ![k] = Nil]}
      /\ UNCHANGED <<clock, ageing, mu, heap, th>>
  BY DEF ReapEntry
<1>2. gc' \in Collector /\ gc'.pc = "scan" /\ gc'.todo = gc.todo \ {k}
  BY <1>1 DEF FdbInv, FdbTypeOK, Collector
<1>3. \A j \in macKey \ {k} : table'[j] = table[j]
  BY <1>1 DEF FdbInv, FdbTypeOK
<1>4. FdbTypeOK'
  BY <1>1, <1>2 DEF FdbInv, FdbTypeOK
<1>5. PointerOK'
  BY <1>1 DEF FdbInv, PointerOK
<1>6. \A p \in Ports : th[p].pc \notin Locking
  BY <1>1 DEF FdbInv, LockOK
<1>7. gc'.todo \subseteq macKey \ {k}
  BY <1>2 DEF FdbInv, FdbTypeOK, Collector
<1>8. LockOK'
  BY <1>1, <1>2, <1>3, <1>6, <1>7 DEF FdbInv, LockOK, Locking
<1> QED
  BY <1>4, <1>5, <1>8 DEF FdbInv

\* reap is done.
LEMMA ReapUnlockInv ==
  ASSUME FdbInv, ReapUnlock
  PROVE  FdbInv'
<1> USE PortFacts DEF FdbInv
<1>1. FdbTypeOK'
  BY IdleFacts DEF ReapUnlock, FdbTypeOK, Collector
<1>2. PointerOK'
  BY IdleFacts DEF ReapUnlock, FdbTypeOK, PointerOK
<1>3. LockOK'
  BY IdleFacts DEF ReapUnlock, FdbTypeOK, PointerOK, LockOK, Collector, IdleCollector
<1> QED
  BY <1>1, <1>2, <1>3

\* gcLoop or reap takes a step.
LEMMA GcStepInv ==
  ASSUME FdbInv, GcTick \/ ReapStep
  PROVE  FdbInv'
  BY GcTickInv, ReapLoadInv, ReapLockInv, ReapEntryInv, ReapUnlockInv DEF ReapStep

\* The clock moves, forward or back.
LEMMA TickInv ==
  ASSUME FdbInv, Tick
  PROVE  FdbInv'
<1> USE PortFacts DEF FdbInv
<1>1. FdbTypeOK'
  BY FdbAssumption DEF Tick, FdbTypeOK
<1>2. PointerOK'
  BY FdbAssumption DEF Tick, FdbTypeOK, PointerOK
<1>3. LockOK'
  BY FdbAssumption DEF Tick, FdbTypeOK, PointerOK, LockOK
<1> QED
  BY <1>1, <1>2, <1>3

\* The ageing duration is set.
LEMMA SetAgeingInv ==
  ASSUME FdbInv, NEW d \in Ageings, SetAgeing(d)
  PROVE  FdbInv'
<1> USE PortFacts DEF FdbInv
<1>1. FdbTypeOK'
  BY FdbAssumption DEF SetAgeing, FdbTypeOK
<1>2. PointerOK'
  BY FdbAssumption DEF SetAgeing, FdbTypeOK, PointerOK
<1>3. LockOK'
  BY FdbAssumption DEF SetAgeing, FdbTypeOK, PointerOK, LockOK
<1> QED
  BY <1>1, <1>2, <1>3

\* Nothing happens to the table.
LEMMA FdbStutterInv ==
  ASSUME FdbInv, UNCHANGED fdbVars
  PROVE  FdbInv'
  BY DEF FdbInv, fdbVars, FdbTypeOK, PointerOK, LockOK
-----------------------------------------------------------------------------
(* What the steps of a call do, whichever they are. *)

\* A call goes on within Learn or within Lookup, for the same key.
LEMMA CallGoesOn ==
  ASSUME FdbInv, NEW p \in Ports, CallStep(p)
  PROVE  /\ \A q \in Ports \ {p} : th'[q] = th[q]
         /\ th'[p].key = th[p].key /\ th[p].key \in macKey
         /\ \/ th[p].pc \in LearnPCs /\ th'[p].pc \in LearnPCs \cup {"learned"}
            \/ th[p].pc \in LookPCs /\ th'[p].pc \in LookPCs \cup {"hit", "miss"}
<1>1. CASE LearnRead(p)
  BY <1>1, LearnReadEffect DEF Becomes, LearnPCs
<1>2. CASE LearnCheck(p)
  BY <1>2, LearnCheckEffect DEF Becomes, LearnPCs
<1>3. CASE LearnRefresh(p)
  BY <1>3, LearnRefreshEffect DEF Becomes, LearnPCs
<1>4. CASE LearnLock(p)
  BY <1>4, LearnLockEffect DEF Becomes, LearnPCs
<1>5. CASE LearnMove(p)
  BY <1>5, LearnMoveEffect DEF Becomes, LearnPCs
<1>6. CASE LearnTouch(p)
  BY <1>6, LearnTouchEffect DEF Becomes, LearnPCs
<1>7. CASE LearnInsert(p)
  BY <1>7, LearnInsertEffect DEF Becomes, LearnPCs
<1>8. CASE LookRead(p)
  BY <1>8, LookReadEffect DEF Becomes, LookPCs
<1>9. CASE LookAge(p)
  BY <1>9, LookAgeEffect DEF Becomes, LookPCs
<1>10. CASE LookSeen(p)
  BY <1>10, LookSeenEffect DEF Becomes, LookPCs
<1>11. CASE LookPort(p)
  BY <1>11, LookPortEffect DEF Becomes, LookPCs
<1> QED
  BY <1>1, <1>2, <1>3, <1>4, <1>5, <1>6, <1>7, <1>8, <1>9, <1>10, <1>11 DEF CallStep

\* A call got the pointer it holds from the map, and its answer from there.
LEMMA CallReads ==
  ASSUME FdbInv, NEW p \in Ports, CallStep(p)
  PROVE  /\ th'[p].pc \in Pointing =>
              /\ UNCHANGED <<table, heap>>
              /\ \/ th[p].pc \in Pointing /\ th'[p].ent = th[p].ent
                 \/ table[th[p].key] # Nil /\ th'[p].ent = table[th[p].key]
         /\ th'[p].pc = "hit" =>
              th[p].pc \in Pointing /\ th'[p].out = heap[th[p].key][th[p].ent].portIdx
<1>1. CASE LearnRead(p)
  <2>1. UNCHANGED <<table, heap>>
    BY <1>1 DEF LearnRead
  <2> QED
    BY <1>1, <2>1, LearnReadEffect DEF Becomes, Pointing
<1>2. CASE LearnCheck(p)
  <2>1. UNCHANGED <<table, heap>>
    BY <1>2 DEF LearnCheck
  <2> QED
    BY <1>2, <2>1, LearnCheckEffect DEF Becomes, Pointing
<1>3. CASE LearnRefresh(p)
  BY <1>3, LearnRefreshEffect DEF Becomes, Pointing
<1>4. CASE LearnLock(p)
  BY <1>4, LearnLockEffect DEF Becomes, Pointing
<1>5. CASE LearnMove(p)
  BY <1>5, LearnMoveEffect DEF Becomes, Pointing
<1>6. CASE LearnTouch(p)
  BY <1>6, LearnTouchEffect DEF Becomes, Pointing
<1>7. CASE LearnInsert(p)
  BY <1>7, LearnInsertEffect DEF Becomes, Pointing
<1>8. CASE LookRead(p)
  <2>1. UNCHANGED <<table, heap>>
    BY <1>8 DEF LookRead
  <2> QED
    BY <1>8, <2>1, LookReadEffect DEF Becomes, Pointing
<1>9. CASE LookAge(p)
  <2>1. UNCHANGED <<table, heap>>
    BY <1>9 DEF LookAge
  <2> QED
    BY <1>9, <2>1, LookAgeEffect DEF Becomes, Pointing
<1>10. CASE LookSeen(p)
  <2>1. UNCHANGED <<table, heap>>
    BY <1>10 DEF LookSeen
  <2> QED
    BY <1>10, <2>1, LookSeenEffect DEF Becomes, Pointing
<1>11. CASE LookPort(p)
  BY <1>11, LookPortEffect DEF Becomes, Pointing, LookPort
<1> QED
  BY <1>1, <1>2, <1>3, <1>4, <1>5, <1>6, <1>7, <1>8, <1>9, <1>10, <1>11 DEF CallStep

\* A step of a call changes the port of no entry but the one the map then
\* points to: what a goroutine holds of a deleted entry stays what it was.
LEMMA CallMovesMapped ==
  ASSUME FdbInv, NEW p \in Ports, CallStep(p), NEW k \in macKey, NEW s \in Slots
  PROVE  heap'[k][s].portIdx = heap[k][s].portIdx \/ table'[k] = s
<1>1. CASE LearnRead(p) \/ LearnCheck(p) \/ LearnLock(p)
           \/ LookRead(p) \/ LookAge(p) \/ LookSeen(p) \/ LookPort(p)
  BY <1>1 DEF LearnRead, LearnCheck, LearnLock, LookRead, LookAge, LookSeen, LookPort
<1>2. CASE LearnRefresh(p)
  BY <1>2, LearnRefreshHeap
<1>3. CASE LearnMove(p)
  <2>1. UNCHANGED table
    BY <1>3 DEF LearnMove
  <2>2. heap'[k][s].portIdx = IF k = th[p].key /\ s = table[k]
                                THEN p ELSE heap[k][s].portIdx
    BY <1>3, LearnMoveHeap
  <2> QED
    BY <2>1, <2>2
<1>4. CASE LearnTouch(p)
  BY <1>4, LearnTouchHeap
<1>5. CASE LearnInsert(p)
  <2>1. th[p].key \in macKey
    BY <1>5, LearnInsertEffect
  <2>2. PICK c \in Slots :
          /\ table' = [table EXCEPT ![th[p].key] = c]
          /\ heap' = [heap EXCEPT ![th[p].key][c] = [portIdx |-> p, seenAt |-> th[p].now]]
    BY <1>5, LearnInsertHeap
  <2>3. heap'[k][s] = IF k = th[p].key /\ s = c THEN [portIdx |-> p, seenAt |-> th[p].now]
                                               ELSE heap[k][s]
    BY <2>1, <2>2 DEF FdbInv, FdbTypeOK
  <2>4. k = th[p].key => table'[k] = c
    BY <2>1, <2>2 DEF FdbInv, FdbTypeOK
  <2> QED
    BY <2>3, <2>4
<1> QED
  BY <1>1, <1>2, <1>3, <1>4, <1>5 DEF CallStep
=============================================================================
