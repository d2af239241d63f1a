----------------------------- MODULE FdbProofs ------------------------------
(***************************************************************************)
(* Proofs about the learning table, for any number of ports, keys and       *)
(* clock values: types, MoveWins, NoStaleHit, NoSilentHit, HitWasCurrent.   *)
(***************************************************************************)
EXTENDS FdbHistory, FdbTypeProofs, TLAPS

(***************************************************************************)
(* The inductive invariant.  MoveWins alone is not inductive: what a        *)
(* goroutine does next depends on the pointer it holds, so the invariant    *)
(* also says what that pointer can still lead to.                           *)
(***************************************************************************)

\* A port that is being learned has not been left, for anyone.
LearnerCounts ==
  \A p \in Ports : th[p].pc \in LearnPCs =>
    /\ p \notin left[th[p].key]
    /\ \A q \in Ports : Calling(q, th[p].key) => p \notin earlier[q]

\* Learn found an entry.  If the map has dropped or replaced it since, what is
\* in the map now was put there by a Learn that overlaps this one; and once the
\* comparison succeeded the map points to no port that this Learn is to replace.
LearnPointer ==
  \A p \in Ports :
    LET k == th[p].key
        replaced == heap[k][table[k]].portIdx \in earlier[p]
    IN  /\ th[p].pc = "learn_check" /\ table[k] \notin {Nil, th[p].ent} => ~replaced
        /\ th[p].pc = "learn_store" /\ table[k] # Nil => ~replaced

\* Lookup's entry points to no port the station had left before the call.
LookPointer ==
  \A p \in Ports :
    /\ th[p].pc \in LookPCs => earlier[p] \subseteq left[th[p].key]
    /\ th[p].pc \in {"look_age", "look_seen", "look_port"} =>
         heap[th[p].key][th[p].ent].portIdx \notin earlier[p]

MoveInv == LearnerCounts /\ LearnPointer /\ LookPointer /\ MoveWins /\ NoStaleHit
-----------------------------------------------------------------------------
LEMMA TypeInit == ASSUME Init PROVE TypeOK
<1>1. FdbInv
  BY FdbInvInit DEF Init
<1> QED
  BY <1>1, PortFacts DEF Init, TypeOK, FdbInv

\* The types but for those of current, which are read off the others.
CallsOK ==
  /\ FdbTypeOK /\ PointerOK /\ LockOK
  /\ left \in [macKey -> SUBSET Ports]
  /\ earlier \in [Ports -> SUBSET Ports]
  /\ heard \in [macKey -> Time]

LEMMA CallsStep == ASSUME CallsOK, Step \/ UNCHANGED vars PROVE CallsOK'
<1>1. FdbInv /\ clock \in Time
  BY DEF CallsOK, FdbInv, FdbTypeOK
<1>2. ASSUME NEW p \in Ports, NEW k \in macKey, HLearn(p, k, clock) PROVE CallsOK'
  <2>1. FdbInv'
    BY <1>1, <1>2, LearnCallInv DEF HLearn
  <2>2. /\ left' \in [macKey -> SUBSET Ports]
        /\ earlier' \in [Ports -> SUBSET Ports]
        /\ heard' \in [macKey -> Time]
    BY <1>1, <1>2 DEF HLearn, CallsOK
  <2> QED
    BY <2>1, <2>2 DEF CallsOK, FdbInv
<1>3. ASSUME NEW p \in Ports, NEW k \in macKey, NEW t \in Time, HLookup(p, k, t)
      PROVE  CallsOK'
  <2>1. FdbInv'
    BY <1>1, <1>3, LookupCallInv DEF HLookup
  <2> QED
    BY <1>3, <2>1 DEF HLookup, CallsOK, FdbInv
<1>4. ASSUME NEW p \in Ports, HStep(p) PROVE CallsOK'
  <2>1. FdbInv'
    BY <1>1, <1>4, CallStepInv DEF HStep, CallStep
  <2> QED
    BY <1>4, <2>1 DEF HStep, histVars, CallsOK, FdbInv
<1>5. ASSUME NEW p \in Ports, HLearned(p) PROVE CallsOK'
  <2>1. FdbInv'
    BY <1>1, <1>5, CallStepInv DEF HLearned, CallStep
  <2> QED
    BY <1>5, <2>1 DEF HLearned, CallsOK, FdbInv
<1>6. ASSUME NEW p \in Ports, HReturn(p) PROVE CallsOK'
  <2>1. FdbInv'
    BY <1>1, <1>6, ReturnInv DEF HReturn
  <2> QED
    BY <1>6, <2>1 DEF HReturn, CallsOK, FdbInv
<1>7. CASE HOther
  <2>1. FdbInv'
    BY <1>1, <1>7, GcStepInv, TickInv, SetAgeingInv DEF HOther
  <2> QED
    BY <1>7, <2>1 DEF HOther, histVars, CallsOK, FdbInv
<1>8. CASE UNCHANGED vars
  <2>1. FdbInv'
    BY <1>1, <1>8, FdbStutterInv DEF vars
  <2> QED
    BY <1>8, <2>1 DEF vars, histVars, CallsOK, FdbInv
<1> QED
  BY <1>2, <1>3, <1>4, <1>5, <1>6, <1>7, <1>8 DEF Step

LEMMA TypeStep == ASSUME TypeOK, [Next]_vars PROVE TypeOK'
<1>1. CallsOK'
  BY CallsStep DEF TypeOK, CallsOK, Next
<1>2. current' \in [Ports -> SUBSET Ports]
  <2>1. CASE UNCHANGED vars
    BY <2>1 DEF vars, TypeOK
  <2>2. CASE Watch
    <3> SUFFICES ASSUME NEW p \in Ports, th'[p].pc \in LookPCs
                 PROVE  Shown(th[p].key)' \subseteq Ports
      BY <2>2 DEF Watch, TypeOK
    <3> DEFINE k == th[p].key
    <3>1. k' \in macKey
      BY <1>1 DEF CallsOK, FdbTypeOK, PointerOK, Thread, LookPCs
    <3>2. ASSUME table'[k'] # Nil PROVE heap'[k'][table'[k']].portIdx \in Ports
      <4>1. table'[k'] \in Slots
        BY <1>1, <3>1, <3>2 DEF CallsOK, FdbTypeOK
      <4>2. heap'[k'][table'[k']] \in entry
        BY <1>1, <3>1, <4>1 DEF CallsOK, FdbTypeOK
      <4> QED
        BY <4>2 DEF entry
    <3> QED
      BY <3>2 DEF Shown
  <2> QED
    BY <2>1, <2>2 DEF Next
<1> QED
  BY <1>1, <1>2 DEF TypeOK, CallsOK

(***************************************************************************)
(* The types of the table hold throughout: no goroutine dereferences nil,   *)
(* the lock has at most one holder, and reap only visits what is there.     *)
(***************************************************************************)
THEOREM TypeCorrect == Spec => []TypeOK
  BY TypeInit, TypeStep, PTL DEF Spec
-----------------------------------------------------------------------------
LEMMA MoveInit == ASSUME Init PROVE MoveInv
<1>1. \A p \in Ports : th[p].pc = "idle"
  BY DEF Init, FdbInit, IdleThread
<1>2. \A k \in macKey : table[k] = Nil
  BY DEF Init, FdbInit, newFDB
<1> QED
  BY <1>1, <1>2 DEF MoveInv, LearnerCounts, LearnPointer, LookPointer, MoveWins,
     NoStaleHit, LearnPCs, LookPCs

\* A Learn is called: its port counts as learned from now on, and the ports
\* with no Learn under way are what it will replace.
LEMMA MoveLearn ==
  ASSUME TypeOK, MoveInv, NEW p \in Ports, NEW k \in macKey, HLearn(p, k, clock)
  PROVE  MoveInv'
<1>1. /\ th[p].pc = "idle" /\ \A q \in Ports \ {p} : th'[q] = th[q]
      /\ th'[p].pc = "learn_read" /\ th'[p].key = k
  <2>1. FdbInv /\ clock \in Time /\ Learn(p, k, clock)
    BY DEF HLearn, TypeOK, FdbInv, FdbTypeOK
  <2> QED
    BY <2>1, LearnCallEffect
<1>2. UNCHANGED <<table, heap>>
  BY DEF HLearn, Learn
<1>3. /\ p \notin left'[k] /\ left'[k] = left[k] \ {p}
      /\ \A j \in macKey \ {k} : left'[j] = left[j]
  BY DEF HLearn, TypeOK
<1>4. /\ earlier'[p] = {r \in Ports \ {p} : ~Learning(r, k)}
      /\ \A q \in Ports \ {p} : earlier'[q] = IF Calling(q, k) THEN earlier[q] \ {p}
                                                               ELSE earlier[q]
  BY DEF HLearn
<1>5. \A q \in Ports : th[q].pc \in LearnPCs \cup LookPCs => th[q].key \in macKey
  BY CallInProgress DEF TypeOK, FdbInv, LearnPCs, LookPCs
<1>6. LearnerCounts'
  <2> SUFFICES ASSUME NEW r \in Ports, th'[r].pc \in LearnPCs
               PROVE  /\ r \notin left'[th'[r].key]
                      /\ \A q \in Ports : /\ th'[q].key = th'[r].key
                                          /\ th'[q].pc \in LearnPCs \cup LookPCs
                                          => r \notin earlier'[q]
    BY DEF LearnerCounts, Calling
  <2>1. CASE r = p
    BY <1>1, <1>3, <1>4, <2>1 DEF Calling
  <2>2. CASE r # p
    <3>1. /\ th[r].pc \in LearnPCs /\ th[r].key \in macKey /\ th'[r] = th[r]
          /\ r \notin left[th[r].key]
          /\ \A q \in Ports : Calling(q, th[r].key) => r \notin earlier[q]
      BY <1>1, <1>5, <2>2 DEF MoveInv, LearnerCounts
    <3>2. r \notin left'[th[r].key]
      BY <1>3, <3>1
    <3>3. ASSUME NEW q \in Ports, th'[q].key = th[r].key,
                 th'[q].pc \in LearnPCs \cup LookPCs
          PROVE  r \notin earlier'[q]
      BY <1>1, <1>4, <3>1, <3>3 DEF Calling, Learning
    <3> QED
      BY <3>1, <3>2, <3>3
  <2> QED
    BY <2>1, <2>2
<1>7. LearnPointer'
  BY <1>1, <1>2, <1>4 DEF MoveInv, LearnPointer
<1>8. LookPointer'
  <2>1. ASSUME NEW q \in Ports \ {p}, th[q].pc \in LookPCs
        PROVE  earlier'[q] \subseteq left'[th[q].key]
    <3>1. earlier[q] \subseteq left[th[q].key] /\ th[q].key \in macKey
      BY <1>5, <2>1 DEF MoveInv, LookPointer
    <3> QED
      BY <1>3, <1>4, <2>1, <3>1 DEF Calling
  <2>2. \A q \in Ports \ {p} : earlier'[q] \subseteq earlier[q]
    BY <1>4
  <2> QED
    BY <1>1, <1>2, <2>1, <2>2 DEF MoveInv, LookPointer, LookPCs
<1>9. MoveWins' /\ NoStaleHit'
  BY <1>1, <1>2, <1>3, <1>4 DEF MoveInv, MoveWins, NoStaleHit
<1> QED
  BY <1>6, <1>7, <1>8, <1>9 DEF MoveInv

\* A Lookup is called: it must not return a port left by now.
LEMMA MoveLookup ==
  ASSUME TypeOK, MoveInv, NEW p \in Ports, NEW k \in macKey, NEW t \in Time,
         HLookup(p, k, t)
  PROVE  MoveInv'
<1>1. /\ th[p].pc = "idle" /\ \A q \in Ports \ {p} : th'[q] = th[q]
      /\ th'[p].pc = "look_read" /\ th'[p].key = k
  <2>1. FdbInv /\ t \in Time /\ Lookup(p, k, t)
    BY FdbAssumption DEF HLookup, TypeOK, FdbInv, FdbTypeOK
  <2> QED
    BY <2>1, LookupCallEffect
<1>2. UNCHANGED <<table, heap, left>>
  BY DEF HLookup, Lookup
<1>3. earlier'[p] = left[k] /\ \A q \in Ports \ {p} : earlier'[q] = earlier[q]
  BY DEF HLookup, TypeOK
<1>4. LearnerCounts'
  BY <1>1, <1>2, <1>3 DEF MoveInv, LearnerCounts, Calling, LearnPCs, LookPCs
<1>5. LearnPointer'
  BY <1>1, <1>2, <1>3 DEF MoveInv, LearnPointer
<1>6. LookPointer'
  BY <1>1, <1>2, <1>3 DEF MoveInv, LookPointer, LookPCs
<1>7. MoveWins' /\ NoStaleHit'
  BY <1>1, <1>2, <1>3 DEF MoveInv, MoveWins, NoStaleHit
<1> QED
  BY <1>4, <1>5, <1>6, <1>7 DEF MoveInv

\* A Learn returns.  Whatever way it took, the map now points to no port it
\* replaces (<1>6), and every other pointer is as good as it was (<1>4, <1>5).
LEMMA MoveLearned ==
  ASSUME TypeOK, MoveInv, NEW p \in Ports, HLearned(p)
  PROVE  MoveInv'
<1> DEFINE k == th[p].key
<1>1. /\ FdbInv /\ LockOK
      /\ th[p].pc \in {"learn_store", "learn_touch", "learn_locked"} /\ k \in macKey
      /\ \A q \in Ports \ {p} : th'[q] = th[q]
      /\ th'[p].pc = "learned"
  <2>1. FdbInv /\ LockOK
    BY DEF TypeOK, FdbInv
  <2>2. CASE LearnRefresh(p)
    BY <2>1, <2>2, LearnRefreshEffect DEF Becomes
  <2>3. CASE LearnTouch(p)
    BY <2>1, <2>3, LearnTouchEffect DEF Becomes
  <2>4. CASE LearnInsert(p)
    BY <2>1, <2>4, LearnInsertEffect DEF Becomes
  <2> QED
    BY <2>2, <2>3, <2>4 DEF HLearned
<1>2. /\ left'[k] = left[k] \cup earlier[p] /\ \A j \in macKey \ {k} : left'[j] = left[j]
      /\ earlier'[p] = {} /\ \A q \in Ports \ {p} : earlier'[q] = earlier[q]
  BY <1>1 DEF HLearned, TypeOK
<1>3. /\ p \notin left[k] /\ p \notin earlier[p]
      /\ \A q \in Ports : Calling(q, k) => p \notin earlier[q]
  BY <1>1 DEF MoveInv, LearnerCounts, Calling, LearnPCs
<1>4. \A j \in macKey, s \in Slots :
        /\ \/ heap'[j][s].portIdx = heap[j][s].portIdx
           \/ /\ j = k /\ heap'[j][s].portIdx = p
              /\ \A q \in Ports : th[q].key = k => th[q].ent # s
        /\ table'[j] = s => \/ heap'[j][s].portIdx = p /\ j = k
                            \/ table[j] = s /\ heap'[j][s].portIdx = heap[j][s].portIdx
  <2>1. CASE LearnRefresh(p)
    <3>1. \A j \in macKey, s \in Slots : heap'[j][s].portIdx = heap[j][s].portIdx
      BY <1>1, <2>1, LearnRefreshHeap
    <3>2. table' = table
      BY <2>1 DEF LearnRefresh
    <3> QED
      BY <3>1, <3>2
  <2>2. CASE LearnTouch(p)
    <3>1. \A j \in macKey, s \in Slots : heap'[j][s].portIdx = heap[j][s].portIdx
      BY <1>1, <2>2, LearnTouchHeap
    <3>2. table' = table
      BY <2>2 DEF LearnTouch
    <3> QED
      BY <3>1, <3>2
  <2>3. CASE LearnInsert(p)
    <3>1. PICK c \in Slots :
            /\ table' = [table EXCEPT ![k] = c]
            /\ heap' = [heap EXCEPT ![k][c] = [portIdx |-> p, seenAt |-> th[p].now]]
            /\ \A q \in Ports : th[q].key = k => th[q].ent # c
      BY <1>1, <2>3, LearnInsertHeap
    <3>2. /\ table'[k] = c /\ \A j \in macKey \ {k} : table'[j] = table[j]
          /\ heap'[k][c].portIdx = p
          /\ \A j \in macKey, s \in Slots :
               j # k \/ s # c => heap'[j][s] = heap[j][s]
      BY <1>1, <3>1 DEF FdbInv, FdbTypeOK
    <3> QED
      BY <3>1, <3>2
  <2> QED
    BY <2>1, <2>2, <2>3 DEF HLearned
<1>5. \A j \in macKey : table'[j] \in Slots \cup {Nil}
  <2>1. CallsOK'
    BY CallsStep DEF TypeOK, CallsOK, Step
  <2> QED
    BY <2>1 DEF CallsOK, FdbTypeOK
<1>6. table'[k] # Nil => heap'[k][table'[k]].portIdx \notin left[k] \cup earlier[p]
  <2>1. CASE LearnRefresh(p)
    <3>1. th[p].pc = "learn_store" /\ table' = table
      BY <2>1 DEF LearnRefresh
    <3>2. SUFFICES ASSUME table[k] # Nil
                   PROVE  heap'[k][table[k]].portIdx \notin left[k] \cup earlier[p]
      BY <3>1
    <3>3. heap'[k][table[k]].portIdx = heap[k][table[k]].portIdx
      BY <1>1, <1>5, <2>1, <3>1, <3>2, LearnRefreshHeap
    <3>4. heap[k][table[k]].portIdx \notin left[k]
      BY <1>1, <3>2 DEF MoveInv, MoveWins
    <3>5. heap[k][table[k]].portIdx \notin earlier[p]
      BY <3>1, <3>2 DEF MoveInv, LearnPointer
    <3> QED
      BY <3>3, <3>4, <3>5
  <2>2. CASE LearnTouch(p)
    <3>1. /\ table' = table /\ table[k] # Nil
          /\ heap[k][table[k]].portIdx = p
      BY <1>1, <2>2 DEF LearnTouch, LockOK
    <3> QED
      BY <1>1, <1>3, <1>4, <1>5, <3>1
  <2>3. CASE LearnInsert(p)
    BY <1>1, <1>3, <1>4, <1>5, <2>3 DEF LearnInsert
  <2> QED
    BY <2>1, <2>2, <2>3 DEF HLearned
<1>7. \A q \in Ports : /\ th[q].pc \in LearnPCs \cup LookPCs => th[q].key \in macKey
                       /\ th[q].pc \in Pointing => th[q].ent \in Slots
  BY <1>1, CallInProgress DEF LearnPCs, LookPCs
<1>8. LearnerCounts'
  <2> SUFFICES ASSUME NEW r \in Ports, th'[r].pc \in LearnPCs
               PROVE  /\ r \notin left'[th'[r].key]
                      /\ \A q \in Ports : /\ th'[q].key = th'[r].key
                                          /\ th'[q].pc \in LearnPCs \cup LookPCs
                                          => r \notin earlier'[q]
    BY DEF LearnerCounts, Calling
  <2>1. /\ r # p /\ th'[r] = th[r] /\ th[r].key \in macKey
        /\ r \notin left[th[r].key]
        /\ \A q \in Ports : Calling(q, th[r].key) => r \notin earlier[q]
    BY <1>1, <1>7 DEF MoveInv, LearnerCounts, LearnPCs
  <2>2. Calling(p, k)
    BY <1>1 DEF Calling, LearnPCs
  <2>3. r \notin left'[th[r].key]
    BY <1>2, <2>1, <2>2
  <2> QED
    BY <1>1, <1>2, <2>1, <2>3 DEF Calling
<1>9. LearnPointer'
  <2> SUFFICES ASSUME NEW q \in Ports, th'[q].pc \in {"learn_check", "learn_store"},
                      table'[th'[q].key] # Nil,
                      th'[q].pc = "learn_check" => table'[th'[q].key] # th'[q].ent
               PROVE  heap'[th'[q].key][table'[th'[q].key]].portIdx \notin earlier'[q]
    BY DEF LearnPointer
  <2>1. /\ q # p /\ th'[q] = th[q] /\ th[q].key \in macKey /\ earlier'[q] = earlier[q]
        /\ Calling(q, th[q].key)
    BY <1>1, <1>2, <1>7 DEF Calling, LearnPCs
  <2> QED
    BY <1>3, <1>4, <1>5, <2>1 DEF MoveInv, LearnPointer
<1>10. LookPointer'
  <2> SUFFICES ASSUME NEW q \in Ports, th'[q].pc \in LookPCs
               PROVE  /\ earlier'[q] \subseteq left'[th'[q].key]
                      /\ th'[q].pc \in {"look_age", "look_seen", "look_port"} =>
                           heap'[th'[q].key][th'[q].ent].portIdx \notin earlier'[q]
    BY DEF LookPointer, LookPCs
  <2>1. q # p /\ th'[q] = th[q] /\ th[q].key \in macKey /\ earlier'[q] = earlier[q]
    BY <1>1, <1>2, <1>7 DEF LookPCs
  <2>2. earlier[q] \subseteq left[th[q].key]
    BY <2>1 DEF MoveInv, LookPointer
  <2>3. ASSUME th[q].pc \in {"look_age", "look_seen", "look_port"}
        PROVE  heap'[th[q].key][th[q].ent].portIdx \notin earlier[q]
    <3>1. th[q].ent \in Slots /\ heap[th[q].key][th[q].ent].portIdx \notin earlier[q]
      BY <1>7, <2>3 DEF MoveInv, LookPointer, Pointing
    <3> QED
      BY <1>4, <2>1, <3>1
  <2> QED
    BY <1>2, <2>1, <2>2, <2>3
<1>11. MoveWins'
  <2> SUFFICES ASSUME NEW j \in macKey, table'[j] # Nil
               PROVE  heap'[j][table'[j]].portIdx \notin left'[j]
    BY DEF MoveWins
  <2>1. CASE j = k
    BY <1>2, <1>6, <2>1
  <2>2. CASE j # k
    BY <1>2, <1>4, <1>5, <2>2 DEF MoveInv, MoveWins
  <2> QED
    BY <2>1, <2>2
<1>12. NoStaleHit'
  BY <1>1, <1>2 DEF MoveInv, NoStaleHit
<1> QED
  BY <1>8, <1>9, <1>10, <1>11, <1>12 DEF MoveInv

\* A step of a call that changes neither the map nor the heap preserves the
\* invariant if the goroutine's own next state satisfies it.
LEMMA MoveKept ==
  ASSUME MoveInv, UNCHANGED <<table, heap, left, earlier>>, NEW p \in Ports,
         \A q \in Ports \ {p} : th'[q] = th[q],
         th'[p].key = th[p].key,
         th'[p].pc \in LearnPCs => th[p].pc \in LearnPCs,
         th'[p].pc \in LookPCs => th[p].pc \in LookPCs,
         LET k == th[p].key
             port(c) == heap[k][c].portIdx
         IN  /\ th'[p].pc = "learn_check" /\ table[k] \notin {Nil, th'[p].ent}
                  => port(table[k]) \notin earlier[p]
             /\ th'[p].pc = "learn_store" /\ table[k] # Nil
                  => port(table[k]) \notin earlier[p]
             /\ th'[p].pc \in {"look_age", "look_seen", "look_port"}
                  => port(th'[p].ent) \notin earlier[p]
             /\ th'[p].pc = "hit" => th'[p].out \notin earlier[p]
  PROVE  MoveInv'
<1>1. \A q \in Ports, k \in {th[r].key : r \in Ports} : Calling(q, k)' => Calling(q, k)
  BY DEF Calling
<1>2. LearnerCounts'
  BY <1>1 DEF MoveInv, LearnerCounts
<1>3. LearnPointer'
  BY DEF MoveInv, LearnPointer
<1>4. LookPointer'
  BY DEF MoveInv, LookPointer
<1>5. MoveWins' /\ NoStaleHit'
  BY DEF MoveInv, MoveWins, NoStaleHit
<1> QED
  BY <1>2, <1>3, <1>4, <1>5 DEF MoveInv

LEMMA MoveStep ==
  ASSUME TypeOK, MoveInv, NEW p \in Ports, HStep(p)
  PROVE  MoveInv'
<1>0. FdbInv /\ UNCHANGED <<left, earlier>>
  BY DEF TypeOK, FdbInv, HStep, histVars
<1>1. CASE LearnRead(p)
  <2>1. /\ th[p].pc = "learn_read"
        /\ Becomes(p, (IF table[th[p].key] # Nil THEN "learn_check" ELSE "learn_lock"),
                   table[th[p].key], Nil, th[p].age)
    BY <1>0, <1>1, LearnReadEffect
  <2>2. /\ UNCHANGED <<table, heap, left, earlier>>
        /\ \A q \in Ports \ {p} : th'[q] = th[q]
        /\ th'[p].key = th[p].key /\ th'[p].pc \in {"learn_check", "learn_lock"}
        /\ th'[p].ent = table[th[p].key]
    BY <1>0, <1>1, <2>1 DEF Becomes, LearnRead
  <2> QED
    BY <2>1, <2>2, MoveKept DEF LearnPCs, LookPCs
<1>2. CASE LearnCheck(p)
  <2> DEFINE same == heap[th[p].key][th[p].ent].portIdx = p
  <2>1. /\ th[p].pc = "learn_check"
        /\ Becomes(p, (IF same THEN "learn_store" ELSE "learn_lock"),
                   (IF same THEN th[p].ent ELSE Nil), Nil, th[p].age)
    BY <1>0, <1>2, LearnCheckEffect
  <2>2. p \notin earlier[p]
    BY <2>1 DEF MoveInv, LearnerCounts, Calling, LearnPCs
  <2>3. same /\ table[th[p].key] # Nil => heap[th[p].key][table[th[p].key]].portIdx \notin earlier[p]
    BY <2>1, <2>2 DEF MoveInv, LearnPointer
  <2>4. UNCHANGED <<table, heap, left, earlier>>
    BY <1>0, <1>2 DEF LearnCheck
  <2> HIDE DEF same
  <2>5. /\ \A q \in Ports \ {p} : th'[q] = th[q]
        /\ th'[p].key = th[p].key /\ th'[p].pc \in {"learn_store", "learn_lock"}
        /\ th'[p].pc = "learn_store" => same
    BY <2>1 DEF Becomes
  <2> QED
    BY <2>3, <2>1, <2>4, <2>5, MoveKept DEF LearnPCs, LookPCs
<1>3. CASE LearnLock(p)
  <2>1. th[p].pc = "learn_lock" /\ Becomes(p, "learn_locked", Nil, Nil, th[p].age)
    BY <1>0, <1>3, LearnLockEffect
  <2> QED
    BY <1>0, <1>3, <2>1, MoveKept DEF Becomes, LearnLock, LearnPCs, LookPCs
<1>4. CASE LookRead(p)
  <2>1. /\ th[p].pc = "look_read" /\ th[p].key \in macKey
        /\ Becomes(p, (IF table[th[p].key] # Nil THEN "look_age" ELSE "miss"),
                   table[th[p].key], Nil, th[p].age)
    BY <1>0, <1>4, LookReadEffect
  <2>2. table[th[p].key] # Nil => heap[th[p].key][table[th[p].key]].portIdx \notin earlier[p]
    BY <2>1 DEF MoveInv, MoveWins, LookPointer, LookPCs
  <2>3. /\ UNCHANGED <<table, heap, left, earlier>>
        /\ \A q \in Ports \ {p} : th'[q] = th[q]
        /\ th'[p].key = th[p].key /\ th'[p].pc \in {"look_age", "miss"}
        /\ th'[p].pc = "look_age" => table[th[p].key] # Nil
        /\ th'[p].ent = table[th[p].key]
    BY <1>0, <1>4, <2>1 DEF Becomes, LookRead
  <2> QED
    BY <2>2, <2>1, <2>3, MoveKept DEF LearnPCs, LookPCs
<1>5. CASE LookAge(p)
  <2>1. /\ th[p].pc = "look_age"
        /\ Becomes(p, (IF ageing > 0 THEN "look_seen" ELSE "look_port"),
                   th[p].ent, Nil, ageing)
    BY <1>0, <1>5, LookAgeEffect
  <2>2. heap[th[p].key][th[p].ent].portIdx \notin earlier[p]
    BY <2>1 DEF MoveInv, LookPointer
  <2>3. /\ UNCHANGED <<table, heap, left, earlier>>
        /\ \A q \in Ports \ {p} : th'[q] = th[q]
        /\ th'[p].key = th[p].key /\ th'[p].pc \in {"look_seen", "look_port"}
        /\ th'[p].ent = th[p].ent
    BY <1>0, <1>5, <2>1 DEF Becomes, LookAge
  <2> QED
    BY <2>1, <2>2, <2>3, MoveKept DEF LearnPCs, LookPCs
<1>6. CASE LookSeen(p)
  <2> DEFINE old == th[p].now - heap[th[p].key][th[p].ent].seenAt > th[p].age
  <2>1. /\ th[p].pc = "look_seen"
        /\ Becomes(p, (IF old THEN "miss" ELSE "look_port"),
                   (IF old THEN Nil ELSE th[p].ent), Nil, th[p].age)
    BY <1>0, <1>6, LookSeenEffect
  <2>2. heap[th[p].key][th[p].ent].portIdx \notin earlier[p]
    BY <2>1 DEF MoveInv, LookPointer
  <2>3. UNCHANGED <<table, heap, left, earlier>>
    BY <1>0, <1>6 DEF LookSeen
  <2> HIDE DEF old
  <2>4. /\ \A q \in Ports \ {p} : th'[q] = th[q]
        /\ th'[p].key = th[p].key /\ th'[p].pc \in {"look_port", "miss"}
        /\ th'[p].pc = "look_port" => th'[p].ent = th[p].ent
    BY <2>1 DEF Becomes
  <2> QED
    BY <2>2, <2>1, <2>3, <2>4, MoveKept DEF LearnPCs, LookPCs
<1>7. CASE LookPort(p)
  <2>1. /\ th[p].pc = "look_port"
        /\ Becomes(p, "hit", Nil, heap[th[p].key][th[p].ent].portIdx, th[p].age)
    BY <1>0, <1>7, LookPortEffect
  <2>2. heap[th[p].key][th[p].ent].portIdx \notin earlier[p]
    BY <2>1 DEF MoveInv, LookPointer
  <2> QED
    BY <1>0, <1>7, <2>1, <2>2, MoveKept DEF Becomes, LookPort, LearnPCs, LookPCs
<1>8. CASE LearnMove(p)
  <2> DEFINE k == th[p].key
  <2>1. /\ th[p].pc = "learn_locked" /\ k \in macKey /\ table[k] \in Slots /\ table' = table
        /\ Becomes(p, "learn_touch", Nil, Nil, th[p].age)
    BY <1>0, <1>8, LearnMoveEffect DEF LearnMove, FdbInv, FdbTypeOK
  <2>2. \A j \in macKey, s \in Slots :
          heap'[j][s].portIdx = IF j = k /\ s = table[j] THEN p ELSE heap[j][s].portIdx
    BY <1>0, <1>8, LearnMoveHeap
  <2>3. /\ p \notin left[k]
        /\ \A q \in Ports : Calling(q, k) => p \notin earlier[q]
    BY <2>1 DEF MoveInv, LearnerCounts, LearnPCs
  <2>4. \A q \in Ports : /\ th[q].pc \in LearnPCs \cup LookPCs => th[q].key \in macKey
                         /\ th[q].pc \in Pointing => th[q].ent \in Slots
    BY <1>0, CallInProgress DEF LearnPCs, LookPCs
  <2>5. \A j \in macKey : table[j] \in Slots \cup {Nil}
    BY <1>0 DEF FdbInv, FdbTypeOK
  <2>6. \A q \in Ports, j \in {th[r].key : r \in Ports} : Calling(q, j)' => Calling(q, j)
    BY <2>1 DEF Becomes, Calling, LearnPCs, LookPCs
  <2>7. LearnerCounts'
    BY <1>0, <2>1, <2>6 DEF Becomes, MoveInv, LearnerCounts, LearnPCs
  <2>8. LearnPointer'
    <3> SUFFICES ASSUME NEW q \in Ports, th'[q].pc \in {"learn_check", "learn_store"},
                        table'[th'[q].key] # Nil,
                        th'[q].pc = "learn_check" => table'[th'[q].key] # th'[q].ent
                 PROVE  heap'[th'[q].key][table'[th'[q].key]].portIdx \notin earlier'[q]
      BY DEF LearnPointer
    <3>1. q # p /\ th'[q] = th[q] /\ th[q].key \in macKey /\ Calling(q, th[q].key)
      BY <2>1, <2>4 DEF Becomes, Calling, LearnPCs
    <3>2. heap[th[q].key][table[th[q].key]].portIdx \notin earlier[q]
      BY <2>1, <3>1 DEF MoveInv, LearnPointer
    <3> QED
      BY <1>0, <2>1, <2>2, <2>3, <2>5, <3>1, <3>2
  <2>9. LookPointer'
    <3> SUFFICES ASSUME NEW q \in Ports, th'[q].pc \in LookPCs
                 PROVE  /\ earlier'[q] \subseteq left'[th'[q].key]
                        /\ th'[q].pc \in {"look_age", "look_seen", "look_port"} =>
                             heap'[th'[q].key][th'[q].ent].portIdx \notin earlier'[q]
      BY DEF LookPointer, LookPCs
    <3>1. q # p /\ th'[q] = th[q] /\ th[q].key \in macKey /\ Calling(q, th[q].key)
      BY <2>1, <2>4 DEF Becomes, Calling, LookPCs
    <3>2. earlier[q] \subseteq left[th[q].key]
      BY <3>1 DEF MoveInv, LookPointer
    <3>3. ASSUME th[q].pc \in {"look_age", "look_seen", "look_port"}
          PROVE  heap'[th[q].key][th[q].ent].portIdx \notin earlier[q]
      BY <2>2, <2>3, <2>4, <3>1, <3>3 DEF MoveInv, LookPointer, Pointing
    <3> QED
      BY <1>0, <3>1, <3>2, <3>3
  <2>10. MoveWins'
    BY <1>0, <2>1, <2>2, <2>3, <2>5 DEF MoveInv, MoveWins
  <2>11. NoStaleHit'
    BY <1>0, <2>1 DEF Becomes, MoveInv, NoStaleHit
  <2> QED
    BY <2>7, <2>8, <2>9, <2>10, <2>11 DEF MoveInv
<1> QED
  BY <1>1, <1>2, <1>3, <1>4, <1>5, <1>6, <1>7, <1>8 DEF HStep

LEMMA MoveReturn ==
  ASSUME TypeOK, MoveInv, NEW p \in Ports, HReturn(p)
  PROVE  MoveInv'
<1>1. /\ th'[p].pc = "idle" /\ \A q \in Ports \ {p} : th'[q] = th[q]
      /\ UNCHANGED <<table, heap, left>>
      /\ \A q \in Ports : earlier'[q] \subseteq earlier[q]
  BY DEF HReturn, Return, TypeOK, FdbTypeOK, IdleThread
<1>2. LearnerCounts' /\ LearnPointer' /\ LookPointer'
  BY <1>1 DEF MoveInv, LearnerCounts, LearnPointer, LookPointer, Calling, LearnPCs, LookPCs
<1>3. MoveWins' /\ NoStaleHit'
  BY <1>1 DEF MoveInv, MoveWins, NoStaleHit
<1> QED
  BY <1>2, <1>3 DEF MoveInv

\* reap can only take entries away; the rest leaves map, heap and calls alone.
LEMMA MoveOther ==
  ASSUME TypeOK, MoveInv, HOther \/ UNCHANGED vars
  PROVE  MoveInv'
<1>1. UNCHANGED <<th, heap, left, earlier>> /\ \A k \in macKey : table'[k] \in {table[k], Nil}
  <2>1. CASE UNCHANGED vars
    BY <2>1 DEF vars, fdbVars, histVars
  <2>2. ASSUME NEW k \in macKey, ReapEntry(k), HOther
        PROVE  UNCHANGED <<th, heap, left, earlier>> /\ \A j \in macKey : table'[j] \in {table[j], Nil}
    BY <2>2 DEF ReapEntry, HOther, histVars, TypeOK, FdbTypeOK
  <2> QED
    BY <2>1, <2>2 DEF HOther, histVars, GcTick, ReapStep, ReapLoad, ReapLock, ReapUnlock,
       Tick, SetAgeing
<1>2. \A q \in Ports : th[q].pc \in LearnPCs => th[q].key \in macKey
  BY CallInProgress DEF TypeOK, FdbInv, LearnPCs
<1>3. LearnerCounts' /\ LookPointer' /\ NoStaleHit'
  BY <1>1 DEF MoveInv, LearnerCounts, LookPointer, NoStaleHit, Calling
<1>4. LearnPointer'
  BY <1>1, <1>2 DEF MoveInv, LearnPointer, LearnPCs
<1>5. MoveWins'
  BY <1>1 DEF MoveInv, MoveWins
<1> QED
  BY <1>3, <1>4, <1>5 DEF MoveInv

LEMMA MoveInvariant == Spec => [](TypeOK /\ MoveInv)
<1>1. ASSUME Init PROVE TypeOK /\ MoveInv
  BY <1>1, TypeInit, MoveInit
<1>2. ASSUME TypeOK /\ MoveInv, [Next]_vars PROVE (TypeOK /\ MoveInv)'
  <2>1. TypeOK'
    BY <1>2, TypeStep
  <2>2. MoveInv'
    BY <1>2, MoveLearn, MoveLookup, MoveLearned, MoveStep, MoveReturn, MoveOther DEF Next, Step
  <2> QED
    BY <2>1, <2>2
<1> QED
  BY <1>1, <1>2, PTL DEF Spec

(***************************************************************************)
(* A move wins, for any number of ports and stations: once a Learn on the   *)
(* new port has returned, the table never points to a port left before it.  *)
(***************************************************************************)
THEOREM MoveWinsAlways == Spec => []MoveWins
<1>1. MoveInv => MoveWins
  BY DEF MoveInv
<1> QED
  BY <1>1, MoveInvariant, PTL

(***************************************************************************)
(* A Lookup never returns a port the station had left before the call.      *)
(***************************************************************************)
THEOREM NoStaleHitAlways == Spec => []NoStaleHit
<1>1. MoveInv => NoStaleHit
  BY DEF MoveInv
<1> QED
  BY <1>1, MoveInvariant, PTL
-----------------------------------------------------------------------------
(***************************************************************************)
(* NoSilentHit, which the deletions do not help: a Lookup may hold an entry *)
(* that is no longer in the map.  What helps is that every store of seenAt, *)
(* wherever it lands, is the time of a Learn of the same key.               *)
(***************************************************************************)
SilentInv ==
  /\ \A k \in macKey, s \in Slots : heap[k][s].seenAt <= heard[k]
  /\ \A p \in Ports : th[p].pc \in LearnPCs => th[p].now <= heard[th[p].key]
  /\ \A p \in Ports : th[p].pc \in {"look_port", "hit"} /\ th[p].age > 0 =>
                        th[p].now - heard[th[p].key] <= th[p].age

\* Times, durations and what was heard are integers.
LEMMA TimeFacts ==
  ASSUME TypeOK
  PROVE  /\ clock \in Int /\ ageing \in Int
         /\ \A k \in macKey : heard[k] \in Int
         /\ \A k \in macKey, s \in Slots : heap[k][s].seenAt \in Int
         /\ \A p \in Ports : th[p].now \in Int /\ th[p].age \in Int
<1>1. clock \in Int /\ ageing \in Int /\ \A k \in macKey : heard[k] \in Int
  BY PortFacts DEF TypeOK, FdbTypeOK
<1>2. ASSUME NEW k \in macKey, NEW s \in Slots PROVE heap[k][s].seenAt \in Int
  <2>1. heap[k][s] \in entry
    BY DEF TypeOK, FdbTypeOK
  <2> QED
    BY <2>1, PortFacts DEF entry
<1>3. ASSUME NEW p \in Ports PROVE th[p].now \in Int /\ th[p].age \in Int
  <2>1. th[p] \in Thread
    BY DEF TypeOK, FdbTypeOK
  <2> QED
    BY <2>1, PortFacts DEF Thread
<1> QED
  BY <1>1, <1>2, <1>3

LEMMA SilentInit == ASSUME Init PROVE SilentInv
<1>1. \A p \in Ports : th[p].pc = "idle"
  BY DEF Init, FdbInit, IdleThread
<1>2. \A k \in macKey, s \in Slots : heap[k][s].seenAt = 0 /\ heard[k] = 0
  BY DEF Init, FdbInit, newFDB
<1> QED
  BY <1>1, <1>2 DEF SilentInv, LearnPCs

\* A step that adds to what was heard and stores nothing; goroutine p goes on.
LEMMA SilentKept ==
  ASSUME TypeOK, TypeOK', SilentInv, NEW p \in Ports,
         \A q \in Ports \ {p} : th'[q] = th[q],
         \A k \in macKey : heard[k] <= heard'[k],
         \A k \in macKey, s \in Slots : heap'[k][s].seenAt <= heard'[k],
         th'[p].pc \in LearnPCs => th'[p].now <= heard'[th'[p].key],
         th'[p].pc \in {"look_port", "hit"} /\ th'[p].age > 0 =>
           th'[p].now - heard'[th'[p].key] <= th'[p].age
  PROVE  SilentInv'
<1>1. ASSUME NEW q \in Ports, th'[q].pc \in LearnPCs
      PROVE  th'[q].now <= heard'[th'[q].key]
  <2>1. CASE q = p
    BY <1>1, <2>1
  <2>2. CASE q # p
    <3>1. th'[q] = th[q] /\ th[q].key \in macKey
      BY <1>1, <2>2, CallInProgress DEF TypeOK, FdbInv, LearnPCs
    <3>2. th[q].now <= heard[th[q].key]
      BY <1>1, <3>1 DEF SilentInv
    <3>3. /\ th[q].now \in Int /\ heard[th[q].key] \in Int /\ heard'[th[q].key] \in Int
          /\ heard[th[q].key] <= heard'[th[q].key]
      BY <3>1, TimeFacts, PortFacts DEF TypeOK
    <3> QED
      BY <3>1, <3>2, <3>3
  <2> QED
    BY <2>1, <2>2
<1>2. ASSUME NEW q \in Ports, th'[q].pc \in {"look_port", "hit"}, th'[q].age > 0
      PROVE  th'[q].now - heard'[th'[q].key] <= th'[q].age
  <2>1. CASE q = p
    BY <1>2, <2>1
  <2>2. CASE q # p
    <3>1. th'[q] = th[q] /\ th[q].key \in macKey
      BY <1>2, <2>2, CallInProgress DEF TypeOK, FdbInv
    <3>2. th[q].now - heard[th[q].key] <= th[q].age
      BY <1>2, <3>1 DEF SilentInv
    <3>3. /\ th[q].now \in Int /\ th[q].age \in Int
          /\ heard[th[q].key] \in Int /\ heard'[th[q].key] \in Int
          /\ heard[th[q].key] <= heard'[th[q].key]
      BY <3>1, TimeFacts, PortFacts DEF TypeOK
    <3> QED
      BY <3>1, <3>2, <3>3
  <2> QED
    BY <2>1, <2>2
<1> QED
  BY <1>1, <1>2 DEF SilentInv

\* A Learn is called with the time now: it counts as heard from here on.
LEMMA SilentLearn ==
  ASSUME TypeOK, TypeOK', SilentInv, NEW p \in Ports, NEW k \in macKey, HLearn(p, k, clock)
  PROVE  SilentInv'
<1>1. /\ \A q \in Ports \ {p} : th'[q] = th[q]
      /\ th'[p].pc = "learn_read" /\ th'[p].key = k /\ th'[p].now = clock
  <2>1. FdbInv /\ clock \in Time /\ Learn(p, k, clock)
    BY DEF HLearn, TypeOK, FdbInv, FdbTypeOK
  <2> QED
    BY <2>1, LearnCallEffect
<1>2. /\ heard'[k] = IF clock > heard[k] THEN clock ELSE heard[k]
      /\ \A j \in macKey \ {k} : heard'[j] = heard[j]
      /\ heap' = heap
  BY DEF HLearn, Learn, TypeOK
<1>3. \A j \in macKey : heard[j] <= heard'[j] /\ clock <= heard'[k]
  BY <1>2, TimeFacts
<1>4. \A j \in macKey, s \in Slots : heap'[j][s].seenAt <= heard'[j]
  <2> SUFFICES ASSUME NEW j \in macKey, NEW s \in Slots
               PROVE  heap[j][s].seenAt <= heard'[j]
    BY <1>2
  <2>1. heap[j][s].seenAt <= heard[j] /\ heard[j] <= heard'[j]
    BY <1>3 DEF SilentInv
  <2>2. heap[j][s].seenAt \in Int /\ heard[j] \in Int /\ heard'[j] \in Int
    BY TimeFacts, PortFacts DEF TypeOK
  <2> QED
    BY <2>1, <2>2
<1> QED
  BY <1>1, <1>3, <1>4, SilentKept

\* A Learn returns, having stored its own time in some cell of its key.
LEMMA SilentLearned ==
  ASSUME TypeOK, TypeOK', SilentInv, NEW p \in Ports, HLearned(p)
  PROVE  SilentInv'
<1>0. FdbInv /\ heard' = heard
  BY DEF TypeOK, FdbInv, HLearned
<1>1. \A k \in macKey : heard[k] <= heard'[k]
  BY <1>0, TimeFacts
<1>2. /\ th[p].pc \in LearnPCs /\ th[p].key \in macKey
      /\ \A q \in Ports \ {p} : th'[q] = th[q]
      /\ th'[p].pc = "learned"
  <2>1. CASE LearnRefresh(p)
    BY <1>0, <2>1, LearnRefreshEffect DEF Becomes, LearnPCs
  <2>2. CASE LearnTouch(p)
    BY <1>0, <2>2, LearnTouchEffect DEF Becomes, LearnPCs
  <2>3. CASE LearnInsert(p)
    BY <1>0, <2>3, LearnInsertEffect DEF Becomes, LearnPCs
  <2> QED
    BY <2>1, <2>2, <2>3 DEF HLearned
<1>3. th[p].now <= heard[th[p].key]
  BY <1>2 DEF SilentInv
<1>4. \A k \in macKey, s \in Slots :
        \/ heap'[k][s].seenAt = heap[k][s].seenAt
        \/ k = th[p].key /\ heap'[k][s].seenAt = th[p].now
  <2>1. CASE LearnRefresh(p)
    BY <1>0, <2>1, LearnRefreshHeap
  <2>2. CASE LearnTouch(p)
    BY <1>0, <2>2, LearnTouchHeap
  <2>3. CASE LearnInsert(p)
    <3>1. PICK c \in Slots :
            heap' = [heap EXCEPT ![th[p].key][c] = [portIdx |-> p, seenAt |-> th[p].now]]
      BY <1>0, <2>3, LearnInsertHeap
    <3> QED
      BY <1>0, <1>2, <3>1 DEF FdbInv, FdbTypeOK
  <2> QED
    BY <2>1, <2>2, <2>3 DEF HLearned
<1>5. \A k \in macKey, s \in Slots : heap'[k][s].seenAt <= heard'[k]
  BY <1>0, <1>3, <1>4 DEF SilentInv
<1> QED
  BY <1>1, <1>2, <1>5, SilentKept DEF LearnPCs

\* A step of a call that returns nothing from Learn: no store of seenAt.
LEMMA SilentStep ==
  ASSUME TypeOK, TypeOK', SilentInv, NEW p \in Ports, HStep(p)
  PROVE  SilentInv'
<1>0. FdbInv /\ heard' = heard
  BY DEF TypeOK, FdbInv, HStep, histVars
<1>1. \A k \in macKey : heard[k] <= heard'[k]
  BY <1>0, TimeFacts
<1>2. \A k \in macKey, s \in Slots : heap'[k][s].seenAt <= heard'[k]
  <2>1. CASE LearnMove(p)
    BY <1>0, <2>1, LearnMoveHeap DEF SilentInv
  <2>2. CASE heap' = heap
    BY <1>0, <2>2 DEF SilentInv
  <2> QED
    BY <2>1, <2>2 DEF HStep, LearnRead, LearnCheck, LearnLock, LookRead, LookAge,
       LookSeen, LookPort
<1>3. CASE LearnRead(p) \/ LearnCheck(p) \/ LearnLock(p) \/ LearnMove(p)
  <2>1. /\ th[p].pc \in LearnPCs
        /\ \A q \in Ports \ {p} : th'[q] = th[q]
        /\ th'[p].key = th[p].key /\ th'[p].now = th[p].now
        /\ th'[p].pc \in LearnPCs
    BY <1>0, <1>3, LearnReadEffect, LearnCheckEffect, LearnLockEffect, LearnMoveEffect
       DEF Becomes, LearnPCs
  <2>2. th'[p].now <= heard'[th'[p].key]
    BY <1>0, <2>1 DEF SilentInv
  <2> QED
    BY <1>1, <1>2, <2>1, <2>2, SilentKept DEF LearnPCs
<1>4. CASE LookRead(p)
  <2>1. /\ \A q \in Ports \ {p} : th'[q] = th[q]
        /\ th'[p].pc \in {"look_age", "miss"}
    BY <1>0, <1>4, LookReadEffect DEF Becomes
  <2> QED
    BY <1>1, <1>2, <2>1, SilentKept DEF LearnPCs
<1>5. CASE LookAge(p)
  <2>1. /\ \A q \in Ports \ {p} : th'[q] = th[q]
        /\ th'[p].pc = (IF ageing > 0 THEN "look_seen" ELSE "look_port")
        /\ th'[p].age = ageing
    BY <1>0, <1>5, LookAgeEffect DEF Becomes
  <2> QED
    BY <1>1, <1>2, <2>1, TimeFacts, SilentKept DEF LearnPCs
<1>6. CASE LookSeen(p)
  <2> DEFINE seen == heap[th[p].key][th[p].ent].seenAt
  <2>1. /\ th[p].key \in macKey /\ th[p].ent \in Slots
        /\ \A q \in Ports \ {p} : th'[q] = th[q]
        /\ th'[p].key = th[p].key /\ th'[p].now = th[p].now /\ th'[p].age = th[p].age
        /\ th'[p].pc = IF th[p].now - seen > th[p].age THEN "miss" ELSE "look_port"
    BY <1>0, <1>6, LookSeenEffect DEF Becomes
  <2>2. /\ seen <= heard[th[p].key] /\ seen \in Int /\ heard[th[p].key] \in Int
        /\ th[p].now \in Int /\ th[p].age \in Int
    BY <2>1, TimeFacts DEF SilentInv
  <2> HIDE DEF seen
  <2>3. th'[p].pc = "look_port" => th'[p].now - heard'[th'[p].key] <= th'[p].age
    BY <1>0, <2>1, <2>2
  <2>4. th'[p].pc \in {"miss", "look_port"}
    BY <2>1
  <2> QED
    BY <1>1, <1>2, <2>1, <2>3, <2>4, SilentKept DEF LearnPCs
<1>7. CASE LookPort(p)
  <2>1. /\ th[p].pc = "look_port" /\ \A q \in Ports \ {p} : th'[q] = th[q]
        /\ th'[p].key = th[p].key /\ th'[p].now = th[p].now /\ th'[p].age = th[p].age
        /\ th'[p].pc = "hit"
    BY <1>0, <1>7, LookPortEffect DEF Becomes
  <2>2. th'[p].age > 0 => th'[p].now - heard'[th'[p].key] <= th'[p].age
    BY <1>0, <2>1 DEF SilentInv
  <2> QED
    BY <1>1, <1>2, <2>1, <2>2, SilentKept DEF LearnPCs
<1> QED
  BY <1>3, <1>4, <1>5, <1>6, <1>7 DEF HStep

\* Neither a Lookup's call, nor a return, nor reap, nor the clock matters.
LEMMA SilentOther ==
  ASSUME TypeOK, TypeOK', SilentInv,
         \/ \E p \in Ports : HReturn(p) \/ \E k \in macKey, t \in Time : HLookup(p, k, t)
         \/ HOther
         \/ UNCHANGED vars
  PROVE  SilentInv'
<1>0. FdbInv
  BY DEF TypeOK, FdbInv
<1>1. ASSUME NEW p \in Ports, HReturn(p) PROVE SilentInv'
  <2>1. /\ th'[p].pc = "idle" /\ \A q \in Ports \ {p} : th'[q] = th[q]
        /\ UNCHANGED <<heap, heard>>
    BY <1>1 DEF HReturn, Return, TypeOK, FdbTypeOK, IdleThread
  <2>2. /\ \A k \in macKey : heard[k] <= heard'[k]
        /\ \A k \in macKey, s \in Slots : heap'[k][s].seenAt <= heard'[k]
    BY <2>1, TimeFacts DEF SilentInv
  <2> QED
    BY <2>1, <2>2, SilentKept DEF LearnPCs
<1>2. ASSUME NEW p \in Ports, NEW k \in macKey, NEW t \in Time, HLookup(p, k, t)
      PROVE  SilentInv'
  <2>1. th'[p].pc = "look_read" /\ \A q \in Ports \ {p} : th'[q] = th[q]
    BY <1>0, <1>2, LookupCallEffect DEF HLookup
  <2>2. UNCHANGED <<heap, heard>>
    BY <1>2 DEF HLookup, Lookup
  <2>3. /\ \A j \in macKey : heard[j] <= heard'[j]
        /\ \A j \in macKey, s \in Slots : heap'[j][s].seenAt <= heard'[j]
    BY <2>2, TimeFacts DEF SilentInv
  <2> QED
    BY <2>1, <2>3, SilentKept DEF LearnPCs
<1>3. CASE HOther \/ UNCHANGED vars
  <2>1. UNCHANGED <<th, heap, heard>>
    BY <1>3 DEF HOther, vars, fdbVars, histVars, GcTick, ReapStep, ReapLoad, ReapLock,
       ReapEntry, ReapUnlock, Tick, SetAgeing
  <2> QED
    BY <2>1 DEF SilentInv
<1> QED
  BY <1>1, <1>2, <1>3

LEMMA SilentInvariant == Spec => [](TypeOK /\ SilentInv)
<1>1. ASSUME Init PROVE TypeOK /\ SilentInv
  BY <1>1, TypeInit, SilentInit
<1>2. ASSUME TypeOK /\ SilentInv, [Next]_vars PROVE (TypeOK /\ SilentInv)'
  <2>1. TypeOK'
    BY <1>2, TypeStep
  <2>2. SilentInv'
    BY <1>2, <2>1, SilentLearn, SilentLearned, SilentStep, SilentOther DEF Next, Step
  <2> QED
    BY <2>1, <2>2
<1> QED
  BY <1>1, <1>2, PTL DEF Spec

(***************************************************************************)
(* With ageing on, a Lookup hits only a station heard at most the ageing    *)
(* duration before its now, for any number of ports, keys and clock values  *)
(* and although the clock may be set back.                                  *)
(***************************************************************************)
THEOREM NoSilentHitAlways == Spec => []NoSilentHit
<1>1. SilentInv => NoSilentHit
  BY DEF SilentInv, NoSilentHit
<1> QED
  BY <1>1, SilentInvariant, PTL
-----------------------------------------------------------------------------
(***************************************************************************)
(* HitWasCurrent.  Between finding an entry and reading its port a Lookup   *)
(* holds a pointer only.  As long as the map has the entry, the port is     *)
(* current; once the map has dropped it, nobody can reach it to move it.    *)
(* So the port in it is always one that was current during the call.        *)
(***************************************************************************)
Holding == {"look_age", "look_seen", "look_port"}

HeldCurrent(p) ==
  th[p].pc \in Holding => heap[th[p].key][th[p].ent].portIdx \in current[p]
OutCurrent(p) == th[p].pc = "hit" => th[p].out \in current[p]

WatchInv == \A p \in Ports : HeldCurrent(p) /\ OutCurrent(p)

\* During a Lookup current only grows, and has what the map shows.
LEMMA WatchGrows ==
  ASSUME Watch, NEW p \in Ports
  PROVE  /\ th'[p].pc \in LookPCs =>
              current[p] \subseteq current'[p] /\ Shown(th[p].key)' \subseteq current'[p]
         /\ th'[p].pc = "hit" => current'[p] = current[p]
<1>1. "hit" \notin LookPCs
  BY DEF LookPCs
<1> QED
  BY <1>1 DEF Watch

\* A goroutine that others work beside.
LEMMA WatchKept ==
  ASSUME TypeOK, Watch, WatchInv, NEW p \in Ports, th'[p] = th[p],
         \A k \in macKey, s \in Slots :
           heap'[k][s].portIdx = heap[k][s].portIdx \/ table'[k] = s
  PROVE  HeldCurrent(p)' /\ OutCurrent(p)'
<1>1. ASSUME th[p].pc \in Holding
      PROVE  heap'[th[p].key][th[p].ent].portIdx \in current'[p]
  <2> DEFINE k == th[p].key
             e == th[p].ent
  <2>1. k \in macKey /\ e \in Slots /\ e # Nil
    BY <1>1, CallInProgress, PortFacts DEF TypeOK, FdbInv, Holding, Pointing
  <2>2. th'[p].pc \in LookPCs
    BY <1>1 DEF Holding, LookPCs
  <2>3. current[p] \subseteq current'[p] /\ Shown(th[p].key)' \subseteq current'[p]
    BY <2>2, WatchGrows
  <2>4. heap[k][e].portIdx \in current[p]
    BY <1>1 DEF WatchInv, HeldCurrent
  <2>5. CASE heap'[k][e].portIdx = heap[k][e].portIdx
    BY <2>3, <2>4, <2>5
  <2>6. CASE table'[k] = e
    <3>1. Shown(th[p].key)' = {heap'[k][e].portIdx}
      BY <2>1, <2>6 DEF Shown
    <3> QED
      BY <2>3, <3>1
  <2> QED
    BY <2>1, <2>5, <2>6
<1>2. HeldCurrent(p)'
  BY <1>1 DEF HeldCurrent
<1>3. OutCurrent(p)'
  BY WatchGrows DEF WatchInv, OutCurrent
<1> QED
  BY <1>2, <1>3

\* The goroutine whose call goes on.
LEMMA WatchCall ==
  ASSUME TypeOK, Watch, WatchInv, NEW p \in Ports, CallStep(p)
  PROVE  WatchInv'
<1>0. FdbInv
  BY DEF TypeOK, FdbInv
<1>1. /\ \A q \in Ports \ {p} : th'[q] = th[q]
      /\ th'[p].key = th[p].key /\ th[p].key \in macKey
      /\ \/ th[p].pc \in LearnPCs /\ th'[p].pc \in LearnPCs \cup {"learned"}
         \/ th[p].pc \in LookPCs /\ th'[p].pc \in LookPCs \cup {"hit", "miss"}
  BY <1>0, CallGoesOn
<1>2. ASSUME NEW q \in Ports \ {p} PROVE HeldCurrent(q)' /\ OutCurrent(q)'
  BY <1>0, <1>1, CallMovesMapped, WatchKept
<1> DEFINE k == th[p].key
<1>3. ASSUME th'[p].pc \in Holding
      PROVE  heap'[k][th'[p].ent].portIdx \in current'[p]
  <2>1. /\ UNCHANGED <<table, heap>>
        /\ \/ th[p].pc \in Pointing /\ th'[p].ent = th[p].ent
           \/ table[k] # Nil /\ th'[p].ent = table[k]
    BY <1>0, <1>3, CallReads DEF Holding, Pointing
  <2>2. th'[p].pc \in LookPCs /\ th[p].pc \in LookPCs
    BY <1>1, <1>3 DEF Holding, LookPCs, LearnPCs
  <2>3. current[p] \subseteq current'[p] /\ Shown(th[p].key)' \subseteq current'[p]
    BY <2>2, WatchGrows
  <2>4. CASE th[p].pc \in Pointing /\ th'[p].ent = th[p].ent
    <3>1. th[p].pc \in Holding
      BY <2>2, <2>4 DEF Pointing, LookPCs, Holding
    <3> QED
      BY <2>1, <2>3, <2>4, <3>1 DEF WatchInv, HeldCurrent
  <2>5. CASE table[k] # Nil /\ th'[p].ent = table[k]
    <3>1. Shown(th[p].key)' = {heap[k][table[k]].portIdx}
      BY <1>1, <2>1, <2>5 DEF Shown
    <3> QED
      BY <2>1, <2>3, <2>5, <3>1
  <2> QED
    BY <2>1, <2>4, <2>5
<1>4. HeldCurrent(p)'
  BY <1>1, <1>3 DEF HeldCurrent
<1>5. OutCurrent(p)'
  <2> SUFFICES ASSUME th'[p].pc = "hit" PROVE th'[p].out \in current'[p]
    BY DEF OutCurrent
  <2>1. th[p].pc \in Pointing /\ th'[p].out = heap[k][th[p].ent].portIdx
    BY <1>0, CallReads
  <2>2. th[p].pc \in Holding
    BY <1>1, <2>1 DEF Pointing, LookPCs, LearnPCs, Holding
  <2>3. current'[p] = current[p]
    BY WatchGrows
  <2> QED
    BY <2>1, <2>2, <2>3 DEF WatchInv, HeldCurrent
<1> QED
  BY <1>2, <1>4, <1>5 DEF WatchInv

\* A call begins or its result is taken, and the table is as it was.
LEMMA WatchCaller ==
  ASSUME TypeOK, Watch, WatchInv, NEW p \in Ports,
         \/ \E k \in macKey : HLearn(p, k, clock)
         \/ \E k \in macKey, t \in Time : HLookup(p, k, t)
         \/ HReturn(p)
  PROVE  WatchInv'
<1>0. FdbInv /\ clock \in Time
  BY DEF TypeOK, FdbInv, FdbTypeOK
<1>1. UNCHANGED heap
  BY DEF HLearn, HLookup, HReturn, Learn, Lookup, Return
<1>2. /\ th'[p].pc \in {"learn_read", "look_read", "idle"}
      /\ \A q \in Ports \ {p} : th'[q] = th[q]
  <2>1. ASSUME NEW k \in macKey, HLearn(p, k, clock)
        PROVE  th'[p].pc = "learn_read" /\ \A q \in Ports \ {p} : th'[q] = th[q]
    BY <1>0, <2>1, LearnCallEffect DEF HLearn
  <2>2. ASSUME NEW k \in macKey, NEW t \in Time, HLookup(p, k, t)
        PROVE  th'[p].pc = "look_read" /\ \A q \in Ports \ {p} : th'[q] = th[q]
    BY <1>0, <2>2, LookupCallEffect DEF HLookup
  <2>3. ASSUME HReturn(p)
        PROVE  th'[p].pc = "idle" /\ \A q \in Ports \ {p} : th'[q] = th[q]
    BY <1>0, <2>3 DEF HReturn, Return, FdbInv, FdbTypeOK, IdleThread
  <2> QED
    BY <2>1, <2>2, <2>3
<1>3. ASSUME NEW q \in Ports \ {p} PROVE HeldCurrent(q)' /\ OutCurrent(q)'
  BY <1>1, <1>2, WatchKept
<1>4. HeldCurrent(p)' /\ OutCurrent(p)'
  BY <1>2 DEF HeldCurrent, OutCurrent, Holding
<1> QED
  BY <1>3, <1>4 DEF WatchInv

\* The ageing goroutine deletes entries and changes none.
LEMMA WatchOther ==
  ASSUME TypeOK, Watch, WatchInv, HOther
  PROVE  WatchInv'
<1>1. UNCHANGED <<th, heap>>
  BY DEF HOther, GcTick, ReapStep, ReapLoad, ReapLock, ReapEntry, ReapUnlock, Tick, SetAgeing
<1>2. ASSUME NEW q \in Ports PROVE HeldCurrent(q)' /\ OutCurrent(q)'
  BY <1>1, WatchKept
<1> QED
  BY <1>2 DEF WatchInv

LEMMA WatchInvariant == Spec => [](TypeOK /\ WatchInv)
<1>1. ASSUME Init PROVE TypeOK /\ WatchInv
  <2>1. \A p \in Ports : th[p].pc = "idle"
    BY <1>1 DEF Init, FdbInit, IdleThread
  <2> QED
    BY <1>1, <2>1, TypeInit DEF WatchInv, HeldCurrent, OutCurrent, Holding
<1>2. ASSUME TypeOK /\ WatchInv, [Next]_vars PROVE (TypeOK /\ WatchInv)'
  <2>1. TypeOK'
    BY <1>2, TypeStep
  <2>2. CASE UNCHANGED vars
    BY <1>2, <2>1, <2>2 DEF vars, fdbVars, WatchInv, HeldCurrent, OutCurrent
  <2>3. CASE Step /\ Watch
    <3>1. ASSUME NEW p \in Ports, HStep(p) \/ HLearned(p) PROVE CallStep(p)
      BY <3>1 DEF HStep, HLearned, CallStep
    <3>2. WatchInv'
      BY <1>2, <2>3, <3>1, WatchCall, WatchCaller, WatchOther DEF Step
    <3> QED
      BY <2>1, <3>2
  <2> QED
    BY <1>2, <2>2, <2>3 DEF Next
<1> QED
  BY <1>1, <1>2, PTL DEF Spec

(***************************************************************************)
(* A hit was current, for any number of ports, keys and clock values: what  *)
(* Lookup returns is what the table said at some moment of the call.        *)
(***************************************************************************)
THEOREM HitWasCurrentAlways == Spec => []HitWasCurrent
<1>1. WatchInv => HitWasCurrent
  BY DEF WatchInv, OutCurrent, HitWasCurrent
<1> QED
  BY <1>1, WatchInvariant, PTL
=============================================================================
