-------------------------- MODULE EngineStopProofs --------------------------
(***************************************************************************)
(* Stop, for any number of ports and of callers: no handle is used after it *)
(* was closed, and whichever call returns, everything has ended by then.    *)
(*                                                                         *)
(* Both need the same argument.  stopOnce lets one caller through; it waits *)
(* for every goroutine before it closes the first handle; a goroutine that  *)
(* has ended stays so; and the others return only after that caller has.    *)
(*                                                                         *)
(* Then the counters of the ports: every copy of a frame is accounted for.  *)
(***************************************************************************)
EXTENDS EngineProofs, FiniteSetTheorems

\* Every goroutine the engine started has ended.
Ended == (\A p \in Ports : rx[p].pc = "exited") /\ gc.pc = "exited"

\* Where the caller that stopOnce let through is.
Stopping(s) == stp[s].pc \in {"wait", "close"}

\* The one caller that runs the body of stopOnce.
OnceOK ==
  /\ \A s, t \in Stoppers : Stopping(s) /\ Stopping(t) => s = t
  /\ \A s \in Stoppers : Stopping(s) => once = "running"
  /\ \A s \in Stoppers : stp[s].pc = "returned" => once = "done"
  /\ \A s \in Stoppers : stp[s].pc \in {"idle", "wait"} => stp[s].next = 0

\* The handles are closed in port order, after the last goroutine has ended.
CloseOK ==
  /\ \A s \in Stoppers : stp[s].pc = "close" =>
       Ended /\ \A p \in Ports : closes[p] = IF p < stp[s].next THEN 1 ELSE 0
  /\ once = "done" => Ended /\ \A p \in Ports : closes[p] = 1
  /\ once # "done" /\ (\A s \in Stoppers : stp[s].pc # "close")
       => \A p \in Ports : closes[p] = 0

\* The counters and the history.
CounterTypes ==
  /\ stats \in [Ports -> portStats]
  /\ arrived \in 0 .. MaxFrames
  /\ heardOn \in [macKey -> SUBSET Ports]
  /\ owed \in [Ports -> Nat]

StopTypes ==
  /\ done \in BOOLEAN
  /\ once \in {"new", "running", "done"}
  /\ stp \in [Stoppers -> [pc : {"idle", "wait", "close", "blocked", "returned"},
                           next : 0 .. NumPorts]]
  /\ closes \in [Ports -> Nat]

StopInv == EngineInv /\ CounterTypes /\ StopTypes /\ OnceOK /\ CloseOK
-----------------------------------------------------------------------------
\* Counting a frame keeps the counters well-typed.
LEMMA CountTypes ==
  ASSUME NEW c \in [Ports -> portStats], NEW p \in Ports
  PROVE  /\ [c EXCEPT ![p].rxFrames = @ + 1] \in [Ports -> portStats]
         /\ [c EXCEPT ![p].rxFrames = @ + 1, ![p].forwardDrop = @ + 1]
              \in [Ports -> portStats]
         /\ [c EXCEPT ![p].flooded = @ + 1] \in [Ports -> portStats]
         /\ [c EXCEPT ![p].txFrames = @ + 1] \in [Ports -> portStats]
         /\ [c EXCEPT ![p].txDrop = @ + 1] \in [Ports -> portStats]
<1>1. c[p] \in portStats
  OBVIOUS
<1>2. ASSUME NEW r \in portStats PROVE [c EXCEPT ![p] = r] \in [Ports -> portStats]
  OBVIOUS
<1>3. [c[p] EXCEPT !.rxFrames = @ + 1] \in portStats
  BY <1>1 DEF portStats
<1>4. [c[p] EXCEPT !.rxFrames = @ + 1, !.forwardDrop = @ + 1] \in portStats
  <2>1. ASSUME NEW r \in portStats, NEW m \in Nat, NEW n \in Nat
        PROVE  [r EXCEPT !.rxFrames = m, !.forwardDrop = n] \in portStats
    BY DEF portStats
  <2>2. c[p].rxFrames + 1 \in Nat /\ c[p].forwardDrop + 1 \in Nat
    BY <1>1 DEF portStats
  <2> QED
    BY <1>1, <2>1, <2>2
<1>5. [c[p] EXCEPT !.flooded = @ + 1] \in portStats
  BY <1>1 DEF portStats
<1>6. [c[p] EXCEPT !.txFrames = @ + 1] \in portStats
  BY <1>1 DEF portStats
<1>7. [c[p] EXCEPT !.txDrop = @ + 1] \in portStats
  BY <1>1 DEF portStats
<1> QED
  BY <1>2, <1>3, <1>4, <1>5, <1>6, <1>7

\* So does owing one more copy.
LEMMA OweType ==
  ASSUME owed \in [Ports -> Nat], NEW ps, Owe(ps)
  PROVE  owed' \in [Ports -> Nat]
<1>1. \A q \in Ports : owed[q] + (IF q \in ps THEN 1 ELSE 0) \in Nat
  OBVIOUS
<1> QED
  BY <1>1 DEF Owe

\* A step of an rx goroutine leaves Stop alone and counts what it does.
LEMMA RxStepCounts ==
  ASSUME EngineInv, CounterTypes, NEW p \in Ports, RxStep(p)
  PROVE  CounterTypes' /\ UNCHANGED stopVars
<1>0. /\ stats \in [Ports -> portStats] /\ arrived \in 0 .. MaxFrames
      /\ heardOn \in [macKey -> SUBSET Ports] /\ MaxFrames \in Nat
      /\ owed \in [Ports -> Nat]
      /\ rx[p] \in Rx /\ RxOK(p)
  BY EngineAssumption DEF CounterTypes, EngineInv
<1>1. CASE \/ Select(p) \/ Timeout(p) \/ ReadError(p)
           \/ CallStep(p) /\ UNCHANGED engineVars
           \/ Learned(p) \/ RouteUnicast(p) \/ EmitLock(p) \/ EmitDone(p)
  <2>1. UNCHANGED <<stats, stopVars, arrived, heardOn, owed>>
    BY <1>1 DEF Select, Timeout, ReadError, engineVars, Learned, RouteUnicast, EmitLock,
       EmitDone, envVars
  <2> QED
    BY <2>1 DEF CounterTypes
<1>2. ASSUME NEW f \in Frames, ReceiveDrop(p, f) PROVE CounterTypes' /\ UNCHANGED stopVars
  <2>1. /\ stats' = [stats EXCEPT ![p].rxFrames = @ + 1, ![p].forwardDrop = @ + 1]
        /\ arrived < MaxFrames /\ arrived' = arrived + 1
        /\ UNCHANGED <<heardOn, owed, stopVars>>
    BY <1>2 DEF ReceiveDrop
  <2>2. stats' \in [Ports -> portStats]
    BY <1>0, <2>1, CountTypes
  <2>3. arrived' \in 0 .. MaxFrames
    BY <1>0, <2>1
  <2> QED
    BY <1>0, <2>1, <2>2, <2>3 DEF CounterTypes
<1>3. ASSUME NEW f \in Frames, NEW v \in VIDs, Receive(p, f, v)
      PROVE  CounterTypes' /\ UNCHANGED stopVars
  <2>1. /\ stats' = [stats EXCEPT ![p].rxFrames = @ + 1]
        /\ arrived < MaxFrames /\ arrived' = arrived + 1
        /\ UNCHANGED <<stopVars, owed>>
    BY <1>3 DEF Receive
  <2>2. stats' \in [Ports -> portStats]
    BY <1>0, <2>1, CountTypes
  <2>3. arrived' \in 0 .. MaxFrames
    BY <1>0, <2>1
  <2>4. heardOn' \in [macKey -> SUBSET Ports]
    <3>1. CASE f.src \in Unicast
      BY <1>0, <1>3, <3>1 DEF Receive
    <3>2. CASE f.src \notin Unicast
      BY <1>0, <1>3, <3>2 DEF Receive
    <3> QED
      BY <3>1, <3>2
  <2> QED
    BY <1>0, <2>1, <2>2, <2>3, <2>4 DEF CounterTypes
<1>4. CASE RouteGroup(p) \/ Miss(p)
  <2>1. /\ stats' = [stats EXCEPT ![p].flooded = @ + 1]
        /\ Owe({q \in Ports \ {p} : Member(q, rx[p].vid)})
        /\ UNCHANGED <<stopVars, arrived, heardOn>>
    BY <1>4 DEF RouteGroup, Miss, Flood
  <2>2. stats' \in [Ports -> portStats] /\ owed' \in [Ports -> Nat]
    BY <1>0, <2>1, CountTypes, OweType
  <2> QED
    BY <1>0, <2>1, <2>2 DEF CounterTypes
<1>5. CASE WriteOk(p) \/ WriteFail(p)
  <2>1. rx[p].cur \in Ports
    BY <1>0, <1>5 DEF WriteOk, WriteFail, RxOK, Rx
  <2>2. /\ \/ stats' = [stats EXCEPT ![rx[p].cur].txFrames = @ + 1]
           \/ stats' = [stats EXCEPT ![rx[p].cur].txDrop = @ + 1]
        /\ UNCHANGED <<stopVars, arrived, heardOn, owed>>
    BY <1>5 DEF WriteOk, WriteFail, envVars
  <2>3. /\ [stats EXCEPT ![rx[p].cur].txFrames = @ + 1] \in [Ports -> portStats]
        /\ [stats EXCEPT ![rx[p].cur].txDrop = @ + 1] \in [Ports -> portStats]
    BY <1>0, <2>1, CountTypes
  <2> QED
    BY <1>0, <2>2, <2>3 DEF CounterTypes
<1>6. CASE Hit(p)
  <2>1. Owe({th[p].out} \ {p}) /\ UNCHANGED <<stats, stopVars, arrived, heardOn>>
    BY <1>6 DEF Hit
  <2>2. owed' \in [Ports -> Nat]
    BY <1>0, <2>1, OweType
  <2> QED
    BY <1>0, <2>1, <2>2 DEF CounterTypes
<1> QED
  BY <1>1, <1>2, <1>3, <1>4, <1>5, <1>6 DEF RxStep, ReadReturns

\* A goroutine that has ended takes no step: rxLoop has returned, and so has
\* the call of the table it was in.
LEMMA EndedIsFinal ==
  ASSUME EngineInv, Ended, [Next]_vars
  PROVE  UNCHANGED <<rx, stats, gc, th, mu, table, heap, envVars>>
<1>1. ASSUME NEW p \in Ports, RxStep(p) PROVE FALSE
  <2>1. rx[p].pc = "exited" /\ th[p].pc = "idle"
    BY DEF EngineInv, RxOK, Ended
  <2>2. ~CallStep(p)
    BY <2>1 DEF CallStep, LearnRead, LearnCheck, LearnRefresh, LearnLock, LearnMove,
       LearnTouch, LearnInsert, LookRead, LookAge, LookSeen, LookPort
  <2> QED
    BY <1>1, <2>1, <2>2 DEF RxStep, ReadReturns, Select, Timeout, ReadError, ReceiveDrop,
       Receive, Learned, RouteUnicast, RouteGroup, Hit, Miss, EmitLock, WriteOk, WriteFail,
       EmitDone
<1>2. ~GcStep
  BY DEF Ended, GcStep, GcTick, ReapStep, ReapLoad, ReapLock, ReapEntry, ReapUnlock, GcExit
<1>3. ASSUME NEW s \in Stoppers, StopCall(s) \/ StopStep(s)
      PROVE  UNCHANGED <<rx, stats, gc, th, mu, table, heap, envVars>>
  BY <1>3 DEF StopCall, StopStep, StopWait, StopClose, StopReturn, StopUnblock, fdbVars
<1>4. CASE (Tick \/ \E d \in Ageings : SetAgeing(d)) /\ UNCHANGED engineVars
  BY <1>4 DEF Tick, SetAgeing, engineVars
<1>5. CASE UNCHANGED vars
  BY <1>5 DEF vars, fdbVars, engineVars
<1> QED
  BY <1>1, <1>2, <1>3, <1>4, <1>5 DEF Next

\* What does not touch Stop's variables keeps its invariant.
LEMMA StopUntouched ==
  ASSUME StopTypes, OnceOK, CloseOK, UNCHANGED stopVars, Ended => Ended'
  PROVE  StopTypes' /\ OnceOK' /\ CloseOK'
<1>0. UNCHANGED <<done, once, stp, closes>>
  BY DEF stopVars
<1>1. StopTypes'
  BY <1>0 DEF StopTypes
<1>2. OnceOK'
  BY <1>0 DEF OnceOK, Stopping
<1>3. CloseOK'
  BY <1>0 DEF CloseOK
<1> QED
  BY <1>1, <1>2, <1>3

\* What a step of caller s does: it goes on at pc with the next port to close.
StpBecomes(s, pc, next) ==
  /\ stp' \in [Stoppers -> [pc : {"idle", "wait", "close", "blocked", "returned"},
                            next : 0 .. NumPorts]]
  /\ \A t \in Stoppers \ {s} : stp'[t] = stp[t]
  /\ stp'[s].pc = pc /\ stp'[s].next = next

\* stopOnce.Do is entered.
LEMMA StopCallKept ==
  ASSUME StopTypes, OnceOK, CloseOK, NEW s \in Stoppers, StopCall(s)
  PROVE  StopTypes' /\ OnceOK' /\ CloseOK'
<1> DEFINE pc == CASE once = "new"     -> "wait"
                   [] once = "running" -> "blocked"
                   [] once = "done"    -> "returned"
<1>1. /\ stp[s].pc = "idle" /\ stp[s].next = 0
      /\ stp' = [stp EXCEPT ![s].pc = pc]
      /\ once' = IF once = "new" THEN "running" ELSE once
      /\ done' = TRUE /\ closes' = closes /\ UNCHANGED <<rx, gc>>
  BY DEF StopCall, OnceOK, fdbVars
<1>2. \/ once = "new" /\ pc = "wait" /\ once' = "running"
      \/ once = "running" /\ pc = "blocked" /\ once' = "running"
      \/ once = "done" /\ pc = "returned" /\ once' = "done"
  BY <1>1 DEF StopTypes
<1> HIDE DEF pc
<1>3. pc \in {"wait", "blocked", "returned"}
  BY <1>2
<1>4. StpBecomes(s, pc, 0)
  BY <1>1, <1>3 DEF StpBecomes, StopTypes
<1>5. StopTypes'
  BY <1>1, <1>2, <1>4 DEF StpBecomes, StopTypes
<1>6. OnceOK'
  BY <1>2, <1>4 DEF StpBecomes, OnceOK, Stopping
<1>7. Ended' <=> Ended
  BY <1>1 DEF Ended
<1>8. CloseOK'
  BY <1>1, <1>2, <1>4, <1>7 DEF StpBecomes, CloseOK
<1> QED
  BY <1>5, <1>6, <1>8

\* wg.Wait returns: now the handles may be closed.
LEMMA StopWaitKept ==
  ASSUME StopTypes, OnceOK, CloseOK, NEW s \in Stoppers, StopWait(s)
  PROVE  StopTypes' /\ OnceOK' /\ CloseOK'
<1>1. /\ stp[s].pc = "wait" /\ stp[s].next = 0 /\ once = "running"
      /\ stp' = [stp EXCEPT ![s].pc = "close"]
      /\ Ended /\ UNCHANGED <<done, once, closes, rx, gc>>
  BY DEF StopWait, OnceOK, Stopping, Ended, fdbVars
<1>2. StpBecomes(s, "close", 0)
  BY <1>1 DEF StpBecomes, StopTypes
<1>3. \A t \in Stoppers \ {s} : ~Stopping(t)
  BY <1>1 DEF OnceOK, Stopping
<1>4. \A t \in Stoppers : stp[t].pc # "close"
  BY <1>1, <1>3 DEF Stopping
<1>5. \A p \in Ports : closes[p] = 0
  BY <1>1, <1>4 DEF CloseOK
<1>6. StopTypes'
  BY <1>1, <1>2 DEF StpBecomes, StopTypes
<1>7. OnceOK'
  BY <1>1, <1>2 DEF StpBecomes, OnceOK, Stopping
<1>8. Ended'
  BY <1>1 DEF Ended
<1>9. \A p \in Ports : ~(p < 0)
  BY PortFacts, ConfigAssumption DEF Ports
<1>10. CloseOK'
  BY <1>1, <1>2, <1>4, <1>5, <1>8, <1>9 DEF StpBecomes, CloseOK
<1> QED
  BY <1>6, <1>7, <1>10

\* One more handle is closed.
LEMMA StopCloseKept ==
  ASSUME StopTypes, OnceOK, CloseOK, NEW s \in Stoppers, StopClose(s)
  PROVE  StopTypes' /\ OnceOK' /\ CloseOK'
<1> DEFINE n == stp[s].next
<1>1. /\ stp[s].pc = "close" /\ n \in Ports /\ once = "running"
      /\ closes' = [closes EXCEPT ![n] = @ + 1]
      /\ stp' = [stp EXCEPT ![s].next = n + 1]
      /\ UNCHANGED <<done, once, rx, gc>>
  BY DEF StopClose, OnceOK, Stopping, fdbVars, StopTypes
<1>2. n \in Int /\ n + 1 \in 0 .. NumPorts
  BY <1>1, ConfigAssumption DEF Ports
<1>3. StpBecomes(s, "close", n + 1)
  BY <1>1, <1>2 DEF StpBecomes, StopTypes
<1>4. \A t \in Stoppers \ {s} : ~Stopping(t)
  BY <1>1 DEF OnceOK, Stopping
<1>5. \A t \in Stoppers \ {s} : stp[t].pc # "close"
  BY <1>4 DEF Stopping
<1>6. Ended /\ \A p \in Ports : closes[p] = IF p < n THEN 1 ELSE 0
  BY <1>1 DEF CloseOK
<1>7. \A p \in Ports : closes'[p] = IF p < n + 1 THEN 1 ELSE 0
  <2> SUFFICES ASSUME NEW p \in Ports PROVE closes'[p] = IF p < n + 1 THEN 1 ELSE 0
    OBVIOUS
  <2>1. p \in Int /\ closes'[p] = IF p = n THEN closes[p] + 1 ELSE closes[p]
    BY <1>1, PortFacts DEF StopTypes
  <2>2. closes[p] = IF p < n THEN 1 ELSE 0
    BY <1>6
  <2> HIDE DEF n
  <2> QED
    BY <1>2, <2>1, <2>2
<1>8. StopTypes'
  BY <1>1, <1>3 DEF StpBecomes, StopTypes
<1>9. OnceOK'
  BY <1>1, <1>3 DEF StpBecomes, OnceOK, Stopping
<1>10. Ended'
  BY <1>1, <1>6 DEF Ended
<1> HIDE DEF n
<1>11. CloseOK'
  BY <1>1, <1>3, <1>5, <1>7, <1>10 DEF StpBecomes, CloseOK
<1> QED
  BY <1>8, <1>9, <1>11

\* The body of stopOnce is done, and with it the first call of Stop.
LEMMA StopReturnKept ==
  ASSUME StopTypes, OnceOK, CloseOK, NEW s \in Stoppers, StopReturn(s)
  PROVE  StopTypes' /\ OnceOK' /\ CloseOK'
<1>1. /\ stp[s].pc = "close" /\ stp[s].next = NumPorts
      /\ stp' = [stp EXCEPT ![s].pc = "returned"] /\ once' = "done"
      /\ UNCHANGED <<done, closes, rx, gc>>
  BY DEF StopReturn, fdbVars
<1>2. StpBecomes(s, "returned", NumPorts)
  BY <1>1 DEF StpBecomes, StopTypes
<1>3. \A t \in Stoppers \ {s} : ~Stopping(t)
  BY <1>1 DEF OnceOK, Stopping
<1>4. Ended /\ \A p \in Ports : closes[p] = IF p < NumPorts THEN 1 ELSE 0
  BY <1>1 DEF CloseOK
<1>5. \A p \in Ports : p < NumPorts
  BY ConfigAssumption DEF Ports
<1>6. Ended' /\ \A p \in Ports : closes'[p] = 1
  BY <1>1, <1>4, <1>5 DEF Ended
<1>7. StopTypes'
  BY <1>1, <1>2 DEF StpBecomes, StopTypes
<1>8. OnceOK'
  BY <1>1, <1>2, <1>3 DEF StpBecomes, OnceOK, Stopping
<1>9. CloseOK'
  BY <1>1, <1>2, <1>3, <1>6 DEF StpBecomes, CloseOK, Stopping
<1> QED
  BY <1>7, <1>8, <1>9

\* A caller that waited for the first one returns after it.
LEMMA StopUnblockKept ==
  ASSUME StopTypes, OnceOK, CloseOK, NEW s \in Stoppers, StopUnblock(s)
  PROVE  StopTypes' /\ OnceOK' /\ CloseOK'
<1>1. /\ stp[s].pc = "blocked" /\ once = "done"
      /\ stp' = [stp EXCEPT ![s].pc = "returned"]
      /\ UNCHANGED <<done, once, closes, rx, gc>>
  BY DEF StopUnblock, fdbVars
<1>2. StpBecomes(s, "returned", stp[s].next)
  BY <1>1 DEF StpBecomes, StopTypes
<1>3. StopTypes'
  BY <1>1, <1>2 DEF StpBecomes, StopTypes
<1>4. OnceOK'
  BY <1>1, <1>2 DEF StpBecomes, OnceOK, Stopping
<1>5. Ended' <=> Ended
  BY <1>1 DEF Ended
<1>6. CloseOK'
  BY <1>1, <1>2, <1>5 DEF StpBecomes, CloseOK
<1> QED
  BY <1>3, <1>4, <1>6
-----------------------------------------------------------------------------
LEMMA StopInvInit == ASSUME Init PROVE StopInv
<1>1. EngineInv
  BY EngineInvInit
<1>2. CounterTypes
  BY EngineAssumption DEF Init, CounterTypes, portStats
<1>3. StopTypes
  <2>1. [pc |-> "idle", next |-> 0] \in
          [pc : {"idle", "wait", "close", "blocked", "returned"}, next : 0 .. NumPorts]
    BY ConfigAssumption
  <2> QED
    BY <2>1 DEF Init, StopTypes
<1>4. OnceOK
  BY DEF Init, OnceOK, Stopping
<1>5. CloseOK
  BY DEF Init, CloseOK
<1> QED
  BY <1>1, <1>2, <1>3, <1>4, <1>5 DEF StopInv

LEMMA StopInvStep == ASSUME StopInv, [Next]_vars PROVE StopInv'
<1>0. EngineInv /\ CounterTypes /\ StopTypes /\ OnceOK /\ CloseOK
  BY DEF StopInv
<1>1. EngineInv'
  BY <1>0, EngineInvStep
<1>2. Ended => Ended'
  BY <1>0, EndedIsFinal DEF Ended
<1>3. ASSUME NEW p \in Ports, RxStep(p) PROVE StopInv'
  <2>1. CounterTypes' /\ UNCHANGED stopVars
    BY <1>0, <1>3, RxStepCounts
  <2> QED
    BY <1>0, <1>1, <1>2, <2>1, StopUntouched DEF StopInv
<1>4. CASE UNCHANGED engineVars
  <2>1. UNCHANGED <<stats, arrived, heardOn, owed, stopVars>>
    BY <1>4 DEF engineVars, envVars
  <2>2. CounterTypes'
    BY <1>0, <2>1 DEF CounterTypes
  <2> QED
    BY <1>0, <1>1, <1>2, <2>1, <2>2, StopUntouched DEF StopInv
<1>5. ASSUME NEW s \in Stoppers, StopCall(s) \/ StopStep(s) PROVE StopInv'
  <2>1. UNCHANGED <<stats, arrived, heardOn, owed>>
    BY <1>5 DEF StopCall, StopStep, StopWait, StopClose, StopReturn, StopUnblock, envVars
  <2>2. CounterTypes'
    BY <1>0, <2>1 DEF CounterTypes
  <2>3. StopTypes' /\ OnceOK' /\ CloseOK'
    BY <1>0, <1>5, StopCallKept, StopWaitKept, StopCloseKept, StopReturnKept,
       StopUnblockKept DEF StopStep
  <2> QED
    BY <1>1, <2>2, <2>3 DEF StopInv
<1>6. GcExit => UNCHANGED engineVars
  BY DEF GcExit
<1> QED
  BY <1>3, <1>4, <1>5, <1>6 DEF Next, GcStep, vars

LEMMA StopInvAlways == Spec => []StopInv
<1>1. Init => StopInv
  BY StopInvInit
<1>2. StopInv /\ [Next]_vars => StopInv'
  BY StopInvStep
<1> QED
  BY <1>1, <1>2, PTL DEF Spec

(***************************************************************************)
(* The state of the engine is well-typed: every goroutine, counter and      *)
(* caller of Stop is always in one of the states engine.go gives it.        *)
(***************************************************************************)
THEOREM EngineTypeCorrect == Spec => []TypeOK
<1>1. StopInv => TypeOK
  BY DEF StopInv, EngineInv, FdbInv, CounterTypes, StopTypes, TypeOK
<1> QED
  BY <1>1, StopInvAlways, PTL

(***************************************************************************)
(* No use after close, for any number of ports and callers of Stop: Stop    *)
(* closes no handle that rxLoop is reading or emit is writing.              *)
(***************************************************************************)
THEOREM NoUseAfterCloseAlways == Spec => []NoUseAfterClose
<1>1. ASSUME StopInv PROVE NoUseAfterClose
  <2>1. ASSUME NEW p \in Ports, rx[p].pc \in {"read", "write"}
        PROVE  \A q \in Ports : closes[q] = 0
    <3>1. ~Ended
      BY <2>1 DEF Ended
    <3> QED
      BY <1>1, <3>1 DEF StopInv, CloseOK
  <2>2. ASSUME NEW p \in Ports, rx[p].pc = "write" PROVE rx[p].cur \in Ports
    BY <1>1, <2>2 DEF StopInv, EngineInv, RxOK, Rx
  <2> QED
    BY <2>1, <2>2 DEF NoUseAfterClose
<1> QED
  BY <1>1, StopInvAlways, PTL

(***************************************************************************)
(* Whichever caller of Stop returns, by then every goroutine has ended and  *)
(* every handle has been closed exactly once.                               *)
(***************************************************************************)
THEOREM StopReturnsCleanAlways == Spec => []StopReturnsClean
<1>1. ASSUME StopInv PROVE StopReturnsClean
  BY <1>1 DEF StopInv, OnceOK, CloseOK, Ended, StopReturnsClean
<1> QED
  BY <1>1, StopInvAlways, PTL

(***************************************************************************)
(* Stop is final, for any number of ports and callers: once a call of Stop  *)
(* has returned, the engine does nothing more.  The body of stopOnce has    *)
(* run to its end by then, so no caller is on its way to the handles.       *)
(***************************************************************************)
THEOREM StopIsFinalAlways == Spec => StopIsFinal
<1> DEFINE Final == (\E s \in Stoppers : stp[s].pc = "returned") =>
                      UNCHANGED <<rx, stats, closes, gc, th, mu, table, heap, envVars>>
<1>1. ASSUME StopInv, [Next]_vars, NEW s \in Stoppers, stp[s].pc = "returned"
      PROVE  UNCHANGED <<rx, stats, closes, gc, th, mu, table, heap, envVars>>
  <2>1. once = "done" /\ Ended /\ EngineInv
    BY <1>1 DEF StopInv, OnceOK, CloseOK
  <2>2. UNCHANGED <<rx, stats, gc, th, mu, table, heap, envVars>>
    BY <1>1, <2>1, EndedIsFinal
  <2>3. ASSUME NEW t \in Stoppers PROVE ~StopClose(t)
    BY <1>1, <2>1 DEF StopInv, OnceOK, Stopping, StopClose
  <2>4. UNCHANGED closes
    <3>1. ASSUME NEW p \in Ports, RxStep(p) PROVE UNCHANGED closes
      BY <1>1, <2>1, <3>1, RxStepCounts DEF StopInv, stopVars
    <3>2. CASE UNCHANGED vars \/ UNCHANGED engineVars \/ GcExit
      BY <3>2 DEF vars, engineVars, stopVars, GcExit
    <3>3. ASSUME NEW t \in Stoppers, StopCall(t) \/ StopStep(t) PROVE UNCHANGED closes
      BY <2>3, <3>3 DEF StopCall, StopStep, StopWait, StopReturn, StopUnblock
    <3> QED
      BY <1>1, <3>1, <3>2, <3>3 DEF Next, GcStep
  <2> QED
    BY <2>2, <2>4
<1>2. StopInv /\ [Next]_vars => [Final]_vars
  BY <1>1
<1>3. Spec => [][Final]_vars
  BY <1>2, StopInvAlways, PTL DEF Spec
<1> QED
  BY <1>3 DEF StopIsFinal
-----------------------------------------------------------------------------
(* The account of the copies, port by port. *)

\* The goroutines that still have a copy to write to port q.
pendingOn(q) == {p \in Ports : q \in rx[p].todo}

Balanced ==
  \A q \in Ports :
    owed[q] = Cardinality(pendingOn(q)) + stats[q].txFrames + stats[q].txDrop

\* Only emit has ports left to write to.
TodoOK == \A p \in Ports : rx[p].pc \notin {"emit", "write"} => rx[p].todo = {}

CopyInv == StopInv /\ TodoOK /\ Balanced

\* Goroutine p goes on at pc with the ports todo left to write to.
Moves(p, pc, todo) ==
  /\ \A q \in Ports \ {p} : rx'[q] = rx[q]
  /\ rx'[p].pc = pc /\ rx'[p].todo = todo

LEMMA PendingFinite ==
  ASSUME NEW q
  PROVE  IsFiniteSet(pendingOn(q)) /\ Cardinality(pendingOn(q)) \in Nat
<1>1. 0 \in Int /\ NumPorts - 1 \in Int
  BY ConfigAssumption
<1>2. IsFiniteSet(Ports)
  BY <1>1, FS_Interval DEF Ports
<1>3. pendingOn(q) \in SUBSET Ports
  BY DEF pendingOn
<1> QED
  BY <1>2, <1>3, FS_Subset, FS_CardinalityType

\* A goroutine that had nothing to write gets the ports todo to write to.
LEMMA PendingMore ==
  ASSUME NEW p \in Ports, NEW pc, NEW todo, Moves(p, pc, todo), rx[p].todo = {}, NEW q
  PROVE  Cardinality(pendingOn(q)')
           = Cardinality(pendingOn(q)) + (IF q \in todo THEN 1 ELSE 0)
<1>1. IsFiniteSet(pendingOn(q)) /\ Cardinality(pendingOn(q)) \in Nat
  BY PendingFinite
<1>2. p \notin pendingOn(q)
  BY DEF pendingOn
<1>3. CASE q \in todo
  <2>1. pendingOn(q)' = pendingOn(q) \cup {p}
    BY <1>3 DEF pendingOn, Moves
  <2>2. Cardinality(pendingOn(q) \cup {p}) = Cardinality(pendingOn(q)) + 1
    BY <1>1, <1>2, FS_AddElement
  <2> QED
    BY <1>3, <2>1, <2>2
<1>4. CASE q \notin todo
  <2>1. pendingOn(q)' = pendingOn(q)
    BY <1>2, <1>4 DEF pendingOn, Moves
  <2> QED
    BY <1>1, <1>4, <2>1
<1> QED
  BY <1>3, <1>4

\* A goroutine is done with one port of its list.
LEMMA PendingLess ==
  ASSUME NEW p \in Ports, NEW pc, NEW out \in rx[p].todo,
         Moves(p, pc, rx[p].todo \ {out}), NEW q
  PROVE  Cardinality(pendingOn(q)')
           = Cardinality(pendingOn(q)) - (IF q = out THEN 1 ELSE 0)
<1>1. IsFiniteSet(pendingOn(q)) /\ Cardinality(pendingOn(q)) \in Nat
  BY PendingFinite
<1>2. CASE q = out
  <2>1. p \in pendingOn(q) /\ pendingOn(q)' = pendingOn(q) \ {p}
    BY <1>2 DEF pendingOn, Moves
  <2>2. Cardinality(pendingOn(q) \ {p}) = Cardinality(pendingOn(q)) - 1
    BY <1>1, <2>1, FS_RemoveElement
  <2> QED
    BY <1>2, <2>1, <2>2
<1>3. CASE q # out
  <2>1. pendingOn(q)' = pendingOn(q)
    BY <1>3 DEF pendingOn, Moves
  <2> QED
    BY <1>1, <1>3, <2>1
<1> QED
  BY <1>2, <1>3

\* TodoOK asks only about the goroutine that moved.
LEMMA TodoKept ==
  ASSUME TodoOK, NEW p \in Ports, NEW pc, NEW todo, Moves(p, pc, todo),
         pc \notin {"emit", "write"} => todo = {}
  PROVE  TodoOK'
  BY DEF TodoOK, Moves

\* A step that decides nothing and writes nothing.
LEMMA QuietMove ==
  ASSUME CopyInv, NEW p \in Ports, NEW pc, Moves(p, pc, rx[p].todo), UNCHANGED owed,
         \A q \in Ports : /\ stats'[q].txFrames = stats[q].txFrames
                          /\ stats'[q].txDrop = stats[q].txDrop,
         pc \notin {"emit", "write"} => rx[p].todo = {}
  PROVE  TodoOK' /\ Balanced'
<1>1. \A q \in Ports : pendingOn(q)' = pendingOn(q)
  BY DEF pendingOn, Moves
<1>2. Balanced'
  BY <1>1 DEF Balanced, CopyInv
<1> QED
  BY <1>2, TodoKept DEF CopyInv

LEMMA CopyIdle ==
  ASSUME CopyInv, NEW p \in Ports,
         \/ Select(p) \/ Timeout(p) \/ ReadError(p) \/ Learned(p) \/ RouteUnicast(p)
         \/ EmitLock(p) \/ EmitDone(p)
  PROVE  TodoOK' /\ Balanced'
<1>0. rx \in [Ports -> Rx] /\ rx[p] \in Rx /\ TodoOK
  BY DEF CopyInv, StopInv, EngineInv
<1>1. UNCHANGED <<stats, owed>>
  BY DEF Select, Timeout, ReadError, Learned, RouteUnicast, EmitLock, EmitDone, envVars
<1>2. CASE Select(p)
  <2> DEFINE pc == IF done THEN "exited" ELSE "read"
  <2>1. rx[p].pc = "select" /\ rx[p].todo = {} /\ rx' = [rx EXCEPT ![p] = RxAt(pc)]
    BY <1>0, <1>2 DEF Select, TodoOK
  <2> HIDE DEF pc
  <2>2. Moves(p, pc, rx[p].todo)
    BY <1>0, <2>1 DEF Moves, RxAt
  <2> QED
    BY <1>1, <2>1, <2>2, QuietMove
<1>3. CASE EmitDone(p)
  <2>1. rx[p].pc = "emit" /\ rx[p].todo = {} /\ Moves(p, "select", rx[p].todo)
    BY <1>0, <1>3 DEF EmitDone, Moves, RxAt
  <2> QED
    BY <1>1, <2>1, QuietMove
<1>4. CASE EmitLock(p)
  <2>1. PICK out \in rx[p].todo : rx' = [rx EXCEPT ![p].pc = "write", ![p].cur = out]
    BY <1>4 DEF EmitLock
  <2>2. Moves(p, "write", rx[p].todo)
    BY <1>0, <2>1 DEF Moves, Rx
  <2> QED
    BY <1>1, <2>2, QuietMove
<1>5. CASE Timeout(p) \/ ReadError(p) \/ Learned(p) \/ RouteUnicast(p)
  <2>1. rx[p].pc \in {"read", "learn", "route"} /\ rx[p].todo = {}
    BY <1>0, <1>5 DEF Timeout, ReadError, Learned, RouteUnicast, TodoOK
  <2>2. PICK pc \in {"select", "exited", "route", "lookup"} : rx' = [rx EXCEPT ![p].pc = pc]
    BY <1>5 DEF Timeout, ReadError, Learned, RouteUnicast
  <2>3. Moves(p, pc, rx[p].todo)
    BY <1>0, <2>2 DEF Moves, Rx
  <2> QED
    BY <1>1, <2>1, <2>2, <2>3, QuietMove
<1> QED
  BY <1>2, <1>3, <1>4, <1>5

\* A frame comes in: nothing is owed to anyone before forward has decided.
LEMMA CopyReceive ==
  ASSUME CopyInv, NEW p \in Ports, NEW f \in Frames, NEW v \in VIDs,
         ReceiveDrop(p, f) \/ Receive(p, f, v)
  PROVE  TodoOK' /\ Balanced'
<1>0. /\ rx \in [Ports -> Rx] /\ rx[p] \in Rx /\ stats \in [Ports -> portStats]
      /\ rx[p].pc = "read" /\ rx[p].todo = {}
  BY DEF CopyInv, StopInv, EngineInv, CounterTypes, TodoOK, ReceiveDrop, Receive
<1>1. UNCHANGED owed
  BY DEF ReceiveDrop, Receive
<1>2. \A q \in Ports : /\ stats'[q].txFrames = stats[q].txFrames
                       /\ stats'[q].txDrop = stats[q].txDrop
  BY <1>0 DEF ReceiveDrop, Receive, portStats
<1>3. CASE ReceiveDrop(p, f)
  <2>1. Moves(p, "select", rx[p].todo)
    BY <1>0, <1>3 DEF ReceiveDrop, Moves, Rx
  <2> QED
    BY <1>0, <1>1, <1>2, <2>1, QuietMove
<1>4. CASE Receive(p, f, v)
  <2> DEFINE pc == IF f.src \in Unicast THEN "learn" ELSE "route"
  <2>1. rx' = [rx EXCEPT ![p] = [RxAt(pc) EXCEPT !.frame = f, !.vid = v, !.now = clock]]
    BY <1>4 DEF Receive
  <2> HIDE DEF pc
  <2>2. Moves(p, pc, rx[p].todo)
    BY <1>0, <2>1 DEF Moves, RxAt
  <2> QED
    BY <1>0, <1>1, <1>2, <2>2, QuietMove
<1> QED
  BY <1>3, <1>4

\* The index NewEngine builds has all the ports of the VLAN.
LEMMA FloodIsVlan ==
  ASSUME NEW vid
  PROVE  vidMembers(vid) = {q \in Ports : Member(q, vid)}
<1>1. ASSUME NEW q \in Ports, Member(q, vid) PROVE q \in vidMembers(vid)
  <2>1. CASE role(q) = "trunk"
    BY <1>1, <2>1, RoleFacts DEF vidMembers, Member
  <2>2. CASE role(q) = "access"
    BY <1>1, <2>2, RoleFacts DEF vidMembers, Member
  <2>3. CASE role(q) = "plain"
    BY <1>1, <2>3, RoleFacts DEF vidMembers, Member
  <2> QED
    BY <2>1, <2>2, <2>3, RoleFacts
<1> QED
  BY <1>1, FloodMember

\* forward has decided: a copy is owed to each port it goes to.
LEMMA CopyDecided ==
  ASSUME CopyInv, NEW p \in Ports, NEW ps, Moves(p, "emit", ps), Owe(ps),
         rx[p].todo = {},
         \A q \in Ports : /\ stats'[q].txFrames = stats[q].txFrames
                          /\ stats'[q].txDrop = stats[q].txDrop
  PROVE  TodoOK' /\ Balanced'
<1>1. ASSUME NEW q \in Ports
      PROVE  owed'[q] = Cardinality(pendingOn(q)') + stats'[q].txFrames + stats'[q].txDrop
  <2> DEFINE n == Cardinality(pendingOn(q))
             d == IF q \in ps THEN 1 ELSE 0
             w == stats[q].txFrames
             x == stats[q].txDrop
  <2>1. Cardinality(pendingOn(q)') = n + d
    BY PendingMore
  <2>2. owed'[q] = owed[q] + d
    BY DEF Owe
  <2>3. owed[q] = n + w + x
    BY DEF CopyInv, Balanced
  <2>4. n \in Nat /\ d \in Nat /\ w \in Nat /\ x \in Nat
    BY PendingFinite DEF CopyInv, StopInv, CounterTypes, portStats
  <2>5. stats'[q].txFrames = w /\ stats'[q].txDrop = x
    OBVIOUS
  <2> HIDE DEF n, d, w, x
  <2> QED
    BY <2>1, <2>2, <2>3, <2>4, <2>5
<1>2. Balanced'
  BY <1>1 DEF Balanced
<1> QED
  BY <1>2, TodoKept DEF CopyInv

\* A frame is flooded to the ports the contract of the VLAN names.
LEMMA CopyFlood ==
  ASSUME CopyInv, NEW p \in Ports, RouteGroup(p) \/ Miss(p)
  PROVE  TodoOK' /\ Balanced'
<1>0. /\ rx \in [Ports -> Rx] /\ rx[p] \in Rx /\ stats \in [Ports -> portStats]
      /\ rx[p].todo = {}
  BY DEF CopyInv, StopInv, EngineInv, CounterTypes, TodoOK, RouteGroup, Miss
<1> DEFINE out == {q \in Ports \ {p} : Member(q, rx[p].vid)}
<1>1. /\ rx' = [rx EXCEPT ![p].pc = "emit", ![p].todo = vidMembers(rx[p].vid) \ {p}]
      /\ stats' = [stats EXCEPT ![p].flooded = @ + 1]
      /\ Owe(out)
  BY DEF RouteGroup, Miss, Flood
<1>2. vidMembers(rx[p].vid) \ {p} = out
  BY FloodIsVlan
<1> HIDE DEF out
<1>3. Moves(p, "emit", out)
  BY <1>0, <1>1, <1>2 DEF Moves, Rx
<1>4. \A q \in Ports : /\ stats'[q].txFrames = stats[q].txFrames
                       /\ stats'[q].txDrop = stats[q].txDrop
  BY <1>0, <1>1 DEF portStats
<1> QED
  BY <1>0, <1>1, <1>3, <1>4, CopyDecided

\* A known destination: one copy, or none when it is behind the port itself.
LEMMA CopyHit ==
  ASSUME CopyInv, NEW p \in Ports, Hit(p)
  PROVE  TodoOK' /\ Balanced'
<1>0. rx \in [Ports -> Rx] /\ rx[p] \in Rx /\ rx[p].todo = {} /\ UNCHANGED stats
  BY DEF CopyInv, StopInv, EngineInv, TodoOK, Hit
<1> DEFINE out == {th[p].out} \ {p}
<1>1. rx' = [rx EXCEPT ![p].pc = "emit", ![p].todo = out] /\ Owe(out)
  BY DEF Hit
<1> HIDE DEF out
<1>2. Moves(p, "emit", out)
  BY <1>0, <1>1 DEF Moves, Rx
<1> QED
  BY <1>0, <1>1, <1>2, CopyDecided

\* A copy is written, or lost and counted.
LEMMA CopyWrite ==
  ASSUME CopyInv, NEW p \in Ports, WriteOk(p) \/ WriteFail(p)
  PROVE  TodoOK' /\ Balanced'
<1> DEFINE out == rx[p].cur
<1>0. /\ rx \in [Ports -> Rx] /\ rx[p] \in Rx /\ stats \in [Ports -> portStats]
      /\ out \in rx[p].todo /\ out \in Ports /\ UNCHANGED owed
  BY DEF CopyInv, StopInv, EngineInv, RxOK, CounterTypes, WriteOk, WriteFail, Rx, envVars
<1>1. Moves(p, "emit", rx[p].todo \ {out})
  <2>1. CASE WriteOk(p)
    BY <1>0, <2>1 DEF WriteOk, Moves, Rx
  <2>2. CASE WriteFail(p)
    BY <1>0, <2>2 DEF WriteFail, Moves, Rx
  <2> QED
    BY <2>1, <2>2
<1>2. \/ stats' = [stats EXCEPT ![out].txFrames = @ + 1]
      \/ stats' = [stats EXCEPT ![out].txDrop = @ + 1]
  BY DEF WriteOk, WriteFail
<1> HIDE DEF out
<1>3. ASSUME NEW q \in Ports
      PROVE  owed'[q] = Cardinality(pendingOn(q)') + stats'[q].txFrames + stats'[q].txDrop
  <2> DEFINE n == Cardinality(pendingOn(q))
             d == IF q = out THEN 1 ELSE 0
             w == stats[q].txFrames
             x == stats[q].txDrop
  <2>1. Cardinality(pendingOn(q)') = n - d
    BY <1>0, <1>1, PendingLess DEF out
  <2>2. owed'[q] = n + w + x
    BY <1>0 DEF CopyInv, Balanced
  <2>3. n \in Nat /\ d \in Nat /\ w \in Nat /\ x \in Nat
    BY <1>0, PendingFinite DEF portStats
  <2>4. \/ stats'[q].txFrames = w + d /\ stats'[q].txDrop = x
        \/ stats'[q].txFrames = w /\ stats'[q].txDrop = x + d
    <3>1. CASE q = out
      BY <1>0, <1>2, <3>1 DEF portStats
    <3>2. CASE q # out
      <4>1. stats'[q] = stats[q]
        BY <1>0, <1>2, <3>2
      <4>2. w + d = w
        BY <2>3, <3>2
      <4> QED
        BY <4>1, <4>2
    <3> QED
      BY <3>1, <3>2
  <2> HIDE DEF n, d, w, x
  <2> QED
    BY <2>1, <2>2, <2>3, <2>4
<1>4. Balanced'
  BY <1>3 DEF Balanced
<1> QED
  BY <1>1, <1>4, TodoKept DEF CopyInv
-----------------------------------------------------------------------------
LEMMA CopyInvInit == ASSUME Init PROVE CopyInv
<1>1. StopInv
  BY StopInvInit
<1>2. \A p \in Ports : rx[p].pc = "select" /\ rx[p].todo = {}
  BY DEF Init, RxAt
<1>3. ASSUME NEW q \in Ports
      PROVE  owed[q] = Cardinality(pendingOn(q)) + stats[q].txFrames + stats[q].txDrop
  <2>1. pendingOn(q) = {}
    BY <1>2 DEF pendingOn
  <2>2. Cardinality(pendingOn(q)) = 0
    BY <2>1, FS_EmptySet
  <2>3. owed[q] = 0 /\ stats[q].txFrames = 0 /\ stats[q].txDrop = 0
    BY DEF Init
  <2> QED
    BY <2>2, <2>3
<1> QED
  BY <1>1, <1>2, <1>3 DEF CopyInv, TodoOK, Balanced

LEMMA CopyInvStep == ASSUME CopyInv, [Next]_vars PROVE CopyInv'
<1>1. StopInv'
  BY StopInvStep DEF CopyInv
<1>2. CASE UNCHANGED <<rx, stats, owed>>
  <2>1. \A q : pendingOn(q)' = pendingOn(q)
    BY <1>2 DEF pendingOn
  <2>2. TodoOK' /\ Balanced'
    BY <1>2, <2>1 DEF TodoOK, Balanced, CopyInv
  <2> QED
    BY <1>1, <2>2 DEF CopyInv
<1>3. ASSUME NEW p \in Ports, RxStep(p) PROVE CopyInv'
  <2>1. CASE CallStep(p) /\ UNCHANGED engineVars
    BY <1>2, <2>1 DEF engineVars, envVars
  <2>2. CASE ~(CallStep(p) /\ UNCHANGED engineVars)
    <3>1. TodoOK' /\ Balanced'
      BY <1>3, <2>2, CopyIdle, CopyReceive, CopyFlood, CopyHit, CopyWrite, ConfigAssumption
         DEF RxStep, ReadReturns
    <3> QED
      BY <1>1, <3>1 DEF CopyInv
  <2> QED
    BY <2>1, <2>2
<1>4. ASSUME ~\E p \in Ports : RxStep(p) PROVE UNCHANGED <<rx, stats, owed>>
  BY <1>4 DEF Next, GcStep, GcExit, StopCall, StopStep, StopWait, StopClose, StopReturn,
     StopUnblock, engineVars, envVars, vars
<1> QED
  BY <1>2, <1>3, <1>4

(***************************************************************************)
(* Copies are accounted for, whatever the roles of the ports, their number  *)
(* and the traffic: on every port, each copy forward decided to send there  *)
(* is still on the list of a goroutine in emit, or was counted once, as     *)
(* written or as lost.                                                      *)
(***************************************************************************)
THEOREM CopiesAccountedAlways == Spec => []CopiesAccounted
<1>1. Init => CopyInv
  BY CopyInvInit
<1>2. CopyInv /\ [Next]_vars => CopyInv'
  BY CopyInvStep
<1>3. CopyInv => CopiesAccounted
  BY DEF CopyInv, Balanced, pendingOn, CopiesAccounted
<1> QED
  BY <1>1, <1>2, <1>3, PTL DEF Spec
=============================================================================
