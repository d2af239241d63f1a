-------------------------- MODULE RefinementProofs --------------------------
(***************************************************************************)
(* The engine implements LearningSwitch, for any number of ports, any       *)
(* configuration NewEngine accepts and any traffic of simple frames.        *)
(*                                                                         *)
(* Receive is Admit; the lookup's hit or miss, or the flood of a group      *)
(* frame, is Resolve; a write is Send or Lose; the end of forward is        *)
(* Finish; and every other step, of the table too, leaves the abstract      *)
(* state alone.  What is not immediate is Resolve after a hit: the port the *)
(* lookup returned must have heard the destination, though the entry it was *)
(* read from may have been moved or deleted since it was found.             *)
(***************************************************************************)
EXTENDS EngineStopProofs, SequenceTheorems

\* Frames with at most one tag, and none in a switch of plain ports.  For other
\* frames the engine does not do what LearningSwitch promises: it classifies by
\* the innermost tag and strips tags on plain ports (see PlainTransparent).
SimpleFrames ==
  \A f \in Frames : f.eth =>
    /\ Len(f.tags) <= 1
    /\ (\E p \in Ports : role(p) = "plain") => f.tags = <<>>

\* Whatever the table holds, or a goroutine still holds of it, is a port the
\* address was heard on.
HeardOK ==
  /\ \A k \in macKey : table[k] # Nil => heap[k][table[k]].portIdx \in heardOn[k]
  /\ \A p \in Ports :
       /\ th[p].pc \in LearnPCs => p \in heardOn[th[p].key]
       /\ th[p].pc \in Pointing => heap[th[p].key][th[p].ent].portIdx \in heardOn[th[p].key]
       /\ th[p].pc = "hit" => th[p].out \in heardOn[th[p].key]

\* Between frames a goroutine has nothing left of the last one; the VLAN of the
\* frame at hand is the one it was classified into.
FlightOK(p) ==
  /\ rx[p].frame = Nil => rx[p].vid = 0 /\ rx[p].todo = {} /\ rx[p].sent = {}
  /\ rx[p].frame # Nil => rx[p].frame.eth /\ rx[p].vid \in classify(p, rx[p].frame.tags)

RefInv == StopInv /\ HeardOK /\ \A p \in Ports : FlightOK(p)
-----------------------------------------------------------------------------
(* Classification, flooding and tagging against the contract. *)

\* A sequence with one element.
LEMMA OneTag ==
  ASSUME NEW tags \in Seq(VIDs), tags # <<>>, Len(tags) <= 1
  PROVE  tags = <<tags[Len(tags)]>>
<1> DEFINE n == Len(tags)
<1>0. n \in Nat \ {0} /\ n <= 1
  BY EmptySeq
<1>1. Len(tags) = 1
  <2> HIDE DEF n
  <2>1. n = 1
    BY <1>0
  <2> QED
    BY <2>1 DEF n
<1>2. /\ <<tags[1]>> \in Seq(VIDs) /\ Len(<<tags[1]>>) = 1
      /\ \A i \in 1 .. 1 : <<tags[1]>>[i] = tags[i]
  BY <1>1
<1> QED
  BY <1>1, <1>2, SeqEqual

\* A frame is accepted only into the VLAN its tag says.
LEMMA ClassifyIsVlanOf ==
  ASSUME SimpleFrames, NEW p \in Ports, NEW f \in Frames, f.eth,
         NEW vid \in classify(p, f.tags)
  PROVE  vid \in LS!VlanOf(p, f)
<1>0. f.tags \in Seq(VIDs) /\ Len(f.tags) <= 1
  BY EngineAssumption DEF Frame, SimpleFrames
<1>1. CASE role(p) = "trunk"
  <2>1. f.tags # <<>> /\ vid = f.tags[Len(f.tags)] /\ vid \in Cfg[p].trunk
    BY <1>1 DEF classify, hasTag, tagVID
  <2>2. f.tags = <<vid>>
    BY <1>0, <2>1, OneTag
  <2> QED
    BY <1>1, <2>1, <2>2, RoleFacts DEF LS!VlanOf
<1>2. CASE role(p) = "access"
  BY <1>2, RoleFacts DEF classify, hasTag, LS!VlanOf
<1>3. CASE role(p) = "plain"
  BY <1>3, RoleFacts DEF classify, LS!VlanOf
<1> QED
  BY <1>1, <1>2, <1>3, RoleFacts

\* emit tags a copy as the port's configuration says.
LEMMA EmitIsEgress ==
  ASSUME SimpleFrames, NEW p \in Ports, NEW f \in Frames, f.eth,
         NEW vid \in classify(p, f.tags), NEW q \in Ports
  PROVE  emitTags(q, f.tags, vid) = LS!EgressTags(q, f, vid)
<1>0. f.tags \in Seq(VIDs) /\ Len(f.tags) <= 1
  BY EngineAssumption DEF Frame, SimpleFrames
<1>1. CASE role(q) = "trunk"
  <2>1. LS!EgressTags(q, f, vid) = <<vid>>
    BY <1>1, RoleFacts DEF LS!EgressTags
  <2>2. CASE f.tags = <<>>
    BY <1>1, <2>1, <2>2 DEF emitTags, hasTag
  <2>3. CASE f.tags # <<>>
    <3>1. role(p) # "access"
      BY <2>3 DEF classify, hasTag
    <3>2. role(p) # "plain"
      BY <2>3 DEF SimpleFrames
    <3>3. vid = f.tags[Len(f.tags)]
      BY <2>3, <3>1, <3>2, RoleFacts DEF classify, hasTag, tagVID
    <3>4. f.tags = <<vid>>
      BY <1>0, <2>3, <3>3, OneTag
    <3> QED
      BY <1>1, <2>1, <2>3, <3>4 DEF emitTags, hasTag
  <2> QED
    BY <2>2, <2>3
<1>2. CASE role(q) = "access"
  <2>1. LS!EgressTags(q, f, vid) = <<>>
    BY <1>2, RoleFacts DEF LS!EgressTags
  <2> QED
    BY <1>2, <2>1 DEF emitTags, hasTag
<1>3. CASE role(q) = "plain"
  <2>1. f.tags = <<>> /\ LS!EgressTags(q, f, vid) = f.tags
    BY <1>3, RoleFacts DEF SimpleFrames, LS!EgressTags
  <2> QED
    BY <1>3, <2>1 DEF emitTags, hasTag
<1> QED
  BY <1>1, <1>2, <1>3, RoleFacts
-----------------------------------------------------------------------------
(* The table holds only ports the address was heard on. *)

\* A step of a call.
LEMMA CallHeard ==
  ASSUME FdbInv, HeardOK, NEW p \in Ports, CallStep(p), UNCHANGED heardOn
  PROVE  HeardOK'
<1>1. /\ \A q \in Ports \ {p} : th'[q] = th[q]
      /\ th'[p].key = th[p].key /\ th[p].key \in macKey
      /\ th'[p].pc \in LearnPCs => th[p].pc \in LearnPCs
  BY CallGoesOn DEF LearnPCs, LookPCs
<1>2. ASSUME NEW k \in macKey, NEW s \in Slots, heap[k][s].portIdx \in heardOn[k]
      PROVE  heap'[k][s].portIdx \in heardOn[k]
  BY <1>2, CallWrites DEF HeardOK
<1>3. ASSUME NEW k \in macKey, table'[k] # Nil
      PROVE  heap'[k][table'[k]].portIdx \in heardOn[k]
  <2>1. CASE table'[k] = table[k]
    <3>1. table[k] \in Slots /\ heap[k][table[k]].portIdx \in heardOn[k]
      BY <1>3, <2>1 DEF FdbInv, FdbTypeOK, HeardOK
    <3> QED
      BY <1>2, <2>1, <3>1
  <2>2. CASE table'[k] # table[k]
    BY <2>2, CallWrites DEF HeardOK
  <2> QED
    BY <2>1, <2>2
<1>4. ASSUME NEW q \in Ports
      PROVE  /\ th'[q].pc \in LearnPCs => q \in heardOn[th'[q].key]
             /\ th'[q].pc \in Pointing =>
                  heap'[th'[q].key][th'[q].ent].portIdx \in heardOn[th'[q].key]
             /\ th'[q].pc = "hit" => th'[q].out \in heardOn[th'[q].key]
  <2>1. CASE q # p
    <3>1. th'[q] = th[q]
      BY <1>1, <2>1
    <3>2. ASSUME th[q].pc \in Pointing
          PROVE  heap'[th[q].key][th[q].ent].portIdx \in heardOn[th[q].key]
      <4>1. th[q].pc # "idle"
        BY <3>2 DEF Pointing
      <4>2. th[q].key \in macKey /\ th[q].ent \in Slots
        BY <3>2, <4>1, CallInProgress
      <4>3. heap[th[q].key][th[q].ent].portIdx \in heardOn[th[q].key]
        BY <3>2 DEF HeardOK
      <4> QED
        BY <1>2, <4>2, <4>3
    <3> QED
      BY <3>1, <3>2 DEF HeardOK
  <2>2. CASE q = p
    <3>1. ASSUME th'[p].pc \in Pointing
          PROVE  heap'[th[p].key][th'[p].ent].portIdx \in heardOn[th[p].key]
      <4>1. UNCHANGED heap
        BY <3>1, CallReads
      <4>2. CASE th[p].pc \in Pointing /\ th'[p].ent = th[p].ent
        BY <4>1, <4>2 DEF HeardOK
      <4>3. CASE table[th[p].key] # Nil /\ th'[p].ent = table[th[p].key]
        BY <1>1, <4>1, <4>3 DEF HeardOK
      <4> QED
        BY <3>1, <4>2, <4>3, CallReads
    <3>2. ASSUME th'[p].pc = "hit" PROVE th'[p].out \in heardOn[th[p].key]
      BY <3>2, CallReads DEF HeardOK
    <3> QED
      BY <1>1, <2>2, <3>1, <3>2 DEF HeardOK
  <2> QED
    BY <2>1, <2>2
<1> QED
  BY <1>3, <1>4 DEF HeardOK

\* The beginning and the end of a call: only a Learn adds to what was heard.
LEMMA CallerHeard ==
  ASSUME FdbInv, HeardOK, UNCHANGED <<table, heap>>, NEW p \in Ports,
         \A q \in Ports \ {p} : th'[q] = th[q],
         th'[p].pc \notin Pointing, th'[p].pc # "hit",
         th'[p].pc \in LearnPCs => p \in heardOn'[th'[p].key],
         \A k \in macKey : heardOn[k] \subseteq heardOn'[k]
  PROVE  HeardOK'
<1>1. \A k \in macKey : table'[k] # Nil => heap'[k][table'[k]].portIdx \in heardOn'[k]
  BY DEF HeardOK
<1>2. ASSUME NEW q \in Ports
      PROVE  /\ th'[q].pc \in LearnPCs => q \in heardOn'[th'[q].key]
             /\ th'[q].pc \in Pointing =>
                  heap'[th'[q].key][th'[q].ent].portIdx \in heardOn'[th'[q].key]
             /\ th'[q].pc = "hit" => th'[q].out \in heardOn'[th'[q].key]
  <2>1. CASE q = p
    BY <2>1
  <2>2. CASE q # p
    <3>1. th'[q] = th[q] /\ (th[q].pc # "idle" => th[q].key \in macKey)
      BY <2>2, CallInProgress
    <3>2. th[q].pc \in LearnPCs \cup Pointing \cup {"hit"} =>
            heardOn[th[q].key] \subseteq heardOn'[th[q].key]
      BY <3>1 DEF LearnPCs, Pointing
    <3> QED
      BY <3>1, <3>2 DEF HeardOK
  <2> QED
    BY <2>1, <2>2
<1> QED
  BY <1>1, <1>2 DEF HeardOK

\* Whatever only deletes entries.
LEMMA ReapHeard ==
  ASSUME HeardOK, UNCHANGED <<heap, th, heardOn>>,
         \A k \in macKey : table'[k] \in {table[k], Nil}
  PROVE  HeardOK'
  BY DEF HeardOK

LEMMA BackgroundHeard ==
  ASSUME FdbInv, HeardOK, UNCHANGED heardOn,
         GcTick \/ ReapStep \/ GcExit \/ Tick \/ \E d \in Ageings : SetAgeing(d)
  PROVE  HeardOK'
<1>1. CASE GcTick \/ ReapLoad \/ ReapLock \/ ReapUnlock \/ GcExit \/ Tick
           \/ \E d \in Ageings : SetAgeing(d)
  <2>1. UNCHANGED <<table, heap, th>>
    BY <1>1 DEF GcTick, ReapLoad, ReapLock, ReapUnlock, GcExit, Tick, SetAgeing
  <2> QED
    BY <2>1, ReapHeard
<1>2. ASSUME NEW k \in macKey, ReapEntry(k) PROVE HeardOK'
  <2>1. UNCHANGED <<heap, th>> /\ table' \in {table, [table EXCEPT ![k] = Nil]}
    BY <1>2 DEF ReapEntry
  <2>2. \A j \in macKey : table'[j] \in {table[j], Nil}
    BY <2>1 DEF FdbInv, FdbTypeOK
  <2> QED
    BY <2>1, <2>2, ReapHeard
<1> QED
  BY <1>1, <1>2 DEF ReapStep
-----------------------------------------------------------------------------
(* The abstract state. *)

stageOf(pc) == CASE pc \in {"learn", "route", "lookup"} -> "admitted"
                 [] pc \in {"emit", "write"}            -> "routed"
                 [] OTHER                               -> "idle"

Flight(frame, vid, stage, todo, sent) ==
  [frame |-> frame, vid |-> vid, stage |-> stage, todo |-> todo, sent |-> sent]

\* What a step of rx goroutine p does to its part of the abstract state.
Flies(p, pc, frame, vid, todo, sent) ==
  /\ \A q \in Ports \ {p} : rx'[q] = rx[q]
  /\ rx'[p].pc = pc /\ rx'[p].frame = frame /\ rx'[p].vid = vid
  /\ rx'[p].todo = todo /\ rx'[p].sent = sent

\* The abstract state of one goroutine.
LEMMA FlightBar ==
  ASSUME NEW p \in Ports
  PROVE  /\ flightBar[p] = Flight(rx[p].frame, rx[p].vid, stageOf(rx[p].pc),
                                  rx[p].todo, rx[p].sent)
         /\ flightBar = [q \in Ports |-> flightBar[q]]
  BY DEF flightBar, stageOf, Flight

LEMMA FlightStep ==
  ASSUME NEW p \in Ports, NEW pc, NEW frame, NEW vid, NEW todo, NEW sent,
         Flies(p, pc, frame, vid, todo, sent)
  PROVE  flightBar' = [flightBar EXCEPT ![p] = Flight(frame, vid, stageOf(pc), todo, sent)]
<1>1. flightBar' = [q \in Ports |-> Flight(rx'[q].frame, rx'[q].vid, stageOf(rx'[q].pc),
                                           rx'[q].todo, rx'[q].sent)]
  BY DEF flightBar, stageOf, Flight
<1>2. flightBar = [q \in Ports |-> Flight(rx[q].frame, rx[q].vid, stageOf(rx[q].pc),
                                          rx[q].todo, rx[q].sent)]
  BY DEF flightBar, stageOf, Flight
<1>3. \A q \in Ports \ {p} : rx'[q] = rx[q]
  BY DEF Flies
<1>4. Flight(rx'[p].frame, rx'[p].vid, stageOf(rx'[p].pc), rx'[p].todo, rx'[p].sent)
        = Flight(frame, vid, stageOf(pc), todo, sent)
  BY DEF Flies
<1> QED
  BY <1>1, <1>2, <1>3, <1>4

\* A step within a stage is invisible.
LEMMA FlightUnmoved ==
  ASSUME NEW p \in Ports, NEW pc, stageOf(pc) = stageOf(rx[p].pc),
         Flies(p, pc, rx[p].frame, rx[p].vid, rx[p].todo, rx[p].sent)
  PROVE  flightBar' = flightBar
<1>1. flightBar' = [flightBar EXCEPT ![p] = flightBar[p]]
  BY FlightStep, FlightBar
<1> QED
  BY <1>1, FlightBar
-----------------------------------------------------------------------------
(* Every step of the engine is a step of the learning switch, or invisible. *)

Simulates ==
  /\ HeardOK' /\ \A q \in Ports : FlightOK(q)'
  /\ LS!LSNext \/ UNCHANGED LS!lsVars

\* What the invariant says of goroutine p, in one place.
LEMMA RefFacts ==
  ASSUME RefInv, NEW p \in Ports
  PROVE  /\ FdbInv /\ EngineInv /\ HeardOK /\ CounterTypes
         /\ rx \in [Ports -> Rx] /\ rx[p] \in Rx /\ RxOK(p) /\ FlightOK(p)
         /\ rx[p].vid \in VIDs
         /\ rx[p].frame = Nil => flightBar[p] = LS!Idle
<1>1. /\ FdbInv /\ EngineInv /\ HeardOK /\ CounterTypes
      /\ rx \in [Ports -> Rx] /\ rx[p] \in Rx /\ RxOK(p) /\ FlightOK(p)
      /\ rx[p].vid \in VIDs
  BY DEF RefInv, StopInv, EngineInv, Rx
<1>2. ASSUME rx[p].frame = Nil PROVE flightBar[p] = LS!Idle
  <2>1. stageOf(rx[p].pc) = "idle"
    BY <1>1, <1>2 DEF RxOK, stageOf
  <2> QED
    BY <1>1, <1>2, <2>1, FlightBar DEF FlightOK, Flight, LS!Idle
<1> QED
  BY <1>1, <1>2

\* The other goroutines' frames are as they were.
LEMMA FlightKept ==
  ASSUME RefInv, NEW p \in Ports, \A q \in Ports \ {p} : rx'[q] = rx[q], FlightOK(p)'
  PROVE  \A q \in Ports : FlightOK(q)'
  BY DEF RefInv, FlightOK

\* rxLoop between frames: nothing to see.
LEMMA SimIdle ==
  ASSUME RefInv, NEW p \in Ports,
         Select(p) \/ Timeout(p) \/ ReadError(p) \/ \E f \in Frames : ReceiveDrop(p, f)
  PROVE  Simulates
<1>0. /\ FdbInv /\ HeardOK /\ rx \in [Ports -> Rx] /\ rx[p] \in Rx
      /\ RxOK(p) /\ FlightOK(p)
  BY RefFacts
<1>1. /\ rx[p].pc \in {"select", "read"} /\ UNCHANGED <<fdbVars, heardOn>>
      /\ \E pc \in {"select", "read", "exited"} :
           rx' \in {[rx EXCEPT ![p] = RxAt(pc)], [rx EXCEPT ![p].pc = pc]}
  BY DEF Select, Timeout, ReadError, ReceiveDrop, envVars
<1>2. rx[p].frame = Nil /\ rx[p].vid = 0 /\ rx[p].todo = {} /\ rx[p].sent = {}
  BY <1>0, <1>1 DEF RxOK, FlightOK
<1>3. PICK pc \in {"select", "read", "exited"} : Flies(p, pc, Nil, 0, {}, {})
  <2>1. PICK pc \in {"select", "read", "exited"} :
          rx' \in {[rx EXCEPT ![p] = RxAt(pc)], [rx EXCEPT ![p].pc = pc]}
    BY <1>1
  <2>2. CASE rx' = [rx EXCEPT ![p] = RxAt(pc)]
    BY <1>0, <2>2 DEF Flies, RxAt
  <2>3. CASE rx' = [rx EXCEPT ![p].pc = pc]
    BY <1>0, <1>2, <2>3 DEF Flies, Rx
  <2> QED
    BY <2>1, <2>2, <2>3
<1>4. stageOf(pc) = "idle" /\ stageOf(rx[p].pc) = "idle"
  BY <1>1 DEF stageOf
<1>5. flightBar' = flightBar
  BY <1>2, <1>3, <1>4, FlightUnmoved
<1>6. FlightOK(p)'
  BY <1>3 DEF Flies, FlightOK
<1>7. \A q \in Ports : FlightOK(q)'
  BY <1>3, <1>6, FlightKept DEF Flies
<1>8. HeardOK'
  BY <1>0, <1>1, ReapHeard DEF fdbVars
<1> QED
  BY <1>1, <1>5, <1>7, <1>8 DEF Simulates, LS!lsVars

\* A frame is accepted: Admit.
LEMMA SimReceive ==
  ASSUME SimpleFrames, RefInv, NEW p \in Ports, NEW f \in Frames, NEW vid \in VIDs,
         Receive(p, f, vid)
  PROVE  Simulates
<1>0. /\ FdbInv /\ HeardOK /\ CounterTypes /\ rx \in [Ports -> Rx] /\ rx[p] \in Rx
      /\ RxOK(p) /\ FlightOK(p) /\ clock \in Time /\ f # Nil
  BY RefFacts, EngineAssumption DEF FdbInv, FdbTypeOK
<1>1. /\ rx[p].pc = "read" /\ f.eth /\ vid \in classify(p, f.tags)
      /\ flightBar[p] = LS!Idle
  BY <1>0, RefFacts DEF Receive, Accepted, RxOK
<1> DEFINE pc == IF f.src \in Unicast THEN "learn" ELSE "route"
<1>2. Flies(p, pc, f, vid, {}, {})
  BY <1>0 DEF Receive, Flies, RxAt
<1>3. stageOf(pc) = "admitted"
  BY DEF stageOf
<1> HIDE DEF pc
<1>4. flightBar' = [flightBar EXCEPT ![p] = Flight(f, vid, "admitted", {}, {})]
  BY <1>2, <1>3, FlightStep
<1>5. [LS!Idle EXCEPT !.frame = f, !.vid = vid, !.stage = "admitted"]
        = Flight(f, vid, "admitted", {}, {})
  <2>1. /\ [LS!Idle EXCEPT !.frame = f] = Flight(f, 0, "idle", {}, {})
        /\ [Flight(f, 0, "idle", {}, {}) EXCEPT !.vid = vid] = Flight(f, vid, "idle", {}, {})
        /\ [Flight(f, vid, "idle", {}, {}) EXCEPT !.stage = "admitted"]
             = Flight(f, vid, "admitted", {}, {})
    BY DEF LS!Idle, Flight
  <2>2. [LS!Idle EXCEPT !.frame = f, !.vid = vid, !.stage = "admitted"]
          = [[[LS!Idle EXCEPT !.frame = f] EXCEPT !.vid = vid] EXCEPT !.stage = "admitted"]
    OBVIOUS
  <2> QED
    BY <2>1, <2>2
<1>6. heardOn' = IF f.src \in Unicast
                   THEN [heardOn EXCEPT ![<<vid, f.src>>] = @ \cup {p}]
                   ELSE heardOn
  BY DEF Receive
<1>7. LS!Admit(p, f, vid)
  BY <1>1, <1>4, <1>5, <1>6, ClassifyIsVlanOf DEF LS!Admit
<1>8. LS!LSNext
  BY <1>7 DEF LS!LSNext, LS!Ports, Ports
<1>9. FlightOK(p)'
  BY <1>0, <1>1, <1>2 DEF Flies, FlightOK
<1>10. \A q \in Ports : FlightOK(q)'
  BY <1>2, <1>9, FlightKept DEF Flies
<1>11. HeardOK'
  <2>1. CASE f.src \in Unicast
    <3> DEFINE k == <<vid, f.src>>
    <3>1. Learn(p, k, clock) /\ k \in macKey
      BY <2>1, KeyFacts DEF Receive
    <3>2. /\ \A q \in Ports \ {p} : th'[q] = th[q]
          /\ th'[p].pc = "learn_read" /\ th'[p].key = k
      BY <1>0, <3>1, LearnCallEffect
    <3> HIDE DEF k
    <3>3. /\ \A j \in macKey : heardOn[j] \subseteq heardOn'[j]
          /\ p \in heardOn'[k]
      BY <1>0, <1>6, <2>1, <3>1 DEF CounterTypes, k
    <3>4. UNCHANGED <<table, heap>>
      BY <3>1 DEF Learn
    <3> QED
      BY <1>0, <3>2, <3>3, <3>4, CallerHeard DEF Pointing
  <2>2. CASE f.src \notin Unicast
    <3>1. UNCHANGED <<fdbVars, heardOn>>
      BY <2>2 DEF Receive
    <3> QED
      BY <1>0, <3>1, ReapHeard DEF fdbVars
  <2> QED
    BY <2>1, <2>2
<1> QED
  BY <1>8, <1>10, <1>11 DEF Simulates

\* The end of a call changes nothing of what was heard.
LEMMA ReturnHeard ==
  ASSUME FdbInv, HeardOK, NEW p \in Ports, Return(p), UNCHANGED heardOn
  PROVE  HeardOK'
<1>1. th'[p] = IdleThread /\ \A q \in Ports \ {p} : th'[q] = th[q]
  BY DEF Return, FdbInv, FdbTypeOK
<1>2. th'[p].pc = "idle"
  BY <1>1 DEF IdleThread
<1>3. UNCHANGED <<table, heap>>
  BY DEF Return
<1> QED
  BY <1>1, <1>2, <1>3, CallerHeard DEF Pointing, LearnPCs

\* Learn returned, or the destination is looked up: still admitted.
LEMMA SimRoute ==
  ASSUME RefInv, NEW p \in Ports, Learned(p) \/ RouteUnicast(p)
  PROVE  Simulates
<1>0. /\ FdbInv /\ HeardOK /\ rx \in [Ports -> Rx] /\ rx[p] \in Rx
      /\ RxOK(p) /\ FlightOK(p) /\ rx[p].vid \in VIDs
  BY RefFacts
<1>1. /\ rx[p].pc \in {"learn", "route"} /\ UNCHANGED heardOn
      /\ \E pc \in {"route", "lookup"} : rx' = [rx EXCEPT ![p].pc = pc]
  BY DEF Learned, RouteUnicast, envVars
<1>2. PICK pc \in {"route", "lookup"} :
        Flies(p, pc, rx[p].frame, rx[p].vid, rx[p].todo, rx[p].sent)
  BY <1>0, <1>1 DEF Flies, Rx
<1>3. stageOf(pc) = "admitted" /\ stageOf(rx[p].pc) = "admitted"
  BY <1>1 DEF stageOf
<1>4. flightBar' = flightBar
  BY <1>2, <1>3, FlightUnmoved
<1>5. FlightOK(p)'
  BY <1>0, <1>2 DEF Flies, FlightOK
<1>6. \A q \in Ports : FlightOK(q)'
  BY <1>2, <1>5, FlightKept DEF Flies
<1>7. CASE Learned(p)
  BY <1>0, <1>1, <1>4, <1>6, <1>7, ReturnHeard DEF Learned, Simulates, LS!lsVars
<1>8. CASE RouteUnicast(p)
  <2> DEFINE k == <<rx[p].vid, rx[p].frame.dst>>
  <2>1. Lookup(p, k, rx[p].now) /\ k \in macKey /\ rx[p].now \in Time
    BY <1>0, <1>8, KeyFacts DEF RouteUnicast, Rx
  <2>2. /\ \A q \in Ports \ {p} : th'[q] = th[q]
        /\ th'[p].pc = "look_read"
    BY <1>0, <2>1, LookupCallEffect
  <2>3. UNCHANGED <<table, heap>>
    BY <2>1 DEF Lookup
  <2>4. HeardOK'
    BY <1>0, <1>1, <2>2, <2>3, CallerHeard DEF Pointing, LearnPCs
  <2> QED
    BY <1>1, <1>4, <1>6, <2>4 DEF Simulates, LS!lsVars
<1> QED
  BY <1>7, <1>8

\* The ports to write to are decided: Resolve.
LEMMA ResolveStep ==
  ASSUME RefInv, NEW p \in Ports, rx[p].pc \in {"route", "lookup"}, UNCHANGED heardOn,
         NEW to, rx' = [rx EXCEPT ![p].pc = "emit", ![p].todo = to],
         \/ to = LS!Others(p, rx[p].vid)
         \/ /\ rx[p].frame.dst \in Unicast
            /\ \E q \in heardOn[<<rx[p].vid, rx[p].frame.dst>>] : to = {q} \ {p}
  PROVE  (\A q \in Ports : FlightOK(q)') /\ LS!LSNext
<1>0. rx \in [Ports -> Rx] /\ rx[p] \in Rx /\ RxOK(p) /\ FlightOK(p)
  BY RefFacts
<1>1. Flies(p, "emit", rx[p].frame, rx[p].vid, to, rx[p].sent)
  BY <1>0 DEF Flies, Rx
<1>2. stageOf("emit") = "routed" /\ stageOf(rx[p].pc) = "admitted"
  BY DEF stageOf
<1>3. flightBar' = [flightBar EXCEPT ![p] = Flight(rx[p].frame, rx[p].vid, "routed",
                                                   to, rx[p].sent)]
  BY <1>1, <1>2, FlightStep
<1>4. flightBar[p] = Flight(rx[p].frame, rx[p].vid, "admitted", rx[p].todo, rx[p].sent)
  BY <1>2, FlightBar
<1>5. flightBar' = [flightBar EXCEPT ![p].stage = "routed", ![p].todo = to]
  <2> DEFINE r == flightBar[p]
             s == Flight(rx[p].frame, rx[p].vid, "routed", rx[p].todo, rx[p].sent)
  <2>1. [r EXCEPT !.stage = "routed", !.todo = to]
          = Flight(rx[p].frame, rx[p].vid, "routed", to, rx[p].sent)
    <3>1. /\ [r EXCEPT !.stage = "routed"] = s
          /\ [s EXCEPT !.todo = to] = Flight(rx[p].frame, rx[p].vid, "routed", to, rx[p].sent)
      BY <1>4 DEF Flight
    <3> HIDE DEF r, s
    <3>2. [r EXCEPT !.stage = "routed", !.todo = to]
            = [[r EXCEPT !.stage = "routed"] EXCEPT !.todo = to]
      OBVIOUS
    <3> QED
      BY <3>1, <3>2
  <2>2. [flightBar EXCEPT ![p].stage = "routed", ![p].todo = to]
          = [flightBar EXCEPT ![p] = [flightBar[p] EXCEPT !.stage = "routed", !.todo = to]]
    BY FlightBar
  <2> QED
    BY <1>3, <2>1, <2>2
<1>6. LS!Resolve(p)
  <2>1. /\ flightBar[p].stage = "admitted" /\ flightBar[p].frame = rx[p].frame
        /\ flightBar[p].vid = rx[p].vid
    BY <1>4 DEF Flight
  <2>2. to \in {LS!Others(p, rx[p].vid)}
                 \cup {{q} \ {p} : q \in IF rx[p].frame.dst \in Unicast
                                           THEN heardOn[<<rx[p].vid, rx[p].frame.dst>>] ELSE {}}
    OBVIOUS
  <2> QED
    BY <1>5, <2>1, <2>2 DEF LS!Resolve
<1>7. LS!LSNext
  BY <1>6 DEF LS!LSNext, LS!Ports, Ports
<1>8. rx[p].frame # Nil
  BY <1>0 DEF RxOK
<1>9. FlightOK(p)'
  BY <1>0, <1>1, <1>8 DEF Flies, FlightOK
<1>10. \A q \in Ports : FlightOK(q)'
  BY <1>1, <1>9, FlightKept DEF Flies
<1> QED
  BY <1>7, <1>10

LEMMA SimResolve ==
  ASSUME RefInv, NEW p \in Ports, RouteGroup(p) \/ Miss(p) \/ Hit(p)
  PROVE  Simulates
<1>0. FdbInv /\ HeardOK /\ RxOK(p) /\ rx[p] \in Rx /\ rx[p].vid \in VIDs
  BY RefFacts
<1>1. UNCHANGED heardOn
  BY DEF RouteGroup, Miss, Hit, envVars
<1>2. HeardOK'
  <2>1. CASE RouteGroup(p)
    BY <1>0, <1>1, <2>1, ReapHeard DEF RouteGroup, fdbVars
  <2>2. CASE Miss(p) \/ Hit(p)
    BY <1>0, <1>1, <2>2, ReturnHeard DEF Miss, Hit
  <2> QED
    BY <2>1, <2>2
<1>3. vidMembers(rx[p].vid) \ {p} = LS!Others(p, rx[p].vid)
  BY FloodIsVlan DEF LS!Others, LS!Member, LS!Ports, Member, Ports
<1>4. CASE RouteGroup(p) \/ Miss(p)
  <2>1. /\ rx[p].pc \in {"route", "lookup"}
        /\ rx' = [rx EXCEPT ![p].pc = "emit", ![p].todo = LS!Others(p, rx[p].vid)]
    BY <1>3, <1>4 DEF RouteGroup, Miss, Flood
  <2> QED
    BY <1>1, <1>2, <2>1, ResolveStep DEF Simulates
<1>5. CASE Hit(p)
  <2>1. /\ rx[p].pc = "lookup" /\ th[p].pc = "hit"
        /\ rx' = [rx EXCEPT ![p].pc = "emit", ![p].todo = {th[p].out} \ {p}]
    BY <1>5 DEF Hit
  <2>2. th[p].key = <<rx[p].vid, rx[p].frame.dst>> /\ th[p].key \in macKey
    BY <1>0, <2>1, CallInProgress DEF RxOK
  <2>3. rx[p].frame.dst \in Unicast
    BY <2>2 DEF macKey
  <2>4. th[p].out \in heardOn[<<rx[p].vid, rx[p].frame.dst>>]
    BY <1>0, <2>1, <2>2 DEF HeardOK
  <2> QED
    BY <1>1, <1>2, <2>1, <2>3, <2>4, ResolveStep DEF Simulates
<1> QED
  BY <1>4, <1>5
\* emit takes the lock of the next port: invisible.
LEMMA SimEmitLock ==
  ASSUME RefInv, NEW p \in Ports, EmitLock(p)
  PROVE  Simulates
<1>0. HeardOK /\ rx \in [Ports -> Rx] /\ rx[p] \in Rx /\ RxOK(p) /\ FlightOK(p)
  BY RefFacts
<1>1. PICK out \in rx[p].todo : rx' = [rx EXCEPT ![p].pc = "write", ![p].cur = out]
  BY DEF EmitLock
<1>2. rx[p].pc = "emit" /\ UNCHANGED <<fdbVars, heardOn>>
  BY DEF EmitLock, envVars
<1>3. Flies(p, "write", rx[p].frame, rx[p].vid, rx[p].todo, rx[p].sent)
  BY <1>0, <1>1 DEF Flies, Rx
<1>4. stageOf("write") = stageOf(rx[p].pc)
  BY <1>2 DEF stageOf
<1>5. flightBar' = flightBar
  BY <1>3, <1>4, FlightUnmoved
<1>6. FlightOK(p)'
  BY <1>0, <1>3 DEF Flies, FlightOK
<1>7. \A q \in Ports : FlightOK(q)'
  BY <1>3, <1>6, FlightKept DEF Flies
<1>8. HeardOK'
  BY <1>0, <1>2, ReapHeard DEF fdbVars
<1> QED
  BY <1>2, <1>5, <1>7, <1>8 DEF Simulates, LS!lsVars

\* A write, which succeeds (Send) or fails (Lose).
LEMMA SimWrite ==
  ASSUME SimpleFrames, RefInv, NEW p \in Ports, WriteOk(p) \/ WriteFail(p)
  PROVE  Simulates
<1>0. /\ HeardOK /\ rx \in [Ports -> Rx] /\ rx[p] \in Rx /\ RxOK(p) /\ FlightOK(p)
      /\ rx[p].vid \in VIDs
  BY RefFacts
<1> DEFINE f == rx[p].frame
           vid == rx[p].vid
           q == rx[p].cur
           rest == rx[p].todo \ {q}
<1>1. /\ rx[p].pc = "write" /\ q \in rx[p].todo /\ q \in Ports /\ f \in Frames
      /\ f.eth /\ vid \in classify(p, f.tags) /\ f # Nil
      /\ UNCHANGED <<fdbVars, heardOn>>
  BY <1>0 DEF WriteOk, WriteFail, RxOK, FlightOK, Rx, envVars
<1>2. flightBar[p] = Flight(f, vid, "routed", rx[p].todo, rx[p].sent)
  <2>1. stageOf(rx[p].pc) = "routed"
    BY <1>1 DEF stageOf
  <2> QED
    BY <2>1, FlightBar
<1>3. stageOf("emit") = "routed"
  BY DEF stageOf
<1>4. flightBar[p].todo = rx[p].todo /\ flightBar[p].frame = f
      /\ flightBar[p].vid = vid /\ flightBar[p].sent = rx[p].sent
  BY <1>2 DEF Flight
<1>5. CASE WriteOk(p)
  <2> DEFINE c == [port |-> q, tags |-> LS!EgressTags(q, f, vid)]
             sent == rx[p].sent \cup {c}
             r == flightBar[p]
             s == Flight(f, vid, "routed", rest, rx[p].sent)
  <2>1. CopyOf(p) = c
    BY <1>1, EmitIsEgress DEF CopyOf
  <2>2. Flies(p, "emit", f, vid, rest, sent)
    <3>1. rx' = [rx EXCEPT ![p].pc = "emit", ![p].todo = rest,
                           ![p].cur = Nil, ![p].sent = sent]
      BY <1>0, <1>5, <2>1 DEF WriteOk
    <3> HIDE DEF rest, sent
    <3> QED
      BY <1>0, <3>1 DEF Flies, Rx
  <2>3. flightBar' = [flightBar EXCEPT ![p] = Flight(f, vid, "routed", rest, sent)]
    BY <1>3, <2>2, FlightStep
  <2>4. [r EXCEPT !.todo = rest, !.sent = sent] = Flight(f, vid, "routed", rest, sent)
    <3> HIDE DEF rest, sent
    <3>1. [r EXCEPT !.todo = rest] = s
      BY <1>2 DEF Flight
    <3>2. [s EXCEPT !.sent = sent] = Flight(f, vid, "routed", rest, sent)
      BY DEF Flight
    <3> HIDE DEF r, s
    <3>3. [r EXCEPT !.todo = rest, !.sent = sent]
            = [[r EXCEPT !.todo = rest] EXCEPT !.sent = sent]
      OBVIOUS
    <3> QED
      BY <3>1, <3>2, <3>3
  <2>5. flightBar' = [flightBar EXCEPT ![p].todo = rest, ![p].sent = sent]
    <3>1. [flightBar EXCEPT ![p].todo = rest, ![p].sent = sent]
            = [flightBar EXCEPT ![p] = [flightBar[p] EXCEPT !.todo = rest, !.sent = sent]]
      BY FlightBar
    <3> QED
      BY <2>3, <2>4, <3>1
  <2>6. LS!Send(p, q)
    BY <1>1, <1>4, <2>5 DEF LS!Send
  <2>7. LS!LSNext
    BY <1>1, <2>6 DEF LS!LSNext, LS!Ports, Ports
  <2>8. FlightOK(p)'
    BY <1>0, <1>1, <2>2 DEF Flies, FlightOK
  <2>9. \A j \in Ports : FlightOK(j)'
    BY <2>2, <2>8, FlightKept DEF Flies
  <2>10. HeardOK'
    BY <1>0, <1>1, ReapHeard DEF fdbVars
  <2> QED
    BY <2>7, <2>9, <2>10 DEF Simulates
<1>6. CASE WriteFail(p)
  <2>1. Flies(p, "emit", f, vid, rest, rx[p].sent)
    BY <1>0, <1>6 DEF WriteFail, Flies, Rx
  <2>2. flightBar' = [flightBar EXCEPT ![p] = Flight(f, vid, "routed", rest, rx[p].sent)]
    BY <1>3, <2>1, FlightStep
  <2>3. flightBar' = [flightBar EXCEPT ![p].todo = rest]
    <3>1. [flightBar[p] EXCEPT !.todo = rest] = Flight(f, vid, "routed", rest, rx[p].sent)
      BY <1>2 DEF Flight
    <3>2. [flightBar EXCEPT ![p].todo = rest]
            = [flightBar EXCEPT ![p] = [flightBar[p] EXCEPT !.todo = rest]]
      BY FlightBar
    <3> QED
      BY <2>2, <3>1, <3>2
  <2>4. LS!Lose(p, q)
    BY <1>1, <1>4, <2>3 DEF LS!Lose
  <2>5. LS!LSNext
    BY <1>1, <2>4 DEF LS!LSNext, LS!Ports, Ports
  <2>6. FlightOK(p)'
    BY <1>0, <1>1, <2>1 DEF Flies, FlightOK
  <2>7. \A j \in Ports : FlightOK(j)'
    BY <2>1, <2>6, FlightKept DEF Flies
  <2>8. HeardOK'
    BY <1>0, <1>1, ReapHeard DEF fdbVars
  <2> QED
    BY <2>5, <2>7, <2>8 DEF Simulates
<1> QED
  BY <1>5, <1>6

\* forward returns: Finish.
LEMMA SimDone ==
  ASSUME RefInv, NEW p \in Ports, EmitDone(p)
  PROVE  Simulates
<1>0. HeardOK /\ rx \in [Ports -> Rx]
  BY RefFacts
<1>1. /\ rx[p].pc = "emit" /\ rx[p].todo = {} /\ rx' = [rx EXCEPT ![p] = RxAt("select")]
      /\ UNCHANGED <<fdbVars, heardOn>>
  BY DEF EmitDone, envVars
<1>2. Flies(p, "select", Nil, 0, {}, {})
  BY <1>0, <1>1 DEF Flies, RxAt
<1>3. stageOf("select") = "idle" /\ stageOf(rx[p].pc) = "routed"
  BY <1>1 DEF stageOf
<1>4. flightBar' = [flightBar EXCEPT ![p] = Flight(Nil, 0, "idle", {}, {})]
  BY <1>2, <1>3, FlightStep
<1>5. flightBar[p].stage = "routed" /\ flightBar[p].todo = {}
  <2>1. flightBar[p] = Flight(rx[p].frame, rx[p].vid, "routed", {}, rx[p].sent)
    BY <1>1, <1>3, FlightBar
  <2> QED
    BY <2>1 DEF Flight
<1>6. LS!Finish(p)
  BY <1>1, <1>4, <1>5 DEF LS!Finish, LS!Idle, Flight
<1>7. LS!LSNext
  BY <1>6 DEF LS!LSNext, LS!Ports, Ports
<1>8. FlightOK(p)'
  BY <1>2 DEF Flies, FlightOK
<1>9. \A q \in Ports : FlightOK(q)'
  BY <1>2, <1>8, FlightKept DEF Flies
<1>10. HeardOK'
  BY <1>0, <1>1, ReapHeard DEF fdbVars
<1> QED
  BY <1>7, <1>9, <1>10 DEF Simulates

\* The steps that no rx goroutine takes, and those of the table.
LEMMA SimInvisible ==
  ASSUME RefInv, HeardOK', UNCHANGED <<rx, heardOn>>
  PROVE  Simulates
<1>1. flightBar' = flightBar
  BY DEF flightBar
<1>2. \A q \in Ports : FlightOK(q)'
  BY DEF RefInv, FlightOK
<1> QED
  BY <1>1, <1>2 DEF Simulates, LS!lsVars

LEMMA SimStep ==
  ASSUME SimpleFrames, RefInv, [Next]_vars
  PROVE  Simulates
<1>0. FdbInv /\ HeardOK
  BY DEF RefInv, StopInv, EngineInv
<1>1. ASSUME NEW p \in Ports, RxStep(p) PROVE Simulates
  <2>1. CASE CallStep(p) /\ UNCHANGED engineVars
    <3>1. UNCHANGED <<rx, heardOn>>
      BY <2>1 DEF engineVars, envVars
    <3> QED
      BY <1>0, <2>1, <3>1, CallHeard, SimInvisible
  <2>2. ASSUME NEW f \in Frames, NEW v \in VIDs, Receive(p, f, v) PROVE Simulates
    BY <2>2, SimReceive
  <2> QED
    BY <1>1, <2>1, <2>2, SimIdle, SimRoute, SimResolve, SimEmitLock, SimWrite, SimDone
       DEF RxStep, ReadReturns
<1>2. CASE (GcTick \/ ReapStep \/ GcExit \/ Tick \/ \E d \in Ageings : SetAgeing(d))
             /\ UNCHANGED engineVars
  <2>1. UNCHANGED <<rx, heardOn>>
    BY <1>2 DEF engineVars, envVars
  <2> QED
    BY <1>0, <1>2, <2>1, BackgroundHeard, SimInvisible
<1>3. CASE UNCHANGED <<fdbVars, rx, heardOn>>
  <2>1. HeardOK'
    BY <1>0, <1>3, ReapHeard DEF fdbVars
  <2> QED
    BY <1>3, <2>1, SimInvisible
<1>4. ASSUME NEW s \in Stoppers, StopCall(s) \/ StopStep(s)
      PROVE  UNCHANGED <<fdbVars, rx, heardOn>>
  BY <1>4 DEF StopCall, StopStep, StopWait, StopClose, StopReturn, StopUnblock, envVars
<1>5. GcExit => UNCHANGED engineVars
  BY DEF GcExit
<1>6. UNCHANGED vars => UNCHANGED <<fdbVars, rx, heardOn>>
  BY DEF vars, engineVars, envVars
<1> QED
  BY <1>1, <1>2, <1>3, <1>4, <1>5, <1>6 DEF Next, GcStep
-----------------------------------------------------------------------------
LEMMA RefInit == ASSUME Init PROVE RefInv /\ LS!LSInit
<1>1. StopInv
  BY StopInvInit
<1>2. /\ table = [k \in macKey |-> Nil] /\ th = [p \in Ports |-> IdleThread]
      /\ rx = [p \in Ports |-> RxAt("select")] /\ heardOn = [k \in macKey |-> {}]
  BY DEF Init, FdbInit, newFDB
<1>3. HeardOK
  BY <1>2 DEF HeardOK, IdleThread, LearnPCs, Pointing
<1>4. \A p \in Ports : FlightOK(p)
  BY <1>2 DEF FlightOK, RxAt
<1>5. RefInv
  BY <1>1, <1>3, <1>4 DEF RefInv
<1>6. \A p \in Ports : flightBar[p] = LS!Idle
  BY <1>2, <1>5, RefFacts DEF RxAt
<1>7. flightBar = [p \in Ports |-> LS!Idle]
  BY <1>6 DEF flightBar
<1> QED
  BY <1>2, <1>5, <1>7 DEF LS!LSInit, LS!Ports, LS!macKey, Ports, macKey

LEMMA RefStep ==
  ASSUME SimpleFrames, RefInv, [Next]_vars
  PROVE  RefInv' /\ [LS!LSNext]_(LS!lsVars)
<1>1. StopInv'
  BY StopInvStep DEF RefInv
<1> QED
  BY <1>1, SimStep DEF RefInv, Simulates

(***************************************************************************)
(* With all its goroutines, the table and its ageing, writes that fail and  *)
(* Stop, what the engine sends for a simple frame is what LearningSwitch    *)
(* allows: once to each other port of the VLAN, or to one port that heard   *)
(* the destination there, tagged as that port's configuration says.         *)
(***************************************************************************)
THEOREM EngineImplementsLearningSwitch ==
  ASSUME SimpleFrames
  PROVE  Spec => ImplementsLearningSwitch
<1>1. Init => RefInv /\ LS!LSInit
  BY RefInit
<1>2. RefInv /\ [Next]_vars => RefInv' /\ [LS!LSNext]_(LS!lsVars)
  BY RefStep
<1> QED
  BY <1>1, <1>2, PTL DEF Spec, ImplementsLearningSwitch, LS!LSSpec
=============================================================================
