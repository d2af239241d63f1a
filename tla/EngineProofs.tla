---------------------------- MODULE EngineProofs ----------------------------
(***************************************************************************)
(* The engine keeps VLANs apart, for any number of ports, any configuration *)
(* NewEngine accepts and any traffic.                                       *)
(*                                                                         *)
(* VlanIsolation is about the port a goroutine is about to write to.  That  *)
(* port came from the flood list or from an entry of the table, which       *)
(* another goroutine wrote, and which may have been moved or deleted since  *)
(* it was found.  The invariant therefore speaks of the entries in the map, *)
(* of the entries goroutines still hold, of the answers on their way, and   *)
(* of the copies still to be written.                                       *)
(***************************************************************************)
EXTENDS Engine, FdbTypeProofs

\* How the state of goroutine p fits together: a frame is at hand between its
\* receipt and the end of forward, p and the ports to write to are in its VLAN,
\* and the call of the table under way, if any, is the one for this frame.
RxOK(p) ==
  /\ rx[p].frame = Nil <=> rx[p].pc \in {"select", "read", "exited"}
  /\ rx[p].cur # Nil <=> rx[p].pc = "write"
  /\ rx[p].cur # Nil => rx[p].cur \in rx[p].todo
  /\ rx[p].frame # Nil => Member(p, rx[p].vid)
  /\ \A q \in rx[p].todo : Member(q, rx[p].vid) /\ q # p
  /\ rx[p].pc = "learn" =>
       /\ th[p].pc \in LearnPCs \cup {"learned"}
       /\ th[p].key = <<rx[p].vid, rx[p].frame.src>>
  /\ rx[p].pc = "lookup" =>
       /\ th[p].pc \in LookPCs \cup {"hit", "miss"}
       /\ th[p].key = <<rx[p].vid, rx[p].frame.dst>>
  /\ rx[p].pc \notin {"learn", "lookup"} => th[p].pc = "idle"

\* The entry goroutine p holds, and the answer it got, are ports of the VLAN
\* it asked for.
HeldOK(p) ==
  /\ th[p].pc \in Pointing => Member(heap[th[p].key][th[p].ent].portIdx, th[p].key[1])
  /\ th[p].pc = "hit" => Member(th[p].out, th[p].key[1])

Scoped == FdbScoped /\ \A p \in Ports : HeldOK(p)

EngineInv ==
  FdbInv /\ rx \in [Ports -> Rx] /\ Scoped /\ \A p \in Ports : RxOK(p)
-----------------------------------------------------------------------------
(* The configuration. *)

\* The first component of a key is its VLAN.
LEMMA KeyFacts ==
  ASSUME NEW vid \in VIDs, NEW m
  PROVE  /\ <<vid, m>>[1] = vid
         /\ m \in Unicast => <<vid, m>> \in macKey
  BY DEF macKey

\* Each port has one of the three roles, and it is what its configuration says.
LEMMA RoleFacts ==
  ASSUME NEW p \in Ports
  PROVE  /\ Cfg[p].accessVID \in VIDs /\ Cfg[p].trunk \subseteq VIDs
         /\ \/ role(p) = "trunk" /\ Cfg[p].trunk # {}
            \/ role(p) = "access" /\ Cfg[p].trunk = {} /\ Cfg[p].accessVID # 0
            \/ role(p) = "plain" /\ Cfg[p].trunk = {} /\ Cfg[p].accessVID = 0
<1>1. Cfg[p] \in PortConfig
  BY ConfigAssumption
<1>2. Cfg[p].accessVID \in VIDs /\ Cfg[p].trunk \subseteq VIDs
  BY <1>1 DEF PortConfig
<1>3. ASSUME Cfg[p].trunk # {} PROVE role(p) = "trunk"
  BY <1>3 DEF role, roleOf
<1>4. ASSUME Cfg[p].trunk = {}, Cfg[p].accessVID # 0 PROVE role(p) = "access"
  BY <1>4 DEF role, roleOf
<1>5. ASSUME Cfg[p].trunk = {}, Cfg[p].accessVID = 0 PROVE role(p) = "plain"
  BY <1>5 DEF role, roleOf
<1> QED
  BY <1>2, <1>3, <1>4, <1>5

\* classify accepts a frame only into a VLAN its port belongs to.
LEMMA ClassifyMember ==
  ASSUME NEW p \in Ports, NEW tags, NEW v \in classify(p, tags)
  PROVE  v \in VIDs /\ Member(p, v)
<1>1. CASE role(p) = "trunk"
  BY <1>1, RoleFacts DEF classify, Member
<1>2. CASE role(p) = "access"
  BY <1>2, RoleFacts DEF classify, Member
<1>3. CASE role(p) = "plain"
  BY <1>3, RoleFacts, ConfigAssumption DEF classify, Member
<1> QED
  BY <1>1, <1>2, <1>3, RoleFacts

\* The index NewEngine builds lists only ports that belong to the VLAN.
LEMMA FloodMember ==
  ASSUME NEW vid, NEW q \in vidMembers(vid)
  PROVE  q \in Ports /\ Member(q, vid)
<1>0. q \in Ports
  BY DEF vidMembers
<1>1. CASE role(q) = "trunk"
  BY <1>0, <1>1, RoleFacts DEF vidMembers, Member
<1>2. CASE role(q) = "access"
  BY <1>0, <1>2, RoleFacts DEF vidMembers, Member
<1>3. CASE role(q) = "plain"
  BY <1>0, <1>3, RoleFacts DEF vidMembers, Member
<1> QED
  BY <1>0, <1>1, <1>2, <1>3, RoleFacts

\* emit sends well-formed tags.
LEMMA EmitTagsType ==
  ASSUME NEW out, NEW tags \in Seq(VIDs), NEW vid \in VIDs
  PROVE  emitTags(out, tags, vid) \in Seq(VIDs)
<1>1. <<vid>> \in Seq(VIDs) /\ <<>> \in Seq(VIDs)
  OBVIOUS
<1> QED
  BY <1>1 DEF emitTags, hasTag
-----------------------------------------------------------------------------
(* The table, as the engine uses it. *)

\* A step of a call writes no port but its own, under its own key, and only
\* when the call is a Learn; it makes the map point to no other cell.
LEMMA CallWrites ==
  ASSUME FdbInv, NEW p \in Ports, CallStep(p), NEW k \in macKey
  PROVE  /\ \A s \in Slots :
              \/ heap'[k][s].portIdx = heap[k][s].portIdx
              \/ k = th[p].key /\ th[p].pc \in LearnPCs /\ heap'[k][s].portIdx = p
         /\ \/ table'[k] = table[k]
            \/ k = th[p].key /\ th[p].pc \in LearnPCs /\ heap'[k][table'[k]].portIdx = p
<1>1. CASE LearnRead(p) \/ LearnCheck(p) \/ LearnLock(p)
           \/ LookRead(p) \/ LookAge(p) \/ LookSeen(p) \/ LookPort(p)
  <2>1. UNCHANGED <<table, heap>>
    BY <1>1 DEF LearnRead, LearnCheck, LearnLock, LookRead, LookAge, LookSeen, LookPort
  <2> QED
    BY <2>1
<1>2. CASE LearnRefresh(p)
  <2>1. UNCHANGED table
    BY <1>2 DEF LearnRefresh
  <2> QED
    BY <1>2, <2>1, LearnRefreshHeap
<1>3. CASE LearnMove(p)
  <2>1. UNCHANGED table /\ th[p].pc \in LearnPCs
    BY <1>3 DEF LearnMove, LearnPCs
  <2>2. \A s \in Slots : heap'[k][s].portIdx = IF k = th[p].key /\ s = table[k]
                                                 THEN p ELSE heap[k][s].portIdx
    BY <1>3, LearnMoveHeap
  <2> QED
    BY <2>1, <2>2
<1>4. CASE LearnTouch(p)
  <2>1. UNCHANGED table
    BY <1>4 DEF LearnTouch
  <2> QED
    BY <1>4, <2>1, LearnTouchHeap
<1>5. CASE LearnInsert(p)
  <2>1. th[p].key \in macKey /\ th[p].pc \in LearnPCs
    BY <1>5, LearnInsertEffect DEF LearnPCs
  <2>2. PICK c \in Slots :
          /\ table' = [table EXCEPT ![th[p].key] = c]
          /\ heap' = [heap EXCEPT ![th[p].key][c] = [portIdx |-> p, seenAt |-> th[p].now]]
    BY <1>5, LearnInsertHeap
  <2>3. \A s \in Slots : heap'[k][s] = IF k = th[p].key /\ s = c
                                         THEN [portIdx |-> p, seenAt |-> th[p].now]
                                         ELSE heap[k][s]
    BY <2>1, <2>2 DEF FdbInv, FdbTypeOK
  <2>4. table'[k] = IF k = th[p].key THEN c ELSE table[k]
    BY <2>1, <2>2 DEF FdbInv, FdbTypeOK
  <2>5. \A s \in Slots : heap'[k][s].portIdx = IF k = th[p].key /\ s = c
                                                 THEN p ELSE heap[k][s].portIdx
    BY <2>3
  <2> QED
    BY <2>1, <2>4, <2>5
<1> QED
  BY <1>1, <1>2, <1>3, <1>4, <1>5 DEF CallStep

\* A call keeps the table VLAN-scoped if what it learns is in its port's VLAN.
LEMMA CallScoped ==
  ASSUME FdbInv, Scoped, NEW p \in Ports, CallStep(p),
         th[p].pc \in LearnPCs => Member(p, th[p].key[1])
  PROVE  Scoped'
<1>1. /\ \A q \in Ports \ {p} : th'[q] = th[q]
      /\ th'[p].key = th[p].key /\ th[p].key \in macKey
  BY CallGoesOn
<1>2. ASSUME NEW k \in macKey, NEW s \in Slots, Member(heap[k][s].portIdx, k[1])
      PROVE  Member(heap'[k][s].portIdx, k[1])
  BY <1>2, CallWrites
<1>3. ASSUME NEW k \in macKey, table'[k] # Nil
      PROVE  Member(heap'[k][table'[k]].portIdx, k[1])
  <2>1. CASE table'[k] = table[k]
    <3>1. table[k] \in Slots /\ Member(heap[k][table[k]].portIdx, k[1])
      BY <1>3, <2>1 DEF FdbInv, FdbTypeOK, Scoped, FdbScoped
    <3> QED
      BY <1>2, <2>1, <3>1
  <2>2. CASE table'[k] # table[k]
    BY <2>2, CallWrites
  <2> QED
    BY <2>1, <2>2
<1>4. ASSUME NEW q \in Ports PROVE HeldOK(q)'
  <2>1. CASE q # p
    <3>1. th'[q] = th[q]
      BY <1>1, <2>1
    <3>2. ASSUME th[q].pc \in Pointing
          PROVE  Member(heap'[th[q].key][th[q].ent].portIdx, th[q].key[1])
      <4>1. th[q].pc # "idle"
        BY <3>2 DEF Pointing
      <4>2. th[q].key \in macKey /\ th[q].ent \in Slots
        BY <3>2, <4>1, CallInProgress
      <4>3. Member(heap[th[q].key][th[q].ent].portIdx, th[q].key[1])
        BY <3>2 DEF Scoped, HeldOK
      <4> QED
        BY <1>2, <4>2, <4>3
    <3> QED
      BY <3>1, <3>2 DEF Scoped, HeldOK
  <2>2. CASE q = p
    <3>1. ASSUME th'[p].pc \in Pointing
          PROVE  Member(heap'[th[p].key][th'[p].ent].portIdx, th[p].key[1])
      <4>1. UNCHANGED heap
        BY <3>1, CallReads
      <4>2. CASE th[p].pc \in Pointing /\ th'[p].ent = th[p].ent
        BY <4>1, <4>2 DEF Scoped, HeldOK
      <4>3. CASE table[th[p].key] # Nil /\ th'[p].ent = table[th[p].key]
        BY <1>1, <4>1, <4>3 DEF Scoped, FdbScoped
      <4> QED
        BY <3>1, <4>2, <4>3, CallReads
    <3>2. ASSUME th'[p].pc = "hit" PROVE Member(th'[p].out, th[p].key[1])
      BY <3>2, CallReads DEF Scoped, HeldOK
    <3> QED
      BY <1>1, <2>2, <3>1, <3>2 DEF HeldOK
  <2> QED
    BY <2>1, <2>2
<1> QED
  BY <1>3, <1>4 DEF Scoped, FdbScoped

\* So does the beginning and the end of a call,
LEMMA CallerScoped ==
  ASSUME Scoped, UNCHANGED <<table, heap>>, NEW p \in Ports,
         \A q \in Ports \ {p} : th'[q] = th[q],
         th'[p].pc \notin Pointing, th'[p].pc # "hit"
  PROVE  Scoped'
<1>1. FdbScoped'
  BY DEF Scoped, FdbScoped
<1>2. ASSUME NEW q \in Ports PROVE HeldOK(q)'
  <2>1. CASE q = p
    BY <2>1 DEF HeldOK
  <2>2. CASE q # p
    BY <2>2 DEF Scoped, HeldOK
  <2> QED
    BY <2>1, <2>2
<1> QED
  BY <1>1, <1>2 DEF Scoped

\* and so does whatever only deletes entries.
LEMMA ReapScoped ==
  ASSUME Scoped, UNCHANGED <<heap, th>>, \A k \in macKey : table'[k] \in {table[k], Nil}
  PROVE  Scoped'
<1>1. FdbScoped'
  BY DEF Scoped, FdbScoped
<1>2. ASSUME NEW q \in Ports PROVE HeldOK(q)'
  BY DEF Scoped, HeldOK
<1> QED
  BY <1>1, <1>2 DEF Scoped

\* gcLoop and reap, the clock and SetAgeing add nothing to the map.
LEMMA BackgroundScoped ==
  ASSUME FdbInv, Scoped,
         GcTick \/ ReapStep \/ Tick \/ \E d \in Ageings : SetAgeing(d)
  PROVE  Scoped' /\ UNCHANGED th
<1>1. CASE GcTick \/ ReapLoad \/ ReapLock \/ ReapUnlock \/ Tick
           \/ \E d \in Ageings : SetAgeing(d)
  <2>1. UNCHANGED <<table, heap, th>>
    BY <1>1 DEF GcTick, ReapLoad, ReapLock, ReapUnlock, Tick, SetAgeing
  <2> QED
    BY <2>1, ReapScoped
<1>2. ASSUME NEW k \in macKey, ReapEntry(k) PROVE Scoped' /\ UNCHANGED th
  <2>1. UNCHANGED <<heap, th>> /\ table' \in {table, [table EXCEPT ![k] = Nil]}
    BY <1>2 DEF ReapEntry
  <2>2. \A j \in macKey : table'[j] \in {table[j], Nil}
    BY <2>1 DEF FdbInv, FdbTypeOK
  <2> QED
    BY <2>1, <2>2, ReapScoped
<1> QED
  BY <1>1, <1>2 DEF ReapStep
-----------------------------------------------------------------------------
(* What a step of rx goroutine p does to it; no other goroutine moves. *)

RxBecomes(p, pc, frame, vid, todo, cur) ==
  /\ rx' \in [Ports -> Rx]
  /\ \A q \in Ports \ {p} : rx'[q] = rx[q]
  /\ rx'[p].pc = pc /\ rx'[p].frame = frame /\ rx'[p].vid = vid
  /\ rx'[p].todo = todo /\ rx'[p].cur = cur

\* A goroutine between frames is well-typed.
LEMMA RxAtType ==
  ASSUME NEW pc \in RxPCs
  PROVE  RxAt(pc) \in Rx
  BY PortFacts, ConfigAssumption DEF RxAt, Rx

\* If a step of p leaves p in order, it leaves everyone in order.
LEMMA RxKept ==
  ASSUME EngineInv, NEW p \in Ports, FdbInv', Scoped', rx' \in [Ports -> Rx],
         \A q \in Ports \ {p} : rx'[q] = rx[q] /\ th'[q] = th[q], RxOK(p)'
  PROVE  EngineInv'
<1>1. ASSUME NEW q \in Ports PROVE RxOK(q)'
  <2>1. CASE q = p
    BY <2>1
  <2>2. CASE q # p
    BY <2>2 DEF EngineInv, RxOK
  <2> QED
    BY <2>1, <2>2
<1> QED
  BY <1>1 DEF EngineInv

\* A step of p that does not touch the table.
LEMMA RxKeptAlone ==
  ASSUME EngineInv, NEW p \in Ports, UNCHANGED fdbVars, rx' \in [Ports -> Rx],
         \A q \in Ports \ {p} : rx'[q] = rx[q], RxOK(p)'
  PROVE  EngineInv'
<1>1. FdbInv'
  BY FdbStutterInv DEF EngineInv
<1>2. UNCHANGED <<table, heap, th>>
  BY DEF fdbVars
<1>3. Scoped'
  BY <1>2, ReapScoped DEF EngineInv
<1> QED
  BY <1>1, <1>2, <1>3, RxKept

\* The top of the loop, an idle poll, a read error, a frame that is dropped,
\* and the end of forward: p is between frames afterwards.
LEMMA IdleStep ==
  ASSUME EngineInv, NEW p \in Ports,
         \/ Select(p) \/ Timeout(p) \/ ReadError(p) \/ EmitDone(p)
         \/ \E f \in Frames : ReceiveDrop(p, f)
  PROVE  EngineInv'
<1>0. rx \in [Ports -> Rx] /\ rx[p] \in Rx /\ RxOK(p)
  BY DEF EngineInv
<1>1. UNCHANGED fdbVars
  BY DEF Select, Timeout, ReadError, ReceiveDrop, EmitDone
<1>2. UNCHANGED th
  BY <1>1 DEF fdbVars
<1>3. CASE Select(p) \/ EmitDone(p)
  <2>1. PICK pc \in {"select", "read", "exited"} : rx' = [rx EXCEPT ![p] = RxAt(pc)]
    BY <1>3 DEF Select, EmitDone
  <2>2. RxAt(pc) \in Rx
    BY <2>1, RxAtType DEF RxPCs
  <2>3. RxBecomes(p, pc, Nil, 0, {}, Nil)
    BY <1>0, <2>1, <2>2 DEF RxBecomes, RxAt
  <2>4. th[p].pc = "idle"
    BY <1>0, <1>3 DEF Select, EmitDone, RxOK
  <2>5. RxOK(p)'
    BY <1>2, <2>1, <2>3, <2>4 DEF RxBecomes, RxOK
  <2> QED
    BY <1>1, <2>3, <2>5, RxKeptAlone DEF RxBecomes
<1>4. CASE Timeout(p) \/ ReadError(p) \/ \E f \in Frames : ReceiveDrop(p, f)
  <2>1. PICK pc \in {"select", "exited"} : rx' = [rx EXCEPT ![p].pc = pc]
    BY <1>4 DEF Timeout, ReadError, ReceiveDrop
  <2>2. RxBecomes(p, pc, rx[p].frame, rx[p].vid, rx[p].todo, rx[p].cur)
    BY <1>0, <2>1 DEF RxBecomes, Rx, RxPCs
  <2>3. rx[p].pc = "read"
    BY <1>4 DEF Timeout, ReadError, ReceiveDrop
  <2>4. RxOK(p)'
    BY <1>0, <1>2, <2>1, <2>2, <2>3 DEF RxBecomes, RxOK
  <2> QED
    BY <1>1, <2>2, <2>4, RxKeptAlone DEF RxBecomes
<1> QED
  BY <1>3, <1>4

\* A frame is accepted and, if its source is an address, learned.
LEMMA ReceiveStep ==
  ASSUME EngineInv, NEW p \in Ports, NEW f \in Frames, NEW vid \in VIDs, Receive(p, f, vid)
  PROVE  EngineInv'
<1>0. /\ FdbInv /\ Scoped /\ rx \in [Ports -> Rx] /\ RxOK(p)
      /\ clock \in Time /\ rx[p].pc = "read" /\ th[p].pc = "idle" /\ f # Nil
  BY EngineAssumption DEF EngineInv, FdbInv, FdbTypeOK, Receive, RxOK
<1>1. Member(p, vid)
  BY ClassifyMember DEF Receive, Accepted
<1> DEFINE pc == IF f.src \in Unicast THEN "learn" ELSE "route"
           r == [RxAt(pc) EXCEPT !.frame = f, !.vid = vid, !.now = clock]
<1>2. /\ r \in Rx /\ r.pc = pc /\ r.frame = f /\ r.vid = vid
      /\ r.todo = {} /\ r.cur = Nil
  <2>1. pc \in RxPCs
    BY DEF RxPCs
  <2> HIDE DEF pc
  <2> QED
    BY <1>0, <2>1 DEF RxAt, Rx
<1>3. rx' = [rx EXCEPT ![p] = r]
  BY DEF Receive
<1>4. RxBecomes(p, pc, f, vid, {}, Nil)
  <2> HIDE DEF r
  <2> QED
    BY <1>0, <1>2, <1>3 DEF RxBecomes
<1> HIDE DEF r
<1>5. CASE f.src \in Unicast
  <2>1. Learn(p, <<vid, f.src>>, clock)
    BY <1>5 DEF Receive
  <2>2. <<vid, f.src>> \in macKey
    BY <1>5, KeyFacts
  <2>3. FdbInv'
    BY <1>0, <2>1, <2>2, LearnCallInv
  <2>4. /\ \A q \in Ports \ {p} : th'[q] = th[q]
        /\ th'[p].pc = "learn_read" /\ th'[p].key = <<vid, f.src>>
    BY <1>0, <2>1, <2>2, LearnCallEffect
  <2>5. UNCHANGED <<table, heap>>
    BY <2>1 DEF Learn
  <2>6. Scoped'
    BY <1>0, <2>4, <2>5, CallerScoped DEF Pointing
  <2>7. pc = "learn"
    BY <1>5
  <2>8. RxOK(p)'
    BY <1>0, <1>1, <1>4, <2>4, <2>7 DEF RxBecomes, RxOK, LearnPCs
  <2> QED
    BY <1>4, <2>3, <2>4, <2>6, <2>8, RxKept DEF RxBecomes
<1>6. CASE f.src \notin Unicast
  <2>1. UNCHANGED fdbVars
    BY <1>6 DEF Receive
  <2>2. UNCHANGED th
    BY <2>1 DEF fdbVars
  <2>3. pc = "route"
    BY <1>6
  <2>4. RxOK(p)'
    BY <1>0, <1>1, <1>4, <2>2, <2>3 DEF RxBecomes, RxOK
  <2> QED
    BY <1>4, <2>1, <2>4, RxKeptAlone DEF RxBecomes
<1> QED
  BY <1>5, <1>6

\* The end of a call: the table is as it was, and p has no call outstanding.
LEMMA ReturnEffect ==
  ASSUME FdbInv, Scoped, NEW p \in Ports, Return(p)
  PROVE  /\ FdbInv' /\ Scoped' /\ th'[p].pc = "idle"
         /\ \A q \in Ports \ {p} : th'[q] = th[q]
<1>1. FdbInv'
  BY ReturnInv
<1>2. th'[p] = IdleThread /\ \A q \in Ports \ {p} : th'[q] = th[q]
  BY DEF Return, FdbInv, FdbTypeOK
<1>3. th'[p].pc = "idle"
  BY <1>2 DEF IdleThread
<1>4. Scoped'
  BY <1>2, <1>3, CallerScoped DEF Return, Pointing
<1> QED
  BY <1>1, <1>2, <1>3, <1>4

\* Flooding writes to ports of the VLAN, and not to the one the frame came from.
LEMMA FloodEffect ==
  ASSUME EngineInv, NEW p \in Ports, rx[p].pc \in {"route", "lookup"}, Flood(p),
         th'[p].pc = "idle"
  PROVE  /\ rx' \in [Ports -> Rx] /\ \A q \in Ports \ {p} : rx'[q] = rx[q]
         /\ RxOK(p)'
<1>0. rx \in [Ports -> Rx] /\ rx[p] \in Rx /\ RxOK(p)
  BY DEF EngineInv
<1> DEFINE out == vidMembers(rx[p].vid) \ {p}
<1>1. \A q \in out : q \in Ports /\ Member(q, rx[p].vid) /\ q # p
  BY FloodMember
<1>2. rx' = [rx EXCEPT ![p].pc = "emit", ![p].todo = out]
  BY DEF Flood
<1> HIDE DEF out
<1>3. out \in SUBSET Ports
  BY <1>1
<1>4. RxBecomes(p, "emit", rx[p].frame, rx[p].vid, out, rx[p].cur)
  BY <1>0, <1>2, <1>3 DEF RxBecomes, Rx, RxPCs
<1>5. RxOK(p)'
  BY <1>0, <1>1, <1>4 DEF RxBecomes, RxOK
<1> QED
  BY <1>4, <1>5 DEF RxBecomes

\* forward, from the source's Learn to the list of ports to write to.
LEMMA RouteStep ==
  ASSUME EngineInv, NEW p \in Ports,
         Learned(p) \/ RouteUnicast(p) \/ RouteGroup(p) \/ Hit(p) \/ Miss(p)
  PROVE  EngineInv'
<1>0. /\ FdbInv /\ Scoped /\ rx \in [Ports -> Rx] /\ rx[p] \in Rx /\ RxOK(p)
      /\ rx[p].vid \in VIDs
  BY DEF EngineInv, Rx
<1>1. CASE Learned(p)
  <2>1. rx[p].pc = "learn" /\ Return(p) /\ rx' = [rx EXCEPT ![p].pc = "route"]
    BY <1>1 DEF Learned
  <2>2. /\ FdbInv' /\ Scoped' /\ th'[p].pc = "idle"
        /\ \A q \in Ports \ {p} : th'[q] = th[q]
    BY <1>0, <2>1, ReturnEffect
  <2>3. RxBecomes(p, "route", rx[p].frame, rx[p].vid, rx[p].todo, rx[p].cur)
    BY <1>0, <2>1 DEF RxBecomes, Rx, RxPCs
  <2>4. RxOK(p)'
    BY <1>0, <2>1, <2>2, <2>3 DEF RxBecomes, RxOK
  <2> QED
    BY <2>2, <2>3, <2>4, RxKept DEF RxBecomes
<1>2. CASE RouteUnicast(p)
  <2>0. rx[p].pc = "route" /\ rx' = [rx EXCEPT ![p].pc = "lookup"]
    BY <1>2 DEF RouteUnicast
  <2> DEFINE k == <<rx[p].vid, rx[p].frame.dst>>
  <2>1. Lookup(p, k, rx[p].now) /\ k \in macKey /\ rx[p].now \in Time
    BY <1>0, <1>2, KeyFacts DEF RouteUnicast, Rx
  <2>2. FdbInv'
    BY <1>0, <2>1, LookupCallInv
  <2>3. /\ \A q \in Ports \ {p} : th'[q] = th[q]
        /\ th'[p].pc = "look_read" /\ th'[p].key = k
    BY <1>0, <2>1, LookupCallEffect
  <2>4. UNCHANGED <<table, heap>>
    BY <2>1 DEF Lookup
  <2>5. Scoped'
    BY <1>0, <2>3, <2>4, CallerScoped DEF Pointing
  <2>6. RxBecomes(p, "lookup", rx[p].frame, rx[p].vid, rx[p].todo, rx[p].cur)
    BY <1>0, <2>0 DEF RxBecomes, Rx, RxPCs
  <2>7. RxOK(p)'
    BY <1>0, <2>0, <2>3, <2>6 DEF RxBecomes, RxOK, LookPCs
  <2> QED
    BY <2>2, <2>3, <2>5, <2>6, <2>7, RxKept DEF RxBecomes
<1>3. CASE RouteGroup(p)
  <2>1. rx[p].pc = "route" /\ UNCHANGED fdbVars /\ Flood(p)
    BY <1>3 DEF RouteGroup
  <2>2. th'[p].pc = "idle"
    BY <1>0, <2>1 DEF RxOK, fdbVars
  <2> QED
    BY <2>1, <2>2, FloodEffect, RxKeptAlone
<1>4. CASE Miss(p)
  <2>1. rx[p].pc = "lookup" /\ Return(p) /\ Flood(p)
    BY <1>4 DEF Miss
  <2>2. /\ FdbInv' /\ Scoped' /\ th'[p].pc = "idle"
        /\ \A q \in Ports \ {p} : th'[q] = th[q]
    BY <1>0, <2>1, ReturnEffect
  <2>3. /\ rx' \in [Ports -> Rx] /\ \A q \in Ports \ {p} : rx'[q] = rx[q]
        /\ RxOK(p)'
    BY <2>1, <2>2, FloodEffect
  <2> QED
    BY <2>2, <2>3, RxKept
<1>5. CASE Hit(p)
  <2>1. /\ rx[p].pc = "lookup" /\ th[p].pc = "hit" /\ Return(p)
        /\ rx' = [rx EXCEPT ![p].pc = "emit", ![p].todo = {th[p].out} \ {p}]
    BY <1>5 DEF Hit
  <2>2. /\ FdbInv' /\ Scoped' /\ th'[p].pc = "idle"
        /\ \A q \in Ports \ {p} : th'[q] = th[q]
    BY <1>0, <2>1, ReturnEffect
  <2>3. th[p].out \in Ports
    BY <1>0, <2>1 DEF FdbInv, FdbTypeOK, PointerOK, Thread
  <2>4. th[p].key[1] = rx[p].vid
    BY <1>0, <2>1, KeyFacts DEF RxOK
  <2>5. Member(th[p].out, rx[p].vid)
    BY <1>0, <2>1, <2>4 DEF Scoped, HeldOK
  <2> DEFINE out == {th[p].out} \ {p}
  <2>6. \A q \in out : q \in Ports /\ Member(q, rx[p].vid) /\ q # p
    BY <2>3, <2>5
  <2> HIDE DEF out
  <2>7. RxBecomes(p, "emit", rx[p].frame, rx[p].vid, out, rx[p].cur)
    BY <1>0, <2>1, <2>6 DEF RxBecomes, Rx, RxPCs, out
  <2>8. RxOK(p)'
    BY <1>0, <2>1, <2>2, <2>6, <2>7 DEF RxBecomes, RxOK
  <2> QED
    BY <2>2, <2>7, <2>8, RxKept DEF RxBecomes
<1> QED
  BY <1>1, <1>2, <1>3, <1>4, <1>5

\* emit, one port of the list after the other.
LEMMA EmitStep ==
  ASSUME EngineInv, NEW p \in Ports, EmitLock(p) \/ WriteOk(p) \/ WriteFail(p)
  PROVE  EngineInv'
<1>0. /\ rx \in [Ports -> Rx] /\ rx[p] \in Rx /\ RxOK(p)
      /\ rx[p].vid \in VIDs /\ rx[p].todo \subseteq Ports
  BY DEF EngineInv, Rx
<1>1. UNCHANGED fdbVars
  BY DEF EmitLock, WriteOk, WriteFail
<1>2. UNCHANGED th
  BY <1>1 DEF fdbVars
<1>3. CASE EmitLock(p)
  <2>1. PICK out \in rx[p].todo : rx' = [rx EXCEPT ![p].pc = "write", ![p].cur = out]
    BY <1>3 DEF EmitLock
  <2>2. rx[p].pc = "emit" /\ out # Nil
    BY <1>0, <1>3, PortFacts DEF EmitLock
  <2>3. RxBecomes(p, "write", rx[p].frame, rx[p].vid, rx[p].todo, out)
    BY <1>0, <2>1 DEF RxBecomes, Rx, RxPCs
  <2>4. RxOK(p)'
    BY <1>0, <1>2, <2>1, <2>2, <2>3 DEF RxBecomes, RxOK
  <2> QED
    BY <1>1, <2>3, <2>4, RxKeptAlone DEF RxBecomes
<1>4. CASE WriteOk(p) \/ WriteFail(p)
  <2>1. rx[p].pc = "write" /\ rx[p].cur \in Ports /\ rx[p].frame \in Frames
    BY <1>0, <1>4 DEF WriteOk, WriteFail, RxOK, Rx
  <2>2. CopyOf(p) \in Copy
    BY <1>0, <2>1, EmitTagsType, EngineAssumption DEF CopyOf, Copy, Frame
  <2>3. PICK s \in SUBSET Copy :
          rx' = [rx EXCEPT ![p].pc = "emit", ![p].todo = @ \ {rx[p].cur},
                           ![p].cur = Nil, ![p].sent = s]
    <3>1. CASE WriteOk(p)
      <4>1. rx[p].sent \cup {CopyOf(p)} \in SUBSET Copy
        BY <1>0, <2>2 DEF Rx
      <4>2. rx' = [rx EXCEPT ![p].pc = "emit", ![p].todo = @ \ {rx[p].cur},
                             ![p].cur = Nil, ![p].sent = rx[p].sent \cup {CopyOf(p)}]
        BY <1>0, <3>1 DEF WriteOk
      <4> QED
        BY <4>1, <4>2
    <3>2. CASE WriteFail(p)
      <4>1. rx[p].sent \in SUBSET Copy
        BY <1>0 DEF Rx
      <4>2. rx' = [rx EXCEPT ![p].pc = "emit", ![p].todo = @ \ {rx[p].cur},
                             ![p].cur = Nil, ![p].sent = rx[p].sent]
        BY <1>0, <3>2 DEF WriteFail, Rx
      <4> QED
        BY <4>1, <4>2
    <3> QED
      BY <1>4, <3>1, <3>2
  <2> DEFINE rest == rx[p].todo \ {rx[p].cur}
             r == [rx[p] EXCEPT !.pc = "emit", !.todo = rest, !.cur = Nil, !.sent = s]
  <2>4. /\ r \in Rx /\ r.pc = "emit" /\ r.frame = rx[p].frame /\ r.vid = rx[p].vid
        /\ r.todo = rest /\ r.cur = Nil
    BY <1>0 DEF Rx, RxPCs
  <2>5. rx' = [rx EXCEPT ![p] = r]
    BY <1>0, <2>3
  <2> HIDE DEF r
  <2>6. RxBecomes(p, "emit", rx[p].frame, rx[p].vid, rest, Nil)
    BY <1>0, <2>4, <2>5 DEF RxBecomes
  <2>7. RxOK(p)'
    BY <1>0, <1>2, <2>1, <2>6 DEF RxBecomes, RxOK
  <2> QED
    BY <1>1, <2>6, <2>7, RxKeptAlone DEF RxBecomes
<1> QED
  BY <1>3, <1>4

\* The table works for p.
LEMMA CallKept ==
  ASSUME EngineInv, NEW p \in Ports, CallStep(p), UNCHANGED rx
  PROVE  EngineInv'
<1>0. /\ FdbInv /\ Scoped /\ rx \in [Ports -> Rx] /\ rx[p] \in Rx /\ RxOK(p)
      /\ rx[p].vid \in VIDs
  BY DEF EngineInv, Rx
<1>1. /\ \A q \in Ports \ {p} : th'[q] = th[q]
      /\ th'[p].key = th[p].key
      /\ \/ th[p].pc \in LearnPCs /\ th'[p].pc \in LearnPCs \cup {"learned"}
         \/ th[p].pc \in LookPCs /\ th'[p].pc \in LookPCs \cup {"hit", "miss"}
  BY <1>0, CallGoesOn
<1>2. CASE th[p].pc \in LearnPCs
  <2>1. rx[p].pc = "learn" /\ th[p].key = <<rx[p].vid, rx[p].frame.src>>
    BY <1>0, <1>2 DEF RxOK, LearnPCs, LookPCs
  <2>2. Member(p, th[p].key[1])
    BY <1>0, <2>1, KeyFacts DEF RxOK
  <2>3. Scoped'
    BY <1>0, <2>2, CallScoped
  <2>4. th'[p].pc \in LearnPCs \cup {"learned"}
    BY <1>1, <1>2 DEF LearnPCs, LookPCs
  <2>5. RxOK(p)'
    BY <1>0, <1>1, <2>1, <2>4 DEF RxOK
  <2> QED
    BY <1>0, <1>1, <2>3, <2>5, CallStepInv, RxKept
<1>3. CASE th[p].pc \in LookPCs
  <2>1. rx[p].pc = "lookup" /\ th[p].pc \notin LearnPCs
    BY <1>0, <1>3 DEF RxOK, LearnPCs, LookPCs
  <2>2. Scoped'
    BY <1>0, <2>1, CallScoped
  <2>3. th'[p].pc \in LookPCs \cup {"hit", "miss"}
    BY <1>1, <2>1
  <2>4. RxOK(p)'
    BY <1>0, <1>1, <2>1, <2>3 DEF RxOK
  <2> QED
    BY <1>0, <1>1, <2>2, <2>4, CallStepInv, RxKept
<1> QED
  BY <1>1, <1>2, <1>3

\* gcLoop sees done.
LEMMA GcExitKept ==
  ASSUME FdbInv, GcExit
  PROVE  FdbInv' /\ UNCHANGED <<table, heap, th, rx>>
<1> USE PortFacts DEF FdbInv
<1>1. FdbTypeOK'
  BY DEF GcExit, FdbTypeOK, Collector
<1>2. PointerOK'
  BY DEF GcExit, PointerOK
<1>3. LockOK'
  BY DEF GcExit, FdbTypeOK, LockOK, Collector
<1> QED
  BY <1>1, <1>2, <1>3 DEF GcExit, engineVars

\* The goroutines of the ports are as they were.
LEMMA RxUnmoved ==
  ASSUME EngineInv, FdbInv', Scoped', UNCHANGED <<rx, th>>
  PROVE  EngineInv'
  BY DEF EngineInv, RxOK

\* What NewEngine and Start leave behind.
LEMMA EngineInvInit == ASSUME Init PROVE EngineInv
<1>1. FdbInv
  BY FdbInvInit DEF Init
<1>2. /\ table = [k \in macKey |-> Nil] /\ th = [p \in Ports |-> IdleThread]
      /\ rx = [p \in Ports |-> RxAt("select")]
  BY DEF Init, FdbInit, newFDB
<1>3. rx \in [Ports -> Rx]
  BY <1>2, RxAtType DEF RxPCs
<1>4. Scoped
  BY <1>2 DEF Scoped, FdbScoped, HeldOK, IdleThread, Pointing
<1>5. \A p \in Ports : RxOK(p)
  BY <1>2 DEF RxOK, RxAt, IdleThread
<1> QED
  BY <1>1, <1>3, <1>4, <1>5 DEF EngineInv

LEMMA EngineInvStep == ASSUME EngineInv, [Next]_vars PROVE EngineInv'
<1>0. FdbInv /\ Scoped
  BY DEF EngineInv
<1>1. ASSUME NEW p \in Ports, RxStep(p) PROVE EngineInv'
  <2>1. CASE CallStep(p) /\ UNCHANGED engineVars
    BY <2>1, CallKept DEF engineVars
  <2>2. CASE Select(p) \/ EmitDone(p) \/ Timeout(p) \/ ReadError(p)
    BY <2>2, IdleStep
  <2>3. ASSUME NEW f \in Frames, ReceiveDrop(p, f) PROVE EngineInv'
    BY <2>3, IdleStep
  <2>4. ASSUME NEW f \in Frames, NEW v \in VIDs, Receive(p, f, v) PROVE EngineInv'
    BY <2>4, ReceiveStep
  <2>5. CASE Learned(p) \/ RouteUnicast(p) \/ RouteGroup(p) \/ Hit(p) \/ Miss(p)
    BY <2>5, RouteStep
  <2>6. CASE EmitLock(p) \/ WriteOk(p) \/ WriteFail(p)
    BY <2>6, EmitStep
  <2> QED
    BY <1>1, <2>1, <2>2, <2>3, <2>4, <2>5, <2>6 DEF RxStep, ReadReturns
<1>2. CASE (GcTick \/ ReapStep \/ Tick \/ \E d \in Ageings : SetAgeing(d))
             /\ UNCHANGED engineVars
  <2>1. FdbInv'
    BY <1>0, <1>2, GcStepInv, TickInv, SetAgeingInv
  <2>2. Scoped' /\ UNCHANGED th
    BY <1>0, <1>2, BackgroundScoped
  <2> QED
    BY <1>2, <2>1, <2>2, RxUnmoved DEF engineVars
<1>3. CASE GcExit
  <2>1. FdbInv' /\ UNCHANGED <<table, heap, th, rx>>
    BY <1>0, <1>3, GcExitKept
  <2>2. Scoped'
    BY <1>0, <2>1, ReapScoped
  <2> QED
    BY <2>1, <2>2, RxUnmoved
<1>4. CASE UNCHANGED <<fdbVars, rx>>
  <2>1. UNCHANGED <<table, heap, th, rx>> /\ FdbInv'
    BY <1>0, <1>4, FdbStutterInv DEF fdbVars
  <2>2. Scoped'
    BY <1>0, <2>1, ReapScoped
  <2> QED
    BY <2>1, <2>2, RxUnmoved
<1>5. ASSUME NEW s \in Stoppers, StopCall(s) \/ StopStep(s) PROVE UNCHANGED <<fdbVars, rx>>
  BY <1>5 DEF StopCall, StopStep, StopWait, StopClose, StopReturn, StopUnblock
<1> QED
  BY <1>1, <1>2, <1>3, <1>4, <1>5 DEF Next, GcStep, vars, engineVars
-----------------------------------------------------------------------------
LEMMA EngineInvAlways == Spec => []EngineInv
<1>1. Init => EngineInv
  BY EngineInvInit
<1>2. EngineInv /\ [Next]_vars => EngineInv'
  BY EngineInvStep
<1> QED
  BY <1>1, <1>2, PTL DEF Spec

(***************************************************************************)
(* Whatever the goroutines do, the table holds for an address of a VLAN only *)
(* ports of that VLAN (Learn and Lookup, as forward calls them).            *)
(***************************************************************************)
THEOREM FdbScopedAlways == Spec => []FdbScoped
<1>1. EngineInv => FdbScoped
  BY DEF EngineInv, Scoped
<1> QED
  BY <1>1, EngineInvAlways, PTL

(***************************************************************************)
(* VLAN isolation and split horizon: forward and emit write a frame only to *)
(* ports of the VLAN it was accepted into, and never to the port it came    *)
(* from, even when the destination moves or ages out meanwhile.             *)
(***************************************************************************)
THEOREM VlanIsolationAlways == Spec => []VlanIsolation
<1>1. ASSUME EngineInv PROVE VlanIsolation
  BY <1>1 DEF EngineInv, RxOK, VlanIsolation
<1> QED
  BY <1>1, EngineInvAlways, PTL
=============================================================================
