------------------------------- MODULE Engine -------------------------------
(***************************************************************************)
(* engine.go and rxLoop: the forwarding engine of a started switch.         *)
(*                                                                         *)
(* One rx goroutine per port polls its handle, classifies what it reads,    *)
(* learns the source, looks the destination up and writes the frame to the  *)
(* egress ports, one after the other, each under that port's writeMu.  The  *)
(* ageing goroutine runs beside them.  Any number of callers may call Stop. *)
(*                                                                         *)
(* Frames come from the network: any frame may arrive at any port.  A read  *)
(* of a port in FailingPorts may fail for good; any write may fail.         *)
(***************************************************************************)
EXTENDS Vlan, Fdb

CONSTANTS Frames,        \* [eth, src, dst, tags]: eth is FALSE for a runt
          MaxFrames,     \* bound on the number of frames that arrive
          FailingPorts,  \* ports whose handle may report a fatal read error
          Stoppers       \* the callers of Stop

Frame == [eth : BOOLEAN, src : MACs, dst : MACs, tags : Seq(VIDs)]

ASSUME EngineAssumption ==
  /\ Frames \subseteq Frame /\ Nil \notin Frames
  /\ MaxFrames \in Nat
  /\ FailingPorts \subseteq Ports

VARIABLES
  rx,        \* the rx goroutine of each port, and the frame it works on
  stats,     \* port.stats (frame counters)
  done,      \* e.done is closed
  once,      \* e.stopOnce
  stp,       \* where each caller of Stop is
  closes,    \* how often each port's handle was closed
  arrived,   \* number of frames read so far
  heardOn,   \* history: the ports each source address was received on
  owed       \* history: the copies forward has decided to send on each port

stopVars   == <<done, once, stp, closes>>
envVars    == <<arrived, heardOn, owed>>
engineVars == <<rx, stats, stopVars, envVars>>
vars       == <<fdbVars, engineVars>>

portStats == [rxFrames : Nat, forwardDrop : Nat, flooded : Nat,
              txFrames : Nat, txDrop : Nat]

\* todo: ports emit is still to be called for; cur: the port whose writeMu the
\* goroutine holds; sent: history, the copies written for the frame at hand.
RxPCs == {"select", "read", "learn", "route", "lookup", "emit", "write", "exited"}
Copy  == [port : Ports, tags : Seq(VIDs)]
Rx    == [pc : RxPCs, frame : Frames \cup {Nil}, vid : VIDs, now : Time,
          todo : SUBSET Ports, cur : Ports \cup {Nil}, sent : SUBSET Copy]

RxAt(pc) == [pc |-> pc, frame |-> Nil, vid |-> 0, now |-> 0,
             todo |-> {}, cur |-> Nil, sent |-> {}]

\* The state that NewEngine and Start leave behind.
Init ==
  /\ FdbInit
  /\ rx = [p \in Ports |-> RxAt("select")]
  /\ stats = [p \in Ports |-> [rxFrames |-> 0, forwardDrop |-> 0, flooded |-> 0,
                               txFrames |-> 0, txDrop |-> 0]]
  /\ done = FALSE
  /\ once = "new"
  /\ stp = [s \in Stoppers |-> [pc |-> "idle", next |-> 0]]
  /\ closes = [p \in Ports |-> 0]
  /\ arrived = 0
  /\ heardOn = [k \in macKey |-> {}]
  /\ owed = [p \in Ports |-> 0]
-----------------------------------------------------------------------------
(* rxLoop *)

\* Mutant: the loop never looks at done.
SelectNever(p) ==
  /\ rx[p].pc = "select"
  /\ rx' = [rx EXCEPT ![p] = RxAt("read")]
  /\ UNCHANGED <<fdbVars, stats, stopVars, envVars>>

\* The top of the loop: leave when done is closed, else read.
Select(p) ==
  /\ rx[p].pc = "select"
  /\ rx' = [rx EXCEPT ![p] = RxAt(IF done THEN "exited" ELSE "read")]
  /\ UNCHANGED <<fdbVars, stats, stopVars, envVars>>

\* ErrTimeout: an idle poll cycle.
Timeout(p) ==
  /\ rx[p].pc = "read"
  /\ rx' = [rx EXCEPT ![p].pc = "select"]
  /\ UNCHANGED <<fdbVars, stats, stopVars, envVars>>

ReadError(p) ==
  /\ rx[p].pc = "read"
  /\ p \in FailingPorts
  /\ rx' = [rx EXCEPT ![p].pc = "exited"]
  /\ UNCHANGED <<fdbVars, stats, stopVars, envVars>>
-----------------------------------------------------------------------------
(* forward *)

\* The VLANs, none or one, that frame f from port p is accepted into.
Accepted(p, f) == IF f.eth THEN classify(p, f.tags) ELSE {}

ReceiveDrop(p, f) ==
  /\ rx[p].pc = "read"
  /\ arrived < MaxFrames
  /\ Accepted(p, f) = {}
  /\ rx' = [rx EXCEPT ![p].pc = "select"]
  /\ stats' = [stats EXCEPT ![p].rxFrames = @ + 1, ![p].forwardDrop = @ + 1]
  /\ arrived' = arrived + 1
  /\ UNCHANGED <<fdbVars, stopVars, heardOn, owed>>

\* The source is learned unless it is a group address.
Receive(p, f, vid) ==
  /\ rx[p].pc = "read"
  /\ arrived < MaxFrames
  /\ vid \in Accepted(p, f)
  /\ stats' = [stats EXCEPT ![p].rxFrames = @ + 1]
  /\ arrived' = arrived + 1
  /\ IF f.src \in Unicast
       THEN /\ Learn(p, <<vid, f.src>>, clock)
            /\ heardOn' = [heardOn EXCEPT ![<<vid, f.src>>] = @ \cup {p}]
       ELSE UNCHANGED <<fdbVars, heardOn>>
  /\ rx' = [rx EXCEPT ![p] = [RxAt(IF f.src \in Unicast THEN "learn" ELSE "route")
                                EXCEPT !.frame = f, !.vid = vid, !.now = clock]]
  /\ UNCHANGED <<stopVars, owed>>

Learned(p) ==
  /\ rx[p].pc = "learn"
  /\ th[p].pc = "learned"
  /\ Return(p)
  /\ rx' = [rx EXCEPT ![p].pc = "route"]
  /\ UNCHANGED <<stats, stopVars, envVars>>

\* One more copy is owed to each of the ports ps.
Owe(ps) == owed' = [q \in Ports |-> owed[q] + (IF q \in ps THEN 1 ELSE 0)]

\* Mutant: port numbers off by one.
FloodOffByOne(p) ==
  /\ stats' = [stats EXCEPT ![p].flooded = @ + 1]
  /\ Owe({q \in Ports \ {p} : Member(q, rx[p].vid)})
  /\ rx' = [rx EXCEPT ![p].pc = "emit",
                      ![p].todo = {q + 1 : q \in vidMembers(rx[p].vid) \ {p}}]

\* Broadcast, multicast and unknown unicast go to the rest of the VLAN.
Flood(p) ==
  /\ stats' = [stats EXCEPT ![p].flooded = @ + 1]
  /\ rx' = [rx EXCEPT ![p].pc = "emit", ![p].todo = vidMembers(rx[p].vid) \ {p}]
  /\ Owe({q \in Ports \ {p} : Member(q, rx[p].vid)})

\* Mutant: the lookup ignores the VLAN.
RouteUnicastAnyVlan(p) ==
  /\ rx[p].pc = "route"
  /\ rx[p].frame.dst \in Unicast
  /\ \E v \in VIDs : Lookup(p, <<v, rx[p].frame.dst>>, rx[p].now)
  /\ rx' = [rx EXCEPT ![p].pc = "lookup"]
  /\ UNCHANGED <<stats, stopVars, envVars>>

RouteUnicast(p) ==
  /\ rx[p].pc = "route"
  /\ rx[p].frame.dst \in Unicast
  /\ Lookup(p, <<rx[p].vid, rx[p].frame.dst>>, rx[p].now)
  /\ rx' = [rx EXCEPT ![p].pc = "lookup"]
  /\ UNCHANGED <<stats, stopVars, envVars>>

RouteGroup(p) ==
  /\ rx[p].pc = "route"
  /\ rx[p].frame.dst \notin Unicast
  /\ Flood(p)
  /\ UNCHANGED <<fdbVars, stopVars, arrived, heardOn>>

Miss(p) ==
  /\ rx[p].pc = "lookup"
  /\ th[p].pc = "miss"
  /\ Return(p)
  /\ Flood(p)
  /\ UNCHANGED <<stopVars, arrived, heardOn>>

\* Mutant: no split horizon.
HitBack(p) ==
  /\ rx[p].pc = "lookup"
  /\ th[p].pc = "hit"
  /\ Return(p)
  /\ rx' = [rx EXCEPT ![p].pc = "emit", ![p].todo = {th[p].out}]
  /\ Owe({th[p].out} \ {p})
  /\ UNCHANGED <<stats, stopVars, arrived, heardOn>>

\* Split horizon: a frame is never sent back out of the port it came from.
Hit(p) ==
  /\ rx[p].pc = "lookup"
  /\ th[p].pc = "hit"
  /\ Return(p)
  /\ rx' = [rx EXCEPT ![p].pc = "emit", ![p].todo = {th[p].out} \ {p}]
  /\ Owe({th[p].out} \ {p})
  /\ UNCHANGED <<stats, stopVars, arrived, heardOn>>
-----------------------------------------------------------------------------
(* emit *)

\* Mutant: the error return comes before the Unlock.
WritingLeak(q) ==
  stats[q].txDrop > 0 \/ \E r \in Ports : rx[r].pc = "write" /\ rx[r].cur = q

\* out.writeMu is held.
Writing(q) == \E r \in Ports : rx[r].pc = "write" /\ rx[r].cur = q

\* The flood list is in port order.
EmitLock(p) ==
  /\ rx[p].pc = "emit"
  /\ \E out \in rx[p].todo :
       /\ \A q \in rx[p].todo : out <= q
       /\ ~Writing(out)
       /\ rx' = [rx EXCEPT ![p].pc = "write", ![p].cur = out]
  /\ UNCHANGED <<fdbVars, stats, stopVars, envVars>>

CopyOf(p) ==
  [port |-> rx[p].cur,
   tags |-> emitTags(rx[p].cur, rx[p].frame.tags, rx[p].vid)]

WriteOk(p) ==
  /\ rx[p].pc = "write"
  /\ rx' = [rx EXCEPT ![p].pc = "emit", ![p].todo = @ \ {rx[p].cur},
                      ![p].cur = Nil, ![p].sent = @ \cup {CopyOf(p)}]
  /\ stats' = [stats EXCEPT ![rx[p].cur].txFrames = @ + 1]
  /\ UNCHANGED <<fdbVars, stopVars, envVars>>

\* Mutant: a failed write is swallowed.
WriteFailSilent(p) ==
  /\ rx[p].pc = "write"
  /\ rx' = [rx EXCEPT ![p].pc = "emit", ![p].todo = @ \ {rx[p].cur},
                      ![p].cur = Nil]
  /\ UNCHANGED <<fdbVars, stats, stopVars, envVars>>

\* Mutant: the return after a failed write is missing, so the copy counts as sent too.
WriteFailNoReturn(p) ==
  /\ rx[p].pc = "write"
  /\ rx' = [rx EXCEPT ![p].pc = "emit", ![p].todo = @ \ {rx[p].cur},
                      ![p].cur = Nil]
  /\ stats' = [stats EXCEPT ![rx[p].cur].txDrop = @ + 1,
                            ![rx[p].cur].txFrames = @ + 1]
  /\ UNCHANGED <<fdbVars, stopVars, envVars>>

WriteFail(p) ==
  /\ rx[p].pc = "write"
  /\ rx' = [rx EXCEPT ![p].pc = "emit", ![p].todo = @ \ {rx[p].cur},
                      ![p].cur = Nil]
  /\ stats' = [stats EXCEPT ![rx[p].cur].txDrop = @ + 1]
  /\ UNCHANGED <<fdbVars, stopVars, envVars>>

EmitDone(p) ==
  /\ rx[p].pc = "emit"
  /\ rx[p].todo = {}
  /\ rx' = [rx EXCEPT ![p] = RxAt("select")]
  /\ UNCHANGED <<fdbVars, stats, stopVars, envVars>>
-----------------------------------------------------------------------------
(* gcLoop and Stop *)

GcExit ==
  /\ gc.pc = "wait"
  /\ done
  /\ gc' = [gc EXCEPT !.pc = "exited"]
  /\ UNCHANGED <<clock, ageing, mu, table, heap, th, engineVars>>

\* Mutant: a flag instead of a Once, so a second caller returns at once.
StopCallFlag(s) ==
  /\ stp[s].pc = "idle"
  /\ stp' = [stp EXCEPT ![s].pc = IF once = "new" THEN "wait" ELSE "returned"]
  /\ once' = IF once = "new" THEN "running" ELSE once
  /\ done' = TRUE
  /\ UNCHANGED <<fdbVars, rx, stats, closes, envVars>>

\* stopOnce.Do: the first caller closes done and goes on; one that comes while
\* the first is still busy waits for it; one that comes later returns.
StopCall(s) ==
  /\ stp[s].pc = "idle"
  /\ stp' = [stp EXCEPT ![s].pc = CASE once = "new"     -> "wait"
                                    [] once = "running" -> "blocked"
                                    [] once = "done"    -> "returned"]
  /\ once' = IF once = "new" THEN "running" ELSE once
  /\ done' = TRUE
  /\ UNCHANGED <<fdbVars, rx, stats, closes, envVars>>

\* Mutant: the handles are closed first, to unblock the readers.
StopWaitNot(s) ==
  /\ stp[s].pc = "wait"
  /\ stp' = [stp EXCEPT ![s].pc = "close"]
  /\ UNCHANGED <<fdbVars, rx, stats, done, once, closes, envVars>>

\* wg.Wait: one count per rx goroutine and one for gcLoop.
StopWait(s) ==
  /\ stp[s].pc = "wait"
  /\ \A p \in Ports : rx[p].pc = "exited"
  /\ gc.pc = "exited"
  /\ stp' = [stp EXCEPT ![s].pc = "close"]
  /\ UNCHANGED <<fdbVars, rx, stats, done, once, closes, envVars>>

StopClose(s) ==
  /\ stp[s].pc = "close"
  /\ stp[s].next \in Ports
  /\ closes' = [closes EXCEPT ![stp[s].next] = @ + 1]
  /\ stp' = [stp EXCEPT ![s].next = @ + 1]
  /\ UNCHANGED <<fdbVars, rx, stats, done, once, envVars>>

StopReturn(s) ==
  /\ stp[s].pc = "close"
  /\ stp[s].next = NumPorts
  /\ stp' = [stp EXCEPT ![s].pc = "returned"]
  /\ once' = "done"
  /\ UNCHANGED <<fdbVars, rx, stats, done, closes, envVars>>

StopUnblock(s) ==
  /\ stp[s].pc = "blocked"
  /\ once = "done"
  /\ stp' = [stp EXCEPT ![s].pc = "returned"]
  /\ UNCHANGED <<fdbVars, rx, stats, done, once, closes, envVars>>
-----------------------------------------------------------------------------
ReadReturns(p) ==
  \/ Timeout(p) \/ ReadError(p)
  \/ \E f \in Frames : ReceiveDrop(p, f) \/ \E v \in VIDs : Receive(p, f, v)

RxStep(p) ==
  \/ Select(p) \/ ReadReturns(p)
  \/ CallStep(p) /\ UNCHANGED engineVars
  \/ Learned(p) \/ RouteUnicast(p) \/ RouteGroup(p) \/ Hit(p) \/ Miss(p)
  \/ EmitLock(p) \/ WriteOk(p) \/ WriteFail(p) \/ EmitDone(p)

GcStep == \/ (GcTick \/ ReapStep) /\ UNCHANGED engineVars
          \/ GcExit

StopStep(s) == StopWait(s) \/ StopClose(s) \/ StopReturn(s) \/ StopUnblock(s)

Next ==
  \/ \E p \in Ports : RxStep(p)
  \/ GcStep
  \/ \E s \in Stoppers : StopCall(s) \/ StopStep(s)
  \/ (Tick \/ \E d \in Ageings : SetAgeing(d)) /\ UNCHANGED engineVars

Spec == Init /\ [][Next]_vars

\* A goroutine that can go on again and again does so in the end: it keeps
\* running, its read returns within the poll timeout, and a mutex it waits for,
\* which others take and release, is handed to it.  gcLoop's select, which picks
\* at random among what is ready, sees done in the end.  Nothing is assumed of
\* frames, of the clock or of the callers of Stop.
Fairness ==
  /\ \A p \in Ports : SF_vars(RxStep(p))
  /\ SF_vars(GcStep) /\ SF_vars(GcExit)
  /\ \A s \in Stoppers : WF_vars(StopStep(s))

FairSpec == Spec /\ Fairness
-----------------------------------------------------------------------------
\* Types.
TypeOK ==
  /\ FdbTypeOK
  /\ rx \in [Ports -> Rx]
  /\ stats \in [Ports -> portStats]
  /\ done \in BOOLEAN
  /\ once \in {"new", "running", "done"}
  /\ stp \in [Stoppers -> [pc : {"idle", "wait", "close", "blocked", "returned"},
                           next : 0 .. NumPorts]]
  /\ closes \in [Ports -> Nat]
  /\ arrived \in 0 .. MaxFrames
  /\ heardOn \in [macKey -> SUBSET Ports]
  /\ owed \in [Ports -> Nat]

(***************************************************************************)
(* The table is VLAN-scoped: what it holds for an address of a VLAN is a    *)
(* port of that VLAN.  forward relies on it: it writes to the port Lookup   *)
(* returned without asking whether the port belongs to the frame's VLAN.    *)
(***************************************************************************)
FdbScoped ==
  \A k \in macKey :
    table[k] # Nil => Member(heap[k][table[k]].portIdx, k[1])

(***************************************************************************)
(* VLAN isolation and split horizon: a frame is only ever written to ports  *)
(* of the VLAN it was accepted into, it was accepted at a port of that      *)
(* VLAN, and it is never written back to the port it came from.             *)
(***************************************************************************)
VlanIsolation ==
  \A p \in Ports :
    rx[p].pc = "write" => /\ Member(p, rx[p].vid)
                          /\ Member(rx[p].cur, rx[p].vid)
                          /\ rx[p].cur # p

(***************************************************************************)
(* No use after close: no goroutine is inside a read or a write of a handle *)
(* that Stop has closed (closing a handle that is being read would unmap    *)
(* the ring buffer under the reader).                                       *)
(***************************************************************************)
NoUseAfterClose ==
  \A p \in Ports : /\ rx[p].pc = "read" => closes[p] = 0
                   /\ rx[p].pc = "write" => closes[rx[p].cur] = 0

(***************************************************************************)
(* Stop may be called more than once: whichever caller returns, and however *)
(* the calls overlap, on its return every goroutine has ended and every     *)
(* handle has been closed, once.                                            *)
(***************************************************************************)
StopReturnsClean ==
  \A s \in Stoppers : stp[s].pc = "returned" =>
    /\ \A p \in Ports : rx[p].pc = "exited" /\ closes[p] = 1
    /\ gc.pc = "exited"

(***************************************************************************)
(* Stop is final: once any call of Stop has returned, no frame is received, *)
(* learned, counted or sent, the table is left alone and no handle is       *)
(* closed again, whatever calls of Stop, of SetAgeing and ticks still come. *)
(***************************************************************************)
StopIsFinal ==
  [][(\E s \in Stoppers : stp[s].pc = "returned") =>
       UNCHANGED <<rx, stats, closes, gc, th, mu, table, heap, envVars>>]_vars

(***************************************************************************)
(* Copies are accounted for, on every port and at every moment: of the      *)
(* copies forward decided to send there - one of each frame flooded in a    *)
(* VLAN of the port from another port, one of each frame for a station that *)
(* Lookup found behind it - each is still to be written or has been counted *)
(* once, in tx_frames or, when its write failed, in tx_drop.                *)
(***************************************************************************)
CopiesAccounted ==
  \A q \in Ports :
    LET pending == {p \in Ports : q \in rx[p].todo}
    IN  owed[q] = Cardinality(pending) + stats[q].txFrames + stats[q].txDrop

(***************************************************************************)
(* Stop comes back: every call of Stop returns, whatever the goroutines are *)
(* doing when it is made and however many calls overlap.                    *)
(***************************************************************************)
StopTerminates == \A s \in Stoppers : stp[s].pc # "idle" ~> stp[s].pc = "returned"

(***************************************************************************)
(* Every frame is dealt with: forward returns, so no goroutine is stuck     *)
(* waiting for the table's lock, which reap takes too, or for a writeMu     *)
(* that floods from other ports contend for, whatever writes fail.          *)
(***************************************************************************)
ForwardReturns == \A p \in Ports : rx[p].frame # Nil ~> rx[p].frame = Nil
-----------------------------------------------------------------------------
flightBar ==
  [p \in Ports |->
     [frame |-> rx[p].frame, vid |-> rx[p].vid,
      stage |-> CASE rx[p].pc \in {"learn", "route", "lookup"} -> "admitted"
                  [] rx[p].pc \in {"emit", "write"}            -> "routed"
                  [] OTHER                                     -> "idle",
      todo |-> rx[p].todo, sent |-> rx[p].sent]]

LS == INSTANCE LearningSwitch WITH flight <- flightBar

(***************************************************************************)
(* The engine implements the abstract learning switch: with all its         *)
(* goroutines, the table and its ageing and with writes that fail, what it  *)
(* sends for a frame is what LearningSwitch allows.                         *)
(***************************************************************************)
ImplementsLearningSwitch == LS!LSSpec

(***************************************************************************)
(* A plain port is "transparent L2, no VLAN awareness": a copy written to   *)
(* one carries the tags the frame came with.                                *)
(***************************************************************************)
PlainTransparent ==
  \A p \in Ports : rx[p].pc = "write" /\ role(rx[p].cur) = "plain"
                     => CopyOf(p).tags = rx[p].frame.tags
=============================================================================
