----------------------------- MODULE FdbHistory -----------------------------
(***************************************************************************)
(* What the learning table promises its callers, stated over the calls made *)
(* to it.  Four history variables record the calls; they change nothing    *)
(* the code does.                                                           *)
(*                                                                         *)
(*   left[k]    ports the station k has left: every Learn of k on such a    *)
(*              port returned before some later Learn of k on another port  *)
(*              was called, and that later Learn has returned               *)
(*   earlier[p] for a Learn of k: the ports with no Learn of k under way    *)
(*              since the call began; for a Lookup of k: left[k] when the   *)
(*              call began, less the ports that have learned k since        *)
(*   heard[k]   the latest time passed to a Learn of k                      *)
(*   current[p] for a Lookup of k: the ports the table has pointed to for k *)
(*              at the moments since the call began                         *)
(***************************************************************************)
EXTENDS Fdb

VARIABLES left, earlier, heard, current

histVars == <<left, earlier, heard>>
vars == <<fdbVars, histVars, current>>

Learning(p, k) == th[p].key = k /\ th[p].pc \in LearnPCs
Calling(p, k)  == th[p].key = k /\ th[p].pc \in LearnPCs \cup LookPCs

Init ==
  /\ FdbInit
  /\ left = [k \in macKey |-> {}]
  /\ earlier = [p \in Ports |-> {}]
  /\ heard = [k \in macKey |-> 0]
  /\ current = [p \in Ports |-> {}]

HLearn(p, k, now) ==
  /\ Learn(p, k, now)
  /\ left' = [left EXCEPT ![k] = @ \ {p}]
  /\ earlier' = [q \in Ports |->
                   IF q = p THEN {r \in Ports \ {p} : ~Learning(r, k)}
                   ELSE IF Calling(q, k) THEN earlier[q] \ {p}
                   ELSE earlier[q]]
  /\ heard' = [heard EXCEPT ![k] = IF now > @ THEN now ELSE @]

HLookup(p, k, now) ==
  /\ Lookup(p, k, now)
  /\ earlier' = [earlier EXCEPT ![p] = left[k]]
  /\ UNCHANGED <<left, heard>>

\* The steps at which a Learn returns.
HLearned(p) ==
  /\ LearnRefresh(p) \/ LearnTouch(p) \/ LearnInsert(p)
  /\ left' = [left EXCEPT ![th[p].key] = @ \cup earlier[p]]
  /\ earlier' = [earlier EXCEPT ![p] = {}]
  /\ UNCHANGED heard

HStep(p) ==
  /\ \/ LearnRead(p) \/ LearnCheck(p) \/ LearnLock(p) \/ LearnMove(p)
     \/ LookRead(p) \/ LookAge(p) \/ LookSeen(p) \/ LookPort(p)
  /\ UNCHANGED histVars

HReturn(p) ==
  /\ Return(p)
  /\ earlier' = [earlier EXCEPT ![p] = {}]
  /\ UNCHANGED <<left, heard>>

HOther ==
  /\ GcTick \/ ReapStep \/ Tick \/ \E d \in Ageings : SetAgeing(d)
  /\ UNCHANGED histVars

\* The table is called by every goroutine with any key.  A lookup may come with
\* another now, since forward reads the clock once per frame.
Step ==
  \/ \E p \in Ports : \/ \E k \in macKey : HLearn(p, k, clock)
                      \/ \E k \in macKey, t \in Time : HLookup(p, k, t)
                      \/ HStep(p)
                      \/ HLearned(p)
                      \/ HReturn(p)
  \/ HOther

\* What the table says of k, and the watch kept on it during a Lookup.
Shown(k) == IF table[k] = Nil THEN {} ELSE {heap[k][table[k]].portIdx}

Watch ==
  current' = [p \in Ports |->
                IF th'[p].pc \in LookPCs   THEN current[p] \cup Shown(th[p].key)'
                ELSE IF th'[p].pc = "hit" THEN current[p]
                ELSE {}]

Next == Step /\ Watch

Spec == Init /\ [][Next]_vars
-----------------------------------------------------------------------------
TypeOK ==
  /\ FdbTypeOK
  /\ PointerOK
  /\ LockOK
  /\ left \in [macKey -> SUBSET Ports]
  /\ earlier \in [Ports -> SUBSET Ports]
  /\ heard \in [macKey -> Time]
  /\ current \in [Ports -> SUBSET Ports]

(***************************************************************************)
(* A move wins.  Once a station's Learn on its new port has returned, the   *)
(* table never again points to a port the station had left before: neither  *)
(* the unlocked comparison of Learn's hot path, nor a refresh of an entry    *)
(* that was moved or deleted meanwhile, brings the old port back.           *)
(***************************************************************************)
MoveWins ==
  \A k \in macKey :
    table[k] # Nil => heap[k][table[k]].portIdx \notin left[k]

(***************************************************************************)
(* No stale answer.  A Lookup never returns a port the station had left     *)
(* before the Lookup was called, although it reads portIdx from an entry it  *)
(* found under a lock it no longer holds.                                   *)
(***************************************************************************)
NoStaleHit ==
  \A p \in Ports : th[p].pc = "hit" => th[p].out \notin earlier[p]

(***************************************************************************)
(* No traffic for the silent.  With ageing on, a Lookup that hits found a   *)
(* station that was heard at most the ageing duration before, whatever      *)
(* refreshes, moves and deletions overlap it.                               *)
(***************************************************************************)
NoSilentHit ==
  \A p \in Ports : th[p].pc = "hit" /\ th[p].age > 0 =>
                     th[p].now - heard[th[p].key] <= th[p].age

(***************************************************************************)
(* A hit was current.  The port a Lookup returns is one the table pointed   *)
(* to at some moment of the call, although it is read from an entry that    *)
(* may have been moved or deleted since it was found: the Lookup can be     *)
(* thought of as taking place at that moment, in one step.                  *)
(***************************************************************************)
HitWasCurrent ==
  \A p \in Ports : th[p].pc = "hit" => th[p].out \in current[p]
=============================================================================
