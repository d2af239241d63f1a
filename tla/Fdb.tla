-------------------------------- MODULE Fdb ---------------------------------
(***************************************************************************)
(* fdb.go: the VLAN-scoped MAC learning table, used concurrently by one rx  *)
(* goroutine per port and by the ageing goroutine.                          *)
(*                                                                         *)
(* One step is one access to shared memory or one critical section.  The    *)
(* map is only touched under mu, but the entry a goroutine found in it is   *)
(* read and refreshed after mu was released, so the entry may by then have  *)
(* moved to another port or have been deleted from the map.  Entries are    *)
(* therefore heap cells that table points to, and a goroutine's ent is a    *)
(* pointer it may hold longer than the map does.                            *)
(*                                                                         *)
(* Goroutine p is the rx goroutine of port p: what it learns, it learns on  *)
(* port p.  It has at most one call outstanding.                            *)
(***************************************************************************)
EXTENDS SwitchConfig

CONSTANTS Time,       \* the readings of the wall clock
          Ageings     \* the ageing durations SetAgeing may be given

ASSUME FdbAssumption == Time \subseteq Int /\ 0 \in Time /\ Ageings \subseteq Int

VARIABLES
  clock,    \* time.Now().UnixNano()
  ageing,   \* f.ageing
  mu,       \* f.mu: "locked" while a writer holds it; a read lock is one step
  table,    \* f.table: the heap cell of each key, or Nil
  heap,     \* heap[k][s]: the entry in cell s, for key k
  th,       \* the outstanding call of each rx goroutine
  gc        \* the ageing goroutine

fdbVars == <<clock, ageing, mu, table, heap, th, gc>>

\* A key needs a cell for the map and one for every goroutine that may hold a
\* deleted entry; the goroutine that inserts holds none.
Slots == 1 .. NumPorts
entry == [portIdx : Ports, seenAt : Time]

LearnPCs == {"learn_read", "learn_check", "learn_store", "learn_lock",
             "learn_locked", "learn_touch"}
LookPCs  == {"look_read", "look_age", "look_seen", "look_port"}
ReturnPCs == {"learned", "hit", "miss"}

Thread == [pc  : {"idle"} \cup LearnPCs \cup LookPCs \cup ReturnPCs,
           key : macKey \cup {Nil},
           now : Time,
           ent : Slots \cup {Nil},
           age : Int,
           out : Ports \cup {Nil}]

IdleThread ==
  [pc |-> "idle", key |-> Nil, now |-> 0, ent |-> Nil, age |-> 0, out |-> Nil]

\* Calls that hold a pointer to an entry, and calls that hold mu.
Pointing == {"learn_check", "learn_store", "look_age", "look_seen", "look_port"}
Locking  == {"learn_locked", "learn_touch"}

Collector == [pc   : {"wait", "load", "lock", "scan", "exited"},
              now  : Time,
              age  : Int,
              todo : SUBSET macKey]

IdleCollector == [pc |-> "wait", now |-> 0, age |-> 0, todo |-> {}]

newFDB ==
  /\ mu = "free"
  /\ table = [k \in macKey |-> Nil]
  /\ heap = [k \in macKey |-> [s \in Slots |-> [portIdx |-> 0, seenAt |-> 0]]]

FdbInit ==
  /\ newFDB
  /\ clock = 0
  /\ ageing \in Ageings
  /\ th = [p \in Ports |-> IdleThread]
  /\ gc = IdleCollector
-----------------------------------------------------------------------------
(* Learn *)

\* Goroutine p calls Learn(vid, mac, p, now) with k = {vid, mac}.
Learn(p, k, now) ==
  /\ th[p].pc = "idle"
  /\ th' = [th EXCEPT ![p] = [IdleThread EXCEPT !.pc = "learn_read",
                                                !.key = k, !.now = now]]
  /\ UNCHANGED <<clock, ageing, mu, table, heap, gc>>

\* Mutant: the hot path is taken without asking whether the key was found.
LearnReadNoOk(p) ==
  /\ th[p].pc = "learn_read"
  /\ mu = "free"
  /\ th' = [th EXCEPT ![p].pc = "learn_check", ![p].ent = table[th[p].key]]
  /\ UNCHANGED <<clock, ageing, mu, table, heap, gc>>

LearnRead(p) ==
  /\ th[p].pc = "learn_read"
  /\ mu = "free"
  /\ LET e == table[th[p].key]
     IN  th' = [th EXCEPT ![p].pc = IF e # Nil THEN "learn_check" ELSE "learn_lock",
                          ![p].ent = e]
  /\ UNCHANGED <<clock, ageing, mu, table, heap, gc>>

\* Mutant: any known address takes the hot path, whatever its port.
LearnCheckAnyPort(p) ==
  /\ th[p].pc = "learn_check"
  /\ th' = [th EXCEPT ![p].pc = "learn_store"]
  /\ UNCHANGED <<clock, ageing, mu, table, heap, gc>>

\* e.portIdx == port, read without the lock.
LearnCheck(p) ==
  /\ th[p].pc = "learn_check"
  /\ th' = IF heap[th[p].key][th[p].ent].portIdx = p
             THEN [th EXCEPT ![p].pc = "learn_store"]
             ELSE [th EXCEPT ![p].pc = "learn_lock", ![p].ent = Nil]
  /\ UNCHANGED <<clock, ageing, mu, table, heap, gc>>

\* The hot path: the atomic store, to whatever the entry has become.
LearnRefresh(p) ==
  /\ th[p].pc = "learn_store"
  /\ heap' = [heap EXCEPT ![th[p].key][th[p].ent].seenAt = th[p].now]
  /\ th' = [th EXCEPT ![p].pc = "learned", ![p].ent = Nil]
  /\ UNCHANGED <<clock, ageing, mu, table, gc>>

LearnLock(p) ==
  /\ th[p].pc = "learn_lock"
  /\ mu = "free"
  /\ mu' = "locked"
  /\ th' = [th EXCEPT ![p].pc = "learn_locked"]
  /\ UNCHANGED <<clock, ageing, table, heap, gc>>

LearnMove(p) ==
  /\ th[p].pc = "learn_locked"
  /\ table[th[p].key] # Nil
  /\ heap' = [heap EXCEPT ![th[p].key][table[th[p].key]].portIdx = p]
  /\ th' = [th EXCEPT ![p].pc = "learn_touch"]
  /\ UNCHANGED <<clock, ageing, mu, table, gc>>

LearnTouch(p) ==
  /\ th[p].pc = "learn_touch"
  /\ heap' = [heap EXCEPT ![th[p].key][table[th[p].key]].seenAt = th[p].now]
  /\ mu' = "free"
  /\ th' = [th EXCEPT ![p].pc = "learned"]
  /\ UNCHANGED <<clock, ageing, table, gc>>

\* Cells of k that neither the map nor a goroutine points to.
FreeSlots(k) ==
  Slots \ ({table[k]} \cup {th[q].ent : q \in {r \in Ports : th[r].key = k}})

LearnInsert(p) ==
  /\ th[p].pc = "learn_locked"
  /\ table[th[p].key] = Nil
  /\ \E s \in FreeSlots(th[p].key) :
       /\ \A t \in FreeSlots(th[p].key) : s <= t
       /\ table' = [table EXCEPT ![th[p].key] = s]
       /\ heap' = [heap EXCEPT ![th[p].key][s] =
                                 [portIdx |-> p, seenAt |-> th[p].now]]
  /\ mu' = "free"
  /\ th' = [th EXCEPT ![p].pc = "learned"]
  /\ UNCHANGED <<clock, ageing, gc>>
-----------------------------------------------------------------------------
(* Lookup *)

Lookup(p, k, now) ==
  /\ th[p].pc = "idle"
  /\ th' = [th EXCEPT ![p] = [IdleThread EXCEPT !.pc = "look_read",
                                                !.key = k, !.now = now]]
  /\ UNCHANGED <<clock, ageing, mu, table, heap, gc>>

LookRead(p) ==
  /\ th[p].pc = "look_read"
  /\ mu = "free"
  /\ LET e == table[th[p].key]
     IN  th' = [th EXCEPT ![p].pc = IF e # Nil THEN "look_age" ELSE "miss",
                          ![p].ent = e]
  /\ UNCHANGED <<clock, ageing, mu, table, heap, gc>>

\* Mutant: no lazy expiry.
LookAgeNever(p) ==
  /\ th[p].pc = "look_age"
  /\ th' = [th EXCEPT ![p].pc = "look_port", ![p].age = ageing]
  /\ UNCHANGED <<clock, ageing, mu, table, heap, gc>>

LookAge(p) ==
  /\ th[p].pc = "look_age"
  /\ th' = [th EXCEPT ![p].pc = IF ageing > 0 THEN "look_seen" ELSE "look_port",
                      ![p].age = ageing]
  /\ UNCHANGED <<clock, ageing, mu, table, heap, gc>>

LookSeen(p) ==
  /\ th[p].pc = "look_seen"
  /\ th' = IF th[p].now - heap[th[p].key][th[p].ent].seenAt > th[p].age
             THEN [th EXCEPT ![p].pc = "miss", ![p].ent = Nil]
             ELSE [th EXCEPT ![p].pc = "look_port"]
  /\ UNCHANGED <<clock, ageing, mu, table, heap, gc>>

\* Mutant: the port a failed lookup returns.
LookPortZero(p) ==
  /\ th[p].pc = "look_port"
  /\ th' = [th EXCEPT ![p].pc = "hit", ![p].out = 0, ![p].ent = Nil]
  /\ UNCHANGED <<clock, ageing, mu, table, heap, gc>>

\* return e.portIdx, true: read without the lock.
LookPort(p) ==
  /\ th[p].pc = "look_port"
  /\ th' = [th EXCEPT ![p].pc = "hit",
                      ![p].out = heap[th[p].key][th[p].ent].portIdx,
                      ![p].ent = Nil]
  /\ UNCHANGED <<clock, ageing, mu, table, heap, gc>>

\* The caller takes the result.
Return(p) ==
  /\ th[p].pc \in ReturnPCs
  /\ th' = [th EXCEPT ![p] = IdleThread]
  /\ UNCHANGED <<clock, ageing, mu, table, heap, gc>>
-----------------------------------------------------------------------------
(* reap, called by gcLoop on every tick of its ticker *)

GcTick ==
  /\ gc.pc = "wait"
  /\ gc' = [gc EXCEPT !.pc = "load", !.now = clock]
  /\ UNCHANGED <<clock, ageing, mu, table, heap, th>>

\* Mutant: the test for "never age out" is inverted.
ReapLoadInverted ==
  /\ gc.pc = "load"
  /\ gc' = IF ageing # 0 THEN IdleCollector
                         ELSE [gc EXCEPT !.pc = "lock", !.age = ageing]
  /\ UNCHANGED <<clock, ageing, mu, table, heap, th>>

ReapLoad ==
  /\ gc.pc = "load"
  /\ gc' = IF ageing = 0 THEN IdleCollector
                         ELSE [gc EXCEPT !.pc = "lock", !.age = ageing]
  /\ UNCHANGED <<clock, ageing, mu, table, heap, th>>

ReapLock ==
  /\ gc.pc = "lock"
  /\ mu = "free"
  /\ mu' = "locked"
  /\ gc' = [gc EXCEPT !.pc = "scan", !.todo = {k \in macKey : table[k] # Nil}]
  /\ UNCHANGED <<clock, ageing, table, heap, th>>

\* A refresh that lands between the load of seenAt and the delete writes to a
\* cell the map is about to drop, just as one that lands after the delete.
ReapEntry(k) ==
  /\ gc.pc = "scan"
  /\ k \in gc.todo
  /\ table' = IF gc.now - heap[k][table[k]].seenAt > gc.age
                THEN [table EXCEPT ![k] = Nil] ELSE table
  /\ gc' = [gc EXCEPT !.todo = @ \ {k}]
  /\ UNCHANGED <<clock, ageing, mu, heap, th>>

ReapUnlock ==
  /\ gc.pc = "scan"
  /\ gc.todo = {}
  /\ mu' = "free"
  /\ gc' = IdleCollector
  /\ UNCHANGED <<clock, ageing, table, heap, th>>
-----------------------------------------------------------------------------
(* The environment: the clock moves, and the ageing duration is set. *)

\* now is the wall clock, which may also be set back.
Tick ==
  /\ clock' \in Time \ {clock}
  /\ UNCHANGED <<ageing, mu, table, heap, th, gc>>

SetAgeing(d) ==
  /\ ageing' = d
  /\ UNCHANGED <<clock, mu, table, heap, th, gc>>

\* The steps of an outstanding call, and those of a reap.
CallStep(p) ==
  \/ LearnRead(p) \/ LearnCheck(p) \/ LearnRefresh(p) \/ LearnLock(p)
  \/ LearnMove(p) \/ LearnTouch(p) \/ LearnInsert(p)
  \/ LookRead(p) \/ LookAge(p) \/ LookSeen(p) \/ LookPort(p)

ReapStep ==
  ReapLoad \/ ReapLock \/ (\E k \in macKey : ReapEntry(k)) \/ ReapUnlock
-----------------------------------------------------------------------------
(***************************************************************************)
(* Types.  A goroutine holds a pointer exactly while its call still has to  *)
(* read or refresh the entry it found, so no step dereferences nil; the     *)
(* lock is held exactly by one goroutine inside a critical section of Learn *)
(* or reap; and what reap still has to visit is in the map.                 *)
(***************************************************************************)
FdbTypeOK ==
  /\ clock \in Time
  /\ ageing \in Int
  /\ mu \in {"free", "locked"}
  /\ table \in [macKey -> Slots \cup {Nil}]
  /\ heap \in [macKey -> [Slots -> entry]]
  /\ th \in [Ports -> Thread]
  /\ gc \in Collector

PointerOK ==
  \A p \in Ports : /\ th[p].key = Nil <=> th[p].pc = "idle"
                   /\ th[p].ent # Nil <=> th[p].pc \in Pointing
                   /\ th[p].out # Nil <=> th[p].pc = "hit"

LockOK ==
  /\ mu = "free" <=> gc.pc # "scan" /\ \A p \in Ports : th[p].pc \notin Locking
  /\ \A p, q \in Ports : th[p].pc \in Locking /\ th[q].pc \in Locking => p = q
  /\ gc.pc = "scan" => \A p \in Ports : th[p].pc \notin Locking
  /\ \A k \in gc.todo : gc.pc = "scan" /\ table[k] # Nil
  /\ \A p \in Ports : th[p].pc = "learn_touch" =>
       /\ table[th[p].key] # Nil
       /\ heap[th[p].key][table[th[p].key]].portIdx = p

(***************************************************************************)
(* Expired entries go.  With ageing on, an entry older than the ageing      *)
(* duration is eventually deleted or refreshed: gcLoop does the deletion    *)
(* that Lookup's lazy expiry leaves to it.                                  *)
(***************************************************************************)
Expired(k) ==
  /\ ageing > 0
  /\ table[k] # Nil
  /\ clock - heap[k][table[k]].seenAt > ageing

ExpiredReaped == \A k \in macKey : Expired(k) ~> ~Expired(k)

(***************************************************************************)
(* The documentation calls the switch race-clean.  No goroutine is about to *)
(* read portIdx without the lock (Learn's hot-path test, Lookup's result)   *)
(* while another is about to write it under the lock (Learn's move).        *)
(***************************************************************************)
NoDataRace ==
  \A p, q \in Ports :
    /\ th[p].pc \in {"learn_check", "look_port"}
    /\ th[q].pc = "learn_locked"
    /\ th[p].key = th[q].key
    => th[p].ent # table[th[q].key]

(***************************************************************************)
(* Learn records that mac lives behind port: when it has returned, and the  *)
(* time it was given is within the ageing duration, mac is in the table.    *)
(* It is meant for a clock that is not set back: an entry that has rightly  *)
(* expired would otherwise look fresh again.                                *)
(***************************************************************************)
LearnRecorded ==
  \A p \in Ports :
    th[p].pc = "learned" /\ ageing > 0 /\ clock - th[p].now <= ageing
      => table[th[p].key] # Nil
=============================================================================
