----------------------------- MODULE Snapshots ------------------------------
(***************************************************************************)
(* FDBSnapshot, called by the control server's goroutines: a copy of the    *)
(* learning table, entry by entry under the read lock.  It is the one       *)
(* reader of the table that keeps the lock over several steps, so writers   *)
(* wait for it.                                                             *)
(*                                                                         *)
(* Beside it the rx goroutines learn and the ageing goroutine reaps.  Their *)
(* lookups, which write nothing the snapshot reads, are left to the runs of *)
(* the table alone, and so is the age of an entry, which is not copied.     *)
(***************************************************************************)
EXTENDS Fdb

VARIABLE snap    \* the snapshot being taken

snapVars == <<fdbVars, snap>>

\* todo: the entries still to copy; rows: the ports copied so far.
Snapshot == [pc   : {"idle", "copy"},
             todo : SUBSET macKey,
             rows : [macKey -> Ports \cup {Nil}]]

IdleSnap == [pc |-> "idle", todo |-> {}, rows |-> [k \in macKey |-> Nil]]

SnapInit == FdbInit /\ snap = IdleSnap

\* Mutant: the table is read without the lock.
SnapRLockNot ==
  /\ snap.pc = "idle"
  /\ snap' = [snap EXCEPT !.pc = "copy", !.todo = {k \in macKey : table[k] # Nil}]
  /\ UNCHANGED fdbVars

\* A call reaches the table once it has the read lock.
SnapRLock ==
  /\ snap.pc = "idle"
  /\ mu = "free"
  /\ snap' = [snap EXCEPT !.pc = "copy", !.todo = {k \in macKey : table[k] # Nil}]
  /\ UNCHANGED fdbVars

\* A pointer is followed here, so the entry must still be in the map.
SnapCopy(k) ==
  /\ snap.pc = "copy"
  /\ k \in snap.todo
  /\ table[k] # Nil
  /\ snap' = [snap EXCEPT !.todo = @ \ {k},
                          !.rows[k] = heap[k][table[k]].portIdx]
  /\ UNCHANGED fdbVars

SnapRUnlock ==
  /\ snap.pc = "copy"
  /\ snap.todo = {}
  /\ snap' = IdleSnap
  /\ UNCHANGED fdbVars

SnapStep == (\E k \in macKey : SnapCopy(k)) \/ SnapRUnlock

\* A step of the table: nobody takes the write lock while a reader holds mu.
Beside(A) ==
  /\ A
  /\ snap.pc = "copy" => mu' = "free"
  /\ UNCHANGED snap

Next ==
  \/ SnapRLock \/ SnapStep
  \/ \E p \in Ports : \/ \E k \in macKey : Beside(Learn(p, k, clock))
                      \/ Beside(CallStep(p))
                      \/ Beside(Return(p))
  \/ Beside(GcTick) \/ Beside(ReapStep) \/ Beside(Tick)
  \/ \E d \in Ageings : Beside(SetAgeing(d))

Spec == SnapInit /\ [][Next]_snapVars

\* The goroutines keep running, the ticker keeps ticking, and one that waits for
\* mu gets it in the end.  A goroutine has one step to take at a time, and only
\* the wait for mu can be interrupted: strong fairness is about that wait.  A
\* snapshot that has the lock lets go of it; nothing says that one is ever taken.
Fairness ==
  /\ \A p \in Ports : SF_snapVars(Beside(CallStep(p) \/ Return(p)))
  /\ SF_snapVars(Beside(GcTick \/ ReapStep))
  /\ WF_snapVars(SnapStep)

FairSpec == Spec /\ Fairness
-----------------------------------------------------------------------------
(***************************************************************************)
(* A snapshot is one moment of the table: as long as the read lock is held  *)
(* the rows copied are the table's, and the entries to come are still in    *)
(* it, so what FDBSnapshot returns is the whole table as it was when it let *)
(* go of the lock, with no nil entry followed on the way.                   *)
(***************************************************************************)
SnapshotExact ==
  snap.pc = "copy" =>
    /\ \A k \in snap.todo : table[k] # Nil
    /\ \A k \in macKey \ snap.todo :
         snap.rows[k] = IF table[k] = Nil THEN Nil ELSE heap[k][table[k]].portIdx
=============================================================================
