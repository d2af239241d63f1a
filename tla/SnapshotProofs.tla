--------------------------- MODULE SnapshotProofs ---------------------------
(***************************************************************************)
(* A snapshot is exact, for any number of ports, keys and learners.         *)
(*                                                                         *)
(* The argument: while a snapshot is being taken mu is held by no writer,   *)
(* and a step that starts and ends with mu free changes neither the map nor *)
(* the port of an entry.  The one write it may do is the hot path's store,  *)
(* which changes the time an entry was seen and nothing a snapshot copies.  *)
(***************************************************************************)
EXTENDS Snapshots, FdbTypeProofs

\* The reader's side of the lock, and that a call starts with no rows.
ReaderOK ==
  /\ snap \in Snapshot
  /\ snap.pc = "copy" => mu = "free"
  /\ snap.pc = "idle" => snap.rows = [k \in macKey |-> Nil]

SnapInv == FdbInv /\ ReaderOK /\ SnapshotExact

\* The map, and the port of every entry, stay as they are.
Frozen ==
  /\ table' = table
  /\ \A k \in macKey : \A s \in Slots : heap'[k][s].portIdx = heap[k][s].portIdx

\* A step of an rx goroutine that leaves mu free all along leaves them alone.
LEMMA CallFrozen ==
  ASSUME FdbInv, mu = "free", NEW p \in Ports, CallStep(p), mu' = "free"
  PROVE  Frozen
<1>1. th[p].pc \notin Locking
  BY DEF FdbInv, LockOK
<1>2. CASE LearnRefresh(p)
  BY <1>2, LearnRefreshHeap DEF LearnRefresh, Frozen
<1>3. CASE LearnLock(p)
  BY <1>3 DEF LearnLock
<1>4. CASE LearnMove(p) \/ LearnTouch(p) \/ LearnInsert(p)
  BY <1>1, <1>4 DEF LearnMove, LearnTouch, LearnInsert, Locking
<1>5. CASE LearnRead(p) \/ LearnCheck(p) \/ LookRead(p) \/ LookAge(p) \/ LookSeen(p) \/ LookPort(p)
  BY <1>5 DEF LearnRead, LearnCheck, LookRead, LookAge, LookSeen, LookPort, Frozen
<1> QED
  BY <1>2, <1>3, <1>4, <1>5 DEF CallStep

\* Nor does the reaper write the map without the lock.
LEMMA ReapFrozen ==
  ASSUME FdbInv, mu = "free", GcTick \/ ReapStep, mu' = "free"
  PROVE  Frozen
<1>1. gc.pc # "scan"
  BY DEF FdbInv, LockOK
<1> QED
  BY <1>1 DEF ReapStep, GcTick, ReapLoad, ReapLock, ReapEntry, ReapUnlock, Frozen

\* What a step beside the snapshot has to do.
LEMMA BesideInv ==
  ASSUME SnapInv, FdbInv', UNCHANGED snap,
         snap.pc = "copy" => mu' = "free" /\ Frozen
  PROVE  SnapInv'
<1>1. ReaderOK'
  BY DEF SnapInv, ReaderOK
<1>2. SnapshotExact'
  BY DEF SnapInv, SnapshotExact, Frozen, FdbInv, FdbTypeOK
<1> QED
  BY <1>1, <1>2 DEF SnapInv

LEMMA SnapInvInit == ASSUME SnapInit PROVE SnapInv
<1>1. FdbInv
  BY FdbInvInit DEF SnapInit
<1>2. ReaderOK /\ snap.pc = "idle"
  BY DEF SnapInit, IdleSnap, Snapshot, ReaderOK
<1> QED
  BY <1>1, <1>2 DEF SnapInv, SnapshotExact

\* The read lock is taken.
LEMMA SnapRLockInv == ASSUME SnapInv, SnapRLock PROVE SnapInv'
<1> DEFINE all == {k \in macKey : table[k] # Nil}
<1>1. /\ snap' \in Snapshot /\ snap'.pc = "copy" /\ snap'.todo = all
      /\ snap'.rows = [k \in macKey |-> Nil]
  BY DEF SnapInv, ReaderOK, SnapRLock, Snapshot
<1>2. FdbInv' /\ UNCHANGED <<mu, table, heap>> /\ mu = "free"
  BY FdbStutterInv DEF SnapInv, SnapRLock, fdbVars
<1>3. ReaderOK'
  BY <1>1, <1>2 DEF ReaderOK
<1>4. SnapshotExact'
  BY <1>1, <1>2 DEF SnapshotExact
<1> QED
  BY <1>2, <1>3, <1>4 DEF SnapInv

\* An entry is copied.
LEMMA SnapCopyInv == ASSUME SnapInv, NEW k \in macKey, SnapCopy(k) PROVE SnapInv'
<1> DEFINE port == heap[k][table[k]].portIdx
<1>1. port \in Ports
  BY DEF SnapInv, FdbInv, FdbTypeOK, SnapCopy, entry
<1> HIDE DEF port
<1>2. /\ snap' \in Snapshot /\ snap'.pc = "copy" /\ snap'.todo = snap.todo \ {k}
      /\ snap'.rows = [snap.rows EXCEPT ![k] = port]
  BY <1>1 DEF SnapInv, ReaderOK, SnapCopy, Snapshot, port
<1>3. FdbInv' /\ UNCHANGED <<mu, table, heap>> /\ mu = "free" /\ snap \in Snapshot
  BY FdbStutterInv DEF SnapInv, ReaderOK, SnapCopy, fdbVars
<1>4. ReaderOK'
  BY <1>2, <1>3 DEF ReaderOK
<1>5. SnapshotExact'
  BY <1>2, <1>3 DEF SnapInv, SnapshotExact, SnapCopy, Snapshot, port
<1> QED
  BY <1>3, <1>4, <1>5 DEF SnapInv

\* The read lock is released, and the rows are returned.
LEMMA SnapRUnlockInv == ASSUME SnapInv, SnapRUnlock PROVE SnapInv'
<1>1. FdbInv'
  BY FdbStutterInv DEF SnapInv, SnapRUnlock
<1>2. ReaderOK' /\ snap'.pc = "idle"
  BY DEF SnapRUnlock, IdleSnap, Snapshot, ReaderOK
<1> QED
  BY <1>1, <1>2 DEF SnapInv, SnapshotExact

\* A step of the table beside it.
LEMMA TableStepInv ==
  ASSUME SnapInv, Next, ~SnapRLock, ~SnapStep
  PROVE  SnapInv'
<1> USE DEF SnapInv, ReaderOK
<1>1. CASE \E p \in Ports : \E k \in macKey : Beside(Learn(p, k, clock))
  <2>1. PICK p \in Ports, k \in macKey : Beside(Learn(p, k, clock))
    BY <1>1
  <2>2. FdbInv'
    BY <2>1, LearnCallInv DEF Beside, FdbInv, FdbTypeOK
  <2>3. snap.pc = "copy" => mu' = "free" /\ Frozen
    BY <2>1 DEF Beside, Learn, Frozen
  <2> QED
    BY <2>1, <2>2, <2>3, BesideInv DEF Beside
<1>2. CASE \E p \in Ports : Beside(CallStep(p))
  <2>1. PICK p \in Ports : Beside(CallStep(p))
    BY <1>2
  <2>2. FdbInv'
    BY <2>1, CallStepInv DEF Beside
  <2>3. snap.pc = "copy" => mu' = "free" /\ Frozen
    BY <2>1, CallFrozen DEF Beside
  <2> QED
    BY <2>1, <2>2, <2>3, BesideInv DEF Beside
<1>3. CASE \E p \in Ports : Beside(Return(p))
  <2>1. PICK p \in Ports : Beside(Return(p))
    BY <1>3
  <2>2. FdbInv'
    BY <2>1, ReturnInv DEF Beside
  <2>3. snap.pc = "copy" => mu' = "free" /\ Frozen
    BY <2>1 DEF Beside, Return, Frozen
  <2> QED
    BY <2>1, <2>2, <2>3, BesideInv DEF Beside
<1>4. CASE Beside(GcTick) \/ Beside(ReapStep)
  <2>1. FdbInv'
    BY <1>4, GcStepInv DEF Beside
  <2>2. snap.pc = "copy" => mu' = "free" /\ Frozen
    BY <1>4, ReapFrozen DEF Beside
  <2> QED
    BY <1>4, <2>1, <2>2, BesideInv DEF Beside
<1>5. CASE Beside(Tick) \/ \E d \in Ageings : Beside(SetAgeing(d))
  <2>1. FdbInv'
    BY <1>5, TickInv, SetAgeingInv DEF Beside
  <2>2. snap.pc = "copy" => mu' = "free" /\ Frozen
    BY <1>5 DEF Beside, Tick, SetAgeing, Frozen
  <2> QED
    BY <1>5, <2>1, <2>2, BesideInv DEF Beside
<1> QED
  BY <1>1, <1>2, <1>3, <1>4, <1>5 DEF Next

(***************************************************************************)
(* FDBSnapshot returns one moment of the table: with the read lock held the *)
(* rows copied are the table's rows and what is left to copy is still in    *)
(* the map, whatever the rx goroutines, the reaper and SetAgeing do.        *)
(***************************************************************************)
THEOREM SnapshotExactAlways == Spec => []SnapshotExact
<1>1. SnapInit => SnapInv
  BY SnapInvInit
<1>2. SnapInv /\ [Next]_snapVars => SnapInv'
  <2>1. CASE UNCHANGED snapVars
    BY <2>1, FdbStutterInv DEF snapVars, fdbVars, SnapInv, ReaderOK, SnapshotExact
  <2> QED
    BY <2>1, SnapRLockInv, SnapCopyInv, SnapRUnlockInv, TableStepInv DEF SnapStep
<1>3. SnapInv => SnapshotExact
  BY DEF SnapInv
<1> QED
  BY <1>1, <1>2, <1>3, PTL DEF Spec
=============================================================================
