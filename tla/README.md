# vibe-switch in TLA+

vibe-switch is a user-space Ethernet switch: one goroutine per port reads frames
from an AF_PACKET handle, learns source addresses into a shared table, and writes
each frame to one port or floods it within its VLAN.  A control socket answers
read-only queries.  This project models the forwarding engine with its learning
table, the life of the process with its command line and control socket, and the
harness the behavioural tests run in; it checks the models with TLC, and proves
with TLAPS, for every size of the system, all the invariants it checks and that the
engine implements an abstract learning switch.

## The system

| component | state | operations | interacts with |
|---|---|---|---|
| learning table, `goswitch/fdb.go` | `mu`, `table` (pointers to entries), `ageing` | `Learn`, `Lookup`, `reap` | every rx goroutine and the ageing goroutine, concurrently |
| VLANs, `goswitch/vlan.go` | none (constant configuration) | `roleOf`, `classify`, `buildTagged`, `buildUntagged` | called by `forward` and `emit` |
| engine, `goswitch/engine.go`, `rxLoop` in `afpacket.go` | ports, per-port `writeMu` and counters, `done`, `stopOnce`, `wg` | `NewEngine`, `Start`, `rxLoop`, `forward`, `emit`, `gcLoop`, `SetAgeing`, `Stop` | table, handles, callers of `Stop` |
| handles, `goswitch/afpacket.go` | kernel ring, promiscuous mode, BPF filter | `OpenInterface`, `PacketIO` | read by one goroutine, written by all |
| snapshots, `goswitch/stats.go` | none | `FDBSnapshot`, `PortsSnapshot`, `StatsSnapshot`, `ConfigSnapshot` | read table and counters while the engine runs |
| control server, `control/service.go` | listener, socket file, accept goroutine | `Serve`, `acceptLoop`, `Close`, the RPC methods | clients, the process |
| ctl client, `control/client.go` | a connection | `Show`, `Shell`, `query`, `showRate` | control server |
| process, `cmd/vibe-switch/main.go` | handles, engine, server | `runSwitch`, `runCtl`, flag parsing | all of the above; signals |
| topology, `harness/topology.go` | namespaces, veth pairs | `Setup`, `Teardown` | `ip(8)`, the switch under test, `t.Cleanup` |
| switches under test, `harness/switch.go` | an engine, or a kernel bridge | `Start`, `Stop`, `SetAgeing` | topology |
| probes and captures, `harness/probe.go` | handles, capture goroutines, frames | `Inject`, `Capture`, `Received`, `Close` | the switch as a black box |
| measurement, `harness/perf.go` | sender, counter goroutine | `Throughput`, `Latency` | the same |

What is hard here: the table is read under a lock but its entries are used after
the lock was released; ageing deletes entries that other goroutines still hold;
floods of different goroutines meet on the same egress port; writes fail in the
middle of a flood; `Stop` must not close a handle that is in use, may be called
twice, and must terminate; a killed process leaves its socket file; a client's
call has no timeout; a snapshot holds the read lock while the others wait; the clock
may be set back; a test may die at any command with handles and goroutines behind
it.  `PROJECT.json` lists these hazards line by line, each with
the properties that watch over it.

What makes each component correct:

- table: a station that moved is never again found on its old port; an answer is
  never staler than the call and was current during it; an entry never looks fresher than its station; what
  has expired is deleted; the lock is used as a lock and no nil entry is used;
- engine: no frame leaves its VLAN or returns to its port, whatever the goroutines
  do to the table meanwhile; it sends what a learning switch sends; every copy is
  counted; no frame gets stuck; `Stop` is safe, idempotent, final and terminates;
- process and control: nothing is left behind by a failed start or a shutdown; a
  crash never blocks the next start; a switch that runs has the ports, roles and VLANs
  it was asked for; a switch that is up can be queried; starts, shutdowns and queries
  end;
- snapshots: a snapshot is one moment of the table;
- harness: no handle is closed under its reader; a capture sees what the switch
  delivered and nothing else; a measured window counts its own frames (it does not always,
  see `harness_warmup`); a test ends and leaves nothing behind.

## The modules

| module | models | state and actions |
|---|---|---|
| `PortConfigs` | `NewEngine`'s checks, `roleOf`, and the flags: `portCollector.Set`, `splitNameVID(s)`, `parseVID` | pure operators. An argument is its flag, name and VIDs |
| `SwitchConfig` | the configuration an engine was built from | constants only; `NewEngineAccepts` is an assumption, so every module speaks of a switch that could be built. Port names are left out: a port is its index |
| `Vlan` | `vlan.go`, membership and egress tagging | pure operators. A frame's tags are the sequence of its VLAN ids; the decoder reuses one struct, so the last tag counts |
| `Fdb` | `fdb.go`, `gcLoop`'s call of `reap` | `table` points to cells of `heap`; `th[p]` is the call goroutine `p` is in, with the pointer it holds; one step per shared access or critical section |
| `FdbHistory` | `Fdb` with history | which ports a station had left before a call, when it was last heard, and what the table said of it during a `Lookup` (`Watch`); the actions are those of `Fdb` |
| `Snapshots` | `FDBSnapshot` beside `Learn` and `reap` | `snap` is the snapshot being taken, row by row under the read lock; the actions of `Fdb` may not take the write lock meanwhile |
| `LearningSwitch` | what a learning switch promises | abstract: accept, resolve, send or lose each copy, finish; no goroutine, lock or table |
| `Engine` | `rxLoop`, `forward`, `emit`, `gcLoop`, `Stop` | `rx[p]` is goroutine `p` with its frame, the ports it still has to write to and the `writeMu` it holds; it calls `Fdb`'s actions for `Learn` and `Lookup`. `owed[q]` is history: the copies `forward` has decided to send to port `q` |
| `Process` | `runSwitch`, `Serve`, `acceptLoop`, `Close` | `inst[i]` is a process from its command line to its end, `path` the owner of the socket file; a process in `Restricted` may not unlink another's |
| `Ctl` | `Show`, `Shell`, `query`, `ServeConn` | `ctl[c]` is a client and its connection; composed with `Process` |
| `Topology` | `topology.go`, `switch.go` | `test` is the test's goroutine, `net` what it has built in the kernel, `open` the handles per namespace, `sw` the switch under test; every command may fail, `ip netns del` for the namespaces in `Stuck` |
| `Probe` | `probe.go`, `perf.go` | `job` is a capture or measurement, `rd[h]` the reader goroutine of a host with its ring, `wire` the frames in flight; composed with `Topology` |
| `MCFdb`, `MCSnapshots`, `MCEngine`, `MCCtl`, `MCHarness` | instances for TLC | small configurations, command lines and frame sets |
| `FdbTypeProofs`, `FdbProofs`, `SnapshotProofs` | proofs about the table and its snapshots | see below |
| `EngineProofs`, `EngineStopProofs`, `RefinementProofs` | proofs about the engine | see below |
| `ProcessProofs`, `HarnessProofs` | proofs about the process with its clients, and about the harness | see below |

Operators whose names end in what they break (`LearnReadNoOk`, `StopWaitNot`, ...)
are mutants: the definition after them with one plausible bug.  They belong to no
specification; each property is shown to fail when its mutant takes the
definition's place.

Abstractions.  A read lock is one step, since nothing but a map read happens under
it; a write-locked section is split where another goroutine can see the
difference (`LearnMove`, `LearnTouch`; the visits of `reap`).  `reap`'s load of
`seenAt` and its delete are one step: a refresh that falls between them writes to a
cell that is dropped, as one that comes just after them does.  A write is one step
with its counter.  Counters are
frame counters; the byte counters move with them.  `Frames` are records of an
Ethernet flag (FALSE for a runt), addresses and tags.  The clock is the wall clock: a
step of `Tick` moves it to any other reading in `Time`, forwards or back.  A snapshot's
ages are not copied: each is one atomic load.
`Engine.Stop` is one step in `Process`; that it terminates and leaves nothing open
is what `Engine` shows (`StopTerminates`, `StopReturnsClean`).  `SetAgeing` and
`Start` cannot fail in the code, so `Process` has no step for their errors.

In the harness, a namespace lives until its name and its sockets are gone, and a veth
pair goes with either end; the commands that configure an interface are one step.  A
frame in a ring is another host's, the host's own outgoing copy, or a stray.  A frame
sent is in flight until it is delivered or lost: the code's sleeps (250 ms, 150 ms,
`settle`) bound nothing in the model, so its properties hold without them.  The warm-up of
a throughput run is `MaxSends` frames long, and `cStart` is read after it.  The three
reader loops (`capture.loop`, `counter.loop`, the closure in `Latency`) have the same steps
and are one definition; `c.n` is the number of frames read.  The two phases of a
measurement write with the same step; a failed write sends nothing.

## The runs

Passing:

| run | instance | shows |
|---|---|---|
| `fdb_safety` | 2 goroutines, 1 station, clock readings 0 and 2, ageing 0 or 1 | `TypeOK`, `MoveWins`, `NoStaleHit`, `NoSilentHit`, `HitWasCurrent` |
| `fdb_live` | the same with ageing 1, learning and snapshots, under fairness | `SnapshotExact`, `ExpiredReaped` |
| `engine_vlan` | access 1, access 2, trunk {1, 2}; 2 stations, 3 frames | `TypeOK`, `FdbScoped`, `VlanIsolation`, `CopiesAccounted` (on every port each copy decided on is pending or counted once), `ImplementsLearningSwitch` |
| `engine_plain` | 3 plain ports, 2 frames, failing writes, ageing -1, under fairness | `CopiesAccounted` and `ImplementsLearningSwitch` while entries vanish; `ForwardReturns`: crossing floods wait for the same `writeMu`, `reap` for the table's lock, and no frame is stuck |
| `engine_stop` | 2 plain ports, 2 frames, a failing read, 2 callers of `Stop`, under fairness | `NoUseAfterClose`, `StopReturnsClean`, `StopIsFinal`, `StopTerminates` |
| `ctl_lifecycle` | 2 processes, 10 command lines, one process that may not unlink the other's file, a failing `Accept`, kills, a `show` and a shell, under fairness | `TypeOK`, `ExitClean`, `AsAsked`, `NeverInUse`, `Reachable`, `Settles`, `QueriesEnd` |
| `harness` | 2 hosts, both switches, 2 jobs, a stray frame, every failure (of `ip netns del`: the switch's namespace and one host's), under fairness | `TypeOK`, `TornDown`, `NoReadAfterClose`, `NoEcho`, `TestEnds` |

Violated, each a disagreement between the code and what is written about it
(`findings` in `PROJECT.json` quotes the lines):

| run | property | what happens |
|---|---|---|
| `fdb_race` | `NoDataRace` | `portIdx` is read without the lock while a move writes it |
| `fdb_recorded` | `LearnRecorded` | with a clock that never goes back, a refresh lands in an entry that is being reaped, and the station is unknown until its next frame |
| `engine_transparent` | `PlainTransparent` | a tagged frame crosses a plain switch and loses its tag |
| `ctl_overlap` | `OnlyStaleRemoved` | a second process unlinks the socket of a running one |
| `harness_warmup` | `WarmupExcluded` | a warm-up frame is still on its way after the sleep and is counted in the measured window: RX exceeds TX |

The race is benign in the sense of `MoveWins`, `NoStaleHit` and `HitWasCurrent`: an `int` is read and
written whole on the platforms Go supports, so the outcomes are the old and the
new port, and that is what the model's single step gives.

Seen while modelling, not turned into runs:

- with a negative ageing duration, which the command line accepts, `Lookup` never expires
  (`age > 0`, fdb.go:63) while `reap` deletes (`age == 0`, fdb.go:72); `engine_plain` runs
  with it, and the switch floods more but stays correct;
- a delayed `Learn` may store an older `seenAt` over a newer one;
- `FDBSnapshot` reads the clock before it waits for the lock (stats.go:60), so an entry
  learned meanwhile has a negative age;
- a unicast frame whose destination is behind its ingress port is counted in `rx_frames`
  and nowhere else (engine.go:237), so `rx = tx + tx_drop` of a two-port switch
  (engine.go:273-274) does not hold although nothing was lost;
- a frame with two tags is classified by the inner one and sent from trunk to trunk
  verbatim;
- a read error ends a port's goroutine while `PortsSnapshot` goes on reporting the port
  as up;
- a word among the flags ends their parsing, and the ports after it are silently not
  part of the switch (main.go:116): `AsAsked` speaks of the flags before it;
- after an error of `Accept` the listener stays open with nobody accepting, so a
  client's query hangs (`QueriesEnd` therefore excepts servers in `FlakyAccept`);
- `showRate` starts its clock after the first answer (client.go:164), so the window is
  a little shorter than the time between the two samples;
- one test closes its captures in line (l2_test.go:115) and not by `defer`: a `Fatalf`
  before it leaves handles and goroutines to the end of the test process (`TornDown`
  says what still holds then);
- a command of `Setup` that fails ends the test with `Fatalf` before `newTopology` registers
  `Teardown` (src/test/main_test.go:37-38), so the namespaces made so far stay, although topology.go:117-118
  says that it "always runs"; what `TornDown` says of the kernel is about tests whose `Setup`
  went through.  Registering it earlier is no repair: prefixes repeat (`os.Getpid()%1000`,
  topology.go:60), and a `netns add` that fails because another run has the name would be
  followed by the deletion of that run's namespaces;
- the frame `harness_warmup` counts in the window is counted there because `cStart` is read from a
  running counter (perf.go:148), without synchronisation, although perf.go:100 says that `c.n` is
  read after the goroutine has ended.

### Bounds

Two goroutines are enough to race for an entry; the ageing goroutine is a third
party.  With ageing 1 an entry expires when the clock goes from 0 to 2, and is fresh
again when it is set back.  One station suffices for the table: keys meet only in the
lock, and the goroutines of one key contend for that already.  `MCFdb` has a `VIEW` that
hides the contents of cells nothing points to, which no step reads.  `engine_vlan` has every role, a station that
talks in two VLANs, a frame with a tag its trunk does not carry, and three
frames: one to learn a station, one to move it or learn another, one to be
forwarded by what was learned.  `engine_plain` has three ports, since with two a
flood has one copy and each `writeMu` only one goroutine that asks for it.  Its ports are all alike,
and so are its stations, so the first frame is taken to arrive at port 0, from `a` to `b`, and a second
one there or at port 1 (`UpToNames`).  The engine's runs keep the clock still: an expired entry is a miss,
and so is one that `reap` has deleted, which in `engine_plain` happens at any time.
`engine_stop` needs crossing writes (two ports, a frame from each side), an rx goroutine that has already ended, and two callers.
`ctl_lifecycle` needs a predecessor and a successor, a client of each kind, and command
lines that every check rejects: no port, a bad flag, VIDs 0 and 4095, a trunk without
VIDs, mixed roles, a name twice, no name, and a word.  The process in `Restricted` shows what a
failed unlink leads to: the file stays, `Listen` fails and the process returns with everything
closed.  `harness` needs two hosts (a sender
and a receiver; both for the order in which captures are armed and closed), two jobs
(what the first left behind, and a delayed frame that reaches the second) and one frame in
each phase.  `harness_warmup` runs a test that measures throughput only, so that
every frame in flight is one of its own.  `MaxFrames`, `MaxCalls`, `MaxJobs`, `MaxSends` and `MaxStrays` bound the frames that
arrive, the calls of a client, the jobs of a test, its frames and the strays; they are
guards of `Receive`, `ReceiveDrop`, `Dial`, `Capture`, `newSender`, `Inject`, `SendOne`, `BlastOne` and
`Stray`.

Deadlock is checked in the runs of the table and of the engine (ageing goes on, or
idle goroutines poll).  In `MCCtl` and `MCHarness` it is not: when every process has ended
and every client is done, or the test is over, the system has stopped.

### Fairness

Goroutines are scheduled, and one that waits for a mutex gets it in the end: Go's mutexes
have a starvation mode, and its RWMutex lets a waiting writer in before new readers.  A
goroutine of the engine waits in different places of one frame (the table's lock, then each
`writeMu`), so its fairness is strong: `SF(RxStep(p))` and `SF(GcStep)`.  A poll returns
within its timeout (1 ms, `RxOpts`), and `gcLoop`'s `select` picks at random among ready
cases, so it sees `done` in the end (`SF(GcExit)`).  The steps of a caller inside `Stop` are weakly
fair: `wg.Wait` and the end of `stopOnce`, once ready, stay so.  In `Ctl`, processes, the serving goroutines and the clients'
library code run on.  In `Snapshots`, strong fairness is about a goroutine's only step
that can be interrupted, its wait for `mu`.  A snapshot that has the read lock
lets go of it; that one is ever taken is not assumed.  In `Probe`, the test's goroutine
and the readers run on, and a poll returns within its timeout (2 to 20 ms).  Nothing is assumed
of frames, time, launches, signals, kills, failures, users, callers of `Stop` or of the
network between the hosts.

## What is proved

For every value of the constants: every number of ports, every set of VLANs and
addresses, every accepted configuration, every set of frames and of clock readings, in any
order, every set of command lines, every number of processes, clients, hosts, jobs and
callers.  The assumptions on the constants are the named ones of the modules
(`ConfigAssumption`, `FdbAssumption`, `EngineAssumption`, `ProcessAssumption`,
`CtlAssumption`, `TopologyAssumption`, `ProbeAssumption`): they give types, and say that
`NewEngine` accepted the configuration.  Each argument is an inductive invariant, one lemma
per action (or per group of actions with the same effect), and a temporal step at the end.

The table (`FdbProofs`, `SnapshotProofs`):

- `TypeCorrect`: `FdbInv` (types, `PointerOK`, `LockOK`) is inductive: who holds a pointer, who
  holds the lock, and that the entry a move is about to refresh is still in the map.
  `FdbTypeProofs` has one effect lemma per action, which says which cell, pointer and
  program counter it changes; the proofs about the engine and the snapshots use them too.
- `MoveWinsAlways` and `NoStaleHitAlways`: `MoveWins` and `NoStaleHit` are not inductive,
  because an entry that is out of the map can still be held by a goroutine.
  `MoveInv` adds what is true of the pointers: the port of the entry a learner is
  about to compare or refresh, and of the entry a lookup is about to answer from,
  and which ports a learner that has not returned yet will retire.
- `NoSilentHitAlways`: `SilentInv` says of every cell, in the map or not, that its `seenAt` is
  at most the latest time its address was heard, and the same of the time a learner is about to
  store; so it does not matter which cell a refresh lands in.
- `HitWasCurrentAlways`: `WatchInv` says that the port in the entry a `Lookup` holds is one the
  table has shown since the call began.  While the entry is in the map a move shows it at
  once; when it is out of the map nobody can reach it to move it (`CallMovesMapped`: a step
  changes the port of no cell but the one the map then points to).  With it a `Lookup` that hits
  can be taken for one step, at a moment of its call.
- `SnapshotExactAlways`: a step with `mu` free before and after leaves the map and the ports of
  all entries alone (`CallFrozen`, `ReapFrozen`), and while rows are copied the writers wait.

The engine (`EngineProofs`, `EngineStopProofs`, `RefinementProofs`):

- `FdbScopedAlways` and `VlanIsolationAlways`.  `forward` writes to the port
  `Lookup` returned without asking for its VLAN, so isolation rests on what other
  goroutines learned.  `EngineInv` says that every entry is a port of its key's VLAN
  while it is in the map (`FdbScoped`), while a goroutine still holds it and after it has
  become an answer (`HeldOK`), and that the call under way is the one for the frame at
  hand and every copy still to be written is for another port of its VLAN (`RxOK`).
  `ClassifyMember` and `FloodMember` show that `classify` and the index of `NewEngine`
  agree with the contract of a `PortConfig`.
- `EngineTypeCorrect`, `NoUseAfterCloseAlways`, `StopReturnsCleanAlways`.  `StopInv` adds to
  `EngineInv` that one caller at a time is inside `stopOnce` and that whoever returned came after it
  (`OnceOK`), and that handles are closed in port order, after every goroutine has ended,
  and only then (`CloseOK`); that no ended goroutine starts again is `EndedIsFinal`.
- `StopIsFinalAlways`, an action property, from the same invariant: when a caller has returned
  the body of `stopOnce` has run, so no goroutine is left to take a step and no caller to close a
  handle.
- `CopiesAccountedAlways`: on every port, each copy `forward` decided to send there (`owed`) is
  pending or counted once, in every configuration.  What is owed is stated by the contract of a
  VLAN (`Member`), what is pending by the index `NewEngine` built (`vidMembers`); `FloodIsVlan` shows that
  the two agree.  `CopyInv` adds to `StopInv` that only `emit` has ports left to write
  to (`TodoOK`) and the account itself (`Balanced`).  `PendingMore` and `PendingLess` say what
  a decision and a write do to the goroutines that still have a copy for a port; `CopyDecided`
  (a flood or a hit) and `CopyWrite` (sent or lost) move copies from one side of the account to
  the other, and no other step touches it (`QuietMove`).
- `EngineImplementsLearningSwitch`: every step of `Engine` is a step of `LearningSwitch` under
  the mapping of `ImplementsLearningSwitch`, or leaves its state alone.  What is not
  immediate is a hit: the port must have heard the destination, though the entry may have
  been moved or deleted since it was found.  `RefInv` adds that to `StopInv` for the entries in
  the map, the ones still held and the answers (`HeardOK`), and what a goroutine keeps of the
  frame at hand (`FlightOK`).  The theorem has a hypothesis, `SimpleFrames`: at most one tag,
  and none where a port is plain.  It is needed: `engine_transparent` shows what happens to a
  tagged frame on plain ports, and a frame with two tags is classified by the inner one.

The process, its command line and its clients (`ProcessProofs`):

- `ProcessTypeCorrect`, `ExitCleanAlways`, `AsAskedAlways`, `NeverInUseAlways`, `ReachableAlways`.
  `CtlInv` has, for each process, what it read off its command line (`AskedOK`), how many handles
  it has opened and closed (`HandlesOK`), the state of its engine (`RunsOK`) and of its listener
  (`ListenerOK`) at each place of `runSwitch`; that the file belongs to a process which bound it
  (`PathOK`); and, without overlap, that the one live process has the path to itself
  (`AloneOK`).  `AsAsked` also needs lemmas about the command line: where parsing stops (`Least`),
  the ports and the flags are equally many (`CfgsLength`), and `Set` gives a port the role
  of its flag and exactly the VLANs the flag lists (`SetFaithful`).  `NeverInUse` excepts
  the processes that may not unlink the file; the others, and `Reachable`, hold beside them.

The harness (`HarnessProofs`):

- `HarnessTypeCorrect`, `TornDownAlways`, `NoReadAfterCloseAlways`, `NoEchoAlways`, all from
  `HarnessInv` and `NamesOK`.  Of the topology they say which handles the switch has
  (`SwitchOK`), which namespaces have a name at each place of `Setup` and `Teardown` (`NamesOK`), and
  that at most the veth pair being set up is half-way, so that deleting the namespaces takes
  everything along but what a failed `ip netns del` keeps (`NetOK`).  Of the test they relate the
  place of its goroutine to its job (`PhaseOK`, `JobOK`), account for every open handle of a host by a
  reader or the sender (`ReadersOK`), and say that a reader with a frame in hand has one and that no
  ring holds an outgoing copy (`FramesOK`).  `NoEcho` rests on an order: nothing is sent while a
  handle is open without its filter (`WriteFacts`).

Only model-checked, and why: liveness (`ExpiredReaped`, `StopTerminates`, `ForwardReturns`,
`Settles`, `QueriesEnd`, `TestEnds`), because the prover does not reach fairness and `ENABLED`.

The violated properties have no theorem.

## Not modelled

The tables the client prints and its rate arithmetic, latencies and percentiles
(formatting and floating point); the counters' and the configuration's snapshots (one
atomic load or constant each, no state of their own); the bytes of frames and their
parsing; ring options, the engine's BPF program and ethtool offloads, and the bridge's
ageing time, which configure the kernel.  `PROJECT.json` gives the reason for each.

## Plan

1. Done: `Fdb`, `FdbHistory`, `Snapshots`, `Vlan`, `Engine`, `LearningSwitch`, `PortConfigs`,
   `Process`, `Ctl`, `Topology`, `Probe`; every invariant and action property of the passing runs
   proved, and the refinement.
2. Open: when the code changes, the hazard without a property (the table has no size limit).
