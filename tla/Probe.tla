------------------------------- MODULE Probe --------------------------------
(***************************************************************************)
(* probe.go and perf.go: the body of a test.  A job arms readers on some    *)
(* hosts, each a goroutine that drains the ring of an AF_PACKET handle      *)
(* (capture.loop, counter.loop, Latency's receiver), sends frames, and then *)
(* stops the readers one by one: close(done), <-finished, tp.Close.         *)
(*                                                                         *)
(* Frames sent are in flight until the network delivers them into a ring or *)
(* loses them; the sleeps of the code ("drain", "settle") promise nothing,  *)
(* so no bound on the delay is assumed.                                     *)
(***************************************************************************)
EXTENDS Topology, SequencesExt

CONSTANTS MaxJobs,     \* bound on the jobs of a test
          MaxSends,    \* bound on the frames sent by a job and before it
          MaxStrays    \* bound on the frames that are not the harness's

ASSUME ProbeAssumption == {MaxJobs, MaxSends, MaxStrays} \subseteq Nat

VARIABLES
  job,     \* what the test is doing
  rd,      \* the reader of each host
  wire,    \* harness frames in flight to each host
  strays   \* strays seen so far

probeVars == <<job, rd, wire, strays>>
vars == <<topVars, probeVars>>

BodyPCs == {"body", "arm", "armed", "blast", "close", "join"}
JobKinds == {"none", "capture", "throughput", "latency"}

\* todo: hosts still to arm; armed: hosts to close.
Job == [n : 0 .. MaxJobs, kind : JobKinds, src : Hosts \cup {0}, todo : SUBSET Hosts,
        armed : SUBSET Hosts, sent : 0 .. MaxSends, cStart : Nat,
        tx : 0 .. MaxSends, rx : Int]
IdleJob(n) == [n |-> n, kind |-> "none", src |-> 0, todo |-> {}, armed |-> {},
               sent |-> 0, cStart |-> 0, tx |-> 0, rx |-> 0]

\* A frame in a ring: another host's, an outgoing copy of the host's own, or
\* one the harness did not make.
Frame  == {"test", "own", "stray"}
Reader == [pc : {"none", "opened", "select", "read", "got", "exited"},
           done : BOOLEAN, handle : {"none", "open", "closed"},
           ring : Seq(Frame), frames : Seq(Frame)]
NoReader == [pc |-> "none", done |-> FALSE, handle |-> "none", ring |-> <<>>,
             frames |-> <<>>]

Init ==
  /\ NewTopology
  /\ job = IdleJob(0)
  /\ rd = [h \in Hosts |-> NoReader]
  /\ wire = [h \in Hosts |-> 0]
  /\ strays = 0

\* t.Fatalf in the body: deferred calls run, then Teardown.
Fatal(why) == test' = [test EXCEPT !.pc = "stop", !.failed = why]
-----------------------------------------------------------------------------
(* Capture, newSender, newCounter: arming *)

Capture(hs) ==
  /\ test.pc = "body" /\ job.n < MaxJobs
  /\ job' = [job EXCEPT !.n = @ + 1, !.kind = "capture", !.todo = hs]
  /\ test' = [test EXCEPT !.pc = "arm"]
  /\ UNCHANGED <<net, open, sw, rd, wire, strays>>

\* Throughput and Latency open the sender's handle first.
newSender(kind, src, dst) ==
  /\ test.pc = "body" /\ job.n < MaxJobs
  /\ \/ /\ open' = openInNetns(src)
        /\ job' = [job EXCEPT !.n = @ + 1, !.kind = kind, !.src = src, !.todo = {dst}]
        /\ test' = [test EXCEPT !.pc = "arm"]
     \/ /\ Fatal("leak")
        /\ UNCHANGED <<open, job>>
  /\ UNCHANGED <<net, sw, rd, wire, strays>>

ArmOpen(h) ==
  /\ test.pc = "arm" /\ h \in job.todo
  /\ \A g \in job.todo : h <= g /\ rd[g].pc # "opened"
  /\ \/ /\ open' = openInNetns(h)
        /\ rd' = [rd EXCEPT ![h] = [NoReader EXCEPT !.pc = "opened", !.handle = "open"]]
        /\ UNCHANGED test
     \/ /\ Fatal("leak")
        /\ UNCHANGED <<open, rd>>
  /\ UNCHANGED <<net, sw, job, wire, strays>>

\* SetBPF and the goroutine; when SetBPF fails the handle stays open.
ArmFilter(h) ==
  /\ test.pc = "arm" /\ h \in job.todo
  /\ rd[h].pc = "opened"
  /\ \/ /\ rd' = [rd EXCEPT ![h].pc = "select"]
        /\ job' = [job EXCEPT !.todo = @ \ {h}, !.armed = @ \cup {h}]
        /\ test' = [test EXCEPT !.pc = IF job.todo = {h} THEN "armed" ELSE "arm"]
     \/ /\ Fatal("leak")
        /\ UNCHANGED <<job, rd>>
  /\ UNCHANGED <<net, open, sw, wire, strays>>
-----------------------------------------------------------------------------
(* The kernel: what reaches a ring *)

\* Mutant: the capture takes outgoing copies as well.
inboundFilterAll(f) == f \in Frame

inboundFilter(f) == f # "own"

\* Inbound harness frames only.
perfBPF(f) == f = "test"

\* A handle without a filter yet takes everything.
Passes(h, f) ==
  /\ rd[h].handle = "open"
  /\ rd[h].pc # "opened" => IF job.kind = "capture" THEN inboundFilter(f) ELSE perfBPF(f)

RingAfter(h, f) ==
  IF Passes(h, f) THEN [rd EXCEPT ![h].ring = Append(@, f)] ELSE rd

\* A write on host src: to the switch, and past the taps of its own interface.
Write(src) ==
  /\ \E to \in SUBSET (Hosts \ {src}) :
       wire' = [h \in Hosts |-> wire[h] + (IF h \in to THEN 1 ELSE 0)]
  /\ rd' = RingAfter(src, "own")

Deliver(h) ==
  /\ wire[h] > 0
  /\ wire' = [wire EXCEPT ![h] = @ - 1]
  /\ rd' = RingAfter(h, "test")
  /\ UNCHANGED <<topVars, job, strays>>

Lose(h) ==
  /\ wire[h] > 0
  /\ wire' = [wire EXCEPT ![h] = @ - 1]
  /\ UNCHANGED <<topVars, job, rd, strays>>

Stray(h) ==
  /\ strays < MaxStrays
  /\ rd[h].handle = "open"
  /\ strays' = strays + 1
  /\ rd' = RingAfter(h, "stray")
  /\ UNCHANGED <<topVars, job, wire>>
-----------------------------------------------------------------------------
(* The readers' loops *)

\* Mutant: the loop never looks at done.
LoopSelectNever(h) ==
  /\ rd[h].pc = "select"
  /\ rd' = [rd EXCEPT ![h].pc = "read"]
  /\ UNCHANGED <<topVars, job, wire, strays>>

LoopSelect(h) ==
  /\ rd[h].pc = "select"
  /\ rd' = [rd EXCEPT ![h].pc = IF rd[h].done THEN "exited" ELSE "read"]
  /\ UNCHANGED <<topVars, job, wire, strays>>

LoopTimeout(h) ==
  /\ rd[h].pc = "read" /\ rd[h].ring = <<>>
  /\ rd' = [rd EXCEPT ![h].pc = "select"]
  /\ UNCHANGED <<topVars, job, wire, strays>>

\* The frame is in hand and not yet stored or counted.
LoopRead(h) ==
  /\ rd[h].pc = "read" /\ rd[h].ring # <<>>
  /\ rd' = [rd EXCEPT ![h].pc = "got"]
  /\ UNCHANGED <<topVars, job, wire, strays>>

LoopStore(h) ==
  /\ rd[h].pc = "got"
  /\ rd' = [rd EXCEPT ![h].pc = "select", ![h].ring = Tail(@),
                      ![h].frames = Append(@, Head(rd[h].ring))]
  /\ UNCHANGED <<topVars, job, wire, strays>>

LoopError(h) ==
  /\ rd[h].pc = "read"
  /\ rd' = [rd EXCEPT ![h].pc = "exited"]
  /\ UNCHANGED <<topVars, job, wire, strays>>

\* What a capture reports: the frames the harness made, its own ones included;
\* as a set, for it matters which frames there are and not how many.
isTest(f) == f # "stray"
Received(h) == {f \in ToSet(rd[h].frames) : isTest(f)}

LoopStep(h) == LoopSelect(h) \/ LoopTimeout(h) \/ LoopRead(h) \/ LoopStore(h)
-----------------------------------------------------------------------------
(* What the test sends *)

\* Inject opens a handle, writes one frame and closes it; with captures armed
\* or without.
Inject(src) ==
  /\ test.pc \in {"body", "armed"} /\ job.kind \in {"none", "capture"}
  /\ job.sent < MaxSends
  /\ Write(src)
  /\ job' = [job EXCEPT !.sent = @ + 1]
  /\ UNCHANGED <<topVars, strays>>

\* Inject's Fatalf, or the test's own.  Most tests defer caps.Close; one calls
\* it in line, and then it does not run.
InjectFail ==
  /\ test.pc \in {"body", "armed"} /\ job.kind \in {"none", "capture"}
  /\ \/ test' = [test EXCEPT !.pc = "close", !.failed = "body"]
     \/ job.kind = "capture" /\ Fatal("leak")
  /\ UNCHANGED <<net, open, sw, probeVars>>

\* Throughput's warm-up and Latency's loop; a write that fails is not noticed.
SendOne ==
  /\ test.pc = "armed" /\ job.kind # "capture" /\ job.sent < MaxSends
  /\ Write(job.src) \/ UNCHANGED <<wire, rd>>
  /\ job' = [job EXCEPT !.sent = @ + 1]
  /\ UNCHANGED <<topVars, strays>>

Dst == CHOOSE h \in job.armed : TRUE

\* The warm-up is over: cStart := c.n, while the counter is running.
Snapshot ==
  /\ test.pc = "armed" /\ job.kind = "throughput" /\ job.sent = MaxSends
  /\ job' = [job EXCEPT !.cStart = Len(rd[Dst].frames)]
  /\ test' = [test EXCEPT !.pc = "blast"]
  /\ UNCHANGED <<net, open, sw, rd, wire, strays>>

BlastOne ==
  /\ test.pc = "blast" /\ job.tx < MaxSends
  /\ Write(job.src)
  /\ job' = [job EXCEPT !.tx = @ + 1]
  /\ UNCHANGED <<topVars, strays>>

\* The loop's time is up, or the test has what it wants.
Finish ==
  /\ \/ test.pc = "blast"
     \/ test.pc = "armed" /\ job.kind # "throughput"
  /\ test' = [test EXCEPT !.pc = "close"]
  /\ UNCHANGED <<net, open, sw, probeVars>>
-----------------------------------------------------------------------------
(* Captures.Close, counter.stop, the end of Latency *)

CloseDone(h) ==
  /\ test.pc = "close" /\ h \in job.armed
  /\ rd' = [rd EXCEPT ![h].done = TRUE]
  /\ test' = [test EXCEPT !.pc = "join", !.host = h]
  /\ UNCHANGED <<net, open, sw, job, wire, strays>>

\* The result is taken; nobody looks at the frames again.
Closing(h) ==
  /\ rd' = [rd EXCEPT ![h].handle = "closed", ![h].ring = <<>>, ![h].frames = <<>>]
  /\ open' = [open EXCEPT ![h] = @ - 1]
  /\ job' = [job EXCEPT !.armed = @ \ {h}, !.rx = Len(rd[h].frames) - job.cStart]
  /\ test' = [test EXCEPT !.pc = "close"]
  /\ UNCHANGED <<net, sw, wire, strays>>

\* Mutant: the handle is closed without waiting for the goroutine.
CloseJoinNot(h) ==
  /\ test.pc = "join" /\ test.host = h
  /\ Closing(h)

\* <-finished, the result, and tp.Close.
CloseJoin(h) ==
  /\ test.pc = "join" /\ test.host = h
  /\ rd[h].pc = "exited"
  /\ Closing(h)

\* Mutant: the sender is closed twice.
JobDoneTwice ==
  /\ test.pc = "close" /\ job.armed = {}
  /\ open' = IF job.src = 0 THEN open ELSE [open EXCEPT ![job.src] = @ - 2]
  /\ job' = IdleJob(job.n)
  /\ test' = [test EXCEPT !.pc = IF test.failed = "no" THEN "body" ELSE "stop"]
  /\ UNCHANGED <<net, sw, rd, wire, strays>>

\* s.close; then on with the test, or with the unwinding.
JobDone ==
  /\ test.pc = "close" /\ job.armed = {}
  /\ open' = IF job.src = 0 THEN open ELSE [open EXCEPT ![job.src] = @ - 1]
  /\ job' = IdleJob(job.n)
  /\ test' = [test EXCEPT !.pc = IF test.failed = "no" THEN "body" ELSE "stop"]
  /\ UNCHANGED <<net, sw, rd, wire, strays>>

\* The test function returns.
Return ==
  /\ test.pc = "body"
  /\ test' = [test EXCEPT !.pc = "stop"]
  /\ UNCHANGED <<net, open, sw, probeVars>>
-----------------------------------------------------------------------------
JobStep ==
  \/ \E hs \in (SUBSET Hosts) \ {{}} : Capture(hs)
  \/ \E k \in {"throughput", "latency"}, src, dst \in Hosts :
       src # dst /\ newSender(k, src, dst)
  \/ \E h \in Hosts : \/ ArmOpen(h) \/ ArmFilter(h) \/ Inject(h)
                      \/ CloseDone(h) \/ CloseJoin(h)
  \/ InjectFail \/ SendOne \/ Snapshot \/ BlastOne \/ Finish \/ JobDone \/ Return

TestStep == \/ JobStep
            \/ (SetupStep \/ TeardownStep) /\ UNCHANGED probeVars

Next ==
  \/ TestStep
  \/ \E h \in Hosts : LoopStep(h) \/ LoopError(h) \/ Deliver(h) \/ Lose(h) \/ Stray(h)

Spec == Init /\ [][Next]_vars

\* The test's goroutine and the readers keep running; a poll times out.
Fairness == WF_vars(TestStep) /\ \A h \in Hosts : WF_vars(LoopStep(h))

FairSpec == Spec /\ Fairness
-----------------------------------------------------------------------------
\* Types.
TypeOK ==
  /\ test \in [pc : SetupPCs \cup BodyPCs \cup TeardownPCs, host : Hosts,
               failed : {"no", "setup", "body", "leak"}]
  /\ net \in Net
  /\ open \in [Spaces -> Nat]
  /\ sw \in Switch
  /\ job \in Job
  /\ rd \in [Hosts -> Reader]
  /\ wire \in [Hosts -> Nat]
  /\ strays \in 0 .. MaxStrays

(***************************************************************************)
(* A test whose Setup went through leaves no name of a namespace, no bridge *)
(* and no veth pair behind but what "ip netns del" failed to remove,        *)
(* whatever fails in its body; it leaves no handle open and no goroutine    *)
(* running unless it died where nothing was deferred; and however it ends,  *)
(* a failed start included, the switch under test is stopped with its       *)
(* handles closed before its namespace is deleted.                          *)
(***************************************************************************)
TornDown ==
  /\ test.pc \in {"del_ns", "del_sw", "ended"} => open[SwNS] = 0 /\ sw.eng # "running"
  /\ test.pc = "ended" /\ test.failed # "setup" => OnlyStuckLeft
  /\ test.pc \in TeardownPCs /\ test.failed # "leak" =>
       \A h \in Hosts : open[h] = 0 /\ rd[h].pc \in {"none", "exited"}

(***************************************************************************)
(* A reader is never inside a read of a handle that was closed.             *)
(***************************************************************************)
NoReadAfterClose ==
  \A h \in Hosts : rd[h].pc \in {"select", "read", "got"} => rd[h].handle = "open"

(***************************************************************************)
(* A capture sees the wire, not the sender: what Received returns for a     *)
(* host holds no outgoing copy of what the host itself sent, so every frame *)
(* in it is one the switch delivered.                                       *)
(***************************************************************************)
NoEcho == \A h \in Hosts : "own" \notin Received(h)

(***************************************************************************)
(* "Drain long enough that the counter goroutine has fully accounted the    *)
(* warmup before we snapshot, so these frames are excluded from the         *)
(* measured window": Throughput reports no more frames received than it     *)
(* sent in the window.                                                      *)
(***************************************************************************)
WarmupExcluded ==
  test.pc = "close" /\ job.kind = "throughput" /\ job.armed = {} => job.rx <= job.tx

(***************************************************************************)
(* A test ends: no wait for a reader to finish lasts forever, whatever the  *)
(* reader is doing and whether or not its handle has failed.                *)
(***************************************************************************)
TestEnds == <>(test.pc = "ended")
=============================================================================
