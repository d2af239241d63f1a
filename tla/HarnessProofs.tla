---------------------------- MODULE HarnessProofs ---------------------------
(***************************************************************************)
(* What holds of a test of the harness for any number of hosts, jobs and    *)
(* frames: it cleans up after itself, its readers never use a closed        *)
(* handle, and a capture holds no echo.                                     *)
(***************************************************************************)
EXTENDS Probe, TLAPS, SequenceTheorems

-----------------------------------------------------------------------------
(* The inductive invariant: the switch and the network, then the job and     *)
(* the readers.                                                              *)

\* Only a running Go switch has handles in the switch's namespace.
SwitchOK ==
  /\ sw.kind = "bridge" => open[SwNS] = 0 /\ sw.eng = "none"
  /\ test.pc \in SetupPCs => sw.eng = "none"
  /\ test.pc \in SetupPCs \ {"start"} => open[SwNS] = 0
  /\ test.pc \in {"del_ns", "del_sw", "ended"} => open[SwNS] = 0 /\ sw.eng # "running"

\* The pair of host h is removed, unless its end could not be.
Gone(h) == net.veth[h] = "none" \/ h \in net.ns \/ open[h] > 0

\* At most the pair of the host being set up is half-way, and teardown leaves
\* the namespaces it has yet to delete and those it could not.
NetOK ==
  /\ test.pc \in {"move_sw", "move_host"} =>
       \A h \in Hosts \ {test.host} : net.veth[h] \in {"none", "placed"}
  /\ test.pc \notin {"move_sw", "move_host", "ended"} =>
       \A h \in Hosts : net.veth[h] \in {"none", "placed"}
  /\ test.pc = "del_ns" =>
       /\ net.ns \subseteq {SwNS} \cup Stuck \cup {h \in Hosts : h >= test.host}
       /\ \A h \in Hosts : h < test.host => Gone(h)
  /\ test.pc = "del_sw" => net.ns \subseteq {SwNS} \cup Stuck /\ \A h \in Hosts : Gone(h)
  /\ test.pc = "ended" /\ test.failed # "setup" => OnlyStuckLeft

Idle == job.kind = "none" /\ job.src = 0 /\ job.todo = {} /\ job.armed = {}

\* Where the test is, and what that says of its job.
PhaseOK ==
  /\ test.pc \in SetupPCs \cup {"body"} => Idle
  /\ test.pc \in TeardownPCs /\ test.failed # "leak" => Idle
  /\ test.pc \in {"armed", "blast", "close", "join"} => job.todo = {}
  /\ test.pc = "arm" => job.todo # {}
  /\ test.pc \in {"arm", "armed", "blast"} => job.kind # "none"
  /\ test.pc \in {"armed", "blast"} => job.armed # {}
  /\ test.pc = "blast" => job.kind = "throughput"
  /\ test.pc = "join" => test.host \in job.armed

\* A measurement has a sender and one receiver on another host.
JobOK ==
  /\ job.todo \cap job.armed = {}
  /\ job.kind = "none" => Idle
  /\ job.kind = "capture" => job.src = 0
  /\ job.kind \in {"throughput", "latency"} =>
       /\ job.src \in Hosts \ (job.todo \cup job.armed)
       /\ \A g, h \in job.todo \cup job.armed : g = h

Busy == {"select", "read", "got"}

\* A handle is open from the open to the close of a reader, and every open
\* handle of a host is accounted for.
ReadersOK ==
  \A h \in Hosts :
    /\ rd[h].pc = "opened" => h \in job.todo
    /\ rd[h].pc \in {"opened"} \cup Busy => rd[h].handle = "open"
    /\ h \in job.armed => rd[h].handle = "open" /\ rd[h].pc \in Busy \cup {"exited"}
    /\ rd[h].handle = "open" => h \in job.armed \/ rd[h].pc = "opened"
    /\ open[h] = (IF rd[h].handle = "open" THEN 1 ELSE 0) + (IF job.src = h THEN 1 ELSE 0)

\* What the rings and the readers hold.
FramesOK ==
  \A h \in Hosts :
    /\ rd[h].pc = "got" => rd[h].ring # <<>>
    /\ "own" \notin ToSet(rd[h].ring) /\ "own" \notin ToSet(rd[h].frames)

\* The names Setup has given, and Teardown has not yet tried to delete.
NamesOK ==
  /\ test.pc \notin {"add_sw", "ended"} => SwNS \in net.ns
  /\ test.pc = "add_sw" => test.host = 1
  /\ test.pc = "add_ns" => \A h \in Hosts : h < test.host => h \in net.ns
  /\ test.pc \in {"add_veth", "move_sw", "move_host", "configure"} =>
       \A h \in Hosts : h <= test.host => h \in net.ns
  /\ test.pc \in {"start", "stop"} \cup BodyPCs => Hosts \subseteq net.ns
  /\ test.pc = "del_ns" => \A h \in Hosts : h >= test.host => h \in net.ns

TopInv  == SwitchOK /\ NetOK
ProbeInv == PhaseOK /\ JobOK /\ ReadersOK /\ FramesOK

HarnessInv == TypeOK /\ TopInv /\ ProbeInv
-----------------------------------------------------------------------------
Test == [pc : SetupPCs \cup BodyPCs \cup TeardownPCs, host : Hosts,
         failed : {"no", "setup", "body", "leak"}]

LEMMA HostFacts ==
  /\ NumHosts \in Nat \ {0} /\ Hosts \subseteq Nat /\ 0 \notin Hosts /\ 1 \in Hosts
  /\ SwNS = 0 /\ SwNS \in Spaces /\ Hosts \subseteq Spaces
  /\ \A h \in Hosts : h <= NumHosts /\ (h < NumHosts => h + 1 \in Hosts)
  BY TopologyAssumption DEF Hosts, Spaces, SwNS

LEMMA BoundFacts == MaxJobs \in Nat /\ MaxSends \in Nat /\ MaxStrays \in Nat
  BY ProbeAssumption

\* The test moves to another place, with or without another host or verdict.
LEMMA TestMoves ==
  ASSUME test \in Test, NEW pc \in SetupPCs \cup BodyPCs \cup TeardownPCs, NEW h \in Hosts,
         NEW f \in {"no", "setup", "body", "leak"}
  PROVE  /\ [test EXCEPT !.pc = pc] \in Test
         /\ [test EXCEPT !.pc = pc, !.host = h] \in Test
         /\ [test EXCEPT !.host = h] \in Test
         /\ [test EXCEPT !.pc = pc, !.failed = f] \in Test
  BY DEF Test

\* A step of Setup or Teardown does not touch the job and the hosts' handles.
LEMMA TopKeepsProbe ==
  ASSUME ProbeInv, UNCHANGED probeVars, \A h \in Hosts : open'[h] = open[h],
         test'.pc \in SetupPCs \cup TeardownPCs \cup {"body"},
         \/ test.pc \in SetupPCs
         \/ /\ test.pc \in TeardownPCs /\ test'.pc \in TeardownPCs
            /\ test'.failed = test.failed
  PROVE  ProbeInv'
<1>1. JobOK' /\ ReadersOK' /\ FramesOK'
  BY DEF ProbeInv, JobOK, ReadersOK, FramesOK, probeVars, Idle
<1>2. PhaseOK'
  BY DEF ProbeInv, PhaseOK, probeVars, Idle, SetupPCs, TeardownPCs
<1> QED
  BY <1>1, <1>2 DEF ProbeInv

LEMMA TypeParts ==
  TypeOK <=> /\ test \in Test /\ net \in Net /\ open \in [Spaces -> Nat] /\ sw \in Switch
             /\ job \in Job /\ rd \in [Hosts -> Reader] /\ wire \in [Hosts -> Nat]
             /\ strays \in 0 .. MaxStrays
  BY DEF TypeOK, Test
-----------------------------------------------------------------------------
(* Setup *)

LEMMA AddNSInv ==
  ASSUME HarnessInv, AddSwNS \/ AddHostNS, UNCHANGED probeVars
  PROVE  HarnessInv'
<1> USE HostFacts
<1>1. /\ test \in Test /\ net \in Net /\ open \in [Spaces -> Nat] /\ sw \in Switch
      /\ TopInv /\ ProbeInv /\ UNCHANGED <<open, sw>>
  BY TypeParts DEF HarnessInv, AddSwNS, AddHostNS
<1>2. PICK n \in Spaces, pc \in {"add_ns", "add_veth"} :
        /\ net' = [net EXCEPT !.ns = @ \cup {n}] /\ test' = [test EXCEPT !.pc = pc]
        /\ test.pc \in {"add_sw", "add_ns"}
  BY <1>1 DEF AddSwNS, AddHostNS, Test
<1>3. net' \in Net /\ net'.veth = net.veth
  BY <1>1, <1>2 DEF Net
<1>4. test' \in Test /\ test'.pc = pc /\ test'.host = test.host
  BY <1>1, <1>2 DEF Test, SetupPCs
<1>5. TypeOK'
  BY <1>1, <1>3, <1>4, TypeParts DEF HarnessInv, probeVars, TypeOK, Test
<1>6. TopInv'
  BY <1>1, <1>2, <1>3, <1>4 DEF TopInv, SwitchOK, NetOK, SetupPCs
<1>7. ProbeInv'
  BY <1>1, <1>2, <1>4, TopKeepsProbe DEF SetupPCs
<1> QED
  BY <1>5, <1>6, <1>7 DEF HarnessInv

LEMMA VethStepInv ==
  ASSUME HarnessInv, VethStep, UNCHANGED probeVars
  PROVE  HarnessInv'
<1> USE HostFacts
<1>1. /\ test \in Test /\ net \in Net /\ open \in [Spaces -> Nat] /\ sw \in Switch
      /\ TopInv /\ ProbeInv /\ UNCHANGED <<open, sw>>
  BY TypeParts DEF HarnessInv, VethStep
<1>2. PICK s \in {<<"add_veth", "root", "move_sw">>, <<"move_sw", "half", "move_host">>,
                  <<"move_host", "placed", "configure">>} :
        /\ test.pc = s[1]
        /\ net' = [net EXCEPT !.veth[test.host] = s[2]]
        /\ test' = [test EXCEPT !.pc = s[3]]
  BY DEF VethStep
<1>3. /\ s[1] \in {"add_veth", "move_sw", "move_host"} /\ s[2] \in {"root", "half", "placed"}
      /\ s[3] \in {"move_sw", "move_host", "configure"}
      /\ s[3] = "configure" => s[2] = "placed" /\ s[1] = "move_host"
  BY <1>2
<1> DEFINE a == s[2]
           pc == s[3]
<1> HIDE DEF a, pc
<1>4. /\ net' \in Net /\ net'.veth = [net.veth EXCEPT ![test.host] = a] /\ net'.ns = net.ns
  BY <1>1, <1>2, <1>3 DEF Net, Test, a
<1>5. test' \in Test /\ test'.pc = pc /\ test'.host = test.host
  BY <1>1, <1>2, <1>3 DEF Test, SetupPCs, pc
<1>6. TypeOK'
  BY <1>1, <1>4, <1>5, TypeParts DEF HarnessInv, probeVars, TypeOK, Test
<1>7. SwitchOK'
  BY <1>1, <1>2, <1>3, <1>5 DEF TopInv, SwitchOK, SetupPCs, pc
<1>8. NetOK'
  <2>1. \A h \in Hosts \ {test.host} : net.veth[h] \in {"none", "placed"}
    BY <1>1, <1>2, <1>3 DEF TopInv, NetOK
  <2>2. \A h \in Hosts \ {test.host} : net'.veth[h] = net.veth[h]
    BY <1>1, <1>4 DEF Net
  <2>3. net'.veth[test.host] = a
    BY <1>1, <1>4 DEF Net, Test
  <2>4. pc \in {"move_sw", "move_host", "configure"} /\ (pc = "configure" => a = "placed")
    BY <1>3 DEF a, pc
  <2> QED
    BY <1>5, <2>1, <2>2, <2>3, <2>4 DEF NetOK
<1>9. ProbeInv'
  BY <1>1, <1>2, <1>3, <1>5, TopKeepsProbe DEF SetupPCs, pc
<1> QED
  BY <1>6, <1>7, <1>8, <1>9 DEF HarnessInv, TopInv

LEMMA ConfigureInv ==
  ASSUME HarnessInv, Configure, UNCHANGED probeVars
  PROVE  HarnessInv'
<1> USE HostFacts
<1>1. /\ test \in Test /\ TopInv /\ ProbeInv /\ UNCHANGED <<net, open, sw>>
      /\ test.pc = "configure"
  BY TypeParts DEF HarnessInv, Configure
<1>2. /\ test' \in Test /\ test'.pc \in {"add_ns", "start"}
  <2>1. test.host \in Hosts
    BY <1>1 DEF Test
  <2>2. CASE test.host < NumHosts
    <3> DEFINE n == test.host + 1
    <3>1. n \in Hosts
      BY <2>1, <2>2
    <3>2. test' = [test EXCEPT !.pc = "add_ns", !.host = n]
      BY <2>2 DEF Configure
    <3> HIDE DEF n
    <3> QED
      BY <1>1, <3>1, <3>2 DEF Test, SetupPCs
  <2>3. CASE ~(test.host < NumHosts)
    BY <1>1, <2>3 DEF Configure, Test, SetupPCs
  <2> QED
    BY <2>2, <2>3
<1>3. TypeOK'
  BY <1>1, <1>2, TypeParts DEF HarnessInv, probeVars, TypeOK, Test
<1>4. TopInv'
  BY <1>1, <1>2 DEF TopInv, SwitchOK, NetOK, SetupPCs
<1>5. ProbeInv'
  BY <1>1, <1>2, TopKeepsProbe DEF SetupPCs
<1> QED
  BY <1>3, <1>4, <1>5 DEF HarnessInv

\* A failure before the switch is started, or of the bridge.
LEMMA SetupFailInv ==
  ASSUME HarnessInv, SetupFail \/ BridgeFail, UNCHANGED probeVars
  PROVE  HarnessInv'
<1> USE HostFacts
<1>1. /\ test \in Test /\ TopInv /\ ProbeInv /\ UNCHANGED <<net, open, sw>>
      /\ test.pc \in SetupPCs /\ (test.pc = "start" => sw.kind = "bridge")
      /\ test' = [test EXCEPT !.pc = "ended", !.failed = "setup"]
  BY TypeParts DEF HarnessInv, SetupFail, BridgeFail, SetupPCs
<1>2. /\ test' \in Test /\ test'.pc = "ended" /\ test'.failed = "setup"
  BY <1>1 DEF Test, TeardownPCs
<1>3. TypeOK'
  BY <1>1, <1>2, TypeParts DEF HarnessInv, probeVars, TypeOK, Test
<1>4. TopInv'
  BY <1>1, <1>2 DEF TopInv, SwitchOK, NetOK, SetupPCs
<1>5. ProbeInv'
  BY <1>1, <1>2, TopKeepsProbe DEF TeardownPCs
<1> QED
  BY <1>3, <1>4, <1>5 DEF HarnessInv

\* The switch is up, of either kind.
LEMMA StartedInv ==
  ASSUME HarnessInv, GoStart \/ BridgeStarted, UNCHANGED probeVars
  PROVE  HarnessInv'
<1> USE HostFacts
<1>1. /\ test \in Test /\ sw \in Switch /\ TopInv /\ ProbeInv /\ UNCHANGED <<net, open>>
      /\ test.pc = "start" /\ test' = [test EXCEPT !.pc = "body"]
  BY TypeParts DEF HarnessInv, GoStart, BridgeStarted
<1>2. test' \in Test /\ test'.pc = "body"
  BY <1>1 DEF Test, BodyPCs
<1>3. sw' \in Switch /\ sw'.kind = sw.kind /\ (sw.kind = "bridge" => sw' = sw)
  BY <1>1 DEF GoStart, BridgeStarted, Switch
<1>4. TypeOK'
  BY <1>1, <1>2, <1>3, TypeParts DEF HarnessInv, probeVars, TypeOK, Test
<1>5. TopInv'
  BY <1>1, <1>2, <1>3 DEF TopInv, SwitchOK, NetOK, SetupPCs
<1>6. ProbeInv'
  BY <1>1, <1>2, TopKeepsProbe DEF SetupPCs
<1> QED
  BY <1>4, <1>5, <1>6 DEF HarnessInv

LEMMA GoOpenInv ==
  ASSUME HarnessInv, GoOpen, UNCHANGED probeVars
  PROVE  HarnessInv'
<1> USE HostFacts
<1>1. /\ test \in Test /\ sw \in Switch /\ open \in [Spaces -> Nat] /\ TopInv /\ ProbeInv
      /\ UNCHANGED <<test, net>> /\ test.pc = "start" /\ sw.kind = "goswitch"
      /\ sw.ports < NumHosts
  BY TypeParts DEF HarnessInv, GoOpen
<1>2. open' \in [Spaces -> Nat] /\ \A h \in Hosts : open'[h] = open[h]
  BY <1>1 DEF GoOpen, openInNetns
<1>3. sw' \in Switch /\ sw'.kind = sw.kind /\ sw'.eng = sw.eng
  <2> DEFINE n == sw.ports + 1
  <2>1. n \in 0 .. NumHosts
    BY <1>1 DEF Switch
  <2>2. sw' = [sw EXCEPT !.ports = n]
    BY DEF GoOpen
  <2> HIDE DEF n
  <2> QED
    BY <1>1, <2>1, <2>2 DEF Switch
<1>4. TypeOK'
  BY <1>1, <1>2, <1>3, TypeParts DEF HarnessInv, probeVars, TypeOK, Test
<1>5. TopInv'
  BY <1>1, <1>3 DEF TopInv, SwitchOK, NetOK, SetupPCs
<1>6. ProbeInv'
  BY <1>1, <1>2, TopKeepsProbe DEF SetupPCs
<1> QED
  BY <1>4, <1>5, <1>6 DEF HarnessInv

LEMMA GoStartFailInv ==
  ASSUME HarnessInv, GoStartFail, UNCHANGED probeVars
  PROVE  HarnessInv'
<1> USE HostFacts
<1>1. /\ test \in Test /\ open \in [Spaces -> Nat] /\ TopInv /\ ProbeInv
      /\ UNCHANGED <<net, sw>> /\ test.pc = "start"
      /\ test' = [test EXCEPT !.pc = "ended", !.failed = "setup"]
  BY TypeParts DEF HarnessInv, GoStartFail
<1>2. open' \in [Spaces -> Nat] /\ open'[SwNS] = 0 /\ \A h \in Hosts : open'[h] = open[h]
  BY <1>1 DEF GoStartFail
<1>3. test' \in Test /\ test'.pc = "ended" /\ test'.failed = "setup"
  BY <1>1 DEF Test, TeardownPCs
<1>4. TypeOK'
  BY <1>1, <1>2, <1>3, TypeParts DEF HarnessInv, probeVars, TypeOK, Test
<1>5. TopInv'
  BY <1>1, <1>2, <1>3 DEF TopInv, SwitchOK, NetOK, SetupPCs
<1>6. ProbeInv'
  BY <1>1, <1>2, <1>3, TopKeepsProbe DEF SetupPCs, TeardownPCs
<1> QED
  BY <1>4, <1>5, <1>6 DEF HarnessInv

LEMMA BridgeStepInv ==
  ASSUME HarnessInv, BridgeAdd \/ BridgePort, UNCHANGED probeVars
  PROVE  HarnessInv'
<1> USE HostFacts
<1>1. /\ test \in Test /\ sw \in Switch /\ net \in Net /\ TopInv /\ ProbeInv
      /\ UNCHANGED <<test, open>> /\ test.pc = "start" /\ sw.kind = "bridge"
  BY TypeParts DEF HarnessInv, BridgeAdd, BridgePort
<1>2. net' \in Net /\ net'.veth = net.veth
  BY <1>1 DEF BridgeAdd, BridgePort, Net
<1>3. sw' \in Switch /\ sw'.kind = sw.kind /\ sw'.eng = sw.eng
  <2>1. CASE BridgeAdd
    BY <1>1, <2>1 DEF BridgeAdd
  <2>2. CASE BridgePort
    <3> DEFINE n == sw.ports + 1
    <3>1. n \in 0 .. NumHosts
      BY <1>1, <2>2 DEF Switch, BridgePort
    <3>2. sw' = [sw EXCEPT !.ports = n]
      BY <2>2 DEF BridgePort
    <3> HIDE DEF n
    <3> QED
      BY <1>1, <3>1, <3>2 DEF Switch
  <2> QED
    BY <2>1, <2>2
<1>4. TypeOK'
  BY <1>1, <1>2, <1>3, TypeParts DEF HarnessInv, probeVars, TypeOK, Test
<1>5. TopInv'
  BY <1>1, <1>2, <1>3 DEF TopInv, SwitchOK, NetOK, SetupPCs
<1>6. ProbeInv'
  BY <1>1, TopKeepsProbe DEF SetupPCs
<1> QED
  BY <1>4, <1>5, <1>6 DEF HarnessInv

LEMMA SetupStepInv ==
  ASSUME HarnessInv, SetupStep, UNCHANGED probeVars
  PROVE  HarnessInv'
  BY AddNSInv, VethStepInv, ConfigureInv, SetupFailInv, StartedInv, GoOpenInv, GoStartFailInv,
     BridgeStepInv DEF SetupStep
-----------------------------------------------------------------------------
(* Teardown *)

LEMMA StopSwitchInv ==
  ASSUME HarnessInv, StopSwitch, UNCHANGED probeVars
  PROVE  HarnessInv'
<1> USE HostFacts
<1>1. /\ test \in Test /\ sw \in Switch /\ net \in Net /\ open \in [Spaces -> Nat]
      /\ TopInv /\ ProbeInv /\ test.pc = "stop"
      /\ test' = [test EXCEPT !.pc = "del_ns", !.host = 1]
  BY TypeParts DEF HarnessInv, StopSwitch
<1>2. /\ test' \in Test /\ test'.pc = "del_ns" /\ test'.host = 1 /\ test'.failed = test.failed
  BY <1>1 DEF Test, TeardownPCs
<1>3. /\ sw' \in Switch /\ net' \in Net /\ open' \in [Spaces -> Nat]
      /\ net'.veth = net.veth /\ net'.ns = net.ns /\ sw'.kind = sw.kind
      /\ open'[SwNS] = 0 /\ \A h \in Hosts : open'[h] = open[h]
      /\ sw'.eng # "running" /\ (sw.kind = "bridge" => sw'.eng = sw.eng)
  <2>1. CASE GoStop
    BY <1>1, <2>1 DEF GoStop, Switch
  <2>2. CASE BridgeStop
    BY <1>1, <2>2 DEF BridgeStop, Net, TopInv, SwitchOK
  <2> QED
    BY <2>1, <2>2 DEF StopSwitch
<1>4. TypeOK'
  BY <1>1, <1>2, <1>3, TypeParts DEF HarnessInv, probeVars, TypeOK, Test
<1>5. SwitchOK'
  BY <1>1, <1>2, <1>3 DEF TopInv, SwitchOK, SetupPCs
<1>6. NetOK'
  <2>1. /\ net.ns \subseteq {SwNS} \cup {h \in Hosts : h >= 1}
        /\ \A h \in Hosts : ~(h < 1)
    BY <1>1 DEF Net, Spaces, Hosts
  <2> QED
    BY <1>1, <1>2, <1>3, <2>1 DEF TopInv, NetOK
<1>7. ProbeInv'
  BY <1>1, <1>2, <1>3, TopKeepsProbe DEF TeardownPCs
<1> QED
  BY <1>4, <1>5, <1>6, <1>7 DEF HarnessInv, TopInv

LEMMA DelHostNSInv ==
  ASSUME HarnessInv, NamesOK, DelHostNS, UNCHANGED probeVars
  PROVE  HarnessInv'
<1> USE HostFacts
<1>1. /\ test \in Test /\ net \in Net /\ TopInv /\ ProbeInv /\ test.pc = "del_ns"
      /\ UNCHANGED <<open, sw>> /\ test.host \in Hosts
  BY TypeParts DEF HarnessInv, DelHostNS, Test
<1> DEFINE v == IF net.veth[test.host] = "placed" /\ open[test.host] = 0
                  THEN "none" ELSE net.veth[test.host]
<1>2. v \in {"none", "placed"}
  BY <1>1 DEF TopInv, NetOK
<1>3. \/ net' = [net EXCEPT !.ns = net.ns \ {test.host}, !.veth[test.host] = v]
      \/ test.host \in Stuck /\ net' = net
  BY DEF DelHostNS
<1>10. v = "none" \/ open[test.host] > 0
  <2>1. net.veth[test.host] \in {"none", "placed"} /\ open[test.host] \in Nat
    BY <1>1 DEF TopInv, NetOK, HarnessInv, TypeOK
  <2> QED
    BY <2>1
<1> HIDE DEF v
<1>11. PICK g \in Hosts : g = test.host
  BY <1>1
<1>4. /\ net' \in Net /\ net'.ns \subseteq net.ns
      /\ \A h \in Hosts : net'.veth[h] \in {"none", "placed"}
      /\ test.host \in net'.ns => test.host \in Stuck
      /\ \A h \in Hosts \ {test.host} : /\ h \in net.ns => h \in net'.ns
                                       /\ net'.veth[h] = net.veth[h]
      /\ Gone(g)'
  <2>1. \A h \in Hosts : net.veth[h] \in {"none", "placed"}
    BY <1>1 DEF TopInv, NetOK
  <2>2. CASE net' = [net EXCEPT !.ns = net.ns \ {test.host}, !.veth[test.host] = v]
    <3>1. net'.ns = net.ns \ {test.host} /\ net'.veth = [net.veth EXCEPT ![test.host] = v]
      BY <1>1, <2>2 DEF Net
    <3>2. net' \in Net
      BY <1>1, <1>2, <2>2 DEF Net
    <3>3. net'.veth[test.host] = v
      BY <1>1, <3>1 DEF Net
    <3>4. Gone(g)'
      BY <1>1, <1>10, <1>11, <3>3 DEF Gone
    <3> QED
      BY <1>1, <1>2, <2>1, <3>1, <3>2, <3>4 DEF Net
  <2>3. CASE test.host \in Stuck /\ net' = net
    <3>0. ASSUME NEW k \in Nat PROVE k >= k
      OBVIOUS
    <3>1. test.host >= test.host
      BY <1>1, <3>0
    <3>2. test.host \in net.ns
      BY <1>1, <3>1 DEF NamesOK
    <3> QED
      BY <1>1, <1>11, <2>1, <2>3, <3>2 DEF Gone
  <2> QED
    BY <1>3, <2>2, <2>3
<1>5. /\ test' \in Test /\ test'.failed = test.failed
      /\ \/ test'.pc = "del_ns" /\ test.host < NumHosts /\ test'.host = test.host + 1
         \/ test'.pc = "del_sw" /\ test.host = NumHosts
  <2>1. CASE test.host < NumHosts
    <3> DEFINE n == test.host + 1
    <3>1. n \in Hosts
      BY <1>1, <2>1
    <3>2. test' = [test EXCEPT !.host = n]
      BY <2>1 DEF DelHostNS
    <3> HIDE DEF n
    <3>3. test' \in Test /\ test'.pc = "del_ns" /\ test'.host = n /\ test'.failed = test.failed
      BY <1>1, <3>1, <3>2 DEF Test
    <3> QED
      BY <2>1, <3>3 DEF n
  <2>2. CASE ~(test.host < NumHosts)
    <3>1. test.host \in Nat /\ NumHosts \in Nat /\ test.host <= NumHosts
      BY <1>1
    <3>2. test.host = NumHosts
      BY <2>2, <3>1
    <3> QED
      BY <1>1, <2>2, <3>2 DEF DelHostNS, Test, TeardownPCs
  <2> QED
    BY <2>1, <2>2
<1>6. TypeOK'
  BY <1>1, <1>4, <1>5, TypeParts DEF HarnessInv, probeVars, TypeOK, Test
<1>7. SwitchOK'
  BY <1>1, <1>5 DEF TopInv, SwitchOK, SetupPCs
<1>8. NetOK'
  <2>1. /\ net.ns \subseteq {SwNS} \cup Stuck \cup {h \in Hosts : h >= test.host}
        /\ \A h \in Hosts : h < test.host => Gone(h)
        /\ test.host \in Nat
    BY <1>1 DEF TopInv, NetOK
  <2>2. ASSUME NEW h \in net'.ns
        PROVE  h = SwNS \/ h \in Stuck \/ (h \in Hosts /\ h >= test.host + 1)
    <3>1. h \in net.ns /\ (h = test.host => h \in Stuck)
      BY <1>4, <2>2
    <3>2. h = SwNS \/ h \in Stuck \/ (h \in Hosts /\ h \in Nat /\ h >= test.host)
      BY <2>1, <3>1
    <3> QED
      BY <2>1, <3>1, <3>2
  <2>3. ASSUME test.host = NumHosts, NEW h \in net'.ns PROVE h = SwNS \/ h \in Stuck
    <3>1. h \in Hosts => h \in Nat /\ NumHosts \in Nat /\ h <= NumHosts
      OBVIOUS
    <3> QED
      BY <2>2, <2>3, <3>1
  <2>4. ASSUME NEW h \in Hosts, h <= test.host PROVE Gone(h)'
    <3>1. CASE h = test.host
      BY <1>4, <1>11, <3>1
    <3>2. CASE h # test.host
      <4>0. ASSUME NEW i \in Nat, NEW k \in Nat, i <= k, i # k PROVE i < k
        BY <4>0
      <4>1. h < test.host
        BY <2>1, <2>4, <3>2, <4>0
      <4> QED
        BY <1>1, <1>4, <2>1, <3>2, <4>1 DEF Gone
    <3> QED
      BY <3>1, <3>2
  <2>5. CASE test'.pc = "del_ns" /\ test'.host = test.host + 1
    <3>0. ASSUME NEW h \in Nat, NEW k \in Nat, h < k + 1 PROVE h <= k
      BY <3>0
    <3>1. \A h \in Hosts : h < test'.host => h <= test.host
      BY <2>1, <2>5, <3>0
    <3>2. net'.ns \subseteq {SwNS} \cup Stuck \cup {h \in Hosts : h >= test'.host}
      BY <2>2, <2>5
    <3> QED
      BY <1>4, <2>4, <2>5, <3>1, <3>2 DEF NetOK
  <2>6. CASE test'.pc = "del_sw" /\ test.host = NumHosts
    <3>1. \A h \in Hosts : h <= test.host
      BY <2>6
    <3>2. net'.ns \subseteq {SwNS} \cup Stuck
      BY <2>3, <2>6
    <3> QED
      BY <1>4, <2>4, <2>6, <3>1, <3>2 DEF NetOK
  <2> QED
    BY <1>5, <2>5, <2>6
<1>9. ProbeInv'
  BY <1>1, <1>5, TopKeepsProbe DEF TeardownPCs
<1> QED
  BY <1>6, <1>7, <1>8, <1>9 DEF HarnessInv, TopInv

LEMMA DelSwNSInv ==
  ASSUME HarnessInv, NamesOK, DelSwNS, UNCHANGED probeVars
  PROVE  HarnessInv'
<1> USE HostFacts
<1>1. /\ test \in Test /\ net \in Net /\ TopInv /\ ProbeInv /\ test.pc = "del_sw"
      /\ UNCHANGED <<open, sw>> /\ test' = [test EXCEPT !.pc = "ended"]
  BY TypeParts DEF HarnessInv, DelSwNS
<1>2. /\ test' \in Test /\ test'.pc = "ended" /\ test'.failed = test.failed
  BY <1>1 DEF Test, TeardownPCs
<1>3. /\ open[SwNS] = 0 /\ net.ns \subseteq {SwNS} \cup Stuck /\ SwNS \in net.ns
      /\ \A h \in Hosts : net.veth[h] \in {"none", "placed"} /\ Gone(h)
  BY <1>1 DEF TopInv, SwitchOK, NetOK, NamesOK
<1>4. ASSUME net' = [ns |-> net.ns \ {SwNS}, bridge |-> net.bridge /\ open[SwNS] > 0,
                   veth |-> [h \in Hosts |->
                               IF net.veth[h] \in {"half", "placed"} /\ open[SwNS] = 0
                                 THEN "none" ELSE net.veth[h]]]
      PROVE  net' \in Net /\ OnlyStuckLeft'
  <2>1. (net.bridge /\ open[SwNS] > 0) = FALSE
    BY <1>3
  <2>2. [h \in Hosts |-> IF net.veth[h] \in {"half", "placed"} /\ open[SwNS] = 0
                           THEN "none" ELSE net.veth[h]] = [h \in Hosts |-> "none"]
    BY <1>3
  <2>3. net' = [ns |-> net.ns \ {SwNS}, bridge |-> FALSE, veth |-> [h \in Hosts |-> "none"]]
    BY <1>4, <2>1, <2>2
  <2>4. net.ns \in SUBSET Spaces
    BY <1>1 DEF Net
  <2> QED
    BY <1>3, <2>3, <2>4 DEF Net, OnlyStuckLeft
<1>9. ASSUME UNCHANGED net, SwNS \in Stuck PROVE net' \in Net /\ OnlyStuckLeft'
  BY <1>1, <1>3, <1>9 DEF OnlyStuckLeft, Gone
<1>5. net' \in Net /\ OnlyStuckLeft'
  BY <1>4, <1>9 DEF DelSwNS
<1>6. TypeOK'
  BY <1>1, <1>2, <1>5, TypeParts DEF HarnessInv, probeVars, TypeOK, Test
<1>7. TopInv'
  BY <1>1, <1>2, <1>5 DEF TopInv, SwitchOK, NetOK, SetupPCs
<1>8. ProbeInv'
  BY <1>1, <1>2, TopKeepsProbe DEF TeardownPCs
<1> QED
  BY <1>6, <1>7, <1>8 DEF HarnessInv

LEMMA TeardownStepInv ==
  ASSUME HarnessInv, NamesOK, TeardownStep, UNCHANGED probeVars
  PROVE  HarnessInv'
  BY StopSwitchInv, DelHostNSInv, DelSwNSInv DEF TeardownStep
-----------------------------------------------------------------------------
(* The kernel and the readers *)

\* What a ring holds after a frame was appended or taken.
LEMMA RingFacts ==
  ASSUME NEW s \in Seq(Frame), NEW f \in Frame
  PROVE  /\ Append(s, f) \in Seq(Frame) /\ Len(Append(s, f)) = Len(s) + 1 /\ Append(s, f) # <<>>
         /\ f # "own" /\ "own" \notin ToSet(s) => "own" \notin ToSet(Append(s, f))
         /\ s # <<>> => /\ Tail(s) \in Seq(Frame) /\ Len(Tail(s)) = Len(s) - 1
                        /\ Head(s) \in Frame
                        /\ "own" \notin ToSet(s) => "own" \notin ToSet(Tail(s)) /\ Head(s) # "own"
<1>1. /\ Append(s, f) \in Seq(Frame) /\ Len(Append(s, f)) = Len(s) + 1 /\ Append(s, f) # <<>>
  <2>1. Append(s, f) \in Seq(Frame)
    OBVIOUS
  <2>2. Len(Append(s, f)) = Len(s) + 1
    OBVIOUS
  <2>3. Len(s) \in Nat /\ (Append(s, f) = <<>> => Len(Append(s, f)) = 0)
    OBVIOUS
  <2> QED
    BY <2>1, <2>2, <2>3
<1>2. ASSUME f # "own", "own" \notin ToSet(s) PROVE "own" \notin ToSet(Append(s, f))
  BY <1>2 DEF ToSet
<1>3. ASSUME s # <<>>
      PROVE  /\ Tail(s) \in Seq(Frame) /\ Len(Tail(s)) = Len(s) - 1 /\ Head(s) \in Frame
             /\ "own" \notin ToSet(s) => "own" \notin ToSet(Tail(s)) /\ Head(s) # "own"
  <2>1. Tail(s) \in Seq(Frame) /\ Len(Tail(s)) = Len(s) - 1 /\ Head(s) \in Frame
    BY <1>3
  <2>2. \A i \in 1 .. Len(Tail(s)) : Tail(s)[i] = s[i + 1] /\ i + 1 \in 1 .. Len(s)
    BY <1>3
  <2>3. Head(s) = s[1] /\ 1 \in 1 .. Len(s)
    BY <1>3
  <2>4. DOMAIN s = 1 .. Len(s) /\ DOMAIN Tail(s) = 1 .. Len(Tail(s))
    BY <1>3
  <2> QED
    BY <2>1, <2>2, <2>3, <2>4 DEF ToSet
<1> QED
  BY <1>1, <1>2, <1>3

\* A frame reaches a tap: it is in the ring, or it was filtered out.
LEMMA RingAfterFacts ==
  ASSUME TypeOK, NEW h \in Hosts, NEW f \in Frame, rd' = RingAfter(h, f)
  PROVE  /\ rd' \in [Hosts -> Reader]
         /\ \A g \in Hosts : /\ rd'[g].pc = rd[g].pc /\ rd'[g].done = rd[g].done
                             /\ rd'[g].handle = rd[g].handle /\ rd'[g].frames = rd[g].frames
                             /\ g # h => rd'[g].ring = rd[g].ring
         /\ rd'[h].ring = IF Passes(h, f) THEN Append(rd[h].ring, f) ELSE rd[h].ring
<1>1. rd \in [Hosts -> Reader] /\ rd[h].ring \in Seq(Frame)
  BY DEF TypeOK, Reader
<1>2. CASE Passes(h, f)
  <2> DEFINE s == Append(rd[h].ring, f)
  <2>1. s \in Seq(Frame)
    BY <1>1
  <2>2. rd' = [rd EXCEPT ![h].ring = s]
    BY <1>2 DEF RingAfter
  <2> HIDE DEF s
  <2> DEFINE r == [rd[h] EXCEPT !.ring = s]
  <2>3. /\ r \in Reader /\ r.pc = rd[h].pc /\ r.done = rd[h].done /\ r.handle = rd[h].handle
        /\ r.frames = rd[h].frames /\ r.ring = s
    BY <1>1, <2>1 DEF Reader
  <2>4. rd' = [rd EXCEPT ![h] = r]
    BY <1>1, <2>2
  <2> HIDE DEF r
  <2> QED
    BY <1>1, <1>2, <2>3, <2>4 DEF s
<1>3. CASE ~Passes(h, f)
  BY <1>1, <1>3 DEF RingAfter
<1> QED
  BY <1>2, <1>3

\* Enough for a step of the kernel or of a reader.
LEMMA ReaderStepInv ==
  ASSUME HarnessInv, UNCHANGED <<topVars, job>>,
         rd' \in [Hosts -> Reader], wire' \in [Hosts -> Nat], strays' \in 0 .. MaxStrays,
         \A g \in Hosts : /\ rd'[g].handle = rd[g].handle
                          /\ rd'[g].pc = "opened" <=> rd[g].pc = "opened"
                          /\ rd[g].pc \in Busy \cup {"exited"} => rd'[g].pc \in Busy \cup {"exited"}
                          /\ rd'[g].pc \in Busy => rd[g].pc \in Busy,
         FramesOK'
  PROVE  HarnessInv'
<1>1. TypeOK'
  BY DEF HarnessInv, TypeOK, topVars
<1>2. TopInv'
  BY DEF HarnessInv, TopInv, SwitchOK, NetOK, topVars, OnlyStuckLeft, Gone
<1>3. PhaseOK' /\ JobOK'
  BY DEF HarnessInv, ProbeInv, PhaseOK, JobOK, topVars, Idle
<1>4. ReadersOK'
  <2> SUFFICES ASSUME NEW h \in Hosts
               PROVE  /\ rd'[h].pc = "opened" => h \in job.todo
                      /\ rd'[h].pc \in {"opened"} \cup Busy => rd'[h].handle = "open"
                      /\ h \in job.armed => rd'[h].handle = "open" /\ rd'[h].pc \in Busy \cup {"exited"}
                      /\ rd'[h].handle = "open" => h \in job.armed \/ rd'[h].pc = "opened"
                      /\ open[h] = (IF rd'[h].handle = "open" THEN 1 ELSE 0)
                                     + (IF job.src = h THEN 1 ELSE 0)
    BY DEF ReadersOK, topVars
  <2>1. rd'[h].handle = rd[h].handle
    OBVIOUS
  <2> QED
    BY <2>1 DEF HarnessInv, ProbeInv, ReadersOK
<1> QED
  BY <1>1, <1>2, <1>3, <1>4 DEF HarnessInv, ProbeInv

\* The rings and what was read are sequences of frames, and their lengths numbers.
LEMMA LengthFacts ==
  ASSUME TypeOK, NEW h \in Hosts
  PROVE  /\ Len(rd[h].ring) \in Nat /\ Len(rd[h].frames) \in Nat /\ wire[h] \in Nat
         /\ job.cStart \in Nat /\ job.rx \in Int
         /\ rd[h].ring \in Seq(Frame) /\ rd[h].frames \in Seq(Frame)
<1>1. rd[h].ring \in Seq(Frame) /\ rd[h].frames \in Seq(Frame) /\ wire[h] \in Nat
  BY DEF TypeOK, Reader
<1>2. job.cStart \in Nat /\ job.rx \in Int
  BY DEF TypeOK, Job
<1>3. Len(rd[h].ring) \in Nat /\ Len(rd[h].frames) \in Nat
  BY <1>1
<1> QED
  BY <1>1, <1>2, <1>3

LEMMA DeliverInv ==
  ASSUME HarnessInv, NEW h \in Hosts, Deliver(h) \/ Lose(h)
  PROVE  HarnessInv'
<1>1. /\ TypeOK /\ FramesOK /\ UNCHANGED <<topVars, job, strays>> /\ wire[h] \in Nat \ {0}
      /\ wire \in [Hosts -> Nat] /\ "test" \in Frame /\ rd \in [Hosts -> Reader]
  BY DEF HarnessInv, ProbeInv, TypeOK, Deliver, Lose, Frame
<1> DEFINE n == wire[h] - 1
<1>2. n \in Nat /\ wire' = [wire EXCEPT ![h] = n]
  BY <1>1 DEF Deliver, Lose
<1>3. wire' \in [Hosts -> Nat] /\ wire'[h] = wire[h] - 1 /\ \A g \in Hosts \ {h} : wire'[g] = wire[g]
  BY <1>1, <1>2
<1>4. /\ rd' \in [Hosts -> Reader]
      /\ \A g \in Hosts : /\ rd'[g].pc = rd[g].pc /\ rd'[g].handle = rd[g].handle
                          /\ rd'[g].frames = rd[g].frames
                          /\ g # h => rd'[g].ring = rd[g].ring
      /\ rd'[h].ring \in {rd[h].ring, Append(rd[h].ring, "test")}
  BY <1>1, RingAfterFacts DEF Deliver, Lose
<1>5. /\ rd[h].ring \in Seq(Frame)
      /\ Len(rd'[h].ring) <= Len(rd[h].ring) + 1 /\ Len(rd'[h].ring) \in Nat
      /\ rd[h].ring # <<>> => rd'[h].ring # <<>>
      /\ "own" \notin ToSet(rd'[h].ring)
  <2>1. rd[h].ring \in Seq(Frame) /\ Len(rd[h].ring) \in Nat /\ "own" \notin ToSet(rd[h].ring)
    BY <1>1, LengthFacts DEF FramesOK
  <2> DEFINE a == Append(rd[h].ring, "test")
  <2>2. Len(a) = Len(rd[h].ring) + 1 /\ a # <<>> /\ "own" \notin ToSet(a)
    BY <1>1, <2>1, RingFacts
  <2> HIDE DEF a
  <2>3. CASE rd'[h].ring = rd[h].ring
    BY <2>1, <2>3
  <2>4. CASE rd'[h].ring = a
    BY <2>1, <2>2, <2>4
  <2> QED
    BY <1>4, <2>3, <2>4 DEF a
<1>6. FramesOK'
  BY <1>1, <1>4, <1>5 DEF FramesOK
<1>8. strays' \in 0 .. MaxStrays
  BY <1>1 DEF TypeOK
<1> QED
  BY <1>1, <1>3, <1>4, <1>6, <1>8, ReaderStepInv

LEMMA StrayInv ==
  ASSUME HarnessInv, NEW h \in Hosts, Stray(h)
  PROVE  HarnessInv'
<1>1. /\ TypeOK /\ FramesOK /\ UNCHANGED <<topVars, job, wire>>
      /\ wire \in [Hosts -> Nat] /\ "stray" \in Frame
  BY DEF HarnessInv, ProbeInv, TypeOK, Stray, Frame
<1>2. strays' \in 0 .. MaxStrays
  BY <1>1, BoundFacts DEF TypeOK, Stray
<1>3. /\ rd' \in [Hosts -> Reader]
      /\ \A g \in Hosts : /\ rd'[g].pc = rd[g].pc /\ rd'[g].handle = rd[g].handle
                          /\ rd'[g].frames = rd[g].frames
                          /\ g # h => rd'[g].ring = rd[g].ring
      /\ rd'[h].ring = IF Passes(h, "stray") THEN Append(rd[h].ring, "stray") ELSE rd[h].ring
  BY <1>1, RingAfterFacts DEF Stray
<1>4. /\ rd[h].ring # <<>> => rd'[h].ring # <<>>
      /\ "own" \notin ToSet(rd'[h].ring)
  BY <1>1, <1>3, RingFacts, LengthFacts DEF FramesOK
<1>5. FramesOK'
  BY <1>1, <1>3, <1>4 DEF FramesOK
<1> QED
  BY <1>1, <1>2, <1>3, <1>5, ReaderStepInv

\* A reader goes on without storing a frame.
LEMMA LoopPcInv ==
  ASSUME HarnessInv, NEW h \in Hosts,
         LoopSelect(h) \/ LoopTimeout(h) \/ LoopRead(h) \/ LoopError(h)
  PROVE  HarnessInv'
<1>1. /\ TypeOK /\ FramesOK /\ UNCHANGED <<topVars, job, wire, strays>>
      /\ rd \in [Hosts -> Reader] /\ rd[h].pc \in {"select", "read"}
  BY DEF HarnessInv, ProbeInv, TypeOK, LoopSelect, LoopTimeout, LoopRead, LoopError
<1>2. PICK pc \in Busy \cup {"exited"} :
        rd' = [rd EXCEPT ![h].pc = pc] /\ (pc = "got" => rd[h].ring # <<>>)
  BY DEF LoopSelect, LoopTimeout, LoopRead, LoopError, Busy
<1>3. /\ rd' \in [Hosts -> Reader] /\ rd'[h].pc = pc /\ \A g \in Hosts \ {h} : rd'[g] = rd[g]
      /\ rd'[h].handle = rd[h].handle /\ rd'[h].ring = rd[h].ring /\ rd'[h].frames = rd[h].frames
  BY <1>1, <1>2 DEF Reader, Busy
<1>4. FramesOK'
  BY <1>1, <1>2, <1>3 DEF FramesOK
<1>6. \A g \in Hosts : /\ rd'[g].handle = rd[g].handle
                       /\ rd'[g].pc = "opened" <=> rd[g].pc = "opened"
                       /\ rd[g].pc \in Busy \cup {"exited"} => rd'[g].pc \in Busy \cup {"exited"}
                       /\ rd'[g].pc \in Busy => rd[g].pc \in Busy
  BY <1>1, <1>2, <1>3 DEF Busy
<1>7. wire' \in [Hosts -> Nat] /\ strays' \in 0 .. MaxStrays
  BY <1>1 DEF TypeOK
<1> QED
  BY <1>1, <1>3, <1>4, <1>6, <1>7, ReaderStepInv

LEMMA LoopStoreInv ==
  ASSUME HarnessInv, NEW h \in Hosts, LoopStore(h)
  PROVE  HarnessInv'
<1>1. /\ TypeOK /\ FramesOK /\ UNCHANGED <<topVars, job, wire, strays>>
      /\ rd \in [Hosts -> Reader] /\ rd[h].pc = "got" /\ rd[h].ring # <<>>
      /\ rd[h].ring \in Seq(Frame) /\ rd[h].frames \in Seq(Frame)
  BY LengthFacts DEF HarnessInv, ProbeInv, TypeOK, LoopStore, FramesOK
<1> DEFINE t == Tail(rd[h].ring)
           s == Append(rd[h].frames, Head(rd[h].ring))
           r == [rd[h] EXCEPT !.pc = "select", !.ring = t, !.frames = s]
<1>2. /\ t \in Seq(Frame) /\ Len(t) = Len(rd[h].ring) - 1
      /\ s \in Seq(Frame) /\ Len(s) = Len(rd[h].frames) + 1
      /\ "own" \notin ToSet(t) /\ "own" \notin ToSet(s)
  BY <1>1, RingFacts DEF FramesOK
<1>3. rd' = [rd EXCEPT ![h] = r]
  BY <1>1 DEF LoopStore
<1> HIDE DEF t, s
<1>4. r \in Reader /\ r.pc = "select" /\ r.ring = t /\ r.frames = s /\ r.handle = rd[h].handle
  BY <1>1, <1>2 DEF Reader
<1> HIDE DEF r
<1>5. rd' \in [Hosts -> Reader] /\ rd'[h] = r /\ \A g \in Hosts \ {h} : rd'[g] = rd[g]
  BY <1>1, <1>3, <1>4
<1>6. FramesOK'
  BY <1>1, <1>2, <1>4, <1>5 DEF FramesOK
<1>8. \A g \in Hosts : /\ rd'[g].handle = rd[g].handle
                       /\ rd'[g].pc = "opened" <=> rd[g].pc = "opened"
                       /\ rd[g].pc \in Busy \cup {"exited"} => rd'[g].pc \in Busy \cup {"exited"}
                       /\ rd'[g].pc \in Busy => rd[g].pc \in Busy
  BY <1>1, <1>4, <1>5 DEF Busy
<1>9. wire' \in [Hosts -> Nat] /\ strays' \in 0 .. MaxStrays
  BY <1>1 DEF TypeOK
<1> QED
  BY <1>1, <1>5, <1>6, <1>8, <1>9, ReaderStepInv
-----------------------------------------------------------------------------
(* The job *)

LEMMA BodyKeepsTop ==
  ASSUME TopInv, UNCHANGED <<net, sw>>, open'[SwNS] = open[SwNS],
         test.pc \in BodyPCs, test'.pc \in BodyPCs \cup {"stop"}
  PROVE  TopInv'
<1>1. test.pc \notin SetupPCs \cup TeardownPCs /\ test'.pc \notin SetupPCs
  BY DEF BodyPCs, SetupPCs, TeardownPCs
<1>2. SwitchOK'
  BY <1>1 DEF TopInv, SwitchOK, BodyPCs
<1>3. NetOK'
  BY DEF TopInv, NetOK, BodyPCs
<1> QED
  BY <1>2, <1>3 DEF TopInv

\* A write: no tap of the sender takes the outgoing copy.
LEMMA WriteFacts ==
  ASSUME HarnessInv, test.pc \in {"body", "armed", "blast"}, NEW src \in Hosts, Write(src)
  PROVE  /\ rd' = rd /\ wire' \in [Hosts -> Nat]
         /\ \A h \in Hosts : wire'[h] = wire[h] \/ wire'[h] = wire[h] + 1
<1>1. wire \in [Hosts -> Nat] /\ job.todo = {} /\ rd[src].pc # "opened"
  BY DEF HarnessInv, TypeOK, ProbeInv, PhaseOK, ReadersOK, Idle
<1>2. rd' = rd
  BY <1>1 DEF Write, RingAfter, Passes, inboundFilter, perfBPF
<1>3. PICK to \in SUBSET (Hosts \ {src}) :
        wire' = [h \in Hosts |-> wire[h] + (IF h \in to THEN 1 ELSE 0)]
  BY DEF Write
<1> QED
  BY <1>1, <1>2, <1>3

\* The steps that only move the test on: to its close, or to its end.
LEMMA MoveOnInv ==
  ASSUME HarnessInv, InjectFail \/ Finish \/ Return
  PROVE  HarnessInv'
<1>1. /\ test \in Test /\ TopInv /\ ProbeInv /\ UNCHANGED <<net, open, sw, probeVars>>
      /\ test.pc \in {"body", "armed", "blast"}
  BY TypeParts DEF HarnessInv, InjectFail, Finish, Return
<1>2. /\ test' \in Test
      /\ \/ test'.pc = "close"
         \/ test'.pc = "stop" /\ (test.pc = "body" \/ test'.failed = "leak")
  BY <1>1 DEF InjectFail, Finish, Return, Fatal, Test, BodyPCs, TeardownPCs
<1>4. TypeOK'
  BY <1>1, <1>2, TypeParts DEF HarnessInv, probeVars, TypeOK, Test
<1>5. TopInv'
  BY <1>1, <1>2, BodyKeepsTop DEF BodyPCs
<1>6. PhaseOK'
  BY <1>1, <1>2 DEF ProbeInv, PhaseOK, probeVars, Idle, SetupPCs, TeardownPCs
<1>7. JobOK' /\ ReadersOK' /\ FramesOK'
  BY <1>1 DEF ProbeInv, JobOK, ReadersOK, FramesOK, probeVars, Idle
<1> QED
  BY <1>4, <1>5, <1>6, <1>7 DEF HarnessInv, ProbeInv

\* Frames outside the measurement: an injected one, a warm-up, one of Latency's.
LEMMA SendInv ==
  ASSUME HarnessInv, SendOne \/ \E src \in Hosts : Inject(src)
  PROVE  HarnessInv'
<1>1. /\ TypeOK /\ TopInv /\ ProbeInv /\ job \in Job /\ wire \in [Hosts -> Nat]
      /\ UNCHANGED <<topVars, strays>> /\ test.pc \in {"body", "armed"} /\ job.sent < MaxSends
  BY DEF HarnessInv, TypeOK, SendOne, Inject
<1>2. rd' = rd /\ wire' \in [Hosts -> Nat]
  <2>1. ASSUME NEW src \in Hosts, Write(src) PROVE rd' = rd /\ wire' \in [Hosts -> Nat]
    BY <1>1, <2>1, WriteFacts
  <2>2. CASE SendOne
    <3>1. job.src \in Hosts
      BY <1>1, <2>2 DEF SendOne, ProbeInv, PhaseOK, JobOK, Job, JobKinds
    <3> QED
      BY <1>1, <2>1, <2>2, <3>1 DEF SendOne
  <2>3. CASE \E src \in Hosts : Inject(src)
    BY <2>1, <2>3 DEF Inject
  <2> QED
    BY <2>2, <2>3
<1>3. /\ job' \in Job /\ job'.kind = job.kind /\ job'.src = job.src
      /\ job'.todo = job.todo /\ job'.armed = job.armed
  <2> DEFINE n == job.sent + 1
  <2>1. n \in 0 .. MaxSends
    BY <1>1, BoundFacts DEF Job
  <2>2. job' = [job EXCEPT !.sent = n]
    BY DEF SendOne, Inject
  <2> HIDE DEF n
  <2> QED
    BY <1>1, <2>1, <2>2 DEF Job
<1>4. TypeOK'
  BY <1>1, <1>2, <1>3 DEF TypeOK, topVars
<1>5. TopInv'
  BY <1>1, BodyKeepsTop DEF BodyPCs, topVars
<1>6. PhaseOK'
  BY <1>1, <1>3 DEF ProbeInv, PhaseOK, Idle, topVars
<1>7. JobOK' /\ ReadersOK' /\ FramesOK'
  BY <1>1, <1>2, <1>3 DEF ProbeInv, JobOK, ReadersOK, FramesOK, Idle, topVars
<1> QED
  BY <1>4, <1>5, <1>6, <1>7 DEF HarnessInv, ProbeInv

\* A job begins: captures, or a measurement whose sender is open.
LEMMA BeginInv ==
  ASSUME HarnessInv,
         \/ \E hs \in (SUBSET Hosts) \ {{}} : Capture(hs)
         \/ \E k \in {"throughput", "latency"}, src, dst \in Hosts :
              src # dst /\ newSender(k, src, dst)
  PROVE  HarnessInv'
<1> USE HostFacts
<1>1. /\ test \in Test /\ TopInv /\ ProbeInv /\ job \in Job /\ open \in [Spaces -> Nat]
      /\ UNCHANGED <<net, sw, rd, wire, strays>> /\ test.pc = "body"
      /\ Idle /\ job.n < MaxJobs
  BY TypeParts DEF HarnessInv, Capture, newSender, ProbeInv, PhaseOK
<1>2. CASE test' = [test EXCEPT !.pc = "stop", !.failed = "leak"] /\ UNCHANGED <<open, job>>
  <2>1. test' \in Test /\ test'.pc = "stop" /\ test'.failed = "leak"
    BY <1>1, <1>2 DEF Test, TeardownPCs
  <2>2. TypeOK'
    BY <1>1, <1>2, <2>1, TypeParts DEF HarnessInv, TypeOK, Test
  <2>3. TopInv'
    BY <1>1, <1>2, <2>1, BodyKeepsTop DEF BodyPCs
  <2>4. PhaseOK'
    BY <2>1 DEF PhaseOK, SetupPCs, TeardownPCs
  <2>5. JobOK' /\ ReadersOK' /\ FramesOK'
    BY <1>1, <1>2 DEF ProbeInv, JobOK, ReadersOK, FramesOK, Idle
  <2> QED
    BY <2>2, <2>3, <2>4, <2>5 DEF HarnessInv, ProbeInv
<1>3. ASSUME NEW k \in {"capture", "throughput", "latency"}, NEW src \in Hosts \cup {0},
             NEW hs \in SUBSET Hosts, hs # {},
             job' = [job EXCEPT !.n = @ + 1, !.kind = k, !.src = src, !.todo = hs],
             test' = [test EXCEPT !.pc = "arm"],
             \/ k = "capture" /\ src = 0 /\ open' = open
             \/ /\ k # "capture" /\ src \in Hosts \ hs /\ (\A g, h \in hs : g = h)
                /\ open' = [open EXCEPT ![src] = @ + 1]
      PROVE  HarnessInv'
  <2>1. test' \in Test /\ test'.pc = "arm" /\ test'.failed = test.failed
    BY <1>1, <1>3 DEF Test, BodyPCs
  <2>2. /\ job' \in Job /\ job'.kind = k /\ job'.src = src /\ job'.todo = hs
        /\ job'.armed = {}
    <3> DEFINE n == job.n + 1
    <3>1. n \in 0 .. MaxJobs
      BY <1>1, BoundFacts DEF Job
    <3>2. job' = [job EXCEPT !.n = n, !.kind = k, !.src = src, !.todo = hs]
      BY <1>3
    <3> HIDE DEF n
    <3> QED
      BY <1>1, <3>1, <3>2 DEF Job, JobKinds, Idle
  <2>3. /\ open' \in [Spaces -> Nat] /\ open'[SwNS] = open[SwNS]
        /\ \A h \in Hosts : open'[h] = open[h] + (IF src = h THEN 1 ELSE 0)
    <3>1. CASE src = 0 /\ open' = open
      BY <1>1, <3>1
    <3>2. CASE src \in Hosts /\ open' = [open EXCEPT ![src] = @ + 1]
      BY <1>1, <3>2
    <3> QED
      BY <1>3, <3>1, <3>2
  <2>4. TypeOK'
    BY <1>1, <2>1, <2>2, <2>3, TypeParts DEF HarnessInv, TypeOK, Test
  <2>5. TopInv'
    BY <1>1, <2>1, <2>3, BodyKeepsTop DEF BodyPCs
  <2>6. PhaseOK'
    BY <1>3, <2>1, <2>2 DEF PhaseOK, SetupPCs, TeardownPCs
  <2>7. JobOK'
    BY <1>3, <2>2 DEF JobOK, Idle
  <2>8. ReadersOK'
    <3>1. \A h \in Hosts : rd[h].pc # "opened" /\ rd[h].handle # "open" /\ open[h] = 0
      BY <1>1 DEF ProbeInv, ReadersOK, Idle
    <3>2. \A h \in Hosts : rd[h].pc \notin Busy
      BY <1>1, <3>1 DEF ProbeInv, ReadersOK
    <3>3. \A h \in Hosts : open'[h] = 0 + (IF src = h THEN 1 ELSE 0)
      BY <2>3, <3>1
    <3> QED
      BY <1>1, <2>2, <3>1, <3>2, <3>3 DEF ReadersOK
  <2>9. FramesOK'
    BY <1>1, <2>1 DEF ProbeInv, FramesOK
  <2> QED
    BY <2>4, <2>5, <2>6, <2>7, <2>8, <2>9 DEF HarnessInv, ProbeInv
<1>4. CASE \E hs \in (SUBSET Hosts) \ {{}} : Capture(hs)
  <2>1. PICK hs \in (SUBSET Hosts) \ {{}} : Capture(hs)
    BY <1>4
  <2> DEFINE n == job.n + 1
  <2>2. job' = [job EXCEPT !.n = n, !.kind = "capture", !.todo = hs]
    BY <2>1 DEF Capture
  <2> HIDE DEF n
  <2>3. job' = [job EXCEPT !.n = n, !.kind = "capture", !.src = 0, !.todo = hs]
    BY <1>1, <2>2 DEF Job, Idle
  <2>4. test' = [test EXCEPT !.pc = "arm"] /\ open' = open
    BY <2>1 DEF Capture
  <2>5. /\ job' = [job EXCEPT !.n = @ + 1, !.kind = "capture", !.src = 0, !.todo = hs]
        /\ hs \in SUBSET Hosts /\ hs # {} /\ 0 \in Hosts \cup {0}
        /\ "capture" \in {"capture", "throughput", "latency"}
    BY <2>3 DEF n
  <2>6. "capture" = "capture" /\ 0 = 0 /\ open' = open
    BY <2>4
  <2> QED
    BY <1>3, <2>4, <2>5, <2>6, Zenon
<1>5. CASE \E k \in {"throughput", "latency"}, src, dst \in Hosts :
             src # dst /\ newSender(k, src, dst)
  <2>1. PICK k \in {"throughput", "latency"}, src \in Hosts, dst \in Hosts :
               src # dst /\ newSender(k, src, dst)
    BY <1>5
  <2>2. CASE /\ open' = openInNetns(src)
             /\ job' = [job EXCEPT !.n = @ + 1, !.kind = k, !.src = src, !.todo = {dst}]
             /\ test' = [test EXCEPT !.pc = "arm"]
    <3>1. {dst} \in SUBSET Hosts /\ {dst} # {} /\ src \in Hosts \ {dst} /\ k # "capture"
          /\ \A g, h \in {dst} : g = h
      BY <2>1
    <3>2. open' = [open EXCEPT ![src] = @ + 1]
      BY <2>2 DEF openInNetns
    <3> QED
      BY <1>3, <2>1, <2>2, <3>1, <3>2
  <2> QED
    BY <1>2, <2>1, <2>2 DEF newSender, Fatal
<1> QED
  BY <1>4, <1>5

\* A t.Fatalf while arming leaves everything as it is.
LEMMA ArmFatalInv ==
  ASSUME HarnessInv, test.pc = "arm", Fatal("leak"), UNCHANGED <<net, open, sw, probeVars>>
  PROVE  HarnessInv'
<1>1. test \in Test /\ TopInv /\ ProbeInv
  BY TypeParts DEF HarnessInv
<1>2. test' \in Test /\ test'.pc = "stop" /\ test'.failed = "leak"
  BY <1>1 DEF Fatal, Test, TeardownPCs
<1>3. TypeOK'
  BY <1>1, <1>2, TypeParts DEF HarnessInv, probeVars, TypeOK, Test
<1>4. TopInv'
  BY <1>1, <1>2, BodyKeepsTop DEF BodyPCs
<1>5. PhaseOK'
  BY <1>2 DEF PhaseOK, SetupPCs, TeardownPCs
<1>6. JobOK' /\ ReadersOK' /\ FramesOK'
  BY <1>1 DEF ProbeInv, JobOK, ReadersOK, FramesOK, probeVars, Idle
<1> QED
  BY <1>3, <1>4, <1>5, <1>6 DEF HarnessInv, ProbeInv

LEMMA ArmOpenInv ==
  ASSUME HarnessInv, NEW h \in Hosts, ArmOpen(h)
  PROVE  HarnessInv'
<1> USE HostFacts
<1>1. /\ TypeOK /\ TopInv /\ ProbeInv /\ rd \in [Hosts -> Reader] /\ open \in [Spaces -> Nat]
      /\ UNCHANGED <<net, sw, job, wire, strays>> /\ test.pc = "arm" /\ h \in job.todo
      /\ rd[h].pc # "opened"
  BY DEF HarnessInv, TypeOK, ArmOpen
<1>2. CASE Fatal("leak") /\ UNCHANGED <<open, rd>>
  BY <1>1, <1>2, ArmFatalInv DEF probeVars
<1> DEFINE r == [NoReader EXCEPT !.pc = "opened", !.handle = "open"]
<1>3. CASE open' = openInNetns(h) /\ rd' = [rd EXCEPT ![h] = r] /\ test' = test
  <2>1. /\ r \in Reader /\ r.pc = "opened" /\ r.handle = "open"
        /\ r.ring = <<>> /\ r.frames = <<>>
    <3> DEFINE e == <<>>
    <3>1. e \in Seq(Frame)
      OBVIOUS
    <3> HIDE DEF e
    <3>2. NoReader = [pc |-> "none", done |-> FALSE, handle |-> "none", ring |-> e, frames |-> e]
      BY DEF NoReader, e
    <3>3. r \in Reader /\ r.pc = "opened" /\ r.handle = "open" /\ r.ring = e /\ r.frames = e
      BY <3>1, <3>2 DEF Reader
    <3> QED
      BY <3>3 DEF e
  <2> HIDE DEF r
  <2>2. /\ rd' \in [Hosts -> Reader] /\ rd'[h] = r
        /\ \A g \in Hosts \ {h} : rd'[g] = rd[g]
    BY <1>1, <1>3, <2>1
  <2>3. /\ open' \in [Spaces -> Nat] /\ open'[SwNS] = open[SwNS]
        /\ open'[h] = open[h] + 1 /\ \A g \in Hosts \ {h} : open'[g] = open[g]
    BY <1>1, <1>3 DEF openInNetns
  <2>4. TypeOK'
    BY <1>1, <1>3, <2>2, <2>3 DEF TypeOK
  <2>5. TopInv'
    BY <1>1, <1>3, <2>3, BodyKeepsTop DEF BodyPCs
  <2>6. PhaseOK' /\ JobOK'
    BY <1>1, <1>3 DEF ProbeInv, PhaseOK, JobOK, Idle
  <2>7. ReadersOK'
    <3>1. ASSUME NEW g \in Hosts
          PROVE  /\ rd'[g].pc = "opened" => g \in job.todo
                 /\ rd'[g].pc \in {"opened"} \cup Busy => rd'[g].handle = "open"
                 /\ g \in job.armed =>
                      rd'[g].handle = "open" /\ rd'[g].pc \in Busy \cup {"exited"}
                 /\ rd'[g].handle = "open" => g \in job.armed \/ rd'[g].pc = "opened"
                 /\ open'[g] = (IF rd'[g].handle = "open" THEN 1 ELSE 0)
                                 + (IF job.src = g THEN 1 ELSE 0)
      <4>1. CASE g = h
        <5>1. h \notin job.armed
          BY <1>1 DEF ProbeInv, JobOK
        <5>2. rd[h].handle # "open"
          BY <1>1, <5>1 DEF ProbeInv, ReadersOK
        <5>3. open[h] = 0 + (IF job.src = h THEN 1 ELSE 0)
          BY <1>1, <5>2 DEF ProbeInv, ReadersOK
        <5>4. open'[h] = 1 + (IF job.src = h THEN 1 ELSE 0)
          BY <2>3, <5>3
        <5> QED
          BY <1>1, <2>1, <2>2, <4>1, <5>1, <5>4
      <4>2. CASE g # h
        BY <1>1, <2>2, <2>3, <4>2 DEF ProbeInv, ReadersOK
      <4> QED
        BY <4>1, <4>2
    <3> QED
      BY <1>1, <3>1 DEF ReadersOK
  <2>8. FramesOK'
    <3>1. ToSet(<<>>) = {}
      BY DEF ToSet
    <3> QED
      BY <1>1, <2>1, <2>2, <3>1 DEF ProbeInv, FramesOK
  <2> QED
    BY <2>4, <2>5, <2>6, <2>7, <2>8 DEF HarnessInv, ProbeInv
<1> QED
  BY <1>2, <1>3 DEF ArmOpen

LEMMA ArmFilterInv ==
  ASSUME HarnessInv, NEW h \in Hosts, ArmFilter(h)
  PROVE  HarnessInv'
<1> USE HostFacts
<1>1. /\ test \in Test /\ TopInv /\ ProbeInv /\ rd \in [Hosts -> Reader] /\ job \in Job
      /\ UNCHANGED <<net, open, sw, wire, strays>> /\ test.pc = "arm" /\ h \in job.todo
      /\ rd[h].pc = "opened" /\ rd[h].handle = "open"
  BY TypeParts DEF HarnessInv, TypeOK, ArmFilter, ProbeInv, ReadersOK
<1>2. CASE Fatal("leak") /\ UNCHANGED <<job, rd>>
  BY <1>1, <1>2, ArmFatalInv DEF probeVars
<1>3. CASE /\ rd' = [rd EXCEPT ![h].pc = "select"]
           /\ job' = [job EXCEPT !.todo = @ \ {h}, !.armed = @ \cup {h}]
           /\ test' = [test EXCEPT !.pc = IF job.todo = {h} THEN "armed" ELSE "arm"]
  <2>1. /\ rd' \in [Hosts -> Reader] /\ rd'[h].pc = "select" /\ rd'[h].handle = "open"
        /\ rd'[h].ring = rd[h].ring /\ rd'[h].frames = rd[h].frames
        /\ \A g \in Hosts \ {h} : rd'[g] = rd[g]
    BY <1>1, <1>3 DEF Reader
  <2>2. /\ job' \in Job /\ job'.todo = job.todo \ {h} /\ job'.armed = job.armed \cup {h}
        /\ job'.kind = job.kind /\ job'.src = job.src
    BY <1>1, <1>3 DEF Job
  <2>3. /\ test' \in Test /\ test'.failed = test.failed
        /\ test'.pc = IF job.todo = {h} THEN "armed" ELSE "arm"
    BY <1>1, <1>3 DEF Test, BodyPCs
  <2>4. TypeOK'
    BY <1>1, <2>1, <2>2, <2>3, TypeParts DEF HarnessInv, TypeOK, Test
  <2>5. TopInv'
    BY <1>1, <2>3, BodyKeepsTop DEF BodyPCs
  <2>6. PhaseOK'
    <3>1. job'.todo = {} <=> job.todo = {h}
      BY <1>1, <2>2
    <3> QED
      BY <1>1, <2>2, <2>3, <3>1 DEF ProbeInv, PhaseOK, SetupPCs, TeardownPCs
  <2>7. JobOK'
    <3>1. job'.todo \cup job'.armed = job.todo \cup job.armed
      BY <1>1, <2>2
    <3>2. job'.todo \cap job'.armed = {}
      BY <1>1, <2>2 DEF ProbeInv, JobOK
    <3>3. job.kind # "none"
      BY <1>1 DEF ProbeInv, PhaseOK
    <3> QED
      BY <1>1, <2>2, <3>1, <3>2, <3>3 DEF ProbeInv, JobOK
  <2>8. ReadersOK'
    <3>1. ASSUME NEW g \in Hosts
          PROVE  /\ rd'[g].pc = "opened" => g \in job'.todo
                 /\ rd'[g].pc \in {"opened"} \cup Busy => rd'[g].handle = "open"
                 /\ g \in job'.armed =>
                      rd'[g].handle = "open" /\ rd'[g].pc \in Busy \cup {"exited"}
                 /\ rd'[g].handle = "open" => g \in job'.armed \/ rd'[g].pc = "opened"
                 /\ rd'[g].handle = rd[g].handle
      <4>1. CASE g = h
        BY <1>1, <2>1, <2>2, <4>1 DEF Busy
      <4>2. CASE g # h
        BY <1>1, <2>1, <2>2, <4>2 DEF ProbeInv, ReadersOK
      <4> QED
        BY <4>1, <4>2
    <3>2. \A g \in Hosts : open'[g] = (IF rd'[g].handle = "open" THEN 1 ELSE 0)
                                       + (IF job'.src = g THEN 1 ELSE 0)
      <4> SUFFICES ASSUME NEW g \in Hosts
                   PROVE  open'[g] = (IF rd'[g].handle = "open" THEN 1 ELSE 0)
                                       + (IF job'.src = g THEN 1 ELSE 0)
        OBVIOUS
      <4>1. rd'[g].handle = rd[g].handle
        BY <3>1
      <4> QED
        BY <1>1, <2>2, <4>1 DEF ProbeInv, ReadersOK
    <3> QED
      BY <3>1, <3>2 DEF ReadersOK
  <2>9. FramesOK'
    BY <1>1, <2>1, <2>3 DEF ProbeInv, FramesOK
  <2> QED
    BY <2>4, <2>5, <2>6, <2>7, <2>8, <2>9 DEF HarnessInv, ProbeInv
<1> QED
  BY <1>2, <1>3 DEF ArmFilter

\* cStart is read.
LEMMA SnapshotInv ==
  ASSUME HarnessInv, Snapshot
  PROVE  HarnessInv'
<1>1. /\ TypeOK /\ test \in Test /\ TopInv /\ ProbeInv /\ job \in Job
      /\ UNCHANGED <<net, open, sw, rd, wire, strays>> /\ test.pc = "armed"
      /\ job.kind = "throughput" /\ test' = [test EXCEPT !.pc = "blast"]
  BY TypeParts DEF HarnessInv, Snapshot
<1>2. Dst \in Hosts
  <2>1. job.armed # {}
    BY <1>1 DEF ProbeInv, PhaseOK
  <2> QED
    BY <1>1, <2>1 DEF Dst, Job
<1> DEFINE c == Len(rd[Dst].frames)
<1>3. c \in Nat /\ job' = [job EXCEPT !.cStart = c]
  BY <1>1, <1>2, LengthFacts DEF Snapshot
<1> HIDE DEF c
<1>4. /\ job' \in Job /\ job'.kind = job.kind /\ job'.src = job.src /\ job'.todo = job.todo
      /\ job'.armed = job.armed
  BY <1>1, <1>3 DEF Job
<1>5. test' \in Test /\ test'.pc = "blast"
  BY <1>1 DEF Test, BodyPCs
<1>6. TypeOK'
  BY <1>1, <1>4, <1>5, TypeParts DEF HarnessInv, TypeOK, Test
<1>7. TopInv'
  BY <1>1, <1>5, BodyKeepsTop DEF BodyPCs
<1>8. PhaseOK'
  BY <1>1, <1>4, <1>5 DEF ProbeInv, PhaseOK, SetupPCs, TeardownPCs
<1>9. JobOK' /\ ReadersOK' /\ FramesOK'
  BY <1>1, <1>4 DEF ProbeInv, JobOK, ReadersOK, FramesOK, Idle
<1> QED
  BY <1>6, <1>7, <1>8, <1>9 DEF HarnessInv, ProbeInv

\* A frame of the measurement.
LEMMA BlastInv ==
  ASSUME HarnessInv, BlastOne
  PROVE  HarnessInv'
<1>1. /\ TypeOK /\ TopInv /\ ProbeInv /\ job \in Job
      /\ UNCHANGED <<topVars, strays>> /\ test.pc = "blast" /\ job.tx < MaxSends
      /\ job.kind = "throughput" /\ job.src \in Hosts
  BY DEF HarnessInv, TypeOK, BlastOne, ProbeInv, PhaseOK, JobOK
<1>2. /\ rd' = rd /\ wire' \in [Hosts -> Nat]
      /\ \A h \in Hosts : wire'[h] = wire[h] \/ wire'[h] = wire[h] + 1
  BY <1>1, WriteFacts DEF BlastOne
<1> DEFINE n == job.tx + 1
<1>3. n \in 0 .. MaxSends
  BY <1>1, BoundFacts DEF Job
<1>4. job' = [job EXCEPT !.tx = n]
  BY DEF BlastOne
<1> HIDE DEF n
<1>5. /\ job' \in Job /\ job'.kind = job.kind /\ job'.src = job.src /\ job'.todo = job.todo
      /\ job'.armed = job.armed
  BY <1>1, <1>3, <1>4 DEF Job
<1>6. TypeOK'
  BY <1>1, <1>2, <1>5 DEF TypeOK, topVars
<1>7. TopInv'
  BY <1>1, BodyKeepsTop DEF BodyPCs, topVars
<1>8. PhaseOK'
  BY <1>1, <1>5 DEF ProbeInv, PhaseOK, topVars, SetupPCs, TeardownPCs
<1>9. JobOK' /\ ReadersOK' /\ FramesOK'
  BY <1>1, <1>2, <1>5 DEF ProbeInv, JobOK, ReadersOK, FramesOK, Idle, topVars
<1> QED
  BY <1>6, <1>7, <1>8, <1>9 DEF HarnessInv, ProbeInv

LEMMA CloseDoneInv ==
  ASSUME HarnessInv, NEW h \in Hosts, CloseDone(h)
  PROVE  HarnessInv'
<1>1. /\ test \in Test /\ TopInv /\ ProbeInv /\ rd \in [Hosts -> Reader]
      /\ UNCHANGED <<net, open, sw, job, wire, strays>> /\ test.pc = "close" /\ h \in job.armed
      /\ rd' = [rd EXCEPT ![h].done = TRUE] /\ test' = [test EXCEPT !.pc = "join", !.host = h]
  BY TypeParts DEF HarnessInv, CloseDone
<1>2. /\ rd' \in [Hosts -> Reader]
      /\ \A g \in Hosts : /\ rd'[g].pc = rd[g].pc /\ rd'[g].handle = rd[g].handle
                          /\ rd'[g].ring = rd[g].ring /\ rd'[g].frames = rd[g].frames
  BY <1>1 DEF Reader
<1>3. test' \in Test /\ test'.pc = "join" /\ test'.host = h
  BY <1>1 DEF Test, BodyPCs
<1>4. TypeOK'
  BY <1>1, <1>2, <1>3, TypeParts DEF HarnessInv, TypeOK, Test
<1>5. TopInv'
  BY <1>1, <1>3, BodyKeepsTop DEF BodyPCs
<1>6. PhaseOK'
  BY <1>1, <1>3 DEF ProbeInv, PhaseOK, SetupPCs, TeardownPCs
<1>7. JobOK' /\ FramesOK'
  BY <1>1, <1>2 DEF ProbeInv, JobOK, FramesOK, Idle
<1>8. ReadersOK'
  BY <1>1, <1>2 DEF ProbeInv, ReadersOK
<1> QED
  BY <1>4, <1>5, <1>6, <1>7, <1>8 DEF HarnessInv, ProbeInv

\* The reader is gone, the handle is closed, and a counter's result is taken.
LEMMA CloseJoinInv ==
  ASSUME HarnessInv, NEW h \in Hosts, CloseJoin(h)
  PROVE  HarnessInv'
<1> USE HostFacts
<1>1. /\ TypeOK /\ test \in Test /\ TopInv /\ ProbeInv /\ rd \in [Hosts -> Reader] /\ job \in Job
      /\ open \in [Spaces -> Nat]
      /\ UNCHANGED <<net, sw, wire, strays>> /\ test.pc = "join" /\ test.host = h
      /\ rd[h].pc = "exited" /\ test' = [test EXCEPT !.pc = "close"]
  BY TypeParts DEF HarnessInv, TypeOK, CloseJoin, Closing
<1>2. h \in job.armed /\ rd[h].handle = "open" /\ job.todo = {}
  BY <1>1 DEF ProbeInv, PhaseOK, ReadersOK
<1> DEFINE e == <<>>
           r == [rd[h] EXCEPT !.handle = "closed", !.ring = e, !.frames = e]
           x == Len(rd[h].frames) - job.cStart
           o == open[h] - 1
<1>3. e \in Seq(Frame) /\ ToSet(e) = {}
  BY DEF ToSet
<1>4. rd' = [rd EXCEPT ![h] = r]
  BY <1>1 DEF CloseJoin, Closing
<1>5. open' = [open EXCEPT ![h] = o] /\ job' = [job EXCEPT !.armed = job.armed \ {h}, !.rx = x]
  BY DEF CloseJoin, Closing
<1>6. x \in Int /\ o \in Nat /\ o = IF job.src = h THEN 1 ELSE 0
  <2>1. open[h] = 1 + (IF job.src = h THEN 1 ELSE 0)
    BY <1>1, <1>2 DEF ProbeInv, ReadersOK
  <2>2. Len(rd[h].frames) \in Nat /\ job.cStart \in Nat
    BY <1>1, LengthFacts
  <2> QED
    BY <2>1, <2>2
<1> HIDE DEF e, x, o
<1>7. /\ r \in Reader /\ r.pc = "exited" /\ r.handle = "closed" /\ r.ring = e /\ r.frames = e
  <2>1. rd[h] \in Reader /\ e \in Seq(Frame)
    BY <1>1, <1>3
  <2>2. r \in Reader
    BY <2>1 DEF Reader
  <2>3. r.pc = rd[h].pc /\ r.handle = "closed" /\ r.ring = e /\ r.frames = e
    BY <2>1 DEF Reader
  <2> QED
    BY <1>1, <2>2, <2>3
<1> HIDE DEF r
<1>8. rd' \in [Hosts -> Reader] /\ rd'[h] = r /\ \A g \in Hosts \ {h} : rd'[g] = rd[g]
  BY <1>1, <1>4, <1>7
<1>9. /\ open' \in [Spaces -> Nat] /\ open'[SwNS] = open[SwNS] /\ open'[h] = o
      /\ \A g \in Hosts \ {h} : open'[g] = open[g]
  BY <1>1, <1>5, <1>6
<1>10. /\ job' \in Job /\ job'.kind = job.kind /\ job'.src = job.src /\ job'.todo = job.todo
       /\ job'.armed = job.armed \ {h}
  BY <1>1, <1>5, <1>6 DEF Job
<1>11. test' \in Test /\ test'.pc = "close"
  BY <1>1 DEF Test, BodyPCs
<1>12. TypeOK'
  BY <1>1, <1>8, <1>9, <1>10, <1>11, TypeParts DEF HarnessInv, TypeOK, Test
<1>13. TopInv'
  BY <1>1, <1>9, <1>11, BodyKeepsTop DEF BodyPCs
<1>14. PhaseOK'
  BY <1>2, <1>10, <1>11 DEF PhaseOK, SetupPCs, TeardownPCs
<1>15. JobOK'
  BY <1>1, <1>2, <1>10 DEF ProbeInv, JobOK, Idle
<1>16. ReadersOK'
  <2>1. ASSUME NEW g \in Hosts
        PROVE  /\ rd'[g].pc = "opened" => g \in job'.todo
               /\ rd'[g].pc \in {"opened"} \cup Busy => rd'[g].handle = "open"
               /\ g \in job'.armed =>
                    rd'[g].handle = "open" /\ rd'[g].pc \in Busy \cup {"exited"}
               /\ rd'[g].handle = "open" => g \in job'.armed \/ rd'[g].pc = "opened"
               /\ open'[g] = (IF rd'[g].handle = "open" THEN 1 ELSE 0)
                               + (IF job'.src = g THEN 1 ELSE 0)
    <3>1. CASE g = h
      <4>1. open'[h] = 0 + (IF job'.src = h THEN 1 ELSE 0)
        BY <1>6, <1>9, <1>10
      <4> QED
        BY <1>7, <1>8, <1>10, <3>1, <4>1 DEF Busy
    <3>2. CASE g # h
      BY <1>1, <1>8, <1>9, <1>10, <3>2 DEF ProbeInv, ReadersOK
    <3> QED
      BY <3>1, <3>2
  <2> QED
    BY <2>1 DEF ReadersOK
<1>17. FramesOK'
  BY <1>1, <1>3, <1>7, <1>8 DEF ProbeInv, FramesOK
<1> QED
  BY <1>12, <1>13, <1>14, <1>15, <1>16, <1>17 DEF HarnessInv, ProbeInv

LEMMA JobDoneInv ==
  ASSUME HarnessInv, JobDone
  PROVE  HarnessInv'
<1> USE HostFacts
<1>1. /\ test \in Test /\ TopInv /\ ProbeInv /\ job \in Job /\ open \in [Spaces -> Nat]
      /\ UNCHANGED <<net, sw, rd, wire, strays>> /\ test.pc = "close" /\ job.armed = {}
      /\ job' = IdleJob(job.n)
      /\ test' = [test EXCEPT !.pc = IF test.failed = "no" THEN "body" ELSE "stop"]
  BY TypeParts DEF HarnessInv, JobDone
<1>2. \A h \in Hosts : /\ rd[h].handle # "open" /\ rd[h].pc \notin {"opened"} \cup Busy
                       /\ open[h] = 0 + (IF job.src = h THEN 1 ELSE 0)
  <2>1. job.todo = {}
    BY <1>1 DEF ProbeInv, PhaseOK
  <2>2. \A h \in Hosts : rd[h].handle # "open"
    BY <1>1, <2>1 DEF ProbeInv, ReadersOK
  <2> QED
    BY <1>1, <2>2 DEF ProbeInv, ReadersOK
<1>3. open' \in [Spaces -> Nat] /\ open'[SwNS] = open[SwNS] /\ \A h \in Hosts : open'[h] = 0
  <2>1. CASE job.src = 0
    BY <1>1, <1>2, <2>1 DEF JobDone
  <2>2. CASE job.src # 0
    <3>1. job.src \in Hosts /\ open' = [open EXCEPT ![job.src] = open[job.src] - 1]
      BY <1>1, <2>2 DEF JobDone, Job
    <3>2. open[job.src] = 0 + 1
      BY <1>2, <3>1
    <3>3. open[job.src] - 1 = 0
      BY <3>2
    <3>4. open' = [open EXCEPT ![job.src] = 0]
      BY <3>1, <3>3
    <3> QED
      BY <1>1, <1>2, <3>1, <3>4
  <2> QED
    BY <2>1, <2>2
<1>4. job' \in Job /\ Idle'
  <2>1. job.n \in 0 .. MaxJobs /\ 0 \in 0 .. MaxSends /\ 0 \in Nat /\ 0 \in Int
    BY <1>1, BoundFacts DEF Job
  <2> QED
    BY <1>1, <2>1 DEF IdleJob, Job, JobKinds, Idle
<1>5. test' \in Test /\ test'.pc \in {"body", "stop"}
  BY <1>1 DEF Test, BodyPCs, TeardownPCs
<1>6. TypeOK'
  BY <1>1, <1>3, <1>4, <1>5, TypeParts DEF HarnessInv, TypeOK, Test
<1>7. TopInv'
  BY <1>1, <1>3, <1>5, BodyKeepsTop DEF BodyPCs
<1>8. PhaseOK' /\ JobOK'
  BY <1>4, <1>5 DEF PhaseOK, JobOK, Idle
<1>9. ReadersOK'
  <2>1. \A h \in Hosts : open'[h] = 0 + (IF job'.src = h THEN 1 ELSE 0)
    BY <1>3, <1>4 DEF Idle
  <2> QED
    BY <1>1, <1>2, <1>4, <2>1 DEF ReadersOK, Idle
<1>10. FramesOK'
  BY <1>1 DEF ProbeInv, FramesOK
<1> QED
  BY <1>6, <1>7, <1>8, <1>9, <1>10 DEF HarnessInv, ProbeInv
-----------------------------------------------------------------------------
(* The inductive invariant holds *)

LEMMA HarnessInit == Init => HarnessInv
<1> SUFFICES ASSUME Init PROVE HarnessInv
  OBVIOUS
<1> USE HostFacts, BoundFacts
<1> DEFINE e == <<>>
<1>1. e \in Seq(Frame) /\ ToSet(e) = {}
  BY DEF ToSet
<1>2. rd = [h \in Hosts |-> [pc |-> "none", done |-> FALSE, handle |-> "none", ring |-> e,
                            frames |-> e]]
  BY DEF Init, NoReader
<1> HIDE DEF e
<1>3. /\ rd \in [Hosts -> Reader]
      /\ \A h \in Hosts : /\ rd[h].pc = "none" /\ rd[h].handle = "none"
                          /\ rd[h].ring = e /\ rd[h].frames = e
  BY <1>1, <1>2 DEF Reader
<1>4. job \in Job /\ Idle
  <2>1. 0 \in 0 .. MaxJobs /\ 0 \in 0 .. MaxSends /\ 0 \in Nat /\ 0 \in Int
    OBVIOUS
  <2> QED
    BY <2>1 DEF Init, IdleJob, Job, JobKinds, Idle
<1>5. /\ test \in Test /\ test.pc = "add_sw" /\ net \in Net
      /\ \A h \in Hosts : net.veth[h] = "none"
  BY DEF Init, NewTopology, Test, SetupPCs, Net
<1>6. open \in [Spaces -> Nat] /\ \A n \in Spaces : open[n] = 0
  BY DEF Init, NewTopology
<1>7. sw \in Switch /\ sw.eng = "none"
  BY DEF Init, NewTopology, Switch
<1>8. wire \in [Hosts -> Nat] /\ strays \in 0 .. MaxStrays
  BY DEF Init
<1>9. TypeOK
  BY <1>3, <1>4, <1>5, <1>6, <1>7, <1>8, TypeParts
<1>10. TopInv
  BY <1>5, <1>6, <1>7 DEF TopInv, SwitchOK, NetOK
<1>11. PhaseOK /\ JobOK
  BY <1>4, <1>5 DEF PhaseOK, JobOK, Idle, TeardownPCs
<1>12. ReadersOK
  <2>1. \A h \in Hosts : open[h] = 0 /\ job.src # h
    BY <1>4, <1>6 DEF Idle
  <2>2. \A h \in Hosts : open[h] = 0 + (IF job.src = h THEN 1 ELSE 0)
    BY <2>1
  <2> QED
    BY <1>3, <1>4, <2>2 DEF ReadersOK, Busy, Idle
<1>13. FramesOK
  BY <1>1, <1>3 DEF FramesOK
<1> QED
  BY <1>9, <1>10, <1>11, <1>12, <1>13 DEF HarnessInv, ProbeInv

LEMMA HarnessStutter == HarnessInv /\ UNCHANGED vars => HarnessInv'
<1> SUFFICES ASSUME HarnessInv, UNCHANGED vars PROVE HarnessInv'
  OBVIOUS
<1>1. UNCHANGED <<test, net, open, sw, job, rd, wire, strays>>
  BY DEF vars, topVars, probeVars
<1>2. TypeOK'
  BY <1>1 DEF HarnessInv, TypeOK
<1>3. TopInv'
  BY <1>1 DEF HarnessInv, TopInv, SwitchOK, NetOK, OnlyStuckLeft, Gone
<1>4. ProbeInv'
  BY <1>1 DEF HarnessInv, ProbeInv, PhaseOK, JobOK, ReadersOK, FramesOK, Idle
<1> QED
  BY <1>2, <1>3, <1>4 DEF HarnessInv

\* The test's goroutine alone gives and deletes names.
LEMMA NamesKept ==
  ASSUME TypeOK, NamesOK, [Next]_vars
  PROVE  NamesOK'
<1> USE HostFacts
<1>0. test \in Test /\ test.host \in Hosts /\ test.host \in Nat /\ net \in Net
  BY TypeParts DEF Test
<1>1. ASSUME UNCHANGED net.ns, test' = test PROVE NamesOK'
  BY <1>1 DEF NamesOK
<1>2. ASSUME UNCHANGED net, test.pc \in BodyPCs \cup {"start"},
             test'.pc \in BodyPCs \cup {"stop", "ended"}
      PROVE  NamesOK'
  BY <1>2 DEF NamesOK, BodyPCs
<1>3. CASE AddSwNS
  <2>1. /\ test.host = 1 /\ test'.pc = "add_ns" /\ test'.host = 1 /\ SwNS \in net'.ns
    BY <1>0, <1>3 DEF AddSwNS, NamesOK, Test, Net
  <2>2. \A h \in Hosts : ~(h < 1)
    BY DEF Hosts
  <2> QED
    BY <2>1, <2>2 DEF NamesOK, BodyPCs
<1>4. CASE AddHostNS
  <2>1. /\ test'.pc = "add_veth" /\ test'.host = test.host
        /\ net'.ns = net.ns \cup {test.host}
    BY <1>0, <1>4 DEF AddHostNS, Test, Net
  <2>2. SwNS \in net.ns /\ \A h \in Hosts : h < test.host => h \in net.ns
    BY <1>4 DEF AddHostNS, NamesOK
  <2>3. \A h \in Hosts : h <= test.host => h < test.host \/ h = test.host
    BY <1>0
  <2> QED
    BY <2>1, <2>2, <2>3 DEF NamesOK, BodyPCs
<1>5. CASE VethStep
  <2>1. /\ test.pc \in {"add_veth", "move_sw", "move_host"}
        /\ test'.pc \in {"move_sw", "move_host", "configure"} /\ test'.host = test.host
        /\ net'.ns = net.ns
    BY <1>0, <1>5 DEF VethStep, Test, Net
  <2> QED
    BY <2>1 DEF NamesOK, BodyPCs
<1>6. CASE Configure
  <2>1. net' = net /\ SwNS \in net.ns /\ \A h \in Hosts : h <= test.host => h \in net.ns
    BY <1>6 DEF Configure, NamesOK
  <2>2. CASE test.host < NumHosts
    <3>1. test'.pc = "add_ns" /\ test'.host = test.host + 1
      BY <1>0, <1>6, <2>2 DEF Configure, Test
    <3>2. \A h \in Hosts : h < test.host + 1 => h <= test.host
      BY <1>0
    <3> QED
      BY <2>1, <3>1, <3>2 DEF NamesOK, BodyPCs
  <2>3. CASE ~(test.host < NumHosts)
    <3>1. test'.pc = "start"
      BY <1>0, <1>6, <2>3 DEF Configure, Test
    <3>2. \A h \in Hosts : h <= test.host
      BY <1>0, <2>3
    <3> QED
      BY <2>1, <3>1, <3>2 DEF NamesOK, BodyPCs
  <2> QED
    BY <2>2, <2>3
<1>7. CASE SetupFail \/ GoStartFail \/ BridgeFail
  <2>1. test'.pc = "ended"
    BY <1>0, <1>7 DEF SetupFail, GoStartFail, BridgeFail, Test
  <2> QED
    BY <2>1 DEF NamesOK, BodyPCs
<1>8. CASE GoOpen \/ BridgeAdd \/ BridgePort
  <2>1. net'.ns = net.ns /\ test' = test
    BY <1>0, <1>8 DEF GoOpen, BridgeAdd, BridgePort, Net
  <2> QED
    BY <1>1, <2>1
<1>9. CASE GoStart \/ BridgeStarted
  <2>1. test.pc = "start" /\ test'.pc = "body" /\ net' = net
    BY <1>0, <1>9 DEF GoStart, BridgeStarted, Test
  <2> QED
    BY <1>2, <2>1 DEF BodyPCs
<1>10. CASE StopSwitch
  <2>1. test.pc = "stop" /\ test'.pc = "del_ns" /\ net'.ns = net.ns
    BY <1>0, <1>10 DEF StopSwitch, GoStop, BridgeStop, Test, Net
  <2> QED
    BY <2>1 DEF NamesOK, BodyPCs
<1>11. CASE DelHostNS
  <2>1. /\ SwNS \in net.ns /\ \A h \in Hosts : h >= test.host => h \in net.ns
        /\ SwNS # test.host
    BY <1>0, <1>11 DEF DelHostNS, NamesOK
  <2>2. net'.ns = net.ns \/ net'.ns = net.ns \ {test.host}
    <3> DEFINE v == IF net.veth[test.host] = "placed" /\ open[test.host] = 0
                      THEN "none" ELSE net.veth[test.host]
    <3>1. \/ net' = [net EXCEPT !.ns = net.ns \ {test.host}, !.veth[test.host] = v]
          \/ net' = net
      BY <1>11 DEF DelHostNS
    <3> HIDE DEF v
    <3> QED
      BY <1>0, <3>1 DEF Net
  <2>3. CASE test.host < NumHosts
    <3>1. test'.pc = "del_ns" /\ test'.host = test.host + 1
      BY <1>0, <1>11, <2>3 DEF DelHostNS, Test
    <3>2. \A h \in Hosts : h >= test.host + 1 => h >= test.host /\ h # test.host
      BY <1>0
    <3> QED
      BY <2>1, <2>2, <3>1, <3>2 DEF NamesOK, BodyPCs
  <2>4. CASE ~(test.host < NumHosts)
    <3>1. test'.pc = "del_sw"
      BY <1>0, <1>11, <2>4 DEF DelHostNS, Test
    <3> QED
      BY <2>1, <2>2, <3>1 DEF NamesOK, BodyPCs
  <2> QED
    BY <2>3, <2>4
<1>12. CASE DelSwNS
  <2>1. test'.pc = "ended"
    BY <1>0, <1>12 DEF DelSwNS, Test
  <2> QED
    BY <2>1 DEF NamesOK, BodyPCs
<1>13. CASE JobStep
  <2>1. UNCHANGED net /\ test.pc \in BodyPCs /\ test'.pc \in BodyPCs \cup {"stop"}
    BY <1>0, <1>13 DEF JobStep, Capture, newSender, ArmOpen, ArmFilter, Inject, CloseDone,
       CloseJoin, Closing, InjectFail, SendOne, Snapshot, BlastOne, Finish, JobDone, Return,
       Fatal, BodyPCs, Test, topVars
  <2> QED
    BY <1>2, <2>1
<1>14. ASSUME UNCHANGED topVars PROVE NamesOK'
  BY <1>1, <1>14 DEF topVars
<1>15. ASSUME NEW h \in Hosts,
              LoopStep(h) \/ LoopError(h) \/ Deliver(h) \/ Lose(h) \/ Stray(h)
       PROVE  NamesOK'
  BY <1>14, <1>15 DEF LoopStep, LoopSelect, LoopTimeout, LoopRead, LoopStore, LoopError,
     Deliver, Lose, Stray
<1>16. CASE UNCHANGED vars
  BY <1>14, <1>16 DEF vars
<1> QED
  BY <1>3, <1>4, <1>5, <1>6, <1>7, <1>8, <1>9, <1>10, <1>11, <1>12, <1>13, <1>15, <1>16
     DEF Next, TestStep, SetupStep, TeardownStep

LEMMA HarnessStep == HarnessInv /\ NamesOK /\ [Next]_vars => HarnessInv'
<1> SUFFICES ASSUME HarnessInv, NamesOK, Next PROVE HarnessInv'
  BY HarnessStutter
<1>1. CASE JobStep
  BY <1>1, BeginInv, ArmOpenInv, ArmFilterInv, SendInv, CloseDoneInv, CloseJoinInv, MoveOnInv,
     SnapshotInv, BlastInv, JobDoneInv DEF JobStep
<1>2. CASE (SetupStep \/ TeardownStep) /\ UNCHANGED probeVars
  BY <1>2, SetupStepInv, TeardownStepInv
<1>3. CASE \E h \in Hosts : LoopStep(h) \/ LoopError(h) \/ Deliver(h) \/ Lose(h) \/ Stray(h)
  BY <1>3, LoopPcInv, LoopStoreInv, DeliverInv, StrayInv DEF LoopStep
<1> QED
  BY <1>1, <1>2, <1>3 DEF Next, TestStep

LEMMA HarnessInvariant == Spec => []HarnessInv
<1>1. Init => HarnessInv /\ NamesOK
  <2>1. Init => NamesOK
    BY DEF Init, NewTopology, NamesOK, BodyPCs
  <2> QED
    BY <2>1, HarnessInit
<1>2. HarnessInv /\ NamesOK /\ [Next]_vars => (HarnessInv /\ NamesOK)'
  BY HarnessStep, NamesKept DEF HarnessInv
<1> QED
  BY <1>1, <1>2, PTL DEF Spec
-----------------------------------------------------------------------------
(* What follows from it *)

(***************************************************************************)
(* The variables of a test have their types at any number of hosts, jobs    *)
(* and frames; in particular no handle is closed more often than opened.    *)
(***************************************************************************)
THEOREM HarnessTypeCorrect == Spec => []TypeOK
<1>1. HarnessInv => TypeOK
  BY DEF HarnessInv
<1> QED
  BY <1>1, HarnessInvariant, PTL

(***************************************************************************)
(* Teardown after a Setup that went through removes every namespace, veth   *)
(* pair and bridge but what "ip netns del" could not; the switch is stopped *)
(* with its handles closed first;                                           *)
(* and unless the test died where nothing was deferred (probe.go's          *)
(* Captures.Close, perf.go's stop), no handle and no goroutine is left.     *)
(***************************************************************************)
THEOREM TornDownAlways == Spec => []TornDown
<1>1. HarnessInv => TornDown
  <2> SUFFICES ASSUME HarnessInv PROVE TornDown
    OBVIOUS
  <2>1. test.pc \in {"del_ns", "del_sw", "ended"} => open[SwNS] = 0 /\ sw.eng # "running"
    BY DEF HarnessInv, TopInv, SwitchOK
  <2>2. test.pc = "ended" /\ test.failed # "setup" => OnlyStuckLeft
    BY DEF HarnessInv, TopInv, NetOK
  <2>3. ASSUME test.pc \in TeardownPCs, test.failed # "leak", NEW h \in Hosts
        PROVE  open[h] = 0 /\ rd[h].pc \in {"none", "exited"}
    <3>1. Idle /\ ReadersOK /\ job.src # h
      BY <2>3, HostFacts DEF HarnessInv, ProbeInv, PhaseOK, Idle
    <3>2. rd[h].handle # "open" /\ rd[h].pc \notin {"opened"} \cup Busy
      BY <3>1 DEF Idle, ReadersOK
    <3>3. open[h] = 0 + 0
      BY <3>1, <3>2 DEF ReadersOK
    <3>4. rd[h].pc \in {"none", "opened", "select", "read", "got", "exited"}
      BY DEF HarnessInv, TypeOK, Reader
    <3> QED
      BY <3>2, <3>3, <3>4 DEF Busy
  <2> QED
    BY <2>1, <2>2, <2>3 DEF TornDown
<1> QED
  BY <1>1, HarnessInvariant, PTL

(***************************************************************************)
(* No reader goroutine is inside ZeroCopyReadPacketData on a closed handle: *)
(* Close waits for <-finished before tp.Close.                              *)
(***************************************************************************)
THEOREM NoReadAfterCloseAlways == Spec => []NoReadAfterClose
<1>1. HarnessInv => NoReadAfterClose
  BY DEF HarnessInv, ProbeInv, ReadersOK, NoReadAfterClose, Busy
<1> QED
  BY <1>1, HarnessInvariant, PTL

(***************************************************************************)
(* What a capture reports for a host holds no outgoing copy of the host's   *)
(* own frames: none passes a filter, and none is sent between the open of a *)
(* capture and its SetBPF.                                                  *)
(***************************************************************************)
THEOREM NoEchoAlways == Spec => []NoEcho
<1>1. HarnessInv => NoEcho
  BY DEF HarnessInv, ProbeInv, FramesOK, NoEcho, Received
<1> QED
  BY <1>1, HarnessInvariant, PTL
=============================================================================
