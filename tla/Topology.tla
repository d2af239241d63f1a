------------------------------ MODULE Topology ------------------------------
(***************************************************************************)
(* topology.go and switch.go: what a behavioural test builds in the kernel  *)
(* - a namespace for the switch, one per host, a veth pair between them -,  *)
(* how the switch under test is plugged in, and how it is all torn down.    *)
(*                                                                         *)
(* Every command of Setup may fail.  t.Fatalf then ends the test: what was  *)
(* registered with t.Cleanup runs, and newTopology registers Teardown only  *)
(* after Setup has returned.  The test's own part is in module Probe.       *)
(***************************************************************************)
EXTENDS Integers, Sequences

CONSTANTS NumHosts,   \* host i sits on port i of the switch
          Switches,   \* the implementations SWITCH may select
          Stuck       \* namespaces whose "ip netns del" may fail


Hosts  == 1 .. NumHosts
SwNS   == 0
Spaces == {SwNS} \cup Hosts

ASSUME TopologyAssumption ==
  /\ NumHosts \in Nat \ {0}
  /\ Switches \subseteq {"bridge", "goswitch"}
  /\ Stuck \subseteq Spaces

VARIABLES
  test,   \* the test's goroutine: where it is, at which host, what was fatal
  net,    \* the kernel: names of namespaces, veth pairs and the bridge
  open,   \* AF_PACKET handles open in each namespace
  sw      \* the switch under test

topVars == <<test, net, open, sw>>

SetupPCs    == {"add_sw", "add_ns", "add_veth", "move_sw", "move_host", "configure", "start"}
TeardownPCs == {"stop", "del_ns", "del_sw", "ended"}

\* A veth pair starts with both ends in the test's own namespace; moving one
\* end and then the other puts it in place.
Net    == [ns : SUBSET Spaces, veth : [Hosts -> {"none", "root", "half", "placed"}],
           bridge : BOOLEAN]
Switch == [kind : Switches, eng : {"none", "running", "stopped"}, ports : 0 .. NumHosts]

\* NewTopology only describes; nothing exists yet.
NewTopology ==
  /\ test = [pc |-> "add_sw", host |-> 1, failed |-> "no"]
  /\ net = [ns |-> {}, veth |-> [h \in Hosts |-> "none"], bridge |-> FALSE]
  /\ open = [n \in Spaces |-> 0]
  /\ \E k \in Switches : sw = [kind |-> k, eng |-> "none", ports |-> 0]
\* The handles once one more is open in namespace n.
openInNetns(n) == [open EXCEPT ![n] = @ + 1]
-----------------------------------------------------------------------------
(* Setup *)

AddSwNS ==
  /\ test.pc = "add_sw"
  /\ net' = [net EXCEPT !.ns = @ \cup {SwNS}]
  /\ test' = [test EXCEPT !.pc = "add_ns"]
  /\ UNCHANGED <<open, sw>>

AddHostNS ==
  /\ test.pc = "add_ns"
  /\ net' = [net EXCEPT !.ns = @ \cup {test.host}]
  /\ test' = [test EXCEPT !.pc = "add_veth"]
  /\ UNCHANGED <<open, sw>>

\* link add, and the two moves.
VethStep ==
  /\ \E s \in {<<"add_veth", "root", "move_sw">>, <<"move_sw", "half", "move_host">>,
               <<"move_host", "placed", "configure">>} :
       /\ test.pc = s[1]
       /\ net' = [net EXCEPT !.veth[test.host] = s[2]]
       /\ test' = [test EXCEPT !.pc = s[3]]
  /\ UNCHANGED <<open, sw>>

\* Name, address, sysctl, up and promisc of both ends; then the next host.
Configure ==
  /\ test.pc = "configure"
  /\ test' = IF test.host < NumHosts
               THEN [test EXCEPT !.pc = "add_ns", !.host = @ + 1]
               ELSE [test EXCEPT !.pc = "start", !.host = 1]
  /\ UNCHANGED <<net, open, sw>>

\* mustIP, mustNS: t.Fatalf, with no Cleanup registered.
SetupFail ==
  /\ test.pc \in SetupPCs \ {"start"}
  /\ test' = [test EXCEPT !.pc = "ended", !.failed = "setup"]
  /\ UNCHANGED <<net, open, sw>>
-----------------------------------------------------------------------------
(* Start of the switch under test: the last step of Setup *)

GoOpen ==
  /\ test.pc = "start" /\ sw.kind = "goswitch"
  /\ sw.ports < NumHosts
  /\ open' = openInNetns(SwNS)
  /\ sw' = [sw EXCEPT !.ports = @ + 1]
  /\ UNCHANGED <<test, net>>

\* An open, a filter or NewEngine fails: cleanup closes every handle; Fatalf.
GoStartFail ==
  /\ test.pc = "start" /\ sw.kind = "goswitch"
  /\ open' = [open EXCEPT ![SwNS] = 0]
  /\ test' = [test EXCEPT !.pc = "ended", !.failed = "setup"]
  /\ UNCHANGED <<net, sw>>

GoStart ==
  /\ test.pc = "start" /\ sw.kind = "goswitch"
  /\ sw.ports = NumHosts
  /\ sw' = [sw EXCEPT !.eng = "running"]
  /\ test' = [test EXCEPT !.pc = "body"]
  /\ UNCHANGED <<net, open>>

BridgeAdd ==
  /\ test.pc = "start" /\ sw.kind = "bridge"
  /\ ~net.bridge
  /\ net' = [net EXCEPT !.bridge = TRUE]
  /\ UNCHANGED <<test, open, sw>>

\* master, up and the port's VLANs.
BridgePort ==
  /\ test.pc = "start" /\ sw.kind = "bridge"
  /\ net.bridge /\ sw.ports < NumHosts
  /\ sw' = [sw EXCEPT !.ports = @ + 1]
  /\ UNCHANGED <<test, net, open>>

BridgeFail ==
  /\ test.pc = "start" /\ sw.kind = "bridge"
  /\ test' = [test EXCEPT !.pc = "ended", !.failed = "setup"]
  /\ UNCHANGED <<net, open, sw>>

BridgeStarted ==
  /\ test.pc = "start" /\ sw.kind = "bridge"
  /\ net.bridge /\ sw.ports = NumHosts
  /\ test' = [test EXCEPT !.pc = "body"]
  /\ UNCHANGED <<net, open, sw>>

SetupStep ==
  \/ AddSwNS \/ AddHostNS \/ VethStep \/ Configure \/ SetupFail
  \/ GoOpen \/ GoStartFail \/ GoStart
  \/ BridgeAdd \/ BridgePort \/ BridgeFail \/ BridgeStarted
-----------------------------------------------------------------------------
(* Teardown, by t.Cleanup *)

\* Mutant: the namespaces are deleted under a running switch.
StopSwitchNot ==
  /\ test.pc = "stop"
  /\ test' = [test EXCEPT !.pc = "del_ns", !.host = 1]
  /\ UNCHANGED <<net, open, sw>>

\* Engine.Stop ends the goroutines and closes the handles.
GoStop ==
  /\ sw.kind = "goswitch"
  /\ sw' = [sw EXCEPT !.eng = "stopped"]
  /\ open' = [open EXCEPT ![SwNS] = 0]
  /\ UNCHANGED net

\* Best effort.
BridgeStop ==
  /\ sw.kind = "bridge"
  /\ net' = [net EXCEPT !.bridge = FALSE] \/ net' = net
  /\ UNCHANGED <<sw, open>>

StopSwitch ==
  /\ test.pc = "stop"
  /\ test' = [test EXCEPT !.pc = "del_ns", !.host = 1]
  /\ GoStop \/ BridgeStop

\* ip netns del removes the name; the namespace and the interfaces inside go
\* with it, and with an end its pair, unless a socket of it is still open.  The
\* error of a del that fails is dropped.
DelHostNS ==
  /\ test.pc = "del_ns"
  /\ \/ net' = [net EXCEPT !.ns = @ \ {test.host},
                           !.veth[test.host] = IF @ = "placed" /\ open[test.host] = 0
                                                 THEN "none" ELSE @]
     \/ test.host \in Stuck /\ UNCHANGED net
  /\ test' = IF test.host < NumHosts THEN [test EXCEPT !.host = @ + 1]
                                     ELSE [test EXCEPT !.pc = "del_sw"]
  /\ UNCHANGED <<open, sw>>

DelSwNS ==
  /\ test.pc = "del_sw"
  /\ \/ net' = [ns |-> net.ns \ {SwNS}, bridge |-> net.bridge /\ open[SwNS] > 0,
                veth |-> [h \in Hosts |->
                            IF net.veth[h] \in {"half", "placed"} /\ open[SwNS] = 0
                              THEN "none" ELSE net.veth[h]]]
     \/ SwNS \in Stuck /\ UNCHANGED net
  /\ test' = [test EXCEPT !.pc = "ended"]
  /\ UNCHANGED <<open, sw>>

TeardownStep == StopSwitch \/ DelHostNS \/ DelSwNS
-----------------------------------------------------------------------------
\* No name is left but those that could not be deleted; the bridge and the pairs
\* only if the switch's is one of them, and of the pairs only those whose other
\* end is in a namespace that was not deleted or that an open handle keeps.
OnlyStuckLeft ==
  /\ net.ns \subseteq Stuck
  /\ SwNS \notin net.ns => ~net.bridge /\ \A h \in Hosts : net.veth[h] = "none"
  /\ \A h \in Hosts : net.veth[h] = "none" \/ h \in net.ns \/ open[h] > 0
=============================================================================
