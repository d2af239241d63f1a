------------------------------ MODULE MCEngine ------------------------------
(***************************************************************************)
(* Small instances of the engine.                                           *)
(***************************************************************************)
EXTENDS Engine, TLC

CONSTANTS a, b, bc    \* two stations and the broadcast address

Plain == [accessVID |-> 0, trunk |-> {}]
Access(v) == [accessVID |-> v, trunk |-> {}]
Trunk(vs) == [accessVID |-> 0, trunk |-> vs]

Eth(src, dst, tags) == [eth |-> TRUE, src |-> src, dst |-> dst, tags |-> tags]

\* Ports 0 and 1 are access ports of VLANs 1 and 2, port 2 is the trunk of both.
\* The same stations talk in both VLANs; VLAN 3 is not allowed on the trunk.
VlanCfg == (0 :> Access(1)) @@ (1 :> Access(2)) @@ (2 :> Trunk({1, 2}))
VlanFrames == {Eth(a, b, <<>>), Eth(a, b, <<1>>), Eth(b, a, <<1>>), Eth(b, bc, <<2>>),
               Eth(b, a, <<3>>)}

PlainCfg == [p \in 0 .. (NumPorts - 1) |-> Plain]
PlainFrames == {Eth(a, b, <<>>), Eth(b, a, <<>>),
                [eth |-> FALSE, src |-> a, dst |-> b, tags |-> <<>>]}

\* A negative ageing duration: no lookup expires, and every reap empties the table.
Flush == {-1}

\* An unknown destination: floods from several sides, for the same egress ports.
StopFrames == {Eth(a, b, <<>>)}

(***************************************************************************)
(* Up to a renaming of ports and stations: three plain ports are all alike, *)
(* and so are the stations, so the first frame may be taken to arrive at    *)
(* port 0, from a to b, and a second one there or at port 1.                *)
(***************************************************************************)
UpToNames == /\ rx'[2].frame = Nil
             /\ arrived = 0 /\ arrived' = 1 => rx'[0].frame = Eth(a, b, <<>>)

UpToNamesSpec == Init /\ [][Next /\ UpToNames]_vars /\ Fairness

\* A VLAN tag crossing a plain switch.
TaggedFrames == {Eth(a, b, <<1>>)}
=============================================================================
