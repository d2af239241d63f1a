---------------------------- MODULE SwitchConfig ----------------------------
(***************************************************************************)
(* The configuration a running engine was built from: its ports, the VLAN  *)
(* role of each, and the addresses and VLAN ids that occur in frames.      *)
(* NewEngine checks the configuration once and never changes it afterwards, *)
(* so it is a constant of every module of this project.                    *)
(***************************************************************************)
EXTENDS PortConfigs, FiniteSets

CONSTANTS
  NumPorts,   \* number of ports; port.idx runs over 0 .. NumPorts-1
  VIDs,       \* VLAN ids in use; 0 is the internal id of the plain domain
  Unicast,    \* addresses whose group bit is clear (mac[0] & 0x01 == 0)
  Group,      \* multicast addresses and broadcast
  Cfg,        \* Cfg[p] is the PortConfig of port p
  Nil         \* "no value": a nil pointer, a failed map lookup

Ports == 0 .. (NumPorts - 1)
MACs  == Unicast \cup Group

\* A learned address is scoped by its VLAN.
macKey == VIDs \X Unicast

\* The Trunk slice matters here as a set: NewEngine copies it into the map
\* port.allow, which decides both classification and VLAN membership.
PortConfig == [accessVID : VIDs, trunk : SUBSET VIDs]

\* The contract of a PortConfig: a trunk port belongs to the VLANs of its list,
\* any other port to the one VLAN of its AccessVID (0, the plain domain, when
\* that is unset).
Member(p, vid) == IF Cfg[p].trunk # {} THEN vid \in Cfg[p].trunk
                                      ELSE vid = Cfg[p].accessVID

ASSUME ConfigAssumption ==
  /\ NumPorts \in Nat \ {0}
  /\ VIDs \subseteq Nat
  /\ 0 \in VIDs
  /\ Unicast \cap Group = {}
  /\ Cfg \in [Ports -> PortConfig]
  /\ NewEngineAccepts(Cfg)
  /\ Nil \notin Int \cup macKey
=============================================================================
