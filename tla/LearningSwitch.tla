--------------------------- MODULE LearningSwitch ---------------------------
(***************************************************************************)
(* What a VLAN-aware learning switch promises, without goroutines, locks or *)
(* a table: a frame accepted into a VLAN at one port is sent at most once   *)
(* to each other port of that VLAN, tagged as that port's configuration     *)
(* says.  Either all of them are tried, or only one, and then one where the *)
(* destination has been heard in that VLAN.                                 *)
(***************************************************************************)
EXTENDS SwitchConfig

CONSTANT Frames

VARIABLES flight,   \* the frame each port is forwarding
          heardOn   \* the ports each source address was received on

lsVars == <<flight, heardOn>>

Idle == [frame |-> Nil, vid |-> 0, stage |-> "idle", todo |-> {}, sent |-> {}]

LSInit ==
  /\ flight = [p \in Ports |-> Idle]
  /\ heardOn = [k \in macKey |-> {}]

\* A trunk port takes frames tagged with a VLAN of its list, an access port
\* untagged frames, and a plain port any frame.
VlanOf(p, f) ==
  IF Cfg[p].trunk # {} THEN {v \in Cfg[p].trunk : f.tags = <<v>>}
  ELSE IF Cfg[p].accessVID # 0 /\ f.tags # <<>> THEN {}
  ELSE {Cfg[p].accessVID}

\* Trunk ports tag, access ports do not, plain ports are transparent.
EgressTags(q, f, vid) ==
  IF Cfg[q].trunk # {} THEN <<vid>>
  ELSE IF Cfg[q].accessVID # 0 THEN <<>>
  ELSE f.tags

Others(p, vid) == {q \in Ports \ {p} : Member(q, vid)}

Admit(p, f, vid) ==
  /\ flight[p] = Idle
  /\ f.eth
  /\ vid \in VlanOf(p, f)
  /\ flight' = [flight EXCEPT ![p] = [Idle EXCEPT !.frame = f, !.vid = vid,
                                                  !.stage = "admitted"]]
  /\ heardOn' = IF f.src \in Unicast
                  THEN [heardOn EXCEPT ![<<vid, f.src>>] = @ \cup {p}]
                  ELSE heardOn

Resolve(p) ==
  /\ flight[p].stage = "admitted"
  /\ LET f == flight[p].frame
         vid == flight[p].vid
         known == IF f.dst \in Unicast THEN heardOn[<<vid, f.dst>>] ELSE {}
     IN  \E to \in {Others(p, vid)} \cup {{q} \ {p} : q \in known} :
           flight' = [flight EXCEPT ![p].stage = "routed", ![p].todo = to]
  /\ UNCHANGED heardOn

Send(p, q) ==
  /\ q \in flight[p].todo
  /\ LET copy == [port |-> q,
                  tags |-> EgressTags(q, flight[p].frame, flight[p].vid)]
     IN  flight' = [flight EXCEPT ![p].todo = @ \ {q}, ![p].sent = @ \cup {copy}]
  /\ UNCHANGED heardOn

Lose(p, q) ==
  /\ q \in flight[p].todo
  /\ flight' = [flight EXCEPT ![p].todo = @ \ {q}]
  /\ UNCHANGED heardOn

Finish(p) ==
  /\ flight[p].stage = "routed"
  /\ flight[p].todo = {}
  /\ flight' = [flight EXCEPT ![p] = Idle]
  /\ UNCHANGED heardOn

LSNext ==
  \E p \in Ports : \/ \E f \in Frames, vid \in VIDs : Admit(p, f, vid)
                   \/ Resolve(p)
                   \/ \E q \in Ports : Send(p, q) \/ Lose(p, q)
                   \/ Finish(p)

LSSpec == LSInit /\ [][LSNext]_lsVars
=============================================================================
