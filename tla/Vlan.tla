-------------------------------- MODULE Vlan --------------------------------
(***************************************************************************)
(* vlan.go and the VLAN decisions of engine.go: port roles, the VLAN a      *)
(* frame is classified into at ingress, the ports that belong to a VLAN,    *)
(* and the 802.1Q tags a frame leaves a port with.                          *)
(*                                                                         *)
(* A frame's tags are the sequence of its VLAN ids, outermost first.        *)
(***************************************************************************)
EXTENDS SwitchConfig

role(p) == roleOf(Cfg[p].accessVID, Cfg[p].trunk)

\* The decoder keeps one Dot1Q struct and decodes every tag of the frame into
\* it, so what forward reads afterwards is the last, innermost, tag.
hasTag(tags) == tags # <<>>
tagVID(tags) == tags[Len(tags)]

\* Mutant: a trunk accepts every tag.
classifyAnyTag(p, tags) ==
  CASE role(p) = "plain"  -> {0}
    [] role(p) = "access" -> IF hasTag(tags) THEN {} ELSE {Cfg[p].accessVID}
    [] role(p) = "trunk"  -> IF hasTag(tags) THEN {tagVID(tags)} ELSE {}

\* The VLAN of a frame entering at port p, as a set: {} is "drop".
classify(p, tags) ==
  CASE role(p) = "plain"  -> {0}
    [] role(p) = "access" -> IF hasTag(tags) THEN {} ELSE {Cfg[p].accessVID}
    [] role(p) = "trunk"  -> IF hasTag(tags) THEN Cfg[p].trunk \cap {tagVID(tags)}
                                             ELSE {}

\* The index NewEngine builds for flooding.
vidMembers(vid) ==
  {p \in Ports :
     CASE role(p) = "plain"  -> vid = 0
       [] role(p) = "access" -> vid = Cfg[p].accessVID
       [] role(p) = "trunk"  -> vid \in Cfg[p].trunk}

\* The tags emit sends on port out: the frame verbatim when its tagging
\* already suits the port, else rebuilt with buildTagged or buildUntagged.
emitTags(out, tags, vid) ==
  LET outWantsTag == role(out) = "trunk"
  IN  CASE outWantsTag = hasTag(tags)        -> tags
        [] outWantsTag /\ ~hasTag(tags)      -> <<vid>>
        [] ~outWantsTag /\ hasTag(tags)      -> <<>>
=============================================================================
