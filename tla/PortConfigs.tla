---------------------------- MODULE PortConfigs -----------------------------
(***************************************************************************)
(* What NewEngine makes of a list of port configurations, and how runSwitch *)
(* reads that list off its command line.                                    *)
(***************************************************************************)
EXTENDS Integers, Sequences

roleOf(accessVID, trunk) ==
  CASE trunk # {}                    -> "trunk"
    [] trunk = {} /\ accessVID # 0   -> "access"
    [] OTHER                         -> "plain"

\* NewEngine's checks: at least one port, no port with both an access VID and
\* a trunk list, and no plain port next to access or trunk ports.
NewEngineAccepts(cfg) ==
  /\ DOMAIN cfg # {}
  /\ \A p \in DOMAIN cfg : cfg[p].accessVID = 0 \/ cfg[p].trunk = {}
  /\ LET plain == {p \in DOMAIN cfg : cfg[p].accessVID = 0 /\ cfg[p].trunk = {}}
     IN  plain \in {{}, DOMAIN cfg}

\* And the ports have names of their own.
NamesAccepted(cfg) ==
  \A p, q \in DOMAIN cfg : cfg[p].name # "" /\ (cfg[p].name = cfg[q].name => p = q)
-----------------------------------------------------------------------------
(* A command line is a sequence of [flag, name, vids]: -i eth0, -access       *)
(* eth0:10, -trunk eth0:10,20.  A value without a colon has no vids.  A       *)
(* "word" is an argument that is no flag, "bad" a flag fs.Parse rejects.      *)

\* Mutant: zero is let through.
parseVIDZero(n) == n \in 0 .. 4094

parseVID(n) == n \in 1 .. 4094

\* Mutant: the list of a trunk is overwritten instead of appended to.
SetLast(a) ==
  LET named == a.name # "" /\ a.vids # <<>> /\ \A n \in DOMAIN a.vids : parseVID(a.vids[n])
  IN  CASE a.flag = "i" ->
             {[name |-> a.name, accessVID |-> 0, trunk |-> {}]}
        [] a.flag = "access" /\ named /\ Len(a.vids) = 1 ->
             {[name |-> a.name, accessVID |-> a.vids[1], trunk |-> {}]}
        [] a.flag = "trunk" /\ named ->
             {[name |-> a.name, accessVID |-> 0, trunk |-> {a.vids[Len(a.vids)]}]}
        [] OTHER -> {}

\* portCollector.Set with splitNameVID and splitNameVIDs: the configuration
\* appended, or {} for an error.
Set(a) ==
  LET named == a.name # "" /\ a.vids # <<>> /\ \A n \in DOMAIN a.vids : parseVID(a.vids[n])
  IN  CASE a.flag = "i" ->
             {[name |-> a.name, accessVID |-> 0, trunk |-> {}]}
        [] a.flag = "access" /\ named /\ Len(a.vids) = 1 ->
             {[name |-> a.name, accessVID |-> a.vids[1], trunk |-> {}]}
        [] a.flag = "trunk" /\ named ->
             {[name |-> a.name, accessVID |-> 0,
               trunk |-> {a.vids[n] : n \in DOMAIN a.vids}]}
        [] OTHER -> {}

\* fs.Parse stops at the first word; what follows it is not looked at.
Flags(args) ==
  LET n == CHOOSE m \in 0 .. Len(args) :
             /\ \A k \in 1 .. m : args[k].flag # "word"
             /\ m < Len(args) => args[m + 1].flag = "word"
  IN  SubSeq(args, 1, n)

\* runSwitch goes on when every flag was accepted and there was one.
ParseOK(args) ==
  Flags(args) # <<>> /\ \A n \in DOMAIN Flags(args) : Set(Flags(args)[n]) # {}

cfgs(args) == [n \in DOMAIN Flags(args) |-> CHOOSE c \in Set(Flags(args)[n]) : TRUE]
=============================================================================
