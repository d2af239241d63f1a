---------------------------- MODULE ProcessProofs ---------------------------
(***************************************************************************)
(* What holds of any number of vibe-switch processes started on one control *)
(* socket path, with any command lines and any number of clients.           *)
(***************************************************************************)
EXTENDS Ctl, TLAPS, SequenceTheorems, WellFoundedInduction

(* The command line. *)

\* A set of naturals has a least element.
LEMMA Least ==
  ASSUME NEW T, T \subseteq Nat, T # {}
  PROVE  \E m \in T : \A n \in T : m <= n
<1> DEFINE R == OpToRel(<, Nat)
<1>1. IsWellFoundedOn(R, Nat)
  BY NatLessThanWellFounded
<1>2. \A m, n \in Nat : n < m => <<n, m>> \in R
  BY DEF OpToRel
<1> HIDE DEF R
<1>3. \E x \in T : \A y \in T : <<y, x>> \notin R
  BY <1>1, WFMin
<1>4. PICK x \in T : \A y \in T : <<y, x>> \notin R
  BY <1>3
<1>5. \A y \in T : ~(y < x)
  BY <1>2, <1>4
<1> QED
  BY <1>5

Argument == [flag : STRING, name : STRING, vids : Seq(Int)]

\* The flags fs.Parse looks at are a list of arguments: the command line up to
\* its first word.
LEMMA FlagsType ==
  ASSUME NEW args \in Seq(Argument)
  PROVE  Flags(args) \in Seq(Argument)
<1> DEFINE Stop(m) == m < Len(args) => args[m + 1].flag = "word"
           T == {m \in 0 .. Len(args) : Stop(m)}
           First(m) == (\A k \in 1 .. m : args[k].flag # "word") /\ Stop(m)
<1>1. T \subseteq Nat /\ Len(args) \in T
  OBVIOUS
<1>2. PICK m \in T : \A n \in T : m <= n
  BY <1>1, Least
<1>3. First(m) /\ m \in 0 .. Len(args)
  <2>1. ASSUME NEW k \in 1 .. m, args[k].flag = "word" PROVE FALSE
    <3>1. k - 1 \in T
      BY <2>1
    <3> QED
      BY <1>2, <3>1
  <2> QED
    BY <2>1
<1> DEFINE n == CHOOSE m1 \in 0 .. Len(args) : First(m1)
<1>4. n \in 0 .. Len(args)
  BY <1>3
<1>5. Flags(args) = SubSeq(args, 1, n)
  BY DEF Flags
<1> HIDE DEF n
<1> QED
  BY <1>4, <1>5

\* A port per flag, and at least one.
LEMMA CfgsLength ==
  ASSUME NEW args \in Seq(Argument), ParseOK(args)
  PROVE  /\ Len(Flags(args)) \in Nat \ {0} /\ DOMAIN Flags(args) = 1 .. Len(Flags(args))
         /\ Len(cfgs(args)) = Len(Flags(args))
         /\ DOMAIN cfgs(args) = DOMAIN Flags(args)
<1> DEFINE f == Flags(args)
<1>1. f \in Seq(Argument) /\ f # <<>>
  BY FlagsType DEF ParseOK
<1>2. cfgs(args) = [n \in DOMAIN f |-> CHOOSE c \in Set(f[n]) : TRUE]
  BY DEF cfgs
<1> HIDE DEF f
<1>3. Len(f) \in Nat \ {0} /\ DOMAIN f = 1 .. Len(f)
  BY <1>1
<1>4. DOMAIN cfgs(args) = 1 .. Len(f)
  BY <1>2, <1>3
<1>5. cfgs(args) \in Seq({cfgs(args)[n] : n \in 1 .. Len(f)})
  BY <1>2, <1>3
<1>6. Len(cfgs(args)) = Len(f)
  BY <1>3, <1>4, <1>5
<1> QED
  BY <1>3, <1>4, <1>6 DEF f

LEMMA VIDFacts == 0 \notin VIDs /\ \A n : parseVID(n) => n \in VIDs
  BY DEF VIDs, parseVID

\* A list of VIDs that were all accepted.
LEMMA VidsAccepted ==
  ASSUME NEW vids \in Seq(Int), vids # <<>>, \A n \in DOMAIN vids : parseVID(vids[n])
  PROVE  /\ {vids[n] : n \in DOMAIN vids} \subseteq VIDs
         /\ {vids[n] : n \in DOMAIN vids} # {}
         /\ vids[1] \in VIDs
<1>1. 1 \in DOMAIN vids
  OBVIOUS
<1>2. \A n \in DOMAIN vids : vids[n] \in VIDs
  BY VIDFacts
<1> QED
  BY <1>1, <1>2

\* The roles, by cases.
LEMMA Roles ==
  ASSUME NEW v, NEW t
  PROVE  /\ t # {} => roleOf(v, t) = "trunk"
         /\ t = {} /\ v # 0 => roleOf(v, t) = "access"
         /\ t = {} /\ v = 0 => roleOf(v, t) = "plain"
<1>1. t # {} => roleOf(v, t) = "trunk"
  BY Zenon DEF roleOf
<1>2. t = {} /\ v # 0 => roleOf(v, t) = "access"
  BY Zenon DEF roleOf
<1>3. t = {} /\ v = 0 => roleOf(v, t) = "plain"
  BY Zenon DEF roleOf
<1> QED
  BY <1>1, <1>2, <1>3

\* A port has the name of its flag, and the role and VLANs the flag stands for.
LEMMA SetFaithful ==
  ASSUME NEW a \in Argument, NEW c \in Set(a)
  PROVE  /\ c.name = a.name
         /\ roleOf(c.accessVID, c.trunk) = IF a.flag = "i" THEN "plain" ELSE a.flag
         /\ VlansOf(c) = Asked(a)
         /\ Asked(a) \subseteq VIDs
<1> DEFINE named == a.name # "" /\ a.vids # <<>> /\ \A n \in DOMAIN a.vids : parseVID(a.vids[n])
           trunk == {a.vids[n] : n \in DOMAIN a.vids}
<1>1. a.vids \in Seq(Int)
  BY DEF Argument
<1>2. named => trunk \subseteq VIDs /\ trunk # {} /\ a.vids[1] \in VIDs
  <2> DEFINE vids == a.vids
  <2>1. vids \in Seq(Int)
    BY <1>1
  <2> HIDE DEF vids
  <2>2. ASSUME vids # <<>>, \A n \in DOMAIN vids : parseVID(vids[n])
        PROVE  /\ {vids[n] : n \in DOMAIN vids} \subseteq VIDs
               /\ {vids[n] : n \in DOMAIN vids} # {}
               /\ vids[1] \in VIDs
    BY <2>1, <2>2, VidsAccepted, Zenon
  <2> QED
    BY <2>2, Zenon DEF vids
<1>3. CASE a.flag = "i"
  <2>1. Set(a) = {[name |-> a.name, accessVID |-> 0, trunk |-> {}]}
    BY <1>3, Zenon DEF Set
  <2>2. c.name = a.name /\ c.accessVID = 0 /\ c.trunk = {}
    BY <2>1
  <2>3. VlansOf(c) = {} /\ Asked(a) = {}
    BY <1>3, <2>2 DEF VlansOf, Asked
  <2> QED
    BY <1>3, <2>2, <2>3, Roles
<1>4. CASE a.flag = "access" /\ named /\ Len(a.vids) = 1
  <2>1. Set(a) = {[name |-> a.name, accessVID |-> a.vids[1], trunk |-> {}]}
    BY <1>4, Zenon DEF Set
  <2>2. c.name = a.name /\ c.accessVID = a.vids[1] /\ c.trunk = {}
    BY <2>1
  <2>3. a.vids[1] \in VIDs /\ a.vids[1] # 0
    BY <1>2, <1>4, VIDFacts, Zenon
  <2>4. roleOf(c.accessVID, c.trunk) = "access"
    BY <2>2, <2>3, Roles
  <2>5. Asked(a) = trunk /\ trunk = {a.vids[1]}
    <3>1. DOMAIN a.vids = {1}
      <4> DEFINE vids == a.vids
      <4>1. vids \in Seq(Int) /\ Len(vids) = 1
        BY <1>1, <1>4
      <4> HIDE DEF vids
      <4>2. DOMAIN vids = 1 .. 1
        BY <4>1
      <4> QED
        BY <4>2 DEF vids
    <3> QED
      BY <1>4, <3>1 DEF Asked
  <2>6. VlansOf(c) = {a.vids[1]}
    BY <2>2, <2>3 DEF VlansOf
  <2> HIDE DEF named
  <2> QED
    BY <1>4, <2>2, <2>3, <2>4, <2>5, <2>6
<1>5. CASE a.flag = "trunk" /\ named
  <2>1. Set(a) = {[name |-> a.name, accessVID |-> 0, trunk |-> trunk]}
    BY <1>5, Zenon DEF Set
  <2>2. trunk \subseteq VIDs /\ trunk # {} /\ Asked(a) = trunk
    BY <1>2, <1>5, Zenon DEF Asked
  <2> HIDE DEF named, trunk
  <2>3. c.name = a.name /\ c.accessVID = 0 /\ c.trunk = trunk
    BY <2>1
  <2>4. VlansOf(c) = trunk
    BY <2>3 DEF VlansOf
  <2> QED
    BY <1>5, <2>2, <2>3, <2>4, Roles
<1>6. CASE ~(a.flag = "i") /\ ~(a.flag = "access" /\ named /\ Len(a.vids) = 1)
           /\ ~(a.flag = "trunk" /\ named)
  <2>1. Set(a) = {}
    BY <1>6, Zenon DEF Set
  <2> QED
    BY <2>1
<1> HIDE DEF named
<1> QED
  BY <1>3, <1>4, <1>5, <1>6, Zenon

\* The ports of an accepted command line are the ports that were asked for.
LEMMA PortsAsAsked ==
  ASSUME NEW args \in Seq(Argument), ParseOK(args),
         NewEngineAccepts(cfgs(args)), NamesAccepted(cfgs(args)),
         NEW n \in DOMAIN Flags(args)
  PROVE  LET flags == Flags(args)
             ports == cfgs(args)
             role(m) == roleOf(ports[m].accessVID, ports[m].trunk)
         IN  /\ ports[n].name = flags[n].name
             /\ role(n) = IF flags[n].flag = "i" THEN "plain" ELSE flags[n].flag
             /\ role(n) = "plain" <=> role(1) = "plain"
             /\ VlansOf(ports[n]) = Asked(flags[n])
             /\ Asked(flags[n]) \subseteq VIDs
             /\ \A m \in DOMAIN flags : flags[m].name = flags[n].name => m = n
<1> DEFINE f == Flags(args)
           ports == cfgs(args)
<1>1. DOMAIN ports = DOMAIN f /\ DOMAIN f = 1 .. Len(f) /\ Len(f) \in Nat \ {0} /\ f \in Seq(Argument)
  BY CfgsLength, FlagsType
<1>2. \A m \in DOMAIN f : ports[m] \in Set(f[m])
  BY <1>1 DEF cfgs, ParseOK
<1>3. \A m \in DOMAIN f : /\ ports[m].name = f[m].name
                          /\ roleOf(ports[m].accessVID, ports[m].trunk)
                               = IF f[m].flag = "i" THEN "plain" ELSE f[m].flag
                          /\ VlansOf(ports[m]) = Asked(f[m])
                          /\ Asked(f[m]) \subseteq VIDs
  <2> TAKE m \in DOMAIN f
  <2>1. f[m] \in Argument /\ ports[m] \in Set(f[m])
    BY <1>1, <1>2
  <2> HIDE DEF f, ports
  <2> QED
    BY <2>1, SetFaithful
<1>4. \A m \in DOMAIN f :
        roleOf(ports[m].accessVID, ports[m].trunk) = "plain"
          <=> ports[m].accessVID = 0 /\ ports[m].trunk = {}
  BY DEF roleOf
<1>5. NewEngineAccepts(ports) /\ NamesAccepted(ports)
  OBVIOUS
<1> HIDE DEF f, ports
<1>6. \A m \in DOMAIN f : roleOf(ports[m].accessVID, ports[m].trunk) = "plain"
                            <=> roleOf(ports[1].accessVID, ports[1].trunk) = "plain"
  <2> DEFINE plain == {p \in DOMAIN ports : ports[p].accessVID = 0 /\ ports[p].trunk = {}}
  <2>1. plain = {} \/ plain = DOMAIN ports
    BY <1>5 DEF NewEngineAccepts
  <2> QED
    BY <1>1, <1>4, <2>1
<1>7. \A m, k \in DOMAIN f : f[m].name = f[k].name => m = k
  <2>1. \A m, k \in DOMAIN f : ports[m].name = ports[k].name => m = k
    BY <1>1, <1>5 DEF NamesAccepted
  <2> QED
    BY <1>3, <2>1
<1>8. n \in DOMAIN f
  BY DEF f
<1> QED
  BY <1>3, <1>6, <1>7, <1>8, Zenon DEF f, ports
-----------------------------------------------------------------------------
(* The life of a process. *)

\* From NewEngine to the end of Engine.Stop.
Running == {"remove", "listen", "register", "up",
            "closing", "unlinked", "waiting", "removing", "stopping"}

\* What a live process was asked for.
AskedOK(r) ==
  r.pc \notin {"off"} \cup Ended =>
    r.args \in CommandLines /\ ParseOK(r.args) /\ r.cfgs = cfgs(r.args)

\* Handles are opened one by one, and closed all together, once.
HandlesOK(r) ==
  /\ r.pc = "off" => r.opened = 0
  /\ r.pc = "open" => r.opened < Len(r.cfgs)
  /\ r.pc \in {"build", "stopped"} \cup Running => r.opened = Len(r.cfgs)
  /\ r.pc \in {"off", "open", "build"} \cup Running => r.closed = 0
  /\ r.pc \in {"stopped", "returned"} => r.closed = r.opened

\* The engine runs on a configuration that NewEngine accepted.
RunsOK(r) ==
  /\ r.pc \in {"off", "open", "build"} => r.engine = "none"
  /\ r.pc \in Running => /\ r.engine = "running"
                         /\ NewEngineAccepts(r.cfgs) /\ NamesAccepted(r.cfgs)
  /\ r.pc \in {"stopped", "returned"} => r.engine # "running"

\* The listener and its accept loop.
ListenerOK(r, i) ==
  /\ r.listening <=> r.pc \in {"register", "up", "closing", "unlinked"}
  /\ r.accepting => r.pc \in {"up", "closing", "unlinked", "waiting"}
  /\ r.pc = "up" => r.accepting \/ i \in FlakyAccept

Life(r, i) ==
  r \in Instance /\ AskedOK(r) /\ HandlesOK(r) /\ RunsOK(r) /\ ListenerOK(r, i)

\* The file leads to a process that has bound it and not yet closed its listener.
PathOK ==
  /\ path \in Instances \cup {Nil}
  /\ \A i \in Instances : path = i => inst[i].pc \in {"register", "up", "closing", "killed"}

\* Without overlap a process has the path to itself.
AloneOK ==
  ~Overlap =>
    /\ \A i, j \in Instances : Alive(i) /\ Alive(j) => i = j
    /\ \A i \in Instances : /\ inst[i].pc = "listen" => path = Nil \/ i \in Restricted
                            /\ inst[i].pc \in {"register", "up", "closing"} => path = i

LifeOK == inst \in [Instances -> Instance] /\ \A i \in Instances : Life(inst[i], i)

ProcessInv == LifeOK /\ PathOK /\ AloneOK

\* A process, and nothing else, moves on.
Moves(i) ==
  /\ Life(inst'[i], i)
  /\ inst' \in [Instances -> Instance]
  /\ \A j \in Instances \ {i} : inst'[j] = inst[j]

LEMMA MovesLife ==
  ASSUME LifeOK, NEW i \in Instances, Moves(i)
  PROVE  LifeOK'
  BY DEF LifeOK, Moves

\* The command lines are lists of arguments; those accepted name at least one port.
LEMMA LaunchFacts ==
  ASSUME NEW args \in CommandLines, ParseOK(args)
  PROVE  cfgs(args) \in PortLists /\ Len(cfgs(args)) \in Nat \ {0}
<1>1. args \in Seq(Argument)
  BY ProcessAssumption DEF Argument
<1> QED
  BY <1>1, CfgsLength DEF PortLists

\* The records of processes that have ended, and of one whose engine has stopped.
LEMMA OverFacts ==
  ASSUME NEW r \in Instance, NEW pc \in Ended
  PROVE  /\ Over(r, pc) \in Instance /\ Over(r, pc).pc = pc
         /\ Over(r, pc).opened = r.opened /\ Over(r, pc).closed = r.closed
         /\ Over(r, pc).engine = r.engine
         /\ Over(r, pc).listening = r.listening /\ Over(r, pc).accepting = r.accepting
<1>1. <<>> \in PortLists
  BY DEF PortLists
<1> QED
  BY <1>1 DEF Over, Instance, Ended

LEMMA EngineStoppedFacts ==
  ASSUME NEW r \in Instance
  PROVE  LET s == EngineStopped(r)
         IN  /\ s \in Instance /\ s.pc = r.pc /\ s.args = r.args /\ s.cfgs = r.cfgs
             /\ s.opened = r.opened /\ s.closed = r.closed + r.opened
             /\ s.engine = "stopped"
             /\ s.listening = r.listening /\ s.accepting = r.accepting
<1> DEFINE s == EngineStopped(r)
<1> DEFINE n == r.closed + r.opened
<1>0. n \in Nat /\ s = [r EXCEPT !.engine = "stopped", !.closed = n]
  BY DEF EngineStopped, Instance
<1>1. s \in Instance
  <2> HIDE DEF n, s
  <2> QED
    BY <1>0 DEF Instance
<1>2. s.pc = r.pc /\ s.args = r.args /\ s.cfgs = r.cfgs /\ s.opened = r.opened
  BY DEF EngineStopped, Instance
<1>3. s.closed = r.closed + r.opened /\ s.engine = "stopped"
  BY DEF EngineStopped, Instance
<1>4. s.listening = r.listening /\ s.accepting = r.accepting
  BY DEF EngineStopped, Instance
<1> QED
  BY <1>1, <1>2, <1>3, <1>4

\* A process that has returned owes nothing.
LEMMA ReturnedLife ==
  ASSUME NEW r \in Instance, NEW i, r.pc = "returned", r.closed = r.opened,
         r.engine # "running", ~r.listening, ~r.accepting
  PROVE  Life(r, i)
  BY DEF Life, AskedOK, HandlesOK, RunsOK, ListenerOK, Running, Ended
-----------------------------------------------------------------------------
(* What each step does to the process that takes it. *)

LEMMA Put ==
  ASSUME LifeOK, NEW i \in Instances, NEW s, Life(s, i), inst' = [inst EXCEPT ![i] = s]
  PROVE  Moves(i) /\ inst'[i] = s
<1>1. s \in Instance /\ inst \in [Instances -> Instance]
  BY DEF Life, LifeOK
<1> QED
  BY <1>1 DEF Moves

LEMMA LaunchMoves ==
  ASSUME LifeOK, NEW i \in Instances, NEW args \in CommandLines, Launch(i, args)
  PROVE  Moves(i) /\ inst'[i].pc = "open"
<1> DEFINE r == inst[i]
           cs == cfgs(args)
           s == [r EXCEPT !.pc = "open", !.args = args, !.cfgs = cs]
<1>1. r \in Instance /\ r.pc = "off" /\ Life(r, i) /\ ParseOK(args) /\ cs = cfgs(args)
  BY DEF LifeOK, Launch, MayLaunch
<1>2. cs \in PortLists /\ Len(cs) \in Nat \ {0}
  BY <1>1, LaunchFacts
<1>3. inst' = [inst EXCEPT ![i] = s]
  BY DEF Launch, LifeOK
<1> HIDE DEF cs, r
<1>4. /\ s.pc = "open" /\ s.args = args /\ s.cfgs = cs /\ s.opened = r.opened
      /\ s.closed = r.closed /\ s.engine = r.engine /\ s.listening = r.listening
      /\ s.accepting = r.accepting
  BY <1>1 DEF Instance
<1>5. s \in Instance
  BY <1>1, <1>2 DEF Instance, Starting
<1> HIDE DEF s
<1>6. AskedOK(s) /\ HandlesOK(s)
  BY <1>1, <1>2, <1>4 DEF Life, AskedOK, HandlesOK, Running
<1>7. RunsOK(s) /\ ListenerOK(s, i)
  BY <1>1, <1>4 DEF Life, RunsOK, ListenerOK, Running
<1>8. Life(s, i)
  BY <1>5, <1>6, <1>7 DEF Life
<1> QED
  BY <1>3, <1>4, <1>8, Put

LEMMA LaunchFailMoves ==
  ASSUME LifeOK, NEW i \in Instances, NEW args, LaunchFail(i, args)
  PROVE  Moves(i) /\ inst'[i].pc = "returned"
<1> DEFINE r == inst[i]
           s == [r EXCEPT !.pc = "returned"]
<1>1. r \in Instance /\ r.pc = "off" /\ Life(r, i)
  BY DEF LifeOK, LaunchFail, MayLaunch
<1>2. inst' = [inst EXCEPT ![i] = s]
  BY DEF LaunchFail, LifeOK
<1> HIDE DEF r
<1>3. /\ s \in Instance /\ s.pc = "returned" /\ s.opened = r.opened
      /\ s.closed = r.closed /\ s.engine = r.engine /\ s.listening = r.listening
      /\ s.accepting = r.accepting
  BY <1>1 DEF Instance, Ended
<1> HIDE DEF s
<1>4. Life(s, i)
  BY <1>1, <1>3, ReturnedLife DEF Life, HandlesOK, RunsOK, ListenerOK
<1> QED
  BY <1>2, <1>3, <1>4, Put

\* A process with a running engine goes on to another step.
LEMMA PcMoves ==
  ASSUME LifeOK, NEW i \in Instances, NEW pc \in Running \ {"up"},
         inst' = [inst EXCEPT ![i].pc = pc], inst[i].pc \in Running,
         inst[i].listening <=> pc \in {"register", "closing", "unlinked"},
         inst[i].accepting => pc \in {"closing", "unlinked", "waiting"}
  PROVE  Moves(i) /\ inst'[i].pc = pc
<1> DEFINE r == inst[i]
           s == [r EXCEPT !.pc = pc]
<1>1. r \in Instance /\ Life(r, i)
  BY DEF LifeOK
<1>2. inst' = [inst EXCEPT ![i] = s]
  BY DEF LifeOK
<1>3. /\ s \in Instance /\ s.pc = pc /\ s.args = r.args /\ s.cfgs = r.cfgs
      /\ s.opened = r.opened /\ s.closed = r.closed /\ s.engine = r.engine
      /\ s.listening = r.listening /\ s.accepting = r.accepting
  BY <1>1 DEF Instance, Running, Starting, Stopping
<1>4. AskedOK(s) /\ HandlesOK(s)
  <2> HIDE DEF s
  <2> QED
    BY <1>1, <1>3 DEF Life, AskedOK, HandlesOK, Running, Ended
<1>5. RunsOK(s) /\ ListenerOK(s, i)
  <2> HIDE DEF s
  <2> QED
    BY <1>1, <1>3 DEF Life, RunsOK, ListenerOK, Running
<1> HIDE DEF s
<1>6. Life(s, i)
  BY <1>3, <1>4, <1>5 DEF Life
<1> QED
  BY <1>2, <1>3, <1>6, Put

LEMMA OpenInterfaceMoves ==
  ASSUME LifeOK, NEW i \in Instances, OpenInterface(i)
  PROVE  Moves(i) /\ inst'[i].pc \in {"open", "build"}
<1> DEFINE r == inst[i]
           n == r.opened + 1
           pc == IF n = Len(r.cfgs) THEN "build" ELSE "open"
           s == [r EXCEPT !.opened = n, !.pc = pc]
<1>1. r \in Instance /\ r.pc = "open" /\ Life(r, i)
  BY DEF LifeOK, OpenInterface
<1>2. inst' = [inst EXCEPT ![i] = s]
  BY DEF LifeOK, OpenInterface
<1>3. r.args \in CommandLines /\ r.cfgs = cfgs(r.args) /\ Len(r.cfgs) \in Nat /\ r.opened \in Nat
  BY <1>1, LaunchFacts DEF Life, AskedOK, Ended, Instance
<1>4. n \in Nat /\ pc \in {"open", "build"} /\ (pc = "open" => n < Len(r.cfgs)) /\ (pc = "build" => n = Len(r.cfgs))
  BY <1>1, <1>3 DEF Life, HandlesOK
<1> HIDE DEF r, n, pc
<1>5. /\ s.pc = pc /\ s.args = r.args /\ s.cfgs = r.cfgs
      /\ s.opened = n /\ s.closed = r.closed /\ s.engine = r.engine
      /\ s.listening = r.listening /\ s.accepting = r.accepting
  BY <1>1 DEF Instance
<1>6. s \in Instance
  BY <1>1, <1>4 DEF Instance, Starting
<1> HIDE DEF s
<1>7. AskedOK(s) /\ HandlesOK(s)
  BY <1>1, <1>4, <1>5 DEF Life, AskedOK, HandlesOK, Running, Ended
<1>8. RunsOK(s) /\ ListenerOK(s, i)
  BY <1>1, <1>4, <1>5 DEF Life, RunsOK, ListenerOK, Running
<1>9. Life(s, i)
  BY <1>6, <1>7, <1>8 DEF Life
<1> QED
  BY <1>2, <1>4, <1>5, <1>9, Put

LEMMA BuildEngineMoves ==
  ASSUME LifeOK, NEW i \in Instances, BuildEngine(i)
  PROVE  Moves(i) /\ inst'[i].pc = "remove"
<1> DEFINE r == inst[i]
           s == [r EXCEPT !.engine = "running", !.pc = "remove"]
<1>1. /\ r \in Instance /\ r.pc = "build" /\ Life(r, i)
      /\ NewEngineAccepts(r.cfgs) /\ NamesAccepted(r.cfgs)
  BY DEF LifeOK, BuildEngine, Acceptable
<1>2. inst' = [inst EXCEPT ![i] = s]
  BY DEF LifeOK, BuildEngine
<1> HIDE DEF r
<1>3. /\ s.pc = "remove" /\ s.args = r.args /\ s.cfgs = r.cfgs
      /\ s.opened = r.opened /\ s.closed = r.closed /\ s.engine = "running"
      /\ s.listening = r.listening /\ s.accepting = r.accepting
  BY <1>1 DEF Instance
<1>4. s \in Instance
  BY <1>1 DEF Instance, Starting
<1> HIDE DEF s
<1>5. AskedOK(s) /\ HandlesOK(s)
  BY <1>1, <1>3 DEF Life, AskedOK, HandlesOK, Running, Ended
<1>6. RunsOK(s) /\ ListenerOK(s, i)
  BY <1>1, <1>3 DEF Life, RunsOK, ListenerOK, Running
<1>7. Life(s, i)
  BY <1>4, <1>5, <1>6 DEF Life
<1> QED
  BY <1>2, <1>3, <1>7, Put

LEMMA ServeListenMoves ==
  ASSUME LifeOK, NEW i \in Instances, ServeListen(i)
  PROVE  Moves(i) /\ inst'[i].pc = "register"
<1> DEFINE r == inst[i]
           s == [r EXCEPT !.listening = TRUE, !.pc = "register"]
<1>1. r \in Instance /\ r.pc = "listen" /\ Life(r, i)
  BY DEF LifeOK, ServeListen
<1>2. inst' = [inst EXCEPT ![i] = s]
  BY DEF LifeOK, ServeListen
<1> HIDE DEF r
<1>3. /\ s.pc = "register" /\ s.args = r.args /\ s.cfgs = r.cfgs
      /\ s.opened = r.opened /\ s.closed = r.closed /\ s.engine = r.engine
      /\ s.listening = TRUE /\ s.accepting = r.accepting
  BY <1>1 DEF Instance
<1>4. s \in Instance
  BY <1>1 DEF Instance, Starting
<1> HIDE DEF s
<1>5. AskedOK(s) /\ HandlesOK(s)
  BY <1>1, <1>3 DEF Life, AskedOK, HandlesOK, Running, Ended
<1>6. RunsOK(s) /\ ListenerOK(s, i)
  BY <1>1, <1>3 DEF Life, RunsOK, ListenerOK, Running
<1>7. Life(s, i)
  BY <1>4, <1>5, <1>6 DEF Life
<1> QED
  BY <1>2, <1>3, <1>7, Put

LEMMA ServeAcceptMoves ==
  ASSUME LifeOK, NEW i \in Instances, ServeAccept(i)
  PROVE  Moves(i) /\ inst'[i].pc = "up"
<1> DEFINE r == inst[i]
           s == [r EXCEPT !.accepting = TRUE, !.pc = "up"]
<1>1. r \in Instance /\ r.pc = "register" /\ Life(r, i)
  BY DEF LifeOK, ServeAccept
<1>2. inst' = [inst EXCEPT ![i] = s]
  BY DEF LifeOK, ServeAccept
<1> HIDE DEF r
<1>3. /\ s.pc = "up" /\ s.args = r.args /\ s.cfgs = r.cfgs
      /\ s.opened = r.opened /\ s.closed = r.closed /\ s.engine = r.engine
      /\ s.listening = r.listening /\ s.accepting = TRUE
  BY <1>1 DEF Instance
<1>4. s \in Instance
  BY <1>1 DEF Instance
<1> HIDE DEF s
<1>5. AskedOK(s) /\ HandlesOK(s)
  BY <1>1, <1>3 DEF Life, AskedOK, HandlesOK, Running, Ended
<1>6. RunsOK(s) /\ ListenerOK(s, i)
  BY <1>1, <1>3 DEF Life, RunsOK, ListenerOK, Running
<1>7. Life(s, i)
  BY <1>4, <1>5, <1>6 DEF Life
<1> QED
  BY <1>2, <1>3, <1>7, Put

LEMMA CloseSocketMoves ==
  ASSUME LifeOK, NEW i \in Instances, CloseSocket(i)
  PROVE  Moves(i) /\ inst'[i].pc = "waiting"
<1> DEFINE r == inst[i]
           s == [r EXCEPT !.listening = FALSE, !.pc = "waiting"]
<1>1. r \in Instance /\ r.pc = "unlinked" /\ Life(r, i)
  BY DEF LifeOK, CloseSocket
<1>2. inst' = [inst EXCEPT ![i] = s]
  BY DEF LifeOK, CloseSocket
<1> HIDE DEF r
<1>3. /\ s.pc = "waiting" /\ s.args = r.args /\ s.cfgs = r.cfgs
      /\ s.opened = r.opened /\ s.closed = r.closed /\ s.engine = r.engine
      /\ s.listening = FALSE /\ s.accepting = r.accepting
  BY <1>1 DEF Instance
<1>4. s \in Instance
  BY <1>1 DEF Instance, Stopping
<1> HIDE DEF s
<1>5. AskedOK(s) /\ HandlesOK(s)
  BY <1>1, <1>3 DEF Life, AskedOK, HandlesOK, Running, Ended
<1>6. RunsOK(s) /\ ListenerOK(s, i)
  BY <1>1, <1>3 DEF Life, RunsOK, ListenerOK, Running
<1>7. Life(s, i)
  BY <1>4, <1>5, <1>6 DEF Life
<1> QED
  BY <1>2, <1>3, <1>7, Put

\* acceptLoop ends, on its own or because the listener was closed.
LEMMA AcceptEndsMoves ==
  ASSUME LifeOK, NEW i \in Instances, AcceptLoopExit(i) \/ AcceptError(i)
  PROVE  Moves(i) /\ inst'[i].pc = inst[i].pc
<1> DEFINE r == inst[i]
           s == [r EXCEPT !.accepting = FALSE]
<1>1. r \in Instance /\ Life(r, i) /\ (r.pc = "up" => i \in FlakyAccept)
  BY DEF LifeOK, Life, ListenerOK, AcceptLoopExit, AcceptError
<1>2. inst' = [inst EXCEPT ![i] = s]
  BY DEF LifeOK, AcceptLoopExit, AcceptError
<1> HIDE DEF r
<1>3. /\ s \in Instance /\ s.pc = r.pc /\ s.args = r.args /\ s.cfgs = r.cfgs
      /\ s.opened = r.opened /\ s.closed = r.closed /\ s.engine = r.engine
      /\ s.listening = r.listening /\ s.accepting = FALSE
  BY <1>1 DEF Instance
<1> HIDE DEF s
<1>4. AskedOK(s) /\ HandlesOK(s)
  BY <1>1, <1>3 DEF Life, AskedOK, HandlesOK
<1>5. RunsOK(s) /\ ListenerOK(s, i)
  BY <1>1, <1>3 DEF Life, RunsOK, ListenerOK
<1>6. Life(s, i)
  BY <1>3, <1>4, <1>5 DEF Life
<1> QED
  BY <1>2, <1>3, <1>6, Put DEF r

\* runSwitch gives up before the engine runs: the handles are closed.
LEMMA EarlyFailMoves ==
  ASSUME LifeOK, NEW i \in Instances, OpenFail(i) \/ BuildFail(i)
  PROVE  Moves(i) /\ inst'[i].pc = "returned"
<1> DEFINE r == inst[i]
           o == Over(r, "returned")
           n == r.closed + r.opened
           s == [o EXCEPT !.closed = n]
<1>1. r \in Instance /\ r.pc \in {"open", "build"} /\ Life(r, i)
  BY DEF LifeOK, OpenFail, BuildFail
<1>2. /\ o \in Instance /\ o.pc = "returned" /\ o.opened = r.opened /\ o.closed = r.closed
      /\ o.engine = r.engine /\ o.listening = r.listening /\ o.accepting = r.accepting
  BY <1>1, OverFacts DEF Ended
<1>3. inst' = [inst EXCEPT ![i] = [o EXCEPT !.closed = @ + r.opened]]
  BY Zenon DEF OpenFail, BuildFail
<1>4. n = r.opened /\ n \in Nat
  BY <1>1 DEF Life, HandlesOK, Instance
<1> HIDE DEF o
<1>5. inst' = [inst EXCEPT ![i] = s]
  BY <1>2, <1>3 DEF Instance
<1> HIDE DEF n, r
<1>6. /\ s \in Instance /\ s.pc = "returned" /\ s.opened = r.opened /\ s.closed = r.opened
      /\ s.engine = r.engine /\ s.listening = r.listening /\ s.accepting = r.accepting
  BY <1>2, <1>4 DEF Instance
<1> HIDE DEF s
<1>7. Life(s, i)
  BY <1>1, <1>6, ReturnedLife DEF Life, RunsOK, ListenerOK
<1> QED
  BY <1>5, <1>6, <1>7, Put

\* Serve fails: the engine that was started is stopped.
LEMMA ServeFailMoves ==
  ASSUME LifeOK, NEW i \in Instances, ServeListenFail(i) \/ ServeRegisterFail(i)
  PROVE  Moves(i) /\ inst'[i].pc = "returned"
<1> DEFINE r == inst[i]
           e == EngineStopped(r)
           o == Over(e, "returned")
           s == [o EXCEPT !.listening = FALSE]
<1>1. r \in Instance /\ r.pc \in {"listen", "register"} /\ Life(r, i)
  BY DEF LifeOK, ServeListenFail, ServeRegisterFail
<1>2. /\ e \in Instance /\ e.opened = r.opened /\ e.closed = r.closed + r.opened
      /\ e.engine = "stopped" /\ e.listening = r.listening /\ e.accepting = r.accepting
  BY <1>1, EngineStoppedFacts
<1>3. r.closed + r.opened = r.opened /\ ~r.accepting /\ (r.pc = "listen" => ~r.listening)
  BY <1>1 DEF Life, HandlesOK, ListenerOK, Instance, Running
<1>4. \/ r.pc = "listen" /\ inst' = [inst EXCEPT ![i] = o]
      \/ inst' = [inst EXCEPT ![i] = s]
  BY DEF LifeOK, ServeListenFail, ServeRegisterFail
<1> HIDE DEF e, r
<1>5. /\ o \in Instance /\ o.pc = "returned" /\ o.opened = r.opened /\ o.closed = r.opened
      /\ o.engine = "stopped" /\ o.listening = r.listening /\ ~o.accepting
  BY <1>2, <1>3, OverFacts DEF Ended
<1> HIDE DEF o
<1>6. /\ s \in Instance /\ s.pc = "returned" /\ s.opened = r.opened /\ s.closed = r.opened
      /\ s.engine = "stopped" /\ ~s.listening /\ ~s.accepting
  BY <1>5 DEF Instance
<1> HIDE DEF s
<1>7. Life(s, i) /\ (r.pc = "listen" => Life(o, i))
  BY <1>3, <1>5, <1>6, ReturnedLife
<1> QED
  BY <1>4, <1>5, <1>6, <1>7, Put

LEMMA StopEngineMoves ==
  ASSUME LifeOK, NEW i \in Instances, StopEngine(i)
  PROVE  Moves(i) /\ inst'[i].pc = "stopped"
<1> DEFINE r == inst[i]
           e == EngineStopped(r)
           s == [e EXCEPT !.pc = "stopped"]
<1>1. r \in Instance /\ r.pc = "stopping" /\ Life(r, i)
  BY DEF LifeOK, StopEngine
<1>2. /\ e \in Instance /\ e.args = r.args /\ e.cfgs = r.cfgs /\ e.opened = r.opened
      /\ e.closed = r.closed + r.opened /\ e.engine = "stopped"
      /\ e.listening = r.listening /\ e.accepting = r.accepting
  BY <1>1, EngineStoppedFacts
<1>3. r.closed + r.opened = r.opened
  BY <1>1 DEF Life, HandlesOK, Instance, Running
<1>4. inst' = [inst EXCEPT ![i] = s]
  BY DEF LifeOK, StopEngine
<1> HIDE DEF e, r
<1>5. /\ s.pc = "stopped" /\ s.args = r.args /\ s.cfgs = r.cfgs
      /\ s.opened = r.opened /\ s.closed = r.opened /\ s.engine = "stopped"
      /\ s.listening = r.listening /\ s.accepting = r.accepting
  BY <1>2, <1>3 DEF Instance
<1>6. s \in Instance
  BY <1>2 DEF Instance, Stopping
<1> HIDE DEF s
<1>7. AskedOK(s) /\ HandlesOK(s)
  BY <1>1, <1>5 DEF Life, AskedOK, HandlesOK, Running, Ended
<1>8. RunsOK(s) /\ ListenerOK(s, i)
  BY <1>1, <1>5 DEF Life, RunsOK, ListenerOK, Running
<1>9. Life(s, i)
  BY <1>6, <1>7, <1>8 DEF Life
<1> QED
  BY <1>4, <1>5, <1>9, Put

LEMMA ExitMoves ==
  ASSUME LifeOK, NEW i \in Instances, Exit(i)
  PROVE  Moves(i) /\ inst'[i].pc = "returned"
<1> DEFINE r == inst[i]
           s == Over(r, "returned")
<1>1. r \in Instance /\ r.pc = "stopped" /\ Life(r, i)
  BY DEF LifeOK, Exit
<1>2. /\ s \in Instance /\ s.pc = "returned" /\ s.opened = r.opened /\ s.closed = r.closed
      /\ s.engine = r.engine /\ s.listening = r.listening /\ s.accepting = r.accepting
  BY <1>1, OverFacts DEF Ended
<1>3. inst' = [inst EXCEPT ![i] = s]
  BY DEF LifeOK, Exit
<1> HIDE DEF s, r
<1>4. Life(s, i)
  BY <1>1, <1>2, ReturnedLife DEF Life, HandlesOK, RunsOK, ListenerOK
<1> QED
  BY <1>2, <1>3, <1>4, Put

LEMMA KillMoves ==
  ASSUME LifeOK, NEW i \in Instances, Kill(i)
  PROVE  Moves(i) /\ inst'[i].pc = "killed"
<1> DEFINE r == inst[i]
           o == Over(r, "killed")
           s == [o EXCEPT !.listening = FALSE, !.accepting = FALSE]
<1>1. r \in Instance
  BY DEF LifeOK
<1>2. o \in Instance /\ o.pc = "killed"
  BY <1>1, OverFacts DEF Ended
<1>3. inst' = [inst EXCEPT ![i] = s]
  BY DEF LifeOK, Kill
<1> HIDE DEF o
<1>4. s \in Instance /\ s.pc = "killed" /\ ~s.listening /\ ~s.accepting
  BY <1>2 DEF Instance
<1> HIDE DEF s
<1>5. Life(s, i)
  BY <1>4 DEF Life, AskedOK, HandlesOK, RunsOK, ListenerOK, Running, Ended
<1> QED
  BY <1>3, <1>4, <1>5, Put
-----------------------------------------------------------------------------
(* The socket file. *)

\* A step of process i leaves the path in order if it writes it only while i is
\* alive, and in the way i's new state asks for.
LEMMA StepInv ==
  ASSUME ProcessInv, NEW i \in Instances, Moves(i),
         path' \in {path, Nil, i}, path' # path => Alive(i),
         path' = i => inst'[i].pc \in {"register", "up", "closing", "killed"},
         Alive(i)' => Alive(i) \/ MayLaunch(i),
         ~Overlap => /\ inst'[i].pc = "listen" => path' = Nil \/ i \in Restricted
                     /\ inst'[i].pc \in {"register", "up", "closing"} => path' = i
  PROVE  ProcessInv'
<1>0. \A j \in Instances \ {i} : inst'[j] = inst[j]
  BY DEF Moves
<1>1. LifeOK'
  BY MovesLife DEF ProcessInv
<1>2. PathOK'
  <2>1. path' \in Instances \cup {Nil}
    BY DEF ProcessInv, PathOK
  <2>2. ASSUME NEW j \in Instances, path' = j
        PROVE  inst'[j].pc \in {"register", "up", "closing", "killed"}
    <3>1. CASE j = i
      BY <2>2, <3>1
    <3>2. CASE j # i
      BY <1>0, <2>2, <3>2, ProcessAssumption DEF ProcessInv, PathOK
    <3> QED
      BY <3>1, <3>2
  <2> QED
    BY <2>1, <2>2 DEF PathOK
<1>3. AloneOK'
  <2> SUFFICES ASSUME ~Overlap PROVE AloneOK'
    BY DEF AloneOK
  <2>1. ASSUME NEW j \in Instances, NEW k \in Instances, Alive(j)', Alive(k)'
        PROVE  j = k
    <3>1. \A l \in Instances \ {i} : Alive(l)' <=> Alive(l)
      BY <1>0 DEF Alive
    <3> QED
      BY <2>1, <3>1 DEF ProcessInv, AloneOK, MayLaunch
  <2>2. ASSUME NEW j \in Instances
        PROVE  /\ inst'[j].pc = "listen" => path' = Nil \/ j \in Restricted
               /\ inst'[j].pc \in {"register", "up", "closing"} => path' = j
    <3>1. CASE j = i
      BY <3>1
    <3>2. CASE j # i
      <4>1. inst'[j].pc \in {"listen", "register", "up", "closing"} => Alive(j)
        BY <1>0, <3>2 DEF Alive, Ended
      <4>2. inst'[j].pc \in {"listen", "register", "up", "closing"} => path' = path
        BY <3>2, <4>1 DEF ProcessInv, AloneOK
      <4> QED
        BY <1>0, <3>2, <4>2 DEF ProcessInv, AloneOK
    <3> QED
      BY <3>1, <3>2
  <2> QED
    BY <2>1, <2>2 DEF AloneOK
<1> QED
  BY <1>1, <1>2, <1>3 DEF ProcessInv

LEMMA ProcessInvInit == ASSUME ProcessInit PROVE ProcessInv
<1> DEFINE r == [pc |-> "off", args |-> <<>>, cfgs |-> <<>>, opened |-> 0, closed |-> 0,
                 engine |-> "none", listening |-> FALSE, accepting |-> FALSE]
<1>1. r \in Instance
  <2>1. <<>> \in PortLists
    BY DEF PortLists
  <2> QED
    BY <2>1 DEF Instance
<1>2. /\ r.pc = "off" /\ r.opened = 0 /\ r.closed = 0 /\ r.engine = "none"
      /\ ~r.listening /\ ~r.accepting
  OBVIOUS
<1>3. inst = [i \in Instances |-> r] /\ path = Nil
  BY DEF ProcessInit
<1> HIDE DEF r
<1>4. \A i : Life(r, i)
  BY <1>1, <1>2 DEF Life, AskedOK, HandlesOK, RunsOK, ListenerOK, Running
<1>5. LifeOK
  BY <1>1, <1>3, <1>4 DEF LifeOK
<1>6. PathOK /\ AloneOK
  BY <1>2, <1>3, ProcessAssumption DEF PathOK, AloneOK, Alive
<1> QED
  BY <1>5, <1>6 DEF ProcessInv

LEMMA StartStepInv ==
  ASSUME ProcessInv, NEW i \in Instances, StartStep(i)
  PROVE  ProcessInv'
<1> USE DEF ProcessInv
<1>0. /\ path \in Instances \cup {Nil}
      /\ path = i => inst[i].pc \in {"register", "up", "closing", "killed"}
      /\ ~Overlap => /\ inst[i].pc = "listen" => path = Nil \/ i \in Restricted
                     /\ inst[i].pc \in {"register", "up", "closing"} => path = i
      /\ Life(inst[i], i)
  BY DEF PathOK, AloneOK, LifeOK
<1>1. CASE OpenInterface(i)
  BY <1>0, <1>1, OpenInterfaceMoves, StepInv DEF OpenInterface, Alive, Ended
<1>2. CASE OpenFail(i) \/ BuildFail(i)
  BY <1>0, <1>2, EarlyFailMoves, StepInv DEF OpenFail, BuildFail, Alive, Ended
<1>3. CASE BuildEngine(i)
  BY <1>0, <1>3, BuildEngineMoves, StepInv DEF BuildEngine, Alive, Ended
<1>4. CASE ServeRemove(i)
  <2>1. Moves(i) /\ inst'[i].pc = "listen"
    BY <1>0, <1>4, PcMoves DEF ServeRemove, Life, ListenerOK, Running
  <2> QED
    BY <1>0, <1>4, <2>1, StepInv, ProcessAssumption DEF ServeRemove, Unlink, Alive, Ended
<1>5. CASE ServeListen(i)
  BY <1>0, <1>5, ServeListenMoves, StepInv DEF ServeListen, Alive, Ended
<1>6. CASE ServeListenFail(i) \/ ServeRegisterFail(i)
  BY <1>0, <1>6, ServeFailMoves, StepInv, ProcessAssumption
  DEF ServeListenFail, ServeRegisterFail, Unlink, Alive, Ended
<1>7. CASE ServeAccept(i)
  BY <1>0, <1>7, ServeAcceptMoves, StepInv DEF ServeAccept, Alive, Ended
<1> QED
  BY <1>1, <1>2, <1>3, <1>4, <1>5, <1>6, <1>7 DEF StartStep

LEMMA StopStepInv ==
  ASSUME ProcessInv, NEW i \in Instances, Signal(i) \/ StopStep(i)
  PROVE  ProcessInv'
<1> USE DEF ProcessInv
<1>0. /\ path \in Instances \cup {Nil}
      /\ path = i => inst[i].pc \in {"register", "up", "closing", "killed"}
      /\ ~Overlap /\ inst[i].pc \in {"register", "up", "closing"} => path = i
      /\ Life(inst[i], i)
  BY DEF PathOK, AloneOK, LifeOK
<1>1. CASE Signal(i)
  <2>1. Moves(i) /\ inst'[i].pc = "closing"
    BY <1>0, <1>1, PcMoves DEF Signal, Life, ListenerOK, Running
  <2> QED
    BY <1>0, <1>1, <2>1, StepInv DEF Signal, Alive, Ended
<1>2. CASE CloseUnlink(i)
  <2>1. Moves(i) /\ inst'[i].pc = "unlinked"
    BY <1>0, <1>2, PcMoves DEF CloseUnlink, Life, ListenerOK, Running
  <2> QED
    BY <1>0, <1>2, <2>1, StepInv, ProcessAssumption DEF CloseUnlink, Unlink, Alive, Ended
<1>3. CASE CloseSocket(i)
  BY <1>0, <1>3, CloseSocketMoves, StepInv DEF CloseSocket, Alive, Ended
<1>4. CASE CloseWait(i)
  <2>1. Moves(i) /\ inst'[i].pc = "removing"
    BY <1>0, <1>4, PcMoves DEF CloseWait, Life, ListenerOK, Running
  <2> QED
    BY <1>0, <1>4, <2>1, StepInv DEF CloseWait, Alive, Ended
<1>5. CASE CloseRemove(i)
  <2>1. Moves(i) /\ inst'[i].pc = "stopping"
    BY <1>0, <1>5, PcMoves DEF CloseRemove, Life, ListenerOK, Running
  <2> QED
    BY <1>0, <1>5, <2>1, StepInv, ProcessAssumption DEF CloseRemove, Unlink, Alive, Ended
<1>6. CASE StopEngine(i)
  BY <1>0, <1>6, StopEngineMoves, StepInv DEF StopEngine, Alive, Ended
<1>7. CASE Exit(i)
  BY <1>0, <1>7, ExitMoves, StepInv DEF Exit, Alive, Ended
<1> QED
  BY <1>1, <1>2, <1>3, <1>4, <1>5, <1>6, <1>7 DEF StopStep

LEMMA ProcessNextInv ==
  ASSUME ProcessInv, ProcessNext
  PROVE  ProcessInv'
<1> USE DEF ProcessInv
<1>1. PICK i \in Instances : \/ \E args \in CommandLines : Launch(i, args) \/ LaunchFail(i, args)
                             \/ Signal(i) \/ Kill(i) \/ AcceptError(i) \/ ProcessStep(i)
  BY DEF ProcessNext
<1>2. /\ path = i => inst[i].pc \in {"register", "up", "closing", "killed"}
      /\ ~Overlap => /\ inst[i].pc = "listen" => path = Nil \/ i \in Restricted
                     /\ inst[i].pc \in {"register", "up", "closing"} => path = i
  BY DEF PathOK, AloneOK
<1>3. ASSUME NEW args \in CommandLines, Launch(i, args) PROVE ProcessInv'
  BY <1>2, <1>3, LaunchMoves, StepInv DEF Launch, MayLaunch
<1>4. ASSUME NEW args \in CommandLines, LaunchFail(i, args) PROVE ProcessInv'
  BY <1>2, <1>4, LaunchFailMoves, StepInv DEF LaunchFail, MayLaunch, Alive, Ended
<1>5. CASE Kill(i)
  BY <1>2, <1>5, KillMoves, StepInv DEF Kill, Alive, Ended
<1>6. CASE AcceptLoopExit(i) \/ AcceptError(i)
  BY <1>2, <1>6, AcceptEndsMoves, StepInv DEF AcceptLoopExit, AcceptError, Alive
<1> QED
  BY <1>1, <1>3, <1>4, <1>5, <1>6, StartStepInv, StopStepInv DEF ProcessStep
-----------------------------------------------------------------------------
(* Clients beside the processes. *)

ClientsOK == ctl \in [Clients -> Client]

CtlInv == ProcessInv /\ ClientsOK

LEMMA ClientStepOK ==
  ASSUME CtlInv, NEW c \in Clients, ServerStep(c) \/ ClientStep(c)
  PROVE  ClientsOK' /\ UNCHANGED procVars
<1>1. ctl \in [Clients -> Client] /\ path \in Instances \cup {Nil}
  BY DEF CtlInv, ClientsOK, ProcessInv, PathOK
<1>2. CASE Dial(c)
  <2>1. PICK n \in 1 .. MaxCalls :
          ctl' = [ctl EXCEPT ![c].pc = "ready", ![c].to = path, ![c].left = n]
    BY <1>2 DEF Dial
  <2>2. n \in 0 .. MaxCalls
    BY CtlAssumption
  <2> DEFINE d == [ctl[c] EXCEPT !.pc = "ready", !.to = path, !.left = n]
  <2>3. d \in Client
    BY <1>1, <2>2 DEF Client
  <2>4. ctl' = [ctl EXCEPT ![c] = d]
    BY <1>1, <2>1
  <2> HIDE DEF d
  <2> QED
    BY <1>1, <1>2, <2>3, <2>4 DEF Dial, ClientsOK
<1>3. CASE Call(c)
  <2>1. ctl[c].left - 1 \in 0 .. MaxCalls
    BY <1>1, <1>3, CtlAssumption DEF Call, Client
  <2> DEFINE n == ctl[c].left - 1
  <2>2. ctl' = [ctl EXCEPT ![c].pc = "calling", ![c].left = n]
    BY <1>1, <1>3 DEF Call
  <2> HIDE DEF n
  <2> QED
    BY <1>1, <1>3, <2>1, <2>2 DEF Call, ClientsOK, Client, n
<1>4. CASE DialFail(c) \/ CallError(c) \/ Hangup(c) \/ Answer(c)
  BY <1>1, <1>4 DEF DialFail, CallError, Hangup, Answer, ClientsOK, Client
<1>5. CASE Accept(c)
  BY <1>1, <1>5 DEF Accept, ClientsOK, Client
<1> QED
  BY <1>2, <1>3, <1>4, <1>5 DEF ServerStep, ClientStep

LEMMA CtlInvariant == Spec => []CtlInv
<1>1. Init => CtlInv
  <2> SUFFICES ASSUME Init PROVE CtlInv
    OBVIOUS
  <2>1. ClientsOK
    BY CtlAssumption DEF Init, ClientsOK, Client
  <2> QED
    BY <2>1, ProcessInvInit DEF Init, CtlInv
<1>2. CtlInv /\ [Next]_vars => CtlInv'
  <2> SUFFICES ASSUME CtlInv, [Next]_vars PROVE CtlInv'
    OBVIOUS
  <2>1. CASE UNCHANGED procVars /\ ClientsOK'
    <3>1. ProcessInv'
      BY <2>1 DEF procVars, CtlInv, ProcessInv, LifeOK, PathOK, AloneOK, Alive
    <3> QED
      BY <2>1, <3>1 DEF CtlInv
  <2>2. CASE ProcessNext /\ UNCHANGED ctl
    BY <2>2, ProcessNextInv DEF CtlInv, ClientsOK
  <2>3. CASE \E c \in Clients : ServerStep(c) \/ ClientStep(c)
    BY <2>1, <2>3, ClientStepOK
  <2>4. CASE UNCHANGED vars
    BY <2>1, <2>4 DEF vars, procVars, CtlInv, ClientsOK
  <2> QED
    BY <2>2, <2>3, <2>4 DEF Next
<1> QED
  BY <1>1, <1>2, PTL DEF Spec

\* What a live process was started with.
LEMMA LiveFacts ==
  ASSUME ProcessInv, NEW i \in Instances, Alive(i)
  PROVE  /\ inst[i].args \in Seq(Argument) /\ ParseOK(inst[i].args)
         /\ inst[i].cfgs = cfgs(inst[i].args) /\ Len(inst[i].cfgs) \in Nat
<1>1. inst[i].args \in CommandLines /\ ParseOK(inst[i].args) /\ inst[i].cfgs = cfgs(inst[i].args)
  BY DEF ProcessInv, LifeOK, Life, AskedOK, Alive
<1> QED
  BY <1>1, LaunchFacts, ProcessAssumption DEF Argument

(***************************************************************************)
(* The processes and the clients keep their types, and a live process never *)
(* has more handles open than ports were asked for.                         *)
(***************************************************************************)
THEOREM ProcessTypeCorrect == Spec => []TypeOK
<1>1. ASSUME CtlInv PROVE TypeOK
  <2>1. ASSUME NEW i \in Instances, Alive(i) PROVE inst[i].opened <= Len(inst[i].cfgs)
    <3>1. HandlesOK(inst[i]) /\ inst[i] \in Instance /\ Len(inst[i].cfgs) \in Nat
      BY <1>1, <2>1, LiveFacts DEF CtlInv, ProcessInv, LifeOK, Life
    <3>2. inst[i].opened \in Nat /\ inst[i].pc \in {"open", "build", "stopped"} \cup Running
      BY <2>1, <3>1 DEF Instance, Alive, Starting, Stopping, Running
    <3> QED
      BY <3>1, <3>2 DEF HandlesOK
  <2> QED
    BY <1>1, <2>1 DEF TypeOK, ProcessTypeOK, CtlInv, ClientsOK, ProcessInv, LifeOK, PathOK
<1> QED
  BY <1>1, CtlInvariant, PTL

(***************************************************************************)
(* Nothing is left behind: whichever step of runSwitch failed, and whatever *)
(* other processes did to the path meanwhile, a process that has returned   *)
(* has closed each handle once, runs no engine, and has no socket file.     *)
(***************************************************************************)
THEOREM ExitCleanAlways == Spec => []ExitClean
<1>1. ASSUME CtlInv PROVE ExitClean
  BY <1>1 DEF CtlInv, ProcessInv, LifeOK, PathOK, Life, HandlesOK, RunsOK, ListenerOK, ExitClean
<1> QED
  BY <1>1, CtlInvariant, PTL

(***************************************************************************)
(* The switch that runs is the one asked for, for every command line: the   *)
(* ports of its flags, under names of their own, in the role and in exactly *)
(* the VLANs of the flag, and never plain ports mixed with others.          *)
(***************************************************************************)
THEOREM AsAskedAlways == Spec => []AsAsked
<1>1. ASSUME CtlInv PROVE AsAsked
  <2> SUFFICES ASSUME NEW i \in Instances, Alive(i), inst[i].engine = "running"
               PROVE  LET flags == Flags(inst[i].args)
                          ports == inst[i].cfgs
                          role(n) == roleOf(ports[n].accessVID, ports[n].trunk)
                      IN  /\ inst[i].opened = Len(flags) /\ Len(ports) = Len(flags)
                          /\ \A n \in DOMAIN flags :
                               /\ ports[n].name = flags[n].name
                               /\ role(n) = IF flags[n].flag = "i" THEN "plain" ELSE flags[n].flag
                               /\ role(n) = "plain" <=> role(1) = "plain"
                               /\ VlansOf(ports[n]) = Asked(flags[n])
                               /\ Asked(flags[n]) \subseteq VIDs
                          /\ \A m, n \in DOMAIN flags : flags[m].name = flags[n].name => m = n
    BY Zenon DEF AsAsked
  <2> DEFINE args == inst[i].args
  <2>1. /\ args \in Seq(Argument) /\ ParseOK(args) /\ inst[i].cfgs = cfgs(args)
        /\ Life(inst[i], i)
    BY <1>1, LiveFacts DEF CtlInv, ProcessInv, LifeOK
  <2>2. inst[i].pc \in Running
    BY <2>1 DEF Alive, Life, Instance, RunsOK, Starting, Stopping, Running, Ended
  <2>3. /\ NewEngineAccepts(cfgs(args)) /\ NamesAccepted(cfgs(args))
        /\ inst[i].opened = Len(cfgs(args))
    BY <2>1, <2>2 DEF Life, RunsOK, HandlesOK
  <2> HIDE DEF args
  <2>4. Len(cfgs(args)) = Len(Flags(args))
    BY <2>1, CfgsLength
  <2>5. ASSUME NEW n \in DOMAIN Flags(args)
        PROVE  LET flags == Flags(args)
                   ports == cfgs(args)
                   role(m) == roleOf(ports[m].accessVID, ports[m].trunk)
               IN  /\ ports[n].name = flags[n].name
                   /\ role(n) = IF flags[n].flag = "i" THEN "plain" ELSE flags[n].flag
                   /\ role(n) = "plain" <=> role(1) = "plain"
                   /\ VlansOf(ports[n]) = Asked(flags[n])
                   /\ Asked(flags[n]) \subseteq VIDs
                   /\ \A m \in DOMAIN flags : flags[m].name = flags[n].name => m = n
    BY <2>1, <2>3, PortsAsAsked, Zenon
  <2> QED
    BY <2>1, <2>3, <2>4, <2>5, Zenon DEF args
<1> QED
  BY <1>1, CtlInvariant, PTL

(***************************************************************************)
(* A crash does not keep the next switch from starting: with one process at *)
(* a time net.Listen never meets a leftover file, unless the process may    *)
(* not unlink it.                                                           *)
(***************************************************************************)
THEOREM NeverInUseAlways == Spec => []NeverInUse
<1>1. ASSUME CtlInv PROVE NeverInUse
  BY <1>1 DEF CtlInv, ProcessInv, AloneOK, NeverInUse
<1> QED
  BY <1>1, CtlInvariant, PTL

(***************************************************************************)
(* With one process at a time, a switch that is up can be queried: the file *)
(* leads to it, it listens and, unless Accept failed, it accepts.           *)
(***************************************************************************)
THEOREM ReachableAlways == Spec => []Reachable
<1>1. ASSUME CtlInv PROVE Reachable
  BY <1>1 DEF CtlInv, ProcessInv, LifeOK, Life, ListenerOK, AloneOK, Reachable
<1> QED
  BY <1>1, CtlInvariant, PTL
=============================================================================
