------------------------------ MODULE Process -------------------------------
(***************************************************************************)
(* runSwitch and the control server: the life of vibe-switch processes that *)
(* are started, one after the other or side by side, with the same control  *)
(* socket path.                                                            *)
(*                                                                         *)
(* A process opens one handle per port, builds and starts the engine, binds *)
(* the control socket, and runs until a signal; every step of the way up    *)
(* may fail, and the process may be killed at any time (a signal before     *)
(* signal.Notify kills it too).  A killed process leaves its socket file.   *)
(* What Engine.Stop does is the subject of Engine.                          *)
(***************************************************************************)
EXTENDS PortConfigs

CONSTANTS Instances,     \* the processes
          CommandLines,  \* the arguments a process may be started with
          Overlap,       \* a process may be started while another runs
          FlakyAccept,   \* processes whose Accept may fail on an open listener (EMFILE, say)
          Restricted,    \* processes that may not unlink another's file
          Nil

ASSUME ProcessAssumption ==
  /\ Overlap \in BOOLEAN
  /\ FlakyAccept \subseteq Instances /\ Restricted \subseteq Instances
  /\ Nil \notin Instances
  /\ CommandLines \subseteq Seq([flag : STRING, name : STRING, vids : Seq(Int)])

VARIABLES
  inst,   \* the processes
  path    \* the process whose listener the socket file is bound to, or Nil

procVars == <<inst, path>>

Starting == {"open", "build", "remove", "listen", "register"}
Stopping == {"closing", "unlinked", "waiting", "removing", "stopping", "stopped"}
Ended    == {"returned", "killed"}

\* What runSwitch may read off its command line.
PortLists == {<<>>} \cup {cfgs(a) : a \in {b \in CommandLines : ParseOK(b)}}

\* args, cfgs: the command line of a live process and the ports read off it;
\* opened, closed: how many handles were opened and how often one was closed.
Instance == [pc : {"off", "up"} \cup Starting \cup Stopping \cup Ended,
             args : CommandLines \cup {<<>>},
             cfgs : PortLists,
             opened : Nat, closed : Nat,
             engine : {"none", "running", "stopped"},
             listening : BOOLEAN, accepting : BOOLEAN]

Alive(i) == inst[i].pc \notin {"off"} \cup Ended

ProcessInit ==
  /\ inst = [i \in Instances |->
               [pc |-> "off", args |-> <<>>, cfgs |-> <<>>, opened |-> 0, closed |-> 0, engine |-> "none",
                listening |-> FALSE, accepting |-> FALSE]]
  /\ path = Nil
-----------------------------------------------------------------------------
(* runSwitch, up to Serve *)

MayLaunch(i) ==
  /\ inst[i].pc = "off"
  /\ Overlap \/ \A j \in Instances : ~Alive(j)

Launch(i, args) ==
  /\ MayLaunch(i)
  /\ ParseOK(args)
  /\ inst' = [inst EXCEPT ![i].pc = "open", ![i].args = args, ![i].cfgs = cfgs(args)]
  /\ UNCHANGED path

\* A flag is rejected, or there are no ports: nothing has been opened yet.
LaunchFail(i, args) ==
  /\ MayLaunch(i)
  /\ ~ParseOK(args)
  /\ inst' = [inst EXCEPT ![i].pc = "returned"]
  /\ UNCHANGED path

\* A process that has ended; its arguments are forgotten.
Over(r, pc) == [r EXCEPT !.pc = pc, !.args = <<>>, !.cfgs = <<>>]

\* Mutant: the loop runs once too often.
OpenInterfaceMore(i) ==
  /\ inst[i].pc = "open"
  /\ inst' = [inst EXCEPT ![i].opened = @ + 1,
                          ![i].pc = IF inst[i].opened = Len(inst[i].cfgs)
                                      THEN "build" ELSE "open"]
  /\ UNCHANGED path

OpenInterface(i) ==
  /\ inst[i].pc = "open"
  /\ inst' = [inst EXCEPT ![i].opened = @ + 1,
                          ![i].pc = IF inst[i].opened + 1 = Len(inst[i].cfgs)
                                      THEN "build" ELSE "open"]
  /\ UNCHANGED path

\* The handles opened so far are closed again.
OpenFail(i) ==
  /\ inst[i].pc = "open"
  /\ inst' = [inst EXCEPT ![i] = [Over(inst[i], "returned") EXCEPT !.closed = @ + inst[i].opened]]
  /\ UNCHANGED path

Acceptable(i) == NewEngineAccepts(inst[i].cfgs) /\ NamesAccepted(inst[i].cfgs)

\* NewEngine, SetAgeing and Start; the last two cannot fail.
BuildEngine(i) ==
  /\ inst[i].pc = "build"
  /\ Acceptable(i)
  /\ inst' = [inst EXCEPT ![i].engine = "running", ![i].pc = "remove"]
  /\ UNCHANGED path

\* Mutant: the error is returned as it is.
BuildFailLeak(i) ==
  /\ inst[i].pc = "build"
  /\ ~Acceptable(i)
  /\ inst' = [inst EXCEPT ![i] = Over(@, "returned")]
  /\ UNCHANGED path

\* NewEngine rejects the configuration.
BuildFail(i) ==
  /\ inst[i].pc = "build"
  /\ ~Acceptable(i)
  /\ inst' = [inst EXCEPT ![i] = [Over(inst[i], "returned") EXCEPT !.closed = @ + inst[i].opened]]
  /\ UNCHANGED path
-----------------------------------------------------------------------------
(* Serve *)

\* Every error of an unlink is ignored: the file is then still there.
Unlink(i) == path' = IF i \in Restricted /\ path # i THEN path ELSE Nil

\* Mutant: a leftover file is left alone.
ServeRemoveNot(i) ==
  /\ inst[i].pc = "remove"
  /\ inst' = [inst EXCEPT ![i].pc = "listen"]
  /\ UNCHANGED path

\* os.Remove of whatever the path names.
ServeRemove(i) ==
  /\ inst[i].pc = "remove"
  /\ Unlink(i)
  /\ inst' = [inst EXCEPT ![i].pc = "listen"]

\* Mutant: the file is unlinked after Listen instead of before.
ServeListenUnlink(i) ==
  /\ inst[i].pc = "listen"
  /\ path' = Nil
  /\ inst' = [inst EXCEPT ![i].listening = TRUE, ![i].pc = "register"]

\* net.Listen creates the file; it fails if there is one already.
ServeListen(i) ==
  /\ inst[i].pc = "listen"
  /\ path = Nil
  /\ path' = i
  /\ inst' = [inst EXCEPT ![i].listening = TRUE, ![i].pc = "register"]

\* The result of Engine.Stop: the goroutines have ended, the handles are closed.
EngineStopped(r) == [r EXCEPT !.engine = "stopped", !.closed = @ + r.opened]

\* net.Listen fails (the file exists, the directory does not): runSwitch stops
\* the engine it has started.
ServeListenFail(i) ==
  /\ inst[i].pc = "listen"
  /\ inst' = [inst EXCEPT ![i] = Over(EngineStopped(@), "returned")]
  /\ UNCHANGED path

ServeAccept(i) ==
  /\ inst[i].pc = "register"
  /\ inst' = [inst EXCEPT ![i].accepting = TRUE, ![i].pc = "up"]
  /\ UNCHANGED path

\* RegisterName fails: the listener is closed, the file removed, the engine stopped.
ServeRegisterFail(i) ==
  /\ inst[i].pc = "register"
  /\ Unlink(i)
  /\ inst' = [inst EXCEPT ![i] = [Over(EngineStopped(@), "returned")
                                    EXCEPT !.listening = FALSE]]
-----------------------------------------------------------------------------
(* Close and the way down *)

Signal(i) ==
  /\ inst[i].pc = "up"
  /\ inst' = [inst EXCEPT ![i].pc = "closing"]
  /\ UNCHANGED path

\* ln.Close unlinks the path, whoever bound it last, then closes the socket.
CloseUnlink(i) ==
  /\ inst[i].pc = "closing"
  /\ Unlink(i)
  /\ inst' = [inst EXCEPT ![i].pc = "unlinked"]

\* Mutant: wg.Wait is reached with the listener still open.
CloseSocketNot(i) ==
  /\ inst[i].pc = "unlinked"
  /\ inst' = [inst EXCEPT ![i].pc = "waiting"]
  /\ UNCHANGED path

CloseSocket(i) ==
  /\ inst[i].pc = "unlinked"
  /\ inst' = [inst EXCEPT ![i].listening = FALSE, ![i].pc = "waiting"]
  /\ UNCHANGED path

\* Any error of Accept ends acceptLoop: the listener was closed, or it is open
\* and stays open.
AcceptLoopExit(i) ==
  /\ Alive(i)
  /\ inst[i].accepting
  /\ ~inst[i].listening
  /\ inst' = [inst EXCEPT ![i].accepting = FALSE]
  /\ UNCHANGED path

AcceptError(i) ==
  /\ i \in FlakyAccept
  /\ inst[i].accepting
  /\ inst[i].listening
  /\ inst' = [inst EXCEPT ![i].accepting = FALSE]
  /\ UNCHANGED path

CloseWait(i) ==
  /\ inst[i].pc = "waiting"
  /\ ~inst[i].accepting
  /\ inst' = [inst EXCEPT ![i].pc = "removing"]
  /\ UNCHANGED path

CloseRemove(i) ==
  /\ inst[i].pc = "removing"
  /\ Unlink(i)
  /\ inst' = [inst EXCEPT ![i].pc = "stopping"]

StopEngine(i) ==
  /\ inst[i].pc = "stopping"
  /\ inst' = [inst EXCEPT ![i] = [EngineStopped(@) EXCEPT !.pc = "stopped"]]
  /\ UNCHANGED path

Exit(i) ==
  /\ inst[i].pc = "stopped"
  /\ inst' = [inst EXCEPT ![i] = Over(@, "returned")]
  /\ UNCHANGED path

\* The kernel closes what the process had open; the file stays.
Kill(i) ==
  /\ Alive(i)
  /\ inst' = [inst EXCEPT ![i] = [Over(@, "killed") EXCEPT !.listening = FALSE,
                                                           !.accepting = FALSE]]
  /\ UNCHANGED path
-----------------------------------------------------------------------------
StartStep(i) ==
  \/ OpenInterface(i) \/ OpenFail(i) \/ BuildEngine(i) \/ BuildFail(i)
  \/ ServeRemove(i) \/ ServeListen(i) \/ ServeListenFail(i)
  \/ ServeAccept(i) \/ ServeRegisterFail(i)

StopStep(i) ==
  \/ CloseUnlink(i) \/ CloseSocket(i) \/ CloseWait(i)
  \/ CloseRemove(i) \/ StopEngine(i) \/ Exit(i)

ProcessStep(i) == StartStep(i) \/ StopStep(i) \/ AcceptLoopExit(i)

ProcessNext ==
  \E i \in Instances : \/ \E args \in CommandLines : Launch(i, args) \/ LaunchFail(i, args)
                       \/ Signal(i) \/ Kill(i) \/ AcceptError(i) \/ ProcessStep(i)

ProcessSpec == ProcessInit /\ [][ProcessNext]_procVars
-----------------------------------------------------------------------------
ProcessTypeOK ==
  /\ inst \in [Instances -> Instance]
  /\ \A i \in Instances : Alive(i) => inst[i].opened <= Len(inst[i].cfgs)
  /\ path \in Instances \cup {Nil}

(***************************************************************************)
(* Nothing is left behind: when runSwitch has returned, from whichever      *)
(* error or after a signal, every handle it opened has been closed exactly  *)
(* once, no engine is running, and the socket file is not its own.          *)
(***************************************************************************)
ExitClean ==
  \A i \in Instances : inst[i].pc = "returned" =>
    /\ inst[i].closed = inst[i].opened
    /\ inst[i].engine # "running"
    /\ ~inst[i].listening /\ ~inst[i].accepting
    /\ path # i

\* The VLAN ids, those a port is in, and those its flag gave it.
VIDs == 1 .. 4094
VlansOf(c) == c.trunk \cup ({c.accessVID} \ {0})
Asked(a) == IF a.flag = "i" THEN {} ELSE {a.vids[n] : n \in DOMAIN a.vids}

(***************************************************************************)
(* The switch that runs is the one asked for: its ports are those of the    *)
(* flags, in their order and under names of their own, and each is in the   *)
(* role and in exactly the VLANs its flag gave it, all of them real VLAN    *)
(* ids; so no port is plain, and bridged with all the others, that was to   *)
(* be kept in a VLAN.                                                       *)
(***************************************************************************)
AsAsked ==
  \A i \in Instances : Alive(i) /\ inst[i].engine = "running" =>
    LET flags == Flags(inst[i].args)
        ports == inst[i].cfgs
        role(n) == roleOf(ports[n].accessVID, ports[n].trunk)
    IN  /\ inst[i].opened = Len(flags) /\ Len(ports) = Len(flags)
        /\ \A n \in DOMAIN flags :
             /\ ports[n].name = flags[n].name
             /\ role(n) = IF flags[n].flag = "i" THEN "plain" ELSE flags[n].flag
             /\ role(n) = "plain" <=> role(1) = "plain"
             /\ VlansOf(ports[n]) = Asked(flags[n])
             /\ Asked(flags[n]) \subseteq VIDs
        /\ \A m, n \in DOMAIN flags : flags[m].name = flags[n].name => m = n

(***************************************************************************)
(* A crash does not keep the next switch from starting: whatever the        *)
(* processes before it did, net.Listen never meets a leftover file, except  *)
(* in a process that may not unlink it.                                     *)
(***************************************************************************)
NeverInUse ==
  ~Overlap => \A i \in Instances \ Restricted : inst[i].pc = "listen" => path = Nil

(***************************************************************************)
(* A switch that is up can be queried: the socket file leads to it, it      *)
(* listens and, unless Accept failed, its accept loop is running.           *)
(***************************************************************************)
Reachable ==
  ~Overlap => \A i \in Instances : inst[i].pc = "up" =>
                /\ path = i
                /\ inst[i].listening
                /\ inst[i].accepting \/ i \in FlakyAccept

(***************************************************************************)
(* "A stale socket file from a previous crash is unlinked first": the file  *)
(* Serve unlinks belongs to no running process.                             *)
(***************************************************************************)
OnlyStaleRemoved ==
  \A i \in Instances :
    inst[i].pc = "remove" /\ path # Nil => ~Alive(path)
=============================================================================
