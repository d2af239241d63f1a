-------------------------------- MODULE Ctl ---------------------------------
(***************************************************************************)
(* `vibe-switch ctl`: clients that dial the control socket and run snapshot *)
(* RPCs on the connection, against the processes of module Process.         *)
(*                                                                         *)
(* A connection waits in the listener's backlog until acceptLoop takes it,  *)
(* and is then served by a goroutine of its own that Close does not wait    *)
(* for.  net/rpc has no timeout: a call ends when it is answered or when    *)
(* the connection breaks.                                                  *)
(***************************************************************************)
EXTENDS Process

CONSTANTS Clients,   \* the ctl processes
          Shells,    \* those that run the interactive shell
          MaxCalls   \* bound on the RPCs of one client (show all makes four)

ASSUME CtlAssumption == Shells \subseteq Clients /\ MaxCalls \in Nat

VARIABLE ctl         \* the clients: left is the number of RPCs still to make

vars == <<procVars, ctl>>

Client == [pc : {"idle", "ready", "calling", "done", "failed"},
           to : Instances \cup {Nil}, accepted : BOOLEAN, left : 0 .. MaxCalls]

Init == /\ ProcessInit
        /\ ctl = [c \in Clients |-> [pc |-> "idle", to |-> Nil, accepted |-> FALSE,
                                     left |-> 0]]

\* connect succeeds as soon as the file leads to an open listener.
CanDial == path # Nil /\ inst[path].listening

Dial(c) ==
  /\ ctl[c].pc = "idle"
  /\ CanDial
  /\ \E n \in 1 .. MaxCalls :
       ctl' = [ctl EXCEPT ![c].pc = "ready", ![c].to = path, ![c].left = n]
  /\ UNCHANGED procVars

\* No file, or nobody listens on it: Show and Shell return the error.
DialFail(c) ==
  /\ ctl[c].pc = "idle"
  /\ ~CanDial
  /\ ctl' = [ctl EXCEPT ![c].pc = "failed"]
  /\ UNCHANGED procVars

\* acceptLoop takes a connection and starts ServeConn for it.
Accept(c) ==
  /\ ctl[c].pc \in {"ready", "calling"}
  /\ ~ctl[c].accepted
  /\ inst[ctl[c].to].accepting /\ inst[ctl[c].to].listening
  /\ ctl' = [ctl EXCEPT ![c].accepted = TRUE]
  /\ UNCHANGED procVars

Call(c) ==
  /\ ctl[c].pc = "ready"
  /\ ctl[c].left > 0
  /\ ctl' = [ctl EXCEPT ![c].pc = "calling", ![c].left = @ - 1]
  /\ UNCHANGED procVars

\* ServeConn calls the method, which takes the snapshot.
Answer(c) ==
  /\ ctl[c].pc = "calling"
  /\ ctl[c].accepted
  /\ Alive(ctl[c].to)
  /\ ctl' = [ctl EXCEPT ![c].pc = "ready"]
  /\ UNCHANGED procVars

\* The process is gone, or its listener was closed with the connection in the backlog.
Broken(c) == \/ ~Alive(ctl[c].to)
             \/ ~ctl[c].accepted /\ ~inst[ctl[c].to].listening

\* Mutant: the client waits on for the process.
CallErrorLate(c) ==
  /\ ctl[c].pc = "calling"
  /\ ctl[c].accepted
  /\ Broken(c)
  /\ ctl' = [ctl EXCEPT ![c].pc = IF c \in Shells THEN "ready" ELSE "failed"]
  /\ UNCHANGED procVars

\* A shell prints the error and goes on; show returns it.
CallError(c) ==
  /\ ctl[c].pc = "calling"
  /\ Broken(c)
  /\ ctl' = [ctl EXCEPT ![c].pc = IF c \in Shells THEN "ready" ELSE "failed"]
  /\ UNCHANGED procVars

\* The output is complete, or the user quits the shell.
Hangup(c) ==
  /\ ctl[c].pc = "ready"
  /\ ctl[c].left = 0 \/ c \in Shells
  /\ ctl' = [ctl EXCEPT ![c].pc = "done"]
  /\ UNCHANGED procVars

ServerStep(c) == Accept(c) \/ Answer(c)

ClientStep(c) == Dial(c) \/ DialFail(c) \/ Call(c) \/ CallError(c) \/ Hangup(c)

Next == \/ ProcessNext /\ UNCHANGED ctl
        \/ \E c \in Clients : ServerStep(c) \/ ClientStep(c)

Spec == Init /\ [][Next]_vars

\* The goroutines of a live process and the code of a client keep running;
\* nothing is assumed of launches, signals, kills, failures or of what users do.
Fairness ==
  /\ \A i \in Instances : WF_vars(ProcessStep(i) /\ UNCHANGED ctl)
  /\ \A c \in Clients : WF_vars(Accept(c)) /\ WF_vars(Answer(c)) /\ WF_vars(CallError(c))

FairSpec == Spec /\ Fairness
-----------------------------------------------------------------------------
TypeOK == ProcessTypeOK /\ ctl \in [Clients -> Client]

(***************************************************************************)
(* A start or a shutdown that has begun comes to an end: the switch is up,  *)
(* or its process has ended.  In particular Close, which waits for the      *)
(* accept loop, returns whatever the clients do.                            *)
(***************************************************************************)
Settles ==
  \A i \in Instances :
    inst[i].pc \in Starting \cup Stopping ~> inst[i].pc \in {"up"} \cup Ended

(***************************************************************************)
(* Every query ends: Show "dials the server, runs one query, and prints     *)
(* it" - or reports an error -, whatever happens to the server meanwhile:   *)
(* a shutdown with the connection in the backlog, a kill, a restart.  Only  *)
(* a server whose Accept fails keeps clients waiting: it listens on, and    *)
(* nobody accepts.                                                          *)
(***************************************************************************)
QueriesEnd ==
  \A c \in Clients :
    ctl[c].pc = "calling" /\ ctl[c].to \notin FlakyAccept ~> ctl[c].pc # "calling"
=============================================================================
