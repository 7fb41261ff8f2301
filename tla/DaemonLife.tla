------------------------------ MODULE DaemonLife ------------------------------
(***************************************************************************)
(* `passd serve` from start to stop: the configuration it reads, the Unix  *)
(* socket in the file system, the serve loop, the signal handler and the   *)
(* thread it starts, and a kill at any point, which leaves the socket's    *)
(* path behind.                                                            *)
(***************************************************************************)
EXTENDS ConfigInit

CONSTANTS
  Daemon,   \* the processes, one run each at a time
  AtOnce,   \* how many of them are started or run at the same time
  MaxKill   \* bound: how often a process is killed

ASSUME DaemonAssumption == None \notin Daemon

VARIABLES
  path,     \* whose socket the path names, or None
  live,     \* the daemons whose socket listens
  pc,       \* where the main thread is
  stop,     \* the daemons that were signalled (the Event stop)
  request,  \* the daemons whose shutdown thread has asked the loop to end
  kills,    \* how much of the bound is used
  key,      \* the root key of each daemon that runs
  alone,    \* the daemons beside which no other has run since they were started
  rows      \* the root keys under which the database has rows

daemons == <<path, live, pc, stop, request, kills, key>>
vars == <<setups, daemons, alone, rows>>

Init ==
  /\ SetupInit /\ key = [d \in Daemon |-> None] /\ alone = {} /\ rows = {}
  /\ path = None /\ live = {} /\ pc = [d \in Daemon |-> "off"]
  /\ stop = {} /\ request = {} /\ kills = 0

-----------------------------------------------------------------------------
Running == {d \in Daemon : pc[d] # "off"}
Goto(d, p) == pc' = [pc EXCEPT ![d] = p]

\* Config.load and derive_and_verify; an empty file is no JSON.
Start(d) ==
  /\ pc[d] = "off" /\ Cardinality(Running) < AtOnce
  /\ config # None /\ holds[config] # None
  /\ key' = [key EXCEPT ![d] = holds[config]]
  /\ alone' = IF Running = {} THEN {d} ELSE {}
  /\ Goto(d, "starting")
  /\ UNCHANGED <<path, live, stop, request, kills>>

\* Mutant: a path that is there is left.
LookForSocket_Never(d) ==
  /\ pc[d] = "starting" /\ Goto(d, "binding")
  /\ UNCHANGED <<path, live, stop, request, kills>>
\* socket_path.exists()
LookForSocket(d) ==
  /\ pc[d] = "starting"
  /\ Goto(d, IF path = None THEN "binding" ELSE "clearing")
  /\ UNCHANGED <<path, live, stop, request, kills>>
\* socket_path.unlink(), which raises when the path has gone meanwhile.
ClearSocket(d) ==
  /\ pc[d] = "clearing" /\ path' = None
  /\ Goto(d, IF path = None THEN "off" ELSE "binding")
  /\ UNCHANGED <<live, stop, request, kills>>
\* bind fails on a path that is there; TCPServer then calls server_close.
Bind(d) ==
  /\ pc[d] = "binding"
  /\ IF path = None
     THEN path' = d /\ live' = live \cup {d} /\ Goto(d, "bound")
     ELSE Goto(d, "unlinking") /\ UNCHANGED <<path, live>>
  /\ UNCHANGED <<stop, request, kills>>
\* chmod, which raises when the path has gone; then the signal handlers are set
\* and the loop is entered.
EnterLoop(d) ==
  /\ pc[d] = "bound"
  /\ IF path = None THEN Goto(d, "off") /\ live' = live \ {d}
     ELSE Goto(d, "serving") /\ UNCHANGED live
  /\ UNCHANGED <<path, stop, request, kills>>
\* Any handler that stores a sealed row.
Store(d) ==
  /\ pc[d] = "serving" /\ rows' = rows \cup {key[d]}
  /\ UNCHANGED daemons

\* Mutant: the handler, which runs in the main thread, calls shutdown itself:
\* it waits for the loop that it has interrupted.
Signal_Waits(d) ==
  /\ pc[d] \in {"serving", "stuck"}
  /\ stop' = stop \cup {d} /\ request' = request \cup {d} /\ Goto(d, "stuck")
  /\ UNCHANGED <<path, live, kills>>
\* SIGINT or SIGTERM; only the first starts a thread that calls shutdown.
Signal(d) ==
  /\ pc[d] = "serving"
  /\ stop' = stop \cup {d}
  /\ UNCHANGED <<path, live, pc, request, kills>>
\* Mutant: the thread calls server_close, which does not end the loop.
Shutdown_Closes(d) ==
  /\ d \in stop /\ path' = None /\ live' = live \ {d}
  /\ UNCHANGED <<pc, stop, request, kills>>
Shutdown(d) ==
  /\ d \in stop \ request /\ request' = request \cup {d}
  /\ UNCHANGED <<path, live, pc, stop, kills>>
\* The loop looks every 0.2 seconds.
LeaveLoop(d) ==
  /\ pc[d] = "serving" /\ d \in request /\ Goto(d, "closing")
  /\ UNCHANGED <<path, live, stop, request, kills>>

\* server_close: the socket, then the path, whosever it is by then.
CloseSocket(d) ==
  /\ pc[d] = "closing" /\ live' = live \ {d} /\ Goto(d, "unlinking")
  /\ UNCHANGED <<path, stop, request, kills>>
Unlink(d) ==
  /\ pc[d] = "unlinking" /\ path' = None
  /\ Goto(d, "off") /\ stop' = stop \ {d} /\ request' = request \ {d}
  /\ UNCHANGED <<live, kills>>

\* SIGKILL, or a signal before the handlers are set: nothing is cleaned up.
Kill(d) ==
  /\ pc[d] # "off" /\ kills < MaxKill /\ kills' = kills + 1
  /\ live' = live \ {d} /\ Goto(d, "off")
  /\ stop' = stop \ {d} /\ request' = request \ {d}
  /\ UNCHANGED path

Step(d) ==
  \/ LookForSocket(d) \/ ClearSocket(d) \/ Bind(d) \/ EnterLoop(d)
  \/ Shutdown(d) \/ LeaveLoop(d) \/ CloseSocket(d) \/ Unlink(d)
\* The key of a process goes with it.
DropKey(d) ==
  /\ key' = [key EXCEPT ![d] = IF pc'[d] = "off" THEN None ELSE @]
  /\ UNCHANGED <<setups, alone, rows>>
GoOn(d) == Step(d) /\ DropKey(d)
DaemonStep(d) ==
  \/ Start(d) /\ UNCHANGED <<setups, rows>>
  \/ GoOn(d)
  \/ (Signal(d) \/ Kill(d)) /\ DropKey(d)
  \/ Store(d) /\ UNCHANGED <<setups, alone>>
Next ==
  \/ (\E i \in Setup : SetupStep(i)) /\ UNCHANGED <<daemons, alone, rows>>
  \/ \E d \in Daemon : DaemonStep(d)
Spec == Init /\ [][Next]_vars
\* The threads of a process go on.
FairSpec == Spec /\ \A d \in Daemon : WF_vars(GoOn(d))

-----------------------------------------------------------------------------
(* Properties *)

\* Clients that connect to the path reach the daemon that serves, although the
\* one before it may have been killed with its socket in place.  Not beside another
\* daemon: each removes the path of the other, one when it starts, one when it
\* stops or fails to bind (server.py:47 and 56).
ServingReachable ==
  \A d \in alone : pc[d] = "serving" => d \in live /\ path = d

\* A daemon that is started comes to serve, unless it is killed on the way or
\* another one is started beside it, although the one before may have left its
\* socket.
StartServes ==
  \A d \in Daemon :
    pc[d] = "starting" /\ kills = MaxKill ~> pc[d] = "serving" \/ d \notin alone

\* Every row that a daemon has stored opens under the root key of config.json, so
\* that the daemon of tomorrow can read what the one of today has written.  With
\* one initialisation at a time: of two that have both found no config.json
\* ("passd is already initialized", config.py:55) the second replaces the first's.
RowsOpen == \A k \in rows : config # None /\ holds[config] = k

\* A daemon that is signalled comes to its end, and is closed by then.
StopEnds == \A d \in Daemon : d \in stop ~> pc[d] = "off" /\ d \notin live
=============================================================================
