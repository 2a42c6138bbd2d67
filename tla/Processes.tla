----------------------------- MODULE Processes ------------------------------
(***************************************************************************)
(* The processes on an agent's machine and how they start and stop one     *)
(* another (run_pdd_client.py, pdd_adsorb_window.py, and the beginning of  *)
(* run_frontend_service.py): the bridge, of which there is one; the local  *)
(* gateway it starts, or adopts from an earlier bridge; and the dock, a    *)
(* controller with a browser window, which it may start too.               *)
(*                                                                         *)
(* In the bridge two threads may run start_local_gateway: main, and a      *)
(* second one when main did not get a gateway.  The user sets the bridge   *)
(* up, ends it, closes or wakes the dock; any process may die.             *)
(***************************************************************************)
EXTENDS Naturals, FiniteSets

CONSTANTS
  Gates,     \* gateway processes, by their pids
  Docks,     \* dock controllers, by their pids
  LastPort,  \* the loopback ports are 1 .. LastPort
  MaxLives,  \* bound: bridges started
  MaxFaults, \* bound: deaths, deafness and other accidents
  None

ASSUME ProcessesAssumption ==
  /\ {LastPort, MaxLives, MaxFaults} \subseteq Nat /\ LastPort > 0
  /\ Gates \cap Docks = {} /\ None \notin Gates \cup Docks \cup Nat
  /\ None \notin [gate : Gates, port : Nat]

Ports == 1 .. LastPort
Threads == {"main", "retry"}

VARIABLES
  pc,       \* the bridge's threads
  job,      \* what start_local_gateway has come to: ports tried, port, process
  handle,   \* _GATEWAY_PROCESS
  held,     \* _GATEWAY_PID and _GATEWAY_PORT
  dockPid,  \* _ADSORB_PROCESS_PID
  quit,     \* gateway_retry_stop
  ready,    \* the configuration is usable
  url,      \* the port in the configuration
  dockOn,   \* auto_start_with_bridge
  gate,     \* what each gateway pid stands for, and its port
  foreign,  \* ports other programs hold
  ctl,      \* what each controller is at
  mutex,    \* the controllers' named mutex
  pidFile,  \* state/pdd-adsorb.pid
  windows,  \* browser windows of the dock
  stopper,  \* a process PddAdsorbWindow --stop
  mine,     \* history: gateways this bridge started or adopted
  joined,   \* history: main ended when the other thread had
  blind,    \* history: a gateway went unseen when another was started
  scarred,  \* history: controllers that lived when --stop removed the pid file
  lives, faults

bridge == <<pc, job, handle, held, dockPid, quit>>
config == <<ready, url, dockOn>>
gates == <<gate, foreign>>
dock == <<ctl, mutex, pidFile, windows, stopper>>
ghosts == <<mine, joined, blind, scarred>>
bounds == <<lives, faults>>
vars == <<bridge, config, gates, dock, ghosts, bounds>>

NoJob == [tried |-> {}, port |-> 0, gate |-> None]
NoGate == [st |-> "none", port |-> 0]
Nobody == [w \in Threads |-> "none"]

\* Gateways fail, and people meddle with ports, only where there is no dock.
Init ==
  /\ pc = [Nobody EXCEPT !["main"] = "off"] /\ job = [w \in Threads |-> NoJob]
  /\ handle = None /\ held = None /\ dockPid = None /\ quit = FALSE
  /\ ready \in BOOLEAN /\ url = 1 /\ dockOn \in BOOLEAN
  /\ gate = [g \in Gates |-> NoGate] /\ foreign \in {{}, {1}}
  /\ ctl = [d \in Docks |-> "none"] /\ mutex = None /\ pidFile = None
  /\ windows = 0 /\ stopper = "none"
  /\ mine = {} /\ joined = TRUE /\ blind = FALSE /\ scarred = {}
  /\ lives = 0 /\ faults = 0

Fault == faults < MaxFaults /\ faults' = faults + 1
GateFault == ~dockOn /\ Fault

Runs(g) == gate[g].st \in {"starting", "up", "busy"}
Running == {g \in Gates : Runs(g)}
Listening == {g \in Gates : gate[g].st \in {"up", "busy"}}
PortOpen(p) == p \in foreign \/ \E g \in Listening : gate[g].port = p
Alive == pc["main"] # "off"

-----------------------------------------------------------------------------
(* start_local_gateway, by either thread.                                  *)

Goto(w, place) == pc' = [pc EXCEPT ![w] = place]

\* Mutant of Failed: the other thread tries once.
FailedForGood(w) ==
  /\ Goto(w, IF w = "main" THEN "fork" ELSE "done")
  /\ job' = [job EXCEPT ![w] = NoJob]

\* An exception: main goes on without, the other thread tries again.
Failed(w) ==
  /\ Goto(w, IF w = "main" THEN "fork" ELSE "wait")
  /\ job' = [job EXCEPT ![w] = NoJob]

\* The gateway is there: the dock is next, unless the bridge is ending.
Started(w) ==
  /\ Goto(w, IF w = "retry" /\ quit THEN "done" ELSE "dock")
  /\ job' = [job EXCEPT ![w] = NoJob]

\* The configured port first, then the others in their order.
IsNext(p, w) ==
  /\ p \in Ports \ job[w].tried
  /\ IF url \notin job[w].tried THEN p = url
     ELSE \A q \in Ports \ job[w].tried : p <= q

\* One port of the search: an own gateway that answers is adopted, a closed
\* port is taken.
Look(w, p) ==
  LET own == {g \in Gates : gate[g] = [st |-> "up", port |-> p]}
  IN \/ \E g \in own :
          /\ job' = [job EXCEPT ![w].port = p, ![w].gate = g]
          /\ Goto(w, "adopt") /\ UNCHANGED blind
     \/ /\ own = {}
        /\ blind' = (blind \/ \E g \in Running : gate[g].st # "up")
        /\ \/ ~PortOpen(p) /\ job' = [job EXCEPT ![w].port = p] /\ Goto(w, "popen")
           \/ PortOpen(p) /\ job' = [job EXCEPT ![w].tried = @ \cup {p}] /\ UNCHANGED pc

Scan(w) ==
  /\ pc[w] = "scan"
  /\ \E p \in Ports : IsNext(p, w) /\ Look(w, p)
  /\ UNCHANGED <<handle, held, dockPid, quit, config, gates, dock, mine, joined, scarred, bounds>>

\* No port is left.
ScanFails(w) ==
  /\ pc[w] = "scan" /\ Ports \subseteq job[w].tried
  /\ Failed(w)
  /\ UNCHANGED <<handle, held, dockPid, quit, config, gates, dock, ghosts, bounds>>

\* Mutant of SaveUrl: the port found is not written to the configuration.
SaveUrlNot(p) == UNCHANGED url

\* local_workbench_url
SaveUrl(p) == url' = p

\* Mutant of Remember: an adopted gateway is not remembered.
RememberStarted(g, p, process) ==
  /\ held' = IF process = None THEN held ELSE [gate |-> g, port |-> p]
  /\ handle' = process

\* _remember_gateway
Remember(g, p, process) ==
  /\ held' = [gate |-> g, port |-> p]
  /\ handle' = process

Adopt(w) ==
  /\ pc[w] = "adopt"
  /\ SaveUrl(job[w].port)
  /\ Remember(job[w].gate, job[w].port, None)
  /\ mine' = mine \cup {job[w].gate}
  /\ Started(w)
  /\ UNCHANGED <<dockPid, quit, ready, dockOn, gates, dock, joined, blind, scarred, bounds>>

\* The port is looked at again, and the process started.
Popen(w) ==
  /\ pc[w] = "popen"
  /\ SaveUrl(job[w].port)
  /\ \/ /\ PortOpen(job[w].port)
        /\ Failed(w)
        /\ UNCHANGED <<handle, gate, mine>>
     \/ /\ ~PortOpen(job[w].port)
        /\ \E g \in Gates :
             /\ gate[g].st = "none"
             /\ gate' = [gate EXCEPT ![g] = [st |-> "starting", port |-> job[w].port]]
             /\ job' = [job EXCEPT ![w].gate = g]
             /\ handle' = g /\ mine' = mine \cup {g}
        /\ Goto(w, "note")
  /\ UNCHANGED <<held, dockPid, quit, ready, dockOn, foreign, dock, joined, blind, scarred,
                 bounds>>

\* If the gateway was stopped meanwhile there is no process to remember.
Note(w) ==
  /\ pc[w] = "note"
  /\ IF handle = None
     THEN Failed(w) /\ UNCHANGED <<handle, held>>
     ELSE Remember(handle, job[w].port, handle) /\ Goto(w, "poll") /\ UNCHANGED job
  /\ UNCHANGED <<dockPid, quit, config, gates, dock, ghosts, bounds>>

\* _gateway_process_matches: the pid still is a gateway of this bundle.
Matches(g, p) == Runs(g) /\ gate[g].port = p

\* Mutant of Terminated: whatever has the pid now.
TerminatedByPid == IF held = None THEN {} ELSE {held.gate}

\* What stop_local_gateway ends: the gateway that is remembered, if it is one.
Terminated ==
  IF held = None THEN {} ELSE {g \in {held.gate} : Matches(g, held.port)}

StopGateway ==
  /\ gate' = [g \in Gates |-> IF g \in Terminated THEN NoGate ELSE gate[g]]
  /\ held' = None /\ handle' = None

\* The gateway answers, and it is this process.
PollAnswers(w) ==
  /\ pc[w] = "poll" /\ handle = job[w].gate
  /\ gate[job[w].gate] = [st |-> "up", port |-> job[w].port]
  /\ Started(w)
  /\ UNCHANGED <<handle, held, dockPid, quit, config, gates, dock, ghosts, bounds>>

\* It has ended, or there is no process any more.
PollFails(w) ==
  /\ pc[w] = "poll" /\ (handle = None \/ ~Runs(job[w].gate))
  /\ Failed(w)
  /\ UNCHANGED <<handle, held, dockPid, quit, config, gates, dock, ghosts, bounds>>

\* Sixty seconds are over.
PollEnds(w) ==
  /\ pc[w] = "poll" /\ handle # None
  /\ StopGateway /\ Failed(w)
  /\ GateFault
  /\ UNCHANGED <<dockPid, quit, config, foreign, dock, ghosts, lives>>

-----------------------------------------------------------------------------
(* main and the second thread.                                             *)

\* main: the mutex lets one bridge live.  It is started by a person, or by a
\* dock that finds no workbench (start_bridge_if_needed).
Launch ==
  /\ ~Alive /\ lives < MaxLives /\ lives' = lives + 1
  /\ pc' = [Nobody EXCEPT !["main"] = IF ready THEN "scan" ELSE "fork"]
  /\ job' = [w \in Threads |-> NoJob]
  /\ handle' = None /\ held' = None /\ dockPid' = None /\ quit' = FALSE
  /\ mine' = {} /\ joined' = FALSE
  /\ UNCHANGED <<config, gates, dock, blind, scarred, faults>>

\* The pid in the file, if it is a controller's.
Controller == IF pidFile # None /\ ctl[pidFile] # "none" THEN pidFile ELSE None

\* start_adsorb_window
StartDock(w) ==
  /\ pc[w] = "dock"
  /\ Goto(w, IF w = "main" THEN "fork" ELSE "done")
  /\ IF ~dockOn \/ Controller # None THEN UNCHANGED <<dockPid, ctl>>
     ELSE \E d \in Docks : /\ ctl[d] = "none"
                           /\ ctl' = [ctl EXCEPT ![d] = "new"] /\ dockPid' = d
  /\ UNCHANGED <<job, handle, held, quit, config, gates, mutex, pidFile, windows, stopper,
                 ghosts, bounds>>

\* The second thread is started if main has no gateway; the window opens.
Fork ==
  /\ pc["main"] = "fork"
  /\ pc' = [main |-> "serve", retry |-> IF held = None THEN "wait" ELSE "none"]
  /\ UNCHANGED <<job, handle, held, dockPid, quit, config, gates, dock, ghosts, bounds>>

\* A round of _retry_local_gateway_after_setup.
Retry ==
  /\ pc["retry"] = "wait" /\ (quit \/ ready)
  /\ Goto("retry", IF quit THEN "done" ELSE "scan")
  /\ UNCHANGED <<job, handle, held, dockPid, quit, config, gates, dock, ghosts, bounds>>

\* The user saves a usable configuration.
Setup ==
  /\ pc["main"] = "serve" /\ ~ready /\ ready' = TRUE
  /\ UNCHANGED <<bridge, url, dockOn, gates, dock, ghosts, bounds>>

\* The user ends the bridge.
Quit ==
  /\ pc["main"] = "serve" /\ Goto("main", "join") /\ quit' = TRUE
  /\ UNCHANGED <<job, handle, held, dockPid, config, gates, dock, ghosts, bounds>>

\* A second is waited for the other thread.
Join ==
  /\ pc["main"] = "join" /\ Goto("main", "undock")
  /\ joined' = (pc["retry"] \in {"none", "done"})
  /\ UNCHANGED <<job, handle, held, dockPid, quit, config, gates, dock, mine, blind, scarred,
                 bounds>>

\* stop_started_adsorb_window: --stop is run if the pid file names the dock this
\* bridge started; two seconds are waited for it to name one.
StopDock ==
  /\ pc["main"] = "undock"
  /\ IF dockPid # None /\ Controller = dockPid
     THEN stopper = "none" /\ stopper' = "kill" /\ Goto("main", "undocking")
     ELSE Goto("main", "ungate") /\ UNCHANGED stopper
  /\ dockPid' = None
  /\ UNCHANGED <<job, handle, held, quit, config, gates, ctl, mutex, pidFile, windows, ghosts,
                 bounds>>

DockStopped ==
  /\ pc["main"] = "undocking" /\ stopper = "none" /\ Goto("main", "ungate")
  /\ UNCHANGED <<job, handle, held, dockPid, quit, config, gates, dock, ghosts, bounds>>

\* The end of main, and once more at the exit of the process.
End ==
  /\ pc["main"] \in {"ungate", "exit"}
  /\ StopGateway
  /\ pc' = IF pc["main"] = "ungate" THEN [pc EXCEPT !["main"] = "exit"]
           ELSE [Nobody EXCEPT !["main"] = "off"]
  /\ UNCHANGED <<job, dockPid, quit, config, foreign, dock, ghosts, bounds>>

\* The bridge is killed.
Crash ==
  /\ Alive /\ Fault
  /\ pc' = [Nobody EXCEPT !["main"] = "off"] /\ joined' = FALSE
  /\ UNCHANGED <<job, handle, held, dockPid, quit, config, gates, dock, mine, blind, scarred, lives>>

-----------------------------------------------------------------------------
(* Gateways and ports.                                                     *)

\* A gateway listens, perhaps beside another program, or exits.
Up(g) ==
  /\ gate[g].st = "starting"
  /\ \/ gate' = [gate EXCEPT ![g].st = "up"] /\ UNCHANGED faults
     \/ gate' = [gate EXCEPT ![g] = NoGate] /\ GateFault
  /\ UNCHANGED <<bridge, config, foreign, dock, ghosts, lives>>

\* It answers too slowly for a while.
Busy(g) ==
  /\ gate[g].st = "up" /\ gate' = [gate EXCEPT ![g].st = "busy"] /\ GateFault
  /\ UNCHANGED <<bridge, config, foreign, dock, ghosts, lives>>

Answers(g) ==
  /\ gate[g].st = "busy" /\ gate' = [gate EXCEPT ![g].st = "up"]
  /\ UNCHANGED <<bridge, config, foreign, dock, ghosts, bounds>>

\* It dies; another program may get its pid.
Die(g) ==
  /\ Runs(g) /\ GateFault
  /\ \E st \in {"none", "other"} : gate' = [gate EXCEPT ![g] = [st |-> st, port |-> 0]]
  /\ UNCHANGED <<bridge, config, foreign, dock, ghosts, lives>>

\* The other program ends.
OtherEnds(g) ==
  /\ gate[g].st = "other" /\ gate' = [gate EXCEPT ![g] = NoGate]
  /\ UNCHANGED <<bridge, config, foreign, dock, ghosts, bounds>>

\* Another program takes a port or leaves it.
Meddle(p) ==
  /\ GateFault
  /\ foreign' = IF p \in foreign THEN foreign \ {p} ELSE foreign \cup {p}
  /\ ~PortOpen(p) \/ p \in foreign
  /\ UNCHANGED <<bridge, config, gate, dock, ghosts, lives>>

-----------------------------------------------------------------------------
(* The dock: pdd_adsorb_window.py.                                         *)

\* discover_workbench: a gateway answers to its probe.
Workbench == \E g \in Gates : gate[g].st = "up"

\* DockedWindow.launch: another browser window; stop_profile_browser: none is left.
LaunchWindow == windows' = windows + 1
EndBrowsers == windows' = 0

Step(d, from, to) == ctl[d] = from /\ ctl' = [ctl EXCEPT ![d] = to]

\* main: one controller gets the mutex, others end.
Acquire(d) ==
  /\ IF mutex = None THEN Step(d, "new", "pid") /\ mutex' = d
     ELSE Step(d, "new", "none") /\ UNCHANGED mutex
  /\ UNCHANGED <<bridge, config, gates, pidFile, windows, stopper, mine, joined, blind, bounds>>
  /\ scarred' = scarred \ {d}

\* write_pid
WritePid(d) ==
  /\ Step(d, "pid", "look") /\ pidFile' = d
  /\ UNCHANGED <<bridge, config, gates, mutex, windows, stopper, ghosts, bounds>>

\* discover_workbench, launch; or 45 seconds pass without a workbench.
Open(d) ==
  /\ \/ Step(d, "look", "watch") /\ Workbench /\ LaunchWindow
     \/ Step(d, "look", "close") /\ UNCHANGED windows
  /\ UNCHANGED <<bridge, config, gates, mutex, pidFile, stopper, ghosts, bounds>>

\* The user closes the window, which ends the controller; or an error ends it
\* and leaves the window.
Leave(d) ==
  /\ \/ Step(d, "watch", "close") /\ windows' = 0 /\ UNCHANGED faults
     \/ Step(d, "watch", "unpid") /\ UNCHANGED windows /\ Fault
  /\ UNCHANGED <<bridge, config, gates, mutex, pidFile, stopper, ghosts, lives>>

\* close: the browser of the profile is ended.
Close(d) ==
  /\ Step(d, "close", "unpid") /\ EndBrowsers
  /\ UNCHANGED <<bridge, config, gates, mutex, pidFile, stopper, ghosts, bounds>>

\* The pid file is removed, then the mutex is given back.
Unlink(d) ==
  /\ \/ /\ Step(d, "unpid", "free") /\ pidFile' = None /\ UNCHANGED mutex
     \/ /\ Step(d, "free", "none") /\ mutex' = None /\ UNCHANGED pidFile
  /\ UNCHANGED <<bridge, config, gates, windows, stopper, ghosts, bounds>>

\* stop_existing: the controller of the pid file is killed, ...
StopKill ==
  /\ stopper = "kill" /\ stopper' = "browsers"
  /\ IF Controller = None THEN UNCHANGED <<ctl, mutex>>
     ELSE /\ ctl' = [ctl EXCEPT ![Controller] = "none"]
          /\ mutex' = IF mutex = Controller THEN None ELSE mutex
  /\ UNCHANGED <<bridge, config, gates, pidFile, windows, ghosts, bounds>>

\* ... every dock browser, ...
StopBrowsers ==
  /\ stopper = "browsers" /\ stopper' = "unlink" /\ EndBrowsers
  /\ UNCHANGED <<bridge, config, gates, ctl, mutex, pidFile, ghosts, bounds>>

\* ... and the pid file, whoever wrote it.
StopUnlink ==
  /\ stopper = "unlink" /\ stopper' = "none" /\ pidFile' = None
  /\ scarred' = scarred \cup {d \in Docks : ctl[d] # "none"}
  /\ UNCHANGED <<bridge, config, gates, ctl, mutex, windows, mine, joined, blind, bounds>>

\* wake_dock: with no window and no controller, one is started.
Wake ==
  /\ dockOn /\ Fault
  /\ windows = 0 /\ Controller = None
  /\ \E d \in Docks : ctl[d] = "none" /\ ctl' = [ctl EXCEPT ![d] = "new"]
  /\ UNCHANGED <<bridge, config, gates, mutex, pidFile, windows, stopper, ghosts, lives>>

-----------------------------------------------------------------------------

StartGateway(w) ==
  \/ Scan(w) \/ ScanFails(w) \/ Adopt(w) \/ Popen(w) \/ Note(w)
  \/ PollAnswers(w) \/ PollFails(w)

Bridge == Fork \/ Retry \/ Join \/ StopDock \/ DockStopped \/ End
Control(d) == Acquire(d) \/ WritePid(d) \/ Open(d) \/ Close(d) \/ Unlink(d)
Stopper == StopKill \/ StopBrowsers \/ StopUnlink

Next ==
  \/ \E w \in Threads : StartGateway(w) \/ PollEnds(w) \/ StartDock(w)
  \/ Bridge \/ Launch \/ Setup \/ Quit \/ Crash
  \/ \E g \in Gates : Up(g) \/ Busy(g) \/ Answers(g) \/ Die(g) \/ OtherEnds(g)
  \/ \E p \in Ports : Meddle(p)
  \/ \E d \in Docks : Control(d) \/ Leave(d)
  \/ Stopper \/ Wake

Spec == Init /\ [][Next]_vars

-----------------------------------------------------------------------------
(* Properties.                                                             *)

\* Types; a controller past the mutex holds it.
TypeOK ==
  /\ pc["main"] \in {"off", "scan", "adopt", "popen", "note", "poll", "dock", "fork", "serve",
                     "join", "undock", "undocking", "ungate", "exit"}
  /\ handle \in Gates \cup {None} /\ dockPid \in Docks \cup {None}
  /\ url \in Ports /\ foreign \subseteq Ports
  /\ \A d \in Docks : ctl[d] \in {"pid", "look", "watch", "close", "unpid", "free"} => mutex = d
  /\ pidFile \in Docks \cup {None} /\ windows \in Nat

\* A second gateway runs beside the first only if the first did not listen or did
\* not answer when it was looked for; a port that moved, a dead bridge or a dead
\* gateway do not lead to two.
OneGateway == Cardinality(Running) > 1 => blind

\* A bridge that ended in order leaves no gateway, started or adopted, if its second
\* thread was done in time.
EndLeavesNone == ~Alive /\ joined => mine \cap Running = {}

\* A program that has got the pid of a dead gateway is never ended.
ForeignIsSafe ==
  [][\A g \in Gates : gate[g].st = "other" => gate'[g].st = "other" \/ OtherEnds(g)]_vars

\* The pid file names the controller at work, unless a --stop removed it in the
\* controller's life: controllers that end or get no mutex leave it alone.
PidIsHolder ==
  \A d \in Docks : ctl[d] \in {"look", "watch", "close"} /\ d \notin scarred => pidFile = d

\* Once there is a configuration the bridge gets its gateway, if there is a port,
\* unless a first attempt left it a dead one (then there is no second thread).
SetupIsServed ==
  []<>(ready /\ pc["retry"] # "none" /\ ~quit /\ Alive
         => held # None \/ Ports \subseteq foreign)
=============================================================================
