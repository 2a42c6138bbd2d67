----------------------------- MODULE AgentLife ------------------------------
(***************************************************************************)
(* Starting and stopping the agent from the window (bridge/gui.py,         *)
(* BridgeAgent.run_forever and stop of bridge/agent.py, and the start and  *)
(* stop of the threads it has: log watcher, CDP source, WebSocket to the   *)
(* center, pull of the history).  The window's thread runs one handler at  *)
(* a time, each to its end; the threads of an agent run beside it, and     *)
(* those of a stopped agent may run beside the next one.                   *)
(***************************************************************************)
EXTENDS Naturals, FiniteSets

CONSTANTS
  MaxStarts, \* bound: agents that are started, one after the other
  None

Agents == 1 .. MaxStarts

\* What the constants are (assumed where the module is used).
LifeAssumption == MaxStarts \in Nat /\ None \notin Nat

VARIABLES
  mode,     \* the feed, and what is configured beside it
  phase,    \* BridgeGuiApp._phase
  gui,      \* the step of agent.stop the window's thread is at
  agent,    \* BridgeGuiApp.agent and agent_thread, by the number of the agent
  calls,    \* callbacks given to root.after
  run,      \* where run_forever of each agent is
  stopped,  \* agents whose _stop is set
  ws,       \* agents with a WebSocket thread
  watcher,  \* the thread of each log watcher
  cdp,      \* the thread of each CDP source: off, running, or in a callback
  cut,      \* agents whose source has been told to stop (_stop_evt)
  effective,\* _effective_source
  pull,     \* the history thread: off, between pulls, or waiting for one
  early,    \* history: agents that started a thread after they were stopped
  caught,   \* history: agents whose source started the watcher after the end
  overtaken \* history: the end of an agent was told to the window of a newer one

window == <<phase, gui, agent, calls>>
feeds == <<watcher, cdp, cut, effective>>
ghosts == <<early, caught, overtaken>>
vars == <<mode, window, run, stopped, ws, feeds, pull, ghosts>>

\* The CDP source, the logs, or the logs with a source that only fills the history,
\* or with the WebSocket to the center.
Init ==
  /\ mode \in {"cdp", "pull", "ws"}
  /\ phase = "stopped" /\ gui = "idle" /\ agent = None /\ calls = {}
  /\ run = [a \in Agents |-> "none"] /\ stopped = {} /\ ws = {}
  /\ watcher = [a \in Agents |-> "off"] /\ cdp = [a \in Agents |-> "off"]
  /\ cut = {} /\ effective = [a \in Agents |-> IF mode = "cdp" THEN "cdp" ELSE "logs"]
  /\ pull = [a \in Agents |-> "off"]
  /\ early = {} /\ caught = {} /\ overtaken = FALSE

Call(what, a) == [what |-> what, agent |-> a]
Alive(a) == run[a] \notin {"none", "ended"}
At(a, from, to) == run[a] = from /\ run' = [run EXCEPT ![a] = to]

-----------------------------------------------------------------------------
(* The window.                                                             *)

\* start_agent, and the beginning of its thread.
Start(a) ==
  /\ gui = "idle" /\ phase = "stopped"
  /\ At(a, "none", "register") /\ \A b \in Agents : b < a => run[b] # "none"
  /\ phase' = "starting" /\ agent' = a
  /\ calls' = calls \cup {Call("mark", a)}
  /\ UNCHANGED <<mode, gui, stopped, ws, feeds, pull, ghosts>>

\* Mutant of Stop: the event is not set.
StopUnset ==
  /\ gui = "idle" /\ phase \in {"starting", "running"}
  /\ phase' = "stopping" /\ gui' = "watcher"
  /\ UNCHANGED <<mode, agent, calls, run, stopped, ws, feeds, pull, ghosts>>

\* stop_agent: the event is set, ...
Stop ==
  /\ gui = "idle" /\ phase \in {"starting", "running"}
  /\ phase' = "stopping" /\ gui' = "watcher"
  /\ stopped' = stopped \cup {agent}
  /\ UNCHANGED <<mode, agent, calls, run, ws, feeds, pull, ghosts>>

\* LogWatcher.stop waits for the thread for a while only.
WatcherStop(a) ==
  watcher' = [watcher EXCEPT ![a] = IF @ = "off" THEN "off" ELSE "stops"]

\* CenterEventChannel.stop
StopWs(a) == ws' = ws \ {a}

\* Mutant of StopAgent: the source is left running.
StopAgentNoSource ==
  \/ gui = "watcher" /\ gui' = "rest" /\ WatcherStop(agent) /\ UNCHANGED <<ws, cut, calls>>
  \/ /\ gui = "rest" /\ gui' = "idle"
     /\ StopWs(agent)
     /\ calls' = calls \cup {Call("force", agent)} /\ UNCHANGED <<watcher, cut>>

\* ... BridgeAgent.stop stops the watcher, then the WebSocket or the source, and a last
\* callback is given two seconds.
StopAgent ==
  \/ gui = "watcher" /\ gui' = "rest" /\ WatcherStop(agent) /\ UNCHANGED <<ws, cut, calls>>
  \/ /\ gui = "rest" /\ gui' = "idle"
     /\ StopWs(agent) /\ cut' = cut \cup {agent}
     /\ calls' = calls \cup {Call("force", agent)} /\ UNCHANGED watcher

Stopping ==
  /\ StopAgent
  /\ UNCHANGED <<mode, phase, agent, run, stopped, cdp, effective, pull, ghosts>>

\* Mutant of Force: only for a thread that has ended.
ForceEnded(c) ==
  /\ c.what = "force"
  /\ IF phase = "stopping" /\ ~Alive(c.agent)
     THEN phase' = "stopped" ELSE UNCHANGED phase

\* _force_stopped
Force(c) ==
  /\ c.what = "force"
  /\ phase' = IF phase = "stopping" THEN "stopped" ELSE phase

\* _mark_running
Mark(c) ==
  /\ c.what = "mark"
  /\ phase' = IF phase = "starting" THEN "running" ELSE phase

\* _done, whichever agent's thread has ended.
Done(c) ==
  /\ c.what = "done"
  /\ phase' = IF phase # "stopping" THEN "stopped" ELSE phase

Callback ==
  /\ gui = "idle"
  /\ \E c \in calls :
       /\ Force(c) \/ Mark(c) \/ Done(c)
       /\ calls' = calls \ {c}
       /\ overtaken' = (overtaken \/ (c.agent # agent /\ phase' # phase))
  /\ UNCHANGED <<mode, gui, agent, run, stopped, ws, feeds, pull, early, caught>>

\* _tick: the thread has ended.
Tick ==
  /\ gui = "idle" /\ phase # "stopped"
  /\ ~Alive(agent)
  /\ phase' = "stopped"
  /\ UNCHANGED <<mode, gui, agent, calls, run, stopped, ws, feeds, pull, ghosts>>

-----------------------------------------------------------------------------
(* run_forever.                                                            *)

\* The center has answered, or could not be reached.
Register(a) ==
  /\ At(a, "register", IF mode = "ws" THEN "ws" ELSE "feeds")
  /\ UNCHANGED <<mode, window, stopped, ws, feeds, pull, ghosts>>

\* center_ws.start, which clears its own stop.
StartWs(a) ==
  /\ At(a, "ws", "feeds")
  /\ ws' = ws \cup {a}
  /\ early' = IF a \in stopped THEN early \cup {a} ELSE early
  /\ UNCHANGED <<mode, window, stopped, feeds, pull, caught, overtaken>>

\* PddbridgeSource.start
StartSource(a) ==
  /\ cdp' = [cdp EXCEPT ![a] = "runs"] /\ cut' = cut \ {a}
  /\ early' = IF a \in stopped THEN early \cup {a} ELSE early

\* _start_feeds
StartFeeds(a) ==
  /\ At(a, "feeds", IF mode = "pull" THEN "pull" ELSE "loop")
  /\ IF mode = "cdp" THEN StartSource(a) /\ UNCHANGED watcher
     ELSE watcher' = [watcher EXCEPT ![a] = "runs"] /\ UNCHANGED <<cdp, cut, early>>
  /\ UNCHANGED <<mode, window, stopped, ws, effective, pull, caught, overtaken>>

\* The source that only fills the history, and the thread that asks it to.
StartPull(a) ==
  /\ At(a, "pull", "loop")
  /\ StartSource(a)
  /\ pull' = [pull EXCEPT ![a] = "waits"]
  /\ UNCHANGED <<mode, window, stopped, ws, watcher, effective, caught, overtaken>>

\* Mutant of End: the watcher is left to BridgeAgent.stop.
EndAtOnce(a) ==
  /\ a \in stopped /\ At(a, "loop", "ended")
  /\ calls' = calls \cup {Call("done", a)}
  /\ UNCHANGED watcher

\* finally: the watcher is stopped once more, and the window is told of the end.
End(a) ==
  /\ a \in stopped /\ At(a, "loop", "ended")
  /\ calls' = calls \cup {Call("done", a)}
  /\ WatcherStop(a)

Ends(a) ==
  /\ End(a)
  /\ UNCHANGED <<mode, phase, gui, agent, stopped, ws, cdp, cut, effective,
                 pull, ghosts>>

-----------------------------------------------------------------------------
(* The threads of the feeds.                                               *)

\* LogWatcher._run ends after a last flush.
WatcherEnds(a) ==
  /\ watcher[a] = "stops" /\ watcher' = [watcher EXCEPT ![a] = "off"]
  /\ UNCHANGED <<mode, window, run, stopped, ws, cdp, cut, effective, pull, ghosts>>

\* PddbridgeSource._run: the source gives way (its return is left to SourceSwitch).
\* Where the logs are the feed its callback changes nothing.
Turns(a) ==
  /\ cdp[a] = "runs" /\ a \notin cut /\ effective[a] = "cdp"
  /\ cdp' = [cdp EXCEPT ![a] = "falls"]
  /\ UNCHANGED <<mode, window, run, stopped, ws, watcher, cut, effective, pull, ghosts>>

\* _fallback_to_tanyu_logs: the watcher is started.
FallBack(a) ==
  /\ cdp[a] = "falls" /\ cdp' = [cdp EXCEPT ![a] = "runs"]
  /\ effective' = [effective EXCEPT ![a] = "logs"]
  /\ watcher' = [watcher EXCEPT ![a] = "runs"]
  /\ caught' = IF run[a] = "ended" THEN caught \cup {a} ELSE caught
  /\ UNCHANGED <<mode, window, run, stopped, ws, cut, pull, early, overtaken>>

SourceEnds(a) ==
  /\ cdp[a] = "runs" /\ a \in cut /\ cdp' = [cdp EXCEPT ![a] = "off"]
  /\ UNCHANGED <<mode, window, run, stopped, ws, watcher, cut, effective, pull, ghosts>>

\* _history_pull_loop: a pull; with no source it fails at once.
Pull(a) ==
  /\ pull[a] = "waits" /\ a \notin stopped /\ cdp[a] # "off"
  /\ pull' = [pull EXCEPT ![a] = "pulls"]
  /\ UNCHANGED <<mode, window, run, stopped, ws, feeds, ghosts>>

\* pull_history: the source answers, or the time is over.
Pulled(a) ==
  /\ pull[a] = "pulls"
  /\ pull' = [pull EXCEPT ![a] = "waits"]

PullReturns(a) ==
  /\ Pulled(a)
  /\ UNCHANGED <<mode, window, run, stopped, ws, feeds, ghosts>>

PullEnds(a) ==
  /\ pull[a] = "waits" /\ a \in stopped /\ pull' = [pull EXCEPT ![a] = "off"]
  /\ UNCHANGED <<mode, window, run, stopped, ws, feeds, ghosts>>

-----------------------------------------------------------------------------

RunForever(a) == Register(a) \/ StartWs(a) \/ StartFeeds(a) \/ StartPull(a) \/ Ends(a)
Feed(a) == FallBack(a) \/ SourceEnds(a)
History(a) == PullReturns(a) \/ PullEnds(a)

Next ==
  \/ Stop \/ Stopping \/ Callback \/ Tick
  \/ \E a \in Agents :
       Start(a) \/ RunForever(a) \/ Feed(a) \/ History(a) \/ WatcherEnds(a) \/ Turns(a)
         \/ Pull(a)

Spec == Init /\ [][Next]_vars

-----------------------------------------------------------------------------
(* Properties.                                                             *)

\* Types; the window's thread is in agent.stop only while it has an agent.
TypeOK ==
  /\ phase \in {"stopped", "starting", "running", "stopping"}
  /\ gui \in {"idle", "watcher", "rest"} /\ (gui # "idle" => agent \in Agents)
  /\ agent \in Agents \cup {None}
  /\ run \in [Agents -> {"none", "register", "ws", "feeds", "pull", "loop", "ended"}]
  /\ stopped \subseteq Agents /\ ws \subseteq Agents /\ cut \subseteq Agents
  /\ watcher \in [Agents -> {"off", "runs", "stops"}]
  /\ cdp \in [Agents -> {"off", "runs", "falls"}]
  /\ pull \in [Agents -> {"off", "waits", "pulls"}]

\* Two agents never work side by side, unless the end of an old one was taken for the
\* end of the new one (_done and _force_stopped do not look whose they are).
OneAgent ==
  ~overtaken => Cardinality({a \in Agents : Alive(a) /\ a \notin stopped}) <= 1

\* When an agent has been stopped and run_forever has ended, every thread it had has
\* been told to end.  Only the source or the WebSocket of one that was stopped while
\* it registered stay, and the log watcher that a source starts in its callback
\* when run_forever has stopped it.
StopReachesAll ==
  \A a \in stopped :
    run[a] = "ended" /\ (agent = a => gui = "idle") =>
      /\ a \in ws \/ (cdp[a] # "off" /\ a \notin cut) => a \in early
      /\ watcher[a] = "runs" => a \in caught

\* The buttons do not stay grey, even if the agent hangs ("so that the button is not
\* grey for ever"): the window soon says that it runs or that it is stopped.
ButtonsReturn == []<>(phase \in {"running", "stopped"})
=============================================================================
