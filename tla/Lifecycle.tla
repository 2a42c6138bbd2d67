------------------------------ MODULE Lifecycle ------------------------------
(***************************************************************************)
(* Starting and ending, outside and inside the process of the bridge: the  *)
(* processes of the machine, to which the bridge's window is something     *)
(* that serves until the user quits (Processes), and the agents that the   *)
(* window starts and stops, to which the other processes do not matter     *)
(* (AgentLife).  The states are those of one of the two views, the other   *)
(* one at rest.                                                            *)
(***************************************************************************)
EXTENDS Processes

CONSTANTS MaxStarts

VARIABLES
  view,  \* the part looked at: the "machine", or the "window" of the bridge
  mode, phase, gui, agent, calls, run, stopped, ws, watcher, cdp, cut, effective, pull,
  early, caught, overtaken

Life == INSTANCE AgentLife

ASSUME LifecycleAssumption == Life!LifeAssumption

lifeVars == <<mode, phase, gui, agent, calls, run, stopped, ws, watcher, cdp, cut,
              effective, pull, early, caught, overtaken>>
cycleVars == <<view, vars, lifeVars>>

Machine == view = "machine" /\ UNCHANGED <<view, lifeVars>>
Window == view = "window" /\ UNCHANGED <<view, vars>>

\* Of the view not looked at nothing is left open.
LifecycleInit ==
  /\ Init /\ Life!Init
  /\ \/ view = "machine" /\ mode = "cdp"
     \/ view = "window" /\ ready /\ dockOn /\ foreign = {}

LifecycleNext == (Next /\ Machine) \/ (Life!Next /\ Window)

\* Threads run, and processes that start get somewhere; the window's thread goes on, calls
\* every callback and ticks.  The threads of an agent may hang.
LifecycleFairness ==
  /\ \A w \in Threads : WF_cycleVars((StartGateway(w) \/ StartDock(w)) /\ Machine)
  /\ WF_cycleVars(Bridge /\ Machine)
  /\ \A g \in Gates : WF_cycleVars((Up(g) \/ Answers(g) \/ OtherEnds(g)) /\ Machine)
  /\ WF_cycleVars((Stopper \/ \E d \in Docks : Control(d)) /\ Machine)
  /\ WF_cycleVars(Life!Stopping /\ Window)
  /\ WF_cycleVars(Life!Callback /\ Window)
  /\ WF_cycleVars(Life!Tick /\ Window)

LifecycleSpec == LifecycleInit /\ [][LifecycleNext]_cycleVars /\ LifecycleFairness

-----------------------------------------------------------------------------
\* Types, of both views.
LifecycleTypeOK == TypeOK /\ Life!TypeOK

\* See AgentLife: two agents never work side by side.
OneAgent == Life!OneAgent

\* See AgentLife: when a stopped agent has ended, all its threads have been told to end.
StopReachesAll == Life!StopReachesAll

\* See AgentLife: the buttons do not stay grey.
ButtonsReturn == Life!ButtonsReturn
=============================================================================
