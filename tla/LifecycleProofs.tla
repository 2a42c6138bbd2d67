-------------------------- MODULE LifecycleProofs --------------------------
(***************************************************************************)
(* Theorems about Lifecycle, for any numbers of pids, ports and agents:    *)
(*   - the processes of the machine: a second gateway only beside one that *)
(*     was not seen, none left by a bridge that ended in order, no other   *)
(*     program ended, and a pid file that names the dock at work;          *)
(*   - the window of the bridge: one agent at work, and a stopped one      *)
(*     whose threads have all been told.                                   *)
(***************************************************************************)
EXTENDS Lifecycle, FiniteSetTheorems, TLAPS

-----------------------------------------------------------------------------
(* The machine: Processes.                                                 *)

Jobs == [tried : SUBSET Ports, port : Nat, gate : Gates \cup {None}]
GateStates == [st : {"none", "starting", "up", "busy", "other"}, port : Nat]

\* The types of what the gateway's part is about.
GateTypes ==
  /\ DOMAIN pc = Threads /\ job \in [Threads -> Jobs]
  /\ handle \in Gates \cup {None} /\ held \in [gate : Gates, port : Nat] \cup {None}
  /\ gate \in [Gates -> GateStates]
  /\ mine \subseteq Gates /\ blind \in BOOLEAN /\ joined \in BOOLEAN

Seeking == {"scan", "adopt", "popen", "note", "poll"}
Ending == {"undock", "undocking", "ungate", "exit"}

\* One thread at a time is in start_local_gateway, and what it knows of its gateway
\* is true.
OneSeeker ==
  /\ pc["main"] \in Seeking \cup {"dock", "fork", "off"} => pc["retry"] = "none"
  /\ joined => pc["main"] \in Ending \cup {"off"} /\ pc["retry"] \in {"none", "done"}
  /\ pc["main"] \in Seeking \cup {"dock", "fork"} \/ pc["retry"] = "wait"
       => job["retry"].tried = {}
  /\ \A w \in Threads : pc[w] \in {"adopt", "note", "poll"} =>
       job[w].gate \in Gates /\ (job[w].gate \in Running => gate[job[w].gate].port = job[w].port)

\* If no gateway went unseen there is one at most, at the configured port, and none
\* where a port is taken for another.
Single ==
  ~blind =>
    /\ \A g, h \in Running : g = h
    /\ \A g \in Running : gate[g].port = url
    /\ \A w \in Threads :
         /\ pc[w] = "popen" \/ (pc[w] = "scan" /\ job[w].tried # {}) => Running = {}
         /\ pc[w] = "adopt" => \A g \in Running : gate[g].port = job[w].port

Left == mine \cap Running
InOrder == joined \/ pc["main"] \notin Ending \cup {"off"}

\* A bridge that is at work, or ends in order, remembers the gateway it has, but for
\* the moment between start and note.
Remembered ==
  InOrder =>
    /\ \A w \in Threads : pc[w] \in {"scan", "adopt", "popen"} => Left = {}
    /\ pc["retry"] = "wait" => Left = {}
    /\ \A w \in Threads :
         pc[w] \in {"note", "poll"} => handle = job[w].gate /\ Left \subseteq {job[w].gate}
    /\ (\A w \in Threads : pc[w] # "note")
         => \A g \in Left : held = [gate |-> g, port |-> gate[g].port]
    /\ pc["main"] \in {"exit", "off"} => Left = {}

MachineInv == GateTypes /\ OneSeeker /\ Single /\ Remembered

\* Gateways may have ended, none has been started or has moved.
Shrinks ==
  /\ Running' \subseteq Running
  /\ \A g \in Running' : gate'[g].port = gate[g].port

-----------------------------------------------------------------------------
LEMMA MachineInit == Init => MachineInv
<1> SUFFICES ASSUME Init PROVE MachineInv
  OBVIOUS
<1> USE ProcessesAssumption DEF Init
<1>1. GateTypes
  BY DEF GateTypes, Nobody, Threads, Jobs, NoJob, GateStates, NoGate
<1>2. OneSeeker
  BY DEF OneSeeker, Nobody, Threads, Seeking, NoJob
<1>3. Running = {}
  BY DEF Running, Runs, NoGate
<1>4. Single
  BY <1>3 DEF Single
<1>5. Remembered
  BY <1>3 DEF Remembered, Left, Nobody, Threads
<1> QED
  BY <1>1, <1>2, <1>4, <1>5 DEF MachineInv

\* What stop_local_gateway does to the gateways.
LEMMA StopShrinks ==
  ASSUME GateTypes, StopGateway
  PROVE  /\ Shrinks /\ gate' \in [Gates -> GateStates]
         /\ held' = None /\ handle' = None
         /\ \A g \in Running : held = [gate |-> g, port |-> gate[g].port] => g \notin Running'
<1> USE ProcessesAssumption DEF GateTypes
<1>1. gate' \in [Gates -> GateStates]
  BY DEF StopGateway, NoGate, GateStates
<1>2. Shrinks
  BY DEF Shrinks, StopGateway, Running, Runs, NoGate
<1>3. ASSUME NEW g \in Running, held = [gate |-> g, port |-> gate[g].port]
      PROVE  g \notin Running'
  <2>1. g \in Gates /\ held # None
    BY <1>3 DEF Running, GateStates
  <2>2. g \in Terminated
    BY <1>3, <2>1 DEF Terminated, Matches, Running
  <2>3. gate'[g] = NoGate
    BY <2>1, <2>2 DEF StopGateway
  <2> QED
    BY <2>3 DEF Running, Runs, NoGate
<1> QED
  BY <1>1, <1>2, <1>3 DEF StopGateway

\* What the gateways do for themselves, and what the dock and the ports do.
Elsewhere ==
  /\ gate' \in [Gates -> GateStates] /\ Shrinks
  /\ UNCHANGED <<pc, job, handle, held, url, mine, joined, blind>>

LEMMA OthersAreElsewhere ==
  ASSUME GateTypes,
         \/ Setup \/ Stopper \/ Wake
         \/ \E g \in Gates : Up(g) \/ Busy(g) \/ Answers(g) \/ Die(g) \/ OtherEnds(g)
         \/ \E p \in Ports : Meddle(p)
         \/ \E d \in Docks : Control(d) \/ Leave(d)
  PROVE  Elsewhere
<1> USE DEF GateTypes
<1>a. ASSUME UNCHANGED <<pc, job, handle, held, url, mine, joined, blind, gate>> PROVE Elsewhere
  BY <1>a DEF Elsewhere, Shrinks, Running, Runs
<1>1. ASSUME NEW g \in Gates, Up(g) \/ Busy(g) \/ Answers(g) \/ Die(g) \/ OtherEnds(g)
      PROVE  Elsewhere
  <2>1. /\ gate' \in [Gates -> GateStates] /\ \A h \in Gates : h # g => gate'[h] = gate[h]
        /\ gate'[g].st \in {"none", "other"} \/ (Runs(g) /\ gate'[g].port = gate[g].port)
    <3>1. CASE Up(g)
      <4>1. CASE gate' = [gate EXCEPT ![g].st = "up"]
        BY <3>1, <4>1 DEF Up, Runs, GateStates
      <4>2. CASE gate' = [gate EXCEPT ![g] = NoGate]
        BY <4>2 DEF NoGate, GateStates
      <4> QED
        BY <3>1, <4>1, <4>2 DEF Up
    <3>2. CASE Busy(g)
      BY <3>2 DEF Busy, Runs, GateStates
    <3>3. CASE Answers(g)
      BY <3>3 DEF Answers, Runs, GateStates
    <3>4. CASE Die(g)
      BY <3>4 DEF Die, GateStates
    <3>5. CASE OtherEnds(g)
      BY <3>5 DEF OtherEnds, NoGate, GateStates
    <3> QED
      BY <1>1, <3>1, <3>2, <3>3, <3>4, <3>5
  <2>2. gate' \in [Gates -> GateStates] /\ Shrinks
    BY <2>1 DEF Shrinks, Running, Runs
  <2> QED
    BY <1>1, <2>2 DEF Elsewhere, Up, Busy, Answers, Die, OtherEnds, bridge, config, ghosts
<1>2. CASE Setup \/ Stopper \/ Wake
  BY <1>2, <1>a
  DEF Setup, Stopper, StopKill, StopBrowsers, StopUnlink, Wake, bridge, config, gates, ghosts
<1>3. ASSUME NEW p \in Ports, Meddle(p) PROVE Elsewhere
  BY <1>3, <1>a DEF Meddle, bridge, config, ghosts
<1>4. ASSUME NEW d \in Docks, Control(d) \/ Leave(d) PROVE Elsewhere
  BY <1>4, <1>a
  DEF Control, Acquire, WritePid, Open, Close, Unlink, Leave, bridge, config, gates, ghosts
<1> QED
  BY <1>1, <1>2, <1>3, <1>4

LEMMA GateTypesStep == GateTypes /\ OneSeeker /\ [Next]_vars => GateTypes'
<1> SUFFICES ASSUME GateTypes, OneSeeker, [Next]_vars PROVE GateTypes'
  OBVIOUS
<1> USE ProcessesAssumption DEF GateTypes, Goto
<1>0. NoJob \in Jobs
  BY DEF NoJob, Jobs
<1>1. ASSUME NEW w \in Threads, Scan(w) PROVE GateTypes'
  <2>1. PICK p \in Ports : Look(w, p)
    BY <1>1 DEF Scan
  <2>2. p \in Nat
    BY DEF Ports
  <2>3. job' \in [Threads -> Jobs]
    <3>1. job[w] \in Jobs
      OBVIOUS
    <3>2. [job EXCEPT ![w].port = p] \in [Threads -> Jobs]
      BY <2>2, <3>1 DEF Jobs
    <3>3. [job EXCEPT ![w].tried = @ \cup {p}] \in [Threads -> Jobs]
      BY <3>1 DEF Jobs
    <3>4. \A g \in Gates : [job EXCEPT ![w].port = p, ![w].gate = g] \in [Threads -> Jobs]
      BY <2>2, <3>1 DEF Jobs
    <3>5. \/ job' = [job EXCEPT ![w].port = p] \/ job' = [job EXCEPT ![w].tried = @ \cup {p}]
          \/ \E g \in Gates : job' = [job EXCEPT ![w].port = p, ![w].gate = g]
      <4> DEFINE own == {g \in Gates : gate[g] = [st |-> "up", port |-> p]}
      <4>1. \/ \E g \in own : job' = [job EXCEPT ![w].port = p, ![w].gate = g]
            \/ job' = [job EXCEPT ![w].port = p]
            \/ job' = [job EXCEPT ![w].tried = @ \cup {p}]
        BY <2>1, Zenon DEF Look
      <4> QED
        BY <4>1
    <3> QED
      <4>1. CASE job' = [job EXCEPT ![w].port = p]
        BY <3>2, <4>1, Zenon
      <4>2. CASE job' = [job EXCEPT ![w].tried = @ \cup {p}]
        BY <3>3, <4>2, Zenon
      <4>3. CASE \E g \in Gates : job' = [job EXCEPT ![w].port = p, ![w].gate = g]
        <5>1. PICK g \in Gates : job' = [job EXCEPT ![w].port = p, ![w].gate = g]
          BY <4>3, Zenon
        <5>2. [job EXCEPT ![w].port = p, ![w].gate = g] \in [Threads -> Jobs]
          BY <3>4, Zenon
        <5> QED
          BY <5>1, <5>2, Zenon
      <4> QED
        BY <3>5, <4>1, <4>2, <4>3, Zenon
  <2>4. DOMAIN pc' = Threads
    BY <2>1 DEF Look
  <2>5. blind' \in BOOLEAN
    BY <2>1 DEF Look
  <2> QED
    BY <1>1, <2>3, <2>4, <2>5 DEF Scan, gates
<1>2. ASSUME NEW w \in Threads, ScanFails(w) PROVE GateTypes'
  BY <1>0, <1>2 DEF ScanFails, Failed, gates, ghosts
<1>3. ASSUME NEW w \in Threads, Adopt(w) PROVE GateTypes'
  <2>1. job[w].gate \in Gates /\ job[w].port \in Nat
    BY <1>3 DEF Adopt, OneSeeker, Jobs
  <2> QED
    BY <1>0, <1>3, <2>1 DEF Adopt, Remember, Started, gates
<1>4. ASSUME NEW w \in Threads, Popen(w) PROVE GateTypes'
  <2>1. job[w].port \in Nat
    BY DEF Jobs
  <2>2. CASE Failed(w) /\ UNCHANGED <<handle, gate, mine>>
    BY <1>0, <1>4, <2>2 DEF Popen, Failed
  <2>3. ASSUME NEW g \in Gates,
               gate' = [gate EXCEPT ![g] = [st |-> "starting", port |-> job[w].port]],
               job' = [job EXCEPT ![w].gate = g], handle' = g, mine' = mine \cup {g},
               Goto(w, "note")
        PROVE  GateTypes'
    <3>1. gate' \in [Gates -> GateStates] /\ job' \in [Threads -> Jobs]
      BY <2>1, <2>3 DEF GateStates, Jobs
    <3> QED
      BY <1>4, <2>3, <3>1 DEF Popen
  <2> QED
    BY <1>4, <2>2, <2>3 DEF Popen
<1>5. ASSUME NEW w \in Threads, Note(w) PROVE GateTypes'
  <2>1. job[w].port \in Nat
    BY DEF Jobs
  <2> QED
    BY <1>0, <1>5, <2>1 DEF Note, Failed, Remember, gates, ghosts
<1>6. ASSUME NEW w \in Threads, PollAnswers(w) \/ PollFails(w) PROVE GateTypes'
  BY <1>0, <1>6 DEF PollAnswers, PollFails, Failed, Started, gates, ghosts
<1>7. ASSUME NEW w \in Threads, PollEnds(w) PROVE GateTypes'
  BY <1>0, <1>7, StopShrinks DEF PollEnds, Failed, ghosts
<1>8. ASSUME NEW w \in Threads, StartDock(w) PROVE GateTypes'
  BY <1>8 DEF StartDock, gates, ghosts
<1>9. CASE Launch
  BY <1>0, <1>9 DEF Launch, Nobody, gates
<1>10. CASE Fork \/ Retry \/ Quit \/ StopDock \/ DockStopped
  <2>1. UNCHANGED <<job, handle, held, gate, mine, joined, blind>>
    BY <1>10 DEF Fork, Retry, Quit, StopDock, DockStopped, gates, ghosts
  <2>2. DOMAIN pc' = Threads
    BY <1>10 DEF Fork, Retry, Quit, StopDock, DockStopped, Threads
  <2> QED
    BY <2>1, <2>2
<1>11. CASE Join \/ Crash
  <2>1. DOMAIN pc' = Threads /\ joined' \in BOOLEAN
    <3>1. CASE Join
      BY <3>1 DEF Join
    <3>2. CASE Crash
      BY <3>2 DEF Crash, Nobody
    <3> QED
      BY <1>11, <3>1, <3>2
  <2>2. UNCHANGED <<job, handle, held, gate, mine, blind>>
    BY <1>11 DEF Join, Crash, gates
  <2> QED
    BY <2>1, <2>2
<1>12. CASE End
  BY <1>12, StopShrinks DEF End, Nobody, ghosts
<1>13. CASE Elsewhere
  BY <1>13 DEF Elsewhere
<1>14. CASE UNCHANGED vars
  BY <1>14 DEF vars, bridge, gates, ghosts
<1> QED
  BY <1>1, <1>2, <1>3, <1>4, <1>5, <1>6, <1>7, <1>8, <1>9, <1>10, <1>11, <1>12, <1>13, <1>14,
     OthersAreElsewhere DEF Next, StartGateway, Bridge

LEMMA OneSeekerStep == GateTypes /\ OneSeeker /\ [Next]_vars => OneSeeker'
<1> SUFFICES ASSUME GateTypes, OneSeeker, [Next]_vars PROVE OneSeeker'
  OBVIOUS
<1> USE ProcessesAssumption DEF GateTypes, OneSeeker, Goto, Seeking, Ending, Threads
<1>s. ASSUME Shrinks,
             \A w \in Threads : pc'[w] \in {"adopt", "note", "poll"} =>
               pc[w] \in {"adopt", "note", "poll"} /\ job'[w] = job[w]
      PROVE  \A w \in Threads : pc'[w] \in {"adopt", "note", "poll"} =>
               /\ job'[w].gate \in Gates
               /\ job'[w].gate \in Running' => gate'[job'[w].gate].port = job'[w].port
  BY <1>s DEF Shrinks
<1>a. ASSUME UNCHANGED gate PROVE Shrinks
  BY <1>a DEF Shrinks, Running, Runs
<1>1. ASSUME NEW w \in Threads, Scan(w) PROVE OneSeeker'
  <2>1. PICK p \in Ports : Look(w, p)
    BY <1>1 DEF Scan
  <2>2. UNCHANGED <<gate, joined>> /\ pc[w] = "scan"
    BY <1>1 DEF Scan, gates
  <2>3. CASE \E g \in Gates :
               /\ gate[g] = [st |-> "up", port |-> p] /\ Goto(w, "adopt")
               /\ job' = [job EXCEPT ![w].port = p, ![w].gate = g]
    <3>1. PICK g \in Gates :
               /\ gate[g] = [st |-> "up", port |-> p] /\ Goto(w, "adopt")
               /\ job' = [job EXCEPT ![w].port = p, ![w].gate = g]
      BY <2>3
    <3>2. job'[w].port = p /\ job'[w].gate = g /\ job'[w].tried = job[w].tried
      BY <3>1 DEF Jobs
    <3>3. \A v \in Threads : v # w => job'[v] = job[v] /\ pc'[v] = pc[v]
      BY <3>1
    <3>4. pc'[w] = "adopt" /\ DOMAIN pc' = Threads
      BY <3>1
    <3>5. gate[g].port = p
      BY <3>1
    <3> QED
      BY <2>2, <3>2, <3>3, <3>4, <3>5 DEF Runs
  <2>4. CASE job' = [job EXCEPT ![w].port = p] /\ Goto(w, "popen")
    <3>1. job'[w].tried = job[w].tried /\ \A v \in Threads : v # w => job'[v] = job[v] /\ pc'[v] = pc[v]
      BY <2>4 DEF Jobs
    <3> QED
      BY <2>2, <2>4, <3>1, <1>a, <1>s
  <2>5. CASE job' = [job EXCEPT ![w].tried = @ \cup {p}] /\ UNCHANGED pc
    BY <2>2, <2>5, <1>a, <1>s
  <2> QED
    BY <2>1, <2>3, <2>4, <2>5 DEF Look
<1>2. ASSUME NEW w \in Threads, ScanFails(w) PROVE OneSeeker'
  BY <1>2, <1>a, <1>s DEF ScanFails, Failed, NoJob, gates, ghosts
<1>3. ASSUME NEW w \in Threads, Adopt(w) PROVE OneSeeker'
  BY <1>3, <1>a, <1>s DEF Adopt, Started, NoJob, gates
<1>4. ASSUME NEW w \in Threads, Popen(w) PROVE OneSeeker'
  <2>1. UNCHANGED joined /\ pc[w] = "popen"
    BY <1>4 DEF Popen
  <2>2. CASE Failed(w) /\ UNCHANGED <<handle, gate, mine>>
    BY <2>1, <2>2, <1>a, <1>s DEF Failed, NoJob
  <2>3. ASSUME NEW g \in Gates,
               gate' = [gate EXCEPT ![g] = [st |-> "starting", port |-> job[w].port]],
               job' = [job EXCEPT ![w].gate = g], Goto(w, "note")
        PROVE  OneSeeker'
    <3>1. /\ job'[w].port = job[w].port /\ job'[w].gate = g /\ job'[w].tried = job[w].tried
          /\ gate'[g].port = job[w].port
      BY <2>3 DEF Jobs
    <3>2. /\ \A v \in Threads : v # w => job'[v] = job[v] /\ pc'[v] = pc[v]
          /\ pc'[w] = "note"
      BY <2>3
    <3>3. \A v \in Threads : v # w => pc[v] \notin {"adopt", "note", "poll"}
      BY <2>1
    <3> QED
      BY <2>1, <3>1, <3>2, <3>3
  <2> QED
    BY <1>4, <2>2, <2>3 DEF Popen
<1>5. ASSUME NEW w \in Threads, Note(w) PROVE OneSeeker'
  BY <1>5, <1>a, <1>s DEF Note, Failed, NoJob, gates, ghosts
<1>6. ASSUME NEW w \in Threads, PollAnswers(w) \/ PollFails(w) PROVE OneSeeker'
  BY <1>6, <1>a, <1>s DEF PollAnswers, PollFails, Failed, Started, NoJob, gates, ghosts
<1>7. ASSUME NEW w \in Threads, PollEnds(w) PROVE OneSeeker'
  <2>1. Shrinks /\ Failed(w) /\ pc[w] = "poll" /\ UNCHANGED joined
    BY <1>7, StopShrinks DEF PollEnds, ghosts
  <2> QED
    BY <2>1, <1>s DEF Failed, NoJob
<1>8. ASSUME NEW w \in Threads, StartDock(w) PROVE OneSeeker'
  BY <1>8, <1>a, <1>s DEF StartDock, gates, ghosts
<1>9. CASE Launch
  BY <1>9 DEF Launch, Nobody, NoJob
<1>10. CASE Fork \/ Retry \/ Quit \/ StopDock \/ DockStopped
  <2>1. UNCHANGED <<gate, job, joined>>
    BY <1>10 DEF Fork, Retry, Quit, StopDock, DockStopped, gates, ghosts
  <2>2. CASE Fork
    BY <2>1, <2>2, <1>a, <1>s DEF Fork
  <2>3. CASE Retry
    BY <2>1, <2>3, <1>a, <1>s DEF Retry
  <2>4. CASE Quit \/ StopDock \/ DockStopped
    BY <2>1, <2>4, <1>a, <1>s DEF Quit, StopDock, DockStopped
  <2> QED
    BY <1>10, <2>2, <2>3, <2>4
<1>11. CASE Join
  BY <1>11, <1>a, <1>s DEF Join, gates
<1>12. CASE Crash
  BY <1>12 DEF Crash, Nobody
<1>13. CASE End
  <2>1. Shrinks /\ UNCHANGED <<job, joined>>
    BY <1>13, StopShrinks DEF End, ghosts
  <2>2. CASE pc["main"] = "ungate"
    BY <1>13, <2>1, <2>2, <1>s DEF End
  <2>3. CASE pc["main"] = "exit"
    BY <1>13, <2>1, <2>3 DEF End, Nobody
  <2> QED
    BY <1>13, <2>2, <2>3 DEF End
<1>14. CASE Elsewhere
  BY <1>14, <1>s DEF Elsewhere
<1>15. CASE UNCHANGED vars
  <2>1. UNCHANGED <<gate, pc, job, joined>>
    BY <1>15 DEF vars, bridge, gates, ghosts
  <2> QED
    BY <2>1, <1>a, <1>s
<1> QED
  BY <1>1, <1>2, <1>3, <1>4, <1>5, <1>6, <1>7, <1>8, <1>9, <1>10, <1>11, <1>12, <1>13, <1>14,
     <1>15, OthersAreElsewhere DEF Next, StartGateway, Bridge

\* Where no gateway went unseen the one that runs is found before another is started.
LEMMA SingleStep == GateTypes /\ OneSeeker /\ Single /\ [Next]_vars => Single'
<1> SUFFICES ASSUME GateTypes, OneSeeker, Single, [Next]_vars PROVE Single'
  OBVIOUS
<1> USE ProcessesAssumption DEF GateTypes, Goto, Threads
<1>s. ASSUME Shrinks, UNCHANGED <<blind, url>>,
             \A w \in Threads : pc'[w] \in {"adopt", "popen"}
                                  \/ (pc'[w] = "scan" /\ job'[w].tried # {})
               => pc'[w] = pc[w] /\ job'[w] = job[w]
      PROVE  Single'
  BY <1>s DEF Single, Shrinks
<1>a. ASSUME UNCHANGED gate PROVE Shrinks
  BY <1>a DEF Shrinks, Running, Runs
<1>1. ASSUME NEW w \in Threads, Scan(w) PROVE Single'
  <2>1. PICK p \in Ports : IsNext(p, w) /\ Look(w, p)
    BY <1>1 DEF Scan
  <2>2. UNCHANGED <<gate, url>> /\ pc[w] = "scan" /\ Running' = Running
    BY <1>1 DEF Scan, gates, config, Running, Runs
  <2>3. \A v \in Threads : v # w => job'[v] = job[v] /\ pc'[v] = pc[v]
    BY <2>1 DEF Look
  <2>4. \A v \in Threads : v # w => pc[v] \notin Seeking
    BY <2>2 DEF OneSeeker, Seeking
  <2>5. CASE \E g \in Gates : /\ gate[g] = [st |-> "up", port |-> p]
                              /\ job' = [job EXCEPT ![w].port = p, ![w].gate = g]
                              /\ Goto(w, "adopt") /\ UNCHANGED blind
    <3>1. PICK g \in Gates : /\ gate[g] = [st |-> "up", port |-> p]
                             /\ job' = [job EXCEPT ![w].port = p, ![w].gate = g]
                             /\ Goto(w, "adopt") /\ UNCHANGED blind
      BY <2>5
    <3>2. job'[w].port = p /\ pc'[w] = "adopt"
      BY <3>1 DEF Jobs
    <3>3. g \in Running /\ gate[g].port = p
      BY <3>1 DEF Running, Runs
    <3>4. ~blind => \A h \in Running : gate[h].port = p
      BY <3>3 DEF Single
    <3> QED
      BY <2>2, <2>3, <2>4, <3>1, <3>2, <3>4 DEF Single, Seeking
  <2>6. CASE /\ {g \in Gates : gate[g] = [st |-> "up", port |-> p]} = {}
             /\ blind' = (blind \/ \E g \in Running : gate[g].st # "up")
    <3>1. ~blind' => ~blind /\ Running = {}
      <4> SUFFICES ASSUME ~blind', NEW g \in Running PROVE FALSE
        BY <2>6
      <4>1. ~blind /\ g \in Gates /\ gate[g].st = "up"
        BY <2>6 DEF Running
      <4>2. gate[g].port = url
        BY <4>1 DEF Single
      <4>3. job[w].tried = {}
        BY <2>2, <4>1 DEF Single
      <4>4. p = url
        BY <2>1, <4>3 DEF IsNext
      <4>5. gate[g] = [st |-> "up", port |-> p]
        BY <4>1, <4>2, <4>4 DEF GateStates
      <4> QED
        BY <2>6, <4>1, <4>5
    <3> QED
      BY <2>2, <3>1 DEF Single
  <2> QED
    BY <2>1, <2>5, <2>6 DEF Look
<1>2. ASSUME NEW w \in Threads, ScanFails(w) PROVE Single'
  BY <1>2, <1>a, <1>s DEF ScanFails, Failed, gates, ghosts, config
<1>3. ASSUME NEW w \in Threads, Adopt(w) PROVE Single'
  <2>1. UNCHANGED <<gate, blind>> /\ Running' = Running /\ url' = job[w].port /\ pc[w] = "adopt"
    BY <1>3 DEF Adopt, SaveUrl, gates, Running, Runs
  <2>2. \A v \in Threads : pc'[v] \notin {"adopt", "popen", "scan"}
    BY <1>3 DEF Adopt, Started, OneSeeker, Seeking
  <2> QED
    BY <2>1, <2>2 DEF Single
<1>4. ASSUME NEW w \in Threads, Popen(w) PROVE Single'
  <2>1. UNCHANGED blind /\ url' = job[w].port /\ pc[w] = "popen"
    BY <1>4 DEF Popen, SaveUrl
  <2>2. ~blind => Running = {}
    BY <2>1 DEF Single
  <2>3. \A v \in Threads : pc'[v] \notin {"adopt", "popen", "scan"}
    BY <1>4 DEF Popen, Failed, OneSeeker, Seeking
  <2>4. CASE UNCHANGED gate
    <3>1. Running' = Running
      BY <2>4 DEF Running, Runs
    <3> QED
      BY <2>1, <2>2, <2>3, <3>1 DEF Single
  <2>5. ASSUME NEW g \in Gates,
               gate' = [gate EXCEPT ![g] = [st |-> "starting", port |-> job[w].port]]
        PROVE  Single'
    <3>1. Running' \subseteq Running \cup {g} /\ gate'[g].port = job[w].port
      BY <2>5 DEF Running, Runs
    <3> QED
      BY <2>1, <2>2, <2>3, <3>1 DEF Single
  <2> QED
    BY <1>4, <2>4, <2>5 DEF Popen
<1>5. ASSUME NEW w \in Threads, Note(w) PROVE Single'
  BY <1>5, <1>a, <1>s DEF Note, Failed, gates, ghosts, config
<1>6. ASSUME NEW w \in Threads, PollAnswers(w) \/ PollFails(w) PROVE Single'
  BY <1>6, <1>a, <1>s DEF PollAnswers, PollFails, Failed, Started, gates, ghosts, config
<1>7. ASSUME NEW w \in Threads, PollEnds(w) PROVE Single'
  BY <1>7, <1>s, StopShrinks DEF PollEnds, Failed, ghosts, config
<1>8. ASSUME NEW w \in Threads, StartDock(w) PROVE Single'
  BY <1>8, <1>a, <1>s DEF StartDock, gates, ghosts, config
<1>9. CASE Launch
  BY <1>9, <1>a, <1>s DEF Launch, Nobody, NoJob, gates, config
<1>10. CASE Retry
  <2>1. \A w \in Threads : pc'[w] = "scan" => job'[w].tried = {} \/ pc[w] = "scan"
    BY <1>10 DEF Retry, OneSeeker
  <2> QED
    BY <1>10, <2>1, <1>a, <1>s DEF Retry, gates, ghosts, config
<1>11. CASE Fork \/ Quit \/ StopDock \/ DockStopped \/ Join \/ Crash
  BY <1>11, <1>a, <1>s DEF Fork, Quit, StopDock, DockStopped, Join, Crash, Nobody, gates, ghosts, config
<1>12. CASE End
  BY <1>12, <1>s, StopShrinks DEF End, Nobody, ghosts, config
<1>13. CASE Elsewhere
  BY <1>13, <1>s DEF Elsewhere
<1>14. CASE UNCHANGED vars
  BY <1>14, <1>a, <1>s DEF vars, bridge, gates, ghosts, config
<1> QED
  BY <1>1, <1>2, <1>3, <1>4, <1>5, <1>6, <1>7, <1>8, <1>9, <1>10, <1>11, <1>12, <1>13, <1>14,
     OthersAreElsewhere DEF Next, StartGateway, Bridge

\* The gateway of a bridge is noted, and what it started and could not keep is over.
LEMMA RememberedStep == GateTypes /\ OneSeeker /\ Remembered /\ [Next]_vars => Remembered'
<1> SUFFICES ASSUME GateTypes, OneSeeker, Remembered, [Next]_vars PROVE Remembered'
  OBVIOUS
<1> USE ProcessesAssumption DEF GateTypes, Goto, Threads
<1>0. \A g \in Gates : gate[g].port \in Nat
  BY DEF GateStates
<1>r. Running \subseteq Gates /\ Left \subseteq Gates
  BY DEF Running, Left
<1>s. ASSUME Shrinks, UNCHANGED <<mine, held, handle>>, InOrder' => InOrder,
             \A w \in Threads : pc'[w] \in Seeking =>
               pc'[w] = pc[w] /\ job'[w].gate = job[w].gate,
             pc'["retry"] = "wait" => pc["retry"] = "wait",
             \A w \in Threads : pc[w] = "note" => pc'[w] = "note",
             pc'["main"] \in {"exit", "off"} /\ InOrder' => pc["main"] \in {"exit", "off"}
      PROVE  Remembered'
  BY <1>s DEF Remembered, Shrinks, Left, Seeking
<1>a. ASSUME UNCHANGED gate PROVE Shrinks
  BY <1>a DEF Shrinks, Running, Runs
<1>1. ASSUME NEW w \in Threads, Scan(w) PROVE Remembered'
  <2>1. PICK p \in Ports : IsNext(p, w) /\ Look(w, p)
    BY <1>1 DEF Scan
  <2>2. /\ UNCHANGED <<gate, mine, held, handle, joined>> /\ pc[w] = "scan" /\ Left' = Left
    BY <1>1 DEF Scan, gates, Running, Runs, Left
  <2>3. /\ \A v \in Threads : v # w => job'[v] = job[v] /\ pc'[v] = pc[v]
        /\ pc'[w] \in {"scan", "adopt", "popen"}
    BY <2>1, <2>2 DEF Look
  <2>4. InOrder' <=> InOrder
    BY <2>2, <2>3 DEF InOrder, Ending
  <2> QED
    BY <2>2, <2>3, <2>4 DEF Remembered
<1>2. ASSUME NEW w \in Threads, ScanFails(w) PROVE Remembered'
  <2>1. UNCHANGED <<gate, mine, held, handle, joined>> /\ pc[w] = "scan" /\ Left' = Left
    BY <1>2 DEF ScanFails, gates, ghosts, Running, Runs, Left
  <2>2. /\ \A v \in Threads : v # w => job'[v] = job[v] /\ pc'[v] = pc[v]
        /\ pc'[w] \in {"fork", "wait"} /\ (w = "main" => pc'[w] = "fork")
    BY <1>2 DEF ScanFails, Failed
  <2>3. InOrder' <=> InOrder
    BY <2>1, <2>2 DEF InOrder, Ending
  <2> QED
    BY <2>1, <2>2, <2>3 DEF Remembered
<1>3. ASSUME NEW w \in Threads, Adopt(w) PROVE Remembered'
  <2>1. /\ pc[w] = "adopt" /\ UNCHANGED <<gate, joined>> /\ Running' = Running
        /\ mine' = mine \cup {job[w].gate}
        /\ held' = [gate |-> job[w].gate, port |-> job[w].port]
    BY <1>3 DEF Adopt, Remember, gates, Running, Runs
  <2>2. /\ \A v \in Threads : v # w => job'[v] = job[v] /\ pc'[v] = pc[v]
        /\ pc'[w] \in {"done", "dock"} /\ (w = "main" => pc'[w] = "dock")
    BY <1>3 DEF Adopt, Started
  <2>3. InOrder' <=> InOrder
    BY <2>1, <2>2 DEF InOrder, Ending
  <2>4. /\ \A v \in Threads : pc'[v] \notin Seeking
        /\ pc'["retry"] # "wait"
        /\ InOrder => pc'["main"] \notin {"exit", "off"}
    BY <2>1, <2>2 DEF OneSeeker, Seeking, Ending, InOrder
  <2>5. InOrder => \A g \in Left' : held' = [gate |-> g, port |-> gate'[g].port]
    BY <2>1 DEF Remembered, Left, OneSeeker
  <2> QED
    BY <2>3, <2>4, <2>5 DEF Remembered, Seeking
<1>4. ASSUME NEW w \in Threads, Popen(w) PROVE Remembered'
  <2>1. pc[w] = "popen" /\ UNCHANGED <<held, joined>> /\ \A v \in Threads : v # w => pc[v] \notin Seeking
    BY <1>4 DEF Popen, OneSeeker, Seeking
  <2>2. CASE Failed(w) /\ UNCHANGED <<handle, gate, mine>>
    <3>1. Left' = Left
      BY <2>2 DEF Left, Running, Runs
    <3>2. /\ \A v \in Threads : v # w => pc'[v] = pc[v]
          /\ pc'[w] \in {"fork", "wait"} /\ (w = "main" => pc'[w] = "fork")
      BY <2>2 DEF Failed
    <3>3. InOrder' <=> InOrder
      BY <2>1, <3>2 DEF InOrder, Ending
    <3> QED
      BY <2>1, <3>1, <3>2, <3>3 DEF Remembered, Seeking
  <2>3. ASSUME NEW g \in Gates,
               gate' = [gate EXCEPT ![g] = [st |-> "starting", port |-> job[w].port]],
               job' = [job EXCEPT ![w].gate = g], handle' = g, mine' = mine \cup {g},
               Goto(w, "note")
        PROVE  Remembered'
    <3>1. Left' \subseteq Left \cup {g}
      BY <2>3 DEF Left, Running, Runs
    <3>2. /\ \A v \in Threads : v # w => pc'[v] = pc[v]
          /\ pc'[w] = "note" /\ job'[w].gate = g
      BY <2>3 DEF Jobs
    <3>3. InOrder' <=> InOrder
      BY <2>1, <3>2 DEF InOrder, Ending
    <3>4. InOrder => Left = {}
      BY <2>1 DEF Remembered
    <3>5. InOrder => pc'["retry"] # "wait" /\ pc'["main"] \notin {"exit", "off"}
      BY <2>1, <3>2 DEF OneSeeker, InOrder, Seeking, Ending
    <3> QED
      BY <2>1, <2>3, <3>1, <3>2, <3>3, <3>4, <3>5 DEF Remembered, Seeking
  <2> QED
    BY <1>4, <2>2, <2>3 DEF Popen
<1>5. ASSUME NEW w \in Threads, Note(w) PROVE Remembered'
  <2>1. /\ pc[w] = "note" /\ UNCHANGED <<gate, mine, joined>> /\ Left' = Left
        /\ \A v \in Threads : v # w => pc[v] \notin Seeking
        /\ job[w].gate \in Gates
    BY <1>5 DEF Note, gates, ghosts, Left, Running, Runs, OneSeeker, Seeking
  <2>2. /\ \A v \in Threads : v # w => pc'[v] = pc[v]
        /\ pc'[w] \in {"fork", "wait", "poll"} /\ (w = "main" => pc'[w] \in {"fork", "poll"})
    BY <1>5 DEF Note, Failed
  <2>3. InOrder' <=> InOrder
    BY <2>1, <2>2 DEF InOrder, Ending
  <2>4. InOrder => handle = job[w].gate /\ Left \subseteq {job[w].gate}
    BY <2>1 DEF Remembered
  <2>5. InOrder => /\ handle' = job'[w].gate /\ job'[w] = job[w] /\ pc'[w] = "poll"
                   /\ held' = [gate |-> job[w].gate, port |-> job[w].port]
    BY <1>5, <2>1, <2>4 DEF Note, Remember
  <2>6. InOrder => pc'["retry"] # "wait" /\ pc'["main"] \notin {"exit", "off"}
    BY <2>1, <2>2, <2>5 DEF OneSeeker, InOrder, Seeking, Ending
  <2>7. InOrder => \A g \in Left' : held' = [gate |-> g, port |-> gate'[g].port]
    BY <2>1, <2>4, <2>5 DEF OneSeeker, Left
  <2> QED
    BY <2>1, <2>2, <2>3, <2>4, <2>5, <2>6, <2>7 DEF Remembered, Seeking
<1>6. ASSUME NEW w \in Threads, PollAnswers(w) \/ PollFails(w) PROVE Remembered'
  <2>1. /\ pc[w] = "poll" /\ UNCHANGED <<gate, mine, held, handle, joined>> /\ Left' = Left
        /\ \A v \in Threads : v # w => pc[v] \notin Seeking
        /\ job[w].gate \in Gates
    BY <1>6 DEF PollAnswers, PollFails, gates, ghosts, Left, Running, Runs, OneSeeker, Seeking
  <2>2. /\ \A v \in Threads : v # w => pc'[v] = pc[v]
        /\ pc'[w] \in {"fork", "wait", "done", "dock"} /\ (w = "main" => pc'[w] \in {"fork", "dock"})
        /\ pc'["retry"] = "wait" => PollFails(w) \/ pc["retry"] = "wait"
    BY <1>6, <2>1 DEF PollAnswers, PollFails, Failed, Started
  <2>3. InOrder' <=> InOrder
    BY <2>1, <2>2 DEF InOrder, Ending
  <2>4. InOrder => handle = job[w].gate /\ Left \subseteq {job[w].gate}
    BY <2>1 DEF Remembered
  <2>5. InOrder /\ PollFails(w) => Left = {}
    BY <2>1, <2>4 DEF PollFails, Left, Running
  <2>6. InOrder => \A g \in Left : held = [gate |-> g, port |-> gate[g].port]
    BY <2>1 DEF Remembered, Seeking
  <2>7. InOrder => pc'["main"] \notin {"exit", "off"}
    BY <2>1, <2>2 DEF OneSeeker, InOrder, Seeking, Ending
  <2>8. \A v \in Threads : pc'[v] \notin Seeking
    BY <2>1, <2>2 DEF Seeking
  <2>9. pc["retry"] = "wait" /\ InOrder => Left = {}
    BY DEF Remembered
  <2> QED
    BY <2>1, <2>2, <2>3, <2>5, <2>6, <2>7, <2>8, <2>9 DEF Remembered, Seeking
<1>7. ASSUME NEW w \in Threads, PollEnds(w) PROVE Remembered'
  <2>1. /\ pc[w] = "poll" /\ UNCHANGED <<mine, joined>> /\ Shrinks
        /\ \A v \in Threads : v # w => pc[v] \notin Seeking
        /\ \A g \in Running : held = [gate |-> g, port |-> gate[g].port] => g \notin Running'
    BY <1>7, StopShrinks DEF PollEnds, ghosts, OneSeeker, Seeking
  <2>2. /\ \A v \in Threads : v # w => pc'[v] = pc[v]
        /\ pc'[w] \in {"fork", "wait"} /\ (w = "main" => pc'[w] = "fork")
    BY <1>7 DEF PollEnds, Failed
  <2>3. InOrder' <=> InOrder
    BY <2>1, <2>2 DEF InOrder, Ending
  <2>4. InOrder => \A g \in Left : held = [gate |-> g, port |-> gate[g].port]
    BY <2>1 DEF Remembered, Seeking
  <2>5. InOrder => Left' = {}
    BY <2>1, <2>4 DEF Left, Shrinks
  <2>6. \A v \in Threads : pc'[v] \notin Seeking
    BY <2>1, <2>2 DEF Seeking
  <2> QED
    BY <2>3, <2>5, <2>6 DEF Remembered, Seeking
<1>8. ASSUME NEW w \in Threads, StartDock(w) PROVE Remembered'
  BY <1>8, <1>a, <1>s DEF StartDock, gates, ghosts, InOrder, Ending, Seeking
<1>9. CASE Launch
  <2>1. Left' = {} /\ pc'["main"] \in {"scan", "fork"} /\ pc'["retry"] = "none"
    BY <1>9 DEF Launch, Left, Nobody
  <2> QED
    BY <2>1 DEF Remembered
<1>10. CASE Retry
  <2>1. /\ UNCHANGED <<gate, mine, held, handle, joined, job>> /\ Left' = Left
        /\ pc["retry"] = "wait" /\ pc'["main"] = pc["main"] /\ pc'["retry"] \in {"done", "scan"}
    BY <1>10 DEF Retry, gates, ghosts, Left, Running, Runs
  <2>2. InOrder' <=> InOrder
    BY <2>1 DEF InOrder, Ending
  <2> QED
    BY <2>1, <2>2 DEF Remembered
<1>11. CASE Fork
  <2>1. /\ UNCHANGED <<gate, mine, held, handle, joined, job>> /\ Left' = Left
        /\ pc["main"] = "fork" /\ pc["retry"] = "none"
        /\ pc'["main"] = "serve" /\ pc'["retry"] = IF held = None THEN "wait" ELSE "none"
    BY <1>11 DEF Fork, gates, ghosts, Left, Running, Runs, OneSeeker
  <2>2. InOrder
    BY <2>1 DEF InOrder, Ending
  <2>3. \A g \in Left : held = [gate |-> g, port |-> gate[g].port]
    BY <2>1, <2>2 DEF Remembered
  <2>4. held = None => Left = {}
    BY <2>3, <1>0, <1>r
  <2> QED
    BY <2>1, <2>3, <2>4 DEF Remembered
<1>12. CASE Quit \/ StopDock \/ DockStopped
  BY <1>12, <1>a, <1>s
  DEF Quit, StopDock, DockStopped, gates, ghosts, InOrder, Ending, Seeking
<1>13. CASE Join
  BY <1>13, <1>a, <1>s DEF Join, gates, ghosts, InOrder, Ending, Seeking
<1>14. CASE Crash
  BY <1>14 DEF Crash, Nobody, Remembered, InOrder
<1>15. CASE End
  <2>1. /\ UNCHANGED <<mine, joined>> /\ Shrinks
        /\ \A g \in Running : held = [gate |-> g, port |-> gate[g].port] => g \notin Running'
    BY <1>15, StopShrinks DEF End, ghosts
  <2>2. pc["main"] \in Ending /\ pc'["main"] \in Ending \cup {"off"}
    BY <1>15 DEF End, Ending, Nobody
  <2>3. InOrder' => /\ InOrder
                    /\ \A v \in Threads : pc[v] \notin Seeking /\ pc'[v] \notin Seeking
                    /\ pc'["retry"] # "wait"
    BY <1>15, <2>1, <2>2 DEF End, InOrder, OneSeeker, Seeking, Ending, Nobody
  <2>4. InOrder' => \A g \in Left : held = [gate |-> g, port |-> gate[g].port]
    BY <2>3 DEF Remembered, Seeking
  <2>5. InOrder' => Left' = {}
    BY <2>1, <2>4 DEF Left, Shrinks
  <2> QED
    BY <2>3, <2>5 DEF Remembered, Seeking
<1>16. CASE Elsewhere
  BY <1>16, <1>s DEF Elsewhere, InOrder
<1>17. CASE UNCHANGED vars
  BY <1>17, <1>a, <1>s DEF vars, bridge, gates, ghosts, InOrder
<1> QED
  BY <1>1, <1>2, <1>3, <1>4, <1>5, <1>6, <1>7, <1>8, <1>9, <1>10, <1>11, <1>12, <1>13, <1>14,
     <1>15, <1>16, <1>17, OthersAreElsewhere DEF Next, StartGateway, Bridge

LEMMA MachineStep == MachineInv /\ [Next]_vars => MachineInv'
  BY GateTypesStep, OneSeekerStep, SingleStep, RememberedStep DEF MachineInv

\* Of the pids the bridge ends only those that still are its gateway's, and a pid in
\* another's hands is not among them.
LEMMA ForeignKept ==
  ASSUME GateTypes, [Next]_vars, NEW g \in Gates, gate[g].st = "other"
  PROVE  gate'[g].st = "other" \/ OtherEnds(g)
<1> USE DEF GateTypes
<1>1. ASSUME StopGateway PROVE gate'[g] = gate[g]
  <2>1. g \notin Terminated
    BY DEF Terminated, Matches, Runs
  <2> QED
    BY <1>1, <2>1 DEF StopGateway
<1>2. ASSUME NEW w \in Threads, StartGateway(w) \/ PollEnds(w) \/ StartDock(w)
      PROVE  gate'[g] = gate[g]
  <2>1. CASE Popen(w)
    BY <2>1 DEF Popen
  <2>2. CASE PollEnds(w)
    BY <2>2, <1>1 DEF PollEnds
  <2>3. CASE Scan(w) \/ ScanFails(w) \/ Adopt(w) \/ Note(w) \/ PollAnswers(w) \/ PollFails(w)
               \/ StartDock(w)
    BY <2>3 DEF Scan, ScanFails, Adopt, Note, PollAnswers, PollFails, StartDock, gates
  <2> QED
    BY <1>2, <2>1, <2>2, <2>3 DEF StartGateway
<1>3. CASE Bridge \/ Launch \/ Setup \/ Quit \/ Crash
  <2>1. CASE End
    BY <2>1, <1>1 DEF End
  <2> QED
    BY <1>3, <2>1 DEF Bridge, Fork, Retry, Join, StopDock, DockStopped, Launch, Setup, Quit, Crash, gates
<1>4. ASSUME NEW h \in Gates, Up(h) \/ Busy(h) \/ Answers(h) \/ Die(h)
      PROVE  gate'[g] = gate[g]
  BY <1>4 DEF Up, Busy, Answers, Die, Runs
<1>5. ASSUME NEW h \in Gates, OtherEnds(h)
      PROVE  gate'[g].st = "other" \/ OtherEnds(g)
  <2>1. CASE h = g
    BY <1>5, <2>1
  <2>2. CASE h # g
    BY <1>5, <2>2 DEF OtherEnds
  <2> QED
    BY <2>1, <2>2
<1>6. CASE Stopper \/ Wake \/ \E p \in Ports : Meddle(p)
  BY <1>6 DEF Stopper, StopKill, StopBrowsers, StopUnlink, Wake, Meddle, gates
<1>7. ASSUME NEW d \in Docks, Control(d) \/ Leave(d) PROVE gate'[g] = gate[g]
  BY <1>7 DEF Control, Acquire, WritePid, Open, Close, Unlink, Leave, gates
<1>8. CASE UNCHANGED vars
  BY <1>8 DEF vars, gates
<1> QED
  BY <1>2, <1>3, <1>4, <1>5, <1>6, <1>7, <1>8 DEF Next

-----------------------------------------------------------------------------
(* The dock: who has the mutex, and whom the pid file names.               *)

\* From the mutex to its return.
Holding == {"pid", "look", "watch", "close", "unpid", "free"}

DockInv ==
  /\ ctl = [d \in Docks |-> ctl[d]]
  /\ \A d \in Docks : ctl[d] \in Holding => mutex = d
  /\ PidIsHolder

LEMMA DockInit == Init => DockInv
BY DEF Init, DockInv, Holding, PidIsHolder

\* One controller takes a step, and what it needs for it.
LEMMA ControlStep ==
  ASSUME DockInv, NEW d \in Docks, Control(d) \/ Leave(d)
  PROVE DockInv'
<1>i. /\ ctl = [c \in Docks |-> ctl[c]]
      /\ \A c \in Docks : ctl[c] \in Holding => mutex = c
      /\ \A c \in Docks : ctl[c] \in {"look", "watch", "close"} /\ c \notin scarred => pidFile = c
  BY DEF DockInv, PidIsHolder
<1>n. None \notin Docks
  BY ProcessesAssumption
<1>1. ASSUME NEW from, NEW to, Step(d, from, to)
      PROVE /\ ctl' = [c \in Docks |-> ctl'[c]] /\ ctl[d] = from
            /\ \A c \in Docks : ctl'[c] = IF c = d THEN to ELSE ctl[c]
  BY <1>1, <1>i DEF Step
<1>2. ASSUME Acquire(d), mutex = None PROVE DockInv'
  <2>1. Step(d, "new", "pid") /\ mutex' = d /\ pidFile' = pidFile /\ scarred' = scarred \ {d}
    BY <1>2 DEF Acquire
  <2>2. /\ ctl' = [c \in Docks |-> ctl'[c]]
        /\ \A c \in Docks : ctl'[c] = IF c = d THEN "pid" ELSE ctl[c]
    BY <1>1, <2>1
  <2> QED
    BY <1>2, <1>i, <1>n, <2>1, <2>2 DEF DockInv, PidIsHolder, Holding
<1>3. ASSUME Acquire(d), mutex # None PROVE DockInv'
  <2>1. Step(d, "new", "none") /\ mutex' = mutex /\ pidFile' = pidFile /\ scarred' = scarred \ {d}
    BY <1>3 DEF Acquire
  <2>2. /\ ctl' = [c \in Docks |-> ctl'[c]]
        /\ \A c \in Docks : ctl'[c] = IF c = d THEN "none" ELSE ctl[c]
    BY <1>1, <2>1
  <2> QED
    BY <1>i, <2>1, <2>2 DEF DockInv, PidIsHolder, Holding
<1>4. ASSUME WritePid(d) PROVE DockInv'
  <2>1. Step(d, "pid", "look") /\ pidFile' = d /\ mutex' = mutex /\ scarred' = scarred
    BY <1>4 DEF WritePid, ghosts
  <2>2. /\ ctl' = [c \in Docks |-> ctl'[c]] /\ ctl[d] = "pid"
        /\ \A c \in Docks : ctl'[c] = IF c = d THEN "look" ELSE ctl[c]
    BY <1>1, <2>1
  <2>3. \A c \in Docks : ctl[c] \in Holding => c = d
    BY <1>i, <2>2 DEF Holding
  <2> QED
    BY <1>i, <2>1, <2>2, <2>3 DEF DockInv, PidIsHolder, Holding
<1>5. ASSUME NEW from \in {"look", "watch"}, NEW to \in {"watch", "close", "unpid"},
             Step(d, from, to), UNCHANGED <<pidFile, mutex, scarred>>
      PROVE DockInv'
  <2>1. /\ ctl' = [c \in Docks |-> ctl'[c]] /\ ctl[d] = from
        /\ \A c \in Docks : ctl'[c] = IF c = d THEN to ELSE ctl[c]
    BY <1>1, <1>5
  <2> QED
    BY <1>5, <1>i, <2>1 DEF DockInv, PidIsHolder, Holding
<1>6. ASSUME Open(d) \/ Leave(d) PROVE DockInv'
  <2>1. UNCHANGED <<pidFile, mutex, scarred>>
    BY <1>6 DEF Open, Leave, ghosts
  <2>2. Step(d, "look", "watch") \/ Step(d, "look", "close")
          \/ Step(d, "watch", "close") \/ Step(d, "watch", "unpid")
    BY <1>6 DEF Open, Leave
  <2> QED
    BY <1>5, <2>1, <2>2
<1>7. ASSUME Close(d) PROVE DockInv'
  <2>1. Step(d, "close", "unpid") /\ UNCHANGED <<pidFile, mutex, scarred>>
    BY <1>7 DEF Close, ghosts
  <2>2. /\ ctl' = [c \in Docks |-> ctl'[c]] /\ ctl[d] = "close"
        /\ \A c \in Docks : ctl'[c] = IF c = d THEN "unpid" ELSE ctl[c]
    BY <1>1, <2>1
  <2> QED
    BY <1>i, <2>1, <2>2 DEF DockInv, PidIsHolder, Holding
<1>8. ASSUME Unlink(d), Step(d, "unpid", "free"), pidFile' = None, mutex' = mutex PROVE DockInv'
  <2>1. /\ ctl' = [c \in Docks |-> ctl'[c]] /\ ctl[d] = "unpid"
        /\ \A c \in Docks : ctl'[c] = IF c = d THEN "free" ELSE ctl[c]
    BY <1>1, <1>8
  <2>2. \A c \in Docks : ctl[c] \in Holding => c = d
    BY <1>i, <2>1 DEF Holding
  <2> QED
    BY <1>8, <1>i, <2>1, <2>2 DEF DockInv, PidIsHolder, Holding
<1>9. ASSUME Unlink(d), Step(d, "free", "none"), mutex' = None PROVE DockInv'
  <2>1. /\ ctl' = [c \in Docks |-> ctl'[c]] /\ ctl[d] = "free"
        /\ \A c \in Docks : ctl'[c] = IF c = d THEN "none" ELSE ctl[c]
    BY <1>1, <1>9
  <2>2. \A c \in Docks : ctl[c] \in Holding => c = d
    BY <1>i, <2>1 DEF Holding
  <2> QED
    BY <2>1, <2>2 DEF DockInv, PidIsHolder, Holding
<1> QED
  BY <1>2, <1>3, <1>4, <1>6, <1>7, <1>8, <1>9 DEF Control, Unlink

LEMMA DockStep == DockInv /\ [Next]_vars => DockInv'
<1> SUFFICES ASSUME DockInv, [Next]_vars PROVE DockInv'
  OBVIOUS
<1>i. /\ ctl = [c \in Docks |-> ctl[c]]
      /\ \A c \in Docks : ctl[c] \in Holding => mutex = c
      /\ \A c \in Docks : ctl[c] \in {"look", "watch", "close"} /\ c \notin scarred => pidFile = c
  BY DEF DockInv, PidIsHolder
<1>1. ASSUME UNCHANGED <<ctl, mutex, pidFile, scarred>> PROVE DockInv'
  BY <1>1, <1>i DEF DockInv, PidIsHolder
<1>2. ASSUME NEW d \in Docks, ctl[d] = "none", ctl' = [ctl EXCEPT ![d] = "new"],
             UNCHANGED <<mutex, pidFile, scarred>>
      PROVE DockInv'
  <2>1. /\ ctl' = [c \in Docks |-> ctl'[c]]
        /\ \A c \in Docks : ctl'[c] = IF c = d THEN "new" ELSE ctl[c]
    BY <1>2, <1>i
  <2> QED
    BY <1>2, <1>i, <2>1 DEF DockInv, PidIsHolder, Holding
<1>3. ASSUME NEW w \in Threads, StartGateway(w) \/ PollEnds(w) PROVE DockInv'
  BY <1>1, <1>3 DEF StartGateway, Scan, ScanFails, Adopt, Popen, Note, PollAnswers, PollFails,
                    PollEnds, dock, ghosts
<1>4. ASSUME NEW w \in Threads, StartDock(w) PROVE DockInv'
  <2>1. UNCHANGED <<mutex, pidFile, scarred>>
    BY <1>4 DEF StartDock, ghosts
  <2>2. ctl' = ctl \/ \E d \in Docks : ctl[d] = "none" /\ ctl' = [ctl EXCEPT ![d] = "new"]
    BY <1>4 DEF StartDock
  <2> QED
    BY <1>1, <1>2, <2>1, <2>2
<1>5. CASE Bridge \/ Launch \/ Setup \/ Quit \/ Crash
  BY <1>1, <1>5 DEF Bridge, Fork, Retry, Join, StopDock, DockStopped, End, Launch, Setup, Quit,
                    Crash, dock, ghosts
<1>6. ASSUME NEW g \in Gates, Up(g) \/ Busy(g) \/ Answers(g) \/ Die(g) \/ OtherEnds(g)
      PROVE DockInv'
  BY <1>1, <1>6 DEF Up, Busy, Answers, Die, OtherEnds, dock, ghosts
<1>7. ASSUME NEW p \in Ports, Meddle(p) PROVE DockInv'
  BY <1>1, <1>7 DEF Meddle, dock, ghosts
<1>8. CASE StopKill
  <2>1. UNCHANGED <<pidFile, scarred>>
    BY <1>8 DEF StopKill, ghosts
  <2>2. CASE ctl' = ctl /\ mutex' = mutex
    BY <1>1, <2>1, <2>2
  <2>3. CASE /\ ctl' = [ctl EXCEPT ![Controller] = "none"]
             /\ mutex' = IF mutex = Controller THEN None ELSE mutex
    <3>1. /\ ctl' = [c \in Docks |-> ctl'[c]]
          /\ \A c \in Docks : ctl'[c] = IF c = Controller THEN "none" ELSE ctl[c]
      BY <1>i, <2>3
    <3> QED
      BY <1>i, <2>1, <2>3, <3>1 DEF DockInv, PidIsHolder, Holding
  <2> QED
    BY <1>8, <2>2, <2>3 DEF StopKill
<1>9. CASE StopBrowsers
  BY <1>1, <1>9 DEF StopBrowsers, ghosts
<1>10. CASE StopUnlink
  <2>1. /\ UNCHANGED <<ctl, mutex>>
        /\ scarred' = scarred \cup {d \in Docks : ctl[d] # "none"}
    BY <1>10 DEF StopUnlink
  <2> QED
    BY <1>i, <2>1 DEF DockInv, PidIsHolder
<1>11. CASE Wake
  <2>1. UNCHANGED <<mutex, pidFile, scarred>>
    BY <1>11 DEF Wake, ghosts
  <2>2. \E d \in Docks : ctl[d] = "none" /\ ctl' = [ctl EXCEPT ![d] = "new"]
    BY <1>11 DEF Wake
  <2> QED
    BY <1>2, <2>1, <2>2
<1>12. CASE UNCHANGED vars
  BY <1>1, <1>12 DEF vars, dock, ghosts
<1>13. ASSUME NEW d \in Docks, Control(d) \/ Leave(d) PROVE DockInv'
  BY <1>13, ControlStep
<1> QED
  BY <1>3, <1>4, <1>5, <1>6, <1>7, <1>8, <1>9, <1>10, <1>11, <1>12, <1>13 DEF Next, Stopper

-----------------------------------------------------------------------------
(* The window: AgentLife.                                                  *)

Working == {a \in Life!Agents : Life!Alive(a) /\ a \notin stopped}

\* The window knows an agent unless it is stopped, and which agents have ended.
LifeTypes ==
  /\ Life!TypeOK
  /\ phase # "stopped" => agent \in Life!Agents
  /\ \A c \in calls : c.agent \in Life!Agents
  /\ overtaken \in BOOLEAN

\* The window stops the agent it has; an agent whose end is told has ended.
EndsAreTrue ==
  /\ phase = "stopping" => agent \in stopped
  /\ \A c \in calls : c.what = "done" => run[c.agent] = "ended"

\* If no end was taken for another's, none but the window's agent works, and that
\* one only while the window does not say it is stopped.
OneWorks == ~overtaken => Working \subseteq {agent} /\ (phase = "stopped" => Working = {})

\* A log watcher that runs after the end was started in a callback, ...
WatcherIsStopped ==
  \A a \in Life!Agents : run[a] = "ended" /\ watcher[a] = "runs" => a \in caught

\* ... and what else a stopped agent has was started after the stop.
RestIsStopped ==
  \A a \in stopped : (agent = a => gui = "idle") =>
    (a \in ws \/ (cdp[a] # "off" /\ a \notin cut) => a \in early)

LifeInv == LifeTypes /\ EndsAreTrue /\ OneWorks /\ WatcherIsStopped /\ RestIsStopped

LEMMA LifeInit == Life!Init => LifeInv
<1> SUFFICES ASSUME Life!Init PROVE LifeInv
  OBVIOUS
<1>1. LifeTypes
  BY DEF LifeTypes, Life!TypeOK, Life!Init
<1>2. EndsAreTrue /\ WatcherIsStopped /\ RestIsStopped
  BY DEF EndsAreTrue, WatcherIsStopped, RestIsStopped, Life!Init
<1>3. OneWorks
  BY DEF OneWorks, Working, Life!Alive, Life!Init
<1> QED
  BY <1>1, <1>2, <1>3 DEF LifeInv

LEMMA LifeTypesStep == LifeTypes /\ [Life!Next]_lifeVars => LifeTypes'
<1> SUFFICES ASSUME LifeTypes, [Life!Next]_lifeVars PROVE LifeTypes'
  OBVIOUS
<1> USE DEF LifeTypes, Life!TypeOK, Life!window, Life!feeds, Life!ghosts, Life!Call, Life!At
<1>1. CASE Life!Stop
  BY <1>1 DEF Life!Stop
<1>2. CASE Life!Stopping
  BY <1>2 DEF Life!Stopping, Life!StopAgent, Life!WatcherStop, Life!StopWs
<1>3. CASE Life!Callback
  <2>1. /\ calls' \subseteq calls /\ overtaken' \in BOOLEAN
        /\ phase' \in {"stopped", "starting", "running", "stopping"}
        /\ phase' # "stopped" => phase # "stopped"
    BY <1>3 DEF Life!Callback, Life!Force, Life!Mark, Life!Done
  <2> QED
    BY <1>3, <2>1 DEF Life!Callback
<1>4. CASE Life!Tick
  BY <1>4 DEF Life!Tick
<1>5. ASSUME NEW a \in Life!Agents, Life!Start(a) PROVE LifeTypes'
  BY <1>5 DEF Life!Start
<1>6. ASSUME NEW a \in Life!Agents, Life!RunForever(a) PROVE LifeTypes'
  <2>1. CASE Life!Register(a)
    BY <2>1 DEF Life!Register
  <2>2. CASE Life!StartWs(a)
    BY <2>2 DEF Life!StartWs
  <2>3. CASE Life!StartFeeds(a)
    BY <2>3 DEF Life!StartFeeds, Life!StartSource
  <2>4. CASE Life!StartPull(a)
    BY <2>4 DEF Life!StartPull, Life!StartSource
  <2>5. CASE Life!Ends(a)
    BY <2>5 DEF Life!Ends, Life!End, Life!WatcherStop
  <2> QED
    BY <1>6, <2>1, <2>2, <2>3, <2>4, <2>5 DEF Life!RunForever
<1>7. ASSUME NEW a \in Life!Agents, Life!Feed(a) \/ Life!WatcherEnds(a) \/ Life!Turns(a)
      PROVE  LifeTypes'
  BY <1>7 DEF Life!Feed, Life!FallBack, Life!SourceEnds, Life!WatcherEnds, Life!Turns
<1>8. ASSUME NEW a \in Life!Agents, Life!History(a) \/ Life!Pull(a) PROVE LifeTypes'
  BY <1>8 DEF Life!History, Life!PullReturns, Life!Pulled, Life!PullEnds, Life!Pull
<1>9. CASE UNCHANGED lifeVars
  BY <1>9 DEF lifeVars
<1> QED
  BY <1>1, <1>2, <1>3, <1>4, <1>5, <1>6, <1>7, <1>8, <1>9 DEF Life!Next

LEMMA WorksStep ==
  LifeTypes /\ EndsAreTrue /\ OneWorks /\ [Life!Next]_lifeVars => EndsAreTrue' /\ OneWorks'
<1> SUFFICES ASSUME LifeTypes, EndsAreTrue, OneWorks, [Life!Next]_lifeVars
             PROVE  EndsAreTrue' /\ OneWorks'
  OBVIOUS
<1> USE DEF LifeTypes, Life!TypeOK, Life!window, Life!feeds, Life!ghosts, Life!Call, Life!At
<1>w. Working' = {a \in Life!Agents : run'[a] \notin {"none", "ended"} /\ a \notin stopped'}
  BY DEF Working, Life!Alive
<1>v. Working = {a \in Life!Agents : run[a] \notin {"none", "ended"} /\ a \notin stopped}
  BY DEF Working, Life!Alive
<1>s. ASSUME UNCHANGED <<phase, agent, stopped, overtaken>>,
             \A c \in calls' : c.what = "done" => c \in calls \/ run'[c.agent] = "ended",
             \A a \in Life!Agents : /\ run[a] = "ended" => run'[a] = "ended"
                                    /\ run[a] = "none" => run'[a] = "none"
      PROVE  EndsAreTrue' /\ OneWorks'
  <2>1. Working' \subseteq Working
    BY <1>s, <1>v, <1>w
  <2>2. EndsAreTrue'
    BY <1>s DEF EndsAreTrue
  <2> QED
    BY <1>s, <2>1, <2>2 DEF OneWorks
<1>1. CASE Life!Stop
  <2>1. Working' \subseteq Working
    BY <1>1, <1>v, <1>w DEF Life!Stop
  <2> QED
    BY <1>1, <2>1 DEF Life!Stop, EndsAreTrue, OneWorks
<1>2. CASE Life!Stopping
  BY <1>2, <1>s DEF Life!Stopping, Life!StopAgent
<1>3. CASE Life!Callback
  <2>1. PICK c \in calls : /\ Life!Force(c) \/ Life!Mark(c) \/ Life!Done(c)
                           /\ calls' = calls \ {c}
                           /\ overtaken' = (overtaken \/ (c.agent # agent /\ phase' # phase))
    BY <1>3 DEF Life!Callback
  <2>2. UNCHANGED <<run, stopped, agent>> /\ Working' = Working
    BY <1>3, <1>v, <1>w DEF Life!Callback
  <2>3. phase' = "stopping" => phase = "stopping"
    BY <2>1 DEF Life!Force, Life!Mark, Life!Done
  <2>4. EndsAreTrue'
    BY <2>1, <2>2, <2>3 DEF EndsAreTrue
  <2>5. ASSUME ~overtaken', phase' = "stopped" PROVE Working = {}
    <3>1. ~overtaken /\ (phase' = phase \/ c.agent = agent)
      BY <2>1, <2>5
    <3>2. CASE phase = "stopped"
      BY <3>1, <3>2 DEF OneWorks
    <3>3. CASE phase # "stopped"
        <4>1. (c.agent = agent /\ agent \in stopped) \/ run[agent] = "ended"
        BY <2>1, <2>5, <3>1, <3>3 DEF Life!Force, Life!Mark, Life!Done, EndsAreTrue
      <4> QED
        BY <3>1, <4>1, <1>v DEF OneWorks
    <3> QED
      BY <3>2, <3>3
  <2>6. OneWorks'
    BY <2>1, <2>2, <2>5 DEF OneWorks
  <2> QED
    BY <2>4, <2>6
<1>4. CASE Life!Tick
  <2>1. /\ UNCHANGED <<run, stopped, agent, calls, overtaken>> /\ phase' = "stopped"
        /\ run[agent] \in {"none", "ended"}
    BY <1>4 DEF Life!Tick, Life!Alive
  <2>2. EndsAreTrue' /\ Working' = Working
    BY <2>1, <1>v, <1>w DEF EndsAreTrue
  <2> QED
    BY <2>1, <2>2, <1>v DEF OneWorks
<1>5. ASSUME NEW a \in Life!Agents, Life!Start(a) PROVE EndsAreTrue' /\ OneWorks'
  <2>1. /\ UNCHANGED <<stopped, overtaken>> /\ phase = "stopped" /\ phase' = "starting"
        /\ agent' = a /\ run' = [run EXCEPT ![a] = "register"] /\ run[a] = "none"
    BY <1>5 DEF Life!Start
  <2>2. Working' \subseteq Working \cup {a}
    BY <2>1, <1>v, <1>w
  <2>3. OneWorks'
    BY <2>1, <2>2 DEF OneWorks
  <2>4. EndsAreTrue'
    BY <1>5, <2>1 DEF EndsAreTrue, Life!Start
  <2> QED
    BY <2>3, <2>4
<1>6. ASSUME NEW a \in Life!Agents, Life!RunForever(a) PROVE EndsAreTrue' /\ OneWorks'
  <2>1. CASE Life!Ends(a)
    BY <2>1, <1>s DEF Life!Ends, Life!End
  <2>2. CASE Life!Register(a) \/ Life!StartWs(a) \/ Life!StartFeeds(a) \/ Life!StartPull(a)
    BY <2>2, <1>s DEF Life!Register, Life!StartWs, Life!StartFeeds, Life!StartPull
  <2> QED
    BY <1>6, <2>1, <2>2 DEF Life!RunForever
<1>7. ASSUME NEW a \in Life!Agents, Life!Feed(a) \/ Life!WatcherEnds(a) \/ Life!Turns(a)
      PROVE  EndsAreTrue' /\ OneWorks'
  BY <1>7, <1>s DEF Life!Feed, Life!FallBack, Life!SourceEnds, Life!WatcherEnds, Life!Turns
<1>8. ASSUME NEW a \in Life!Agents, Life!History(a) \/ Life!Pull(a)
      PROVE  EndsAreTrue' /\ OneWorks'
  BY <1>8, <1>s DEF Life!History, Life!PullReturns, Life!PullEnds, Life!Pull
<1>9. CASE UNCHANGED lifeVars
  BY <1>9, <1>s DEF lifeVars
<1> QED
  BY <1>1, <1>2, <1>3, <1>4, <1>5, <1>6, <1>7, <1>8, <1>9 DEF Life!Next

LEMMA StoppedStep ==
  LifeTypes /\ WatcherIsStopped /\ RestIsStopped /\ [Life!Next]_lifeVars
    => WatcherIsStopped' /\ RestIsStopped'
<1> SUFFICES ASSUME LifeTypes, WatcherIsStopped, RestIsStopped, [Life!Next]_lifeVars
             PROVE  WatcherIsStopped' /\ RestIsStopped'
  OBVIOUS
<1> USE DEF LifeTypes, Life!TypeOK, Life!window, Life!feeds, Life!ghosts, Life!At
<1>1. CASE Life!Stop
  BY <1>1 DEF Life!Stop, WatcherIsStopped, RestIsStopped
<1>2. CASE Life!Stopping
  <2>1. WatcherIsStopped'
    BY <1>2 DEF Life!Stopping, Life!StopAgent, Life!WatcherStop, WatcherIsStopped
  <2>2. RestIsStopped'
    BY <1>2 DEF Life!Stopping, Life!StopAgent, Life!StopWs, RestIsStopped
  <2> QED
    BY <2>1, <2>2
<1>3. CASE Life!Callback \/ Life!Tick
  BY <1>3 DEF Life!Callback, Life!Tick, WatcherIsStopped, RestIsStopped
<1>4. ASSUME NEW a \in Life!Agents, Life!Start(a) PROVE WatcherIsStopped' /\ RestIsStopped'
  BY <1>4 DEF Life!Start, WatcherIsStopped, RestIsStopped
<1>5. ASSUME NEW a \in Life!Agents, Life!RunForever(a)
      PROVE  WatcherIsStopped' /\ RestIsStopped'
  <2>1. CASE Life!Register(a)
    BY <2>1 DEF Life!Register, WatcherIsStopped, RestIsStopped
  <2>2. CASE Life!StartWs(a)
    BY <2>2 DEF Life!StartWs, WatcherIsStopped, RestIsStopped
  <2>3. CASE Life!StartFeeds(a)
    <3>1. WatcherIsStopped'
      BY <2>3 DEF Life!StartFeeds, Life!StartSource, WatcherIsStopped
    <3>2. RestIsStopped'
      BY <2>3 DEF Life!StartFeeds, Life!StartSource, RestIsStopped
    <3> QED
      BY <3>1, <3>2
  <2>4. CASE Life!StartPull(a)
    BY <2>4 DEF Life!StartPull, Life!StartSource, WatcherIsStopped, RestIsStopped
  <2>5. CASE Life!Ends(a)
    BY <2>5 DEF Life!Ends, Life!End, Life!WatcherStop, WatcherIsStopped, RestIsStopped
  <2> QED
    BY <1>5, <2>1, <2>2, <2>3, <2>4, <2>5 DEF Life!RunForever
<1>6. ASSUME NEW a \in Life!Agents, Life!Feed(a) \/ Life!WatcherEnds(a) \/ Life!Turns(a)
      PROVE  WatcherIsStopped' /\ RestIsStopped'
  <2>1. WatcherIsStopped'
    BY <1>6 DEF Life!Feed, Life!FallBack, Life!SourceEnds, Life!WatcherEnds, Life!Turns, WatcherIsStopped
  <2>2. RestIsStopped'
    BY <1>6 DEF Life!Feed, Life!FallBack, Life!SourceEnds, Life!WatcherEnds, Life!Turns, RestIsStopped
  <2> QED
    BY <2>1, <2>2
<1>7. ASSUME NEW a \in Life!Agents, Life!History(a) \/ Life!Pull(a)
      PROVE  WatcherIsStopped' /\ RestIsStopped'
  BY <1>7 DEF Life!History, Life!PullReturns, Life!PullEnds, Life!Pull, WatcherIsStopped, RestIsStopped
<1>8. CASE UNCHANGED lifeVars
  BY <1>8 DEF lifeVars, WatcherIsStopped, RestIsStopped
<1> QED
  BY <1>1, <1>2, <1>3, <1>4, <1>5, <1>6, <1>7, <1>8 DEF Life!Next

LEMMA LifeStep == LifeInv /\ [Life!Next]_lifeVars => LifeInv'
  BY LifeTypesStep, WorksStep, StoppedStep DEF LifeInv

-----------------------------------------------------------------------------
(* Both.                                                                   *)

\* Every step is one of one of the views, and nothing to the other.
LEMMA CycleStep == [LifecycleNext]_cycleVars => [Next]_vars /\ [Life!Next]_lifeVars
  BY DEF LifecycleNext, Machine, Window, cycleVars

LEMMA CycleAlways == LifecycleSpec => [](MachineInv /\ DockInv /\ LifeInv)
<1>1. LifecycleInit => MachineInv /\ DockInv /\ LifeInv
  BY MachineInit, DockInit, LifeInit DEF LifecycleInit
<1>2. /\ MachineInv /\ DockInv /\ LifeInv
      /\ [LifecycleNext]_cycleVars
      => MachineInv' /\ DockInv' /\ LifeInv'
  BY CycleStep, MachineStep, DockStep, LifeStep
<1> QED
  BY <1>1, <1>2, PTL DEF LifecycleSpec

\* A second gateway is started only beside one that did not listen or did not answer
\* when start_local_gateway looked: it looks at the configured port first, and that
\* is where the one that runs is, whoever started it.
THEOREM GatewayIsOne == LifecycleSpec => []OneGateway
<1>1. MachineInv => OneGateway
  <2> SUFFICES ASSUME MachineInv, ~blind PROVE ~(Cardinality(Running) > 1)
    BY DEF OneGateway
  <2>1. \A g, h \in Running : g = h
    BY DEF MachineInv, Single
  <2>2. CASE Running = {}
    BY <2>2, FS_EmptySet
  <2>3. ASSUME NEW g \in Running PROVE Cardinality(Running) = 1
    <3>1. Running = {g}
      BY <2>1
    <3> QED
      BY <3>1, FS_Singleton
  <2> QED
    BY <2>2, <2>3
<1> QED
  BY <1>1, CycleAlways, PTL

\* A bridge that ended in order, its second thread done, leaves no gateway that it
\* started or adopted: _GATEWAY_PID is the one that runs, or it is over.
THEOREM NoneIsLeft == LifecycleSpec => []EndLeavesNone
<1>1. MachineInv => EndLeavesNone
  BY DEF MachineInv, Remembered, InOrder, Left, EndLeavesNone, Alive
<1> QED
  BY <1>1, CycleAlways, PTL

\* stop_local_gateway never ends another program that has got the gateway's pid.
THEOREM OthersLive == LifecycleSpec => ForeignIsSafe
<1> DEFINE Safe == \A g \in Gates : gate[g].st = "other" => gate'[g].st = "other" \/ OtherEnds(g)
<1>1. MachineInv /\ [LifecycleNext]_cycleVars => [Safe]_vars
  BY CycleStep, ForeignKept DEF MachineInv
<1> QED
  BY <1>1, CycleAlways, PTL DEF LifecycleSpec, ForeignIsSafe

\* The pid file names the dock controller that has the mutex and is at work, whichever
\* controllers start, end or die beside it, unless a --stop has removed the file in its
\* life (write_pid, the finally of main, stop_existing).
THEOREM PidFileIsTrue == LifecycleSpec => []PidIsHolder
<1>1. DockInv => PidIsHolder
  BY DEF DockInv
<1> QED
  BY <1>1, CycleAlways, PTL

\* Two agents work side by side only after the end of an old one was taken for the
\* end of the new one (_done, _force_stopped).
THEOREM AgentIsOne == LifecycleSpec => []OneAgent
<1>1. OneAgent <=> (~overtaken => Cardinality(Working) <= 1)
  <2>1. Life!Cardinality(Working) = Cardinality(Working)
    BY Zenon DEF Life!Cardinality, Cardinality
  <2> QED
    BY <2>1, Zenon DEF OneAgent, Life!OneAgent, Working
<1>2. LifeInv => (~overtaken => Cardinality(Working) <= 1)
  <2> SUFFICES ASSUME LifeInv, ~overtaken PROVE Cardinality(Working) <= 1
    OBVIOUS
  <2>1. Working = {} \/ Working = {agent}
    BY DEF LifeInv, OneWorks
  <2>2. Cardinality(Working) \in {0, 1}
    BY <2>1, FS_EmptySet, FS_Singleton
  <2> QED
    BY <2>2
<1> QED
  BY <1>1, <1>2, CycleAlways, PTL

\* When a stopped agent has ended, every thread it had has been told to end, but for
\* those that were started after the stop (start of the source and of the WebSocket
\* clear their own stop) and the watcher of a callback.
THEOREM StopIsHeard == LifecycleSpec => []StopReachesAll
<1>1. LifeInv => StopReachesAll
  BY DEF LifeInv, LifeTypes, Life!TypeOK, WatcherIsStopped, RestIsStopped, StopReachesAll,
         Life!StopReachesAll
<1> QED
  BY <1>1, CycleAlways, PTL
=============================================================================
