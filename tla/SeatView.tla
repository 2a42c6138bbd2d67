------------------------------ MODULE SeatView ------------------------------
(***************************************************************************)
(* What the seat's windows show of one conversation's state: handed over   *)
(* to a person or not, and the AI switch (run_frontend_service.py).        *)
(*                                                                         *)
(* The center decides.  The gateway knows it from four sides that arrive   *)
(* in any order: the center's command carried by the bridge, the center's  *)
(* answer to a switch in one of the windows, the cached list of sessions   *)
(* and the cached detail of this one; and it has the message list, which   *)
(* is ahead of the center's.  merge_sessions makes one row of them.        *)
(***************************************************************************)
EXTENDS Naturals, Sequences, FiniteSets

CONSTANTS
  Windows,    \* the windows with an AI switch
  Unset,      \* nothing cached, no switch set, nothing asked
  Opened,     \* the conversation stays open in the workbench
  MaxTurns, MaxMessages, MaxFailures \* bounds

Switch == {TRUE, FALSE, Unset}
Paths == {"list", "detail"}

\* A session's state, and an answer: that state after the center's n-th decision.
States == [handoff : BOOLEAN, switch : Switch, last : Nat]
Answers == [state : States, n : Nat]

ASSUME ViewAssumption == Unset \notin BOOLEAN \cup Answers /\ Opened \in BOOLEAN

VARIABLES
  brain,    \* the center's: handed over, AI switch, its last message
  local,    \* the store's session
  cache,    \* remote_cache: [Paths -> an answer of the center or Unset]
  inflight, \* [Paths -> the requests under way: asked, or with the answer]
  toggle,   \* [Windows -> where its switch is]
  commands, \* session_state commands that the bridge has not applied
  turns,    \* the switch after each decision of the center
  messages, failures

viewVars == <<brain, local, cache, inflight, toggle, commands, turns, messages, failures>>

Untouched == [pc |-> "idle", want |-> Unset, got |-> Unset]
Asked == [pc |-> "asked", got |-> Unset]

State(handoff, switch, last) == [handoff |-> handoff, switch |-> switch, last |-> last]

ViewInit ==
  /\ brain = State(FALSE, Unset, 0)
  /\ local = brain
  /\ cache = [p \in Paths |-> Unset]
  /\ inflight = [p \in Paths |-> {}]
  /\ toggle = [w \in Windows |-> Untouched]
  /\ commands = {} /\ turns = <<Unset>> /\ messages = 0 /\ failures = 0

Decide(state) ==
  /\ Len(turns) <= MaxTurns
  /\ brain' = state
  /\ turns' = Append(turns, state.switch)

\* The center hands the conversation over, or takes it back, and sends a command.
CenterDecides ==
  /\ Decide([brain EXCEPT !.handoff = ~@])
  /\ commands' = commands \cup {~brain.handoff}
  /\ UNCHANGED <<local, cache, inflight, toggle, messages, failures>>

\* _apply_session_state and /api/local-seat/v1/session-state: the pool of the
\* bridge runs commands in any order; one that fails is not sent again.
ApplyCommand(c) ==
  /\ commands' = commands \ {c}
  /\ \/ local' = [local EXCEPT !.handoff = c] /\ UNCHANGED failures
     \/ failures < MaxFailures /\ failures' = failures + 1 /\ UNCHANGED local
  /\ UNCHANGED <<brain, cache, inflight, toggle, turns, messages>>

\* set_ai_takeover, with what the center confirmed.
SetSwitch(enabled, handoff) ==
  local' = [local EXCEPT !.switch = enabled,
              !.handoff = IF handoff # Unset THEN handoff
                          ELSE IF enabled THEN FALSE ELSE local.handoff]

\* Mutant of Post: the switch is set in the store before the center is asked.
PostLocalFirst(w, enabled) ==
  /\ toggle[w].pc = "idle"
  /\ SetSwitch(enabled, Unset)
  /\ toggle' = [toggle EXCEPT ![w] = [pc |-> "posted", want |-> enabled, got |-> Unset]]
  /\ UNCHANGED <<brain, cache, inflight, commands, turns, messages, failures>>

\* do_POST, /api/session/state, and post_remote_json
Post(w, enabled) ==
  /\ toggle[w].pc = "idle"
  /\ toggle' = [toggle EXCEPT ![w] = [pc |-> "posted", want |-> enabled, got |-> Unset]]
  /\ UNCHANGED <<brain, local, cache, inflight, commands, turns, messages, failures>>

\* The center takes the switch, which ends a handing over when it is on; its
\* answer names the handing over or leaves it out.
CenterSwitches(w) ==
  /\ toggle[w].pc = "posted"
  /\ LET on == toggle[w].want IN
       /\ Decide([brain EXCEPT !.switch = on, !.handoff = @ /\ ~on])
       /\ \E got \in {brain'.handoff, Unset} :
            toggle' = [toggle EXCEPT ![w].pc = "answered", ![w].got = got]
  /\ UNCHANGED <<local, cache, inflight, commands, messages, failures>>

\* The answer arrives, or an error does and the store stays as it is.
Answered(w) ==
  /\ toggle[w].pc = "answered"
  /\ \/ SetSwitch(toggle[w].want, toggle[w].got) /\ UNCHANGED failures
     \/ failures < MaxFailures /\ failures' = failures + 1 /\ UNCHANGED local
  /\ toggle' = [toggle EXCEPT ![w] = [Untouched EXCEPT !.pc = "done"]]
  /\ UNCHANGED <<brain, cache, inflight, commands, turns, messages>>

\* The center refuses, or cannot be reached.
Refused(w) ==
  /\ toggle[w].pc = "posted"
  /\ toggle' = [toggle EXCEPT ![w] = [Untouched EXCEPT !.pc = "done"]]
  /\ UNCHANGED <<brain, local, cache, inflight, commands, turns, messages, failures>>

\* publish: the store has a message before the center does.
Message ==
  /\ messages < MaxMessages /\ messages' = messages + 1
  /\ local' = [local EXCEPT !.last = messages']
  /\ UNCHANGED <<brain, cache, inflight, toggle, commands, turns, failures>>

\* The bridge uploads it.
Upload ==
  /\ brain.last < local.last
  /\ brain' = [brain EXCEPT !.last = local.last]
  /\ UNCHANGED <<local, cache, inflight, toggle, commands, turns, messages, failures>>

\* Mutant of Schedule: nothing looks for a request under way.
ScheduleAgain(p) ==
  /\ Cardinality(inflight[p]) < 2
  /\ p = "detail" => Opened \/ cache["list"] = Unset
  /\ inflight' = [inflight EXCEPT ![p] = @ \cup {Asked}]
  /\ UNCHANGED <<brain, local, cache, toggle, commands, turns, messages, failures>>

\* schedule_refresh, by a window's timer; the detail is fetched for an open
\* conversation and for one that the center's list does not have.
Schedule(p) ==
  /\ inflight[p] = {}
  /\ p = "detail" => Opened \/ cache["list"] = Unset
  /\ inflight' = [inflight EXCEPT ![p] = {Asked}]
  /\ UNCHANGED <<brain, local, cache, toggle, commands, turns, messages, failures>>

\* _remote_json: the center reads its state for the answer.
CenterAnswers(p) ==
  /\ Asked \in inflight[p]
  /\ inflight' = [inflight EXCEPT ![p] = (@ \ {Asked}) \cup
       {[pc |-> "answered", got |-> [state |-> brain, n |-> Len(turns)]]}]
  /\ UNCHANGED <<brain, local, cache, toggle, commands, turns, messages, failures>>

\* refresh(): the cache takes the answer, or an error; the path is free again.
Refreshed(p) == \E r \in inflight[p] :
  /\ r.pc = "answered"
  /\ inflight' = [inflight EXCEPT ![p] = @ \ {r}]
  /\ \/ cache' = [cache EXCEPT ![p] = r.got] /\ UNCHANGED failures
     \/ failures < MaxFailures /\ failures' = failures + 1 /\ UNCHANGED cache
  /\ UNCHANGED <<brain, local, toggle, commands, turns, messages>>

\* Mutant of WithDetail: only a newer detail counts.
WithNewerDetail(row, detail) ==
  IF detail.last > row.last
  THEN [detail EXCEPT !.switch = IF @ = Unset THEN row.switch ELSE @]
  ELSE row

\* merge_sessions: the detail over a row that is not newer.
WithDetail(row, detail) ==
  IF detail.last >= row.last
  THEN [detail EXCEPT !.switch = IF @ = Unset THEN row.switch ELSE @]
  ELSE row

\* merge_sessions: the store's row and the center's.  A handing over sticks.
Row ==
  LET listed == cache["list"].state
      own == IF cache["list"] = Unset THEN local
             ELSE IF local.last >= listed.last
             THEN State(local.handoff \/ listed.handoff,
                        IF local.switch = Unset THEN listed.switch ELSE local.switch,
                        local.last)
             ELSE listed
  IN  IF cache["detail"] = Unset THEN own ELSE WithDetail(own, cache["detail"].state)

ViewNext ==
  \/ CenterDecides
  \/ \E c \in commands : ApplyCommand(c)
  \/ \E w \in Windows :
       \/ \E enabled \in BOOLEAN : Post(w, enabled)
       \/ CenterSwitches(w) \/ Answered(w) \/ Refused(w)
  \/ Message \/ Upload
  \/ \E p \in Paths : Schedule(p) \/ CenterAnswers(p) \/ Refreshed(p)

ViewSpec == ViewInit /\ [][ViewNext]_viewVars

\* The windows' timers run, requests end in an answer or an error, and the bridge
\* uploads what it has.
FairSpec ==
  /\ ViewSpec
  /\ WF_viewVars(Upload)
  /\ \A p \in Paths :
       WF_viewVars(Schedule(p)) /\ WF_viewVars(CenterAnswers(p)) /\ WF_viewVars(Refreshed(p))
-----------------------------------------------------------------------------
\* The type of every variable.
ViewTypeOK ==
  /\ brain \in States /\ local \in States
  /\ cache \in [Paths -> Answers \cup {Unset}]
  /\ inflight \in [Paths -> SUBSET [pc : {"asked", "answered"}, got : Answers \cup {Unset}]]
  /\ toggle \in [Windows -> [pc : {"idle", "posted", "answered", "done"},
                             want : Switch, got : Switch]]
  /\ commands \subseteq BOOLEAN
  /\ turns \in Seq(Switch)

\* The store shows an AI switch only after the center took it: what is set is what
\* the center once had (set_ai_takeover: "only after the center confirms it").
SwitchIsConfirmed ==
  local.switch # Unset => \E i \in DOMAIN turns : turns[i] = local.switch

\* A cached answer is never replaced by an older one: only one request of a path
\* is under way (schedule_refresh, inflight).
CacheMovesOn ==
  [][\A p \in Paths : cache[p] # Unset =>
       cache'[p] # Unset /\ cache'[p].n >= cache[p].n]_viewVars

\* Whatever was lost or came out of order, an open conversation is in the end
\* shown as the center has it.
ShownIsDecided ==
  <>[](Row.handoff = brain.handoff /\ (brain.switch # Unset => Row.switch = brain.switch))

\* merge_sessions: "A brain-issued handoff must not disappear" - a handing over
\* that the cached list shows is in the row.
\* This does not hold; see the README.
ListedIsShown ==
  cache["list"] # Unset /\ cache["list"].state.handoff /\ brain.handoff => Row.handoff
=============================================================================
