---------------------------- MODULE SourceSwitch ----------------------------
(***************************************************************************)
(* Which feed the agent listens to: the thread of PddbridgeSource (scan,   *)
(* attach, rounds over the sessions, fallback and recovery) and the        *)
(* agent's callbacks that start and stop the log watcher.  A page of the   *)
(* workbench is ready, stuck (its evaluations fail) or gone (its port is   *)
(* dead), and may lose the script by a reload.                             *)
(***************************************************************************)
EXTENDS Integers, Sequences, FiniteSets, SequencesExt

CONSTANTS
    Pages,      \* the chat pages of the workbench
    FailLimit,  \* cdp_session_fail_limit
    MaxChanges  \* bound: how often a page changes

\* What Intake assumes of the constants.
BoundsAssumption == FailLimit \in Nat \ {0} /\ MaxChanges \in Nat

VARIABLES
    mode,       \* data_source: "cdp", or "logs" with the source for the history
    page,       \* what each page is
    hooked,     \* the pages in which the script runs
    changes,
    state,      \* PddbridgeSource.state
    degraded,   \* _degraded
    fell,       \* _fallback_done
    late,       \* scan_deadline has passed
    sessions,   \* PddbridgeSource.sessions, as pages
    streak,     \* _Session.fail_streak
    cursor,     \* _pump_cursor
    round,      \* the round under way: the sessions it started with, where it began
                \* and how many it has done
    at,         \* where the thread is
    effective,  \* BridgeAgent._effective_source
    watcher     \* the thread of the log watcher

world == <<page, hooked, changes>>
source == <<state, degraded, fell, late, sessions, streak, cursor, round, at>>
agent == <<mode, effective, watcher>>
vars == <<world, source, agent>>

NoRound == [list |-> <<>>, start |-> 0, done |-> 0]
-----------------------------------------------------------------------------

Init ==
    /\ mode \in {"cdp", "logs"}
    /\ page \in [Pages -> {"ready", "gone"}] /\ hooked = {} /\ changes = 0
    /\ state = "scanning" /\ degraded = FALSE /\ fell = FALSE /\ late = FALSE
    /\ sessions = <<>> /\ streak = [p \in Pages |-> 0] /\ cursor = 0
    /\ round = NoRound /\ at = "loop"
    /\ effective = mode
    /\ watcher = IF mode = "logs" THEN "runs" ELSE "off"

-----------------------------------------------------------------------------
\* The workbench.

Change(p) ==
    /\ changes < MaxChanges /\ changes' = changes + 1
    /\ \E s \in {"ready", "stuck", "gone"} \ {page[p]} :
         /\ page' = [page EXCEPT ![p] = s]
         /\ hooked' = IF s = "gone" THEN hooked \ {p} ELSE hooked
    /\ UNCHANGED <<source, agent>>

Reload(p) ==
    /\ changes < MaxChanges /\ changes' = changes + 1
    /\ p \in hooked /\ hooked' = hooked \ {p}
    /\ UNCHANGED <<page, source, agent>>

-----------------------------------------------------------------------------
\* _scan_and_attach: every ready page without a session gets the script and a
\* session of its own.
Found == {p \in Pages : page[p] = "ready"} \ Range(sessions)

Attach ==
    /\ sessions' = sessions \o SetToSeq(Found)
    /\ hooked' = hooked \cup Found
    /\ streak' = [p \in Pages |-> IF p \in Found THEN 0 ELSE streak[p]]
    /\ UNCHANGED <<page, changes>>

Attached == sessions # <<>> \/ Found # {}

\* The scan of the thread while it has no session and is not degraded.
Scan ==
    /\ at = "loop" /\ state = "scanning" /\ ~degraded
    /\ Attached /\ Attach
    /\ state' = "listening"
    /\ UNCHANGED <<degraded, fell, late, cursor, round, at, agent>>

\* cdp_fallback_after_seconds without a session.
GetLate ==
    /\ state = "scanning" /\ ~late /\ late' = TRUE
    /\ UNCHANGED <<world, state, degraded, fell, sessions, streak, cursor, round, at, agent>>

\* The deadline has passed: the source gives way to the logs.
GiveWay ==
    /\ at = "loop" /\ state = "scanning" /\ ~degraded /\ ~Attached
    /\ late /\ ~fell
    /\ fell' = TRUE /\ at' = "fallback"
    /\ UNCHANGED <<world, state, degraded, late, sessions, streak, cursor, round, agent>>

\* Slip: the thread ends when it has given way.
FallbackForGood ==
    /\ at = "fallback" /\ at' = "ended"
    /\ degraded' = TRUE
    /\ IF effective = "logs" THEN UNCHANGED <<effective, watcher>>
       ELSE effective' = "logs" /\ watcher' = "runs"
    /\ UNCHANGED <<world, state, fell, late, sessions, streak, cursor, round, mode>>

\* _fallback_to_tanyu_logs, and back in the thread.
Fallback ==
    /\ at = "fallback" /\ at' = "loop"
    /\ degraded' = TRUE
    /\ IF effective = "logs" THEN UNCHANGED <<effective, watcher>>
       ELSE effective' = "logs" /\ watcher' = "runs"
    /\ UNCHANGED <<world, state, fell, late, sessions, streak, cursor, round, mode>>

\* Slip: the thread goes on before it has called on_recover.
TryRecoverLater ==
    /\ at = "loop" /\ state = "scanning" /\ degraded
    /\ Attached /\ Attach
    /\ degraded' = FALSE /\ state' = "listening"
    /\ UNCHANGED <<fell, late, cursor, round, at, agent>>

\* _try_recover, every 30 seconds while degraded.
TryRecover ==
    /\ at = "loop" /\ state = "scanning" /\ degraded
    /\ Attached /\ Attach
    /\ degraded' = FALSE /\ state' = "listening" /\ at' = "recover"
    /\ UNCHANGED <<fell, late, cursor, round, agent>>

\* _recover_to_cdp: the agent turns to CDP and stops the watcher, which may
\* still be busy when the wait for it ends.  With the logs as the configured
\* feed nothing changes.
Recover ==
    /\ at = "recover" /\ at' = "loop"
    /\ IF mode = "logs" \/ effective = "cdp" THEN UNCHANGED <<effective, watcher>>
       ELSE effective' = "cdp" /\ watcher' \in {"stops", "off"}
    /\ UNCHANGED <<world, state, degraded, fell, late, sessions, streak, cursor, round, mode>>

\* LogWatcher.stop: the thread ends after its last flush.
WatcherEnds ==
    /\ watcher = "stops" /\ watcher' = "off"
    /\ UNCHANGED <<world, source, mode, effective>>

-----------------------------------------------------------------------------
\* A round over the sessions.

\* The rescan, when it is due, and the start of the round at the cursor.
StartRound ==
    /\ at = "loop" /\ state = "listening"
    /\ \/ Attach
       \/ UNCHANGED <<sessions, streak, world>>
    /\ sessions' # <<>>
    /\ round' = [list |-> sessions', start |-> cursor % Len(sessions'), done |-> 0]
    /\ at' = "round"
    /\ UNCHANGED <<state, degraded, fell, late, cursor, agent>>

Index == (round.start + round.done) % Len(round.list)
Current == round.list[Index + 1]

Drop(p) == sessions' = SelectSeq(sessions, LAMBDA q : q # p)

\* An evaluation in the page: answered, or given up when its time is over.
Answers(p) == page[p] = "ready"

\* _pump_session: an evaluation that fails counts, and drops the session when
\* there are too many running; a page without the script loses its session.
Pump(p) ==
    IF p \notin Range(sessions) THEN UNCHANGED <<sessions, streak>>
    ELSE IF ~Answers(p)
    THEN /\ streak' = [streak EXCEPT ![p] = @ + 1]
         /\ IF streak[p] + 1 >= FailLimit THEN Drop(p) ELSE UNCHANGED sessions
    ELSE /\ streak' = [streak EXCEPT ![p] = 0]
         /\ IF p \in hooked THEN UNCHANGED sessions ELSE Drop(p)

\* Slip: every round begins with the first session.
PumpNextFromZero ==
    /\ at = "round" /\ round.done < Len(round.list)
    /\ Pump(Current)
    /\ \/ /\ round' = [round EXCEPT !.done = @ + 1]
          /\ UNCHANGED <<cursor, at>>
       \/ Current \in Range(sessions) /\ cursor' = 0 /\ at' = "check" /\ round' = NoRound
    /\ UNCHANGED <<world, state, degraded, fell, late, agent>>

\* _pump_round: the next session; then the round may have used up its budget
\* and notes where to go on.
PumpNext ==
    /\ at = "round" /\ round.done < Len(round.list)
    /\ Pump(Current)
    /\ \/ /\ round' = [round EXCEPT !.done = @ + 1]
          /\ UNCHANGED <<cursor, at>>
       \/ /\ Current \in Range(sessions)
          /\ cursor' = (Index + 1) % Len(round.list)
          /\ at' = "check" /\ round' = NoRound
    /\ UNCHANGED <<world, state, degraded, fell, late, agent>>

\* A full turn.
EndRound ==
    /\ at = "round" /\ round.done = Len(round.list)
    /\ cursor' = 0 /\ at' = "check" /\ round' = NoRound
    /\ UNCHANGED <<world, state, degraded, fell, late, sessions, streak, agent>>

\* _health_check: is_alive for the port of each session.
Healthy == SelectSeq(sessions, LAMBDA p : page[p] # "gone")

\* After the round: with no session left the thread scans again; otherwise
\* the health check, when it is due, drops the pages whose port is dead.
Check ==
    /\ at = "check" /\ at' = "loop"
    /\ IF sessions = <<>>
       THEN state' = "scanning" /\ late' = FALSE /\ UNCHANGED sessions
       ELSE /\ \/ UNCHANGED sessions
               \/ sessions' = Healthy
            /\ UNCHANGED <<state, late>>
    /\ UNCHANGED <<world, degraded, fell, streak, cursor, round, agent>>

\* A health check may have dropped the last session: the round has nothing to do.
EmptyRound ==
    /\ at = "loop" /\ state = "listening" /\ sessions = <<>>
    /\ at' = "check"
    /\ UNCHANGED <<world, state, degraded, fell, late, sessions, streak, cursor, round, agent>>

-----------------------------------------------------------------------------

Thread == Scan \/ GiveWay \/ Fallback \/ TryRecover \/ Recover \/ StartRound
            \/ EmptyRound \/ PumpNext \/ EndRound \/ Check

Next ==
    \/ \E p \in Pages : Change(p) \/ Reload(p)
    \/ Thread \/ GetLate \/ WatcherEnds

Spec == Init /\ [][Next]_vars

-----------------------------------------------------------------------------
\* Every variable keeps its type; only a scanning source is degraded, and only
\* one that has given way.
TypeOK ==
    /\ mode \in {"cdp", "logs"} /\ page \in [Pages -> {"ready", "stuck", "gone"}]
    /\ hooked \subseteq Pages /\ changes \in 0 .. MaxChanges
    /\ state \in {"scanning", "listening"} /\ late \in BOOLEAN
    /\ degraded => fell /\ state = "scanning"
    /\ IsInjective(sessions) /\ Range(sessions) \subseteq Pages
    /\ streak \in [Pages -> 0 .. FailLimit]
    /\ cursor \in 0 .. Cardinality(Pages) - 1
    /\ at \in {"loop", "fallback", "recover", "round", "check"}
    /\ effective \in {"cdp", "logs"} /\ watcher \in {"off", "runs", "stops"}

\* The sessions are drained only when the log watcher has been told to stop:
\* on_recover comes before the first round, so that no message is reported by
\* both feeds.
OneFeed == (mode = "cdp" /\ at = "round") => watcher # "runs"

\* The session of p is drained, or p has none.
Served(p) ==
    \/ at = "round" /\ round.done < Len(round.list) /\ Current = p
    \/ p \notin Range(sessions)

\* The source listens, and the agent is at its configured feed.
Back == state = "listening" /\ effective = mode

=============================================================================
