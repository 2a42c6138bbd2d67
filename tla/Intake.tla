-------------------------------- MODULE Intake --------------------------------
(***************************************************************************)
(* Where the agent gets its messages from (bridge/agent.py: _start_feeds): *)
(* the pages of the workbench (CdpCapture), or the log files of its plugin *)
(* (LogCapture), or whichever of the two is there, with the contents left  *)
(* out (SourceSwitch).  The states are those of one of the three, the      *)
(* others at rest.                                                         *)
(***************************************************************************)
EXTENDS CdpCapture

CONSTANTS Log, None, MaxFiles, MaxLogErrors, MaxCrashes,
          Pages, FailLimit, MaxChanges

VARIABLES
    source,   \* the part looked at: "cdp", "log", or the "switch" between them
    written, cuts, at, file, open, pos, known, backlog, restored, cand, pending,
    logSeen, recent, ckpt, logTold, since, logGone, logErrors, crashes,
    mode, pageState, scripts, changes, state, degraded, fell, late, sessions, streak,
    cursor, round, step, effective, watcher

Files == INSTANCE LogCapture WITH
    seen <- logSeen, told <- logTold, gone <- logGone, errors <- logErrors,
    MaxErrors <- MaxLogErrors

Feeds == INSTANCE SourceSwitch WITH page <- pageState, hooked <- scripts, at <- step

ASSUME IntakeAssumption ==
    /\ Files!BoundsAssumption /\ Files!LogAssumption
    /\ Feeds!BoundsAssumption

logVars == <<written, cuts, at, file, open, pos, known, backlog, restored, cand, pending,
             logSeen, recent, ckpt, logTold, since, logGone, logErrors, crashes>>
feedVars == <<mode, pageState, scripts, changes, state, degraded, fell, late, sessions,
              streak, cursor, round, step, effective, watcher>>
intakeVars == <<source, vars, logVars, feedVars>>

CdpPart == source = "cdp" /\ UNCHANGED <<source, logVars, feedVars>>
LogPart == source = "log" /\ UNCHANGED <<source, vars, feedVars>>
SwitchPart == source = "switch" /\ UNCHANGED <<source, vars, logVars>>

\* Of the parts not looked at nothing is left open.
IntakeInit ==
    /\ Init /\ Files!Init /\ Feeds!Init
    /\ source \in {"cdp", "log", "switch"}
    /\ source # "cdp" => historyOnly
    /\ source # "switch" => mode = "cdp" /\ \A p \in Pages : pageState[p] = "gone"

IntakeNext ==
    \/ Next /\ CdpPart
    \/ Files!Next /\ LogPart
    \/ Feeds!Next /\ SwitchPart

\* The thread of the feed goes on, and so do the page's timers and requests; the watcher
\* reads what there is, and an event it holds is due some time.  Messages, reloads and
\* failures need not happen.
Thread ==
    \/ (Attach \/ PumpPush \/ Peek \/ HandleBatch \/ Ack) /\ CdpPart
    \/ (Files!Attach \/ Files!Stay \/ Files!Switch \/ Files!Read \/ Files!FlushAll) /\ LogPart
    \/ Feeds!Thread /\ SwitchPart

Page == (Flush \/ \E p \in posts : Answered(p) \/ Accept(p)) /\ CdpPart

IntakeFairness ==
    /\ WF_intakeVars(Thread) /\ WF_intakeVars(Page)
    /\ WF_intakeVars((Feeds!GetLate \/ Feeds!WatcherEnds) /\ SwitchPart)
    /\ SF_intakeVars(Files!Read /\ pos' = Files!End(file) /\ LogPart)
    /\ SF_intakeVars(Files!FlushAll /\ LogPart)

IntakeSpec == IntakeInit /\ [][IntakeNext]_intakeVars /\ IntakeFairness

-----------------------------------------------------------------------------
\* Types, of every part.
IntakeTypeOK == TypeOK /\ Files!TypeOK /\ Feeds!TypeOK

\* See LogCapture: what the cursor on disk has passed has reached the agent.
CursorIsBehind == Files!CursorIsBehind

\* See LogCapture: an event is handed over once in the life of a process.
OncePerLife == Files!OncePerLife

\* See SourceSwitch: messages are read from the pages only once the log watcher has been
\* told to stop.
OneFeed == Feeds!OneFeed

\* Whatever a page recorded or the log holds reaches the agent in the end, but for the
\* accidents noted in gone, and what waits in the store for the page to be loaded anew.
EveryMessageSettles ==
    []<>CASE source = "cdp" -> \A m \in Recorded : Settled(m)
          [] source = "log" -> ckpt # None => \A i \in Files!Messages :
                i > since /\ i <= written => Files!Told(i) \/ i \in logGone
          [] source = "switch" -> TRUE

\* A session is drained again and again while it is there, however long the other pages
\* take (_pump_cursor).
NobodyStarves == \A p \in Pages : []<>(source = "switch" => Feeds!Served(p))

\* With a page that stays ready, and keeps the script, the source in the end listens to
\* it, and the agent is back at its configured feed.
ComesBack ==
    <>[](source = "switch" /\ \E p \in Pages : pageState[p] = "ready") => <>[]Feeds!Back
=============================================================================
