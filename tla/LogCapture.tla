----------------------------- MODULE LogCapture -----------------------------
(***************************************************************************)
(* The log watcher (bridge/watcher.py): one log that grows and rotates is  *)
(* read, parsed and handed to the agent.  Copies of one message from       *)
(* several log lines are held for a moment and merged, a message broken    *)
(* over two lines is put together, and the cursor on disk moves when       *)
(* nothing is held.  Callbacks fail, reads fail, the process crashes.      *)
(*                                                                         *)
(* The log is a fixed sequence of lines, cut into files: a place in it is  *)
(* the number of lines before it.                                          *)
(***************************************************************************)
EXTENDS Integers, Sequences, FiniteSets, SequencesExt

CONSTANTS
    Log,         \* the lines: [kind, exact, sem, q]
    None,        \* no semantic key; no checkpoint
    MaxFiles,    \* bound: files of the log
    MaxErrors,   \* bound: failures of the callback and of reading
    MaxCrashes   \* bound: ends of the process

\* The file and the place in it, the files to read next, and those that are noted.
Cursors == [file : Nat, pos : Nat, remaining : Seq(Nat), known : SUBSET Nat]

\* What Intake assumes of the constants.
BoundsAssumption == {MaxFiles, MaxErrors, MaxCrashes} \subseteq Nat /\ MaxFiles > 0
LogAssumption ==
    /\ Log \in Seq(Range(Log)) /\ None \notin Cursors
    /\ \A i \in DOMAIN Log : Log[i].kind \in {"whole", "head", "tail"} /\ Log[i].q \in Nat

Lines == DOMAIN Log
Exacts == {Log[i].exact : i \in Lines}

VARIABLES
    written,     \* lines the workbench has written
    cuts,        \* for each file, the place where it begins
    at,          \* where the thread is in its loop
    file, open,  \* the file it reads, and whether it has it open
    pos,         \* the place up to which it has read
    known,       \* _known_paths
    backlog,     \* _backlog_paths
    restored,    \* _restored_sources
    cand,        \* _multiline_candidates: a line that waits for its rest
    pending,     \* _pending_events: [group, line]
    seen,        \* seen_keys
    recent,      \* _seller_semantic_seen: what was told in the last seconds
    ckpt,        \* the cursor on disk
    told,        \* how often an event was handed to the agent
    since,       \* history: the place at which the watcher first looked
    gone,        \* history: lines a known accident took
    errors, crashes

log == <<written, cuts>>
reader == <<file, open, pos, known, backlog, restored>>
memory == <<reader, cand, pending, seen, recent>>
vars == <<log, at, memory, ckpt, told, since, gone, errors, crashes>>

-----------------------------------------------------------------------------

Files == DOMAIN cuts
End(f) == IF f = Len(cuts) THEN written ELSE cuts[f + 1]
FileOf(i) == CHOOSE f \in Files : cuts[f] < i /\ i <= End(f)

Forgotten ==
    /\ at' = "attach" /\ file' = 0 /\ open' = FALSE /\ pos' = 0
    /\ known' = {} /\ backlog' = <<>> /\ restored' = FALSE
    /\ cand' = 0 /\ pending' = {} /\ seen' = {} /\ recent' = {}

Init ==
    /\ written = 0 /\ cuts = <<0>> /\ at = "attach"
    /\ file = 0 /\ open = FALSE /\ pos = 0
    /\ known = {} /\ backlog = <<>> /\ restored = FALSE
    /\ cand = 0 /\ pending = {} /\ seen = {} /\ recent = {}
    /\ ckpt = None /\ told = [x \in Exacts |-> 0] /\ since = 0 /\ gone = {}
    /\ errors = 0 /\ crashes = 0

-----------------------------------------------------------------------------
\* The workbench writes its log.

Write ==
    /\ written < Len(Log) /\ written' = written + 1
    /\ UNCHANGED <<cuts, at, memory, ckpt, told, since, gone, errors, crashes>>

\* A file has a line when the next one begins.
Rotate ==
    /\ Len(cuts) < MaxFiles /\ cuts[Len(cuts)] < written
    /\ cuts' = Append(cuts, written)
    /\ UNCHANGED <<written, at, memory, ckpt, told, since, gone, errors, crashes>>

-----------------------------------------------------------------------------
\* Holding and handing over.

\* _is_history_duplicate
Duplicate(i) == Log[i].exact \in seen \/ (Log[i].sem # None /\ Log[i].sem \in recent)

\* _event_keys, _queue_message: copies of a seller's message are grouped by
\* its text, others by their id.
Group(i) == IF Log[i].sem # None THEN Log[i].sem ELSE Log[i].exact

\* _queue_message: of the copies that are held the best one stays.
Hold(held, i) ==
    IF Duplicate(i) \/ \E e \in held : e.group = Group(i) /\ Log[e.line].q >= Log[i].q THEN held
    ELSE {e \in held : e.group # Group(i)} \cup {[group |-> Group(i), line |-> i]}

\* _flush_pending: the events of due are handed over, but for the ones whose
\* callback fails: those stay, and do not hold up the others.
HandOver(due, failing) ==
    LET new == {e \in due \ failing : ~Duplicate(e.line)}
        keys == {Log[e.line].exact : e \in new}
    IN  /\ pending' = (pending \ due) \cup failing
        /\ told' = [x \in Exacts |-> IF x \in keys THEN told[x] + 1 ELSE told[x]]
        /\ seen' = seen \cup keys
        /\ recent' = recent \cup ({Log[e.line].sem : e \in new} \ {None})

\* Slip: the cursor moves although events are held.
SaveAlways(held, waiting, f, p, bl, kn) ==
    [file |-> f, pos |-> p, remaining |-> bl, known |-> kn]

\* _save_checkpoints: only when no event is held and no line waits.
Save(held, waiting, f, p, bl, kn) ==
    IF held = {} /\ waiting = 0
    THEN [file |-> f, pos |-> p, remaining |-> bl, known |-> kn]
    ELSE ckpt

-----------------------------------------------------------------------------
\* _attach

\* Files in the order of their times.
InOrder(S) ==
    [n \in 1 .. Cardinality(S) |-> CHOOSE f \in S : Cardinality({g \in S : g < f}) = n - 1]

\* list.remove: the first f.
Without(q, f) ==
    IF f \notin Range(q) THEN q
    ELSE RemoveAt(q, CHOOSE i \in DOMAIN q : q[i] = f /\ \A j \in 1 .. i - 1 : q[j] # f)

\* Slip: a file that appears while the watcher does not run is not noted.
BacklogOfLife ==
    IF known = {} THEN IF ckpt = None THEN <<>> ELSE ckpt.remaining
    ELSE backlog \o InOrder(Files \ (known \cup Range(backlog)))

\* Files that have appeared are read in their order, after the rest of the
\* file the cursor is in.
Backlog ==
    IF known = {}
    THEN IF ckpt = None THEN <<>>
         ELSE ckpt.remaining \o InOrder(Files \ ckpt.known)
    ELSE backlog \o InOrder(Files \ (known \cup Range(backlog)))

Target ==
    IF ~open /\ ~restored /\ ckpt # None THEN ckpt.file
    ELSE IF Backlog # <<>> THEN Head(Backlog) ELSE Len(cuts)

\* A first attachment begins at the cursor; at the end of the log if there
\* never was one; at the beginning of a file that is not the cursor's.
FirstPlace ==
    IF ckpt = None THEN End(Target)
    ELSE IF ckpt.file = Target THEN ckpt.pos ELSE cuts[Target]

Attach ==
    /\ at = "attach" /\ ~open
    /\ file' = Target /\ open' = TRUE /\ pos' = FirstPlace
    /\ since' = IF ckpt = None THEN FirstPlace ELSE since
    /\ known' = Files /\ restored' = TRUE
    /\ backlog' = Without(Backlog, Target)
    /\ gone' = IF file \in Files \ {Target} THEN gone \cup (pos + 1 .. End(file)) ELSE gone
    /\ ckpt' = Save(pending, cand, Target, FirstPlace, backlog', Files)
    /\ at' = "read"
    /\ UNCHANGED <<log, cand, pending, seen, recent, told, errors, crashes>>

\* The file is open, and is the one to read, or is not read to its end.
Stay ==
    /\ at = "attach" /\ open /\ (Target = file \/ pos < End(file))
    /\ known' = Files /\ backlog' = Backlog
    /\ ckpt' = Save(pending, cand, file, pos, Backlog, Files)
    /\ at' = "read"
    /\ UNCHANGED <<log, file, open, pos, restored, cand, pending, seen, recent, told,
                   since, gone, errors, crashes>>

\* The file is read to its end and another one waits: what is held is handed
\* over, whether due or not, and the next file is opened.
Switch ==
    /\ at = "attach" /\ open /\ Target # file /\ pos >= End(file)
    /\ HandOver(pending, {})
    /\ known' = Files /\ backlog' = Without(Backlog, Target)
    /\ file' = Target /\ pos' = cuts[Target]
    /\ ckpt' = Save({}, cand, Target, cuts[Target], backlog', Files)
    /\ at' = "read"
    /\ UNCHANGED <<log, open, restored, cand, since, gone, errors, crashes>>

\* A callback fails meanwhile: the round ends, the file stays open.
SwitchFails ==
    /\ at = "attach" /\ open /\ Target # file /\ pos >= End(file)
    /\ errors < MaxErrors /\ errors' = errors + 1
    /\ \E e \in pending : HandOver(pending, {e})
    /\ known' = Files /\ backlog' = Backlog
    /\ UNCHANGED <<log, at, file, open, pos, restored, cand, ckpt, since, gone, crashes>>

-----------------------------------------------------------------------------
\* _read_new, _emit_line: a line gives a message, or waits for the next one,
\* or is the rest of the one that waits.  Any message ends the waiting.
Emit(r, i) ==
    IF Log[i].kind = "head" THEN [r EXCEPT !.cand = IF @ = 0 THEN i ELSE @]
    ELSE IF Log[i].kind = "tail" /\ r.cand = 0 THEN [r EXCEPT !.gone = @ \cup {i}]
    ELSE [r EXCEPT !.cand = 0, !.held = Hold(@, i)]

\* The lines up to p, one after the other.
ReadTo(p) ==
    LET after[n \in pos .. p] ==
          IF n = pos THEN [held |-> pending, cand |-> cand, gone |-> gone]
          ELSE Emit(after[n - 1], n)
    IN  after[p]

Read ==
    /\ at = "read" /\ at' = "flush"
    /\ \/ pos = End(file) /\ UNCHANGED <<pos, pending, cand, gone>>
       \/ \E p \in pos + 1 .. End(file) :
            /\ pos' = p
            /\ pending' = ReadTo(p).held /\ cand' = ReadTo(p).cand /\ gone' = ReadTo(p).gone
    /\ UNCHANGED <<log, file, open, known, backlog, restored, seen, recent, ckpt, told, since,
                   errors, crashes>>

\* Reading fails: the file is dropped, to be opened again.
ReadFails ==
    /\ at = "read" /\ at' = "flush"
    /\ errors < MaxErrors /\ errors' = errors + 1
    /\ open' = FALSE
    /\ UNCHANGED <<log, file, pos, known, backlog, restored, cand, pending, seen, recent,
                   ckpt, told, since, gone, crashes>>

\* The end of the loop: events that are due, a line that waited too long, the
\* cursor.  If a callback fails the round ends at once.
Flush(due, failing) ==
    /\ at = "flush" /\ at' = "attach"
    /\ HandOver(due, failing)
    /\ IF failing # {} THEN UNCHANGED <<cand, ckpt>>
       ELSE /\ cand' \in {cand, 0}
            /\ ckpt' = IF open THEN Save(pending', cand', file, pos, backlog, known) ELSE ckpt
    /\ errors' = errors + Cardinality(failing) /\ errors' <= MaxErrors
    /\ UNCHANGED <<log, reader, since, gone, crashes>>

FlushAll == Flush(pending, {})

\* Five seconds after a seller's message.
Forget ==
    /\ recent # {} /\ recent' = {}
    /\ UNCHANGED <<log, at, reader, cand, pending, seen, ckpt, told, since, gone, errors, crashes>>

-----------------------------------------------------------------------------
\* The process ends, and another one begins.

Crash ==
    /\ crashes < MaxCrashes /\ crashes' = crashes + 1
    /\ Forgotten
    /\ UNCHANGED <<log, ckpt, told, since, gone, errors>>

\* stop: the thread hands over what it holds and saves the cursor.
Stop ==
    /\ crashes < MaxCrashes /\ crashes' = crashes + 1
    /\ at = "attach" /\ open
    /\ LET new == {Log[e.line].exact : e \in {d \in pending : ~Duplicate(d.line)}}
       IN  told' = [x \in Exacts |-> IF x \in new THEN told[x] + 1 ELSE told[x]]
    /\ ckpt' = Save({}, cand, file, pos, backlog, known)
    /\ Forgotten
    /\ UNCHANGED <<log, since, gone, errors>>

-----------------------------------------------------------------------------

Next ==
    \/ Write \/ Rotate
    \/ Attach \/ Stay \/ Switch \/ SwitchFails
    \/ Read \/ ReadFails \/ Forget
    \/ \E due \in SUBSET pending : \E failing \in SUBSET due : Flush(due, failing)
    \/ Crash \/ Stop

Spec == Init /\ [][Next]_vars

-----------------------------------------------------------------------------
\* Every variable keeps its type; at most one event is held per group.
TypeOK ==
    /\ written \in 0 .. Len(Log) /\ Len(cuts) \in 1 .. MaxFiles
    /\ at \in {"attach", "read", "flush"} /\ file \in 0 .. Len(cuts) /\ open \in BOOLEAN
    /\ pos \in 0 .. written /\ (open => cuts[file] <= pos /\ pos <= End(file))
    /\ Range(backlog) \subseteq Files \ {file} /\ IsInjective(backlog)
    /\ cand \in 0 .. Len(Log) /\ seen \subseteq Exacts
    /\ \A d, e \in pending : d.group = e.group => d = e
    /\ told \in [Exacts -> Nat]

\* The agent knows of the message of this line, or of one of its copies.
Told(i) == \E j \in Lines : told[Log[j].exact] > 0 /\ Group(j) = Group(i)

\* Would this line be read again after a crash?
Covered(i) ==
    LET f == FileOf(i)
    IN  \/ f = ckpt.file /\ i > ckpt.pos
        \/ f \in Range(ckpt.remaining) \cup (Files \ ckpt.known)

Messages == {i \in Lines : Log[i].kind # "head"}

\* A line the cursor has passed, of those written since the watcher first
\* looked, has reached the agent: a crash loses nothing ("a cursor is
\* committed only after every parsed event reached its durable queue").
CursorIsBehind ==
    ckpt # None =>
      \A i \in Messages : i <= written /\ i > since => Covered(i) \/ Told(i) \/ i \in gone

\* An event is handed over once in the life of a process.
OncePerLife == \A x \in Exacts : told[x] <= crashes + 1
=============================================================================
