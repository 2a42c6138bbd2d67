--------------------------- MODULE CommandPromise ---------------------------
(***************************************************************************)
(* What the command channel promises, without threads, queues or crashes:  *)
(*   - a command is executed, and its message leaves, only while it is on  *)
(*     file, or when the center is through with it: a command that comes   *)
(*     again just then may be executed while its record is erased;         *)
(*   - a command leaves the file only once the center has closed it, so a  *)
(*     crash at any moment still finds every unsettled execution;          *)
(*   - the center closes a command only with a result some execution of    *)
(*     it came to ("indeterminate" and "gone" need none): it never learns  *)
(*     "ok" or "failed" of a command that did not end that way.            *)
(***************************************************************************)

CONSTANTS Commands, Results

VARIABLES
  center,    \* "open" or the verdict that closed the command
  logged,    \* commands with a durable record
  delivered, \* commands whose message reached the buyer
  told       \* the results executions of a command have come to

vars == <<center, logged, delivered, told>>

Init ==
  /\ center = [c \in Commands |-> "open"]
  /\ logged = {} /\ delivered = {}
  /\ told = [c \in Commands |-> {}]

\* The file is rewritten: records of open commands survive.
Rewrite(records) ==
  /\ \A c \in logged \ records : center[c] # "open"
  /\ logged' = records
  /\ UNCHANGED <<center, delivered, told>>

Perform(c, result) ==
  /\ c \in logged \/ center[c] # "open"
  /\ told' = [told EXCEPT ![c] = @ \cup {result}]
  /\ delivered' \in {delivered, delivered \cup {c}}
  /\ UNCHANGED <<center, logged>>

Close(c, verdict) ==
  /\ center[c] = "open" /\ c \in logged
  /\ verdict \in told[c] \cup {"indeterminate", "gone"}
  /\ center' = [center EXCEPT ![c] = verdict]
  /\ UNCHANGED <<logged, delivered, told>>

Next ==
  \/ \E records \in SUBSET Commands : Rewrite(records)
  \/ \E c \in Commands, r \in Results : Perform(c, r)
  \/ \E c \in Commands, v \in Results \cup {"gone"} : Close(c, v)

Spec == Init /\ [][Next]_vars
=============================================================================
