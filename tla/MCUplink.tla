------------------------------ MODULE MCUplink ------------------------------
(* Finite instances of Uplink for TLC.                                     *)
EXTENDS Uplink, TLC

CONSTANTS log, cdp, echo, callback, bare, hello, reply, other, diag, u1, u2

\* log and cdp are two sources' copies of the customer's message hello; echo and
\* callback are two copies of the seller's reply, the callback the fuller one.
CopyOf(e) == IF e \in {log, cdp} THEN hello ELSE IF e = bare THEN other ELSE reply
Copy == [e \in Events |-> CopyOf(e)]
Fullness == [e \in Events |-> IF e = callback THEN 2 ELSE 1]

\* Two sources of one message, both copies of the answer, one of each, or a message that
\* has no id and is not told from its repetition.
Pairs == {{log, cdp}, {echo, callback}, {log, callback}, {bare}}

\* A message beside a diagnostic event without keys, or one too big for a frame.
AnyKind == {[e \in {hello, diag} |-> IF e = hello THEN "plain" ELSE k] :
             k \in {"keyless", "big"}}
=============================================================================
