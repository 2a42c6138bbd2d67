------------------------------ MODULE MCIntake ------------------------------
\* Small instances of Intake: one message and one answer with a history of
\* two, a frame of an unknown kind; a log with two copies of a seller's
\* message, the second the better one, and a message broken over two lines;
\* two pages that come, hang, go and reload.
EXTENDS Intake
CONSTANTS a, c, o, x1, x2, z, g, p1, p2
MCLists == {<<a, c>>}
MCLog == <<[kind |-> "whole", exact |-> x1, sem |-> g, q |-> 1],
           [kind |-> "whole", exact |-> x2, sem |-> g, q |-> 2],
           [kind |-> "head", exact |-> z, sem |-> None, q |-> 1],
           [kind |-> "tail", exact |-> z, sem |-> None, q |-> 1]>>
=============================================================================
