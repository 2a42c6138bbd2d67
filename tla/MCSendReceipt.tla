--------------------------- MODULE MCSendReceipt ---------------------------
(* Finite instances of SendReceipt for TLC.                                *)
EXTENDS SendReceipt, TLC

CONSTANTS twin, again, other, typed, ann, bob, hello, bye

\* twin and again send the same text to ann, other another one to bob; a person types
\* what twin says to bob.
To == [m \in Messages |-> IF m \in {twin, again} THEN ann ELSE bob]
Says == [m \in Messages |-> IF m = other THEN bye ELSE hello]

\* twin and again differ in nothing.
Twins == Permutations({twin, again})
=============================================================================
