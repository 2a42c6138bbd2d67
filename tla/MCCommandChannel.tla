-------------------------- MODULE MCCommandChannel --------------------------
(* Finite instances of CommandChannel for TLC.                             *)
EXTENDS CommandChannel, TLC

CONSTANT buyer

\* All commands answer one buyer.
OneBuyer == [c \in Commands |-> buyer]

\* The commands of one buyer are alike.
AnyCommand == Permutations(Commands)
=============================================================================
