---------------------------- MODULE MCLocalFirst ----------------------------
(* Model values of LocalFirst for TLC: one message, whose shop has         *)
(* immediate ingress or not.                                               *)
EXTENDS LocalFirst, TLC

CONSTANTS log, m1, w1
=============================================================================
