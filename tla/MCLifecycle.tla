---------------------------- MODULE MCLifecycle ----------------------------
(* Two gateways, two controllers and two ports; two agents, one after the  *)
(* other.                                                                  *)
EXTENDS Lifecycle, TLC
CONSTANTS g1, g2, d1, d2
=============================================================================
