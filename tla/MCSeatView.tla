----------------------------- MODULE MCSeatView -----------------------------
(* Two windows, the workbench and the dock, with a switch each.              *)
EXTENDS SeatView

CONSTANTS workbench, dock
=============================================================================
