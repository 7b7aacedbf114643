------------------------------ MODULE AgentMC ------------------------------
(***************************************************************************)
(* Detectors with windows of every kind: negative, empty, of one call, the *)
(* default and a longer one.                                               *)
(***************************************************************************)
EXTENDS Agent

LoopWindows == {-1, 0, 1, 3, 4}
FewWindows == {-1, 0, 2, 3}
=============================================================================
