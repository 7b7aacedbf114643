-------------------------- MODULE LogBroadcasterMC --------------------------
(***************************************************************************)
(* LogBroadcaster on small instances.  For liveness the log never falls    *)
(* silent: when the numbers run out the last one is written again, so that *)
(* the hub always has something else to do.                                *)
(***************************************************************************)
EXTENDS LogBroadcaster

WriteAgain == written = MaxMsg /\ Enqueue(MaxMsg)

EndlessSpec == Init /\ [][Next \/ WriteAgain]_vars /\ Fairness
=============================================================================
