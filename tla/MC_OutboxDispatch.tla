-------------------------- MODULE MC_OutboxDispatch --------------------------
(* Model values for TLC runs of OutboxDispatch.                               *)
EXTENDS OutboxDispatch

CONSTANTS e1, e2, d1, d2

MC_Events      == {e1, e2}
MC_Malformed   == {e2}
MC_Dispatchers == {d1, d2}
MC_AllFaults   == {"claim", "connect", "enqueue", "mark", "crash", "worker"}
MC_Connect     == {"connect"}
MC_None        == {}
==============================================================================
