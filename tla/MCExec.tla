------------------------------- MODULE MCExec -------------------------------
(* Exec for TLC: a root (1) with two children, one of which (2) is in service *)
(* from within second 3 to second 4.  The seconds simulated are 2 to 6.       *)
EXTENDS Exec

MCRank == [o \in Obj |-> IF o = 1 THEN 1 ELSE 0]
MCPasses == [o \in Obj |-> CASE o = 1 -> {0, 1} [] o = 2 -> {1, 2} [] o = 3 -> {1}]
MCInSvc == [o \in Obj |-> IF o = 2 THEN 3 ELSE 0]
MCOutSvc == [o \in Obj |-> IF o = 2 THEN 4 ELSE TS_NEVER]
MCInSvcGrid == [o \in Obj |-> IF o = 2 THEN 4 ELSE 0]
MCSync == {2, 3, 4, 5, -3, -5, 0, TS_INVALID}
MCInternal == {3, -4, 0}
MCGridInternal == {3, -7}
MCGridTransform == {4, TS_INVALID}
MCGridUpdate == {2, 4, TS_INVALID}
MCGridCommit == {4, 8, TS_INVALID, 0}
MCDeltaError == {DT_INFINITY, 0, DT_INVALID}
MCDeltaAny == {DT_INFINITY, 0, 1, DT_INVALID}
MCElapsed == {0, 1, 2, DT_INVALID}
MCCommit == {4, 5, TS_INVALID, 0}
=============================================================================
