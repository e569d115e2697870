------------------------------ MODULE MCPilotRun ------------------------------
(* A small instance of PilotRun for TLC: patterns that repeat after three  *)
(* images, three rankings of two classes each.                             *)
EXTENDS PilotRun

MCCounts == {<<1, 2>>, <<2, 1>>, <<2, 2>>}
MCRankings == {<<1, 2>>, <<2, 1>>, <<3, 2>>}
=============================================================================
