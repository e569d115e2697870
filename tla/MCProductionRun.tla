-------------------------- MODULE MCProductionRun --------------------------
(* A small instance of ProductionRun for TLC.                              *)
EXTENDS ProductionRun

CONSTANTS p1, p2, c1, c2, r1, r2, source, other

\* The manifests were written for different contents.
MCDeclared == [k \in {"cal", "eva"} |-> IF k = "cal" THEN c1 ELSE c2]
=============================================================================
