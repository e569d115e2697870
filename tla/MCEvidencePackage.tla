--------------------------- MODULE MCEvidencePackage ---------------------------
(* A small instance of EvidencePackage for TLC.                            *)
EXTENDS EvidencePackage

CONSTANTS b1, b2, r1, r2
=============================================================================
