-------------------------- MODULE MCExclusivePublish --------------------------
(* A small instance of ExclusivePublish for TLC.                           *)
EXTENDS ExclusivePublish

CONSTANTS w1, w2, w3
=============================================================================
