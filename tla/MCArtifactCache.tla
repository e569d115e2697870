--------------------------- MODULE MCArtifactCache ---------------------------
(* Small instances of ArtifactCache for TLC.                               *)
EXTENDS ArtifactCache, TLC

CONSTANTS p1, p2, r1, r2, modelFile, metaFile, bytes1, bytes2

\* Two revisions that declare different bytes under the same file name.
SamePath == [r \in Revs |-> modelFile]
DifferentBytes == (r1 :> bytes1) @@ (r2 :> bytes2)

\* The second revision declares the file name of the metadata.
ClashingPath == [r \in Revs |-> metaFile]
=============================================================================
