\* Two invocations, two revisions of the Manifest for the same file name: what
\* the cache directory holds, what commands answer, and that they end.
SPECIFICATION FairSpec
CONSTANTS
    p1 = p1  p2 = p2  r1 = r1  r2 = r2
    modelFile = modelFile  metaFile = metaFile
    bytes1 = bytes1  bytes2 = bytes2
    Procs = {p1, p2}
    Revs = {r1, r2}
    Paths = {modelFile, metaFile}
    MetaPath = metaFile
    FileName <- SamePath
    Declared <- DifferentBytes
    Absent = Absent  Junk = Junk  Foreign = Foreign
    MaxEdits = 1  MaxFaults = 1
INVARIANTS
    TypeOK
    NoPartialFile
    PullDelivers
    InferLoadsDeclared
    MetadataNeverAhead
    NoTempLeak
PROPERTY CommandsEnd
