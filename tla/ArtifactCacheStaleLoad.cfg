\* The file an Adapter opens, with a concurrent pull of another revision.
SPECIFICATION Spec
CONSTANTS
    p1 = p1  p2 = p2  r1 = r1  r2 = r2
    modelFile = modelFile  metaFile = metaFile
    bytes1 = bytes1  bytes2 = bytes2
    Procs = {p1, p2}
    Revs = {r1, r2}
    Paths = {modelFile, metaFile}
    MetaPath = metaFile
    FileName <- SamePath
    Declared <- DifferentBytes
    Absent = Absent  Junk = Junk  Foreign = Foreign
    MaxEdits = 1  MaxFaults = 0
INVARIANT AdapterLoadsVerified
