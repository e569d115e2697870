\* The benchmark program for a few shapes, with an int of ten bits.
SPECIFICATION Spec
CONSTANTS
    IntMax = 511
    Sizes <- MCSizes
    MaxLatency = 2
INVARIANTS
    TypeOK
    VerdictRight
    SafeSizes
