\* Two builders of one package; two files of the run directory change.
SPECIFICATION Spec
CONSTANTS
    b1 = b1  b2 = b2
    r1 = r1  r2 = r2
    Builders = {b1, b2}
    Runs = {r1, r2}
    Size = 3
    None = None
    MaxChanges = 2
    MaxLosses = 1
INVARIANTS
    TypeOK
    PackageIsOneRun
PROPERTY Implements
CHECK_DEADLOCK FALSE
