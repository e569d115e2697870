\* Two processes on one output; two changes of the inputs or of the model.
SPECIFICATION Spec
CONSTANTS
    p1 = p1  p2 = p2
    c1 = c1  c2 = c2
    r1 = r1  r2 = r2
    source = source  other = other
    Procs = {p1, p2}
    Contents = {c1, c2}
    Declared <- MCDeclared
    DigestGiven = {"cal"}
    Source = source
    Other = other
    Revisions = {r1, r2}
    Clean = {r1}
    None = None
    MaxChanges = 2
INVARIANTS
    TypeOK
    UsedAsRecorded
    DisjointData
    ValidModelEvaluated
PROPERTIES
    Implements
