\* Two preparers with one output directory; one change of the folder.
SPECIFICATION Spec
CONSTANTS
    i1 = i1  i2 = i2  i3 = i3
    Preparers = {p1, p2}
    ClassCount = 2
    Names = {1, 2, 3}
    Images = {i1, i2, i3}
    Junk = Junk
    CalPerClass = 1
    EvaPerClass = 1
    LabelLimit = 1
    Folders <- MCFolders
    None = None
    MaxChanges = 1
INVARIANTS
    TypeOK
    Selected
    Split
    UpToDate
PROPERTIES
    Implements
CHECK_DEADLOCK FALSE
