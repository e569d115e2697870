\* Three runs, two of them with the same output, and rvai compare.
SPECIFICATION Spec
CONSTANTS
    n1 = n1  n2 = n2  q1 = q1
    f1 = f1  f2 = f2
    Runners = {n1, n2, q1}
    Emulated = {q1}
    Forced = {n2}
    Files = {f1, f2}
    Output <- MCOutput
    Payloads <- MCPayloads
    Earlier <- MCEarlier
    None = None
INVARIANTS
    TypeOK
    RatioTrusted
    PresentKept
    ErrorMeansNoRecord
CHECK_DEADLOCK FALSE
