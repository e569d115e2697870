\* Two commands that save to the same path, none of them forced.
SPECIFICATION Spec
CONSTANTS
    n1 = n1  n2 = n2  q1 = q1
    f1 = f1  f2 = f2
    Runners = {n1, n2, q1}
    Emulated = {q1}
    Forced = {}
    Files = {f1, f2}
    Output <- MCOutput
    Payloads <- MCPayloads
    Earlier <- MCEarlier
    None = None
PROPERTY NoAccidentalOverwrite
CHECK_DEADLOCK FALSE
