CONSTANTS
    d1 = d1
    d2 = d2
    e1 = e1
    p1 = p1
    p2 = p2
    None = None
    s1 = s1
    s2 = s2
    Dev = {d1, d2, e1}
    Path = {p1, p2}
    Scanner = {s1, s2}
    Start <- AllStarts
SPECIFICATION StepSpec
INVARIANTS TypeOK PresentIsActive ActiveIsPresent
PROPERTIES ClaimKeepsDisk NoOverwrite ComesToRest
