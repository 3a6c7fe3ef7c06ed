\* Two requests issue the invoice at a time.
SPECIFICATION Spec
CONSTANTS
    r1 = r1
    r2 = r2
    article = article
    lineA = lineA
    lineB = lineB
    Requests = {r1, r2}
    Items = {article}
    Lines = {lineA, lineB}
    ItemOf <- MCItemOf
    Want <- MCWant
    Opening <- MCOpening
    Step = 1
    MaxCalls = 2
    MaxOthers = 0
    MaxCrashes = 0
INVARIANT DeductedOnce
CHECK_DEADLOCK FALSE
