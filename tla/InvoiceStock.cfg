\* Two requests overlap, three are made in all, and the stock moves elsewhere.
SPECIFICATION Spec
CONSTANTS
    r1 = r1
    r2 = r2
    article = article
    lineA = lineA
    lineB = lineB
    Requests = {r1, r2}
    Items = {article}
    Lines = {lineA, lineB}
    ItemOf <- MCItemOf
    Want <- MCWant
    Opening <- MCOpening
    Step = 1
    MaxCalls = 3
    MaxOthers = 1
    MaxCrashes = 1
INVARIANTS BooksMatch NonNegative NothingTwice CancelledGivesBack IssuedTakes
SYMMETRY Symmetry
CHECK_DEADLOCK FALSE
