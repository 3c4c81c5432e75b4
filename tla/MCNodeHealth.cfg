\* Three nodes on two workers under fairness, interrupted at any time.
SPECIFICATION FairSpec
CONSTANTS
    a = a
    b = b
    c = c
    d = d
    n1 = n1
    n2 = n2
    n3 = n3
    ctx = ctx
    Callers = {a, b, c, d}
    Nodes = {n1, n2, n3}
    NodeOf <- MCNodeOf
    Contexts = {ctx}
    ContextOf <- MCContextOf
    Pods = {p1}
    NoPod = NoPod
    NoCaller = NoCaller
    NodeList <- MCNodeList
    MaxParallel = 2
    Entering = {a, b}
    Twice = {a}
INVARIANTS
    SharedLookup
    RunsWhereItWasFound
    SuccessIsComplete
    NothingLeftRunning
    ReportedChecksAreFinal
PROPERTIES
    RunReturns
CHECK_DEADLOCK FALSE
