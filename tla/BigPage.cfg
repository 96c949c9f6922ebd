CONSTANTS
    f1 = f1
    f2 = f2
    a = a
    b = b
    c = c
    Session = {s1}
    File = {f1, f2}
    Name = {a, b, c}
    FileOf <- TwoNamesOfOne
    Big = {f2}
    Requested <- TwoPagesAndIndex
    Block = {b1, b2, b3}
    Wd = {1, 2, 3}
    Null = null
    MaxVersion <- OneChange
    MaxEvents = 2
    Failing = {}
SPECIFICATION Spec
CHECK_DEADLOCK FALSE
INVARIANTS
    PageReachesClient
