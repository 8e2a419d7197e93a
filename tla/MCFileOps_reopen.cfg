CONSTANTS
    f1 = f1
    f2 = f2
    r1 = r1
    r2 = r2
    r3 = r3
    r4 = r4
    Files = {f1, f2}
    Reqs = {r1, r2, r3, r4}
    FileOf <- MCFileOf
    Paths = {"a"}
    Fds = {3, 4}
    Opens <- MCOpens
    Capacity = 2
    NoReq = NoReq
    Allows = {"open_again"}
SPECIFICATION Spec
INVARIANT OpenedAsAsked
