CONSTANTS
    h1 = h1
    h2 = h2
    h3 = h3
    w1 = w1
    w2 = w2
    Handles = {h1}
    Uses <- OneStream
    Reqs = {w1, w2}
    Fds = {3, 4}
    Sizes = {1}
    NoHandle = NoHandle
    Allows = {"call_in_close"}
SYMMETRY Symmetry
SPECIFICATION Spec
INVARIANT ResumesInLoop
CHECK_DEADLOCK FALSE
