CONSTANTS
    h1 = h1
    h2 = h2
    h3 = h3
    w1 = w1
    w2 = w2
    Handles = {h1, h2, h3}
    Uses <- Three
    Reqs = {w1}
    Fds = {3, 4}
    Sizes = {1}
    NoHandle = NoHandle
    Allows = {}
SPECIFICATION Spec
INVARIANT CalledForConnections
CHECK_DEADLOCK FALSE
