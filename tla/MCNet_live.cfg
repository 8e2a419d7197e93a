CONSTANTS
    h1 = h1
    h2 = h2
    h3 = h3
    w1 = w1
    w2 = w2
    Handles = {h1}
    Uses <- OneOfEach
    Reqs = {w1, w2}
    Fds = {3, 4}
    Sizes = {2}
    NoHandle = NoHandle
    Allows = {}
SPECIFICATION FairSpec
PROPERTIES WritesAnswered ConnectsDecided ClosingDelivered WatchersReturn LoopReturns
CHECK_DEADLOCK FALSE
