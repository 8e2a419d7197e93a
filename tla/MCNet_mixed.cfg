CONSTANTS
    h1 = h1
    h2 = h2
    h3 = h3
    w1 = w1
    w2 = w2
    Handles = {h1, h2}
    Uses <- Mixed
    Reqs = {w1, w2}
    Fds = {3, 4}
    Sizes = {2}
    NoHandle = NoHandle
    Allows = {}
SYMMETRY Symmetry
SPECIFICATION Spec
INVARIANTS WritesCounted SizeExact AcceptsOneByOne DescriptorsOwned PendingWatched
PROPERTIES SilentOnceClosed ClosedUntouched ImplementsWriteService
CHECK_DEADLOCK FALSE
