SPECIFICATION FairSpec
CONSTANTS
    a = a
    b = b
    Byte = {a, b}
    RXBUFSZ = 4
    RXTHHI = 2
    Slack = 1
    Burst = 1
    Events = {"tx"}
INVARIANT RtsReasserted
\* Reader and sender may end up waiting for each other.
CHECK_DEADLOCK FALSE
