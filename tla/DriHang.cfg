SPECIFICATION FairSpec
CONSTANTS
    Request = {1, 2}
    NoReply = {}
    MAXRETRY = 3
    MaxFaults = 1
PROPERTY RecallOnTimeout
CHECK_DEADLOCK FALSE
