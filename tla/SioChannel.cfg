SPECIFICATION FairSpec
CONSTANTS
    a = a
    b = b
    Byte = {a, b}
    RXBUFSZ = 4
    RXTHHI = 2
    Slack = 1
    Burst = 1
    Events = {"tx", "ext", "spec", "ur1"}
INVARIANTS FlowControlled TxNotOverwritten
PROPERTIES ImplementsQueue ReadReturns
