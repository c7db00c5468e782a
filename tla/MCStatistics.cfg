SPECIFICATION Spec
CONSTANTS
    MaxConn = 2
    Walkers = {w1}
    ULLMod = 16
PROPERTY PageExact
