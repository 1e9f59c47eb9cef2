SPECIFICATION Spec
CONSTANTS
    QosLevels = {1}
    Commands = 2
    IdsPerByte = 256
    MaxFaults = 1
INVARIANT AtLeastOnce
CHECK_DEADLOCK FALSE
