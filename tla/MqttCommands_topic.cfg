SPECIFICATION Spec
CONSTANTS
    QosLevels = {1}
    Commands = 2
    IdsPerByte = 2
    MaxFaults = 0
INVARIANT AtLeastOnce
CHECK_DEADLOCK FALSE
