SPECIFICATION Spec
CONSTANTS
    QosLevels = {0, 1, 2}
    Commands = 3
    IdsPerByte = 256
    MaxFaults = 3
INVARIANTS TypeOK LossesNeedFaults RepeatsNeedFaults
PROPERTIES Delivers EveryCommandAcked
CHECK_DEADLOCK FALSE
