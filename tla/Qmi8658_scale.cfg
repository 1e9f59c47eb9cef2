SPECIFICATION Spec
CONSTANTS
    DtHz <- MCDtHz
    DtFs <- MCDtFs
    AskedHz <- MCAskedHz
    AskedFs <- MCAskedFs
    BusErrors <- MCBusErrors
    MaxSamples = 1
INVARIANT FullScaleProgrammed
CHECK_DEADLOCK FALSE
