SPECIFICATION Spec
CONSTANTS
    DtHz <- MCDtHz
    DtFs <- MCDtFs
    AskedHz <- MCAskedHz
    AskedFs <- MCAskedFs
    BusErrors <- MCBusErrors
    MaxSamples = 1
INVARIANTS TypeOK ConversionSteady RateHolds AccelScaleReadsBack FetchFresh
CHECK_DEADLOCK FALSE
