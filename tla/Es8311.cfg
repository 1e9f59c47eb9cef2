SPECIFICATION Spec
CONSTANTS
    MclkFreqs = {0, 16384000, 36864000, 49200001}
    ConfigRates = {8000, 48000}
    WordSizes = {8, 16, 24}
    DaiTypes = {"i2s", "right"}
    Volumes = {300}
    MasterIsZero = FALSE
    Lossy = FALSE
INVARIANTS TypeOK ConverterClockRight ProviderClocksRight RoleAndPortsAgree
PROPERTIES FailedConfigureSilent ClockTreeKept
