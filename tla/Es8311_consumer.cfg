SPECIFICATION Spec
CONSTANTS
    MclkFreqs = {0, 2048000, 12288000, 49200001}
    ConfigRates = {8000, 44100, 48000, 10000}
    WordSizes = {16, 18, 24, 8}
    DaiTypes = {"i2s", "right", "pcmb"}
    Volumes = {}
    MasterIsZero = TRUE
    Lossy = FALSE
INVARIANT ConsumerHonoured
