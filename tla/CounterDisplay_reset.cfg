CONSTANTS
    PassesPerStep = 10
    CountRange = 64
SPECIFICATION CounterSpec
INVARIANT ResetTakesEffect
CHECK_DEADLOCK FALSE
