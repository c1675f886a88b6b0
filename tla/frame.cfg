SPECIFICATION Spec
CONSTANTS
    Payloads <- MCPayloads
    MaxFrames = 3
    BufSize = 5
    Masks <- MCMasks
    Noise <- MCNoise
CHECK_DEADLOCK FALSE
INVARIANTS
    TypeOK
    OnlySent
    Recovers
