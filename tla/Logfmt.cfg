SPECIFICATION TextSpec
CONSTANTS
    Program <- SomeProgram
    Loggers <- SomeLoggers
    KeyVals <- SomeKeyVals
    MaxPairs = 2
    MaxHeaders = 1
INVARIANTS
    LineReadable
    OneLine
    LostForCause
