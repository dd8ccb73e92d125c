CONSTANTS
    N = 2
    MaxCalls = 1
    Texts <- MCTextsUnsupported
    Codes <- MCCodes

SPECIFICATION Spec

INVARIANT UnsupportedCharacterFails

CHECK_DEADLOCK FALSE
