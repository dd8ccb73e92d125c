CONSTANTS
    N = 2
    MaxCalls = 2
    Texts <- MCTexts
    Codes <- MCCodes

SPECIFICATION Spec

INVARIANT TypeOK
INVARIANT RoundTrip

\* The plugin stops once its calls have run: the page is then idle.
CHECK_DEADLOCK FALSE
