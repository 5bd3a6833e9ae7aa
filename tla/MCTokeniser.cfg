CONSTANTS
    Chars <- MCChars
    Separators <- MCSeparators
    Space = " "
    CharRank <- MCCharRank
    MaxLen = 5
INIT Init
NEXT Next
CHECK_DEADLOCK FALSE
INVARIANTS
    TypeOK
    TokensAreMaximalRuns
    DocumentTermsAreTokens
