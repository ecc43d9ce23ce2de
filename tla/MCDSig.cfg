SPECIFICATION Spec
CONSTANTS
    None = None
    Documents <- MCDocuments
    Configs <- MCConfigs
    Keys <- MCKeys
    Data <- MCData
    Values <- MCValues
    C14NMethods = {"c14n"}
    SignMethods = {"rsa"}
    DigestMethods = {"sha"}
    MaxCalls = 5
INVARIANTS
    OneVerdictPerContext
    ErrorIsNotSucceeded
    SucceededIsVerified
    SucceededIsAsSigned
    RoundTrip
CHECK_DEADLOCK FALSE
