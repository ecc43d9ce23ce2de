SPECIFICATION Spec
CONSTANTS
    None = None
    Documents <- MinimalDocuments
    Configs <- MinimalConfigs
    Keys <- MCKeys
    Data <- MCData
    Values <- MCValues
    C14NMethods = {"c14n"}
    SignMethods = {"rsa"}
    DigestMethods = {"sha"}
    MaxCalls = 3
INVARIANT AllReferencesListed
CHECK_DEADLOCK FALSE
