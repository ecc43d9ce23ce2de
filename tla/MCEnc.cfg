CONSTANTS
    None = None
    Documents <- MCDocuments
    Templates <- MCTemplates
    Fragments = {"t2"}
    TmplIds = {"t1", "t2"}
    Configs <- MCConfigs
    Stores <- MCStores
    Session <- MCSession
    Uris = {"u"}
    Octets = {"data"}
    MaxCalls = 4
SPECIFICATION Spec
CHECK_DEADLOCK FALSE
INVARIANTS
    DocumentKept
    SecretsNotWritten
    WrappedKeyOpens
PROPERTIES
    ChangesAccounted
