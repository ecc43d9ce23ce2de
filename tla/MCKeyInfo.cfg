SPECIFICATION Spec
CONSTANTS
    None = None
    Doc <- MCDoc
    Plans <- MCPlans
    Stores <- MCStores
    Configs <- MCConfigs
    KeyReq <- MCKeyReq
    Presets <- MCPresets
    MaxDepth = 2
INVARIANTS
    RightKeyUsed
    SettingsHold
    TrustedOnly
PROPERTIES
    ValueIsStable
    Terminates
CHECK_DEADLOCK FALSE
