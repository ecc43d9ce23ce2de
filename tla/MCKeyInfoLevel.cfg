SPECIFICATION Spec
CONSTANTS
    None = None
    Doc <- MCDoc
    Plans <- LevelPlans
    Stores <- MCStores
    Configs <- LaxConfigs
    KeyReq <- MCKeyReq
    Presets <- NoPresets
    MaxDepth = 2
INVARIANTS
    RetrievalLevelRestored
CHECK_DEADLOCK FALSE
