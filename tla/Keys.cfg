SPECIFICATION Spec
CONSTANTS
    Slots = {s1, s2}
    Material <- MCMaterial
    MaxOps = 5
SYMMETRY SlotSymmetry
INVARIANTS
    KeyHandlesOwned
    WrittenKeyIsRead
    SecretsAsAsked
    CopyIsEqual
    KnowsItself
CHECK_DEADLOCK FALSE
