SPECIFICATION Spec
CONSTANTS
    Buffers <- MCBuffers
    Bytes = {0, 1}
    Inputs <- MCInputs
    Sizes = {1, 2}
    ExactSlack = 0
    DoubleSlack = 2
    InitialSize = 1
    SizeModulus = 64
    MaxLength = 2
    Lists = {l1, l2, s1}
    OwningLists = {l1, l2}
    Items = {x1, x2, x3}
    NULL = NULL
    AllocMode = "Exact"
    ListExactSlack = 1
    ListDoubleSlack = 1
    ListInitialSize = 1
    MaxUse = 2
    Octets = {0, 77, 255}
    Characters = {19, 63, 64, 65, 66}
    Columns = {0, 1, 3, 4}
    MaxChunk = 3
    MaxInput = 6
    LongSizes = {20, 32, 33, 34, 35, 36, 40, 96, 100, 104, 108, 112}
    Numerals = {0, 1, 9, 15}
    Signs = {100, 101, 102, 103}
    MaxDigits = 4
    MaxKey = 4
    MaxWrapped = 6
    DerSizes <- MCDerSizes
    Order <- MCOrder
    Parent <- MCParent
    Kind <- MCKind
    Top = "doc"
    Signature = "s"
    Selections <- MCSelections
    Filters2 <- MCFilters2
    SetLists <- MCLists
    MaxFilters = 3
CHECK_DEADLOCK FALSE
INVARIANT AddCorrect
