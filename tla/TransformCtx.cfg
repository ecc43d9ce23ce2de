SPECIFICATION Spec
CONSTANTS
    Addresses = {1, 2, 3, 4, 5, 6, 7, 8, 9, 10, 11, 12}
    NULL = 0
    Usable = {"XPath", "ExclC14N", "Base64", "Digest"}
    Enabled = {"XPath", "Base64", "ExclC14N"}
    EnabledUris = {"empty", "other", "root", "id", "other#id"}
    MaxChain = 3
INVARIANTS
    ChainOwnsAll
    NeighboursMatch
    RanAsAsked
