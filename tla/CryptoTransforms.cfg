SPECIFICATION Spec
CONSTANTS
    MaxMd = 3
    MaxOutput = 4
    MinBits = 10
    BLOCK = 4
    TAG = 4
    NONCE = 3
    Builds <- MCBuilds
    Chosen <- MCChosen
    Message <- MCMessage
    HmacLengths <- MCHmacLengths
    OaepChildren <- MCOaepChildren
CHECK_DEADLOCK FALSE
INVARIANTS
    HandlesOwned
    FaultsReported
    RefusesOnlyMisfits
    VerifiesOnlyWhatWasMade
    Interoperates
