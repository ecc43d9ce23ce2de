SPECIFICATION Spec
CONSTANTS
    SystemRoots <- MCSystemRoots
    Builds <- MCBuilds
    Certs <- MCCerts
    Crls <- MCCrls
    Messages <- MCMessages
    Contexts <- MCContexts
    Templates <- MCTemplates
    MaxAdopted = 2
    MaxFollowed = 1
    MaxSecond = 1
    MaxCopied = 2
INVARIANTS
    X509HandlesOwned
    VerifiedIsTrusted
    ChainIsFound
    CertsSurvive
CHECK_DEADLOCK FALSE
