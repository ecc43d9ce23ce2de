SPECIFICATION Spec
CONSTANTS
    CHUNK = 2
    GROUP = 2
    BLOCK = 2
    MaxRoom = 3
    PushChains <- MCPushChains
    PushMessages <- MCPushMessages
    PopChains <- MCPopChains
    PopMessages <- MCPopMessages
INVARIANTS
    DeliveredInFull
PROPERTIES
    CallsAgree
    Terminates
