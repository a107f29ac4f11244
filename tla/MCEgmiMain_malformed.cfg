\* Every reply kind, the two that make the success callback throw included.
CONSTANTS
    MaxVersion = 2
    MaxPublicCalls = 0
    StatusReplies <- AllStatusReplies
    MasterReplies <- MCWellFormedMasterReplies
SPECIFICATION Spec
INVARIANTS
    StatusLoopExactlyOne
