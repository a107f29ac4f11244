\* Well-formed replies: both polling loops and the public calls.
CONSTANTS
    MaxVersion = 2
    MaxPublicCalls = 2
    StatusReplies <- MCWellFormedStatusReplies
    MasterReplies <- MCWellFormedMasterReplies
SPECIFICATION Spec
INVARIANTS
    TypeOK
    StatusLoopExactlyOne
    MasterLoopAlive
PROPERTIES
    StatusNeverRegresses
    StatusLoopRefines
