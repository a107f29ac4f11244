\* Well-formed replies under fair timers and request completion.
CONSTANTS
    MaxVersion = 2
    MaxPublicCalls = 2
    StatusReplies <- MCWellFormedStatusReplies
    MasterReplies <- MCWellFormedMasterReplies
SPECIFICATION FairSpec
PROPERTIES
    StatusPollsForever
    MasterPollsForever
