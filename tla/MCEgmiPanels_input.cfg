\* Well-formed replies; the user reaches the form under the overlay and may submit twice.
CONSTANTS
    MaxRequests = 3
    Replies <- MCWellFormedReplies
    InputUnderOverlay = TRUE
SPECIFICATION FairSpec
INVARIANTS
    OverlayOnlyWhilePosting
PROPERTIES
    PanelsUnlock
