\* Well-formed replies; the overlay holds the user off the form.
CONSTANTS
    MaxRequests = 3
    Replies <- MCWellFormedReplies
    InputUnderOverlay = FALSE
SPECIFICATION FairSpec
INVARIANTS
    TypeOK
    OverlayIffPending
PROPERTIES
    PanelsUnlock
    ActionDialogCloses
