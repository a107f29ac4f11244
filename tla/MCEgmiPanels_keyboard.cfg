\* The user reaches the field and the button under the overlay.
CONSTANTS
    MaxRequests = 2
    Replies <- MCWellFormedReplies
    InputUnderOverlay = TRUE
SPECIFICATION Spec
INVARIANTS
    SingleCreatePerPanel
