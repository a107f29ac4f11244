\* A volume action GET answered with a null JSON body.
CONSTANTS
    MaxRequests = 1
    Replies = {"nullBody"}
    InputUnderOverlay = FALSE
SPECIFICATION FairSpec
PROPERTIES
    ActionDialogCloses
