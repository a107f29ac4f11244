\* Only the poller's own requests: no one-shot call.
CONSTANTS
    MaxLines = 2
    MaxMessagesCount = 2
    MaxOneShot = 0
SPECIFICATION Spec
PROPERTIES
    CursorNeverRegresses
