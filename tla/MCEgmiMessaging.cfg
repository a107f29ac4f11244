\* Three log lines, a safety net at two chunks, one one-shot call.
CONSTANTS
    MaxLines = 3
    MaxMessagesCount = 2
    MaxOneShot = 1
SPECIFICATION Spec
INVARIANTS
    TypeOK
    PollLoopExactlyOne
    SequentialDisplayExact
    PanelBounded
