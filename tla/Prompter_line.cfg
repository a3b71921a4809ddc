SPECIFICATION PromptSpec
CONSTANTS
    NoLine = NoLine
    Gone = Gone
    MaxRequests = 2
    MaxLines = 2
CHECK_DEADLOCK FALSE
INVARIANT YesIsForThePromptSeen
