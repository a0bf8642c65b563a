\* Two messages, replies of two tokens and two tool calls, one retry, a channel of one event.
SPECIFICATION FairSpec
CONSTANTS
    MaxSteps = 2
    MaxRetries = 1
    Capacity = 1
    MaxTokens = 2
    MaxCalls = 2
    MaxSends = 2
INVARIANTS TypeOK StoredIsWhole ToolsRunOnce AnsweredIsStored
PROPERTIES NothingTakenBack StreamEnds
\* The bound on messages ends every behaviour.
CHECK_DEADLOCK FALSE
