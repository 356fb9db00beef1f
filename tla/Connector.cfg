SPECIFICATION Spec
CONSTANTS
    NumGnbs = 2
    NoMessage = noMessage
    MaxAttempts = 2
    MaxCommands = 1
    MaxCuts = 0
INVARIANTS
    TypeOK
    AnsweredMeansAccepted
    EveryGnbIsAsked
PROPERTIES
    RequestsEnd
    ConnectorStopsAfterAgent
CHECK_DEADLOCK FALSE
