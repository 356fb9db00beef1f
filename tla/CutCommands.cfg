SPECIFICATION Spec
CONSTANTS
    NumGnbs = 2
    NoMessage = noMessage
    MaxAttempts = 1
    MaxCommands = 2
    MaxCuts = 1
PROPERTIES
    CommandsInOrder
CHECK_DEADLOCK FALSE
