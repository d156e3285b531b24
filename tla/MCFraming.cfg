SPECIFICATION Spec
CONSTANTS
    Commands = {"AT+GSN", "AT+GMR"}
    Unsolicited <- Reports
    MaxCommands = 2
    MaxUnsolicited = 2
INVARIANT TypeOK
INVARIANT NothingLost
INVARIANT ExactFrames
INVARIANT AnswersToResponses
INVARIANT NothingStuck
