SPECIFICATION BankFairSpec
CONSTANTS
    Answers = {NoAnswer, A}
    NoAnswer = NoAnswer
    Limit = 3
    Grace = 1
    Pace = 1
    MaxTime = 7
    MaxRestarts = 1
PROPERTIES
    NeverCutShort
    ClockRunsOut
CHECK_DEADLOCK FALSE
