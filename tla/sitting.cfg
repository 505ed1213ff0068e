SPECIFICATION FairSpec
CONSTANTS
    Web = {w}
    Phones = {p}
    Questions = {q}
    Options = {A}
    Blank = Blank
    MaxAttempts = 2
    Calls = {1, 2}
    MaxFaults = 1
    NoDev = NoDev
INVARIANTS
    NoSecondSitting
    LatchMatchesFlight
    PhoneShowsWhatItSent
PROPERTIES
    NoEarlyClose
    TimeUpEndsSitting
