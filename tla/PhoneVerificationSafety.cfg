\* Two numbers, resends and overlapping countdown timers.
CONSTANTS
    Numbers = {n1, n2}
    NoNumber = NoNumber
    Wait = 4
    MaxSms = 3
    MaxTimers = 3
SPECIFICATION FairSpec
INVARIANTS TypeOK IdOfLastRequest CountdownRuns CountdownSpeed
PROPERTY ResendComesBack
