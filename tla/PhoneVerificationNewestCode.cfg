\* A resent code against the verification id the app keeps.
CONSTANTS
    Numbers = {n1}
    NoNumber = NoNumber
    Wait = 3
    MaxSms = 2
    MaxTimers = 2
SPECIFICATION Spec
INVARIANT NewestCodeWorks
