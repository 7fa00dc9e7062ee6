\* What the page says of a blocked chat, against what it does.
CONSTANTS
    Users = {u1, u2}
    MaxMsgs = 1
    MaxYes = 3
SPECIFICATION Spec
PROPERTY DialogHonest
