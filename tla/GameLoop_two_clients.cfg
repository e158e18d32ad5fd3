\* Do two clients play each other?
SPECIFICATION Safety
CONSTANTS
    PayloadLengths <- MCOneLength
    MaxScore = 1
INVARIANTS
    TwoClientsPlay
