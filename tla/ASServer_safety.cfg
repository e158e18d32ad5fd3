\* Two browsers, three requests between them, AS and static ones mixed.
SPECIFICATION Safety
CONSTANTS
    c1 = c1
    c2 = c2
    None = None
    Conns <- MCTwo
    RequestKinds <- MCMixed
    Files <- MCFiles
    MaxRequests <- MCThree
    MaxWrites = 1
INVARIANTS
    TypeOK
    ResponsesInOrder
    ResultSentOnce
    ExecutedAsRequested
    CommandsInOrder
