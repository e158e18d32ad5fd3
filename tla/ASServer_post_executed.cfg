\* Two browsers: is each answered paddle command executed?
SPECIFICATION Safety
CONSTANTS
    c1 = c1
    c2 = c2
    None = None
    Conns <- MCTwo
    RequestKinds <- MCMixed
    Files <- MCFiles
    MaxRequests <- MCThree
    MaxWrites = 1
INVARIANTS
    AnsweredPostExecuted
