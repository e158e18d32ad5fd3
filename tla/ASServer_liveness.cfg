\* Two browsers, responses of up to two writes; a POST of no definition may
\* block the queue it is in.
SPECIFICATION Spec
CONSTANTS
    c1 = c1
    c2 = c2
    None = None
    Conns <- MCTwo
    RequestKinds <- MCAnswering
    Files <- MCFiles
    MaxRequests <- MCOneEach
    MaxWrites = 2
PROPERTIES
    MailboxSpec
    KnownAnswered
    ClosedReleased
