\* One phone that asks twice, the second time in the midst of copies of the first:
\* whole, cut, foreign, too long and unsupported questions.
SPECIFICATION Spec
CONSTANTS
    phone1 = phone1
    Resolvers <- MCOne
    Questions <- MCQuestions
    MaxAsks = 2
CHECK_DEADLOCK FALSE
INVARIANTS
    TypeOK
    RepliesFromQuery
    RepliesFit
    VerdictRight
PROPERTIES
    PongGameResolved
