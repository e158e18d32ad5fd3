\* Starts, stops, restarts, paddles and scores in any order; the score of the
\* right player reaches the number of a player.
SPECIFICATION Spec
CONSTANTS
    PayloadLengths <- MCTwoLengths
    MaxScore = 1
INVARIANTS
    TypeOK
    RenderSafe
    CommandMovesOnce
    ShownScoreExact
PROPERTIES
    StartedGameDrawn
    RequestsAcknowledged
