SPECIFICATION Spec
CONSTANTS
    Ranking <- MCRanking
    Keys = {"c@h1"}
    One = 4
    Tol = 1
    Requests <- MCRequests
    Answers <- MCAnswers
    Threshold = 1
    MaxRetries = 1
INVARIANTS
    ResultIsEarned
    CallsAreAccounted
    NothingOutlivesTheRun
PROPERTY RunEnds
CHECK_DEADLOCK FALSE
