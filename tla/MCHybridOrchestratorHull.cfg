SPECIFICATION Spec
CONSTANTS
    Ranking <- MCRanking
    Keys = {"c@h1"}
    One = 4
    Tol = 1
    Requests <- MCRequests
    Answers <- MCAnswers
    Threshold = 1
    MaxRetries = 1
INVARIANT AcceptedDecisionYieldsResult
CHECK_DEADLOCK FALSE
