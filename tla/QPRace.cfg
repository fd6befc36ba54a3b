SPECIFICATION FairSpec
CONSTANTS
    q1 = q1  q2 = q2  q3 = q3  none = none
    job = job  job2 = job2  press = press
    Question <- TwoQuestions
    NoQuestion = none
    Picture <- TwoQuestions
    Channel = {1}
    Session = {job, press}
    Manual = {press}
    BatchSize = 2
    ClaimAttempts = 2
    SavepointIsolates = TRUE
    LateReplies = TRUE
    AnswersFail = TRUE
    MaxRuns = 1
    MaxCrashes = 1
INVARIANTS IInv CycleComplete DeliveriesBacked ClaimsExclusive CyclesContiguous
PROPERTIES HistoryGrows BatchEnds SharedRefined
