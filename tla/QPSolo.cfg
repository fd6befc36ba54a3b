SPECIFICATION Spec
CONSTANTS
    q1 = q1  q2 = q2  q3 = q3  none = none
    job = job  job2 = job2  press = press
    Question <- ThreeQuestions
    NoQuestion = none
    Picture <- NoPictures
    Channel = {1, 2}
    Session = {job}
    Manual = {}
    BatchSize = 2
    ClaimAttempts = 5
    SavepointIsolates = FALSE
    LateReplies = TRUE
    AnswersFail = FALSE
    MaxRuns = 2
    MaxCrashes = 1
INVARIANTS DeckInv OneOpenCycle ClaimReachedAudience
PROPERTIES DeckRefined
