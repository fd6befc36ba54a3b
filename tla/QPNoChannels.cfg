SPECIFICATION Spec
CONSTANTS
    q1 = q1  q2 = q2  q3 = q3  none = none
    job = job  job2 = job2  press = press
    Question <- TwoQuestions
    NoQuestion = none
    Picture <- NoPictures
    Channel = {1}
    Session = {job}
    Manual = {}
    BatchSize = 3
    ClaimAttempts = 5
    SavepointIsolates = TRUE
    LateReplies = FALSE
    AnswersFail = FALSE
    MaxRuns = 1
    MaxCrashes = 0
SYMMETRY Interchangeable
PROPERTY EarlierPostsStand
