SPECIFICATION Spec
CONSTANTS
    q1 = q1  q2 = q2  q3 = q3  none = none
    job = job  job2 = job2  press = press
    Question <- TwoQuestions
    NoQuestion = none
    Picture <- TwoQuestions
    Channel = {1, 2}
    Session = {job, press}
    Manual = {press}
    BatchSize = 1
    ClaimAttempts = 5
    SavepointIsolates = FALSE
    LateReplies = FALSE
    AnswersFail = FALSE
    MaxRuns = 2
    MaxCrashes = 0
SYMMETRY Interchangeable
INVARIANTS ShownInv ShownStaysClaimed NoRepeatInCycle NeverDeadlocked
