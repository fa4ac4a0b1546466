SPECIFICATION Spec
CONSTANTS
    right = right
    Blank = Blank
    NoResult = NoResult
    Answers <- MCAnswers
    ProblemLists <- MCProblemLists
    MaxProblems = 3
    MaxTime = 3
    MaxAttempts = 2
INVARIANTS
    TypeOK
    AnswersKept
    QuestionTimesKept
    TrapsOnlyWhenGrown
    TimeAccumulates
    SplitIsLastAttempt
PROPERTIES
    SubmitsWhatWasTyped
CHECK_DEADLOCK FALSE
