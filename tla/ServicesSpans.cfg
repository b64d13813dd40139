SPECIFICATION Spec
CONSTANTS
    N = 2
    MaxRetries = 1
    Names = {"n"}
    QuestionIds = {"p", "q"}
    Tools = {"t1", "t2"}
    MaxVersions = 2
    Forms = {"f", "g"}
    Spellings = {"as sent", "reordered"}
    Responses = {"200", "429"}
    Workers = {"w1", "w2"}
    MaxExchanges = 3
    MaxSessions = 3
    QuestionNames = {"p", "q"}
    MockReplies = {"r1", "r2"}
    NilReply = "nil"
    Canned <- TwoCanned
    Clients = {"x", "y"}
    MaxSteps = 6
    MaxInt = 15
    OneSecond = 4
    Grain = 4
    D = 4
    NotANumber <- FarBelow
    Unparsed <- NoLevel
    Signals = {"p", "q"}
    Readings = {0, 2, 5}
    DefaultTimeout = 5
    DefaultRetries = 2
    NoName = 0
    MinScoreLevels = 1
    MaxScoreLevels = 3
    MaxContextTokens = 300
    MaxSingleQuestionTokens = 280
    DefaultRate = 3
INVARIANT SpanPerAttempt
CHECK_DEADLOCK FALSE
