SPECIFICATION MCSpec
CONSTANTS
    None = None
    Streams = { "a", "b" }
    Events <- MCEvents
    Runs = { "r1", "r2" }
    QueueSize = 1
    MaxBindings = 2
    Conns = { "c1", "c2" }
    Devices = { "d1", "d2" }
    Keys = { "k1", "k2" }
    Calls = { "m1" }
    Ids = { "i1" }
    Usages = { 1 }
    KeyLimit = 1
    Users = { "u1", "u2" }
    MaxWorkers = 1
    Images = { "v1", "v2" }
    MaxGen = 3
    Emails = { "e1", "e2" }
    Invites = { "v1" }
    Requests = { "q1", "q2" }
    MaxCodes = 2
    MaxTries = 1
    Absent = Absent
    Inputs <- MCInputs
    MaxExperiences = 2
    SnippetLimit = 2
    AutomaticLimit = 2
CHECK_DEADLOCK FALSE
INVARIANTS EventsRunOnce SentOnceAndBilled InFlightHasConnection WorkersRecoverable LatestCodeWins InvitationBuysOneAccount RequestSound
PROPERTIES RevokedKeyDisconnects
