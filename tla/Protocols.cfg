CONSTANTS
    RcCalls = {c1, c2, c3}
    RcPlain = {c3}
    RcIds = 2
    RsRequests = {q1, q2}
    RsIds = {1, 2}
    RsLimit = 1
    RvSessions = {s1, s2}
    RvMax = 1
    RvServes = 2
    HpOps = {o1, o2, o3}
    HpRoutes = {r1, r2}
    HpTls = {r2}
    HdAddresses = 2
    HdInterims = 1
    HxRedirects = 1
    HxInterims = 2
    HsRequests = 3
    HsKeepAlive = 2
    HmHeaders = 2
    HmLine = 1
    HmLines = 2
    BwBytes = 2
    RtComponents = {"", "u", "v"}
    RtLength = 3
    RtRoutes = 2
    WfMax = 2
    WfFrames = 3
    WfBytes = 4
    WsTimeouts = {TRUE, FALSE}
    WcLimit = 2
    WcConnects = 2
    WcMessages = 3
    SpMax = 2
    SpText = 6
    SpBatch = 9
    SpData = 2
    ScEvents = 3
    ScAttempts = 2
    ScConnects = 2
    ScAuto = {TRUE, FALSE}
SYMMETRY ProtocolsSymmetry
SPECIFICATION ProtocolsSpec
INVARIANTS WireFormatIsExact MessagesStayWhole AnswersAreTheirs LimitsAreExact
           ShutdownIsOrderly
PROPERTIES OutcomesStick
CHECK_DEADLOCK FALSE
