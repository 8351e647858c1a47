SPECIFICATION ServicesSpec
CONSTANTS
    Clients = {c1}
    Tools = {t1}
    Run = Run
    Disp = Disp
    RingSize = 2
    SubSize = 1
    MaxChats = 2
    MaxEvents = 3
    MaxStreams = 2
    Platforms = {"whatsapp", "web"}
    SendLocks = {"whatsapp"}
    Internal = "cli"
    Unknown = "none"
    OutCap = 1
    MaxOut = 2
    Places = {"a", "b"}
    None = "none"
    Torn = "torn"
    DevCap = 1
    MaxRecords = 2
    MaxDown = 1
    Turns = {"t1", "t2"}
    Entries = {"e1", "e2", "e3"}
    Texts = {"x", "x2"}
    Alike = {{"x", "x2"}}
    MaxDay = 1
    MaxMemories = 2
    MaxVersion = 2
    MaxFaults = 1
    Chats = {"a"}
    MsgIds = {"m1", "m2", "m3"}
    Blank = "0"
    DedupSize = 2
    TableCap = 2
    MaxArrivals = 4
    MaxKept = 2
    MaxSends = 2
    MaxApiFaults = 1
    Devices = {d1, d2}
    PanicReads = 3
    Callers = {p1, p2}
    Commands = {p2}
    MaxTokens = 2
    MaxAuthFaults = 1
    Conversations = {t2}
    Delegates = {s1, s2}
    MaxRounds = 2
    MaxAsked = 3
    MaxToolFaults = 1
INVARIANTS ServicesTypeOK StreamKept DispatcherInStep FileSurvives RecentUnlessOverridden
    StoresKept StoredOnce MarksAnswered DuplicateAfterEviction LoginLasts
PROPERTIES ShutdownEnds LinksFollow ToolRounds
CHECK_DEADLOCK FALSE
