SPECIFICATION Spec
CONSTANTS
    Relays = {r0, r1}
    Modes = {m0, m1}
    FirstRelays = r0
    FirstMode = m0
    Callers = {c1, c2}
    None = None
    MaxChanges = 2
    MaxNodes = 3
    Users = {u1, u2}
    MaxUses = 2
    MaxLines = 3
    Processes = {p1, p2, p3}
    Screens = {s1, s2}
    Host = Host
    MaxCalls = 3
    MaxLaunches = 2
    Operations = {o1, o2}
    MaxOpens = 3
    Sockets = {w1, w2}
    Chunks = {a, b}
    MaxWrites = 2
    MaxArrivals = 4
    FirstLimit = 3
    TailLimit = 2
    Names = {n, m}
    NoName = NoName
    MaxOpenings = 2
    MaxEdits = 2
    Fields = {f, g}
    Offered = {r, q}
    MaxSets = 2
    MaxSetsAtOnce = 2
    Machines = {x1}
    MaxExports = 2
    Others = {p}
    Nicknames = {k1, k2}
    MaxLoads = 2
    MaxReads = 2
    MaxGiven = 2
    Leaves = {l1, l2}
    MaxUnsent = 2
    Kept = {strandRows}
    Fresh = {memberRows}
    Things = {ta, tb}
    Nothing = Nothing
    MaxCommands = 3
    MaxMoves = 1
    Asleep = {sa, sb}
    Addrs = {ad}
    MaxSweeps = 2
    MaxBuilt = 2
    Messages = {mm}
    MaxMarked = 3
    MaxClock = 1
    RelayHosts = {ha, hb}
    Peers = {pa, pb}
    ExtraHost = hb
    ExtraPeer = pb
    MaxRelays = 3
    Runs = {p1, p2}
    MaxConfigured = 4
    Invited = {iv}
    Nodes = {nc}
CHECK_DEADLOCK FALSE
INVARIANTS
    TypeOK
    SettingsAreInUse
    SchemaBeforeUse
    NodeIsCurrent
    UserIsHeeded
    OneProcess
    ConnectionIsHeld
    StreamIsKept
    ChangesAreTold
PROPERTIES
    PromptEnds
