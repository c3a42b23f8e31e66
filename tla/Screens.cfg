SPECIFICATION Spec
CONSTANTS
    None = None
    Kinds = {k1, k2}
    Creators = {c1, c2}
    MaxFounded = 2
    Strands = {s1, s2}
    Watchable = {s1, s2}
    MaxBases = 3
    Listers = {l1, l2}
    RowStrands = {s1}
    Names = {n1, n2}
    FirstName = n1
    Senders = {t1}
    MaxRenames = 2
    MaxTexts = 2
    MaxMounts = 2
    MaxWaiting = 2
    Codes = {m1, m2}
    KnownStrands = {f1, f2}
    MaxTyped = 3
    Views = {v1, v2}
    MaxChoices = 2
    MaxMade = 2
    Members = {me, a, b}
    Me = me
    Talkers = {a}
    Unknown = unknown
    MaxSaid = 3
    ReadLimit = 2
    GroupGap = 2
    DayEnds = 2
    Writers = {w1, w2}
    MaxWritings = 3
    MaxAttempts = 2
    HomeStrands = {h1, h2}
    Settings = {muted, archived}
    Depths = 2
    MaxTaps = 2
SYMMETRY Alike
CHECK_DEADLOCK FALSE
INVARIANTS
    TypeOK
    InvitationsAreKept
    WatchesFollow
    LeftIsForgotten
    NameIsRegistered
    WordsAreKept
    ShownIsSo
    RetryCanSucceed
    ScreenIsConsistent
