\* The parts of the front end; a screen may be left, a session ended.
SPECIFICATION MCSpec
CHECK_DEADLOCK FALSE
CONSTANTS
    t1 = t1  t2 = t2  u1 = u1  u2 = u2  NoUser = NoUser  Nobody = Nobody
    Tabs = {t1, t2}
    Users = {u1, u2}
    MaxRows = 2
    Calls = {1}
    Attempts = 2
    SessionScenes <- MCSessionScenes
    leads = leads  me = me  pool = pool
    Paths = {leads, me, pool}
    Area <- MCArea
    TTL <- MCTTL
    Threshold = 1
    Persisted = {leads, me}
    Accounts = {u1, u2}
    SignedOut = SignedOut
    Requests = {1, 2}
    CacheScenes <- MCCacheScenes
    MaxChanges = 1
    x = x  y = y  w1 = w1  w2 = w2  None = None  Erased = Erased
    Steps = {"s1", "s2", "s3"}
    NoStep = "no step"
    Combos = {x, y}
    Templates = {w1, w2}
    Starter <- MCStarter
    StudioScenes <- MCStudioScenes
    A = A  B = B  Away = Away  Nil = Nil
    Lines = {A, B}
    FirstLine = A
    DesignerSlots = {1, 2}
    MaxDrawing = 2
    DesignerScenes <- MCDesignerScenes
    Opened <- MCOpened
    Keys = {"a", "b"}
    First = "a"
    Slots <- MCSlots
    Hands = {1}
    MaxVersion = 1
    Records = {"r1", "r2"}
    Only = "r1"
    NoRecord = "none"
    Savers = {1, 2}
    MaxTyped = 2
    Edited <- AllForms
    Profiles <- MCProfiles
    Logins = 2
    Asked = 2
    Savings = 1
INVARIANTS
    TypeOK OneLiveToken LogoutEndsFamily CookieIsLive ProfileIsTokenUser
    StaleBound OwnApiWritesSeen SessionIsolation
    StoredIsChain CleanCanvasIsStored
    CleanIsAccepted
    RowsOfKey LoadingEnds WriteShown
    SavedToOwnRow NavigationShown
PROPERTIES
    MovesOnlyAstray UnsavedSurvives TypedSurvives SavesInOrder
