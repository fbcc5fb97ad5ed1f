SPECIFICATION PartsSpec
CONSTANTS
    Clients = {"me", "other"}
    Me = "me"
    Emails = {"ann@a", "ann@b"}
    Names = {"ann"}
    Passwords = {"pw"}
    BaseName <- MCBaseName
    Digest <- MCDigest
    Profiles <- MCProfiles
    Seeds <- MCSeeds
    MaxJobs <- MCMaxJobs
    MaxSessions = 2
    Reqs = {"r1"}
    MaxTokens = 3
    MaxLoads = 2
    Procs = {p1, p2, p3}
    RefreshTTL = 3
    AccessTTL = 2
    MaxLogins = 1
    MaxClock = 4
INVARIANTS
    OneAccountPerAddress
    AttemptsAccounted
    KeptSignedIn
    SignOutHolds
    NoUseAfterLogout
PROPERTY ImplementsSessionStore
