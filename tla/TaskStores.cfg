CONSTANTS
    Clients = {c1, c2}
    Ids = {k1, k2}
    Records = {r1, r2}
    Absent = Absent
    ReadRequest = ReadRequest
    NoClient = NoClient
    Corrupt = Corrupt
    Faults = {"io", "kill", "power"}
    StoreClients = {s1, s2}
    MaxId = 2
    NoLimit = NoLimit
    AnyStatus = AnyStatus
    MaxSaves = 2
    CreatedAt <- MCCreatedAt
    Filters <- MCFilters
SPECIFICATION MCSpec
INVARIANT FileIsIntact
INVARIANT PagesAgree
INVARIANT ListedAfterSave
PROPERTY RefinesContract
PROPERTY LockIsReleased
