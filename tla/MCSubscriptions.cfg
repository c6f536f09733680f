SPECIFICATION EngineSpec
CONSTANTS
    r1 = r1
    r2 = r2
    r3 = r3
    r4 = r4
    o1 = o1
    o2 = o2
    NoId = NoId
    Nobody = Nobody
    All = All
    Id = {r1, r2, r3, r4}
    Object = {o1, o2}
    Owner <- Owners
    FirstRows <- Rows
    MaxKey = 3
    Limits = {0, 2}
    Scopes = {o1, o2, All}
    Budget = 100
    MailboxCap = 1
    MaxRecords = 2
    MaxWrites = 2
    MaxSubs = 1
    MaxMisreads = 1
CHECK_DEADLOCK FALSE
CONSTRAINTS QueryFirst FewFaults
INVARIANTS ViewIsWindow LiveIsStored DriftIsBounded
