CONSTANTS
    Parts = {"log"}
    Vms = {v1, v2}
    OtherKinds = {"auction", "mail"}
    Validity = 1
    MaxTasks = 2
    MaxRetry = 1
    MaxClock = 2
    MaxCrashes = 1
    MaxFaults = 1
    Users = {"gm", "readonly"}
    Clients = {c1}
    Ips = {"ip"}
    Burst = 2
    Cost = 1
    EvictAfter = 2
    TTL = 2
    MaxHold = 1
    MaxChanges = 1
    MaxSaves = 2
    Numbers = {0, 1, 3}
    MaxRows = 2
    MaxRounds = 2
    DiffCap = 1
    Kinds = {"aion", "aion_nogg", "tiny", "load"}
    Servers = 1
    Word = 8
    Byte = 4
    LengthMod = 32
    AccountMax = 2
    PasswordMax = 3
    MaxWords = 3
    MaxBytes = 3
    MaxSize = 40
    Workers = {w1, w2}
    MaxSessions = 3
    MaxAttacks = 3
    MaxPushed = 2
    Sessions = {"s1", "s2", "s3"}
    Chars = {"a", "b"}
    Items = {i1}
    NoItem = NoItem
    Attached = {2}
    SendFee = 1
    Purse = 3
    MaxMails = 2
    MaxMailFaults = 1
    Players = {"a", "b", "c"}
    PartyVms = {"v1", "v2"}
    Templates = {"t1"}
    MinMembers = 1
    MaxMembers = 3
    Lifetime = 1
    Reentrance = 1
    MaxLogins = 2
    Record = {r1, r2, r3}
    Backlog = {r3}
    Publishers = {w1}
    NoRecord = NoRecord
    BufferSize = 1
    BatchRows = 2
    MaxLogFaults = 1
SPECIFICATION Spec
CHECK_DEADLOCK FALSE
INVARIANTS CloseFlushes RowsKept
PROPERTIES MessageHandled
