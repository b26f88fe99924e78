CONSTANTS
    u1 = u1  u2 = u2  j1 = j1  j2 = j2
    ad1 = ad1  ad2 = ad2  req = req  adzuna = adzuna  jsearch = jsearch  engineer = engineer
    Users = {u1, u2}
    Watchers = {u1, u2}
    Jobs = {j1, j2}
    Listings = {ad1, req}
    SourceOf <- MCSourceOf
    RoleOf <- MCRoleOf
    Datings <- MCDatings
    Aggregators = {adzuna, jsearch}
    MissLimit = 2
    MaxQueue = 1
    MaxActs = 1
    MaxScrapes = 2
    None = None
SPECIFICATION RunsSpec
INVARIANT OneBadRun
CHECK_DEADLOCK FALSE
