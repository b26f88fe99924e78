CONSTANTS
    c1 = c1  c2 = c2  p1 = p1  p2 = p2  alice_claude = alice_claude
    Processes = {p1}
    Codes = {c1, c2}
    Parties = {alice_claude}
    PartyOf <- OneParty
    MaxGrants = 2
    MaxPairs = 3
    MaxCrashes = 1
    NoCode = NoCode
SPECIFICATION Spec
INVARIANTS CodeBuysOneGrant OneLivePair ReuseRevokes StaysConnected
PROPERTIES ImplementsConnection
CHECK_DEADLOCK FALSE
