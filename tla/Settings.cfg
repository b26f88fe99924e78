CONSTANTS
    gm = gm  im = im  inbox = inbox  jobs = jobs  acme = acme  home = home
    general = general  family = family  t1 = t1  t2 = t2
    Boxes = {gm, im}
    ProviderOf <- MCProviderOf
    Names = {inbox, jobs}
    NamesOf <- MCNamesOf
    Workspaces = {acme, home}
    Channels = {general, family}
    Threads = {t1, t2}
    MaxActs = 4
    Nothing = Nothing
    root = root  ann = ann  a1 = a1  a2 = a2  a3 = a3  p1 = p1  p2 = p2
    Users = {root, ann}
    Root = root
    Addresses = {a1, a2, a3}
    Counted = {a3}
    MaxFailures = 2
    MaxKeys = 2
    Pool = {p1, p2}
    MaxRequests = 8
    Missing = Missing
SPECIFICATION SettingsSpec
INVARIANTS EnabledByItsCheck Throttled
SYMMETRY Symmetry
CHECK_DEADLOCK FALSE
