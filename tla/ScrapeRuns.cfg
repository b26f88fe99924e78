CONSTANTS
    ann = ann  a1 = a1  acme = acme
    post = post
    Owners = {ann}
    Keyed = {ann}
    Rows = {a1}
    UserOf <- MCUserOf
    Companies = {acme}
    Postings = {post}
    BoardOf <- MCBoardOf
    Inputs <- MCInputs
    Locations = 2
    FreshChild = TRUE
    MaxEdits = 2
    MaxDeaths = 1
    Absent = Absent
SPECIFICATION RunsSpec
PROPERTIES MissingWasOff EditScraped SearchedAgain BoardFound
