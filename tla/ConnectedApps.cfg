CONSTANTS
    claude = claude  registered = registered  anthropic = anthropic  openai = openai
    atClaude = atClaude  atChatGPT = atChatGPT  elsewhere = elsewhere
    g1 = g1  k1 = k1  k2 = k2
    Clients = {claude, registered}
    Vendors = {anthropic, openai}
    HostOf <- MCHostOf
    Redirects = {atClaude, atChatGPT, elsewhere}
    VendorOf <- MCVendorOf
    Documents <- MCDocuments
    Grants = {g1}
    Calls = {k1, k2}
    Limit = 1
    NoVendor = NoVendor
    None = None
    Swept = Swept
SPECIFICATION Spec
INVARIANTS AsShown OvershootBounded
PROPERTIES RevokedAtOnce ChallengedInTheEnd
