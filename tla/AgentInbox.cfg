CONSTANTS
    ann = ann  bob = bob  r1 = r1  r2 = r2  b1 = b1  m1 = m1  m2 = m2  h1 = h1  t1 = t1  t2 = t2
    Users = {ann, bob}
    Reviews = {r1, b1}
    OwnerOf <- MCOwnerOf
    Emails = {m1}
    MailboxOf <- MCMailboxOf
    Prompts = {h1}
    Threads = {t1, t2}
    MaxActs = 4
    None = None
SPECIFICATION Spec
INVARIANTS OneMove OwnRefs
PROPERTIES ImplementsPromise
SYMMETRY Symmetry
CHECK_DEADLOCK FALSE
