CONSTANTS
    r1 = r1  r2 = r2  u1 = u1  u2 = u2  o1 = o1  o2 = o2  w1 = w1  w2 = w2
    Rows = {r1, r2}
    Texts = {u1, u2}
    OrderIn <- MCOrderIn
    Threads = {w1, w2}
    MaxSaves = 3
    None = None
    a = a  aa = aa  b = b  c = c
    written = written  moved = moved  other = other  t1 = t1  t2 = t2
    Bullets = {a, aa, b, c}
    NormOf <- MCNormOf
    Ratio <- MCRatio
    Bases <- MCBases
    Answers <- MCAnswers
    SectionOrders = {written, moved, other}
    Written = written
    Requests = {t1}
    Unset = Unset
SPECIFICATION ResumeSpec
INVARIANTS OfThisText Approved
PROPERTIES Pinned
SYMMETRY Symmetry
CHECK_DEADLOCK FALSE
