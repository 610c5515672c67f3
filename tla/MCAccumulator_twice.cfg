\* Two workers, three valid votes for one (hash, step): the second worker re-sends.
CONSTANTS
    w1 = w1  w2 = w2  a = a  b = b  c = c  d = d  h = h  s1 = s1  s2 = s2
    p1 = p1  p2 = p2  p3 = p3  p4 = p4  p5 = p5
    Workers = {w1, w2}
    Signers = {a, b, c, d}
    Hashes = {h}
    EmptyHash = EmptyHash
    Steps = {s1}
    Payloads = {p1, p2, p3, p4, p5}
    Agreements <- MCAgreementsAllValid
    Invalid = {}
    Weight <- MCWeight
    Quorum = 2
    MaxSubmit = 4
    NoMsg = NoMsg
SPECIFICATION FairSpec
INVARIANT AtMostOneCollected
CHECK_DEADLOCK FALSE
