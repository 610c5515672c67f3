\* One worker, two steps that each reach the quorum: the pool runs dry.
CONSTANTS
    w1 = w1  w2 = w2  a = a  b = b  c = c  d = d  h = h  s1 = s1  s2 = s2
    p1 = p1  p2 = p2  p3 = p3  p4 = p4  p5 = p5
    Workers = {w1}
    Signers = {a, b, c, d}
    Hashes = {h}
    EmptyHash = EmptyHash
    Steps = {s1, s2}
    Payloads = {p1, p2, p3, p4, p5}
    Agreements <- MCAgreementsTwoSteps
    Invalid = {}
    Weight <- MCWeight
    Quorum = 2
    MaxSubmit = 4
    NoMsg = NoMsg
SPECIFICATION FairSpec
PROPERTY QuorumEventuallyCollected
CHECK_DEADLOCK FALSE
