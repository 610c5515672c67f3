\* Two workers, one round: every verdict of is_valid, the reroute window,
\* the Accumulator's quorum and its progress.
CONSTANTS
    w1 = w1  w2 = w2  a = a  b = b  c = c  d = d  h = h  t1 = t1  tx = tx
    p1 = p1  p2 = p2  p3 = p3  p4 = p4  p5 = p5  p6 = p6  p7 = p7
    Workers = {w1, w2}
    Signers = {a, b, c, d}
    Hashes = {h}
    EmptyHash = EmptyHash
    Payloads = {p1, p2, p3, p4, p5, p6, p7}
    Weight <- MCWeight
    Quorum = 2
    NoMsg = NoMsg
    NoSigner = NoSigner
    Tip <- MCTip
    Iteration = 0
    Step = "Validation"
    Inbound <- MCInbound
    Verified <- MCInbound
    InboundCap = 2
    MaxArrivals = 4
SPECIFICATION FairSpec
INVARIANTS TypeOK CollectedBackedByQuorum CollectedFromCurrentTip
PROPERTIES QuorumEventuallyCollected
\* Once the bounded input is consumed the task and the workers wait on
\* empty queues.
CHECK_DEADLOCK FALSE
