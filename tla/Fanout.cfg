\* Two publishers on two channels of one subscriber, every queue and buffer of
\* size one.  The bound on events stops the publishers: not a deadlock.
CONSTANTS
    Pubs = {p1, p2}
    Subs = {s1}
    c1 = c1
    c2 = c2
    w1 = w1
    w2 = w2
    Chans = {c1, c2}
    Workers = {w1, w2}
    WorkerOf <- MCWorkerOf
    Strategies = {"perconn", "sharded"}
    Policies = {"disconnect", "drop-oldest", "drop-newest"}
    Ack = Ack
    NoSub = NoSub
    QueueCap = 1
    BufCap = 1
    MaxMsgs = 2
SPECIFICATION Spec
SYMMETRY MCSymmetry
CHECK_DEADLOCK FALSE
INVARIANTS TypeOK InOrder NoSilentLoss CloseLosesNothing
