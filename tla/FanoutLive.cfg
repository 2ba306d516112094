\* Two publishers on one channel, so that a full queue blocks them.  The bound
\* on events stops the publishers: not a deadlock.
CONSTANTS
    Pubs = {p1, p2}
    Subs = {s1}
    c1 = c1
    c2 = c2
    w1 = w1
    w2 = w2
    Chans = {c1}
    Workers = {w1}
    WorkerOf <- MCWorkerOf
    Strategies = {"perconn", "sharded"}
    Policies = {"disconnect", "drop-oldest"}
    Ack = Ack
    NoSub = NoSub
    QueueCap = 1
    BufCap = 1
    MaxMsgs = 2
SPECIFICATION FairSpec
CHECK_DEADLOCK FALSE
PROPERTIES BroadcastReturns CloseReturns
