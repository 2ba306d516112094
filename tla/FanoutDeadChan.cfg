\* One publisher whose Send has read the closed flag when the subscriber ends.
CONSTANTS
    Pubs = {p1}
    Subs = {s1}
    c1 = c1
    c2 = c2
    w1 = w1
    w2 = w2
    Chans = {c1}
    Workers = {w1}
    WorkerOf <- MCWorkerOf
    Strategies = {"perconn"}
    Policies = {"disconnect"}
    Ack = Ack
    NoSub = NoSub
    QueueCap = 1
    BufCap = 1
    MaxMsgs = 1
SPECIFICATION Spec
CHECK_DEADLOCK FALSE
PROPERTY NoEnqueueIntoDeadChan
