\* Two connections of one key, a private channel and the stats channel, one token.
CONSTANTS
    Conns = {c1, c2}
    k1 = k1
    Keys <- MCKeys
    KeyOf <- MCKeyOf
    Private = {priv}
    Public = {}
    Reserved = {stats}
    StatsChannel = stats
    Jtis = {j1}
    NoToken = NoToken
    Buckets = {b1, b2, b3, b4}
    NoBucket = NoBucket
    Rate = 1
    Burst = 2
    TTL = 3
    ConnBurst = 2
    MaxChannels = 1
    Life = 2
    Stall = 1
    MaxTime = 5
SPECIFICATION Spec
SYMMETRY MCSymmetry
INVARIANTS TypeOK SingleUse HeldWasPaid SpentIsAnswered WithinBudget
