\* Two clients that may share an ordinary channel, compete for the one place of
\* the stats channel and differ in the channels they may hold; one sweeper.
CONSTANTS
    Conns = {c1, c2}
    Names = {n1, stats}
    StatsName = stats
    Chans = {k1, k2, k3, k4}
    Sweepers = {s1}
    sh1 = sh1
    c1 = c1
    Shards <- MCShards
    ShardOf <- MCShardOf
    Stats = Stats
    NoChan = NoChan
    Nobody = Nobody
    MaxSubs <- MCMaxSubs
    MaxChannels <- MCMaxChannels
    MaxRetries = 2
SPECIFICATION Spec
SYMMETRY MCSymmetry
INVARIANTS TypeOK NoOrphanedSubscription NoLeakedSubscriber
PROPERTIES ImplementsMembership
