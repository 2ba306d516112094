\* One client against two concurrent sweeps and the stats loop.
CONSTANTS
    Conns = {c1}
    Names = {stats}
    StatsName = stats
    Chans = {k1, k2, k3}
    Sweepers = {s1, s2}
    sh1 = sh1
    c1 = c1
    Shards <- MCShards
    ShardOf <- MCShardOf
    Stats = Stats
    NoChan = NoChan
    Nobody = Nobody
    MaxSubs <- MCMaxSubs
    MaxChannels <- MCMaxChannels
    MaxRetries = 2
SPECIFICATION FairSpec
INVARIANTS NoOrphanedSubscription DeletedIsDead
PROPERTIES SubscribeAnswered EmptyCollected
