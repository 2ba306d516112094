\* Two connections that compete for the one slot of their address.
CONSTANTS
    Conns = {u1, u2}
    k1 = k1
    ip1 = ip1
    Keys <- MCKeys
    IPs <- MCIPs
    KeyOf <- MCKeyOf
    IpOf <- MCIpOf
    IpCap = 1
SPECIFICATION FairSpec
PROPERTIES RevokedEndsForGood DoomedEnds
