\* Two connections of one key behind one address, both within its cap.
CONSTANTS
    Conns = {u1, u2}
    k1 = k1
    ip1 = ip1
    Keys <- MCKeys
    IPs <- MCIPs
    KeyOf <- MCKeyOf
    IpOf <- MCIpOf
    IpCap = 2
SPECIFICATION Spec
SYMMETRY MCSymmetry
INVARIANTS TypeOK RevokedIsDoomed DrainCoversAll IpCountExact OpenIsCounted
