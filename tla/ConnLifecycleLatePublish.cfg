\* One connection that is inside a publish when the drain's grace runs out.
CONSTANTS
    Conns = {u1}
    k1 = k1
    ip1 = ip1
    Keys <- MCKeys
    IPs <- MCIPs
    KeyOf <- MCKeyOf
    IpOf <- MCIpOf
    IpCap = 1
SPECIFICATION Spec
INVARIANT NoBroadcastAfterDrain
