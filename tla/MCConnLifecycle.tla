--------------------------- MODULE MCConnLifecycle ---------------------------
(* ConnLifecycle for TLC: the key and the IP bucket of each connection.    *)
EXTENDS ConnLifecycle, TLC

CONSTANTS k1, ip1

MCKeys == {k1}
MCIPs == {ip1}
MCKeyOf == [u \in Conns |-> k1]
MCIpOf == [u \in Conns |-> ip1]

MCSymmetry == Permutations(Conns)
=============================================================================
