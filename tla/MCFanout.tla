------------------------------ MODULE MCFanout ------------------------------
(* Fanout for TLC: up to two channels, each on a worker of its own.  The   *)
(* publishers are interchangeable, and so are the two channels together    *)
(* with their workers.                                                     *)
EXTENDS Fanout

CONSTANTS c1, c2, w1, w2

MCWorkerOf == [c \in Chans |-> IF c = c1 THEN w1 ELSE w2]

MCSymmetry ==
    {f \in Permutations(Pubs \cup Chans \cup Workers) :
        \A x \in DOMAIN f :
            /\ x \in Pubs => f[x] \in Pubs
            /\ x \in Chans => f[x] \in Chans /\ f[WorkerOf[x]] = WorkerOf[f[x]]}
=============================================================================
