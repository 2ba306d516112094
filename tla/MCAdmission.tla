----------------------------- MODULE MCAdmission -----------------------------
(* Admission for TLC: every connection on one API key.                     *)
EXTENDS Admission, TLC

CONSTANT k1

MCKeys == {k1}
MCKeyOf == [c \in Conns |-> k1]

MCSymmetry == Permutations(Conns)
=============================================================================
