---------------------------- MODULE MCDialInAgent ----------------------------
(* Small instances of DialInAgent for TLC. *)
EXTENDS DialInAgent, TLC

CONSTANTS p1, p2, i1

Symmetry == Permutations({p1, p2})

==============================================================================
