--------------------------- MODULE MCCodeRedemption ---------------------------
(* Small instances of CodeRedemption for TLC. *)
EXTENDS CodeRedemption, TLC

CONSTANTS c1, c2, c3, b1, b2, u1, u2, r1, r2

(* One batch has a code with a single use and one with two, both of which a  *)
(* user may try to take.  The other has a code without a total limit that a  *)
(* user may redeem once.                                                     *)
MCBatch == c1 :> b1 @@ c2 :> b1 @@ c3 :> b2
MCValue == c1 :> 1 @@ c2 :> 2 @@ c3 :> 1
MCMaxTotal == c1 :> 1 @@ c2 :> 2 @@ c3 :> 0
MCMaxPerUser == c1 :> 1 @@ c2 :> 2 @@ c3 :> 1

Symmetry == Permutations({u1, u2}) \union Permutations({r1, r2})

==============================================================================
