---------------------------- MODULE MCTrafficSampler ----------------------------
(***************************************************************************)
(* An instance of TrafficSampler: a WireGuard and a GRE tunnel of one      *)
(* gateway, two runs of the sampler and rows that are pruned after one     *)
(* bucket.                                                                 *)
(***************************************************************************)
EXTENDS TrafficSampler, TLC

CONSTANTS t1, t2, g1, r1, r2

MCHomeOf == (t1 :> g1) @@ (t2 :> g1)
MCProtocolOf == (t1 :> "wireguard") @@ (t2 :> "gre")
MCSupports == g1 :> {"wireguard", "gre"}

(* Without overlapping runs the two are alike. *)
Symmetry == Permutations(Run)
=============================================================================
