---------------------------- MODULE MCReconciler ----------------------------
(* Reconciler for TLC: a source's server, which a configuration may drop,    *)
(* the portal's Access policy, and the DNS record that publishes the portal. *)
EXTENDS Reconciler, TLC
CONSTANTS server, policy, dns
MCRank == server :> 1 @@ policy :> 2 @@ dns :> 3
Symmetry == Permutations(Hashes)
=============================================================================
