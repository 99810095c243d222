----------------------------- MODULE MCBootstrap -----------------------------
(* Bootstrap for TLC.  A tick of the clock is five minutes: OauthTTL 1,      *)
(* SessionTTL 2 and Deadline 3 are the code's 5, 10 and 15 minutes.          *)
EXTENDS Bootstrap, TLC
Symmetry == Permutations(Attempts)
=============================================================================
