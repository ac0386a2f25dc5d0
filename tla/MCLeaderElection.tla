--------------------------- MODULE MCLeaderElection ---------------------------
(* Small instances of LeaderElection.                                      *)
EXTENDS LeaderElection
===============================================================================
