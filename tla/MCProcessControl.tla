-------------------------- MODULE MCProcessControl --------------------------
(* TLC instances of ProcessControl: see the cfg files. *)
EXTENDS ProcessJobs

CONSTANTS cat, none, bad
=============================================================================
