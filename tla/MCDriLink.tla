------------------------------ MODULE MCDriLink ------------------------------
(* DriLink for TLC: requests, retries and faults are bounded by the cfg. *)
EXTENDS DriLink
=============================================================================
