----------------------------- MODULE MCSioChannel -----------------------------
(* SioChannel for TLC: a ring of a few bytes of two values. *)
EXTENDS SioChannel, TLC

CONSTANTS a, b
=============================================================================
