----------------------------- MODULE MCService -----------------------------
(* Service with values for its bounds in the cfg. *)
EXTENDS Service

CONSTANTS q1, q2

=============================================================================
