---------------------------- MODULE MCConnection ----------------------------
(* Model checking of Connection; the bounds are given in the configuration. *)
EXTENDS Connection
=============================================================================
