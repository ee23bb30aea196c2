---------------------------- MODULE MCIdempotency ----------------------------
(* Three requests that may carry one or two keys and two bodies. *)
EXTENDS Idempotency
==============================================================================
