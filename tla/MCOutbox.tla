------------------------------ MODULE MCOutbox -------------------------------
(* Two deliverer processes draining two events. *)
EXTENDS Outbox
==============================================================================
