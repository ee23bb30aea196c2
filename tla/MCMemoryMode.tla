---------------------------- MODULE MCMemoryMode -----------------------------
(* One checkout payment, its notifications, and a confirm beside them. *)
EXTENDS MemoryMode
==============================================================================
