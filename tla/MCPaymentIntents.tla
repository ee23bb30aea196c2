-------------------------- MODULE MCPaymentIntents ---------------------------
(* Two requests that may run one create, one or two confirms beside them. *)
EXTENDS PaymentIntents
==============================================================================
