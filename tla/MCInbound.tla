------------------------------ MODULE MCInbound ------------------------------
(* Two notifications about one payment: it succeeds, and it is canceled.  They  *)
(* arrive in either order, in as many copies as the bounds allow.               *)
EXTENDS Inbound

Note(id, s) == [id |-> id, intent |-> "pi_1", status |-> s]

MCIntent == {"pi_1"}
MCNotes == {Note(1, "succeeded"), Note(2, "canceled")}
==============================================================================
