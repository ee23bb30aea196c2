---------------------------- MODULE EventDelivery ----------------------------
(***************************************************************************)
(* What the outbox promises the merchant about one Stripe-shaped event:    *)
(* once owed, an event stays owed until the merchant has taken one of its  *)
(* deliveries and said so, or until MaxAttempts deliveries were begun.     *)
(* A settled event changes again only when an operator replays it, and     *)
(* only a delivered one can be replayed out of its settlement.             *)
(***************************************************************************)
EXTENDS Naturals

CONSTANTS Events, MaxAttempts

VARIABLES phase,      \* where the merchant's view of the event stands
          tries,      \* deliveries begun
          confirmed,  \* events the merchant has taken
          reopened    \* operator replays so far

deliveryVars == <<phase, tries, confirmed, reopened>>

DeliveryInit ==
    /\ phase = [e \in Events |-> "absent"]
    /\ tries = [e \in Events |-> 0]
    /\ confirmed = {}
    /\ reopened = 0

Owe(e) ==
    /\ phase[e] = "absent"
    /\ phase' = [phase EXCEPT ![e] = "owed"]
    /\ UNCHANGED <<tries, confirmed, reopened>>

Try(e) ==
    /\ phase[e] = "owed"
    /\ tries' = [tries EXCEPT ![e] = @ + 1]
    /\ UNCHANGED <<phase, confirmed, reopened>>

\* The merchant may take it at any time after a try, even once the event is settled:
\* the worker that POSTed it may be slower than its lease.
Confirm(e) ==
    /\ tries[e] > 0
    /\ confirmed' = confirmed \cup {e}
    /\ UNCHANGED <<phase, tries, reopened>>

Settle(e) ==
    /\ phase[e] = "owed"
    /\ \/ e \in confirmed /\ phase' = [phase EXCEPT ![e] = "delivered"]
       \/ tries[e] >= MaxAttempts /\ phase' = [phase EXCEPT ![e] = "dead"]
    /\ UNCHANGED <<tries, confirmed, reopened>>

\* Replaying an event that is still owed only hastens its next delivery.
Reopen(e) ==
    /\ phase[e] \in {"owed", "delivered"}
    /\ phase' = [phase EXCEPT ![e] = "owed"]
    /\ reopened' = reopened + 1
    /\ UNCHANGED <<tries, confirmed>>

DeliveryNext ==
    \E e \in Events : Owe(e) \/ Try(e) \/ Confirm(e) \/ Settle(e) \/ Reopen(e)

DeliverySpec == DeliveryInit /\ [][DeliveryNext]_deliveryVars
==============================================================================
