---------------------------- MODULE Subscriptions ----------------------------
(***************************************************************************)
(* One subscription: buildSubscription and cancelSubscription              *)
(* (internal/server/subscription.go), the notifications that activate it   *)
(* and record its cycles (internal/server/webhook.go), and its rows        *)
(* (internal/storepg/recurring.go).                                        *)
(*                                                                         *)
(* The provider owns the clock.  The customer saves a card on its page, the*)
(* notification of that makes the facade register a schedule, and every    *)
(* charge of the schedule is notified in turn.                             *)
(*                                                                         *)
(* The inbound transaction of module Inbound is here its claim and its     *)
(* commit: what a notification does to a subscription goes through other   *)
(* connections, takes effect at once and is not rolled back.  Rows are     *)
(* written whole, from what was read before the provider was called, and a *)
(* failed statement goes unnoticed.  Of the events, those of a change of   *)
(* status are kept, not those that go with a new row.                      *)
(***************************************************************************)
EXTENDS Naturals, FiniteSets

CONSTANTS Orders,      \* order ids of the charges of its schedules
          Copies,      \* transactions of one order, each with its own notification
          Handlers,
          NoNote,
          Authorization,  \* order id of the charge that saves the card
          MaxFaults    \* bound: process deaths, failed statements, lost answers

Notes == (Orders \cup {Authorization}) \X Copies

ASSUME SubscriptionAssumption ==
    /\ Authorization \notin Orders
    /\ NoNote \notin Notes
    /\ MaxFaults \in Nat

VARIABLES row,         \* subscriptions: status and gateway_id, 0 when it is empty
          intent,      \* status of the authorization's payment intent
          invoice,     \* status of the first invoice
          billed,      \* how many invoices there are for an order
          told,        \* which of the changes of status were queued as events
          applied,     \* notifications whose inbound_events row is committed
          registered,  \* schedules the provider registered: 1..registered
          running,     \* those of them that charge
          charged,     \* the schedule that made an order's charge, 0 if none did
          sent,        \* notifications the provider sent, and repeats at will
          pc, job,     \* the handlers
          overlapped,  \* history: the row was read between a read and its write
          unchecked,   \* history: orders whose check missed an invoice, or may have
          faults

rowVars == <<row, intent, invoice, billed, told>>
providerVars == <<registered, running, charged, sent>>
historyVars == <<overlapped, unchecked>>
vars == <<rowVars, applied, providerVars, pc, job, historyVars, faults>>

Row == [status : {"absent", "incomplete", "active", "canceled"}, gateway : Nat]
Absent == [status |-> "absent", gateway |-> 0]
NoJob == [note |-> NoNote, gateway |-> 0]

\* Places of a handler of a notification, and of one of a cancel request.
Applying == {"claimed", "found", "registered", "stored", "invoiced",
             "matched", "unbilled", "done"}
Canceling == {"read", "stopped", "canceled"}
\* Between reading the row and writing it.
HoldsRead == {"found", "registered", "read", "stopped"}

SubscriptionTypeOK ==
    /\ row \in Row
    /\ intent \in {"absent", "requires_action", "succeeded"}
    /\ invoice \in {"absent", "open", "paid"}
    /\ billed \in [Orders -> Nat]
    /\ told \subseteq {"updated", "deleted"}
    /\ registered \in Nat /\ running \subseteq 1..registered
    /\ charged \in [Orders -> 0..registered]
    /\ applied \subseteq sent /\ sent \subseteq Notes
    /\ pc \in [Handlers -> {"idle"} \cup Applying \cup Canceling]
    /\ job \in [Handlers -> [note : Notes \cup {NoNote}, gateway : Nat]]
    /\ \A h \in Handlers : /\ pc[h] \in Applying => job[h].note \in sent
                           /\ pc[h] \in {"matched", "unbilled"} => job[h].note[1] \in Orders
    /\ overlapped \in BOOLEAN /\ unchecked \subseteq Orders
    /\ faults \in Nat

Init ==
    /\ row = Absent /\ intent = "absent" /\ invoice = "absent"
    /\ billed = [o \in Orders |-> 0]
    /\ told = {}
    /\ registered = 0 /\ running = {}
    /\ charged = [o \in Orders |-> 0]
    /\ applied = {} /\ sent = {}
    /\ pc = [h \in Handlers |-> "idle"]
    /\ job = [h \in Handlers |-> NoJob]
    /\ overlapped = FALSE /\ unchecked = {}
    /\ faults = 0

-----------------------------------------------------------------------------
Goto(h, place) == pc' = [pc EXCEPT ![h] = place]

\* Mutant of Finish: the request is dropped, its goroutine is not.
FinishInPlace(h) == job' = [job EXCEPT ![h] = NoJob] /\ UNCHANGED pc

Finish(h) == pc' = [pc EXCEPT ![h] = "idle"] /\ job' = [job EXCEPT ![h] = NoJob]

Fault == faults < MaxFaults /\ faults' = faults + 1

\* A write to one of the tables: it is done, or fails and nobody looks.
PutRow(new) == (row' = new /\ UNCHANGED faults) \/ (UNCHANGED row /\ Fault)
PutIntent(new) == (intent' = new /\ UNCHANGED faults) \/ (UNCHANGED intent /\ Fault)
PutInvoice(new) == (invoice' = new /\ UNCHANGED faults) \/ (UNCHANGED invoice /\ Fault)
Enqueue(type) == (told' = told \cup {type} /\ UNCHANGED faults) \/ (UNCHANGED told /\ Fault)

-----------------------------------------------------------------------------
(* The customer and the provider. *)

Created == row # Absent \/ intent # "absent"

\* buildSubscription: the provider's page and the ids are known to nobody until the
\* answer, so its statements are one step, of which one may have failed.
CreateSubscription ==
    /\ ~Created
    /\ \E lost \in {"none", "intent", "row", "invoice"} :
         /\ intent' = IF lost = "intent" THEN intent ELSE "requires_action"
         /\ row' = IF lost = "row" THEN row ELSE [row EXCEPT !.status = "incomplete"]
         /\ invoice' = IF lost = "invoice" THEN invoice ELSE "open"
         /\ IF lost = "none" THEN UNCHANGED faults ELSE Fault
    /\ UNCHANGED <<billed, told, applied, providerVars, pc, job, historyVars>>

\* The customer has saved a card, or a charge was made: its notifications go out.
Notify(o) == sent' = sent \cup ({o} \X Copies)

SaveCard ==
    /\ Created /\ \A n \in sent : n[1] # Authorization
    /\ Notify(Authorization)
    /\ UNCHANGED <<rowVars, registered, running, charged, applied, pc, job,
                   historyVars, faults>>

Charge(o) ==
    /\ charged[o] = 0
    /\ \E g \in running : charged' = [charged EXCEPT ![o] = g]
    /\ Notify(o)
    /\ UNCHANGED <<rowVars, registered, running, applied, pc, job, historyVars,
                   faults>>

-----------------------------------------------------------------------------
(* Notifications. *)

\* ClaimInbound: a row that is committed, or claimed by another handler, is not.
Claim(h, n) ==
    /\ pc[h] = "idle"
    /\ n \in sent \ applied
    /\ \A g \in Handlers : job[g].note # n
    /\ Goto(h, "claimed")
    /\ job' = [job EXCEPT ![h] = [NoJob EXCEPT !.note = n]]
    /\ UNCHANGED <<rowVars, applied, providerVars, historyVars, faults>>

\* Mutants of AlreadyRegistered: there is no guard; only the status is looked at.
AlreadyRegisteredNever == FALSE
AlreadyRegisteredActive == row.status = "active"

\* The guard against registering a second schedule.
AlreadyRegistered == row.gateway # 0 \/ row.status = "active"

\* Whether another handler has read the row and is yet to write it.
ReadElsewhere(h) == \E g \in Handlers \ {h} : pc[g] \in HoldsRead

\* GetSubscriptionByAuthPI: a canceled subscription without a schedule goes on, too.
\* The authorization counts as paid, whatever becomes of the schedule; nobody else
\* looks at it.
FindByAuthPI(h) ==
    /\ pc[h] = "claimed" /\ job[h].note[1] = Authorization
    /\ IF row.status = "absent" \/ AlreadyRegistered
       THEN Goto(h, "done") /\ UNCHANGED <<intent, overlapped, faults>>
       ELSE /\ Goto(h, "found")
            /\ overlapped' = (overlapped \/ ReadElsewhere(h))
            /\ IF intent = "absent" THEN UNCHANGED <<intent, faults>>
                                   ELSE PutIntent("succeeded")
    /\ UNCHANGED <<row, invoice, billed, told, applied, providerVars, job,
                   unchecked>>

Register == registered' = registered + 1 /\ running' = running \cup {registered'}

\* ActivateSubscription at the provider, to which nothing identifies a repeat.
RegisterSchedule(h) ==
    /\ pc[h] = "found"
    /\ Register
    /\ job' = [job EXCEPT ![h].gateway = registered']
    /\ Goto(h, "registered")
    /\ UNCHANGED <<rowVars, charged, sent, applied, historyVars, faults>>

\* It refuses, or its answer is lost: the notification will count as applied.
RegisterFails(h) ==
    /\ pc[h] = "found"
    /\ \/ UNCHANGED <<registered, running, faults>>
       \/ Register /\ Fault
    /\ Goto(h, "done")
    /\ UNCHANGED <<rowVars, charged, sent, applied, job, historyVars>>

PutActive(h) ==
    /\ pc[h] = "registered"
    /\ PutRow([status |-> "active", gateway |-> job[h].gateway])
    /\ Goto(h, "stored")
    /\ job' = [job EXCEPT ![h].gateway = 0]
    /\ UNCHANGED <<intent, invoice, billed, told, applied, providerVars,
                   historyVars>>

\* Mutant of Settled: the invoice is left to the events of the first cycle.
SettledUnpaid == invoice

\* The status of the first invoice: the authorization has covered it.
Settled == "paid"

PayInvoice(h) ==
    /\ pc[h] = "stored" /\ invoice # "absent"
    /\ PutInvoice(Settled)
    /\ Goto(h, "invoiced")
    /\ UNCHANGED <<row, intent, billed, told, applied, providerVars, job,
                   historyVars>>

\* GetInvoice finds none, or fails: there are no events either.
NoInvoice(h) ==
    /\ pc[h] = "stored"
    /\ IF invoice = "absent" THEN UNCHANGED faults ELSE Fault
    /\ Goto(h, "done")
    /\ UNCHANGED <<rowVars, applied, providerVars, job, historyVars>>

AnnounceActive(h) ==
    /\ pc[h] = "invoiced"
    /\ Enqueue("updated")
    /\ Goto(h, "done")
    /\ UNCHANGED <<row, intent, invoice, billed, applied, providerVars, job,
                   historyVars>>

\* GetSubscriptionByGatewayID: a schedule that no row has is a quiet success.
FindByGatewayID(h) ==
    /\ pc[h] = "claimed" /\ job[h].note[1] \in Orders
    /\ Goto(h, IF row.gateway = charged[job[h].note[1]] THEN "matched" ELSE "done")
    /\ UNCHANGED <<rowVars, applied, providerVars, job, historyVars, faults>>

\* Mutant of Billed: every notification is billed.
BilledNever(o) == FALSE

\* GetInvoiceByPI: an invoice with the order id of this charge is there.
Billed(o) == billed[o] > 0

BilledElsewhere(h) ==
    \E g \in Handlers \ {h} : pc[g] = "unbilled" /\ job[g].note[1] = job[h].note[1]

CheckBilled(h) ==
    LET o == job[h].note[1]
    IN /\ pc[h] = "matched"
       /\ Goto(h, IF Billed(o) THEN "done" ELSE "unbilled")
       /\ unchecked' = IF BilledElsewhere(h) THEN unchecked \cup {o} ELSE unchecked
       /\ UNCHANGED <<rowVars, applied, providerVars, job, overlapped, faults>>

\* Any error of the check means that there is no invoice.
CheckFails(h) ==
    /\ pc[h] = "matched"
    /\ Fault
    /\ Goto(h, "unbilled")
    /\ unchecked' = unchecked \cup {job[h].note[1]}
    /\ UNCHANGED <<rowVars, applied, providerVars, job, overlapped>>

\* The new invoice has an id of its own: nothing but the check keeps it single.
BillCycle(h) ==
    LET o == job[h].note[1]
    IN /\ pc[h] = "unbilled"
       /\ \/ billed' = [billed EXCEPT ![o] = @ + 1] /\ UNCHANGED faults
          \/ UNCHANGED billed /\ Fault
       /\ Goto(h, "done")
       /\ UNCHANGED <<row, intent, invoice, told, applied, providerVars, job,
                      historyVars>>

\* A lookup fails, which is taken for nothing found.
LookupFails(h) ==
    /\ pc[h] = "claimed"
    /\ Fault
    /\ Goto(h, "done")
    /\ UNCHANGED <<rowVars, applied, providerVars, job, historyVars>>

\* The notification is recorded as applied, whatever the provider answered.
Commit(h) ==
    /\ pc[h] = "done"
    /\ applied' = applied \cup {job[h].note}
    /\ Finish(h)
    /\ UNCHANGED <<rowVars, providerVars, historyVars, faults>>

-----------------------------------------------------------------------------
(* Cancel requests. *)

CancelSubscription(h) ==
    /\ pc[h] = "idle" /\ row.status # "absent"
    /\ Goto(h, "read")
    /\ job' = [job EXCEPT ![h].gateway = row.gateway]
    /\ overlapped' = (overlapped \/ ReadElsewhere(h))
    /\ UNCHANGED <<rowVars, applied, providerVars, unchecked, faults>>

\* Without a gateway id there is no schedule to stop, as far as the row knows.
StopSchedule(h) ==
    /\ pc[h] = "read"
    /\ running' = running \ {job[h].gateway}
    /\ Goto(h, "stopped")
    /\ UNCHANGED <<rowVars, registered, charged, sent, applied, job, historyVars,
                   faults>>

\* The provider refuses, or its answer is lost: the request is a 502.
StopFails(h) ==
    /\ pc[h] = "read" /\ job[h].gateway # 0
    /\ \/ UNCHANGED <<running, faults>>
       \/ running' = running \ {job[h].gateway} /\ Fault
    /\ Finish(h)
    /\ UNCHANGED <<rowVars, registered, charged, sent, applied, historyVars>>

\* The whole row as it was read, but for the status.
PutCanceled(h) ==
    /\ pc[h] = "stopped"
    /\ PutRow([status |-> "canceled", gateway |-> job[h].gateway])
    /\ Goto(h, "canceled")
    /\ job' = [job EXCEPT ![h].gateway = 0]
    /\ UNCHANGED <<intent, invoice, billed, told, applied, providerVars,
                   historyVars>>

AnnounceCanceled(h) ==
    /\ pc[h] = "canceled"
    /\ Enqueue("deleted")
    /\ Finish(h)
    /\ UNCHANGED <<row, intent, invoice, billed, applied, providerVars,
                   historyVars>>

\* The process dies, or the inbound transaction fails: the claim is gone, what was
\* written stays, and the notification may come again.
Abandon(h) ==
    /\ pc[h] # "idle"
    /\ Fault
    /\ Finish(h)
    /\ UNCHANGED <<rowVars, applied, providerVars, historyVars>>

-----------------------------------------------------------------------------
HandlerStep(h) ==
    \/ FindByAuthPI(h) \/ RegisterSchedule(h) \/ PutActive(h)
    \/ PayInvoice(h) \/ AnnounceActive(h)
    \/ FindByGatewayID(h) \/ CheckBilled(h) \/ BillCycle(h) \/ Commit(h)
    \/ StopSchedule(h) \/ PutCanceled(h) \/ AnnounceCanceled(h)

Failure(h) ==
    \/ RegisterFails(h) \/ NoInvoice(h) \/ LookupFails(h) \/ CheckFails(h)
    \/ StopFails(h) \/ Abandon(h)

Next ==
    \/ CreateSubscription \/ SaveCard
    \/ \E o \in Orders : Charge(o)
    \/ \E h \in Handlers :
         HandlerStep(h) \/ Failure(h) \/ CancelSubscription(h) \/ \E n \in Notes : Claim(h, n)

Spec == Init /\ [][Next]_vars

-----------------------------------------------------------------------------
(* Properties. *)

InHand == {job[h].gateway : h \in {g \in Handlers : pc[g] = "registered"}}

\* A schedule that charges the customer is the one in the row, so that a cancel
\* reaches it: repeated, delayed and interrupted activations leave another one
\* running only for a crash or an error each, or when the row changed between a
\* handler's read and its write.
NoStrayClock ==
    overlapped \/ Cardinality(running \ (InHand \cup {row.gateway})) <= faults

\* Once a cancel has stopped the schedule of a subscription, no late or repeated
\* notification makes it active again, unless it had read the row before.
CanceledStaysCanceled ==
    [][row.status = "canceled" /\ row.gateway # 0 /\ ~overlapped
         => row'.status = "canceled"]_vars

\* A charge is invoiced once, whichever of its notifications arrive, are repeated
\* after a crash or lose their transaction: only two at once, or an error of the
\* check, can double it.
CycleBilledOnce == \A o \in Orders : billed[o] <= 1 \/ o \in unchecked

Quiet == \A h \in Handlers : pc[h] = "idle"

\* When nothing is at work and nothing went wrong, the tables and the events agree
\* with the subscription, in whatever order it was activated and canceled.
SettledStateAgrees ==
    Quiet /\ faults = 0 =>
        /\ row.status = "active" =>
             intent = "succeeded" /\ invoice = "paid" /\ "updated" \in told
        /\ row.status = "canceled" => "deleted" \in told
        /\ row.gateway # 0 => intent = "succeeded" /\ invoice = "paid"

\* As COMPATIBILITY.md has it, DELETE cancels the recurring clock: once the
\* subscription is announced as deleted, no schedule of it charges.
DeleteStopsClock == "deleted" \in told => running = {}
==============================================================================
