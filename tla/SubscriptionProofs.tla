------------------------- MODULE SubscriptionProofs -------------------------
(***************************************************************************)
(* Proofs about Subscriptions for any number of charges, notifications,    *)
(* handler goroutines and faults: the types, that a charge is invoiced     *)
(* once, that a canceled subscription stays canceled, that a schedule which*)
(* no row knows takes a fault, and that without a fault the tables and the *)
(* events agree when nothing is at work.                                   *)
(***************************************************************************)
EXTENDS Subscriptions, FiniteSetTheorems, TLAPS

USE SubscriptionAssumption
USE DEF Applying, Canceling, Row, Absent, rowVars, providerVars, historyVars

-----------------------------------------------------------------------------
(* Types. *)

Job == [note : Notes \cup {NoNote}, gateway : Nat]

\* A handler goes to a place inside its request, which keeps its types.
LEMMA GotoTypeOK ==
  ASSUME SubscriptionTypeOK, NEW h \in Handlers, NEW place \in Applying \cup Canceling,
         Goto(h, place),
         job' = job \/ \E g \in Nat : job' = [job EXCEPT ![h].gateway = g],
         place \in Applying => pc[h] \in Applying,
         place \in {"matched", "unbilled"} => job[h].note[1] \in Orders,
         sent' = sent
  PROVE  /\ pc' \in [Handlers -> {"idle"} \cup Applying \cup Canceling]
         /\ job' \in [Handlers -> Job]
         /\ \A g \in Handlers :
              /\ pc'[g] \in Applying => job'[g].note \in sent'
              /\ pc'[g] \in {"matched", "unbilled"} => job'[g].note[1] \in Orders
<1>1. /\ pc' = [pc EXCEPT ![h] = place]
      /\ pc' \in [Handlers -> {"idle"} \cup Applying \cup Canceling]
  BY DEF SubscriptionTypeOK, Goto
<1>2. job' \in [Handlers -> Job] /\ \A g \in Handlers : job'[g].note = job[g].note
  BY DEF SubscriptionTypeOK, Job
<1> QED
  BY <1>1, <1>2 DEF SubscriptionTypeOK

\* So does one that finishes.
LEMMA FinishTypeOK ==
  ASSUME SubscriptionTypeOK, NEW h \in Handlers, Finish(h), sent' = sent
  PROVE  /\ pc' \in [Handlers -> {"idle"} \cup Applying \cup Canceling]
         /\ job' \in [Handlers -> Job]
         /\ \A g \in Handlers :
              /\ pc'[g] \in Applying => job'[g].note \in sent'
              /\ pc'[g] \in {"matched", "unbilled"} => job'[g].note[1] \in Orders
  BY DEF SubscriptionTypeOK, Finish, NoJob, Job

\* A schedule that is registered keeps the provider's types.
LEMMA RegisterTypeOK ==
  ASSUME SubscriptionTypeOK, Register
  PROVE  /\ registered' \in Nat /\ running' \subseteq 1..registered'
         /\ charged \in [Orders -> 0..registered']
<1>1. registered' = registered + 1 /\ running' = running \cup {registered + 1}
  BY DEF Register
<1>2. \A i \in 0..registered : i \in 0..(registered + 1)
  BY DEF SubscriptionTypeOK
<1> QED
  BY <1>1, <1>2 DEF SubscriptionTypeOK

\* Every step keeps the types.
LEMMA StepTypeOK == SubscriptionTypeOK /\ [Next]_vars => SubscriptionTypeOK'
<1> SUFFICES ASSUME SubscriptionTypeOK, [Next]_vars PROVE SubscriptionTypeOK'
  OBVIOUS
<1> USE DEF Job
<1>1. CASE CreateSubscription
  BY <1>1 DEF SubscriptionTypeOK, CreateSubscription, Fault
<1>2. CASE SaveCard
  BY <1>2 DEF SubscriptionTypeOK, SaveCard, Notify, Notes
<1>3. ASSUME NEW o \in Orders, Charge(o) PROVE SubscriptionTypeOK'
  <2>1. charged' \in [Orders -> 0..registered']
    BY <1>3 DEF SubscriptionTypeOK, Charge
  <2>2. sent \subseteq sent' /\ sent' \subseteq Notes
    BY <1>3 DEF SubscriptionTypeOK, Charge, Notify, Notes
  <2> QED
    BY <1>3, <2>1, <2>2 DEF SubscriptionTypeOK, Charge
<1>4. ASSUME NEW h \in Handlers, NEW n \in Notes, Claim(h, n) PROVE SubscriptionTypeOK'
  BY <1>4 DEF SubscriptionTypeOK, Claim, Goto, NoJob
<1>5. ASSUME NEW h \in Handlers, FindByAuthPI(h) PROVE SubscriptionTypeOK'
  <2>1. PICK place \in {"done", "found"} : Goto(h, place)
    BY <1>5 DEF FindByAuthPI
  <2>2. intent' \in {"absent", "requires_action", "succeeded"} /\ faults' \in Nat
    BY <1>5 DEF SubscriptionTypeOK, FindByAuthPI, PutIntent, Fault
  <2>3. overlapped' \in BOOLEAN
    BY <1>5, ZenonT(30) DEF SubscriptionTypeOK, FindByAuthPI
  <2> QED
    BY <1>5, <2>1, <2>2, <2>3, GotoTypeOK DEF SubscriptionTypeOK, FindByAuthPI
<1>6. ASSUME NEW h \in Handlers, RegisterSchedule(h) PROVE SubscriptionTypeOK'
  BY <1>6, RegisterTypeOK, GotoTypeOK DEF SubscriptionTypeOK, RegisterSchedule
<1>7. ASSUME NEW h \in Handlers, RegisterFails(h) PROVE SubscriptionTypeOK'
  <2>1. CASE Register
    BY <1>7, <2>1, RegisterTypeOK, GotoTypeOK DEF SubscriptionTypeOK, RegisterFails, Fault
  <2>2. CASE UNCHANGED <<registered, running, faults>>
    BY <1>7, <2>2, GotoTypeOK DEF SubscriptionTypeOK, RegisterFails
  <2> QED
    BY <1>7, <2>1, <2>2 DEF RegisterFails
<1>8. ASSUME NEW h \in Handlers, PutActive(h) PROVE SubscriptionTypeOK'
  <2>1. row' \in Row /\ faults' \in Nat
    BY <1>8 DEF SubscriptionTypeOK, PutActive, PutRow, Fault
  <2> QED
    BY <1>8, <2>1, GotoTypeOK DEF SubscriptionTypeOK, PutActive
<1>9. ASSUME NEW h \in Handlers, PayInvoice(h) \/ NoInvoice(h) \/ AnnounceActive(h)
      PROVE  SubscriptionTypeOK'
  <2>1. PICK place \in {"done", "invoiced"} : Goto(h, place)
    BY <1>9 DEF PayInvoice, NoInvoice, AnnounceActive
  <2>2. /\ invoice' \in {"absent", "open", "paid"} /\ faults' \in Nat
        /\ told' = told \/ told' = told \cup {"updated"}
    BY <1>9 DEF SubscriptionTypeOK, PayInvoice, NoInvoice, AnnounceActive, PutInvoice,
                Settled, Enqueue, Fault
  <2>3. /\ UNCHANGED <<row, intent, billed, applied, providerVars, job, historyVars>>
        /\ pc[h] \in Applying
    BY <1>9 DEF PayInvoice, NoInvoice, AnnounceActive
  <2> QED
    BY <2>1, <2>2, <2>3, GotoTypeOK DEF SubscriptionTypeOK
<1>10. ASSUME NEW h \in Handlers, FindByGatewayID(h) \/ LookupFails(h)
       PROVE  SubscriptionTypeOK'
  <2>1. PICK place \in {"done", "matched"} :
          Goto(h, place) /\ (place = "matched" => job[h].note[1] \in Orders)
    BY <1>10 DEF FindByGatewayID, LookupFails
  <2>2. /\ UNCHANGED <<rowVars, applied, providerVars, job, historyVars>>
        /\ pc[h] \in Applying /\ faults' \in Nat
    BY <1>10 DEF SubscriptionTypeOK, FindByGatewayID, LookupFails, Fault
  <2> QED
    BY <2>1, <2>2, GotoTypeOK DEF SubscriptionTypeOK
<1>11. ASSUME NEW h \in Handlers, CheckBilled(h) \/ CheckFails(h)
       PROVE  SubscriptionTypeOK'
  <2>1. PICK place \in {"done", "unbilled"} : Goto(h, place)
    BY <1>11 DEF CheckBilled, CheckFails
  <2>2. pc[h] \in Applying /\ job[h].note[1] \in Orders
    BY <1>11 DEF SubscriptionTypeOK, CheckBilled, CheckFails
  <2>3. /\ UNCHANGED <<rowVars, applied, providerVars, job, overlapped>>
        /\ unchecked' \subseteq Orders /\ faults' \in Nat
    BY <1>11, <2>2 DEF SubscriptionTypeOK, CheckBilled, CheckFails, Fault
  <2> QED
    BY <2>1, <2>2, <2>3, GotoTypeOK DEF SubscriptionTypeOK
<1>12. ASSUME NEW h \in Handlers, BillCycle(h) PROVE SubscriptionTypeOK'
  <2>1. billed' \in [Orders -> Nat] /\ faults' \in Nat
    BY <1>12 DEF SubscriptionTypeOK, BillCycle, Fault
  <2> QED
    BY <1>12, <2>1, GotoTypeOK DEF SubscriptionTypeOK, BillCycle
<1>13. ASSUME NEW h \in Handlers, Commit(h) \/ Abandon(h) PROVE SubscriptionTypeOK'
  <2>1. applied' \subseteq sent' /\ faults' \in Nat
    BY <1>13 DEF SubscriptionTypeOK, Commit, Abandon, Fault
  <2> QED
    BY <1>13, <2>1, FinishTypeOK DEF SubscriptionTypeOK, Commit, Abandon
<1>14. ASSUME NEW h \in Handlers, CancelSubscription(h) PROVE SubscriptionTypeOK'
  <2>1. row.gateway \in Nat /\ overlapped' \in BOOLEAN
    BY <1>14 DEF SubscriptionTypeOK, CancelSubscription
  <2> QED
    BY <1>14, <2>1, GotoTypeOK DEF SubscriptionTypeOK, CancelSubscription
<1>15. ASSUME NEW h \in Handlers, StopSchedule(h) PROVE SubscriptionTypeOK'
  BY <1>15, GotoTypeOK DEF SubscriptionTypeOK, StopSchedule
<1>16. ASSUME NEW h \in Handlers, StopFails(h) PROVE SubscriptionTypeOK'
  <2>1. /\ running' = running \/ running' = running \ {job[h].gateway}
        /\ faults' \in Nat
    BY <1>16 DEF SubscriptionTypeOK, StopFails, Fault
  <2> QED
    BY <1>16, <2>1, FinishTypeOK DEF SubscriptionTypeOK, StopFails
<1>17. ASSUME NEW h \in Handlers, PutCanceled(h) PROVE SubscriptionTypeOK'
  <2>1. row' \in Row /\ faults' \in Nat
    BY <1>17 DEF SubscriptionTypeOK, PutCanceled, PutRow, Fault
  <2> QED
    BY <1>17, <2>1, GotoTypeOK DEF SubscriptionTypeOK, PutCanceled
<1>18. ASSUME NEW h \in Handlers, AnnounceCanceled(h) PROVE SubscriptionTypeOK'
  <2>1. (told' = told \/ told' = told \cup {"deleted"}) /\ faults' \in Nat
    BY <1>18 DEF SubscriptionTypeOK, AnnounceCanceled, Enqueue, Fault
  <2> QED
    BY <1>18, <2>1, FinishTypeOK DEF SubscriptionTypeOK, AnnounceCanceled
<1>19. CASE UNCHANGED vars
  BY <1>19 DEF SubscriptionTypeOK, vars
<1> QED
  BY <1>1, <1>2, <1>3, <1>4, <1>5, <1>6, <1>7, <1>8, <1>9, <1>10, <1>11, <1>12, <1>13,
     <1>14, <1>15, <1>16, <1>17, <1>18, <1>19 DEF Next, HandlerStep, Failure

\* Whatever is interrupted, repeated or overlaps, the variables keep their types.
THEOREM SubscriptionTypeCorrect == Spec => []SubscriptionTypeOK
<1>1. Init => SubscriptionTypeOK
  <2> SUFFICES ASSUME Init PROVE SubscriptionTypeOK
    OBVIOUS
  <2>1. /\ charged \in [Orders -> 0..registered] /\ billed \in [Orders -> Nat]
        /\ job \in [Handlers -> [note : Notes \cup {NoNote}, gateway : Nat]]
    BY DEF Init, NoJob
  <2> QED
    BY <2>1 DEF Init, SubscriptionTypeOK
<1> QED
  BY <1>1, StepTypeOK, PTL DEF Spec

-----------------------------------------------------------------------------
(* Invoices. *)

Billing(h, o) == pc[h] = "unbilled" /\ job[h].note[1] = o

\* A handler that is about to bill an order is alone, and there is no invoice yet.
BillInv ==
    \A o \in Orders \ unchecked :
        /\ billed[o] <= 1
        /\ \A g, h \in Handlers : Billing(g, o) /\ Billing(h, o) => g = h
        /\ \A h \in Handlers : Billing(h, o) => billed[o] = 0

\* A step after which nobody is newly at the point of billing keeps the invariant.
LEMMA BillFrame ==
  ASSUME BillInv, UNCHANGED <<billed, unchecked>>,
         \A h \in Handlers, o \in Orders : Billing(h, o)' => Billing(h, o)
  PROVE  BillInv'
  BY DEF BillInv

\* Every step keeps it.
LEMMA StepBillInv == SubscriptionTypeOK /\ BillInv /\ [Next]_vars => BillInv'
<1> SUFFICES ASSUME SubscriptionTypeOK, BillInv, [Next]_vars PROVE BillInv'
  OBVIOUS
<1>1. CASE CreateSubscription \/ SaveCard \/ (\E o \in Orders : Charge(o)) \/ UNCHANGED vars
  <2>1. UNCHANGED <<billed, unchecked, pc, job>>
    BY <1>1 DEF CreateSubscription, SaveCard, Charge, vars
  <2> QED
    BY <2>1, BillFrame DEF Billing
<1>2. ASSUME NEW h \in Handlers, CheckBilled(h) PROVE BillInv'
  <2> DEFINE o == job[h].note[1]
  <2>1. /\ UNCHANGED <<job, billed>>
        /\ pc' = [pc EXCEPT ![h] = IF Billed(o) THEN "done" ELSE "unbilled"]
        /\ unchecked' = IF BilledElsewhere(h) THEN unchecked \cup {o} ELSE unchecked
    BY <1>2 DEF CheckBilled, Goto
  <2>2. \A g \in Handlers, q \in Orders : Billing(g, q)' => Billing(g, q) \/ (g = h /\ q = o)
    BY <2>1 DEF SubscriptionTypeOK, Billing
  <2>3. \A q \in Orders : q = o /\ Billing(h, q)' => billed[q] = 0
    BY <2>1 DEF SubscriptionTypeOK, Billing, Billed
  <2>4. o \in unchecked' \/ \A g \in Handlers \ {h} : ~Billing(g, o)
    BY <2>1 DEF BilledElsewhere, Billing
  <2> HIDE DEF o
  <2>5. ASSUME NEW q \in Orders \ unchecked'
        PROVE  /\ billed'[q] <= 1
               /\ \A f, g \in Handlers : Billing(f, q)' /\ Billing(g, q)' => f = g
               /\ \A g \in Handlers : Billing(g, q)' => billed'[q] = 0
    <3>1. /\ billed'[q] <= 1
          /\ \A f, g \in Handlers : Billing(f, q) /\ Billing(g, q) => f = g
          /\ \A g \in Handlers : Billing(g, q) => billed'[q] = 0
      BY <2>1 DEF BillInv
    <3>2. CASE q = o
      <4>1. \A g \in Handlers : Billing(g, q)' => g = h
        BY <2>2, <2>4, <3>2
      <4> QED
        BY <2>1, <2>3, <3>1, <3>2, <4>1
    <3>3. CASE q # o
      BY <2>2, <3>1, <3>3
    <3> QED
      BY <3>2, <3>3
  <2> QED
    BY <2>5 DEF BillInv
<1>3. ASSUME NEW h \in Handlers, CheckFails(h) PROVE BillInv'
  <2> DEFINE o == job[h].note[1]
  <2>1. /\ UNCHANGED <<job, billed>> /\ pc' = [pc EXCEPT ![h] = "unbilled"]
        /\ unchecked' = unchecked \cup {o}
    BY <1>3 DEF CheckFails, Goto
  <2>2. \A g \in Handlers, q \in Orders : Billing(g, q)' => Billing(g, q) \/ q = o
    BY <2>1 DEF SubscriptionTypeOK, Billing
  <2> HIDE DEF o
  <2> QED
    BY <2>1, <2>2 DEF BillInv
<1>4. ASSUME NEW h \in Handlers, BillCycle(h) PROVE BillInv'
  <2> DEFINE o == job[h].note[1]
  <2>1. /\ UNCHANGED <<job, unchecked>> /\ pc' = [pc EXCEPT ![h] = "done"]
        /\ billed' = billed \/ billed' = [billed EXCEPT ![o] = @ + 1]
        /\ Billing(h, o) /\ o \in Orders
    BY <1>4 DEF SubscriptionTypeOK, BillCycle, Goto, Billing
  <2>2. \A g \in Handlers, q \in Orders : Billing(g, q)' => Billing(g, q) /\ g # h
    BY <2>1 DEF SubscriptionTypeOK, Billing
  <2> HIDE DEF o
  <2>3. o \in unchecked \/ billed[o] = 0
    BY <2>1 DEF BillInv
  <2>4. \A q \in Orders \ unchecked : billed'[q] <= 1 /\ (q # o => billed'[q] = billed[q])
    BY <2>1, <2>3 DEF SubscriptionTypeOK, BillInv
  <2> QED
    BY <2>1, <2>2, <2>4 DEF BillInv
<1>5. ASSUME NEW h \in Handlers,
             \/ HandlerStep(h) /\ ~CheckBilled(h) /\ ~BillCycle(h)
             \/ Failure(h) /\ ~CheckFails(h)
             \/ CancelSubscription(h)
             \/ \E n \in Notes : Claim(h, n)
      PROVE  BillInv'
  <2>1. /\ UNCHANGED <<billed, unchecked>>
        /\ \E place \in {"idle"} \cup Applying \cup Canceling :
              place # "unbilled" /\ pc' = [pc EXCEPT ![h] = place]
        /\ \A g \in Handlers \ {h} : job'[g] = job[g]
    BY <1>5 DEF HandlerStep, Failure, CancelSubscription, Claim, FindByAuthPI,
       RegisterSchedule, PutActive, PayInvoice, AnnounceActive, FindByGatewayID, Commit,
       StopSchedule, PutCanceled, AnnounceCanceled, RegisterFails, NoInvoice, LookupFails,
       StopFails, Abandon, Goto, Finish, SubscriptionTypeOK
  <2>2. \A g \in Handlers, o \in Orders : Billing(g, o)' => Billing(g, o)
    BY <2>1 DEF SubscriptionTypeOK, Billing
  <2> QED
    BY <2>1, <2>2, BillFrame
<1> QED
  BY <1>1, <1>2, <1>3, <1>4, <1>5 DEF Next, HandlerStep, Failure

\* A charge is invoiced once, whichever of its notifications are repeated or fail,
\* unless two were checked at once or a check failed.
THEOREM CyclesAreBilledOnce == Spec => []CycleBilledOnce
<1>1. Init => BillInv
  BY DEF Init, BillInv, Billing
<1>2. BillInv => CycleBilledOnce
  BY DEF BillInv, CycleBilledOnce
<1> QED
  BY <1>1, <1>2, StepBillInv, SubscriptionTypeCorrect, PTL DEF Spec

-----------------------------------------------------------------------------
(* The row. *)

\* Until two of them overlap, one handler at most is between reading the row and
\* writing it: what it read is what the row still says.
RowInv ==
    ~overlapped =>
        /\ \A g, h \in Handlers : pc[g] \in HoldsRead /\ pc[h] \in HoldsRead => g = h
        /\ \A h \in Handlers :
             /\ pc[h] \in {"found", "registered"} => ~AlreadyRegistered
             /\ pc[h] \in {"read", "stopped"} => job[h].gateway = row.gateway

\* A step that neither changes the row nor reads it keeps the invariant.
LEMMA RowFrame ==
  ASSUME RowInv, UNCHANGED row, overlapped' = overlapped,
         NEW h \in Handlers,
         \A g \in Handlers \ {h} : pc'[g] = pc[g] /\ job'[g] = job[g],
         \/ pc'[h] \notin HoldsRead
         \/ pc'[h] = "registered" /\ pc[h] = "found"
         \/ pc'[h] = "stopped" /\ pc[h] = "read" /\ job'[h] = job[h]
  PROVE  RowInv'
<1>1. \A g \in Handlers : pc'[g] \in HoldsRead => pc[g] \in HoldsRead
  BY DEF HoldsRead
<1>2. AlreadyRegistered' = AlreadyRegistered
  BY DEF AlreadyRegistered
<1>3. \A g \in Handlers :
        /\ pc'[g] \in {"found", "registered"} => pc[g] \in {"found", "registered"}
        /\ pc'[g] \in {"read", "stopped"} =>
             pc[g] \in {"read", "stopped"} /\ job'[g] = job[g]
  BY DEF HoldsRead
<1> QED
  BY <1>1, <1>2, <1>3 DEF RowInv

\* A handler that reads the row while no other one is at it is the only one.
LEMMA RowRead ==
  ASSUME SubscriptionTypeOK, RowInv, UNCHANGED row, NEW h \in Handlers,
         \A g \in Handlers \ {h} : pc'[g] = pc[g],
         overlapped' = (overlapped \/ ReadElsewhere(h)),
         \/ pc'[h] = "found" /\ ~AlreadyRegistered
         \/ pc'[h] = "read" /\ job'[h].gateway = row.gateway
  PROVE  RowInv'
<1> SUFFICES ASSUME ~overlapped' PROVE RowInv'
  BY DEF RowInv
<1>1. \A g \in Handlers : pc'[g] \in HoldsRead => g = h
  BY DEF ReadElsewhere
<1>2. AlreadyRegistered' = AlreadyRegistered
  BY DEF AlreadyRegistered
<1> QED
  BY <1>1, <1>2 DEF RowInv, HoldsRead

\* A handler that writes the row was the only one to have read it.
LEMMA RowWrite ==
  ASSUME SubscriptionTypeOK, RowInv, NEW h \in Handlers, overlapped' = overlapped,
         \A g \in Handlers \ {h} : pc'[g] = pc[g],
         pc[h] \in HoldsRead, pc'[h] \notin HoldsRead
  PROVE  RowInv'
<1> SUFFICES ASSUME ~overlapped PROVE \A g \in Handlers : pc'[g] \notin HoldsRead
  BY DEF RowInv, HoldsRead
<1> QED
  BY DEF RowInv

\* Every step keeps the invariant.
LEMMA StepRowInv == SubscriptionTypeOK /\ RowInv /\ [Next]_vars => RowInv'
<1> SUFFICES ASSUME SubscriptionTypeOK, RowInv, [Next]_vars PROVE RowInv'
  OBVIOUS
<1>1. CASE CreateSubscription
  <2>1. /\ UNCHANGED <<pc, job, overlapped>>
        /\ row'.gateway = 0 /\ row'.status \in {"absent", "incomplete"} /\ row.gateway = 0
    BY <1>1 DEF CreateSubscription, Created
  <2>2. ~AlreadyRegistered'
    BY <2>1 DEF AlreadyRegistered
  <2> QED
    BY <2>1, <2>2 DEF RowInv
<1>2. CASE SaveCard \/ (\E o \in Orders : Charge(o)) \/ UNCHANGED vars
  <2>1. UNCHANGED <<row, pc, job, overlapped>>
    BY <1>2 DEF SaveCard, Charge, vars
  <2> QED
    BY <2>1 DEF RowInv, AlreadyRegistered
<1>3. ASSUME NEW h \in Handlers, FindByAuthPI(h), pc'[h] = "found" PROVE RowInv'
  <2>1. /\ UNCHANGED row /\ \A g \in Handlers \ {h} : pc'[g] = pc[g]
        /\ ~AlreadyRegistered /\ overlapped' = (overlapped \/ ReadElsewhere(h))
    BY <1>3 DEF SubscriptionTypeOK, FindByAuthPI, Goto
  <2> QED
    BY <1>3, <2>1, RowRead
<1>4. ASSUME NEW h \in Handlers, CancelSubscription(h) PROVE RowInv'
  <2>1. /\ UNCHANGED row /\ \A g \in Handlers \ {h} : pc'[g] = pc[g]
        /\ pc'[h] = "read" /\ job'[h].gateway = row.gateway
        /\ overlapped' = (overlapped \/ ReadElsewhere(h))
    BY <1>4 DEF SubscriptionTypeOK, CancelSubscription, Goto
  <2> QED
    BY <2>1, RowRead
<1>5. ASSUME NEW h \in Handlers, PutActive(h) \/ PutCanceled(h) PROVE RowInv'
  <2>1. /\ overlapped' = overlapped /\ \A g \in Handlers \ {h} : pc'[g] = pc[g]
        /\ pc[h] \in HoldsRead /\ pc'[h] \notin HoldsRead
    BY <1>5 DEF SubscriptionTypeOK, PutActive, PutCanceled, Goto, HoldsRead
  <2> QED
    BY <2>1, RowWrite
<1>6. ASSUME NEW h \in Handlers, RegisterSchedule(h) PROVE RowInv'
  <2>1. /\ UNCHANGED <<row, overlapped>>
        /\ \A g \in Handlers \ {h} : pc'[g] = pc[g] /\ job'[g] = job[g]
        /\ pc'[h] = "registered" /\ pc[h] = "found"
    BY <1>6 DEF SubscriptionTypeOK, RegisterSchedule, Goto
  <2> QED
    BY <2>1, RowFrame
<1>7. ASSUME NEW h \in Handlers, StopSchedule(h) PROVE RowInv'
  <2>1. /\ UNCHANGED <<row, job, overlapped>>
        /\ \A g \in Handlers \ {h} : pc'[g] = pc[g]
        /\ pc'[h] = "stopped" /\ pc[h] = "read"
    BY <1>7 DEF SubscriptionTypeOK, StopSchedule, Goto
  <2> QED
    BY <2>1, RowFrame
<1>8. ASSUME NEW h \in Handlers,
             \/ FindByAuthPI(h) /\ pc'[h] # "found"
             \/ PayInvoice(h) \/ AnnounceActive(h) \/ FindByGatewayID(h)
             \/ CheckBilled(h) \/ BillCycle(h) \/ Commit(h) \/ AnnounceCanceled(h)
             \/ Failure(h)
             \/ \E n \in Notes : Claim(h, n)
      PROVE  RowInv'
  <2>1. /\ UNCHANGED <<row, overlapped>>
        /\ \A g \in Handlers \ {h} : pc'[g] = pc[g] /\ job'[g] = job[g]
        /\ pc'[h] \notin HoldsRead
    BY <1>8 DEF SubscriptionTypeOK, FindByAuthPI, PayInvoice, AnnounceActive,
       FindByGatewayID, CheckBilled, BillCycle, Commit, AnnounceCanceled, Failure,
       RegisterFails, NoInvoice, LookupFails, CheckFails, StopFails, Abandon, Claim,
       Goto, Finish, HoldsRead
  <2> QED
    BY <2>1, RowFrame
<1> QED
  BY <1>1, <1>2, <1>3, <1>4, <1>5, <1>6, <1>7, <1>8 DEF Next, HandlerStep

LEMMA InitRowInv == Init => RowInv
  BY DEF Init, RowInv, HoldsRead

\* Only a handler that has registered a schedule makes the row active.
LEMMA OnlyPutActive ==
  ASSUME SubscriptionTypeOK, Next, row.status = "canceled", row'.status # "canceled"
  PROVE  \E h \in Handlers : pc[h] = "registered" /\ overlapped' = overlapped
<1>1. ASSUME NEW h \in Handlers, ~PutActive(h),
             \/ HandlerStep(h) \/ Failure(h) \/ CancelSubscription(h)
             \/ \E n \in Notes : Claim(h, n)
      PROVE  FALSE
  BY <1>1 DEF HandlerStep, Failure, CancelSubscription, Claim, FindByAuthPI,
     RegisterSchedule, PayInvoice, AnnounceActive, FindByGatewayID, CheckBilled, BillCycle,
     Commit, StopSchedule, PutCanceled, PutRow, AnnounceCanceled, RegisterFails, NoInvoice,
     LookupFails, CheckFails, StopFails, Abandon
<1>2. ~CreateSubscription /\ ~SaveCard /\ ~(\E o \in Orders : Charge(o))
  BY DEF CreateSubscription, Created, SaveCard, Charge
<1>3. PICK h \in Handlers : PutActive(h)
  BY <1>1, <1>2 DEF Next
<1> QED
  BY <1>3 DEF PutActive

\* A canceled subscription whose schedule was stopped is never active again, unless a
\* notification had read the row before the cancel wrote it.
THEOREM CanceledForGood == Spec => CanceledStaysCanceled
<1>1. SubscriptionTypeOK /\ RowInv /\ [Next]_vars =>
        [row.status = "canceled" /\ row.gateway # 0 /\ ~overlapped
           => row'.status = "canceled"]_vars
  <2> SUFFICES ASSUME SubscriptionTypeOK, RowInv, Next, row.status = "canceled",
                      row.gateway # 0, ~overlapped, row'.status # "canceled"
               PROVE  FALSE
    BY DEF vars
  <2>1. PICK h \in Handlers : pc[h] = "registered"
    BY OnlyPutActive
  <2> QED
    BY <2>1 DEF RowInv, AlreadyRegistered
<1> QED
  BY <1>1, InitRowInv, StepRowInv, SubscriptionTypeCorrect, PTL DEF Spec, CanceledStaysCanceled

-----------------------------------------------------------------------------
(* Schedules that charge and that no row and no handler knows. *)

Stray == running \ (InHand \cup {row.gateway})

StrayInv == ~overlapped => Cardinality(Stray) <= faults

\* They are among the schedules the provider has registered.
LEMMA StrayFinite == SubscriptionTypeOK => IsFiniteSet(Stray) /\ Cardinality(Stray) \in Nat
<1> SUFFICES ASSUME SubscriptionTypeOK
             PROVE  IsFiniteSet(Stray) /\ Cardinality(Stray) \in Nat
  OBVIOUS
<1>1. IsFiniteSet(1..registered)
  BY FS_Interval DEF SubscriptionTypeOK
<1>2. Stray \subseteq 1..registered
  BY DEF SubscriptionTypeOK, Stray
<1>3. IsFiniteSet(Stray)
  BY <1>1, <1>2, FS_Subset
<1> QED
  BY <1>3, FS_CardinalityType

\* A step loses track of no schedule, or of one by a fault.
LEMMA StrayStep ==
  ASSUME SubscriptionTypeOK, SubscriptionTypeOK', StrayInv, overlapped => overlapped',
         \/ ~overlapped' => Stray' \subseteq Stray /\ faults' >= faults
         \/ \E g : Stray' \subseteq Stray \cup {g} /\ faults' = faults + 1
  PROVE  StrayInv'
<1> SUFFICES ASSUME ~overlapped' PROVE Cardinality(Stray)' <= faults'
  BY DEF StrayInv
<1>1. IsFiniteSet(Stray) /\ Cardinality(Stray) \in Nat /\ Cardinality(Stray) <= faults
  BY StrayFinite DEF StrayInv
<1>2. faults \in Nat /\ faults' \in Nat
  BY DEF SubscriptionTypeOK
<1>3. CASE Stray' \subseteq Stray /\ faults' >= faults
  <2>1. IsFiniteSet(Stray') /\ Cardinality(Stray') <= Cardinality(Stray)
    BY <1>1, <1>3, FS_Subset
  <2>2. Cardinality(Stray') \in Nat
    BY <2>1, FS_CardinalityType
  <2> QED
    BY <1>1, <1>2, <1>3, <2>1, <2>2
<1>4. ASSUME NEW g, Stray' \subseteq Stray \cup {g}, faults' = faults + 1
      PROVE  Cardinality(Stray)' <= faults'
  <2>1. /\ IsFiniteSet(Stray \cup {g})
        /\ \/ Cardinality(Stray \cup {g}) = Cardinality(Stray)
           \/ Cardinality(Stray \cup {g}) = Cardinality(Stray) + 1
    BY <1>1, FS_AddElement, Zenon
  <2>2. IsFiniteSet(Stray') /\ Cardinality(Stray') <= Cardinality(Stray \cup {g})
    BY <1>4, <2>1, FS_Subset
  <2>3. Cardinality(Stray') \in Nat
    BY <2>2, FS_CardinalityType
  <2> QED
    BY <1>1, <1>2, <1>4, <2>1, <2>2, <2>3
<1> QED
  BY <1>3, <1>4

\* What a handler has registered it keeps in hand while it stays where it is.
LEMMA HandKept ==
  ASSUME NEW h \in Handlers, pc[h] # "registered",
         \A g \in Handlers \ {h} : pc'[g] = pc[g] /\ job'[g] = job[g]
  PROVE  InHand \subseteq InHand'
<1>1. ASSUME NEW g \in Handlers, pc[g] = "registered" PROVE job[g].gateway \in InHand'
  <2>1. pc'[g] = "registered" /\ job'[g] = job[g]
    BY <1>1
  <2> QED
    BY <2>1 DEF InHand
<1> QED
  BY <1>1 DEF InHand

\* A handler lets go of the one schedule that it has registered.
LEMMA HandReleased ==
  ASSUME NEW h \in Handlers,
         \A g \in Handlers \ {h} : pc'[g] = pc[g] /\ job'[g] = job[g]
  PROVE  InHand \subseteq InHand' \cup {job[h].gateway}
<1>1. ASSUME NEW g \in Handlers \ {h}, pc[g] = "registered"
      PROVE  job[g].gateway \in InHand'
  <2>1. pc'[g] = "registered" /\ job'[g] = job[g]
    BY <1>1
  <2> QED
    BY <2>1 DEF InHand
<1> QED
  BY <1>1 DEF InHand

\* Every step keeps the invariant.
LEMMA StepStrayInv ==
  SubscriptionTypeOK /\ SubscriptionTypeOK' /\ RowInv /\ StrayInv /\ [Next]_vars => StrayInv'
<1> SUFFICES ASSUME SubscriptionTypeOK, SubscriptionTypeOK', RowInv, StrayInv, [Next]_vars
             PROVE  StrayInv'
  OBVIOUS
<1>0. faults \in Nat
  BY DEF SubscriptionTypeOK
<1>1. CASE CreateSubscription
  <2>1. /\ UNCHANGED <<running, pc, job, overlapped>> /\ row'.gateway = row.gateway
        /\ faults' >= faults
    BY <1>0, <1>1 DEF CreateSubscription, Created, Fault
  <2>2. Stray' = Stray
    BY <2>1 DEF Stray, InHand
  <2> QED
    BY <2>1, <2>2, StrayStep
<1>2. CASE SaveCard \/ (\E o \in Orders : Charge(o)) \/ UNCHANGED vars
  <2>1. UNCHANGED <<row, running, pc, job, overlapped, faults>>
    BY <1>2 DEF SaveCard, Charge, vars
  <2>2. Stray' = Stray
    BY <2>1 DEF Stray, InHand
  <2> QED
    BY <1>0, <2>1, <2>2, StrayStep
<1>3. ASSUME NEW h \in Handlers, RegisterSchedule(h) PROVE StrayInv'
  <2>1. /\ UNCHANGED <<row, overlapped, faults>> /\ pc[h] # "registered"
        /\ \A g \in Handlers \ {h} : pc'[g] = pc[g] /\ job'[g] = job[g]
        /\ running' = running \cup {registered'}
        /\ pc'[h] = "registered" /\ job'[h].gateway = registered'
    BY <1>3 DEF SubscriptionTypeOK, RegisterSchedule, Register, Goto
  <2>2. InHand \subseteq InHand' /\ registered' \in InHand'
    BY <2>1, HandKept DEF InHand
  <2>3. Stray' \subseteq Stray
    BY <2>1, <2>2 DEF Stray
  <2> QED
    BY <1>0, <2>1, <2>3, StrayStep
<1>4. ASSUME NEW h \in Handlers, RegisterFails(h) PROVE StrayInv'
  <2>1. /\ UNCHANGED <<row, overlapped>> /\ pc[h] # "registered"
        /\ \A g \in Handlers \ {h} : pc'[g] = pc[g] /\ job'[g] = job[g]
        /\ \/ UNCHANGED <<running, faults>>
           \/ running' = running \cup {registered'} /\ faults' = faults + 1
    BY <1>4 DEF SubscriptionTypeOK, RegisterFails, Register, Goto, Fault
  <2>2. InHand \subseteq InHand'
    BY <2>1, HandKept
  <2>3. \/ Stray' \subseteq Stray /\ faults' = faults
        \/ \E g : Stray' \subseteq Stray \cup {g} /\ faults' = faults + 1
    BY <2>1, <2>2 DEF Stray
  <2>4. overlapped => overlapped'
    BY <2>1
  <2>5. CASE Stray' \subseteq Stray /\ faults' = faults
    BY <1>0, <2>4, <2>5, StrayStep
  <2>6. CASE \E g : Stray' \subseteq Stray \cup {g} /\ faults' = faults + 1
    BY <2>4, <2>6, StrayStep
  <2> QED
    BY <2>3, <2>5, <2>6
<1>5. ASSUME NEW h \in Handlers, PutActive(h) PROVE StrayInv'
  <2>1. /\ overlapped' = overlapped /\ running' = running
        /\ \A g \in Handlers \ {h} : pc'[g] = pc[g] /\ job'[g] = job[g]
        /\ pc[h] = "registered"
        /\ \/ row'.gateway = job[h].gateway /\ faults' = faults
           \/ row' = row /\ faults' = faults + 1
    BY <1>5 DEF SubscriptionTypeOK, PutActive, PutRow, Goto, Fault
  <2>2. InHand \subseteq InHand' \cup {job[h].gateway}
    BY <2>1, HandReleased
  <2>3. CASE row'.gateway = job[h].gateway /\ faults' = faults
    <3>1. ~overlapped => row.gateway = 0
      BY <2>1 DEF RowInv, AlreadyRegistered
    <3>2. 0 \notin running
      BY DEF SubscriptionTypeOK
    <3>3. ~overlapped => Stray' \subseteq Stray
      BY <2>1, <2>2, <2>3, <3>1, <3>2 DEF Stray
    <3> QED
      BY <1>0, <2>1, <2>3, <3>3, StrayStep
  <2>4. CASE row' = row /\ faults' = faults + 1
    <3>1. Stray' \subseteq Stray \cup {job[h].gateway}
      BY <2>1, <2>2, <2>4 DEF Stray
    <3> QED
      BY <2>1, <2>4, <3>1, StrayStep
  <2> QED
    BY <2>1, <2>3, <2>4
<1>6. ASSUME NEW h \in Handlers, PutCanceled(h) PROVE StrayInv'
  <2>1. /\ overlapped' = overlapped /\ running' = running /\ faults' >= faults
        /\ \A g \in Handlers \ {h} : pc'[g] = pc[g] /\ job'[g] = job[g]
        /\ pc[h] = "stopped"
        /\ row'.gateway = job[h].gateway \/ row' = row
    BY <1>0, <1>6 DEF SubscriptionTypeOK, PutCanceled, PutRow, Goto, Fault
  <2>2. ~overlapped => row'.gateway = row.gateway
    BY <2>1 DEF RowInv
  <2>3. InHand \subseteq InHand'
    BY <2>1, HandKept
  <2>4. ~overlapped => Stray' \subseteq Stray
    BY <2>1, <2>2, <2>3 DEF Stray
  <2> QED
    BY <2>1, <2>4, StrayStep
<1>7. ASSUME NEW h \in Handlers, StopSchedule(h) \/ StopFails(h) PROVE StrayInv'
  <2>1. /\ UNCHANGED <<row, overlapped>> /\ running' \subseteq running /\ faults' >= faults
        /\ \A g \in Handlers \ {h} : pc'[g] = pc[g] /\ job'[g] = job[g]
        /\ pc[h] # "registered"
    BY <1>0, <1>7 DEF SubscriptionTypeOK, StopSchedule, StopFails, Goto, Finish, Fault
  <2>2. Stray' \subseteq Stray
    BY <2>1, HandKept DEF Stray
  <2> QED
    BY <2>1, <2>2, StrayStep
<1>8. ASSUME NEW h \in Handlers, Abandon(h) PROVE StrayInv'
  <2>1. /\ UNCHANGED <<row, running, overlapped>> /\ faults' = faults + 1
        /\ \A g \in Handlers \ {h} : pc'[g] = pc[g] /\ job'[g] = job[g]
    BY <1>8 DEF SubscriptionTypeOK, Abandon, Finish, Fault
  <2>2. Stray' \subseteq Stray \cup {job[h].gateway}
    BY <2>1, HandReleased DEF Stray
  <2> QED
    BY <2>1, <2>2, StrayStep
<1>9. ASSUME NEW h \in Handlers,
             \/ FindByAuthPI(h) \/ PayInvoice(h) \/ NoInvoice(h) \/ AnnounceActive(h)
             \/ FindByGatewayID(h) \/ CheckBilled(h) \/ CheckFails(h) \/ BillCycle(h)
             \/ LookupFails(h) \/ Commit(h) \/ AnnounceCanceled(h)
             \/ CancelSubscription(h)
             \/ \E n \in Notes : Claim(h, n)
      PROVE  StrayInv'
  <2>1. /\ UNCHANGED <<row, running>> /\ pc[h] # "registered"
        /\ \A g \in Handlers \ {h} : pc'[g] = pc[g] /\ job'[g] = job[g]
    BY <1>9 DEF SubscriptionTypeOK, FindByAuthPI, PayInvoice, NoInvoice, AnnounceActive,
       FindByGatewayID, CheckBilled, CheckFails, BillCycle, LookupFails, Commit,
       AnnounceCanceled, CancelSubscription, Claim, Goto, Finish
  <2>2. faults' = faults \/ faults' = faults + 1
    BY <1>9 DEF FindByAuthPI, PayInvoice, NoInvoice, AnnounceActive,
       FindByGatewayID, CheckBilled, CheckFails, BillCycle, LookupFails, Commit,
       AnnounceCanceled, CancelSubscription, Claim, PutIntent, PutInvoice, Enqueue, Fault
  <2>3. overlapped => overlapped'
    BY <1>9 DEF FindByAuthPI, PayInvoice, NoInvoice, AnnounceActive,
       FindByGatewayID, CheckBilled, CheckFails, BillCycle, LookupFails, Commit,
       AnnounceCanceled, CancelSubscription, Claim
  <2>4. Stray' \subseteq Stray
    BY <2>1, HandKept DEF Stray
  <2> QED
    BY <1>0, <2>2, <2>3, <2>4, StrayStep
<1> QED
  BY <1>1, <1>2, <1>3, <1>4, <1>5, <1>6, <1>7, <1>8, <1>9 DEF Next, HandlerStep, Failure

\* Every schedule that charges without the row knowing it takes a crash or an error,
\* or a row that changed between a handler's read and its write.
THEOREM StrayClocksTakeFaults == Spec => []NoStrayClock
<1>1. Init => StrayInv
  <2> SUFFICES ASSUME Init PROVE Cardinality(Stray) = 0 /\ faults = 0
    BY DEF StrayInv
  <2>1. Stray = {}
    BY DEF Init, Stray
  <2> QED
    BY <2>1, FS_EmptySet DEF Init
<1>2. StrayInv => NoStrayClock
  BY DEF StrayInv, NoStrayClock, Stray
<1> QED
  BY <1>1, <1>2, InitRowInv, StepRowInv, StepStrayInv, SubscriptionTypeCorrect, PTL DEF Spec

-----------------------------------------------------------------------------
(* The tables and the events. *)

\* The row knows of a schedule, or a cancel that is to write it back does.
Bound ==
    \/ row.gateway # 0 \/ row.status = "active"
    \/ \E h \in Handlers : pc[h] \in {"read", "stopped"} /\ job[h].gateway # 0

Tables ==
    /\ row.status = "absent" <=> intent = "absent"
    /\ row.status = "absent" <=> invoice = "absent"

\* What the handlers at their places have seen to.
Progress ==
    \A h \in Handlers :
        /\ pc[h] \in HoldsRead \cup {"stored", "invoiced"} => row.status # "absent"
        /\ pc[h] \in {"found", "registered", "stored", "invoiced"} => intent = "succeeded"
        /\ pc[h] = "invoiced" => invoice = "paid"

\* What is not true of the tables and the events yet is about to be made true.
Owed ==
    /\ Bound => /\ intent = "succeeded"
                /\ invoice = "paid" \/ \E h \in Handlers : pc[h] = "stored"
    /\ row.status = "active" =>
         "updated" \in told \/ \E h \in Handlers : pc[h] \in {"stored", "invoiced"}
    /\ row.status = "canceled" =>
         "deleted" \in told \/ \E h \in Handlers : pc[h] = "canceled"

AgreeInv == faults = 0 => Tables /\ Progress /\ Owed

\* A step that touches no table, and of whose handler nothing is owed.
LEMMA AgreeFrame ==
  ASSUME Tables, Progress, Owed, UNCHANGED <<row, intent, invoice, told>>,
         NEW h \in Handlers,
         \A g \in Handlers \ {h} : pc'[g] = pc[g] /\ job'[g] = job[g],
         pc[h] \notin {"stored", "invoiced", "canceled"},
         \/ pc'[h] \in {"idle", "claimed", "matched", "unbilled", "done"}
         \/ pc'[h] = "registered" /\ pc[h] = "found"
         \/ pc'[h] = "stopped" /\ pc[h] = "read" /\ job'[h] = job[h]
  PROVE  Tables' /\ Progress' /\ Owed'
<1>1. Tables'
  BY DEF Tables
<1>2. Progress'
  BY DEF Progress, HoldsRead
<1>3. Bound' => Bound
  BY DEF Bound
<1>4. \A place \in {"stored", "invoiced", "canceled"} :
        \A g \in Handlers : pc[g] = place => pc'[g] = place
  OBVIOUS
<1>5. Owed'
  BY <1>3, <1>4 DEF Owed
<1> QED
  BY <1>1, <1>2, <1>5

\* Without a fault, every write is done.
LEMMA StepAgree == SubscriptionTypeOK /\ AgreeInv /\ [Next]_vars => AgreeInv'
<1> SUFFICES ASSUME SubscriptionTypeOK, AgreeInv, [Next]_vars, faults' = 0
             PROVE  Tables' /\ Progress' /\ Owed'
  BY DEF AgreeInv
<1>0. ~Fault /\ faults \in Nat
  BY DEF Fault, SubscriptionTypeOK
<1>1. CASE CreateSubscription
  <2>1. /\ row = Absent /\ intent = "absent" /\ UNCHANGED <<pc, job, told, faults>>
        /\ row' = [row EXCEPT !.status = "incomplete"]
        /\ intent' = "requires_action" /\ invoice' = "open"
    BY <1>0, <1>1 DEF CreateSubscription, Created
  <2>2. row' = [status |-> "incomplete", gateway |-> 0] /\ Tables /\ Progress /\ Owed
    BY <2>1 DEF AgreeInv
  <2>3. \A h \in Handlers : pc[h] \notin HoldsRead \cup {"stored", "invoiced"}
    BY <2>1, <2>2 DEF Progress
  <2>4. ~Bound'
    BY <2>1, <2>2, <2>3 DEF Bound, HoldsRead
  <2> QED
    BY <2>1, <2>2, <2>3, <2>4 DEF Tables, Progress, Owed, HoldsRead
<1>2. CASE SaveCard \/ (\E o \in Orders : Charge(o)) \/ UNCHANGED vars
  <2>1. UNCHANGED <<row, intent, invoice, told, pc, job, faults>>
    BY <1>2 DEF SaveCard, Charge, vars
  <2> QED
    BY <2>1 DEF AgreeInv, Tables, Progress, Owed, Bound
<1>3. ASSUME NEW h \in Handlers,
             \/ RegisterSchedule(h) \/ FindByGatewayID(h) \/ CheckBilled(h) \/ BillCycle(h)
             \/ Commit(h) \/ StopSchedule(h) \/ RegisterFails(h) \/ StopFails(h)
             \/ (\E n \in Notes : Claim(h, n))
      PROVE  Tables' /\ Progress' /\ Owed'
  <2>1. UNCHANGED <<row, intent, invoice, told>> /\ faults = 0
    BY <1>0, <1>3 DEF RegisterSchedule, FindByGatewayID, CheckBilled, BillCycle, Commit,
       StopSchedule, RegisterFails, StopFails, Claim
  <2>2. \A g \in Handlers \ {h} : pc'[g] = pc[g] /\ job'[g] = job[g]
    BY <1>3 DEF RegisterSchedule, FindByGatewayID, CheckBilled, BillCycle, Commit,
       StopSchedule, RegisterFails, StopFails, Claim, Goto, Finish, SubscriptionTypeOK
  <2>3. /\ pc[h] \notin {"stored", "invoiced", "canceled"}
        /\ \/ pc'[h] \in {"idle", "claimed", "matched", "unbilled", "done"}
           \/ pc'[h] = "registered" /\ pc[h] = "found"
           \/ pc'[h] = "stopped" /\ pc[h] = "read" /\ job'[h] = job[h]
    BY <1>3 DEF RegisterSchedule, FindByGatewayID, CheckBilled, BillCycle, Commit,
       StopSchedule, RegisterFails, StopFails, Claim, Goto, Finish, SubscriptionTypeOK
  <2> QED
    BY <2>1, <2>2, <2>3, AgreeFrame DEF AgreeInv
<1>4. ASSUME NEW h \in Handlers, FindByAuthPI(h) PROVE Tables' /\ Progress' /\ Owed'
  <2>1. /\ UNCHANGED <<row, invoice, told, job>> /\ pc[h] = "claimed"
        /\ \A g \in Handlers \ {h} : pc'[g] = pc[g]
    BY <1>4 DEF FindByAuthPI, Goto, SubscriptionTypeOK
  <2>2. CASE row.status = "absent" \/ AlreadyRegistered
    <3>1. UNCHANGED <<intent, faults>> /\ pc'[h] = "done"
      BY <1>4, <2>2 DEF FindByAuthPI, Goto, SubscriptionTypeOK
    <3> QED
      BY <2>1, <3>1, AgreeFrame DEF AgreeInv
  <2>3. CASE ~(row.status = "absent" \/ AlreadyRegistered)
    <3>1. /\ pc'[h] = "found"
          /\ IF intent = "absent" THEN UNCHANGED <<intent, faults>> ELSE PutIntent("succeeded")
      BY <1>4, <2>3 DEF FindByAuthPI, Goto, SubscriptionTypeOK
    <3>2. faults = 0
      BY <1>0, <3>1 DEF PutIntent
    <3>3. Tables /\ Progress /\ Owed
      BY <3>2 DEF AgreeInv
    <3>4. intent # "absent" /\ intent' = "succeeded"
      BY <1>0, <2>3, <3>1, <3>3 DEF Tables, PutIntent
    <3>5. Tables' /\ Progress'
      BY <2>1, <2>3, <3>1, <3>3, <3>4 DEF Tables, Progress, HoldsRead
    <3>6. Bound' => Bound
      BY <2>1, <3>1 DEF Bound
    <3>7. Owed'
      BY <2>1, <3>1, <3>3, <3>4, <3>6 DEF Owed
    <3> QED
      BY <3>5, <3>7
  <2> QED
    BY <2>2, <2>3
<1>5. ASSUME NEW h \in Handlers, PutActive(h) PROVE Tables' /\ Progress' /\ Owed'
  <2>1. /\ row' = [status |-> "active", gateway |-> job[h].gateway] /\ faults = 0
        /\ UNCHANGED <<intent, invoice, told>> /\ pc[h] = "registered" /\ pc'[h] = "stored"
        /\ \A g \in Handlers \ {h} : pc'[g] = pc[g]
    BY <1>0, <1>5 DEF PutActive, PutRow, Goto, SubscriptionTypeOK
  <2>2. Tables /\ Progress /\ Owed /\ row.status # "absent" /\ intent = "succeeded"
    BY <2>1 DEF AgreeInv, Progress, HoldsRead
  <2>3. Tables' /\ Progress'
    BY <2>1, <2>2 DEF Tables, Progress, HoldsRead
  <2>4. Owed'
    BY <2>1, <2>2 DEF Owed
  <2> QED
    BY <2>3, <2>4
<1>6. ASSUME NEW h \in Handlers, PayInvoice(h) PROVE Tables' /\ Progress' /\ Owed'
  <2>1. /\ UNCHANGED <<row, intent, told, job>> /\ faults = 0 /\ invoice # "absent"
        /\ invoice' = "paid" /\ pc[h] = "stored" /\ pc'[h] = "invoiced"
        /\ \A g \in Handlers \ {h} : pc'[g] = pc[g]
    BY <1>0, <1>6 DEF PayInvoice, PutInvoice, Settled, Goto, SubscriptionTypeOK
  <2>2. Tables /\ Progress /\ Owed
    BY <2>1 DEF AgreeInv
  <2>3. Tables' /\ Progress'
    BY <2>1, <2>2 DEF Tables, Progress, HoldsRead
  <2>4. Bound' => Bound
    BY <2>1 DEF Bound
  <2>5. Owed'
    BY <2>1, <2>2, <2>4 DEF Owed
  <2> QED
    BY <2>3, <2>5
<1>7. ASSUME NEW h \in Handlers, NoInvoice(h) PROVE FALSE
  <2>1. pc[h] = "stored" /\ invoice = "absent" /\ faults = 0
    BY <1>0, <1>7 DEF NoInvoice
  <2> QED
    BY <2>1 DEF AgreeInv, Tables, Progress
<1>8. ASSUME NEW h \in Handlers, AnnounceActive(h) PROVE Tables' /\ Progress' /\ Owed'
  <2>1. /\ UNCHANGED <<row, intent, invoice, job>> /\ faults = 0
        /\ told' = told \cup {"updated"} /\ pc[h] = "invoiced" /\ pc'[h] = "done"
        /\ \A g \in Handlers \ {h} : pc'[g] = pc[g]
    BY <1>0, <1>8 DEF AnnounceActive, Enqueue, Goto, SubscriptionTypeOK
  <2>2. Tables /\ Progress /\ Owed
    BY <2>1 DEF AgreeInv
  <2>3. Tables' /\ Progress'
    BY <2>1, <2>2 DEF Tables, Progress, HoldsRead
  <2>4. Bound' => Bound
    BY <2>1 DEF Bound
  <2>5. Owed'
    BY <2>1, <2>2, <2>4 DEF Owed, Progress
  <2> QED
    BY <2>3, <2>5
<1>9. ASSUME NEW h \in Handlers, CancelSubscription(h) PROVE Tables' /\ Progress' /\ Owed'
  <2>1. /\ UNCHANGED <<row, intent, invoice, told, faults>> /\ row.status # "absent"
        /\ pc[h] = "idle" /\ pc'[h] = "read" /\ job'[h].gateway = row.gateway
        /\ \A g \in Handlers \ {h} : pc'[g] = pc[g] /\ job'[g] = job[g]
    BY <1>9 DEF CancelSubscription, Goto, SubscriptionTypeOK
  <2>2. Tables /\ Progress /\ Owed
    BY <2>1 DEF AgreeInv
  <2>3. Tables' /\ Progress'
    BY <2>1, <2>2 DEF Tables, Progress, HoldsRead
  <2>4. Bound' => Bound
    BY <2>1 DEF Bound
  <2>5. Owed'
    BY <2>1, <2>2, <2>4 DEF Owed
  <2> QED
    BY <2>3, <2>5
<1>10. ASSUME NEW h \in Handlers, PutCanceled(h) PROVE Tables' /\ Progress' /\ Owed'
  <2>1. /\ row' = [status |-> "canceled", gateway |-> job[h].gateway] /\ faults = 0
        /\ UNCHANGED <<intent, invoice, told>> /\ pc[h] = "stopped" /\ pc'[h] = "canceled"
        /\ \A g \in Handlers \ {h} : pc'[g] = pc[g] /\ job'[g] = job[g]
    BY <1>0, <1>10 DEF PutCanceled, PutRow, Goto, SubscriptionTypeOK
  <2>2. Tables /\ Progress /\ Owed /\ row.status # "absent"
    BY <2>1 DEF AgreeInv, Progress, HoldsRead
  <2>3. Tables' /\ Progress'
    BY <2>1, <2>2 DEF Tables, Progress, HoldsRead
  <2>4. Bound' => Bound
    BY <2>1 DEF Bound
  <2>5. Owed'
    BY <2>1, <2>2, <2>4 DEF Owed
  <2> QED
    BY <2>3, <2>5
<1>11. ASSUME NEW h \in Handlers, AnnounceCanceled(h) PROVE Tables' /\ Progress' /\ Owed'
  <2>1. /\ UNCHANGED <<row, intent, invoice>> /\ faults = 0
        /\ told' = told \cup {"deleted"} /\ pc[h] = "canceled" /\ pc'[h] = "idle"
        /\ \A g \in Handlers \ {h} : pc'[g] = pc[g] /\ job'[g] = job[g]
    BY <1>0, <1>11 DEF AnnounceCanceled, Enqueue, Finish, SubscriptionTypeOK
  <2>2. Tables /\ Progress /\ Owed
    BY <2>1 DEF AgreeInv
  <2>3. Tables' /\ Progress'
    BY <2>1, <2>2 DEF Tables, Progress, HoldsRead
  <2>4. Bound' => Bound
    BY <2>1 DEF Bound
  <2>5. Owed'
    BY <2>1, <2>2, <2>4 DEF Owed
  <2> QED
    BY <2>3, <2>5
<1>12. ASSUME NEW h \in Handlers, LookupFails(h) \/ CheckFails(h) \/ Abandon(h) PROVE FALSE
  BY <1>0, <1>12 DEF LookupFails, CheckFails, Abandon
<1> QED
  BY <1>1, <1>2, <1>3, <1>4, <1>5, <1>6, <1>7, <1>8, <1>9, <1>10, <1>11, <1>12
     DEF Next, HandlerStep, Failure

\* While no call and no write fails, the row, the payment intent, the first invoice and
\* the events agree whenever nothing is at work, in whatever order activations and
\* cancels wrote the row.
THEOREM TablesAgree == Spec => []SettledStateAgrees
<1>1. Init => AgreeInv
  BY DEF Init, AgreeInv, Tables, Progress, Owed, Bound, HoldsRead
<1>2. AgreeInv => SettledStateAgrees
  BY DEF AgreeInv, Owed, Bound, SettledStateAgrees, Quiet
<1> QED
  BY <1>1, <1>2, StepAgree, SubscriptionTypeCorrect, PTL DEF Spec

=============================================================================
