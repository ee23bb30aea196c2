---------------------------- MODULE GatewayProofs ----------------------------
(***************************************************************************)
(* Proofs about Gateways, for any payments, deployments, fees, words and   *)
(* faults.                                                                 *)
(*                                                                         *)
(* An intent is reported as succeeded only if an order placed for that     *)
(* payment was paid: references name their payment, so a notification      *)
(* reaches no other one, and no adapter makes a success of another word,   *)
(* nor of the answer to create.                                            *)
(*                                                                         *)
(* The row follows the provider: the table of events has the keys of just  *)
(* the notes that were heard, so that a note which comes in order is either*)
(* applied, or a repeat of one with nothing else said in between.          *)
(*                                                                         *)
(* The router's loop chooses the cheapest candidate: its recursive function*)
(* exists and is right up to each candidate, as there would be a first one *)
(* otherwise.                                                              *)
(***************************************************************************)
EXTENDS Gateways, FiniteSetTheorems, FunctionTheorems, WellFoundedInduction, TLAPS

\* What create was answered is never a success.
AnswersAreOpen == \A p \in Payments : answer[p].ok => answer[p].status # "succeeded"

\* The gateway's reference of an intent names no other payment.
RefsAreOwn ==
    \A p \in Payments : /\ gatewayRef[p].of \in {p, "none"}
                        /\ answer[p].ok => answer[p].gatewayRef.of = p

PaidInv ==
    /\ GatewaysTypeOK
    /\ AnswersAreOpen /\ RefsAreOwn /\ PaidOnlyIfPaid

WasPaid(p) ==
    \E n \in DOMAIN orders[p] : \E k \in DOMAIN orders[p][n].says :
        orders[p][n].says[k].word \in TookMoney

Order == [gw : AdapterNames, says : Seq(Notes)]

-----------------------------------------------------------------------------
(* The adapters. *)

\* An event of a note carries a reference of its payment, and is a success only if
\* the word says so.
LEMMA EventsMean ==
    ASSUME NEW g, NEW p, NEW n, NEW note, NEW event \in ParseWebhook(g, p, n, note)
    PROVE  /\ event.ref.of = p /\ event.status \in Statuses
           /\ event.status = "succeeded" => note.word \in TookMoney
BY DEF ParseWebhook, MidtransParse, XenditParse, DokuParse, MayarParse, Event, MidtransCreate,
   XenditCreate, DokuCreate, MayarCreate, PiRef, OrderRef, MidtransStatus, XenditStatus,
   DokuStatus, TookMoney, Statuses

\* What an adapter returns from create.
LEMMA CreateMeans ==
    ASSUME NEW g, NEW p, NEW n
    PROVE  /\ CreatePayment(g, p, n).gatewayRef.of = p
           /\ CreatePayment(g, p, n).status \in Statuses \ {"succeeded"}
BY DEF CreatePayment, MidtransCreate, XenditCreate, DokuCreate, MayarCreate, OrderRef,
   XenditStatus, Statuses

LEMMA FollowsAreWords ==
    ASSUME NEW g, NEW word, NEW following \in Follows(g, word)
    PROVE  following \in NoteWords
<1>1. CASE g = "midtrans"
  BY <1>1 DEF Follows, NoteWords
<1>2. CASE g = "xendit"
  BY <1>2 DEF Follows, NoteWords
<1>3. CASE g = "doku"
  BY <1>3 DEF Follows, NoteWords
<1>4. CASE g \notin {"midtrans", "xendit", "doku"}
  BY <1>4 DEF Follows, NoteWords
<1> QED
  BY <1>1, <1>2, <1>3, <1>4

LEMMA NextIsNote ==
    ASSUME NEW order \in Order, NEW word \in NoteWords
    PROVE  NextNote(order, word) \in Notes
<1>1. CASE order.says = <<>>
  BY <1>1 DEF NextNote, Notes
<1>2. CASE order.says # <<>>
  <2>1. order.says \in Seq(Notes) /\ order.says[Len(order.says)] \in Notes
    BY <1>2 DEF Order
  <2> QED
    BY <1>2, <2>1 DEF NextNote, Notes
<1> QED
  BY <1>1, <1>2

-----------------------------------------------------------------------------
(* Orders are only added, and notes to them. *)

Placed(p, g) == orders' = [orders EXCEPT ![p] = Append(@, [gw |-> g, says |-> <<>>])]
Noted(p, n, note) == orders' = [orders EXCEPT ![p][n].says = Append(@, note)]

LEMMA PlacedKeeps ==
    ASSUME orders \in [Payments -> Seq(Order)], NEW q \in Payments, NEW g \in AdapterNames,
           Placed(q, g)
    PROVE  /\ orders' \in [Payments -> Seq(Order)] /\ orders'[q] # <<>>
           /\ \A p \in Payments : orders[p] # <<>> => orders'[p] # <<>>
           /\ \A p \in Payments : WasPaid(p) => WasPaid(p)'
<1> DEFINE new == [gw |-> g, says |-> <<>>]
<1>1. new \in Order
  BY DEF Order
<1>2. \A p \in Payments : orders'[p] = IF p = q THEN Append(orders[q], new) ELSE orders[p]
  BY DEF Placed
<1>3. orders' \in [Payments -> Seq(Order)]
  BY <1>1 DEF Placed
<1> HIDE DEF new
<1>4. /\ Append(orders[q], new) # <<>>
      /\ \A n \in DOMAIN orders[q] : n \in DOMAIN Append(orders[q], new)
                                     /\ Append(orders[q], new)[n] = orders[q][n]
  BY <1>1
<1> QED
  BY <1>2, <1>3, <1>4 DEF WasPaid

LEMMA NotedKeeps ==
    ASSUME orders \in [Payments -> Seq(Order)], NEW q \in Payments, NEW n \in DOMAIN orders[q],
           NEW note \in Notes, Noted(q, n, note)
    PROVE  /\ orders' \in [Payments -> Seq(Order)]
           /\ \A p \in Payments : orders[p] # <<>> => orders'[p] # <<>>
           /\ \A p \in Payments : WasPaid(p) => WasPaid(p)'
<1> DEFINE old == orders[q][n]
           new == [old EXCEPT !.says = Append(@, note)]
<1>1. old \in Order /\ new \in Order /\ new.says = Append(old.says, note)
      /\ old.says \in Seq(Notes)
  <2>1. old \in Order
    BY DEF old
  <2> HIDE DEF old
  <2>2. old.says \in Seq(Notes) /\ Append(old.says, note) \in Seq(Notes)
    BY <2>1 DEF Order
  <2>3. new \in Order /\ new.says = Append(old.says, note)
    BY <2>1, <2>2 DEF Order
  <2> QED
    BY <2>1, <2>2, <2>3
<1>2. orders' = [orders EXCEPT ![q] = [orders[q] EXCEPT ![n] = new]]
  BY DEF Noted
<1> HIDE DEF new, old
<1>3. [orders[q] EXCEPT ![n] = new] \in Seq(Order)
  BY <1>1
<1>4. orders' \in [Payments -> Seq(Order)]
  BY <1>2, <1>3
<1>5. \A p \in Payments : DOMAIN orders'[p] = DOMAIN orders[p]
  BY <1>2
<1>6. \A p \in Payments : orders[p] # <<>> => orders'[p] # <<>>
  BY <1>4, <1>5
<1>7. ASSUME NEW p \in Payments, WasPaid(p) PROVE WasPaid(p)'
  <2>1. PICK m \in DOMAIN orders[p] : \E k \in DOMAIN orders[p][m].says :
          orders[p][m].says[k].word \in TookMoney
    BY <1>7 DEF WasPaid
  <2>2. PICK k \in DOMAIN orders[p][m].says : orders[p][m].says[k].word \in TookMoney
    BY <2>1
  <2>3. CASE p = q /\ m = n
    <3>1. k \in DOMAIN old.says /\ old.says[k].word \in TookMoney
      BY <2>2, <2>3 DEF old
    <3>2. k \in DOMAIN new.says /\ new.says[k] = old.says[k]
      BY <1>1, <3>1
    <3>3. orders'[p][m] = new
      BY <1>2, <2>3
    <3> QED
      BY <1>5, <3>1, <3>2, <3>3 DEF WasPaid
  <2>4. CASE ~(p = q /\ m = n)
    <3>1. orders'[p][m] = orders[p][m]
      BY <1>2, <2>4
    <3> QED
      BY <1>5, <2>2, <3>1 DEF WasPaid
  <2> QED
    BY <2>3, <2>4
<1> QED
  BY <1>4, <1>6, <1>7

-----------------------------------------------------------------------------
LEMMA InitPaid == Init => PaidInv
<1> SUFFICES ASSUME Init PROVE PaidInv
  OBVIOUS
<1>1. <<>> \in Seq(Order)
  OBVIOUS
<1>2. GatewaysTypeOK
  BY <1>1 DEF Init, GatewaysTypeOK, NoAnswer, Order
<1> QED
  BY <1>2, GatewayAssumption
     DEF Init, PaidInv, AnswersAreOpen, RefsAreOwn, PaidOnlyIfPaid, NoAnswer, NoRef, OrderRef

LEMMA TypedOrders == GatewaysTypeOK => orders \in [Payments -> Seq(Order)]
BY DEF GatewaysTypeOK, Order

\* The call of an adapter that places an order.
LEMMA PlaceKeeps ==
    ASSUME PaidInv, NEW p \in Payments, Call(p)
    PROVE  PaidInv'
<1> USE DEF PaidInv
<1>1. /\ pc' = [pc EXCEPT ![p] = "answered"]
      /\ UNCHANGED <<deployment, want, row, gatewayRef, seen, heard, disturbed>>
  BY DEF Call, Goto, rowVars, inboundVars
<1>2. CASE Refuse(p)
  BY <1>1, <1>2 DEF Refuse, Call, GatewaysTypeOK, AnswersAreOpen, RefsAreOwn, PaidOnlyIfPaid,
     NoAnswer
<1>3. ASSUME NEW g \in AdapterNames, NEW http, Place(p, g, http) PROVE PaidInv'
  <2> DEFINE made == CreatePayment(g, p, Len(orders[p]) + 1)
  <2>1. Placed(p, g)
    BY <1>3 DEF Place, Placed
  <2>2. /\ orders' \in [Payments -> Seq(Order)] /\ orders'[p] # <<>>
        /\ \A q \in Payments : orders[q] # <<>> => orders'[q] # <<>>
        /\ \A q \in Payments : WasPaid(q) => WasPaid(q)'
    BY <2>1, PlacedKeeps, TypedOrders
  <2>3. /\ made.gatewayRef.of = p /\ made.status \in Statuses \ {"succeeded"}
    BY CreateMeans
  <2>4. /\ DOMAIN answer' = Payments
        /\ \A q \in Payments : q # p => answer'[q] = answer[q]
        /\ answer'[p] = NoAnswer \/ answer'[p] = [ok |-> TRUE, gatewayRef |-> made.gatewayRef,
                                                  status |-> made.status]
    BY <1>3 DEF Place, GatewaysTypeOK
  <2>5. faults' \in Nat
    BY <1>3 DEF Place, GatewaysTypeOK
  <2> HIDE DEF made
  <2>6. answer'[p].ok => answer'[p].status \in Statuses \ {"succeeded"}
                         /\ answer'[p].gatewayRef.of = p
    BY <2>3, <2>4 DEF NoAnswer
  <2>7. GatewaysTypeOK'
    BY <1>1, <2>2, <2>4, <2>5, <2>6 DEF GatewaysTypeOK, Order, Call
  <2>8. AnswersAreOpen' /\ RefsAreOwn'
    BY <1>1, <2>4, <2>6 DEF AnswersAreOpen, RefsAreOwn
  <2>9. PaidOnlyIfPaid'
    BY <1>1, <2>2 DEF PaidOnlyIfPaid, WasPaid
  <2> QED
    BY <1>1, <2>7, <2>8, <2>9
<1>4. Refuse(p) \/ \E g \in AdapterNames : \E http \in {0, 200} : Place(p, g, http)
  <2>1. PICK g \in Delegates(p) :
          IF Takes(g, want[p].amount)
          THEN \/ \E http \in {0, 200} : Place(p, g, http)
               \/ orders[p] # <<>> /\ Refuse(p)
          ELSE Refuse(p)
    BY DEF Call
  <2>2. Takes(g, want[p].amount) => g \in AdapterNames
    BY GatewayAssumption DEF Takes, Delegates, GatewaysTypeOK
  <2> QED
    BY <2>1, <2>2
<1> QED
  BY <1>2, <1>3, <1>4

\* A notification reaches the payment whose order it is about, or none.
LEMMA DeliverKeeps ==
    ASSUME PaidInv, NEW p \in Payments, NEW n \in DOMAIN orders[p],
           NEW k \in DOMAIN orders[p][n].says, Deliver(p, n, k)
    PROVE  PaidInv'
<1> USE DEF PaidInv
<1>1. /\ UNCHANGED <<deployment, pc, want, answer, orders, gatewayRef, faults>>
      /\ heard' = [heard EXCEPT ![p] = @ \cup {<<n, k>>}]
      /\ disturbed' \in {disturbed, disturbed \cup {p}}
  BY DEF Deliver, createVars
<1>2. n \in Nat /\ k \in Nat
  <2>1. orders[p] \in Seq(Order) /\ orders[p][n] \in Order
    BY TypedOrders
  <2>2. orders[p][n].says \in Seq(Notes)
    BY <2>1 DEF Order
  <2> QED
    BY <2>1, <2>2
<1>3. heard' \in [Payments -> SUBSET (Nat \X Nat)] /\ disturbed' \subseteq Payments
  BY <1>1, <1>2 DEF GatewaysTypeOK
<1>4. \A q \in Payments :
        \/ row'[q] = row[q]
        \/ /\ q = p /\ row'[q] \in Statuses
           /\ row'[q] = "succeeded" => orders[p][n].says[k].word \in TookMoney
  <2>1. CASE UNCHANGED <<seen, row>>
    BY <2>1
  <2>2. ASSUME NEW event \in Meant(p, n, k), Apply(event), NEW q \in Payments,
               row'[q] # row[q]
        PROVE  /\ q = p /\ row'[q] \in Statuses
               /\ row'[q] = "succeeded" => orders[p][n].says[k].word \in TookMoney
    <3>1. q \in Found(event.ref) /\ row'[q] = event.status
      BY <2>2 DEF Apply
    <3>2. /\ event.ref.of = p /\ event.status \in Statuses
          /\ event.status = "succeeded" => orders[p][n].says[k].word \in TookMoney
      BY <2>2, EventsMean DEF Meant
    <3>3. event.ref = PiRef(q) \/ event.ref = gatewayRef[q]
      BY <3>1 DEF Found
    <3>4. q = p
      BY <3>2, <3>3, GatewayAssumption DEF PiRef, RefsAreOwn
    <3> QED
      BY <3>1, <3>2, <3>4
  <2> QED
    BY <2>1, <2>2 DEF Deliver
<1>5. DOMAIN row' = Payments
  <2>1. ASSUME NEW event, Apply(event) PROVE DOMAIN row' = Payments
    BY <2>1 DEF Apply
  <2> QED
    BY <2>1 DEF Deliver, GatewaysTypeOK
<1>6. row' \in [Payments -> Statuses \cup {"absent"}]
  <2>1. row' = [q \in Payments |-> row'[q]]
    <3>1. ASSUME NEW event, Apply(event) PROVE row' = [q \in Payments |-> row'[q]]
      BY <3>1 DEF Apply
    <3> QED
      BY <3>1 DEF Deliver, GatewaysTypeOK
  <2>2. \A q \in Payments : row'[q] \in Statuses \cup {"absent"}
    BY <1>4 DEF GatewaysTypeOK
  <2> QED
    BY <2>1, <2>2
<1>7. \A q \in Payments : row[q] # "absent" => row'[q] # "absent"
  BY <1>4 DEF Statuses
<1>8. GatewaysTypeOK'
  BY <1>1, <1>3, <1>6, <1>7 DEF GatewaysTypeOK
<1>9. PaidOnlyIfPaid'
  BY <1>1, <1>4 DEF PaidOnlyIfPaid
<1> QED
  BY <1>1, <1>8, <1>9 DEF AnswersAreOpen, RefsAreOwn

\* The steps of create that place no order.
LEMMA CreateKeeps ==
    ASSUME PaidInv, NEW p \in Payments, Begin(p) \/ Prepare(p) \/ Persist(p) \/ Again(p)
    PROVE  PaidInv'
<1> USE DEF PaidInv
<1>1. CASE Begin(p)
  <2>1. want'[p] \in Wants /\ DOMAIN want' = Payments
        /\ \A q \in Payments : q # p => want'[q] = want[q]
    BY <1>1 DEF Begin, GatewaysTypeOK
  <2> QED
    BY <1>1, <2>1 DEF Begin, Goto, rowVars, inboundVars, GatewaysTypeOK, AnswersAreOpen,
       RefsAreOwn, PaidOnlyIfPaid
<1>2. CASE Prepare(p)
  <2>1. disturbed' \subseteq Payments
    BY <1>2 DEF Prepare, GatewaysTypeOK
  <2>2. GatewaysTypeOK'
    BY <1>2, <2>1 DEF Prepare, Goto, GatewaysTypeOK, Statuses
  <2>3. RefsAreOwn'
    BY <1>2 DEF Prepare, RefsAreOwn, NoRef, OrderRef, GatewaysTypeOK
  <2>4. AnswersAreOpen' /\ PaidOnlyIfPaid'
    BY <1>2 DEF Prepare, AnswersAreOpen, PaidOnlyIfPaid, GatewaysTypeOK
  <2> QED
    BY <2>2, <2>3, <2>4
<1>3. CASE Persist(p)
  <2> DEFINE status == IF answer[p].ok THEN answer[p].status ELSE "canceled"
  <2>1. /\ UNCHANGED <<deployment, want, answer, orders, seen, heard, disturbed, faults>>
        /\ row' = [row EXCEPT ![p] = status]
        /\ \E place \in {"done", "failed"} : pc' = [pc EXCEPT ![p] = place]
    BY <1>3 DEF Persist, Goto, inboundVars
  <2>2. status \in Statuses /\ status # "succeeded"
    BY <1>3 DEF Persist, GatewaysTypeOK, AnswersAreOpen, Statuses
  <2> HIDE DEF status
  <2>3. \/ gatewayRef' = gatewayRef
        \/ answer[p].ok /\ gatewayRef' = [gatewayRef EXCEPT ![p] = answer[p].gatewayRef]
    <3>1. CASE answer[p].ok
      BY <1>3, <3>1 DEF Persist
    <3>2. CASE ~answer[p].ok
      BY <1>3, <3>2 DEF Persist
    <3> QED
      BY <3>1, <3>2
  <2>4. DOMAIN gatewayRef' = Payments /\ RefsAreOwn'
    BY <2>1, <2>3 DEF RefsAreOwn, GatewaysTypeOK
  <2>5. GatewaysTypeOK'
    <3>1. row' \in [Payments -> Statuses \cup {"absent"}] /\ \A q \in Payments :
            row'[q] = "absent" => row[q] = "absent"
      BY <2>1, <2>2 DEF GatewaysTypeOK, Statuses
    <3>2. /\ pc' \in [Payments -> {"new", "preparing", "calling", "answered", "done", "failed"}]
          /\ \A q \in Payments : pc'[q] = "answered" => pc[q] = "answered"
          /\ \A q \in Payments :
               pc'[q] = pc[q] \/ (pc[q] = "answered" /\ pc'[q] \in {"done", "failed"})
      BY <1>3, <2>1 DEF Persist, GatewaysTypeOK
    <3> QED
      BY <2>1, <2>4, <3>1, <3>2 DEF GatewaysTypeOK
  <2>6. AnswersAreOpen' /\ PaidOnlyIfPaid'
    BY <2>1, <2>2 DEF AnswersAreOpen, PaidOnlyIfPaid, GatewaysTypeOK
  <2> QED
    BY <2>4, <2>5, <2>6
<1>4. CASE Again(p)
  <2>1. /\ UNCHANGED <<deployment, want, answer, orders, row, gatewayRef, seen, heard, disturbed>>
        /\ pc' = [pc EXCEPT ![p] = "preparing"] /\ faults' = faults + 1
        /\ pc[p] \in {"calling", "answered", "failed"}
    BY <1>4 DEF Again, Goto, rowVars, inboundVars
  <2>2. /\ pc' \in [Payments -> {"new", "preparing", "calling", "answered", "done", "failed"}]
        /\ \A q \in Payments :
             pc'[q] = pc[q] \/ (pc[q] # "new" /\ pc'[q] = "preparing")
        /\ faults' \in Nat
    BY <2>1 DEF GatewaysTypeOK
  <2>3. GatewaysTypeOK'
    BY <2>1, <2>2 DEF GatewaysTypeOK
  <2> QED
    BY <2>1, <2>3 DEF AnswersAreOpen, RefsAreOwn, PaidOnlyIfPaid
<1> QED
  BY <1>1, <1>2, <1>3, <1>4

\* A provider's word about one of its orders.
LEMMA WordKeeps ==
    ASSUME PaidInv, NEW p \in Payments, NEW n \in DOMAIN orders[p],
           ProviderSays(p, n) \/ Refund(p, n)
    PROVE  PaidInv'
<1> USE DEF PaidInv
<1>1. orders[p][n] \in Order
  BY TypedOrders
<1>2. \E note \in Notes : Noted(p, n, note)
  <2>1. CASE ProviderSays(p, n)
    <3>1. PICK word \in Follows(orders[p][n].gw, LastWord(orders[p][n])) :
            Noted(p, n, NextNote(orders[p][n], word))
      BY <2>1 DEF ProviderSays, Noted
    <3> QED
      BY <1>1, <3>1, FollowsAreWords, NextIsNote
  <2>2. CASE Refund(p, n)
    <3>1. PICK word \in {"refund", "partial_refund"} :
            Noted(p, n, NextNote(orders[p][n], word))
      BY <2>2 DEF Refund, Noted
    <3> QED
      BY <1>1, <3>1, NextIsNote DEF NoteWords
  <2> QED
    BY <2>1, <2>2
<1>3. /\ orders' \in [Payments -> Seq(Order)]
      /\ \A q \in Payments : orders[q] # <<>> => orders'[q] # <<>>
      /\ \A q \in Payments : WasPaid(q) => WasPaid(q)'
  BY <1>2, NotedKeeps, TypedOrders
<1>4. UNCHANGED <<deployment, pc, want, answer, row, gatewayRef, seen, heard, disturbed, faults>>
  BY DEF ProviderSays, Refund, createVars, rowVars, inboundVars
<1>5. GatewaysTypeOK'
  BY <1>3, <1>4 DEF GatewaysTypeOK, Order
<1>6. PaidOnlyIfPaid'
  BY <1>3, <1>4 DEF PaidOnlyIfPaid, WasPaid
<1> QED
  BY <1>4, <1>5, <1>6 DEF AnswersAreOpen, RefsAreOwn

LEMMA StepPaid == PaidInv /\ [Next]_vars => PaidInv'
<1> SUFFICES ASSUME PaidInv, [Next]_vars PROVE PaidInv'
  OBVIOUS
<1>1. CASE UNCHANGED vars
  BY <1>1 DEF vars, createVars, rowVars, inboundVars, PaidInv, GatewaysTypeOK, AnswersAreOpen,
     RefsAreOwn, PaidOnlyIfPaid
<1>2. ASSUME NEW p \in Payments, Begin(p) \/ Prepare(p) \/ Persist(p) \/ Again(p)
      PROVE  PaidInv'
  BY <1>2, CreateKeeps
<1>3. ASSUME NEW p \in Payments, Call(p) PROVE PaidInv'
  BY <1>3, PlaceKeeps
<1>4. ASSUME NEW p \in Payments, NEW n \in DOMAIN orders[p], ProviderSays(p, n) \/ Refund(p, n)
      PROVE  PaidInv'
  BY <1>4, WordKeeps
<1>5. ASSUME NEW p \in Payments, NEW n \in DOMAIN orders[p],
             NEW k \in DOMAIN orders[p][n].says, Deliver(p, n, k)
      PROVE  PaidInv'
  BY <1>5, DeliverKeeps
<1> QED
  BY <1>1, <1>2, <1>3, <1>4, <1>5 DEF Next

LEMMA PaidAlways == Spec => []PaidInv
BY InitPaid, StepPaid, PTL DEF Spec

-----------------------------------------------------------------------------
(* The row after the notes. *)

\* The words a provider uses.
Vocabulary(g) ==
    CASE g = "midtrans" -> {"pending", "capture", "capture_challenge", "capture_deny",
                            "authorize", "settlement", "deny", "failure", "expire", "cancel",
                            "refund", "partial_refund"}
      [] g = "xendit" -> {"PENDING", "PAID", "SETTLED", "EXPIRED"}
      [] g = "doku" -> {"PENDING", "SUCCESS", "FAILED"}
      [] OTHER -> {"reminder", "received"}

OwnWords(p) ==
    \A n \in DOMAIN orders[p] : \A k \in DOMAIN orders[p][n].says :
        orders[p][n].says[k].word \in Vocabulary(orders[p][n].gw)

\* What create was answered, and what the row keeps of it, names the latest order.
NamesLatest(p) ==
    /\ pc[p] = "answered" /\ answer[p].ok =>
         /\ answer[p].gatewayRef = OrderRef(p, Len(orders[p]))
         /\ answer[p].status = "requires_action"
    /\ pc[p] = "done" => gatewayRef[p] = OrderRef(p, Len(orders[p]))

\* Nothing was heard before the answer to create, but for the payments set apart.
HeardInTime(p) ==
    /\ heard[p] \subseteq Words(p)
    /\ pc[p] # "done" /\ p \notin disturbed => heard[p] = {}

\* Exactly the events of the notes that were heard are in the table.
SeenIsHeard(p) ==
    {key \in seen : key.id.of = p} =
      UNION {{Key(e) : e \in Meant(p, note[1], note[2])} : note \in heard[p]}

HeardMeaning(p, k) == <<1, k>> \in heard[p] /\ Meant(p, 1, k) # {}

\* A status is that of the latest note that was heard and means something, or the one
\* that create left if there is none.
IsLatest(p, status) ==
    \/ /\ status = "requires_action"
       /\ \A k \in DOMAIN orders[p][1].says : ~HeardMeaning(p, k)
    \/ \E k \in DOMAIN orders[p][1].says :
         /\ HeardMeaning(p, k)
         /\ \A j \in DOMAIN orders[p][1].says : HeardMeaning(p, j) => j <= k
         /\ \A e \in Meant(p, 1, k) : status = e.status

RowIsLatest(p) ==
    pc[p] = "done" /\ Len(orders[p]) = 1 /\ p \notin disturbed /\ Distinguishable(p)
        => IsLatest(p, row[p])

Following(p) ==
    /\ OwnWords(p) /\ NamesLatest(p) /\ HeardInTime(p) /\ SeenIsHeard(p) /\ RowIsLatest(p)

FollowInv == PaidInv /\ \A p \in Payments : Following(p)

LEMMA PlacesOfNotes ==
    ASSUME NEW placed, NEW x
    PROVE  x \in UNION {{n} \X DOMAIN placed[n].says : n \in DOMAIN placed}
             <=> \E n \in DOMAIN placed : \E k \in DOMAIN placed[n].says : x = <<n, k>>
OBVIOUS

\* The words of a payment are the places of its notes, before a step and after it.
LEMMA WordsArePlaces ==
    ASSUME NEW p \in Payments, NEW x
    PROVE  /\ x \in Words(p) <=> \E n \in DOMAIN orders[p] :
                                   \E k \in DOMAIN orders[p][n].says : x = <<n, k>>
           /\ x \in Words(p)' <=> \E n \in DOMAIN orders'[p] :
                                    \E k \in DOMAIN orders'[p][n].says : x = <<n, k>>
<1>1. /\ Words(p) = UNION {{n} \X DOMAIN orders[p][n].says : n \in DOMAIN orders[p]}
      /\ Words(p)' = UNION {{n} \X DOMAIN orders'[p][n].says : n \in DOMAIN orders'[p]}
  BY DEF Words
<1> QED
  BY <1>1, PlacesOfNotes

\* An event is about its payment: its identity, and its reference, which is the payment's
\* own or that of the order.
LEMMA EventsName ==
    ASSUME NEW g, NEW p, NEW n, NEW note, NEW event \in ParseWebhook(g, p, n, note)
    PROVE  /\ event.id.of = p /\ event.ref \in {PiRef(p), OrderRef(p, n)}
           /\ event.type = EventType(event.status)
           /\ \A other \in ParseWebhook(g, p, n, note) : other = event
BY DEF ParseWebhook, MidtransParse, XenditParse, DokuParse, MayarParse, Event, MidtransCreate,
   XenditCreate, DokuCreate, MayarCreate, PiRef, OrderRef

\* Of a provider's own words, exactly those by which it took money mean success.
LEMMA OwnWordsMean ==
    ASSUME NEW g \in AdapterNames, NEW p, NEW n, NEW note, note.word \in Vocabulary(g),
           NEW event \in ParseWebhook(g, p, n, note)
    PROVE  event.status = "succeeded" <=> note.word \in TookMoney
<1>1. CASE g = "midtrans"
  BY <1>1 DEF ParseWebhook, MidtransParse, Event, MidtransStatus, Vocabulary, TookMoney
<1>2. CASE g = "xendit"
  BY <1>2 DEF ParseWebhook, XenditParse, Event, XenditStatus, Vocabulary, TookMoney
<1>3. CASE g = "doku"
  BY <1>3 DEF ParseWebhook, DokuParse, Event, DokuStatus, Vocabulary, TookMoney
<1>4. CASE g = "mayar"
  BY <1>4 DEF ParseWebhook, MayarParse, Event, Vocabulary, TookMoney
<1> QED
  BY <1>1, <1>2, <1>3, <1>4 DEF AdapterNames

LEMMA FollowsAreOwn ==
    ASSUME NEW g \in AdapterNames, NEW word, NEW following \in Follows(g, word)
    PROVE  following \in Vocabulary(g)
<1>1. CASE g = "midtrans"
  BY <1>1 DEF Follows, Vocabulary
<1>2. CASE g = "xendit"
  BY <1>2 DEF Follows, Vocabulary
<1>3. CASE g = "doku"
  BY <1>3 DEF Follows, Vocabulary
<1>4. CASE g = "mayar"
  BY <1>4 DEF Follows, Vocabulary
<1> QED
  BY <1>1, <1>2, <1>3, <1>4 DEF AdapterNames

LEMMA CreateNames ==
    ASSUME NEW g, NEW p, NEW n
    PROVE  /\ CreatePayment(g, p, n).gatewayRef = OrderRef(p, n)
           /\ CreatePayment(g, p, n).status = "requires_action"
BY DEF CreatePayment, MidtransCreate, XenditCreate, DokuCreate, MayarCreate, XenditStatus

\* A step that leaves a payment as it is.
LEMMA FollowKept ==
    ASSUME NEW p \in Payments, Following(p),
           orders'[p] = orders[p], pc'[p] = pc[p], answer'[p] = answer[p],
           gatewayRef'[p] = gatewayRef[p], row'[p] = row[p], heard'[p] = heard[p],
           p \in disturbed' <=> p \in disturbed,
           {key \in seen' : key.id.of = p} = {key \in seen : key.id.of = p}
    PROVE  Following(p)'
<1>1. Words(p)' = Words(p) /\ \A n, k : Meant(p, n, k)' = Meant(p, n, k)
  BY DEF Words, Meant
<1>2. OwnWords(p)' /\ NamesLatest(p)' /\ HeardInTime(p)'
  BY <1>1 DEF Following, OwnWords, NamesLatest, HeardInTime
<1>3. SeenIsHeard(p)'
  BY <1>1 DEF Following, SeenIsHeard
<1>4. Distinguishable(p)' => Distinguishable(p)
  BY <1>1 DEF Distinguishable
<1>5. \A k : HeardMeaning(p, k)' <=> HeardMeaning(p, k)
  BY <1>1 DEF HeardMeaning
<1>6. RowIsLatest(p)'
  BY <1>1, <1>4, <1>5 DEF Following, RowIsLatest, IsLatest
<1> QED
  BY <1>2, <1>3, <1>6 DEF Following

\* A step of create that the notes have no part in, short of its end.
LEMMA CreateFollows ==
    ASSUME NEW p \in Payments, Following(p),
           orders'[p] = orders[p], pc[p] # "done", pc'[p] \notin {"answered", "done"},
           heard'[p] = heard[p], seen' = seen, p \in disturbed => p \in disturbed'
    PROVE  Following(p)'
<1>1. Words(p)' = Words(p) /\ \A n, k : Meant(p, n, k)' = Meant(p, n, k)
  BY DEF Words, Meant
<1>2. OwnWords(p)' /\ NamesLatest(p)' /\ HeardInTime(p)'
  BY <1>1 DEF Following, OwnWords, NamesLatest, HeardInTime
<1>3. SeenIsHeard(p)'
  BY <1>1 DEF Following, SeenIsHeard
<1>4. RowIsLatest(p)'
  BY DEF RowIsLatest
<1> QED
  BY <1>2, <1>3, <1>4 DEF Following

LEMMA OthersFollow ==
    ASSUME FollowInv, NEW p \in Payments,
           Begin(p) \/ Prepare(p) \/ Call(p) \/ Persist(p) \/ Again(p)
           \/ \E n \in DOMAIN orders[p] : ProviderSays(p, n) \/ Refund(p, n),
           NEW q \in Payments, q # p
    PROVE  Following(q)'
<1>1. /\ pc'[q] = pc[q] /\ answer'[q] = answer[q] /\ orders'[q] = orders[q]
      /\ row'[q] = row[q] /\ gatewayRef'[q] = gatewayRef[q] /\ seen' = seen
      /\ heard'[q] = heard[q] /\ (q \in disturbed' <=> q \in disturbed)
  <2> USE DEF FollowInv, PaidInv, GatewaysTypeOK, createVars, rowVars, inboundVars, Goto
  <2>1. CASE Begin(p)
    BY <2>1 DEF Begin
  <2>2. CASE Prepare(p)
    BY <2>2 DEF Prepare
  <2>3. CASE Call(p)
    <3>1. Refuse(p) \/ \E g, http : Place(p, g, http)
      BY <2>3 DEF Call
    <3>2. answer'[q] = answer[q] /\ orders'[q] = orders[q]
      BY <3>1 DEF Refuse, Place
    <3> QED
      BY <2>3, <3>2 DEF Call
  <2>4. CASE Persist(p)
    BY <2>4 DEF Persist
  <2>5. CASE Again(p)
    BY <2>5 DEF Again
  <2>6. ASSUME NEW n \in DOMAIN orders[p], ProviderSays(p, n) \/ Refund(p, n) 
      PROVE  /\ pc'[q] = pc[q] /\ answer'[q] = answer[q] /\ orders'[q] = orders[q]
             /\ row'[q] = row[q] /\ gatewayRef'[q] = gatewayRef[q] /\ seen' = seen
             /\ heard'[q] = heard[q] /\ (q \in disturbed' <=> q \in disturbed)
    BY <2>6 DEF ProviderSays, Refund
  <2> QED
    BY <2>1, <2>2, <2>3, <2>4, <2>5, <2>6
<1> QED
  BY <1>1, FollowKept DEF FollowInv

LEMMA StepsOfCreateFollow ==
    ASSUME FollowInv, NEW p \in Payments, Begin(p) \/ Prepare(p) \/ Again(p)
    PROVE  Following(p)'
<1>1. /\ orders' = orders /\ heard' = heard /\ seen' = seen /\ disturbed \subseteq disturbed'
      /\ pc[p] # "done" /\ pc'[p] \notin {"answered", "done"}
  BY DEF Begin, Prepare, Again, Goto, rowVars, inboundVars, FollowInv, PaidInv, GatewaysTypeOK
<1> QED
  BY <1>1, CreateFollows DEF FollowInv

\* A new order has said nothing.
LEMMA CallFollows ==
    ASSUME FollowInv, NEW p \in Payments, Call(p)
    PROVE  Following(p)'
<1>1. /\ pc[p] = "calling" /\ pc'[p] = "answered"
      /\ UNCHANGED <<row, gatewayRef, seen, heard, disturbed>>
  BY DEF Call, Goto, rowVars, inboundVars, FollowInv, PaidInv, GatewaysTypeOK
<1>2. Following(p) /\ orders \in [Payments -> Seq(Order)] /\ DOMAIN answer = Payments
  BY TypedOrders DEF FollowInv, PaidInv, GatewaysTypeOK
<1>3. CASE Refuse(p)
  <2>1. orders' = orders /\ ~answer'[p].ok
    BY <1>2, <1>3 DEF Refuse, NoAnswer
  <2>2. Words(p)' = Words(p) /\ \A n, k : Meant(p, n, k)' = Meant(p, n, k)
    BY <2>1 DEF Words, Meant
  <2>3. OwnWords(p)' /\ NamesLatest(p)' /\ HeardInTime(p)'
    BY <1>1, <1>2, <2>1, <2>2 DEF Following, OwnWords, NamesLatest, HeardInTime
  <2>4. SeenIsHeard(p)' /\ RowIsLatest(p)'
    BY <1>1, <1>2, <2>2 DEF Following, SeenIsHeard, RowIsLatest
  <2> QED
    BY <2>3, <2>4 DEF Following
<1>4. ASSUME NEW g, NEW http, Place(p, g, http) PROVE Following(p)'
  <2> DEFINE new == [gw |-> g, says |-> <<>>]
             made == CreatePayment(g, p, Len(orders[p]) + 1)
  <2>1. orders'[p] = Append(orders[p], new) /\ orders[p] \in Seq(Order)
    BY <1>2, <1>4 DEF Place
  <2>2. answer'[p].ok => /\ answer'[p].gatewayRef = made.gatewayRef
                         /\ answer'[p].status = made.status
    BY <1>2, <1>4 DEF Place, NoAnswer
  <2>3. /\ made.gatewayRef = OrderRef(p, Len(orders[p]) + 1)
        /\ made.status = "requires_action"
    BY CreateNames
  <2>4. new.says = <<>> /\ DOMAIN new.says = {}
    OBVIOUS
  <2> HIDE DEF new, made
  <2>5. /\ Len(orders'[p]) = Len(orders[p]) + 1
        /\ \A n \in DOMAIN orders[p] : n \in DOMAIN orders'[p] /\ orders'[p][n] = orders[p][n]
        /\ \A n \in DOMAIN orders'[p] : n \in DOMAIN orders[p] \/ orders'[p][n] = new
    BY <2>1
  <2>6. \A x : x \in Words(p)' <=> x \in Words(p)
    <3>1. \A n \in DOMAIN orders'[p] : \A k \in DOMAIN orders'[p][n].says :
            n \in DOMAIN orders[p]
      BY <2>4, <2>5
    <3> QED
      BY <2>5, <3>1, WordsArePlaces
  <2>7. \A x \in heard[p] : Meant(p, x[1], x[2])' = Meant(p, x[1], x[2])
    <3>1. \A x \in heard[p] : x[1] \in DOMAIN orders[p]
      BY <1>2, WordsArePlaces DEF Following, HeardInTime
    <3> QED
      BY <2>5, <3>1 DEF Meant
  <2>8. OwnWords(p)'
    BY <1>2, <2>4, <2>5 DEF Following, OwnWords
  <2>9. NamesLatest(p)' /\ HeardInTime(p)'
    BY <1>1, <1>2, <2>2, <2>3, <2>5, <2>6 DEF Following, NamesLatest, HeardInTime
  <2>10. SeenIsHeard(p)'
    BY <1>1, <1>2, <2>7 DEF Following, SeenIsHeard
  <2>11. RowIsLatest(p)'
    BY <1>1 DEF RowIsLatest
  <2> QED
    BY <2>8, <2>9, <2>10, <2>11 DEF Following
<1> QED
  BY <1>3, <1>4 DEF Call

\* The answer finds a payment of which nothing was heard, unless it is set apart.
LEMMA PersistFollows ==
    ASSUME FollowInv, NEW p \in Payments, Persist(p)
    PROVE  Following(p)'
<1>1. /\ pc[p] = "answered" /\ UNCHANGED <<orders, answer, seen, heard, disturbed>>
  BY DEF Persist, inboundVars
<1>2. Following(p)
  BY DEF FollowInv
<1>3. CASE ~answer[p].ok
  <2>1. pc'[p] = "failed"
    BY <1>3 DEF Persist, Goto, FollowInv, PaidInv, GatewaysTypeOK
  <2> QED
    BY <1>1, <1>2, <2>1, CreateFollows
<1>4. CASE answer[p].ok
  <2>1. /\ pc'[p] = "done" /\ row'[p] = "requires_action"
        /\ gatewayRef'[p] = OrderRef(p, Len(orders[p]))
    BY <1>1, <1>2, <1>4 DEF Persist, Goto, FollowInv, PaidInv, GatewaysTypeOK, Following,
                            NamesLatest
  <2>2. Words(p)' = Words(p) /\ \A n, k : Meant(p, n, k)' = Meant(p, n, k)
    BY <1>1 DEF Words, Meant
  <2>3. OwnWords(p)' /\ NamesLatest(p)' /\ HeardInTime(p)'
    BY <1>1, <1>2, <2>1, <2>2 DEF Following, OwnWords, NamesLatest, HeardInTime
  <2>4. SeenIsHeard(p)'
    BY <1>1, <1>2, <2>2 DEF Following, SeenIsHeard
  <2>5. RowIsLatest(p)'
    BY <1>1, <1>2, <2>1 DEF Following, HeardInTime, RowIsLatest, IsLatest,
       HeardMeaning
  <2> QED
    BY <2>3, <2>4, <2>5 DEF Following
<1> QED
  BY <1>3, <1>4

\* Another word adds a note to an order, at its end.
LEMMA WordFollows ==
    ASSUME FollowInv, NEW p \in Payments, NEW n \in DOMAIN orders[p],
           ProviderSays(p, n) \/ Refund(p, n)
    PROVE  Following(p)'
<1> DEFINE old == orders[p][n]
<1>1. UNCHANGED <<pc, answer, row, gatewayRef, seen, heard, disturbed>>
  BY DEF ProviderSays, Refund, createVars, rowVars, inboundVars
<1>2. Following(p) /\ orders \in [Payments -> Seq(Order)]
  BY TypedOrders DEF FollowInv, PaidInv
<1>3. old \in Order /\ old.says \in Seq(Notes) /\ old.gw \in AdapterNames
  <2>1. old \in Order
    BY <1>2
  <2> HIDE DEF old
  <2> QED
    BY <2>1 DEF Order
<1>4. PICK note \in Notes : Noted(p, n, note) /\ note.word \in Vocabulary(old.gw)
  <2>1. CASE ProviderSays(p, n)
    <3>1. PICK word \in Follows(old.gw, LastWord(old)) : Noted(p, n, NextNote(old, word))
      BY <2>1 DEF ProviderSays, Noted
    <3> HIDE DEF old
    <3>2. NextNote(old, word) \in Notes /\ NextNote(old, word).word = word
      BY <1>3, <3>1, FollowsAreWords, NextIsNote DEF NextNote
    <3> QED
      BY <1>3, <3>1, <3>2, FollowsAreOwn
  <2>2. CASE Refund(p, n)
    <3>1. PICK word \in {"refund", "partial_refund"} : Noted(p, n, NextNote(old, word))
      BY <2>2 DEF Refund, Noted
    <3>2. LastWord(old) \in {"settlement", "partial_refund"}
      BY <2>2 DEF Refund
    <3>3. LastWord(old) \in Vocabulary(old.gw)
      <4>1. old.says # <<>>
        BY <3>2 DEF LastWord
      <4>2. Len(old.says) \in DOMAIN old.says
        <5> HIDE DEF old
        <5> QED
          BY <1>3, <4>1
      <4> QED
        BY <1>2, <4>1, <4>2 DEF Following, OwnWords, LastWord
    <3> HIDE DEF old
    <3>4. old.gw = "midtrans"
      BY <1>3, <3>2, <3>3 DEF Vocabulary, AdapterNames
    <3>5. NextNote(old, word) \in Notes /\ NextNote(old, word).word = word
      BY <1>3, <3>1, NextIsNote DEF NextNote, NoteWords
    <3> QED
      BY <3>1, <3>4, <3>5 DEF Vocabulary
  <2> QED
    BY <2>1, <2>2
<1> DEFINE new == [old EXCEPT !.says = Append(@, note)]
<1>5. new.gw = old.gw /\ new.says = Append(old.says, note)
  <2> HIDE DEF old
  <2> QED
    BY <1>3 DEF Order
<1>6. orders'[p] = [orders[p] EXCEPT ![n] = new]
  BY <1>2, <1>4 DEF Noted
<1> HIDE DEF new, old
<1>7. \A k \in DOMAIN old.says : k \in DOMAIN new.says /\ new.says[k] = old.says[k]
  BY <1>3, <1>5
<1>8. \A k \in DOMAIN new.says : \/ new.says[k] = note
                                 \/ k \in DOMAIN old.says /\ new.says[k] = old.says[k]
  BY <1>3, <1>5
<1>9. /\ Len(orders'[p]) = Len(orders[p]) /\ DOMAIN orders'[p] = DOMAIN orders[p]
      /\ \A m \in DOMAIN orders[p] :
           /\ orders'[p][m].gw = orders[p][m].gw
           /\ \A k \in DOMAIN orders[p][m].says :
                k \in DOMAIN orders'[p][m].says /\ orders'[p][m].says[k] = orders[p][m].says[k]
  <2>1. Len(orders'[p]) = Len(orders[p]) /\ DOMAIN orders'[p] = DOMAIN orders[p]
    BY <1>2, <1>6
  <2>2. \A m \in DOMAIN orders[p] : orders'[p][m] = IF m = n THEN new ELSE orders[p][m]
    BY <1>6
  <2> QED
    BY <1>5, <1>7, <2>1, <2>2 DEF old
<1>10. OwnWords(p)'
  <2>1. \A m \in DOMAIN orders[p] : orders'[p][m] = IF m = n THEN new ELSE orders[p][m]
    BY <1>6
  <2>2. \A k \in DOMAIN old.says : old.says[k].word \in Vocabulary(old.gw)
    BY <1>2 DEF Following, OwnWords, old
  <2>3. \A k \in DOMAIN new.says : new.says[k].word \in Vocabulary(new.gw)
    BY <1>4, <1>5, <1>8, <2>2
  <2> QED
    BY <1>2, <1>9, <2>1, <2>3 DEF Following, OwnWords
<1>11. NamesLatest(p)'
  BY <1>1, <1>2, <1>9 DEF Following, NamesLatest
<1>12. \A x \in Words(p) : x \in Words(p)' /\ Meant(p, x[1], x[2])' = Meant(p, x[1], x[2])
  <2> SUFFICES ASSUME NEW m \in DOMAIN orders[p], NEW k \in DOMAIN orders[p][m].says
               PROVE  <<m, k>> \in Words(p)' /\ Meant(p, m, k)' = Meant(p, m, k)
    BY WordsArePlaces
  <2>1. <<m, k>> \in Words(p)'
    BY <1>9, WordsArePlaces
  <2> QED
    BY <1>9, <2>1 DEF Meant
<1>13. HeardInTime(p)' /\ SeenIsHeard(p)'
  BY <1>1, <1>2, <1>12 DEF Following, HeardInTime, SeenIsHeard
<1>14. RowIsLatest(p)'
  <2> SUFFICES ASSUME pc[p] = "done", Len(orders[p]) = 1, p \notin disturbed,
                      Distinguishable(p)'
               PROVE  IsLatest(p, row[p])'
    BY <1>1, <1>9 DEF RowIsLatest
  <2>1. 1 \in DOMAIN orders[p]
    BY <1>2
  <2>2. \A k \in DOMAIN orders[p][1].says :
          k \in DOMAIN orders'[p][1].says /\ Meant(p, 1, k)' = Meant(p, 1, k)
    BY <1>9, <2>1 DEF Meant
  <2>3. Distinguishable(p)
    BY <2>2 DEF Distinguishable
  <2>4. \A k : <<1, k>> \in heard[p] => k \in DOMAIN orders[p][1].says
    BY <1>2, WordsArePlaces DEF Following, HeardInTime
  <2>5. \A k \in DOMAIN orders'[p][1].says :
          HeardMeaning(p, k)' <=> k \in DOMAIN orders[p][1].says /\ HeardMeaning(p, k)
    BY <1>1, <2>2, <2>4 DEF HeardMeaning
  <2>6. IsLatest(p, row[p])
    BY <1>2, <2>3 DEF Following, RowIsLatest
  <2> QED
    BY <1>1, <2>2, <2>5, <2>6 DEF IsLatest
<1> QED
  BY <1>10, <1>11, <1>13, <1>14 DEF Following

\* The payment that a note is about is found, once it has its answer.
LEMMA FoundIsOwn ==
    ASSUME FollowInv, NEW p \in Payments, NEW n, NEW k, NEW event \in Meant(p, n, k)
    PROVE  /\ Found(event.ref) \subseteq {p}
           /\ pc[p] = "done" /\ n = Len(orders[p]) => Found(event.ref) = {p}
<1>1. event.ref \in {PiRef(p), OrderRef(p, n)}
  BY EventsName DEF Meant
<1>2. RefsAreOwn /\ GatewaysTypeOK /\ Following(p)
  BY DEF FollowInv, PaidInv
<1>3. \A q \in Payments : gatewayRef[q] = event.ref \/ event.ref = PiRef(q) => q = p
  BY <1>1, <1>2, GatewayAssumption DEF RefsAreOwn, PiRef, OrderRef
<1>4. Found(event.ref) \subseteq {p}
  BY <1>3 DEF Found
<1>5. ASSUME pc[p] = "done", n = Len(orders[p]) PROVE Found(event.ref) = {p}
  <2>1. row[p] # "absent" /\ gatewayRef[p] = OrderRef(p, n)
    BY <1>2, <1>5 DEF GatewaysTypeOK, Following, NamesLatest
  <2>2. CASE event.ref = PiRef(p)
    BY <1>3, <2>1, <2>2 DEF Found
  <2>3. CASE event.ref = OrderRef(p, n)
    BY <1>3, <1>4, <2>1, <2>3 DEF Found
  <2> QED
    BY <1>1, <2>2, <2>3
<1> QED
  BY <1>4, <1>5

\* A note that is heard changes its own payment at most.
LEMMA DeliverOthers ==
    ASSUME FollowInv, NEW p \in Payments, NEW n \in DOMAIN orders[p],
           NEW k \in DOMAIN orders[p][n].says, Deliver(p, n, k),
           NEW q \in Payments, q # p
    PROVE  Following(q)'
<1>1. /\ UNCHANGED <<orders, pc, answer, gatewayRef>>
      /\ heard' = [heard EXCEPT ![p] = @ \cup {<<n, k>>}]
      /\ disturbed' \in {disturbed, disturbed \cup {p}}
  BY DEF Deliver, createVars
<1>2. heard'[q] = heard[q] /\ (q \in disturbed' <=> q \in disturbed)
  BY <1>1 DEF FollowInv, PaidInv, GatewaysTypeOK
<1>3. row'[q] = row[q] /\ {key \in seen' : key.id.of = q} = {key \in seen : key.id.of = q}
  <2>1. ASSUME NEW event \in Meant(p, n, k), Apply(event)
        PROVE  row'[q] = row[q] /\ {key \in seen' : key.id.of = q} = {key \in seen : key.id.of = q}
    <3>1. Found(event.ref) \subseteq {p} /\ Key(event).id.of = p
      BY <2>1, FoundIsOwn, EventsName DEF Meant, Key
    <3> QED
      BY <2>1, <3>1 DEF Apply
  <2> QED
    BY <2>1 DEF Deliver
<1> QED
  BY <1>1, <1>2, <1>3, FollowKept DEF FollowInv

\* Its own payment: a note in order is the latest of those heard, or repeats one of them.
LEMMA DeliverFollows ==
    ASSUME FollowInv, NEW p \in Payments, NEW n \in DOMAIN orders[p],
           NEW k \in DOMAIN orders[p][n].says, Deliver(p, n, k)
    PROVE  Following(p)'
<1>1. /\ UNCHANGED <<orders, pc, answer, gatewayRef>>
      /\ heard'[p] = heard[p] \cup {<<n, k>>}
      /\ disturbed' = IF pc[p] # "done" \/ (<<n, k>> \notin heard[p] /\ Late(p, n, k))
                      THEN disturbed \cup {p} ELSE disturbed
  BY DEF Deliver, createVars, FollowInv, PaidInv, GatewaysTypeOK
<1>2. Following(p) /\ orders \in [Payments -> Seq(Order)]
  BY TypedOrders DEF FollowInv, PaidInv
<1>3. \A m, j : Meant(p, m, j)' = Meant(p, m, j)
  BY <1>1 DEF Meant
<1>4. Words(p)' = Words(p) /\ <<n, k>> \in Words(p)
  BY <1>1, WordsArePlaces DEF Words
<1>5. OwnWords(p)' /\ NamesLatest(p)' /\ HeardInTime(p)'
  BY <1>1, <1>2, <1>4 DEF Following, OwnWords, NamesLatest, HeardInTime
<1>6. \/ Meant(p, n, k) = {} /\ UNCHANGED <<seen, row>>
      \/ \E event : /\ Meant(p, n, k) = {event} /\ Apply(event)
                    /\ event.id.of = p /\ event.type = EventType(event.status)
  <2>1. CASE Meant(p, n, k) = {}
    BY <2>1 DEF Deliver
  <2>2. ASSUME NEW event \in Meant(p, n, k), Apply(event)
        PROVE  Meant(p, n, k) = {event} /\ event.id.of = p /\ event.type = EventType(event.status)
    BY <2>2, EventsName DEF Meant
  <2> QED
    BY <2>1, <2>2 DEF Deliver
<1>7. SeenIsHeard(p)'
  <2>1. {key \in seen' : key.id.of = p}
          = {key \in seen : key.id.of = p} \cup {Key(e) : e \in Meant(p, n, k)}
    <3>1. CASE Meant(p, n, k) = {} /\ UNCHANGED <<seen, row>>
      BY <3>1
    <3>2. ASSUME NEW event, Meant(p, n, k) = {event}, Apply(event), event.id.of = p
          PROVE  {key \in seen' : key.id.of = p}
                   = {key \in seen : key.id.of = p} \cup {Key(e) : e \in Meant(p, n, k)}
      <4>1. seen' = seen \cup {Key(event)} /\ Key(event).id.of = p
        BY <3>2 DEF Apply, Key
      <4> QED
        BY <3>2, <4>1
    <3> QED
      BY <1>6, <3>1, <3>2
  <2> DEFINE keys(note) == {Key(e) : e \in Meant(p, note[1], note[2])}
  <2>2. keys(<<n, k>>) = {Key(e) : e \in Meant(p, n, k)}
    OBVIOUS
  <2>3. \A note : {Key(e) : e \in Meant(p, note[1], note[2])'} = keys(note)
    BY <1>3
  <2>4. {key \in seen : key.id.of = p} = UNION {keys(note) : note \in heard[p]}
    BY <1>2 DEF Following, SeenIsHeard
  <2> HIDE DEF keys
  <2>5. UNION {keys(note) : note \in heard[p] \cup {<<n, k>>}}
          = (UNION {keys(note) : note \in heard[p]}) \cup keys(<<n, k>>)
    OBVIOUS
  <2>6. UNION {{Key(e) : e \in Meant(p, note[1], note[2])'} : note \in heard'[p]}
          = UNION {keys(note) : note \in heard[p] \cup {<<n, k>>}}
    BY <1>1, <2>3
  <2> QED
    BY <2>1, <2>2, <2>4, <2>5, <2>6 DEF SeenIsHeard
<1>8. RowIsLatest(p)'
  <2> SUFFICES ASSUME pc[p] = "done", Len(orders[p]) = 1, p \notin disturbed',
                      Distinguishable(p)
               PROVE  IsLatest(p, row[p])'
    BY <1>1, <1>3 DEF RowIsLatest, Distinguishable
  <2>1. n = 1 /\ p \notin disturbed /\ (<<n, k>> \in heard[p] \/ ~Late(p, n, k))
    BY <1>1, <1>2
  <2>2. \A i : HeardMeaning(p, i)' <=> HeardMeaning(p, i) \/ (i = k /\ Meant(p, 1, k) # {})
    BY <1>1, <1>3, <2>1 DEF HeardMeaning
  <2>3. IsLatest(p, row[p])
    BY <1>2, <2>1 DEF Following, RowIsLatest
  <2>4. \A i \in DOMAIN orders[p][1].says : i \in Nat
    <3>1. orders[p] \in Seq(Order) /\ 1 \in DOMAIN orders[p]
      BY <1>2, <2>1
    <3>2. orders[p][1] \in Order
      BY <3>1
    <3>3. orders[p][1].says \in Seq(Notes)
      BY <3>2 DEF Order
    <3> QED
      BY <3>3
  <2>5. CASE Meant(p, 1, k) = {}
    <3>1. row'[p] = row[p]
      BY <1>6, <2>1, <2>5
    <3> QED
      BY <1>1, <1>3, <2>2, <2>3, <2>5, <3>1 DEF IsLatest
  <2>6. ASSUME NEW event, Meant(p, 1, k) = {event}, Apply(event) PROVE IsLatest(p, row[p])'
    <3>1. row'[p] = IF Key(event) \in seen THEN row[p] ELSE event.status
      <4>1. Found(event.ref) = {p}
        BY <2>1, <2>6, FoundIsOwn
      <4> QED
        BY <2>6, <4>1 DEF Apply
    <3>2. CASE <<1, k>> \in heard[p]
      <4>1. Key(event) \in seen
        BY <1>2, <2>6, <3>2 DEF Following, SeenIsHeard
      <4>2. \A i : HeardMeaning(p, i)' <=> HeardMeaning(p, i)
        BY <2>2, <3>2 DEF HeardMeaning
      <4> QED
        BY <1>1, <1>3, <2>3, <3>1, <4>1, <4>2 DEF IsLatest
    <3>3. CASE <<1, k>> \notin heard[p]
      <4>1. \A i \in DOMAIN orders[p][1].says : HeardMeaning(p, i) => i <= k /\ i # k
        BY <2>1, <2>4, <3>3 DEF Late, HeardMeaning
      <4>2. row'[p] = event.status
        <5>1. CASE Key(event) \notin seen
          BY <3>1, <5>1
        <5>2. CASE Key(event) \in seen
          <6>1. PICK note \in heard[p] : \E a \in Meant(p, note[1], note[2]) : Key(a) = Key(event)
            <7>1. Key(event).id.of = p
              BY <2>6, EventsName DEF Meant, Key
            <7> QED
              BY <1>2, <5>2, <7>1 DEF Following, SeenIsHeard
          <6>2. PICK i \in DOMAIN orders[p][1].says : note = <<1, i>>
            BY <1>2, WordsArePlaces DEF Following, HeardInTime
          <6>3. PICK a \in Meant(p, 1, i) : a.id = event.id /\ a.type = event.type
            BY <6>1, <6>2 DEF Key
          <6>4. HeardMeaning(p, i)
            BY <6>2, <6>3 DEF HeardMeaning
          <6>5. PICK m \in DOMAIN orders[p][1].says :
                  /\ HeardMeaning(p, m) /\ i <= m
                  /\ \A e \in Meant(p, 1, m) : row[p] = e.status
            BY <2>3, <6>4 DEF IsLatest
          <6>6. i < k /\ m < k /\ k \in DOMAIN orders[p][1].says
            BY <2>1, <2>4, <4>1, <6>4, <6>5
          <6>7. event.status = a.status
            BY <2>4, <2>6, <6>3, <6>6 DEF Distinguishable
          <6>8. row[p] = a.status
            <7>1. CASE i = m
              BY <6>3, <6>5, <7>1
            <7>2. CASE i < m
              <8>1. PICK b \in Meant(p, 1, m) : TRUE
                BY <6>5 DEF HeardMeaning
              <8>2. b.status = a.status
                BY <2>4, <2>6, <6>3, <6>6, <7>2 DEF Distinguishable
              <8> QED
                BY <6>5, <8>1, <8>2
            <7> QED
              BY <2>4, <6>5, <7>1, <7>2
          <6> QED
            BY <3>1, <5>2, <6>7, <6>8
        <5> QED
          BY <5>1, <5>2
      <4>3. HeardMeaning(p, k)' /\ k \in DOMAIN orders[p][1].says
        BY <2>1, <2>2, <2>6
      <4>4. \A j \in DOMAIN orders[p][1].says : HeardMeaning(p, j)' => j <= k
        BY <2>1, <2>2, <2>4, <4>1
      <4> QED
        BY <1>1, <1>3, <2>6, <4>2, <4>3, <4>4 DEF IsLatest
    <3> QED
      BY <3>2, <3>3
  <2> QED
    BY <1>6, <2>1, <2>5, <2>6
<1> QED
  BY <1>5, <1>7, <1>8 DEF Following

LEMMA InitFollow == Init => FollowInv
<1> SUFFICES ASSUME Init, NEW p \in Payments PROVE Following(p)
  BY InitPaid DEF FollowInv
<1>1. orders[p] = <<>> /\ heard[p] = {} /\ seen = {} /\ pc[p] = "new"
  BY DEF Init
<1> QED
  BY <1>1 DEF Following, OwnWords, NamesLatest, HeardInTime, SeenIsHeard, RowIsLatest

LEMMA StepFollow == FollowInv /\ [Next]_vars => FollowInv'
<1> SUFFICES ASSUME FollowInv, [Next]_vars, NEW q \in Payments PROVE Following(q)'
  BY StepPaid DEF FollowInv
<1>1. CASE UNCHANGED vars
  BY <1>1, FollowKept DEF vars, createVars, rowVars, inboundVars, FollowInv
<1>2. ASSUME NEW p \in Payments, Begin(p) \/ Prepare(p) \/ Call(p) \/ Persist(p) \/ Again(p)
      PROVE  Following(q)'
  BY <1>2, OthersFollow, StepsOfCreateFollow, CallFollows, PersistFollows
<1>3. ASSUME NEW p \in Payments, NEW n \in DOMAIN orders[p], ProviderSays(p, n) \/ Refund(p, n)
      PROVE  Following(q)'
  BY <1>3, OthersFollow, WordFollows
<1>4. ASSUME NEW p \in Payments, NEW n \in DOMAIN orders[p],
             NEW k \in DOMAIN orders[p][n].says, Deliver(p, n, k)
      PROVE  Following(q)'
  BY <1>4, DeliverOthers, DeliverFollows
<1> QED
  BY <1>1, <1>2, <1>3, <1>4 DEF Next

\* With every note heard, the latest of those that mean something is the provider's.
LEMMA LatestFollows == FollowInv => RowFollowsGateway
<1> SUFFICES ASSUME FollowInv, NEW p \in Payments,
                    pc[p] = "done", Len(orders[p]) = 1, heard[p] = Words(p),
                    p \notin disturbed, Distinguishable(p)
             PROVE  LET telling == {k \in DOMAIN orders[p][1].says : Meant(p, 1, k) # {}}
                    IN IF telling = {} THEN row[p] = "requires_action"
                       ELSE \E k \in telling :
                              /\ \A j \in telling : j <= k
                              /\ \A e \in Meant(p, 1, k) : row[p] = e.status
                              /\ row[p] = "succeeded"
                                   <=> orders[p][1].says[k].word \in TookMoney
  BY DEF RowFollowsGateway
<1> DEFINE telling == {k \in DOMAIN orders[p][1].says : Meant(p, 1, k) # {}}
<1>1. IsLatest(p, row[p]) /\ OwnWords(p)
  BY DEF FollowInv, Following, RowIsLatest
<1>2. 1 \in DOMAIN orders[p] /\ orders[p][1] \in Order
  <2>1. orders[p] \in Seq(Order)
    BY TypedOrders DEF FollowInv, PaidInv
  <2>2. 1 \in DOMAIN orders[p]
    BY <2>1
  <2> QED
    BY <2>1, <2>2
<1>3. \A k \in DOMAIN orders[p][1].says : HeardMeaning(p, k) <=> k \in telling
  BY <1>2, WordsArePlaces DEF HeardMeaning
<1>4. CASE telling = {}
  BY <1>1, <1>3, <1>4 DEF IsLatest
<1>5. ASSUME NEW k \in telling, \A j \in telling : j <= k,
             \A e \in Meant(p, 1, k) : row[p] = e.status
      PROVE  row[p] = "succeeded" <=> orders[p][1].says[k].word \in TookMoney
  <2>1. PICK event \in Meant(p, 1, k) : TRUE
    OBVIOUS
  <2>2. orders[p][1].gw \in AdapterNames
    BY <1>2 DEF Order
  <2>3. event.status = "succeeded" <=> orders[p][1].says[k].word \in TookMoney
    BY <1>1, <1>2, <2>1, <2>2, OwnWordsMean DEF OwnWords, Meant
  <2> QED
    BY <1>5, <2>3
<1>6. CASE telling # {}
  <2>1. PICK k \in telling : /\ \A j \in telling : j <= k
                             /\ \A e \in Meant(p, 1, k) : row[p] = e.status
    BY <1>1, <1>3, <1>6 DEF IsLatest
  <2> QED
    BY <1>5, <1>6, <2>1
<1> QED
  BY <1>4, <1>6

-----------------------------------------------------------------------------
(* The choice of a gateway. *)

LEMMA SmallestNumber ==
    ASSUME NEW B, B \subseteq Nat, B # {}
    PROVE  \E n \in B : \A m \in Nat : m < n => m \notin B
<1> DEFINE below == OpToRel(<, Nat)
<1>1. PICK n \in B : \A m \in B : <<m, n>> \notin below
  <2>1. IsWellFoundedOn(below, Nat)
    BY NatLessThanWellFounded
  <2> HIDE DEF below
  <2> QED
    BY <2>1, WFMin
<1>2. below = {pair \in Nat \X Nat : pair[1] < pair[2]}
  BY DEF OpToRel
<1> HIDE DEF below
<1> QED
  BY <1>1, <1>2

\* The loop of the router up to its n-th candidate: what it has chosen after each.
IsChoice(best, names, raw, amount, n) ==
    best = [i \in 0 .. n |->
              IF i = 0 THEN 0
              ELSE IF /\ R!CalculateCost(names[i], raw, amount) # R!NoCost
                      /\ \/ best[i - 1] = 0
                         \/ R!CalculateCost(names[i], raw, amount)
                              < R!CalculateCost(names[best[i - 1]], raw, amount)
                   THEN i ELSE best[i - 1]]

\* The same for one candidate, from the choice before it.
Better(names, raw, amount, i, before) ==
    IF /\ R!CalculateCost(names[i], raw, amount) # R!NoCost
       /\ \/ before = 0
          \/ R!CalculateCost(names[i], raw, amount)
               < R!CalculateCost(names[before], raw, amount)
    THEN i ELSE before

LEMMA ChoiceSteps ==
    ASSUME NEW best, NEW names, NEW raw, NEW amount, NEW n \in Nat,
           IsChoice(best, names, raw, amount, n)
    PROVE  /\ best[0] = 0
           /\ \A i \in 1 .. n : best[i] = Better(names, raw, amount, i, best[i - 1])
<1> DEFINE body(i) == IF i = 0 THEN 0 ELSE Better(names, raw, amount, i, best[i - 1])
<1>1. best = [i \in 0 .. n |-> body(i)]
  BY DEF IsChoice, Better
<1>2. \A i \in 0 .. n : best[i] = body(i)
  <2> HIDE DEF body
  <2> QED
    BY <1>1
<1> QED
  BY <1>2

LEMMA ChoiceExists ==
    ASSUME NEW names, NEW raw, NEW amount, NEW n \in Nat
    PROVE  \E best : IsChoice(best, names, raw, amount, n)
<1> DEFINE B == {m \in Nat : ~ \E best : IsChoice(best, names, raw, amount, m)}
<1>1. SUFFICES ASSUME B # {} PROVE FALSE
  OBVIOUS
<1>2. PICK m \in B : \A k \in Nat : k < m => k \notin B
  <2>1. B \subseteq Nat
    OBVIOUS
  <2> HIDE DEF B
  <2> QED
    BY <1>1, <2>1, SmallestNumber
<1> DEFINE step(i, before) == Better(names, raw, amount, i, before)
<1>3. CASE m = 0
  <2> DEFINE best == [i \in 0 .. 0 |-> 0]
  <2>1. best = [i \in 0 .. 0 |-> IF i = 0 THEN 0 ELSE step(i, best[i - 1])]
    <3> HIDE DEF step
    <3> QED
      OBVIOUS
  <2>2. IsChoice(best, names, raw, amount, 0)
    <3> HIDE DEF best
    <3> QED
      BY <2>1 DEF IsChoice, Better
  <2> QED
    BY <1>2, <1>3, <2>2
<1>4. CASE m # 0
  <2>1. m - 1 \in Nat /\ m - 1 < m /\ m \in Nat
    BY <1>4
  <2>2. PICK old : IsChoice(old, names, raw, amount, m - 1)
    BY <1>2, <2>1
  <2>3. old[0] = 0 /\ \A i \in 1 .. (m - 1) : old[i] = step(i, old[i - 1])
    BY <2>1, <2>2, ChoiceSteps
  <2> DEFINE best == [i \in 0 .. m |-> IF i < m THEN old[i] ELSE step(m, old[m - 1])]
  <2> HIDE DEF step
  <2>4. \A i \in 0 .. m : best[i] = IF i = 0 THEN 0 ELSE step(i, best[i - 1])
    <3>1. best[0] = 0
      BY <2>1, <2>3
    <3>2. ASSUME NEW i \in 1 .. m PROVE best[i] = step(i, best[i - 1])
      <4>1. best[i - 1] = old[i - 1]
        BY <2>1
      <4>2. CASE i < m
        BY <2>1, <2>3, <4>1, <4>2
      <4>3. CASE i = m
        BY <2>1, <4>1, <4>3
      <4> QED
        BY <2>1, <4>2, <4>3
    <3> QED
      BY <2>1, <3>1, <3>2
  <2>5. best = [i \in 0 .. m |-> best[i]]
    OBVIOUS
  <2> HIDE DEF best
  <2>6. best = [i \in 0 .. m |-> IF i = 0 THEN 0 ELSE step(i, best[i - 1])]
    BY <2>4, <2>5
  <2>7. IsChoice(best, names, raw, amount, m)
    BY <2>6 DEF IsChoice, Better, step
  <2> QED
    BY <1>2, <2>7
<1> QED
  BY <1>3, <1>4

\* A candidate that lists the channel has a cost, which is not NoCost.
LEMMA CostsAreNat ==
    ASSUME NEW name, NEW raw, NEW amount \in Nat
    PROVE  IF R!Lists(name, raw) THEN R!CalculateCost(name, raw, amount) \in Nat
                                 ELSE R!CalculateCost(name, raw, amount) = R!NoCost
<1>1. CASE ~R!Lists(name, raw)
  BY <1>1 DEF R!CalculateCost
<1>2. CASE R!Lists(name, raw)
  <2> DEFINE p == Providers[name]
             fee == p.fees[R!NormalizeChannel(raw)]
             tax == IF fee.vatIncluded THEN 100 ELSE 111
  <2>1. p.platform \in Nat /\ fee.pct \in Nat /\ fee.fixed \in Nat
    BY <1>2, GatewayAssumption DEF R!Lists, FeesAreNat
  <2>2. R!CalculateCost(name, raw, amount)
          = ((amount * (fee.pct + p.platform) + fee.fixed * 1000) * tax + 500) \div 1000
    BY <1>2 DEF R!CalculateCost
  <2>3. tax \in Nat
    OBVIOUS
  <2> HIDE DEF p, fee, tax
  <2>4. amount * (fee.pct + p.platform) + fee.fixed * 1000 \in Nat
    BY <2>1
  <2>5. ((amount * (fee.pct + p.platform) + fee.fixed * 1000) * tax + 500) \in Nat
    BY <2>3, <2>4
  <2> QED
    BY <1>2, <2>2, <2>5
<1> QED
  BY <1>1, <1>2

\* The router's choice is the cheapest of the candidates that list the channel, or none
\* does.
LEMMA CheapestIsCheapest ==
    ASSUME NEW names, Len(names) \in Nat, NEW raw, NEW amount \in Nat
    PROVE  LET n == Len(names)
               i == R!Cheapest(names, raw, amount)
           IN \/ i = 0 /\ \A j \in 1 .. n : ~R!Lists(names[j], raw)
              \/ /\ i \in 1 .. n /\ R!Lists(names[i], raw)
                 /\ \A j \in 1 .. n : R!Lists(names[j], raw) =>
                      R!CalculateCost(names[i], raw, amount)
                        <= R!CalculateCost(names[j], raw, amount)
<1> DEFINE n == Len(names)
           best == CHOOSE b : IsChoice(b, names, raw, amount, n)
           cost(j) == R!CalculateCost(names[j], raw, amount)
           lists(j) == R!Lists(names[j], raw)
           Good(k, i) == \/ i = 0 /\ \A j \in 1 .. k : ~lists(j)
                         \/ /\ i \in 1 .. k /\ lists(i)
                            /\ \A j \in 1 .. k : lists(j) => cost(i) <= cost(j)
           B == {k \in 0 .. n : ~Good(k, best[k])}
<1>1. R!Cheapest(names, raw, amount) = best[n]
  BY DEF R!Cheapest, IsChoice
<1>2. /\ best[0] = 0
      /\ \A i \in 1 .. n : best[i] = IF cost(i) # R!NoCost
                                          /\ (best[i - 1] = 0 \/ cost(i) < cost(best[i - 1]))
                                     THEN i ELSE best[i - 1]
  <2>1. IsChoice(best, names, raw, amount, n)
    BY ChoiceExists
  <2> HIDE DEF best
  <2> QED
    BY <2>1, ChoiceSteps DEF Better
<1>3. \A j : IF lists(j) THEN cost(j) \in Nat ELSE cost(j) = R!NoCost
  BY CostsAreNat
<1>4. R!NoCost \notin Nat
  BY DEF R!NoCost
<1> HIDE DEF best, cost, lists
<1>5. B = {}
  <2>1. SUFFICES ASSUME B # {} PROVE FALSE
    OBVIOUS
  <2>2. PICK k \in B : \A m \in Nat : m < k => m \notin B
    <3>1. B \subseteq Nat
      OBVIOUS
    <3> HIDE DEF B
    <3> QED
      BY <2>1, <3>1, SmallestNumber
  <2>3. k # 0
    BY <1>2, <2>2
  <2>4. Good(k - 1, best[k - 1]) /\ k \in 1 .. n
    BY <2>2, <2>3
  <2>5. best[k] = IF cost(k) # R!NoCost
                       /\ (best[k - 1] = 0 \/ cost(k) < cost(best[k - 1]))
                  THEN k ELSE best[k - 1]
    BY <1>2, <2>4
  <2>6. \A j \in 1 .. k : j \in 1 .. (k - 1) \/ j = k
    BY <2>4
  <2>7. ~Good(k, best[k])
    BY <2>2
  <2>8. CASE best[k - 1] = 0
    BY <1>3, <1>4, <2>4, <2>5, <2>6, <2>7, <2>8
  <2>9. CASE best[k - 1] # 0
    <3> DEFINE b == best[k - 1]
    <3>1. /\ b \in 1 .. (k - 1) /\ lists(b) /\ cost(b) \in Nat /\ b \in 1 .. k
          /\ \A j \in 1 .. (k - 1) : lists(j) => cost(b) <= cost(j)
      BY <1>3, <2>4, <2>9
    <3>2. CASE lists(k) /\ cost(k) < cost(b)
      <4>1. best[k] = k
        BY <1>3, <1>4, <2>5, <3>2
      <4>2. \A j \in 1 .. k : lists(j) => cost(k) <= cost(j)
        BY <1>3, <2>6, <3>1, <3>2
      <4> QED
        BY <2>4, <2>7, <3>2, <4>1, <4>2
    <3>3. CASE ~lists(k)
      <4>1. best[k] = b
        BY <1>3, <2>5, <3>3
      <4> QED
        BY <2>6, <2>7, <3>1, <3>3, <4>1
    <3>4. CASE lists(k) /\ ~(cost(k) < cost(b))
      <4>1. best[k] = b
        BY <2>5, <2>9, <3>4
      <4>2. cost(b) <= cost(k)
        BY <1>3, <3>1, <3>4
      <4> QED
        BY <2>6, <2>7, <3>1, <4>1, <4>2
    <3> QED
      BY <3>2, <3>3, <3>4
  <2> QED
    BY <2>8, <2>9
<1>6. Good(n, best[n])
  BY <1>5
<1> QED
  BY <1>1, <1>6 DEF cost, lists

\* Each loaded adapter is met, whatever the order of the map.
LEMMA AllAreMet ==
    ASSUME NEW S, IsFiniteSet(S), NEW names \in Iterations(S)
    PROVE  /\ Len(names) = Cardinality(S) /\ Len(names) \in Nat
           /\ \A i \in 1 .. Len(names) : names[i] \in S
           /\ \A g \in S : \E i \in 1 .. Len(names) : names[i] = g
<1> DEFINE n == Cardinality(S)
<1>1. n \in Nat
  BY FS_CardinalityType
<1>2. names \in [1 .. n -> S] /\ \A i, j \in 1 .. n : names[i] = names[j] => i = j
  BY DEF Iterations
<1>3. Cardinality(1 .. n) = n
  BY <1>1, FS_Interval
<1>4. names \in Surjection(1 .. n, S)
  <2>1. names \in Injection(1 .. n, S)
    BY <1>2 DEF Injection, IsInjective
  <2> HIDE DEF n
  <2> QED
    BY <1>3, <2>1, FS_Injection DEF n
<1>5. Len(names) = n
  <2> HIDE DEF n
  <2> QED
    BY <1>1, <1>2
<1> QED
  BY <1>1, <1>2, <1>4, <1>5 DEF Surjection

\* Rounding to a hundredth of a rupiah hides a difference below that.
LEMMA CheapIsCheap ==
    ASSUME NEW g, NEW h, NEW raw, NEW amount \in Nat, R!Lists(g, raw), R!Lists(h, raw),
           R!CalculateCost(g, raw, amount) <= R!CalculateCost(h, raw, amount)
    PROVE  ExactFee(g, raw, amount) < ExactFee(h, raw, amount) + 1000
<1>1. ASSUME NEW name \in {g, h}
      PROVE  /\ ExactFee(name, raw, amount) \in Nat
             /\ R!CalculateCost(name, raw, amount) = (ExactFee(name, raw, amount) + 500) \div 1000
  <2> DEFINE p == Providers[name]
             fee == p.fees[R!NormalizeChannel(raw)]
             base == amount * fee.pct + amount * p.platform + fee.fixed * 1000
  <2>1. p.platform \in Nat /\ fee.pct \in Nat /\ fee.fixed \in Nat
    BY GatewayAssumption DEF R!Lists, FeesAreNat
  <2>2. ExactFee(name, raw, amount) = IF fee.vatIncluded THEN base * 100 ELSE base * 111
    BY DEF ExactFee
  <2>3. R!CalculateCost(name, raw, amount)
          = ((amount * (fee.pct + p.platform) + fee.fixed * 1000)
               * (IF fee.vatIncluded THEN 100 ELSE 111) + 500) \div 1000
    BY DEF R!CalculateCost
  <2> HIDE DEF p, fee
  <2>4. amount * (fee.pct + p.platform) + fee.fixed * 1000 = base /\ base \in Nat
    BY <2>1
  <2> HIDE DEF base
  <2> QED
    BY <2>2, <2>3, <2>4
<1> DEFINE eg == ExactFee(g, raw, amount)
           eh == ExactFee(h, raw, amount)
<1>2. eg \in Nat /\ eh \in Nat /\ (eg + 500) \div 1000 <= (eh + 500) \div 1000
  BY <1>1
<1> HIDE DEF eg, eh
<1>3. eg < eh + 1000
  BY <1>2
<1> QED
  BY <1>3 DEF eg, eh

\* A payment gets an order from one of the adapters a call may be delegated to.
LEMMA OrdersComeOfCalls ==
    ASSUME PaidInv, [Next]_vars, NEW p \in Payments, Len(orders'[p]) > Len(orders[p])
    PROVE  \E g \in Delegates(p) :
             /\ Takes(g, want[p].amount) /\ pc[p] = "calling"
             /\ orders'[p][Len(orders'[p])].gw = g
<1>1. orders \in [Payments -> Seq(Order)]
  BY TypedOrders DEF PaidInv
<1>2. ASSUME orders'[p] = orders[p] PROVE FALSE
  BY <1>1, <1>2
<1>3. ASSUME NEW q \in Payments, NEW n \in DOMAIN orders[q], ProviderSays(q, n) \/ Refund(q, n)
      PROVE  FALSE
  <2>1. PICK says : orders' = [orders EXCEPT ![q][n].says = says]
    BY <1>3 DEF ProviderSays, Refund
  <2>2. Len(orders'[p]) = Len(orders[p])
    BY <1>1, <2>1
  <2> QED
    BY <1>1, <2>2
<1>4. ASSUME NEW q \in Payments, Call(q), q # p PROVE orders'[p] = orders[p]
  BY <1>1, <1>4 DEF Call, Refuse, Place
<1>5. CASE Call(p)
  <2>1. PICK g \in Delegates(p) :
          IF Takes(g, want[p].amount)
          THEN \/ \E http \in {0, 200} : Place(p, g, http)
               \/ orders[p] # <<>> /\ Refuse(p)
          ELSE Refuse(p)
    BY <1>5 DEF Call
  <2>2. Takes(g, want[p].amount) /\ \E http \in {0, 200} : Place(p, g, http)
    BY <1>2, <2>1 DEF Refuse
  <2>3. orders'[p] = Append(orders[p], [gw |-> g, says |-> <<>>])
    BY <1>1, <2>2 DEF Place
  <2> DEFINE new == [gw |-> g, says |-> <<>>]
  <2>4. orders'[p][Len(orders'[p])] = new
    <3>1. orders[p] \in Seq(Order)
      BY <1>1
    <3> HIDE DEF new
    <3> QED
      BY <2>3, <3>1 DEF new
  <2> QED
    BY <1>5, <2>2, <2>4 DEF Call
<1>6. ASSUME NEW q \in Payments,
             \/ Begin(q) \/ Prepare(q) \/ Persist(q) \/ Again(q)
             \/ \E n \in DOMAIN orders[q] : \E k \in DOMAIN orders[q][n].says : Deliver(q, n, k)
      PROVE  orders' = orders
  BY <1>6 DEF Begin, Prepare, Persist, Again, Deliver
<1>7. CASE UNCHANGED vars
  BY <1>2, <1>7 DEF vars
<1> QED
  BY <1>2, <1>3, <1>4, <1>5, <1>6, <1>7 DEF Next

LEMMA StepChooses ==
    ASSUME PaidInv, [Next]_vars, NEW p \in Payments,
           deployment.active = Orchestrated, Len(orders'[p]) > Len(orders[p])
    PROVE  LET g == orders'[p][Len(orders'[p])].gw
               listing == {h \in deployment.loaded : R!Lists(h, want[p].channel)}
           IN /\ g \in deployment.loaded
              /\ listing # {} =>
                   /\ g \in listing
                   /\ \A h \in listing :
                        ExactFee(g, want[p].channel, want[p].amount)
                          < ExactFee(h, want[p].channel, want[p].amount) + 1000
<1> DEFINE g == orders'[p][Len(orders'[p])].gw
           raw == want[p].channel
           amount == want[p].amount
           listing == {h \in deployment.loaded : R!Lists(h, raw)}
<1>1. g \in Delegates(p) /\ g # NoGateway /\ pc[p] = "calling"
  BY OrdersComeOfCalls DEF Takes
<1>2. amount \in Nat /\ IsFiniteSet(deployment.loaded)
  <2>1. amount \in Amounts /\ deployment.loaded \in SUBSET AdapterNames
    BY <1>1, GatewayAssumption DEF PaidInv, GatewaysTypeOK, Wants
  <2>2. IsFiniteSet(AdapterNames)
    <3>1. IsFiniteSet({"midtrans"})
      BY FS_Singleton
    <3>2. IsFiniteSet({"midtrans"} \cup {"xendit"})
      BY <3>1, FS_AddElement
    <3>3. IsFiniteSet(({"midtrans"} \cup {"xendit"}) \cup {"doku"})
      BY <3>2, FS_AddElement
    <3>4. IsFiniteSet((({"midtrans"} \cup {"xendit"}) \cup {"doku"}) \cup {"mayar"})
      BY <3>3, FS_AddElement
    <3>5. AdapterNames = (({"midtrans"} \cup {"xendit"}) \cup {"doku"}) \cup {"mayar"}
      BY DEF AdapterNames
    <3> QED
      BY <3>4, <3>5
  <2> QED
    BY <2>1, <2>2, FS_Subset, GatewayAssumption
<1>3. PICK names \in Iterations(deployment.loaded) :
        g = R!SelectBestGateway(names, raw, amount) /\ g \in deployment.loaded
  BY <1>1 DEF Delegates, Selections
<1> HIDE DEF g, amount
<1>4. /\ Len(names) \in Nat
      /\ \A i \in 1 .. Len(names) : names[i] \in deployment.loaded
      /\ \A h \in deployment.loaded : \E i \in 1 .. Len(names) : names[i] = h
  BY <1>2, <1>3, AllAreMet
<1> DEFINE i == R!Cheapest(names, raw, amount)
<1>5. \/ i = 0 /\ \A j \in 1 .. Len(names) : ~R!Lists(names[j], raw)
      \/ /\ i \in 1 .. Len(names) /\ R!Lists(names[i], raw)
         /\ \A j \in 1 .. Len(names) : R!Lists(names[j], raw) =>
              R!CalculateCost(names[i], raw, amount) <= R!CalculateCost(names[j], raw, amount)
  BY <1>2, <1>4, CheapestIsCheapest
<1>6. g = IF i = 0 THEN R!Fallback(raw) ELSE names[i]
  BY <1>3 DEF R!SelectBestGateway
<1> HIDE DEF i
<1>7. ASSUME NEW other \in listing
      PROVE  /\ g \in listing
             /\ ExactFee(g, raw, amount) < ExactFee(other, raw, amount) + 1000
  <2>1. PICK j \in 1 .. Len(names) : names[j] = other
    BY <1>4
  <2>2. /\ i \in 1 .. Len(names) /\ R!Lists(names[i], raw)
        /\ R!CalculateCost(names[i], raw, amount) <= R!CalculateCost(other, raw, amount)
    BY <1>5, <2>1
  <2>3. g = names[i]
    BY <1>4, <1>6, <2>2
  <2> QED
    BY <1>2, <1>3, <2>2, <2>3, CheapIsCheap
<1> QED
  BY <1>3, <1>7 DEF g, amount

-----------------------------------------------------------------------------
(* The theorems. *)

\* The variables keep their types, and an intent that is called for, answered or
\* settled has its row, through createPaymentIntent and every notification.
THEOREM GatewayTypeCorrect == Spec => []GatewaysTypeOK
BY PaidAlways, PTL DEF PaidInv

\* Whatever runs die and are repeated, whichever adapters take the orders, and in
\* whatever order, how often and how late notifications are heard: the facade reports
\* a payment as succeeded only if a provider took money for an order of that payment.
THEOREM PaidIsPaid == Spec => []PaidOnlyIfPaid
BY PaidAlways, PTL DEF PaidInv

\* Once every note of a payment's only order was heard, in order and after the answer to
\* create, the row says what the provider said last. A repeated note never brings an old
\* status back: its key is known, for the table has the keys of just what was heard.
THEOREM RowKeepsUp == Spec => []RowFollowsGateway
BY InitFollow, StepFollow, LatestFollows, PTL DEF Spec

\* The orchestrator's choice is the cheapest adapter that lists the channel, to a
\* hundredth of a rupiah, whatever the table, the amount and the order of the loop, and
\* one that is loaded in any case.
THEOREM CheapestIsChosen == Spec => ChosenIsCheapest
<1>1. PaidInv /\ [Next]_vars =>
        [\A p \in Payments :
           deployment.active = Orchestrated /\ Len(orders'[p]) > Len(orders[p]) =>
              LET g == orders'[p][Len(orders'[p])].gw
                  listing == {h \in deployment.loaded : R!Lists(h, want[p].channel)}
              IN /\ g \in deployment.loaded
                 /\ listing # {} =>
                      /\ g \in listing
                      /\ \A h \in listing :
                           ExactFee(g, want[p].channel, want[p].amount)
                             < ExactFee(h, want[p].channel, want[p].amount) + 1000]_vars
  BY StepChooses
<1> QED
  BY <1>1, PaidAlways, PTL DEF Spec, ChosenIsCheapest
==============================================================================
