------------------------------- MODULE Gateways -------------------------------
(***************************************************************************)
(* One payment from its creation at a provider to the provider's last word:*)
(* the facade with one adapter active, or with the orchestrator of         *)
(* internal/orchestrator/router_gateway.go over several, on the durable    *)
(* store.                                                                  *)
(*                                                                         *)
(* createPaymentIntent writes the intent, places an order with the adapter *)
(* that is active or chosen, and writes the answer.  A run that dies is    *)
(* repeated under the same reference, and may place a second order, with   *)
(* another provider too.  A notification says one word of one order; it may*)
(* arrive late, twice, never, or in any order, and is refused when its     *)
(* adapter does not get to see it.                                         *)
(*                                                                         *)
(* Modules PaymentIntents and Inbound have the details of create and of a  *)
(* notification's transaction, which is one step here.                     *)
(***************************************************************************)
EXTENDS Adapters, Integers, Sequences, FiniteSets

CONSTANTS Payments,
          Deployments,      \* [active, loaded]: the settings the facade may be started with
          Channels, Amounts,
          Providers, FallbackPriority,
          MaxWords,         \* bound: words of all orders of a payment
          MaxFaults         \* bound: create runs that die or are refused by the provider

Orchestrated == "orchestrated"
NoGateway == "none"

\* No fee is negative: the code tells a fee from none by a flag, the model by its sign.
FeesAreNat ==
    \A name \in DOMAIN Providers :
        /\ Providers[name].platform \in Nat
        /\ \A channel \in DOMAIN Providers[name].fees :
             LET fee == Providers[name].fees[channel] IN fee.pct \in Nat /\ fee.fixed \in Nat

ASSUME GatewayAssumption ==
    /\ Deployments \subseteq [active : AdapterNames \cup {Orchestrated},
                              loaded : SUBSET AdapterNames]
    /\ Amounts \subseteq Nat
    /\ FeesAreNat
    /\ "none" \notin Payments
    /\ MaxWords \in Nat /\ MaxFaults \in Nat

R == INSTANCE Router

VARIABLES deployment,
          pc, want,   \* create: its phase, and the channel and amount asked for
          answer,     \* create: what the adapter returned
          orders,     \* the orders placed for a payment: provider, and the notes it says
          row,        \* payment_intents.status
          gatewayRef, \* payment_intents.gateway_reference
          seen,       \* inbound_events by provider_event_id and event_type
          heard,      \* notes that were acknowledged, as pairs of order and place
          disturbed,  \* history: payments with a note out of order, or before the answer
          faults

createVars == <<pc, want, answer>>
rowVars == <<row, gatewayRef>>
inboundVars == <<seen, heard, disturbed>>
vars == <<deployment, createVars, orders, rowVars, inboundVars, faults>>

\* The words of all providers.
NoteWords == {"pending", "capture", "capture_challenge", "capture_deny", "authorize",
              "settlement", "deny", "failure", "expire", "cancel", "refund", "partial_refund",
              "PENDING", "PAID", "SETTLED", "EXPIRED", "SUCCESS", "FAILED",
              "reminder", "received"}
Notes == [word : NoteWords, try : Nat]
Wants == [channel : Channels, amount : Amounts]
NoWant == [channel |-> "none", amount |-> 0]
NoRef == OrderRef("none", 0)
NoAnswer == [ok |-> FALSE, gatewayRef |-> NoRef, status |-> "none"]

GatewaysTypeOK ==
    /\ deployment \in Deployments
    /\ pc \in [Payments -> {"new", "preparing", "calling", "answered", "done", "failed"}]
    /\ DOMAIN want = Payments
    /\ \A p \in Payments : pc[p] # "new" => want[p] \in Wants
    /\ orders \in [Payments -> Seq([gw : AdapterNames, says : Seq(Notes)])]
    /\ DOMAIN answer = Payments
    /\ \A p \in Payments : pc[p] = "answered" /\ answer[p].ok =>
                             answer[p].status \in Statuses /\ orders[p] # <<>>
    /\ row \in [Payments -> Statuses \cup {"absent"}]
    /\ \A p \in Payments : pc[p] \in {"calling", "answered", "done", "failed"}
                             => row[p] # "absent"
    /\ DOMAIN gatewayRef = Payments
    /\ heard \in [Payments -> SUBSET (Nat \X Nat)]
    /\ disturbed \subseteq Payments
    /\ faults \in Nat

Init ==
    /\ deployment \in Deployments
    /\ pc = [p \in Payments |-> "new"]
    /\ want = [p \in Payments |-> NoWant]
    /\ answer = [p \in Payments |-> NoAnswer]
    /\ orders = [p \in Payments |-> <<>>]
    /\ row = [p \in Payments |-> "absent"]
    /\ gatewayRef = [p \in Payments |-> NoRef]
    /\ seen = {}
    /\ heard = [p \in Payments |-> {}]
    /\ disturbed = {}
    /\ faults = 0

Goto(p, place) == pc' = [pc EXCEPT ![p] = place]

-----------------------------------------------------------------------------
(* createPaymentIntent. *)

Begin(p) ==
    /\ pc[p] = "new"
    /\ \E w \in Wants : want' = [want EXCEPT ![p] = w]
    /\ Goto(p, "preparing")
    /\ UNCHANGED <<deployment, answer, orders, rowVars, inboundVars, faults>>

\* The intent is written before the provider is called, over an earlier run's.
Prepare(p) ==
    /\ pc[p] = "preparing"
    /\ row' = [row EXCEPT ![p] = "requires_payment_method"]
    /\ gatewayRef' = [gatewayRef EXCEPT ![p] = NoRef]
    /\ disturbed' = IF heard[p] # {} THEN disturbed \cup {p} ELSE disturbed
    /\ Goto(p, "calling")
    /\ UNCHANGED <<deployment, want, answer, orders, seen, heard, faults>>

\* Every order in which the loop may meet the loaded adapters: they are in a Go map.
Iterations(S) == {s \in [1 .. Cardinality(S) -> S] : \A i, j \in DOMAIN s : s[i] = s[j] => i = j}

\* OrchestratedGateway.CreatePayment up to the adapter's call.
Selections(p) ==
    {R!SelectBestGateway(names, want[p].channel, want[p].amount) :
        names \in Iterations(deployment.loaded)}

\* The adapters a call may be delegated to; NoGateway when it fails before.
Delegates(p) ==
    IF deployment.active # Orchestrated THEN {deployment.active}
    ELSE IF deployment.loaded = {} THEN {NoGateway}
    ELSE {IF g \in deployment.loaded THEN g ELSE NoGateway : g \in Selections(p)}

\* All adapters want a positive amount.
Takes(g, amount) == g # NoGateway /\ amount > 0

Refuse(p) ==
    /\ answer' = [answer EXCEPT ![p] = NoAnswer]
    /\ UNCHANGED <<orders, faults>>

\* The provider takes the order, but not every answer arrives.
Place(p, g, http) ==
    LET n == Len(orders[p]) + 1
        made == CreatePayment(g, p, n)
    IN /\ orders' = [orders EXCEPT ![p] = Append(@, [gw |-> g, says |-> <<>>])]
       /\ answer' = [answer EXCEPT ![p] =
             IF AnsweredWell(http)
             THEN [ok |-> TRUE, gatewayRef |-> made.gatewayRef, status |-> made.status]
             ELSE NoAnswer]
       /\ IF AnsweredWell(http) THEN faults' = faults
                                ELSE faults < MaxFaults /\ faults' = faults + 1

\* A provider that is told a reference again may take or refuse it.
Call(p) ==
    /\ pc[p] = "calling"
    /\ \E g \in Delegates(p) :
         IF Takes(g, want[p].amount)
         THEN \/ \E http \in {0, 200} : Place(p, g, http)
              \/ orders[p] # <<>> /\ Refuse(p)
         ELSE Refuse(p)
    /\ Goto(p, "answered")
    /\ UNCHANGED <<deployment, want, rowVars, inboundVars>>

\* The outcome goes into the row, whatever a notification wrote meanwhile.
Persist(p) ==
    /\ pc[p] = "answered"
    /\ IF answer[p].ok
       THEN /\ row' = [row EXCEPT ![p] = answer[p].status]
            /\ gatewayRef' = [gatewayRef EXCEPT ![p] = answer[p].gatewayRef]
            /\ Goto(p, "done")
       ELSE /\ row' = [row EXCEPT ![p] = "canceled"]
            /\ UNCHANGED gatewayRef
            /\ Goto(p, "failed")
    /\ UNCHANGED <<deployment, want, answer, orders, inboundVars, faults>>

\* The run dies, or its client repeats the request after a 502.
Again(p) ==
    /\ pc[p] \in {"calling", "answered", "failed"}
    /\ faults < MaxFaults
    /\ faults' = faults + 1
    /\ Goto(p, "preparing")
    /\ UNCHANGED <<deployment, want, answer, orders, rowVars, inboundVars>>

-----------------------------------------------------------------------------
(* The provider. *)

\* What may follow a word in the life of an order; "" is its beginning.  The words
\* are those of the adapters' status tables; refunds have an action of their own.
Follows(g, word) ==
    CASE g = "midtrans" ->
           CASE word = "" -> {"pending", "capture", "capture_challenge", "authorize", "deny"}
             [] word = "pending" -> {"settlement", "expire", "cancel", "failure"}
             [] word = "capture" -> {"settlement", "cancel"}
             [] word = "capture_challenge" -> {"capture", "capture_deny"}
             [] word = "authorize" -> {"capture", "cancel"}
             [] word \in {"deny", "failure", "capture_deny"} -> {"pending", "capture"}
             [] OTHER -> {}
      [] g = "xendit" ->
           CASE word = "" -> {"PENDING", "PAID", "EXPIRED"}
             [] word = "PENDING" -> {"PAID", "EXPIRED"}
             [] word = "PAID" -> {"SETTLED"}
             [] OTHER -> {}
      [] g = "doku" ->
           CASE word \in {"", "FAILED"} -> {"PENDING", "SUCCESS", "FAILED"}
             [] word = "PENDING" -> {"SUCCESS", "FAILED"}
             [] OTHER -> {}
      [] OTHER ->
           CASE word \in {"", "reminder"} -> {"reminder", "received"}
             [] OTHER -> {}

Words(p) == UNION {{n} \X DOMAIN orders[p][n].says : n \in DOMAIN orders[p]}

\* A refused attempt is followed by another transaction of the same order.
NextNote(order, word) ==
    IF order.says = <<>> THEN [word |-> word, try |-> 1]
    ELSE LET before == order.says[Len(order.says)]
             again == before.word \in {"deny", "failure", "capture_deny"}
         IN [word |-> word, try |-> before.try + (IF again THEN 1 ELSE 0)]

LastWord(order) == IF order.says = <<>> THEN "" ELSE order.says[Len(order.says)].word

ProviderSays(p, n) ==
    /\ n \in DOMAIN orders[p]
    /\ Cardinality(Words(p)) < MaxWords
    /\ \E word \in Follows(orders[p][n].gw, LastWord(orders[p][n])) :
         orders' = [orders EXCEPT ![p][n].says = Append(@, NextNote(orders[p][n], word))]
    /\ UNCHANGED <<deployment, createVars, rowVars, inboundVars, faults>>

\* The gateway a refund is sent to.  The server names the payment by its pi_ id, which
\* has no pf_ prefix for the orchestrator to route by.
RefundTargets == IF deployment.active = Orchestrated THEN {} ELSE {deployment.active}

\* createRefund's call.  Midtrans takes the pi_ id for the order's and says later that
\* it refunded; Xendit wants its own id of the payment, DOKU's and Mayar's adapters
\* refuse.
Refund(p, n) ==
    /\ row[p] # "absent"
    /\ "midtrans" \in RefundTargets
    /\ LastWord(orders[p][n]) \in {"settlement", "partial_refund"}
    /\ Cardinality(Words(p)) < MaxWords
    /\ \E word \in {"refund", "partial_refund"} :
         orders' = [orders EXCEPT ![p][n].says = Append(@, NextNote(orders[p][n], word))]
    /\ UNCHANGED <<deployment, createVars, rowVars, inboundVars, faults>>

-----------------------------------------------------------------------------
(* A notification. *)

\* The only adapter gets the request as it came.  The orchestrator asks the adapters
\* in any order: one that reads the body leaves the next ones none, and a
\* notification without an event counts as not parsed.  DOKU signs the path it
\* posts to, /v1/webhooks/orchestrated, while its adapter expects its own.
Parsed(g, before, events) ==
    IF deployment.active # Orchestrated THEN g = deployment.active
    ELSE /\ g \in deployment.loaded \ {"doku"}
         /\ before \subseteq deployment.loaded \ {g}
         /\ before \cap BodyReaders = {}
         /\ events # {}

\* findIntentByRef: by our own reference, else by the gateway's.
Found(ref) ==
    LET own == {p \in Payments : ref = PiRef(p) /\ row[p] # "absent"}
    IN IF own # {} THEN own ELSE {p \in Payments : gatewayRef[p] = ref}

\* Mutant of Key: one notification of an event's identity is enough.
KeyIdOnly(event) == [id |-> event.id, type |-> "any"]

\* Duplicates share the provider's identity and the type of the event.
Key(event) == [id |-> event.id, type |-> event.type]

\* ClaimInbound and applyInboundEvent in one transaction, per event.
Apply(event) ==
    /\ seen' = seen \cup {Key(event)}
    /\ row' = [p \in Payments |->
                 IF Key(event) \notin seen /\ p \in Found(event.ref) THEN event.status
                 ELSE row[p]]

\* The events of a note; none, if it has no meaning to the facade.
Meant(p, n, k) == ParseWebhook(orders[p][n].gw, p, n, orders[p][n].says[k])

Late(p, n, k) == \E note \in heard[p] : note[1] # n \/ note[2] > k

Deliver(p, n, k) ==
    LET events == Meant(p, n, k)
    IN /\ <<n, k>> \in Words(p)
       /\ \E before \in SUBSET deployment.loaded : Parsed(orders[p][n].gw, before, events)
       /\ IF events = {} THEN UNCHANGED <<seen, row>>
          ELSE \E event \in events : Apply(event)
       /\ heard' = [heard EXCEPT ![p] = @ \cup {<<n, k>>}]
       /\ disturbed' = IF pc[p] # "done" \/ (<<n, k>> \notin heard[p] /\ Late(p, n, k))
                       THEN disturbed \cup {p} ELSE disturbed
    /\ UNCHANGED <<deployment, createVars, orders, gatewayRef, faults>>

-----------------------------------------------------------------------------
Next ==
    \E p \in Payments :
        \/ Begin(p) \/ Prepare(p) \/ Call(p) \/ Persist(p) \/ Again(p)
        \/ \E n \in DOMAIN orders[p] :
             \/ ProviderSays(p, n) \/ Refund(p, n)
             \/ \E k \in DOMAIN orders[p][n].says : Deliver(p, n, k)

Spec == Init /\ [][Next]_vars

-----------------------------------------------------------------------------
(* Properties. *)

\* Words by which a provider says that it has, or had, the customer's money; a
\* challenged capture may yet turn out otherwise.
TookMoney == {"settlement", "capture", "capture_challenge", "refund", "partial_refund",
              "PAID", "SETTLED", "SUCCESS", "received"}

\* An intent is reported as succeeded only if an order placed for it was paid: no
\* mistaken identity, repeated run or reordering makes a payment up.
PaidOnlyIfPaid ==
    \A p \in Payments : row[p] = "succeeded" =>
        \E n \in DOMAIN orders[p] : \E k \in DOMAIN orders[p][n].says :
            orders[p][n].says[k].word \in TookMoney

\* No note is taken for a copy of an earlier one with something else said in between.
Distinguishable(p) ==
    \A i, j, k \in DOMAIN orders[p][1].says :
        i < j /\ j <= k =>
          \A a \in Meant(p, 1, i), b \in Meant(p, 1, j), c \in Meant(p, 1, k) :
              a.id = c.id /\ a.type = c.type => b.status = a.status

\* Once every note of a payment's only order was heard, in order and after the answer
\* to create, the intent says what the provider said last, however often each
\* note was repeated: a copy of an old note never brings an old status back.
RowFollowsGateway ==
    \A p \in Payments :
        /\ pc[p] = "done" /\ Len(orders[p]) = 1
        /\ heard[p] = Words(p) /\ p \notin disturbed
        /\ Distinguishable(p)
        => LET telling == {k \in DOMAIN orders[p][1].says : Meant(p, 1, k) # {}}
           IN IF telling = {} THEN row[p] = "requires_action"
              ELSE \E k \in telling :
                     /\ \A j \in telling : j <= k
                     /\ \A e \in Meant(p, 1, k) : row[p] = e.status
                     /\ row[p] = "succeeded" <=> orders[p][1].says[k].word \in TookMoney

\* A provider's fee before rounding, from the table alone.
ExactFee(name, raw, amount) ==
    LET p == Providers[name]
        fee == p.fees[R!NormalizeChannel(raw)]
        base == amount * fee.pct + amount * p.platform + fee.fixed * 1000
    IN IF fee.vatIncluded THEN base * 100 ELSE base * 111

\* The orchestrator places an order where its fee is lowest, to a hundredth of a
\* rupiah, among the adapters it has, if any of them lists the channel.
ChosenIsCheapest ==
    [][\A p \in Payments :
         deployment.active = Orchestrated /\ Len(orders'[p]) > Len(orders[p]) =>
            LET g == orders'[p][Len(orders'[p])].gw
                listing == {h \in deployment.loaded : R!Lists(h, want[p].channel)}
            IN /\ g \in deployment.loaded
               /\ listing # {} =>
                    /\ g \in listing
                    /\ \A h \in listing :
                         ExactFee(g, want[p].channel, want[p].amount)
                           < ExactFee(h, want[p].channel, want[p].amount) + 1000]_vars
===============================================================================
