------------------------------ MODULE MemoryMode ------------------------------
(***************************************************************************)
(* The facade without a database: the handlers of internal/server over     *)
(* store.Memory (internal/store/memory.go), and the deliverer over its     *)
(* queue, from the start of the process to its end, which takes everything *)
(* with it.                                                                *)
(*                                                                         *)
(* The store's mutex is held for one operation at a time, so a handler is a*)
(* sequence of such operations: a notification reads the intent, writes all*)
(* of it back, queues the event, completes the session and queues that     *)
(* event; confirm reads the intent and writes all of it back.  Nothing is  *)
(* stored before the provider is called, nothing tells two deliveries of   *)
(* one notification apart, and any number of handlers run at once.         *)
(***************************************************************************)
EXTENDS Naturals, Sequences, FiniteSets

CONSTANTS Payments,
          Checkout,     \* the payments created through a checkout session
          Notices,      \* notification requests
          Said,         \* the statuses they carry
          Confirms,     \* confirm requests with a return_url
          MaxAttempts,  \* deliveries of one event
          NoEvent, NoPayment

Created == "requires_action"
Statuses == Said \cup {Created}
\* The events of a notification: the intent's and the session's.
Events == {"intent", "session"} \X Notices

ASSUME MemoryAssumption ==
    /\ Checkout \subseteq Payments
    /\ "absent" \notin Statuses
    /\ NoPayment \notin Payments
    /\ NoEvent \notin Events
    /\ MaxAttempts \in Nat \ {0}

VARIABLES intent,     \* Status of m.intents
          session,    \* Status of m.sessions, by payment
          made,       \* create's phase
          pc, job,    \* the notifications' handlers
          cpc, copy,  \* the confirms' handlers
          queue,      \* Status of m.webhooks
          attempts,   \* Attempts of m.webhooks
          working,    \* the event the deliverer has leased
          took,       \* the merchant took the delivery under way
          confirmed,  \* events the merchant has taken
          feed,       \* history: the statuses of a payment's events, as they were queued
          raced,      \* history: payments of which two handlers held a copy at once
          early       \* history: payments with a notification before all was stored

handlerVars == <<pc, job, cpc, copy>>
deliveryVars == <<queue, attempts, working, took, confirmed>>
historyVars == <<feed, raced, early>>
vars == <<intent, session, made, handlerVars, deliveryVars, historyVars>>

QueueStatuses == {"absent", "pending", "in_flight", "delivered", "failed"}
NoJob == [of |-> NoPayment, status |-> Created]

MemoryTypeOK ==
    /\ intent \in [Payments -> Statuses \cup {"absent"}]
    /\ session \in [Payments -> {"none", "open", "complete"}]
    /\ made \in [Payments -> {"new", "called", "stored", "done"}]
    /\ \A p \in Payments : intent[p] = "absent" <=> made[p] \in {"new", "called"}
    /\ \A p \in Payments : session[p] # "none" => p \in Checkout /\ made[p] = "done"
    /\ pc \in [Notices -> {"waiting", "read", "put", "told", "completed", "done"}]
    /\ job \in [Notices -> [of : Payments \cup {NoPayment}, status : Statuses]]
    /\ \A n \in Notices : pc[n] \in {"read", "put", "told", "completed"} => job[n].of \in Payments
    /\ cpc \in [Confirms -> {"waiting", "read", "done"}]
    /\ copy \in [Confirms -> [of : Payments \cup {NoPayment}, status : Statuses]]
    /\ \A c \in Confirms : cpc[c] = "read" => copy[c].of \in Payments
    /\ queue \in [Events -> QueueStatuses]
    /\ attempts \in [Events -> Nat]
    /\ working \in Events \cup {NoEvent}
    /\ \A e \in Events : queue[e] = "in_flight" <=> working = e
    /\ took \in {"none", "yes", "no"}
    /\ confirmed \subseteq Events
    /\ feed \in [Payments -> Seq(Statuses)]
    /\ raced \subseteq Payments /\ early \subseteq Payments

Init ==
    /\ intent = [p \in Payments |-> "absent"]
    /\ session = [p \in Payments |-> "none"]
    /\ made = [p \in Payments |-> "new"]
    /\ pc = [n \in Notices |-> "waiting"]
    /\ job = [n \in Notices |-> NoJob]
    /\ cpc = [c \in Confirms |-> "waiting"]
    /\ copy = [c \in Confirms |-> NoJob]
    /\ queue = [e \in Events |-> "absent"] /\ attempts = [e \in Events |-> 0]
    /\ working = NoEvent /\ took = "none" /\ confirmed = {}
    /\ feed = [p \in Payments |-> <<>>]
    /\ raced = {} /\ early = {}

-----------------------------------------------------------------------------
(* Operations of the store on an intent: each copies it in or out. *)

Put(p, status) == intent' = [intent EXCEPT ![p] = status]

\* Get by our own reference, GetByGatewayReference by the provider's.
Known(p) == intent[p] # "absent"

-----------------------------------------------------------------------------
(* createPaymentIntent and createCheckoutSession. *)

\* CreatePayment goes first, under a reference the store does not know yet.
CallProvider(p) ==
    /\ made[p] = "new"
    /\ made' = [made EXCEPT ![p] = "called"]
    /\ UNCHANGED <<intent, session, handlerVars, deliveryVars, historyVars>>

\* The intent as the provider answered; a failed call leaves nothing in the store.
PutIntent(p) ==
    /\ made[p] = "called"
    /\ Put(p, Created)
    /\ made' = [made EXCEPT ![p] = IF p \in Checkout THEN "stored" ELSE "done"]
    /\ UNCHANGED <<session, handlerVars, deliveryVars, historyVars>>

PutSession(p) ==
    /\ made[p] = "stored"
    /\ session' = [session EXCEPT ![p] = "open"]
    /\ made' = [made EXCEPT ![p] = "done"]
    /\ UNCHANGED <<intent, handlerVars, deliveryVars, historyVars>>

-----------------------------------------------------------------------------
(* handleWebhookIn without an InboundStore: processEvent. *)

Goto(n, place) == pc' = [pc EXCEPT ![n] = place] /\ UNCHANGED job

Finish(n) == pc' = [pc EXCEPT ![n] = "done"] /\ job' = [job EXCEPT ![n] = NoJob]

\* Handlers that hold, or are about to tell of, a copy of the intent.
Holding(p) == \/ \E n \in Notices : pc[n] \in {"read", "put"} /\ job[n].of = p
              \/ \E c \in Confirms : cpc[c] = "read" /\ copy[c].of = p

NoteRace(p) == raced' = IF Holding(p) THEN raced \cup {p} ELSE raced

\* Mutant of Unchanged: every delivery is applied.
UnchangedNever(p, status) == FALSE

\* The skip of a status the intent has already.
Unchanged(p, status) == intent[p] = status

\* An unknown reference and a status that is no news are acknowledged and forgotten.
ReadIntent(n) ==
    /\ pc[n] = "waiting"
    /\ \E p \in Payments, status \in Said :
         /\ made[p] # "new"
         /\ early' = IF made[p] # "done" THEN early \cup {p} ELSE early
         /\ IF ~Known(p) \/ Unchanged(p, status)
            THEN Finish(n) /\ UNCHANGED raced
            ELSE /\ pc' = [pc EXCEPT ![n] = "read"]
                 /\ job' = [job EXCEPT ![n] = [of |-> p, status |-> status]]
                 /\ NoteRace(p)
    /\ UNCHANGED <<intent, session, made, cpc, copy, deliveryVars, feed>>

\* Mutant of PutStatus: the status is stored, and the merchant not told.
PutStatusSilently(n) ==
    /\ pc[n] = "read"
    /\ Put(job[n].of, job[n].status)
    /\ Finish(n)
    /\ UNCHANGED <<session, made, cpc, copy, deliveryVars, historyVars>>

PutStatus(n) ==
    /\ pc[n] = "read"
    /\ Put(job[n].of, job[n].status)
    /\ Goto(n, "put")
    /\ UNCHANGED <<session, made, cpc, copy, deliveryVars, historyVars>>

\* EnqueueWebhook of a fresh evt_ id.
Enqueue(e) == queue' = [queue EXCEPT ![e] = "pending"]

Tell(n) ==
    /\ pc[n] = "put"
    /\ Enqueue(<<"intent", n>>)
    /\ feed' = [feed EXCEPT ![job[n].of] = Append(@, job[n].status)]
    /\ IF job[n].status = "succeeded" THEN Goto(n, "told") ELSE Finish(n)
    /\ UNCHANGED <<intent, session, made, cpc, copy, attempts, working, took, confirmed, raced,
                   early>>

\* Mutant of Paid: a session the customer has paid for stays open.
PaidUncompleted(p) == FALSE

\* Mutant of Paid: the session of a paid intent is taken to be stored.
PaidAlways(p) == TRUE

\* GetSessionByPaymentIntent finds one, whatever its status.
Paid(p) == session[p] # "none"

CompleteSession(n) ==
    /\ pc[n] = "told"
    /\ IF Paid(job[n].of)
       THEN session' = [session EXCEPT ![job[n].of] = "complete"] /\ Goto(n, "completed")
       ELSE UNCHANGED session /\ Finish(n)
    /\ UNCHANGED <<intent, made, cpc, copy, deliveryVars, historyVars>>

TellSession(n) ==
    /\ pc[n] = "completed"
    /\ Enqueue(<<"session", n>>)
    /\ Finish(n)
    /\ UNCHANGED <<intent, session, made, cpc, copy, attempts, working, took, confirmed,
                   historyVars>>

-----------------------------------------------------------------------------
(* confirmPaymentIntent: the intent with a new return URL. *)

ConfirmRead(c) ==
    /\ cpc[c] = "waiting"
    /\ \E p \in Payments :
         /\ Known(p)
         /\ copy' = [copy EXCEPT ![c] = [of |-> p, status |-> intent[p]]]
         /\ NoteRace(p)
    /\ cpc' = [cpc EXCEPT ![c] = "read"]
    /\ UNCHANGED <<intent, session, made, pc, job, deliveryVars, feed, early>>

ConfirmWrite(c) ==
    /\ cpc[c] = "read"
    /\ Put(copy[c].of, copy[c].status)
    /\ cpc' = [cpc EXCEPT ![c] = "done"]
    /\ copy' = [copy EXCEPT ![c] = NoJob]
    /\ UNCHANGED <<session, made, pc, job, deliveryVars, historyVars>>

-----------------------------------------------------------------------------
(* The deliverer: one goroutine. *)

\* Mutant of Due: the time of a retry never comes.
DueOnce(e) == queue[e] = "pending" /\ attempts[e] = 0

\* A pending event is due sooner or later.
Due(e) == queue[e] = "pending"

\* Event ids are random, so the first of them in sorted order is any due one.
LeaseDueWebhook(e) ==
    /\ working = NoEvent
    /\ Due(e)
    /\ queue' = [queue EXCEPT ![e] = "in_flight"]
    /\ attempts' = [attempts EXCEPT ![e] = @ + 1]
    /\ working' = e
    /\ UNCHANGED <<intent, session, made, handlerVars, took, confirmed, historyVars>>

\* The merchant takes the event and says so, takes it in vain, or does not take it.
DeliverPayload ==
    /\ working # NoEvent /\ took = "none"
    /\ \/ took' = "yes" /\ confirmed' = confirmed \cup {working}
       \/ took' = "no" /\ confirmed' \in {confirmed, confirmed \cup {working}}
    /\ UNCHANGED <<intent, session, made, handlerVars, queue, attempts, working, historyVars>>

\* Mutant of OutOfAttempts: the last attempt is not made.
OutOfAttemptsEarly(e) == attempts[e] + 1 >= MaxAttempts

OutOfAttempts(e) == attempts[e] >= MaxAttempts

\* CompleteWebhook's verdict.
Resolved(e) ==
    IF took = "yes" THEN "delivered"
    ELSE IF OutOfAttempts(e) THEN "failed" ELSE "pending"

CompleteWebhook ==
    /\ took # "none"
    /\ queue' = [queue EXCEPT ![working] = Resolved(working)]
    /\ working' = NoEvent /\ took' = "none"
    /\ UNCHANGED <<intent, session, made, handlerVars, attempts, confirmed, historyVars>>

-----------------------------------------------------------------------------
CreateStep(p) == CallProvider(p) \/ PutIntent(p) \/ PutSession(p)
DelivererStep == (\E e \in Events : LeaseDueWebhook(e)) \/ DeliverPayload \/ CompleteWebhook
NoticeStep(n) == ReadIntent(n) \/ PutStatus(n) \/ Tell(n) \/ CompleteSession(n) \/ TellSession(n)

Next ==
    \/ \E p \in Payments : CreateStep(p)
    \/ \E n \in Notices : NoticeStep(n)
    \/ \E c \in Confirms : ConfirmRead(c) \/ ConfirmWrite(c)
    \/ DelivererStep

Spec == Init /\ [][Next]_vars

\* The deliverer polls, leases while something is due, and its requests time out.
\* Nothing says which of the due events it takes.
Fairness == WF_vars(DelivererStep)

FairSpec == Spec /\ Fairness

-----------------------------------------------------------------------------
(* Properties. *)

Idle(p) == \A n \in Notices : job[n].of # p

\* As long as no two handlers hold a copy of one intent at once, the merchant's feed
\* follows it: each event tells news, and the last one the status the intent has.
FeedFollowsStatus ==
    \A p \in Payments \ raced :
        /\ \A i \in 1 .. Len(feed[p]) - 1 : feed[p][i] # feed[p][i + 1]
        /\ Idle(p) /\ intent[p] # "absent" =>
             intent[p] = IF feed[p] = <<>> THEN Created ELSE feed[p][Len(feed[p])]

\* Even when handlers race, an intent has no status but the one it was created with
\* and those the merchant is told of.
StatusIsTold ==
    \A p \in Payments : intent[p] \notin {"absent", Created} =>
        \/ \E i \in DOMAIN feed[p] : feed[p][i] = intent[p]
        \/ \E n \in Notices : pc[n] = "put" /\ job[n].of = p /\ job[n].status = intent[p]

\* A session is complete once its intent has succeeded, unless the news came before
\* the session was stored, and only then.
SessionCompletes ==
    \A p \in Checkout :
        /\ Idle(p) /\ intent[p] = "succeeded" /\ p \notin early => session[p] = "complete"
        /\ session[p] = "complete" => \E i \in DOMAIN feed[p] : feed[p][i] = "succeeded"

\* The queue is emptied again and again: every event in it is delivered, or given up
\* after all its attempts, and none is left in flight.
QueueDrains ==
    (\E e \in Events : queue[e] = "pending")
        ~> (\A e \in Events : queue[e] \notin {"pending", "in_flight"})

-----------------------------------------------------------------------------
\* What the merchant is promised about each event, with the queue in memory.
PhaseOf(e) ==
    CASE queue[e] \in {"pending", "in_flight"} -> "owed"
      [] queue[e] = "failed" -> "dead"
      [] OTHER -> queue[e]

Delivery == INSTANCE EventDelivery WITH
    phase <- [e \in Events |-> PhaseOf(e)],
    tries <- attempts,
    reopened <- 0

MemoryImplementsDelivery == Delivery!DeliverySpec
===============================================================================
