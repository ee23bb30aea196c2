--------------------------- MODULE PaymentIntents ----------------------------
(***************************************************************************)
(* The life of one durable payment intent: createPaymentIntent and         *)
(* confirmPaymentIntent (internal/server/paymentintent.go) over WriteIntent*)
(* and SetIntentStatus (internal/storepg/store.go), while notifications are*)
(* applied to the same row.                                                *)
(*                                                                         *)
(* create has three phases: it persists the intent, calls the provider with*)
(* no transaction open, and persists the outcome.  confirm reads the row   *)
(* and, in a later transaction, writes all of it back with a new return    *)
(* URL.  A notification is one step here (module Inbound has its details); *)
(* the claim on create's idempotency key is one bit, closed (module        *)
(* Idempotency has its details).                                           *)
(***************************************************************************)
EXTENDS Naturals, Sequences

CONSTANTS Creators,    \* goroutines serving create requests with one key
          Confirmers,  \* goroutines serving confirm requests with a return_url
          MaxFaults    \* bound: crashes, failed transactions, provider errors,
                       \* lapsed claims

ASSUME IntentAssumption == MaxFaults \in Nat /\ Creators \cap Confirmers = {}

VARIABLES status,     \* payment_intents.status, "absent" before the first write
          action,     \* next_action_type is set
          log,        \* payment_transitions
          pc,         \* all handlers
          answer,     \* what the provider told a creator
          read,       \* the status of the row a confirmer has read
          closed,     \* create's answer is stored under its key
          provider,   \* the provider's transaction for this reference
          notified,   \* its final status was applied
          overlapped, \* history: a handler was at work across that moment
          faults

rowVars == <<status, action, log>>
handlerVars == <<pc, answer, read, closed>>
providerVars == <<provider, notified, overlapped>>
vars == <<rowVars, handlerVars, providerVars, faults>>

Statuses == {"requires_payment_method", "requires_action", "succeeded", "canceled"}
\* The statuses that end a payment: paid, refused, canceled or expired.
Final == {"succeeded", "requires_payment_method", "canceled"}

IntentTypeOK ==
    /\ status \in Statuses \cup {"absent"}
    /\ action \in BOOLEAN
    /\ log \in Seq([from : Statuses, to : Statuses])
    /\ pc \in [Creators \cup Confirmers ->
               {"idle", "preparing", "calling", "answered", "finalizing", "writing"}]
    /\ answer \in [Creators -> {"none", "accepted", "error"}]
    /\ read \in [Confirmers -> Statuses \cup {"absent"}]
    /\ \A c \in Confirmers : pc[c] = "writing" => read[c] \in Statuses
    /\ \A h \in Creators : pc[h] = "answered" <=> answer[h] # "none"
    /\ closed \in BOOLEAN
    /\ provider \in {"none", "open"} \cup Final
    /\ notified \in BOOLEAN /\ overlapped \in BOOLEAN
    /\ faults \in Nat

Init ==
    /\ status = "absent" /\ action = FALSE /\ log = <<>>
    /\ pc = [h \in Creators \cup Confirmers |-> "idle"]
    /\ answer = [h \in Creators |-> "none"]
    /\ read = [c \in Confirmers |-> "absent"]
    /\ closed = FALSE
    /\ provider = "none" /\ notified = FALSE /\ overlapped = FALSE
    /\ faults = 0

Goto(h, place) == pc' = [pc EXCEPT ![h] = place]

\* Mutant of Record: only what happens to a created intent is recorded.
RecordAfterCreate(from, to) ==
    log' = IF from = "requires_payment_method" THEN log
           ELSE Append(log, [from |-> from, to |-> to])

Record(from, to) == log' = Append(log, [from |-> from, to |-> to])

-----------------------------------------------------------------------------
(* createPaymentIntent. *)

\* The request, its retry, or a recovery of its lapsed claim.
BeginCreate(h) ==
    /\ pc[h] = "idle" /\ ~closed
    /\ IF \E g \in Creators : pc[g] # "idle"
       THEN faults < MaxFaults /\ faults' = faults + 1
       ELSE faults' = faults
    /\ Goto(h, "preparing")
    /\ UNCHANGED <<rowVars, answer, read, closed, providerVars>>

\* Mutant of Prepared: the intent is kept in memory until the provider answers.
PreparedInMemory(h) == status

\* The status phase 1 writes, and over an existing row as well.
Prepared(h) == "requires_payment_method"

\* Phase 1: WriteIntent replaces every column of an earlier run's row.
Prepare(h) ==
    /\ pc[h] = "preparing"
    /\ status' = Prepared(h)
    /\ action' = FALSE
    /\ overlapped' = (overlapped \/ notified)
    /\ Goto(h, "calling")
    /\ UNCHANGED <<log, answer, read, closed, provider, notified, faults>>

\* Phase 2: CreatePayment under the reference of the intent.  A repeated
\* reference may be accepted or refused; an error may hide an accepted payment.
CallProvider(h) ==
    /\ pc[h] = "calling"
    /\ \/ /\ answer' = [answer EXCEPT ![h] = "accepted"]
          /\ provider' = IF provider = "none" THEN "open" ELSE provider
          /\ faults' = faults
       \/ /\ faults < MaxFaults
          /\ answer' = [answer EXCEPT ![h] = "error"]
          /\ provider' \in {provider, IF provider = "none" THEN "open" ELSE provider}
          /\ faults' = faults + 1
    /\ Goto(h, "answered")
    /\ UNCHANGED <<rowVars, read, closed, notified, overlapped>>

\* Mutant of AcceptedStatus: the answer's status is not copied to the intent.
AcceptedStatusKept(h) == "requires_payment_method"

\* The status of every adapter's successful answer.
AcceptedStatus(h) == "requires_action"

\* Phase 3 after an answer: WriteIntent of the whole row, and the transition.
PersistAccepted(h) ==
    /\ pc[h] = "answered" /\ answer[h] = "accepted"
    /\ status' = AcceptedStatus(h)
    /\ action' = TRUE
    /\ Record("requires_payment_method", AcceptedStatus(h))
    /\ Goto(h, "finalizing")
    /\ answer' = [answer EXCEPT ![h] = "none"]
    /\ UNCHANGED <<read, closed, providerVars, faults>>

\* Phase 3 after an error: the intent is canceled, the answer is a 502 and its
\* claim is released.
PersistFailure(h) ==
    /\ pc[h] = "answered" /\ answer[h] = "error"
    /\ status' = "canceled"
    /\ Record("requires_payment_method", "canceled")
    /\ Goto(h, "idle")
    /\ answer' = [answer EXCEPT ![h] = "none"]
    /\ UNCHANGED <<action, read, closed, providerVars, faults>>

\* The middleware stores the answer.
Finalize(h) ==
    /\ pc[h] = "finalizing"
    /\ closed' = TRUE
    /\ Goto(h, "idle")
    /\ UNCHANGED <<rowVars, answer, read, providerVars, faults>>

\* Mutant of Forget: the next request of the goroutine finds the last one's data.
ForgetPlace(h) == UNCHANGED <<answer, read>>

Forget(h) ==
    IF h \in Creators THEN answer' = [answer EXCEPT ![h] = "none"] /\ UNCHANGED read
                      ELSE read' = [read EXCEPT ![h] = "absent"] /\ UNCHANGED answer

\* The process dies, the client disconnects, or a transaction fails.
Abandon(h) ==
    /\ pc[h] # "idle"
    /\ faults < MaxFaults
    /\ faults' = faults + 1
    /\ Goto(h, "idle")
    /\ Forget(h)
    /\ UNCHANGED <<rowVars, closed, providerVars>>

-----------------------------------------------------------------------------
(* confirmPaymentIntent with a return_url. *)

\* Mutant of Snapshot: the intent is served from a copy made at its creation.
SnapshotAtCreation(c) == "requires_action"

\* readIntent: what the confirmer goes on with.
Snapshot(c) == status

ConfirmRead(c) ==
    /\ pc[c] = "idle"
    /\ status # "absent" /\ action
    /\ read' = [read EXCEPT ![c] = Snapshot(c)]
    /\ Goto(c, "writing")
    /\ UNCHANGED <<rowVars, answer, closed, providerVars, faults>>

\* writeIntent puts back every column that was read, the status among them.
ConfirmWrite(c) ==
    /\ pc[c] = "writing"
    /\ status' = read[c]
    /\ action' = TRUE
    /\ read' = [read EXCEPT ![c] = "absent"]
    /\ Goto(c, "idle")
    /\ UNCHANGED <<log, answer, closed, providerVars, faults>>

-----------------------------------------------------------------------------
(* The provider and the notification it sends. *)

\* The customer pays, or the payment is refused, canceled or expires.
Settle ==
    /\ provider = "open"
    /\ provider' \in Final
    /\ UNCHANGED <<rowVars, handlerVars, notified, overlapped, faults>>

\* Mutant of Reported: every notification is taken for a success.
ReportedSuccess == "succeeded"

\* The status a notification carries.
Reported == provider

\* handleWebhookInDurable applies the notification of the final status.
ApplyNotification ==
    /\ provider \in Final /\ ~notified
    /\ notified' = TRUE
    /\ overlapped' = \E h \in Creators \cup Confirmers : pc[h] # "idle"
    /\ IF status = Reported THEN UNCHANGED <<status, log>>
       ELSE status' = Reported /\ Record(status, Reported)
    /\ UNCHANGED <<action, handlerVars, provider, faults>>

-----------------------------------------------------------------------------
CreateStep(h) ==
    \/ Prepare(h) \/ CallProvider(h) \/ PersistAccepted(h) \/ PersistFailure(h)
    \/ Finalize(h)

Next ==
    \/ \E h \in Creators : BeginCreate(h) \/ CreateStep(h) \/ Abandon(h)
    \/ \E c \in Confirmers : ConfirmRead(c) \/ ConfirmWrite(c) \/ Abandon(c)
    \/ Settle \/ ApplyNotification

Spec == Init /\ [][Next]_vars

\* Handlers go on, a client without an answer sends its create again, and the
\* gateway notifies.  No customer is obliged to pay, nor a merchant to confirm.
Fairness ==
    /\ \A h \in Creators : WF_vars(CreateStep(h))
    /\ \A c \in Confirmers : WF_vars(ConfirmWrite(c))
    /\ WF_vars(/\ status # "absent"
               /\ \A g \in Creators : pc[g] = "idle"
               /\ \E h \in Creators : BeginCreate(h))
    /\ WF_vars(ApplyNotification)

FairSpec == Spec /\ Fairness

-----------------------------------------------------------------------------
(* Properties. *)

\* Wherever create dies, a payment the provider has accepted is on record.
AcceptedIsOnRecord == provider # "none" => status # "absent"

\* No interleaving makes up a success: an intent that reads 'succeeded', or did so
\* when a confirmer read it, has been paid.
SucceededWasPaid ==
    \/ provider = "succeeded"
    \/ /\ status # "succeeded"
       /\ \A c \in Confirmers : read[c] # "succeeded"

\* The outcome that was notified is kept, unless a create or a confirm of the same
\* intent was in flight at that moment, or create was run again after it.
OutcomeLostOnlyToOverlap == notified /\ ~overlapped => status = provider

\* The audit trail has every success and every cancellation that was notified, also
\* when the row already said so: a failed create or a late confirm may have put the
\* status there.
OutcomeIsAudited ==
    notified /\ provider # "requires_payment_method"
        => \E k \in 1..Len(log) : log[k].to = provider

\* A create that was cut short does not leave its intent without a payment
\* method for good: the retried request completes it, if no two runs overlap (one
\* that does may reset the row after the other was answered, and then die), unless
\* the payment was refused.
SoleRun == \A g, h \in Creators : pc[g] # "idle" /\ pc[h] # "idle" => g = h

PreparedIsResolved ==
    []SoleRun => (status = "requires_payment_method"
                    ~> \/ status # "requires_payment_method"
                       \/ provider = "requires_payment_method")
==============================================================================
