------------------------------- MODULE Inbound -------------------------------
(***************************************************************************)
(* Durable inbound notifications: handleWebhookInDurable and               *)
(* applyInboundEvent (internal/server/webhook.go) over table inbound_events*)
(* (internal/storepg/inbound.go).                                          *)
(*                                                                         *)
(* One READ COMMITTED transaction claims the notification, applies it and  *)
(* completes it, so a notification is recorded as applied or not at all:   *)
(* what the transaction wrote is kept in the handler's job until Commit.   *)
(* Three calls inside it do not use it but a second connection of the pool:*)
(* the lookup of the reference, the read and the write of the session.     *)
(*                                                                         *)
(* A notification is the identity by which inbound_events deduplicates it: *)
(* the provider's id and the type of the event, here its status (module    *)
(* Gateways has the two statuses of one type).  Names and payloads, failure*)
(* messages and the account label are left out.                            *)
(***************************************************************************)
EXTENDS Naturals, FiniteSets, Sequences

CONSTANTS Intents,     \* payment intents
          Notes,       \* notifications the gateway may send
          Handlers,    \* goroutines serving POST /v1/webhooks/{gateway}
          NoNote,
          MaxConns,    \* connections of the pool
          MaxResends,  \* bound: copies the gateway sends without need
          MaxCrashes,  \* bound: process deaths
          MaxErrors    \* bound: transactions that fail

Statuses == {"requires_payment_method", "requires_action", "requires_capture",
             "succeeded", "canceled"}

ASSUME InboundAssumption ==
    /\ Notes \subseteq [id : Nat, intent : Intents, status : Statuses]
    /\ NoNote \notin Notes
    /\ IsFiniteSet(Handlers)
    /\ MaxConns \in Nat /\ MaxResends \in Nat /\ MaxCrashes \in Nat /\ MaxErrors \in Nat

VARIABLES status,    \* payment_intents.status, committed
          known,     \* the intents whose gateway reference is stored
          session,   \* the checkout session of the intent
          log,       \* payment_transitions with the event queued for each
          applied,   \* the notifications whose inbound_events row is committed
          pc, job,   \* the handlers
          sent, acked,       \* what the gateway sent, what it had a 200 for
          failed,            \* history: notifications with a failed transaction
          unresolved,        \* history: notifications applied to no intent
          misread,           \* history: notifications whose lookup failed
          missed,            \* history: intents whose session was not written
          resends, crashes, errors

dbVars == <<status, known, session, log, applied>>
gatewayVars == <<sent, acked, resends>>
historyVars == <<failed, unresolved, misread, missed>>
faultVars == <<crashes, errors>>
vars == <<dbVars, pc, job, gatewayVars, historyVars, faultVars>>

NoJob == [note |-> NoNote, cur |-> "none", write |-> FALSE]

\* Places of a handler inside the transaction, before and after it holds the
\* unique-index entry of its notification.
InTx == {"begun", "claimed", "found", "read", "updated", "done"}
HasClaim == InTx \ {"begun"}

InboundTypeOK ==
    /\ status \in [Intents -> Statuses]
    /\ known \subseteq Intents
    /\ session \in [Intents -> {"none", "open", "complete"}]
    /\ log \in [Intents -> Seq([note : Notes, from : Statuses, to : Statuses])]
    /\ applied \subseteq Notes
    /\ pc \in [Handlers -> {"idle", "received"} \cup InTx]
    /\ job \in [Handlers -> [note : Notes \cup {NoNote},
                             cur : Statuses \cup {"none"}, write : BOOLEAN]]
    /\ \A h \in Handlers : pc[h] # "idle" => job[h].note \in sent
    /\ \A h \in Handlers : pc[h] = "read" \/ job[h].write => job[h].cur \in Statuses
    /\ acked \subseteq sent /\ sent \subseteq Notes
    /\ failed \subseteq Notes /\ unresolved \subseteq Notes /\ misread \subseteq Notes
    /\ missed \subseteq Intents
    /\ resends \in Nat /\ crashes \in Nat /\ errors \in Nat

\* An intent is there before its gateway reference.
Init ==
    /\ known \in SUBSET Intents
    /\ status = [i \in Intents |-> IF i \in known THEN "requires_action"
                                   ELSE "requires_payment_method"]
    /\ session = [i \in Intents |-> "none"]
    /\ log = [i \in Intents |-> <<>>]
    /\ applied = {}
    /\ pc = [h \in Handlers |-> "idle"]
    /\ job = [h \in Handlers |-> NoJob]
    /\ sent = {} /\ acked = {}
    /\ failed = {} /\ unresolved = {} /\ misread = {} /\ missed = {}
    /\ resends = 0 /\ crashes = 0 /\ errors = 0

-----------------------------------------------------------------------------
(* The gateway, and the request path that fills in references. *)

\* A first delivery, a retry of one that got no answer, or an unneeded copy.
Deliver(h, n) ==
    /\ pc[h] = "idle"
    /\ LET owed == n \notin acked /\ \A g \in Handlers : job[g].note # n
       IN \/ owed /\ resends' = resends
          \/ ~owed /\ resends < MaxResends /\ resends' = resends + 1
    /\ sent' = sent \cup {n}
    /\ pc' = [pc EXCEPT ![h] = "received"]
    /\ job' = [job EXCEPT ![h] = [NoJob EXCEPT !.note = n]]
    /\ UNCHANGED <<dbVars, acked, historyVars, faultVars>>

\* createPaymentIntent commits the gateway's own reference with the rest of the
\* answer: from now on a notification that carries it resolves.
StoreReference(i) ==
    /\ i \notin known
    /\ known' = known \cup {i}
    /\ status' = [status EXCEPT ![i] = "requires_action"]
    /\ UNCHANGED <<session, log, applied, pc, job, gatewayVars,
                   historyVars, faultVars>>

\* createCheckoutSession stores the session after the intent, on its own: the
\* customer may have paid by then.
StoreSession(i) ==
    /\ i \in known /\ session[i] = "none"
    /\ session' = [session EXCEPT ![i] = "open"]
    /\ UNCHANGED <<status, known, log, applied, pc, job, gatewayVars,
                   historyVars, faultVars>>

-----------------------------------------------------------------------------
(* The handler. *)

\* Some connection is neither held by a transaction nor busy.
FreeConn == Cardinality({h \in Handlers : pc[h] \in InTx}) < MaxConns

Goto(h, place) == pc' = [pc EXCEPT ![h] = place]

\* Mutant of Finish: the request is dropped, its goroutine is not.
FinishInPlace(h) == job' = [job EXCEPT ![h] = NoJob] /\ UNCHANGED pc

\* The transaction is over and the request answered, or the process gone.
Finish(h) == pc' = [pc EXCEPT ![h] = "idle"] /\ job' = [job EXCEPT ![h] = NoJob]

\* RunInTx: the transaction keeps its connection until it ends.
BeginTx(h) ==
    /\ pc[h] = "received"
    /\ FreeConn
    /\ Goto(h, "begun")
    /\ UNCHANGED <<dbVars, job, gatewayVars, historyVars, faultVars>>

\* Another transaction has inserted the same notification and not ended.
InsertedElsewhere(h) ==
    \E g \in Handlers \ {h} : pc[g] \in HasClaim /\ job[g].note = job[h].note

\* Mutants of ClaimOutcome: an uncommitted row already counts as a duplicate; the
\* conflict clause is missing.
ClaimOutcomeUncommitted(h) ==
    IF job[h].note \in applied \/ InsertedElsewhere(h) THEN "duplicate" ELSE "owned"

ClaimOutcomeNoConflict(h) == "owned"

\* INSERT .. ON CONFLICT DO NOTHING: a committed row is a conflict, an
\* uncommitted one makes the insert wait for its transaction to end.
ClaimOutcome(h) ==
    IF job[h].note \in applied THEN "duplicate"
    ELSE IF InsertedElsewhere(h) THEN "wait"
    ELSE "owned"

\* The claim is owned: the handler goes on to apply the notification.
ClaimInbound(h) ==
    /\ pc[h] = "begun"
    /\ ClaimOutcome(h) = "owned"
    /\ Goto(h, "claimed")
    /\ UNCHANGED <<dbVars, job, gatewayVars, historyVars, faultVars>>

\* A duplicate: the transaction ends without a write, the gateway gets its 200.
SkipDuplicate(h) ==
    /\ pc[h] = "begun"
    /\ ClaimOutcome(h) = "duplicate"
    /\ acked' = acked \cup {job[h].note}
    /\ Finish(h)
    /\ UNCHANGED <<dbVars, sent, resends, historyVars, faultVars>>

\* findIntentByRef, on a second connection: an unknown reference is a success.
FindIntentByRef(h) ==
    /\ pc[h] = "claimed"
    /\ FreeConn
    /\ IF job[h].note.intent \in known
       THEN Goto(h, "found") /\ UNCHANGED unresolved
       ELSE Goto(h, "done") /\ unresolved' = unresolved \cup {job[h].note}
    /\ UNCHANGED <<dbVars, job, gatewayVars, failed, misread, missed, faultVars>>

\* findIntentByRef fails for any other reason: the caller treats every error as
\* an unknown order, and the transaction, which the lookup does not use, goes on.
LookupFails(h) ==
    /\ pc[h] = "claimed"
    /\ errors < MaxErrors
    /\ errors' = errors + 1
    /\ misread' = misread \cup {job[h].note}
    /\ Goto(h, "done")
    /\ UNCHANGED <<dbVars, job, gatewayVars, failed, unresolved, missed, crashes>>

\* Mutant of Unchanged: a settled payment is left alone.
UnchangedOrSettled(n) == status[n.intent] \in {n.status, "succeeded"}

Unchanged(n) == status[n.intent] = n.status

\* ReadIntent does not lock the row.
ReadIntent(h) ==
    LET n == job[h].note
    IN /\ pc[h] = "found"
       /\ IF Unchanged(n)
          THEN Goto(h, "done") /\ UNCHANGED job
          ELSE Goto(h, "read") /\ job' = [job EXCEPT ![h].cur = status[n.intent]]
       /\ UNCHANGED <<dbVars, gatewayVars, historyVars, faultVars>>

HoldsRow(h, i) == pc[h] \in InTx /\ job[h].write /\ job[h].note.intent = i

\* Mutant of AfterUpdate: only the first answer to a payment is taken for its success.
AfterUpdateOfFirst(h) ==
    IF job[h].note.status = "succeeded" /\ job[h].cur = "requires_action"
    THEN "updated" ELSE "done"

\* Only a success has a session to complete.
AfterUpdate(h) == IF job[h].note.status = "succeeded" THEN "updated" ELSE "done"

\* SetIntentStatus waits for the row and writes whatever status it has by then;
\* RecordTransition and queueEvent insert beside it.
SetIntentStatus(h) ==
    /\ pc[h] = "read"
    /\ \A g \in Handlers \ {h} : ~HoldsRow(g, job[h].note.intent)
    /\ job' = [job EXCEPT ![h].write = TRUE]
    /\ Goto(h, AfterUpdate(h))
    /\ UNCHANGED <<dbVars, gatewayVars, historyVars, faultVars>>

\* GetSessionByPaymentIntent and PutSession, on a second connection: the session
\* is complete at once, whatever becomes of the transaction.
PutSession(h) ==
    LET i == job[h].note.intent
    IN /\ pc[h] = "updated"
       /\ FreeConn
       /\ IF session[i] = "none"
          THEN missed' = missed \cup {i} /\ UNCHANGED session
          ELSE session' = [session EXCEPT ![i] = "complete"] /\ UNCHANGED missed
       /\ Goto(h, "done")
       /\ UNCHANGED <<status, known, log, applied, job, gatewayVars, failed,
                      unresolved, misread, faultVars>>

\* The read fails, which is taken for no session, or the write, which is ignored.
SessionFails(h) ==
    /\ pc[h] = "updated"
    /\ errors < MaxErrors
    /\ errors' = errors + 1
    /\ missed' = missed \cup {job[h].note.intent}
    /\ Goto(h, "done")
    /\ UNCHANGED <<dbVars, job, gatewayVars, failed, unresolved, misread, crashes>>

\* CompleteInbound and the commit, then the 200.  The row goes to 'applied': the
\* calls before it return no error in a transaction that can still commit.
Commit(h) ==
    LET n == job[h].note
    IN /\ pc[h] = "done"
       /\ applied' = applied \cup {n}
       /\ IF job[h].write
          THEN /\ status' = [status EXCEPT ![n.intent] = n.status]
               /\ log' = [log EXCEPT ![n.intent] =
                    Append(@, [note |-> n, from |-> job[h].cur, to |-> n.status])]
          ELSE UNCHANGED <<status, log>>
       /\ acked' = acked \cup {n}
       /\ Finish(h)
       /\ UNCHANGED <<known, session, sent, resends, historyVars, faultVars>>

\* A statement or the commit fails: everything in the transaction is rolled back,
\* the error is logged, and the gateway gets its 200 all the same.
TxFails(h) ==
    /\ pc[h] \in InTx \cup {"received"}
    /\ errors < MaxErrors
    /\ errors' = errors + 1
    /\ acked' = acked \cup {job[h].note}
    /\ failed' = failed \cup {job[h].note}
    /\ Finish(h)
    /\ UNCHANGED <<dbVars, sent, resends, unresolved, misread, missed, crashes>>

\* The process dies: the transaction is rolled back, the gateway has no answer.
Crash(h) ==
    /\ pc[h] # "idle"
    /\ crashes < MaxCrashes
    /\ crashes' = crashes + 1
    /\ Finish(h)
    /\ UNCHANGED <<dbVars, gatewayVars, historyVars, errors>>

-----------------------------------------------------------------------------
HandlerStep(h) ==
    \/ BeginTx(h) \/ ClaimInbound(h) \/ SkipDuplicate(h) \/ FindIntentByRef(h)
    \/ ReadIntent(h) \/ SetIntentStatus(h) \/ PutSession(h) \/ Commit(h)

Next ==
    \/ \E h \in Handlers : HandlerStep(h)
    \/ \E h \in Handlers : LookupFails(h) \/ SessionFails(h) \/ TxFails(h) \/ Crash(h)
    \/ \E h \in Handlers, n \in Notes : Deliver(h, n)
    \/ \E i \in Intents : StoreReference(i) \/ StoreSession(i)

Spec == Init /\ [][Next]_vars

\* Statements return, and a gateway repeats a notification until it has its 200.
\* Nothing obliges it to send a first one, nor to send copies.
Fairness ==
    /\ \A h \in Handlers : WF_vars(HandlerStep(h))
    /\ \A n \in Notes :
         WF_vars(n \in sent \ acked /\ \E h \in Handlers : Deliver(h, n))

FairSpec == Spec /\ Fairness

-----------------------------------------------------------------------------
(* Properties. *)

\* However often a notification is sent, however its copies overlap and wherever
\* the process dies, it changes its intent, and is announced to the merchant, at
\* most once.
AppliedAtMostOnce ==
    \A i \in Intents : \A k, l \in 1..Len(log[i]) :
        log[i][k].note = log[i][l].note => k = l

\* What makes it so: while a transaction holds the unique-index entry of its
\* notification no other one does, and no committed row has it; and only
\* notifications with a committed row are in the log.
ClaimsAreExclusive ==
    /\ \A g, h \in Handlers :
         pc[g] \in HasClaim /\ pc[h] \in HasClaim /\ job[g].note = job[h].note => g = h
    /\ \A h \in Handlers : pc[h] \in HasClaim => job[h].note \notin applied
    /\ \A i \in Intents : \A k \in 1..Len(log[i]) : log[i][k].note \in applied

\* The intent did take the status that the notification reports.
Reflected(n) ==
    \/ n.status = "requires_action"
    \/ \E k \in 1..Len(log[n.intent]) : log[n.intent][k].to = n.status

\* A notification recorded as applied was applied, whatever ran beside it: unless
\* its intent was unknown, or the lookup failed, the intent did take its status.
AppliedIsReflected == \A n \in applied \ (unresolved \cup misread) : Reflected(n)

\* Only a failed transaction loses a notification: crashes, overlapping copies
\* and waits on another copy's insert never acknowledge what is not recorded.
OnlyErrorsLoseNotifications == acked \subseteq applied \cup failed

\* As handleWebhookIn documents, a notification is persisted before the gateway
\* is acknowledged.
AckedIsDurable == acked \subseteq applied

Paid(i) == \E k \in 1..Len(log[i]) : log[i][k].to = "succeeded"

\* The checkout session, which handlers write outside their transactions, agrees
\* with the payment once every notification about it is acknowledged: crashes and
\* overlapping copies leave it complete exactly if the payment succeeded, even while
\* more copies are at work.  The exceptions are a session that the handler did not find
\* or failed to write, and a transaction or a lookup that failed, which no copy
\* need repeat.
SessionFollowsPayment ==
    \A i \in Intents \ missed :
        (\A n \in sent : n.intent = i => n \in acked \ (failed \cup misread))
        => (session[i] = "complete" <=> Paid(i))

\* Every notification that is sent is applied, unless its transaction failed.
SentIsApplied == \A n \in Notes : n \in sent ~> n \in applied \cup failed

\* As handleWebhookInDurable documents, it always acknowledges.
SentIsAcked == \A n \in Notes : n \in sent ~> n \in acked
==============================================================================
