------------------------- MODULE PaymentIntentProofs -------------------------
(***************************************************************************)
(* Proofs about PaymentIntents for any number of create and confirm        *)
(* requests and of faults: the types, that a payment the provider accepted *)
(* is on record, that no interleaving makes up a success, and that a       *)
(* notified outcome is lost only to a request in flight and is audited.    *)
(***************************************************************************)
EXTENDS PaymentIntents, SequenceTheorems, TLAPS

\* Past phase 1 the row exists; a confirmer that writes has read a row.
RowExists ==
    /\ provider # "none" => status # "absent"
    /\ \A h \in Creators : pc[h] \in {"calling", "answered"} => status # "absent"

\* After an outcome was notified with nobody at work, no create has rewritten the
\* row and every confirmer has read that outcome.
OutcomeIsKept ==
    notified /\ ~overlapped =>
        /\ status = provider
        /\ \A h \in Creators : pc[h] \in {"idle", "preparing"}
        /\ \A c \in Confirmers : pc[c] = "writing" => read[c] = status

IInv == IntentTypeOK /\ RowExists /\ SucceededWasPaid /\ OutcomeIsKept

USE IntentAssumption
USE DEF Statuses, Final, rowVars, handlerVars, providerVars

\* The invariant holds before the first request.
LEMMA InitIInv == Init => IInv
<1> SUFFICES ASSUME Init PROVE IInv
  OBVIOUS
<1>1. log \in Seq([from : Statuses, to : Statuses])
  BY DEF Init
<1>2. IntentTypeOK
  BY <1>1 DEF Init, IntentTypeOK
<1>3. RowExists /\ SucceededWasPaid /\ OutcomeIsKept
  BY DEF Init, RowExists, SucceededWasPaid, OutcomeIsKept
<1> QED
  BY <1>2, <1>3 DEF IInv

\* A transition between two statuses keeps the log a sequence of transitions.
LEMMA RecordTypeOK ==
  ASSUME IntentTypeOK, NEW from \in Statuses, NEW to \in Statuses, Record(from, to)
  PROVE  log' \in Seq([from : Statuses, to : Statuses])
<1> DEFINE entry == [from |-> from, to |-> to]
<1>1. entry \in [from : Statuses, to : Statuses]
  OBVIOUS
<1>2. log' = Append(log, entry)
  BY DEF Record
<1> HIDE DEF entry
<1> QED
  BY <1>1, <1>2, AppendProperties DEF IntentTypeOK

\* Every step of a create request keeps the invariant.
LEMMA CreateInv ==
  ASSUME IInv, NEW h \in Creators, BeginCreate(h) \/ CreateStep(h)
  PROVE  IInv'
<1> USE DEF IInv, IntentTypeOK, RowExists, SucceededWasPaid, OutcomeIsKept, Goto
<1>1. CASE BeginCreate(h)
  BY <1>1 DEF BeginCreate
<1>2. CASE Prepare(h)
  BY <1>2 DEF Prepare, Prepared
<1>3. CASE CallProvider(h)
  <2>1. ~(notified /\ ~overlapped)
    BY <1>3 DEF CallProvider
  <2> PICK a \in {"accepted", "error"} : answer' = [answer EXCEPT ![h] = a]
    BY <1>3 DEF CallProvider
  <2>2. /\ answer' \in [Creators -> {"none", "accepted", "error"}]
        /\ \A g \in Creators : pc'[g] = "answered" <=> answer'[g] # "none"
        /\ provider' = provider \/ (provider = "none" /\ provider' = "open")
        /\ faults' \in Nat
    <3>1. pc' = [pc EXCEPT ![h] = "answered"]
      BY <1>3 DEF CallProvider
    <3>2. provider' = provider \/ (provider = "none" /\ provider' = "open")
      BY <1>3 DEF CallProvider
    <3>3. faults' \in Nat
      BY <1>3 DEF CallProvider
    <3> QED
      BY <3>1, <3>2, <3>3
  <2>3. /\ UNCHANGED <<rowVars, read, closed, notified, overlapped>>
        /\ pc[h] = "calling" /\ pc' = [pc EXCEPT ![h] = "answered"]
    BY <1>3 DEF CallProvider
  <2>4. status # "absent"
    BY <2>3
  <2>5. IntentTypeOK'
    BY <2>2, <2>3
  <2>6. RowExists'
    BY <2>3, <2>4
  <2>7. SucceededWasPaid' /\ OutcomeIsKept'
    BY <2>1, <2>2, <2>3
  <2> QED
    BY <2>5, <2>6, <2>7
<1>4. CASE PersistAccepted(h)
  <2>1. log' \in Seq([from : Statuses, to : Statuses])
    BY <1>4, RecordTypeOK DEF PersistAccepted, AcceptedStatus
  <2> QED
    BY <1>4, <2>1 DEF PersistAccepted, AcceptedStatus
<1>5. CASE PersistFailure(h)
  <2>1. log' \in Seq([from : Statuses, to : Statuses])
    BY <1>5, RecordTypeOK DEF PersistFailure
  <2> QED
    BY <1>5, <2>1 DEF PersistFailure
<1>6. CASE Finalize(h)
  BY <1>6 DEF Finalize
<1> QED
  BY <1>1, <1>2, <1>3, <1>4, <1>5, <1>6 DEF CreateStep

\* Every step of a confirm request keeps it.
LEMMA ConfirmInv ==
  ASSUME IInv, NEW c \in Confirmers, ConfirmRead(c) \/ ConfirmWrite(c)
  PROVE  IInv'
<1> USE DEF IInv, IntentTypeOK, RowExists, SucceededWasPaid, OutcomeIsKept, Goto
<1>1. CASE ConfirmRead(c)
  BY <1>1 DEF ConfirmRead, Snapshot
<1>2. CASE ConfirmWrite(c)
  BY <1>2 DEF ConfirmWrite
<1> QED
  BY <1>1, <1>2

\* A request that is cut short keeps it.
LEMMA AbandonInv ==
  ASSUME IInv, NEW h \in Creators \cup Confirmers, Abandon(h)
  PROVE  IInv'
<1> USE DEF IInv, IntentTypeOK, RowExists, SucceededWasPaid, OutcomeIsKept, Goto
<1>1. CASE h \in Creators
  BY <1>1 DEF Abandon, Forget
<1>2. CASE h \in Confirmers
  BY <1>2 DEF Abandon, Forget
<1> QED
  BY <1>1, <1>2

\* The provider's steps keep it.
LEMMA ProviderInv ==
  ASSUME IInv, Settle \/ ApplyNotification
  PROVE  IInv'
<1> USE DEF IInv, IntentTypeOK, RowExists, SucceededWasPaid, OutcomeIsKept
<1>1. CASE Settle
  BY <1>1 DEF Settle
<1>2. CASE ApplyNotification
  <2>1. CASE status = Reported
    BY <1>2, <2>1 DEF ApplyNotification, Reported
  <2>2. CASE status # Reported
    <3>1. status \in Statuses /\ Reported \in Statuses
      BY <1>2 DEF ApplyNotification, Reported
    <3>2. log' \in Seq([from : Statuses, to : Statuses])
      BY <1>2, <2>2, <3>1, RecordTypeOK DEF ApplyNotification
    <3> QED
      BY <1>2, <2>2, <3>1, <3>2 DEF ApplyNotification, Reported
  <2> QED
    BY <2>1, <2>2
<1> QED
  BY <1>1, <1>2

\* The inductive invariant holds in every reachable state.
LEMMA IntentInvariant == Spec => []IInv
<1>1. IInv /\ UNCHANGED vars => IInv'
  BY DEF IInv, IntentTypeOK, RowExists, SucceededWasPaid, OutcomeIsKept, vars
<1>2. IInv /\ [Next]_vars => IInv'
  BY <1>1, CreateInv, ConfirmInv, AbandonInv, ProviderInv DEF Next
<1> QED
  BY InitIInv, <1>2, PTL DEF Spec

-----------------------------------------------------------------------------
Logged(s) == \E k \in 1..Len(log) : log[k].to = s

\* A success or a cancellation that the row, a confirmer's copy of it or a
\* notification shows is in the log.
AuditInv ==
    /\ notified => provider \in Final
    /\ \A s \in {"succeeded", "canceled"} :
         \/ status = s
         \/ \E c \in Confirmers : read[c] = s
         \/ notified /\ provider = s
         => Logged(s)

\* Recording a transition logs its target and keeps what is logged.
LEMMA RecordLogs ==
  ASSUME IntentTypeOK, NEW from \in Statuses, NEW to \in Statuses, Record(from, to)
  PROVE  Logged(to)' /\ \A s \in Statuses : Logged(s) => Logged(s)'
<1> DEFINE entry == [from |-> from, to |-> to]
<1>1. log' = Append(log, entry) /\ log \in Seq([from : Statuses, to : Statuses])
  BY DEF Record, IntentTypeOK
<1>2. entry \in [from : Statuses, to : Statuses] /\ entry.to = to
  OBVIOUS
<1> HIDE DEF entry
<1>3. /\ Len(log') = Len(log) + 1 /\ Len(log) \in Nat
      /\ log'[Len(log) + 1] = entry
      /\ \A k \in 1..Len(log) : log'[k] = log[k]
  BY <1>1, <1>2, AppendProperties
<1>4. Logged(to)'
  BY <1>2, <1>3 DEF Logged
<1>5. ASSUME NEW s \in Statuses, Logged(s) PROVE Logged(s)'
  BY <1>3, <1>5 DEF Logged
<1> QED
  BY <1>4, <1>5

\* Every step keeps the log complete.
LEMMA StepAudit == IInv /\ AuditInv /\ [Next]_vars => AuditInv'
<1> SUFFICES ASSUME IInv, AuditInv, [Next]_vars PROVE AuditInv'
  OBVIOUS
<1> USE DEF IInv, AuditInv
<1>1. ASSUME NEW h \in Creators, PersistAccepted(h) PROVE AuditInv'
  <2>1. \A s \in Statuses : Logged(s) => Logged(s)'
    BY <1>1, RecordLogs DEF PersistAccepted, AcceptedStatus
  <2> QED
    BY <1>1, <2>1 DEF PersistAccepted, AcceptedStatus
<1>2. ASSUME NEW h \in Creators, PersistFailure(h) PROVE AuditInv'
  <2>1. Logged("canceled")' /\ \A s \in Statuses : Logged(s) => Logged(s)'
    BY <1>2, RecordLogs DEF PersistFailure
  <2> QED
    BY <1>2, <2>1 DEF PersistFailure
<1>3. ASSUME ApplyNotification PROVE AuditInv'
  <2>1. CASE status = Reported
    BY <1>3, <2>1 DEF ApplyNotification, Reported, Logged
  <2>2. CASE status # Reported
    <3>1. status \in Statuses /\ Reported \in Statuses
      BY <1>3 DEF ApplyNotification, Reported, IntentTypeOK, RowExists
    <3>2. PICK f \in Statuses, t \in Statuses : t = provider /\ Record(f, t)
      BY <1>3, <2>2, <3>1 DEF ApplyNotification, Reported
    <3>3. /\ Logged(t)' /\ \A s \in Statuses : Logged(s) => Logged(s)'
          /\ provider' = t /\ status' = t
      BY <1>3, <2>2, <3>2, RecordLogs DEF ApplyNotification, Reported
    <3>4. t \in Final /\ UNCHANGED read
      BY <1>3, <3>2 DEF ApplyNotification, handlerVars
    <3> HIDE DEF Final
    <3>5. ASSUME NEW s \in {"succeeded", "canceled"},
                 status' = s \/ (\E c \in Confirmers : read'[c] = s) \/ provider' = s
          PROVE  Logged(s)'
      <4>1. CASE s = t
        BY <3>3, <4>1
      <4>2. CASE \E c \in Confirmers : read[c] = s
        BY <3>3, <4>2
      <4> QED
        BY <3>3, <3>4, <3>5, <4>1, <4>2
    <3> QED
      BY <3>3, <3>4, <3>5
  <2> QED
    BY <2>1, <2>2
<1>4. ASSUME NEW h \in Creators, CallProvider(h) PROVE AuditInv'
  <2>1. provider' = provider \/ (provider = "none" /\ provider' = "open")
    BY <1>4 DEF CallProvider
  <2>2. UNCHANGED <<rowVars, read, notified>>
    BY <1>4 DEF CallProvider
  <2> QED
    BY <2>1, <2>2 DEF Logged
<1>5. ASSUME NEW h \in Creators, BeginCreate(h) \/ Prepare(h) \/ Finalize(h)
      PROVE  AuditInv'
  BY <1>5 DEF BeginCreate, Prepare, Prepared, Finalize, Logged
<1>6. ASSUME NEW c \in Confirmers, ConfirmRead(c) PROVE AuditInv'
  BY <1>6 DEF ConfirmRead, Snapshot, Logged, IntentTypeOK
<1>7. ASSUME NEW c \in Confirmers, ConfirmWrite(c) PROVE AuditInv'
  BY <1>7 DEF ConfirmWrite, Logged, IntentTypeOK
<1>8. ASSUME NEW h \in Creators \cup Confirmers, Abandon(h) PROVE AuditInv'
  BY <1>8 DEF Abandon, Forget, Logged, IntentTypeOK
<1>9. CASE Settle \/ UNCHANGED vars
  BY <1>9 DEF Settle, vars, Logged
<1> QED
  BY <1>1, <1>2, <1>3, <1>4, <1>5, <1>6, <1>7, <1>8, <1>9 DEF Next, CreateStep

-----------------------------------------------------------------------------
\* Type correctness of the handlers and the intent's row.
THEOREM IntentTypeCorrect == Spec => []IntentTypeOK
  BY IntentInvariant, PTL DEF IInv

\* A payment is never accepted by the provider under a reference that is not stored.
THEOREM AcceptedPaymentsAreOnRecord == Spec => []AcceptedIsOnRecord
<1>1. IInv => AcceptedIsOnRecord
  BY DEF IInv, RowExists, AcceptedIsOnRecord
<1> QED
  BY IntentInvariant, <1>1, PTL

\* An intent that reads 'succeeded' was paid, whatever interleaving wrote it.
THEOREM SuccessIsNeverMadeUp == Spec => []SucceededWasPaid
  BY IntentInvariant, PTL DEF IInv

\* Without a request in flight a notified outcome stays.
THEOREM OutcomesAreKept == Spec => []OutcomeLostOnlyToOverlap
<1>1. IInv => OutcomeLostOnlyToOverlap
  BY DEF IInv, OutcomeIsKept, OutcomeLostOnlyToOverlap
<1> QED
  BY IntentInvariant, <1>1, PTL

\* Every success and cancellation that was notified is in the audit trail.
THEOREM OutcomesAreAudited == Spec => []OutcomeIsAudited
<1>1. Init => AuditInv
  BY DEF Init, AuditInv
<1>2. AuditInv => OutcomeIsAudited
  BY DEF AuditInv, OutcomeIsAudited, Logged
<1> QED
  BY IntentInvariant, <1>1, <1>2, StepAudit, PTL DEF Spec
==============================================================================
