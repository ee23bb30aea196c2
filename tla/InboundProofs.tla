---------------------------- MODULE InboundProofs ----------------------------
(***************************************************************************)
(* Proofs about Inbound for any number of payments, notifications, handler *)
(* goroutines and connections, and any number of copies, crashes and       *)
(* errors: the types, that a notification is applied at most once, that    *)
(* only a failed transaction acknowledges what it did not record, that what*)
(* is recorded took effect, and that the session agrees with the payment.  *)
(***************************************************************************)
EXTENDS Inbound, SequenceTheorems, TLAPS

IInv ==
    /\ InboundTypeOK
    /\ ClaimsAreExclusive
    /\ AppliedAtMostOnce
    /\ OnlyErrorsLoseNotifications

USE InboundAssumption
USE DEF InTx, HasClaim, faultVars, gatewayVars, dbVars, historyVars

\* The invariant holds when nothing was sent yet.
LEMMA InitIInv == Init => IInv
  BY DEF Init, IInv, InboundTypeOK, ClaimsAreExclusive, AppliedAtMostOnce,
         OnlyErrorsLoseNotifications, NoJob, Statuses

\* A handler that finishes keeps the types of the handlers' variables.
LEMMA FinishTypeOK ==
  ASSUME InboundTypeOK, NEW h \in Handlers, Finish(h)
  PROVE  /\ pc' \in [Handlers -> {"idle", "received"} \cup InTx]
         /\ job' \in [Handlers -> [note : Notes \cup {NoNote},
                                   cur : Statuses \cup {"none"}, write : BOOLEAN]]
         /\ \A g \in Handlers : pc'[g] # "idle" => job'[g].note \in sent
         /\ \A g \in Handlers : pc'[g] = "read" \/ job'[g].write
                                    => job'[g].cur \in Statuses
  BY DEF InboundTypeOK, Finish, NoJob

\* A notification's payment is one of the payments, its status a status.
LEMMA NoteTyped ==
  ASSUME NEW n \in Notes
  PROVE  n.intent \in Intents /\ n.status \in Statuses
  OBVIOUS

\* Every step keeps the types.
LEMMA StepTypeOK == InboundTypeOK /\ [Next]_vars => InboundTypeOK'
<1> SUFFICES ASSUME InboundTypeOK, [Next]_vars PROVE InboundTypeOK'
  OBVIOUS
<1>1. ASSUME NEW h \in Handlers,
             BeginTx(h) \/ ClaimInbound(h) \/ FindIntentByRef(h) \/ LookupFails(h)
      PROVE  InboundTypeOK'
  <2>1. /\ UNCHANGED <<dbVars, job, gatewayVars, failed, missed, crashes>>
        /\ pc[h] # "idle"
        /\ \E place \in InTx \ {"read"} : pc' = [pc EXCEPT ![h] = place]
    BY <1>1 DEF BeginTx, ClaimInbound, FindIntentByRef, LookupFails, Goto
  <2>2. job[h].note \in sent
    BY <2>1 DEF InboundTypeOK
  <2>3. unresolved' \subseteq Notes /\ misread' \subseteq Notes /\ errors' \in Nat
    BY <1>1, <2>2 DEF InboundTypeOK, BeginTx, ClaimInbound, FindIntentByRef, LookupFails
  <2> QED
    BY <2>1, <2>2, <2>3 DEF InboundTypeOK
<1>2. ASSUME NEW h \in Handlers, ReadIntent(h) PROVE InboundTypeOK'
  <2>1. job[h].note \in sent /\ status[job[h].note.intent] \in Statuses
    BY <1>2, NoteTyped DEF InboundTypeOK, ReadIntent
  <2>2. CASE Unchanged(job[h].note)
    BY <1>2, <2>1, <2>2 DEF InboundTypeOK, ReadIntent, Goto
  <2>3. CASE ~Unchanged(job[h].note)
    <3> DEFINE j == [job[h] EXCEPT !.cur = status[job[h].note.intent]]
    <3>1. job' = [job EXCEPT ![h] = j] /\ pc' = [pc EXCEPT ![h] = "read"]
      BY <1>2, <2>3 DEF ReadIntent, Goto
    <3>2. /\ j \in [note : Notes \cup {NoNote}, cur : Statuses \cup {"none"},
                    write : BOOLEAN]
          /\ j.note \in sent /\ j.cur \in Statuses
      BY <2>1 DEF InboundTypeOK
    <3> HIDE DEF j
    <3> QED
      BY <1>2, <3>1, <3>2 DEF InboundTypeOK, ReadIntent
  <2> QED
    BY <2>2, <2>3
<1>3. ASSUME NEW h \in Handlers, SetIntentStatus(h) PROVE InboundTypeOK'
  <2> DEFINE j == [job[h] EXCEPT !.write = TRUE]
  <2>1. job' = [job EXCEPT ![h] = j]
    BY <1>3 DEF SetIntentStatus
  <2>2. /\ j \in [note : Notes \cup {NoNote}, cur : Statuses \cup {"none"},
                  write : BOOLEAN]
        /\ j.note \in sent /\ j.cur \in Statuses
    BY <1>3 DEF InboundTypeOK, SetIntentStatus
  <2>3. PICK place \in {"updated", "done"} : pc' = [pc EXCEPT ![h] = place]
    BY <1>3 DEF SetIntentStatus, AfterUpdate, Goto
  <2> HIDE DEF j
  <2>4. UNCHANGED <<dbVars, gatewayVars, historyVars, faultVars>>
    BY <1>3 DEF SetIntentStatus
  <2>5. /\ pc' \in [Handlers -> {"idle", "received"} \cup InTx]
        /\ job' \in [Handlers -> [note : Notes \cup {NoNote},
                                  cur : Statuses \cup {"none"}, write : BOOLEAN]]
    BY <2>1, <2>2, <2>3 DEF InboundTypeOK
  <2>6. \A g \in Handlers :
          /\ pc'[g] # "idle" => job'[g].note \in sent
          /\ pc'[g] = "read" \/ job'[g].write => job'[g].cur \in Statuses
    BY <2>1, <2>2, <2>3 DEF InboundTypeOK
  <2> QED
    BY <2>4, <2>5, <2>6 DEF InboundTypeOK
<1>4. ASSUME NEW h \in Handlers, PutSession(h) \/ SessionFails(h) PROVE InboundTypeOK'
  <2>1. job[h].note \in Notes /\ job[h].note.intent \in Intents
    <3>1. pc[h] # "idle"
      BY <1>4 DEF PutSession, SessionFails
    <3>2. job[h].note \in Notes
      BY <3>1 DEF InboundTypeOK
    <3> QED
      BY <3>2, NoteTyped
  <2>2. /\ session' \in [Intents -> {"none", "open", "complete"}]
        /\ missed' \subseteq Intents /\ errors' \in Nat
    <3>1. CASE PutSession(h)
      <4> DEFINE i == job[h].note.intent
      <4>1. i \in Intents /\ UNCHANGED errors
        BY <2>1, <3>1 DEF PutSession
      <4>2. \/ missed' = missed \cup {i} /\ UNCHANGED session
            \/ session' = [session EXCEPT ![i] = "complete"] /\ UNCHANGED missed
        BY <3>1 DEF PutSession
      <4> HIDE DEF i
      <4> QED
        BY <4>1, <4>2 DEF InboundTypeOK
    <3>2. CASE SessionFails(h)
      BY <3>2, <2>1 DEF InboundTypeOK, SessionFails
    <3> QED
      BY <1>4, <3>1, <3>2
  <2>3. /\ UNCHANGED <<status, known, log, applied, job, gatewayVars, failed,
                        unresolved, misread, crashes>>
        /\ pc[h] = "updated" /\ pc' = [pc EXCEPT ![h] = "done"]
    BY <1>4 DEF PutSession, SessionFails, Goto
  <2> QED
    BY <2>2, <2>3 DEF InboundTypeOK
<1>5. ASSUME NEW h \in Handlers, Commit(h) PROVE InboundTypeOK'
  <2> DEFINE n == job[h].note
             entry == [note |-> n, from |-> job[h].cur, to |-> n.status]
  <2>1. n \in Notes /\ n.intent \in Intents /\ n.status \in Statuses
    BY <1>5, NoteTyped DEF InboundTypeOK, Commit
  <2>2. status' \in [Intents -> Statuses]
    BY <1>5, <2>1 DEF InboundTypeOK, Commit
  <2>3. log' \in [Intents -> Seq([note : Notes, from : Statuses, to : Statuses])]
    <3>1. CASE job[h].write
      <4>1. entry \in [note : Notes, from : Statuses, to : Statuses]
        BY <2>1, <3>1 DEF InboundTypeOK
      <4>2. log' = [log EXCEPT ![n.intent] = Append(log[n.intent], entry)]
        BY <1>5, <3>1 DEF Commit
      <4>3. log[n.intent] \in Seq([note : Notes, from : Statuses, to : Statuses])
        BY <2>1 DEF InboundTypeOK
      <4> HIDE DEF entry
      <4>4. Append(log[n.intent], entry)
              \in Seq([note : Notes, from : Statuses, to : Statuses])
        BY <4>1, <4>3, AppendProperties
      <4> QED
        BY <2>1, <4>2, <4>4 DEF InboundTypeOK
    <3>2. CASE ~job[h].write
      BY <1>5, <3>2 DEF InboundTypeOK, Commit
    <3> QED
      BY <3>1, <3>2
  <2>4. /\ Finish(h) /\ applied' = applied \cup {n} /\ acked' = acked \cup {n}
        /\ UNCHANGED <<known, session, sent, resends, historyVars, faultVars>>
    BY <1>5 DEF Commit
  <2>5. applied' \subseteq Notes
    BY <2>1, <2>4 DEF InboundTypeOK
  <2>6. acked' \subseteq sent'
    BY <2>4, <1>5 DEF Commit, InboundTypeOK
  <2> QED
    BY <2>2, <2>3, <2>4, <2>5, <2>6, FinishTypeOK DEF InboundTypeOK
<1>6. ASSUME NEW h \in Handlers, SkipDuplicate(h) \/ TxFails(h) \/ Crash(h)
      PROVE  InboundTypeOK'
  <2>1. job[h].note \in sent
    BY <1>6 DEF InboundTypeOK, SkipDuplicate, TxFails, Crash
  <2>2. /\ acked' \subseteq sent /\ failed' \subseteq Notes
        /\ crashes' \in Nat /\ errors' \in Nat
    BY <1>6, <2>1 DEF InboundTypeOK, SkipDuplicate, TxFails, Crash
  <2>3. Finish(h) /\ UNCHANGED <<dbVars, sent, resends, unresolved, misread, missed>>
    BY <1>6 DEF SkipDuplicate, TxFails, Crash
  <2> QED
    BY <2>2, <2>3, FinishTypeOK DEF InboundTypeOK
<1>7. ASSUME NEW h \in Handlers, NEW n \in Notes, Deliver(h, n) PROVE InboundTypeOK'
  <2> DEFINE j == [NoJob EXCEPT !.note = n]
  <2>1. /\ sent' = sent \cup {n}
        /\ pc' = [pc EXCEPT ![h] = "received"] /\ job' = [job EXCEPT ![h] = j]
        /\ UNCHANGED <<dbVars, acked, historyVars, faultVars>>
    BY <1>7 DEF Deliver
  <2>2. /\ j \in [note : Notes \cup {NoNote}, cur : Statuses \cup {"none"},
                  write : BOOLEAN]
        /\ j.note = n /\ ~j.write
    BY DEF NoJob
  <2>3. resends' \in Nat
    BY <1>7 DEF Deliver, InboundTypeOK
  <2> HIDE DEF j
  <2> QED
    BY <2>1, <2>2, <2>3 DEF InboundTypeOK
<1>8. ASSUME NEW i \in Intents, StoreReference(i) PROVE InboundTypeOK'
  BY <1>8 DEF InboundTypeOK, StoreReference, Statuses
<1>9. ASSUME NEW i \in Intents, StoreSession(i) PROVE InboundTypeOK'
  BY <1>9 DEF InboundTypeOK, StoreSession
<1>10. CASE UNCHANGED vars
  BY <1>10 DEF InboundTypeOK, vars
<1> QED
  BY <1>1, <1>2, <1>3, <1>4, <1>5, <1>6, <1>7, <1>8, <1>9, <1>10 DEF Next, HandlerStep

\* What a handler's step does to places and claims, and which steps it takes: the
\* notification it works on stays, and only ClaimInbound enters the claim.
LEMMA QuietStep ==
  ASSUME InboundTypeOK, ClaimsAreExclusive, NEW h \in Handlers,
         pc[h] \in HasClaim,
         UNCHANGED <<log, applied>>,
         \E place \in HasClaim : pc' = [pc EXCEPT ![h] = place],
         \E j : j.note = job[h].note /\ job' = [job EXCEPT ![h] = j]
  PROVE  ClaimsAreExclusive'
<1>1. PICK place \in HasClaim : pc' = [pc EXCEPT ![h] = place]
  OBVIOUS
<1>2. PICK j : j.note = job[h].note /\ job' = [job EXCEPT ![h] = j]
  OBVIOUS
<1>3. \A g \in Handlers : /\ job'[g].note = job[g].note
                          /\ pc'[g] \in HasClaim <=> pc[g] \in HasClaim
  BY <1>1, <1>2 DEF InboundTypeOK
<1> HIDE DEF HasClaim
<1> QED
  BY <1>3 DEF ClaimsAreExclusive

\* A handler that finishes gives its claim up and takes none.
LEMMA FinishStep ==
  ASSUME InboundTypeOK, ClaimsAreExclusive, NEW h \in Handlers, Finish(h),
         UNCHANGED <<log, applied>>
  PROVE  ClaimsAreExclusive'
<1>1. \A g \in Handlers : pc'[g] \in HasClaim
                            => g # h /\ pc[g] \in HasClaim /\ job'[g] = job[g]
  BY DEF InboundTypeOK, Finish
<1> HIDE DEF HasClaim
<1> QED
  BY <1>1 DEF ClaimsAreExclusive

\* Every step keeps claims exclusive and the log free of repeats.
LEMMA StepExclusive ==
  InboundTypeOK /\ ClaimsAreExclusive /\ AppliedAtMostOnce /\ [Next]_vars
    => ClaimsAreExclusive' /\ AppliedAtMostOnce'
<1> SUFFICES ASSUME InboundTypeOK, ClaimsAreExclusive, AppliedAtMostOnce, [Next]_vars
             PROVE  ClaimsAreExclusive' /\ AppliedAtMostOnce'
  OBVIOUS
<1>1. ASSUME NEW h \in Handlers, Commit(h)
      PROVE  ClaimsAreExclusive' /\ AppliedAtMostOnce'
  <2> DEFINE n == job[h].note
             entry == [note |-> n, from |-> job[h].cur, to |-> n.status]
  <2>1. /\ n \in Notes /\ n.intent \in Intents
        /\ pc[h] \in HasClaim /\ n \notin applied
    BY <1>1, NoteTyped DEF Commit, InboundTypeOK, ClaimsAreExclusive
  <2>2. applied' = applied \cup {n} /\ Finish(h)
    BY <1>1 DEF Commit
  <2>3. \A g \in Handlers : pc'[g] \in HasClaim
                => g # h /\ pc[g] \in HasClaim /\ job'[g] = job[g]
    BY <2>2 DEF InboundTypeOK, Finish
  <2>4. \A g \in Handlers : pc'[g] \in HasClaim => job'[g].note # n
    BY <2>1, <2>3 DEF ClaimsAreExclusive
  <2>5. \/ log' = log
        \/ log' = [log EXCEPT ![n.intent] = Append(log[n.intent], entry)]
    BY <1>1 DEF Commit
  <2>6. \A i \in Intents : log[i] \in Seq([note : Notes, from : Statuses, to : Statuses])
    BY DEF InboundTypeOK
  <2>7. \A i \in Intents : \A k \in 1..Len(log[i]) : log[i][k].note # n
    BY <2>1 DEF ClaimsAreExclusive
  <2>8. \A i \in Intents : \A k \in 1..Len(log'[i]) :
           \/ k \in 1..Len(log[i]) /\ log'[i][k] = log[i][k]
           \/ k = Len(log[i]) + 1 /\ log'[i][k].note = n
    <3>1. CASE log' = log
      BY <3>1
    <3>2. CASE log' = [log EXCEPT ![n.intent] = Append(log[n.intent], entry)]
      <4>1. ASSUME NEW i \in Intents, NEW k \in 1..Len(log'[i])
            PROVE  \/ k \in 1..Len(log[i]) /\ log'[i][k] = log[i][k]
                   \/ k = Len(log[i]) + 1 /\ log'[i][k].note = n
        <5>1. CASE i # n.intent
          BY <3>2, <5>1, <4>1 DEF InboundTypeOK
        <5>2. CASE i = n.intent
          <6>1. log'[i] = Append(log[i], entry)
            BY <3>2, <5>2 DEF InboundTypeOK
          <6>2. entry.note = n
            OBVIOUS
          <6> HIDE DEF entry
          <6> QED
            BY <2>6, <6>1, <6>2, <4>1
        <5> QED
          BY <5>1, <5>2
      <4> QED
        BY <4>1
    <3> QED
      BY <2>5, <3>1, <3>2
  <2> HIDE DEF n, entry, HasClaim
  <2>9. ClaimsAreExclusive'
    BY <2>2, <2>3, <2>4, <2>8 DEF ClaimsAreExclusive
  <2>10. AppliedAtMostOnce'
    BY <2>7, <2>8 DEF AppliedAtMostOnce
  <2> QED
    BY <2>9, <2>10
<1>2. ASSUME NEW h \in Handlers, ClaimInbound(h)
      PROVE  ClaimsAreExclusive' /\ AppliedAtMostOnce'
  <2>1. /\ job[h].note \notin applied
        /\ \A g \in Handlers \ {h} : pc[g] \in HasClaim => job[g].note # job[h].note
    BY <1>2 DEF ClaimInbound, ClaimOutcome, InsertedElsewhere
  <2>2. \A g \in Handlers \ {h} : pc'[g] = pc[g]
    BY <1>2 DEF ClaimInbound, Goto, InboundTypeOK
  <2>3. UNCHANGED <<job, log, applied>>
    BY <1>2 DEF ClaimInbound
  <2> HIDE DEF HasClaim
  <2> QED
    BY <2>1, <2>2, <2>3 DEF ClaimsAreExclusive, AppliedAtMostOnce
<1>3. ASSUME NEW h \in Handlers,
             \/ FindIntentByRef(h) \/ LookupFails(h) \/ ReadIntent(h)
             \/ SetIntentStatus(h) \/ PutSession(h) \/ SessionFails(h)
      PROVE  ClaimsAreExclusive' /\ AppliedAtMostOnce'
  <2>1. pc[h] \in HasClaim /\ UNCHANGED <<log, applied>>
    BY <1>3 DEF FindIntentByRef, LookupFails, ReadIntent, SetIntentStatus, PutSession,
                SessionFails
  <2>2. \E place \in HasClaim : pc' = [pc EXCEPT ![h] = place]
    BY <1>3 DEF FindIntentByRef, LookupFails, ReadIntent, SetIntentStatus, PutSession,
                SessionFails, AfterUpdate, Goto
  <2>3. job' = job \/ \E s : job' = [job EXCEPT ![h].cur = s]
                   \/ job' = [job EXCEPT ![h].write = TRUE]
    BY <1>3 DEF FindIntentByRef, LookupFails, ReadIntent, SetIntentStatus, PutSession,
                SessionFails
  <2>4. \E j : j.note = job[h].note /\ job' = [job EXCEPT ![h] = j]
    BY <2>3 DEF InboundTypeOK
  <2> QED
    BY <2>1, <2>2, <2>4, QuietStep DEF AppliedAtMostOnce
<1>4. ASSUME NEW h \in Handlers, SkipDuplicate(h) \/ TxFails(h) \/ Crash(h)
      PROVE  ClaimsAreExclusive' /\ AppliedAtMostOnce'
  BY <1>4, FinishStep DEF SkipDuplicate, TxFails, Crash, AppliedAtMostOnce
<1>5. ASSUME NEW h \in Handlers, BeginTx(h) \/ \E n \in Notes : Deliver(h, n)
      PROVE  ClaimsAreExclusive' /\ AppliedAtMostOnce'
  <2>1. \A g \in Handlers : pc'[g] \in HasClaim
              => pc[g] \in HasClaim /\ job'[g] = job[g]
    BY <1>5 DEF BeginTx, Deliver, Goto, InboundTypeOK
  <2>2. UNCHANGED <<log, applied>>
    BY <1>5 DEF BeginTx, Deliver
  <2> HIDE DEF HasClaim
  <2> QED
    BY <2>1, <2>2 DEF ClaimsAreExclusive, AppliedAtMostOnce
<1>6. CASE UNCHANGED vars \/ \E i \in Intents : StoreReference(i) \/ StoreSession(i)
  BY <1>6 DEF vars, StoreReference, StoreSession, ClaimsAreExclusive, AppliedAtMostOnce
<1> QED
  BY <1>1, <1>2, <1>3, <1>4, <1>5, <1>6 DEF Next, HandlerStep

\* Every step acknowledges only what is recorded, or what failed.
LEMMA StepAcked ==
  OnlyErrorsLoseNotifications /\ [Next]_vars => OnlyErrorsLoseNotifications'
<1> USE DEF OnlyErrorsLoseNotifications
<1> SUFFICES ASSUME OnlyErrorsLoseNotifications, [Next]_vars
             PROVE  OnlyErrorsLoseNotifications'
  OBVIOUS
<1>1. ASSUME NEW h \in Handlers, SkipDuplicate(h) PROVE OnlyErrorsLoseNotifications'
  BY <1>1 DEF SkipDuplicate, ClaimOutcome
<1>2. ASSUME NEW h \in Handlers, Commit(h) \/ TxFails(h) \/ Crash(h)
      PROVE  OnlyErrorsLoseNotifications'
  BY <1>2 DEF Commit, TxFails, Crash
<1>3. ASSUME NEW h \in Handlers,
             \/ BeginTx(h) \/ ClaimInbound(h) \/ FindIntentByRef(h) \/ LookupFails(h)
             \/ ReadIntent(h) \/ SetIntentStatus(h) \/ PutSession(h)
             \/ SessionFails(h) \/ \E n \in Notes : Deliver(h, n)
      PROVE  OnlyErrorsLoseNotifications'
  BY <1>3 DEF BeginTx, ClaimInbound, FindIntentByRef, LookupFails, ReadIntent,
              SetIntentStatus, PutSession, SessionFails, Deliver
<1>4. CASE UNCHANGED vars \/ \E i \in Intents : StoreReference(i) \/ StoreSession(i)
  BY <1>4 DEF vars, StoreReference, StoreSession
<1> QED
  BY <1>1, <1>2, <1>3, <1>4 DEF Next, HandlerStep

\* The inductive invariant holds in every reachable state.
LEMMA InboundInvariant == Spec => []IInv
<1>1. IInv /\ [Next]_vars => IInv'
  BY StepTypeOK, StepExclusive, StepAcked DEF IInv
<1> QED
  BY InitIInv, <1>1, PTL DEF Spec

\* Type correctness of the handlers and the tables they write.
THEOREM InboundTypeCorrect == Spec => []InboundTypeOK
  BY InboundInvariant, PTL DEF IInv

\* The dedup claim of ClaimInbound is exclusive until it is committed or undone.
THEOREM ClaimsStayExclusive == Spec => []ClaimsAreExclusive
  BY InboundInvariant, PTL DEF IInv

\* No notification ever changes its intent twice, however its copies overlap.
THEOREM NotificationsApplyOnce == Spec => []AppliedAtMostOnce
  BY InboundInvariant, PTL DEF IInv

\* No crash and no overlap of copies acknowledges a notification that is lost.
THEOREM OnlyErrorsLose == Spec => []OnlyErrorsLoseNotifications
  BY InboundInvariant, PTL DEF IInv

\* What handleWebhookIn documents is true while no statement fails: crashes and copies
\* leave no notification acknowledged and not recorded, errors alone do.
THEOREM OnlyErrorsAreNotDurable == Spec => [](errors = 0 => AckedIsDurable)
<1> DEFINE J == errors \in Nat /\ (errors = 0 => failed = {})
<1>1. Init => J
  BY DEF Init
<1>2. J /\ [Next]_vars => J'
  <2> SUFFICES ASSUME J, [Next]_vars PROVE J'
    OBVIOUS
  <2>1. ASSUME NEW h \in Handlers, LookupFails(h) \/ SessionFails(h) \/ TxFails(h)
        PROVE  J'
    BY <2>1 DEF LookupFails, SessionFails, TxFails
  <2>2. ASSUME NEW h \in Handlers,
               HandlerStep(h) \/ Crash(h) \/ \E n \in Notes : Deliver(h, n)
        PROVE  J'
    BY <2>2 DEF HandlerStep, BeginTx, ClaimInbound, SkipDuplicate, FindIntentByRef,
                ReadIntent, SetIntentStatus, PutSession, Commit, Crash, Deliver
  <2>3. CASE UNCHANGED vars \/ \E i \in Intents : StoreReference(i) \/ StoreSession(i)
    BY <2>3 DEF vars, StoreReference, StoreSession
  <2> QED
    BY <2>1, <2>2, <2>3 DEF Next
<1>3. J /\ OnlyErrorsLoseNotifications => (errors = 0 => AckedIsDurable)
  BY DEF OnlyErrorsLoseNotifications, AckedIsDurable
<1> HIDE DEF J
<1> QED
  BY <1>1, <1>2, <1>3, OnlyErrorsLose, PTL DEF Spec

-----------------------------------------------------------------------------
(* What becomes of a notification that is applied, and of the checkout      *)
(* session, which is written outside the transaction.                       *)

\* A status the intent was given.
Logged(i, s) == \E k \in 1..Len(log[i]) : log[i][k].to = s

LEMMA ReflectedMeans ==
  \A n : Reflected(n) <=> n.status = "requires_action" \/ Logged(n.intent, n.status)
  BY DEF Reflected, Logged

LEMMA PaidMeans == \A i : Paid(i) <=> Logged(i, "succeeded")
  BY DEF Paid, Logged

\* The status of an intent that a notification can find is its first or a logged one.
StatusIsLogged == \A i \in known : status[i] = "requires_action" \/ Logged(i, status[i])

\* What a handler has done by the place it is at.
HasDone(h) ==
    /\ job[h].write => pc[h] \in {"updated", "done"}
    /\ pc[h] \in {"found", "read", "updated"} => job[h].note.intent \in known
    /\ pc[h] = "updated" => job[h].write /\ job[h].note.status = "succeeded"
    /\ pc[h] = "done" =>
         \/ job[h].write
         \/ job[h].note \in misread \cup unresolved
         \/ Reflected(job[h].note)
    /\ pc[h] = "done" /\ job[h].write /\ job[h].note.status = "succeeded" =>
         \/ job[h].note.intent \in missed
         \/ session[job[h].note.intent] = "complete"

\* A notification of success that a copy has yet to record, if the lookup lets it.
Pending(n) ==
    \/ n \in misread
    \/ /\ n \notin applied
       /\ \A h \in Handlers : pc[h] = "done" /\ job[h].note = n => job[h].write

\* A payment that was logged has its session complete; a session that was completed
\* by a transaction that did not commit has a notification that is pending.
SessionsInv ==
    \A i \in Intents :
        /\ Paid(i) => i \in missed \/ session[i] = "complete"
        /\ session[i] = "complete" /\ ~Paid(i) =>
             /\ i \in known
             /\ \E n \in sent : n.intent = i /\ n.status = "succeeded" /\ Pending(n)

SInv ==
    /\ IInv
    /\ StatusIsLogged
    /\ \A h \in Handlers : HasDone(h)
    /\ AppliedIsReflected
    /\ SessionsInv

LEMMA InitSInv == Init => SInv
<1> SUFFICES ASSUME Init PROVE SInv
  OBVIOUS
<1>1. IInv
  BY InitIInv
<1>2. \A i \in Intents : ~Paid(i)
  BY DEF Init, Paid
<1> QED
  BY <1>1, <1>2 DEF Init, SInv, StatusIsLogged, HasDone, AppliedIsReflected, SessionsInv, NoJob

\* What is never taken back.
Grows ==
    /\ known \subseteq known' /\ unresolved \subseteq unresolved' /\ misread \subseteq misread'
    /\ missed \subseteq missed' /\ sent \subseteq sent'
    /\ \A i \in Intents : session[i] = "complete" => session'[i] = "complete"
    /\ \A i \in Intents, s \in Statuses : Logged(i, s) => Logged(i, s)'

\* An appended sequence.
LEMMA AppendKeeps ==
  ASSUME NEW S, NEW s \in Seq(S), NEW last
  PROVE  /\ Len(Append(s, last)) = Len(s) + 1 /\ Len(s) \in Nat
         /\ Append(s, last)[Len(s) + 1] = last
         /\ \A k \in 1..Len(s) : Append(s, last)[k] = s[k]
  OBVIOUS

\* A commit logs what it writes, and loses no entry.
LEMMA CommitLogs ==
  ASSUME InboundTypeOK, NEW h \in Handlers, Commit(h)
  PROVE  /\ \A i \in Intents, s \in Statuses : Logged(i, s) => Logged(i, s)'
         /\ \A i \in Intents, s \in Statuses :
              job[h].write /\ i = job[h].note.intent /\ s = job[h].note.status => Logged(i, s)'
<1> DEFINE n == job[h].note
           entry == [note |-> n, from |-> job[h].cur, to |-> n.status]
<1>1. n \in Notes /\ n.intent \in Intents
  BY NoteTyped DEF InboundTypeOK, Commit
<1>2. CASE ~job[h].write
  BY <1>2 DEF Commit, Logged
<1>3. CASE job[h].write
  <2>1. log' = [log EXCEPT ![n.intent] = Append(log[n.intent], entry)]
    BY <1>3 DEF Commit
  <2>2. \A i \in Intents : log[i] \in Seq([note : Notes, from : Statuses, to : Statuses])
    BY DEF InboundTypeOK
  <2>3. entry.to = n.status
    OBVIOUS
  <2>4. \A i \in Intents : i # n.intent => log'[i] = log[i]
    BY <2>1 DEF InboundTypeOK
  <2>5. log'[n.intent] = Append(log[n.intent], entry)
    BY <1>1, <2>1 DEF InboundTypeOK
  <2> HIDE DEF entry
  <2>6. /\ Len(log'[n.intent]) = Len(log[n.intent]) + 1
        /\ log'[n.intent][Len(log[n.intent]) + 1] = entry
        /\ \A k \in 1..Len(log[n.intent]) : log'[n.intent][k] = log[n.intent][k]
        /\ Len(log[n.intent]) \in Nat
    <3>1. log[n.intent] \in Seq([note : Notes, from : Statuses, to : Statuses])
      BY <1>1, <2>2
    <3> QED
      BY <2>5, <3>1, AppendKeeps
  <2>7. PICK i : i = n.intent
    OBVIOUS
  <2>8. Len(log'[i]) = Len(log[i]) + 1 /\ Len(log[i]) \in Nat
        /\ log'[i][Len(log[i]) + 1].to = n.status
        /\ \A k \in 1..Len(log[i]) : log'[i][k] = log[i][k]
    BY <2>3, <2>6, <2>7
  <2>9. \E k \in 1..Len(log'[i]) : log'[i][k].to = n.status
    BY <2>8
  <2>10. ASSUME NEW s, \E k \in 1..Len(log[i]) : log[i][k].to = s
         PROVE  \E k \in 1..Len(log'[i]) : log'[i][k].to = s
    BY <2>8, <2>10
  <2>11. \A j \in Intents, s \in Statuses : Logged(j, s) => Logged(j, s)'
    BY <2>4, <2>7, <2>10 DEF Logged
  <2> QED
    BY <2>7, <2>9, <2>11 DEF Logged
<1> QED
  BY <1>2, <1>3

\* Sets only grow, sessions stay complete, and logs are only appended to.
LEMMA StepGrows ==
  ASSUME InboundTypeOK, [Next]_vars
  PROVE  Grows
<1>1. ASSUME NEW h \in Handlers, Commit(h) PROVE Grows
  BY <1>1, CommitLogs DEF Commit, Grows
<1>2. ASSUME NEW h \in Handlers,
             \/ BeginTx(h) \/ ClaimInbound(h) \/ SkipDuplicate(h) \/ FindIntentByRef(h)
             \/ ReadIntent(h) \/ SetIntentStatus(h) \/ PutSession(h)
             \/ LookupFails(h) \/ SessionFails(h) \/ TxFails(h) \/ Crash(h)
             \/ \E n \in Notes : Deliver(h, n)
      PROVE  Grows
  <2>1. UNCHANGED <<known, log>> /\ sent \subseteq sent' /\ unresolved \subseteq unresolved'
        /\ misread \subseteq misread' /\ missed \subseteq missed'
    BY <1>2 DEF BeginTx, ClaimInbound, SkipDuplicate, FindIntentByRef, ReadIntent,
       SetIntentStatus, PutSession, LookupFails, SessionFails, TxFails, Crash, Deliver
  <2>2. session' = session \/ \E i : session' = [session EXCEPT ![i] = "complete"]
    BY <1>2 DEF BeginTx, ClaimInbound, SkipDuplicate, FindIntentByRef, ReadIntent,
       SetIntentStatus, PutSession, LookupFails, SessionFails, TxFails, Crash, Deliver
  <2>3. \A i \in Intents : session[i] = "complete" => session'[i] = "complete"
    BY <2>2 DEF InboundTypeOK
  <2> QED
    BY <2>1, <2>3 DEF Grows, Logged
<1>3. ASSUME NEW i \in Intents, StoreReference(i) \/ StoreSession(i) PROVE Grows
  BY <1>3 DEF StoreReference, StoreSession, Grows, Logged, InboundTypeOK
<1>4. CASE UNCHANGED vars
  BY <1>4 DEF vars, Grows, Logged
<1> QED
  BY <1>1, <1>2, <1>3, <1>4 DEF Next, HandlerStep

\* A handler at rest, or before its lookup, has done nothing that lasts.
LEMMA NothingDone ==
  ASSUME NEW g \in Handlers, pc[g] \in {"idle", "received", "begun", "claimed"}, ~job[g].write
  PROVE  HasDone(g)
  BY DEF HasDone

\* What a handler has done stays so while others move.
LEMMA OthersKeep ==
  ASSUME InboundTypeOK, Grows, NEW g \in Handlers, HasDone(g),
         pc'[g] = pc[g], job'[g] = job[g]
  PROVE  HasDone(g)'
<1>1. CASE pc[g] = "idle"
  BY <1>1 DEF HasDone
<1>2. CASE pc[g] # "idle"
  <2>1. PICK n \in Notes : n = job[g].note
    BY <1>2 DEF InboundTypeOK
  <2>2. n.intent \in Intents /\ n.status \in Statuses /\ job'[g].note = n
    BY <2>1, NoteTyped
  <2>3. Reflected(n) => Reflected(n)'
    BY <2>2, ReflectedMeans DEF Grows, Reflected, Logged
  <2>4. /\ n.intent \in known => n.intent \in known'
        /\ n \in misread \cup unresolved => n \in misread' \cup unresolved'
        /\ n.intent \in missed => n.intent \in missed'
        /\ session[n.intent] = "complete" => session'[n.intent] = "complete"
    BY <2>2 DEF Grows
  <2> QED
    BY <2>1, <2>2, <2>3, <2>4 DEF HasDone
<1> QED
  BY <1>1, <1>2

\* One step of a handler, or of its gateway's delivery to it.
HandlerMoves(h) ==
    \/ HandlerStep(h) \/ LookupFails(h) \/ SessionFails(h) \/ TxFails(h) \/ Crash(h)
    \/ \E n \in Notes : Deliver(h, n)

\* It leaves the other handlers alone.
LEMMA OneMoves ==
  ASSUME NEW h \in Handlers, HandlerMoves(h), InboundTypeOK
  PROVE  \A g \in Handlers \ {h} : pc'[g] = pc[g] /\ job'[g] = job[g]
  BY DEF HandlerMoves, HandlerStep, BeginTx, ClaimInbound, SkipDuplicate, FindIntentByRef,
     ReadIntent, SetIntentStatus, PutSession, Commit, LookupFails, SessionFails, TxFails, Crash,
     Deliver, Goto, Finish, AfterUpdate, InboundTypeOK

\* What the moving handler has done after its step.
LEMMA MoverHasDone ==
  ASSUME SInv, NEW h \in Handlers, HandlerMoves(h), Grows
  PROVE  HasDone(h)'
<1> USE DEF SInv, IInv
<1>0. HasDone(h) /\ InboundTypeOK
  OBVIOUS
<1>1. CASE \/ SkipDuplicate(h) \/ Commit(h) \/ TxFails(h) \/ Crash(h)
           \/ \E n \in Notes : Deliver(h, n)
  <2>1. ASSUME Finish(h) PROVE pc'[h] \in {"idle", "received"} /\ ~job'[h].write
    BY <1>0, <2>1 DEF Finish, NoJob, InboundTypeOK
  <2>2. ASSUME NEW n \in Notes, Deliver(h, n)
        PROVE  pc'[h] \in {"idle", "received"} /\ ~job'[h].write
    BY <1>0, <2>2 DEF Deliver, NoJob, InboundTypeOK
  <2>3. pc'[h] \in {"idle", "received"} /\ ~job'[h].write
    BY <1>1, <2>1, <2>2 DEF SkipDuplicate, Commit, TxFails, Crash
  <2> QED
    BY <2>3 DEF HasDone
<1>2. CASE BeginTx(h) \/ ClaimInbound(h)
  <2>1. pc'[h] \in {"begun", "claimed"} /\ job' = job /\ pc[h] \in {"received", "begun"}
    BY <1>2 DEF BeginTx, ClaimInbound, Goto, InboundTypeOK
  <2> QED
    BY <1>0, <2>1 DEF HasDone
<1>3. CASE FindIntentByRef(h) \/ LookupFails(h)
  <2>1. /\ job' = job /\ pc[h] = "claimed"
        /\ \/ pc'[h] = "found" /\ job[h].note.intent \in known'
           \/ pc'[h] = "done" /\ job[h].note \in misread' \cup unresolved'
    BY <1>3 DEF FindIntentByRef, LookupFails, Goto, InboundTypeOK
  <2> QED
    BY <1>0, <2>1 DEF HasDone
<1>4. CASE ReadIntent(h)
  <2>1. PICK n \in Notes : n = job[h].note
    BY <1>4 DEF ReadIntent, InboundTypeOK
  <2>2. n.intent \in known /\ n.intent \in known' /\ ~job[h].write /\ n.intent \in Intents
        /\ n.status \in Statuses
    BY <1>0, <1>4, <2>1, NoteTyped DEF HasDone, ReadIntent, Grows
  <2>3. CASE Unchanged(n)
    <3>1. Reflected(n)'
      <4>1. Reflected(n)
        BY <2>2, <2>3, ReflectedMeans DEF StatusIsLogged, Unchanged
      <4> QED
        BY <2>2, <4>1 DEF Grows, Reflected, Logged
    <3>2. pc'[h] = "done" /\ job' = job
      BY <1>4, <2>1, <2>3 DEF ReadIntent, Goto, InboundTypeOK
    <3> QED
      BY <2>1, <2>2, <3>1, <3>2 DEF HasDone
  <2>4. CASE ~Unchanged(n)
    <3> DEFINE j == [job[h] EXCEPT !.cur = status[n.intent]]
    <3>1. job' = [job EXCEPT ![h] = j] /\ pc' = [pc EXCEPT ![h] = "read"]
      BY <1>4, <2>1, <2>4 DEF ReadIntent, Goto
    <3>2. j.note = n /\ ~j.write
      BY <1>0, <2>1, <2>2 DEF InboundTypeOK
    <3> HIDE DEF j
    <3>3. pc'[h] = "read" /\ job'[h].note = n /\ ~job'[h].write
      BY <1>0, <3>1, <3>2 DEF InboundTypeOK
    <3> QED
      BY <2>2, <3>3 DEF HasDone
  <2> QED
    BY <2>3, <2>4
<1>5. CASE SetIntentStatus(h)
  <2>1. /\ pc[h] = "read" /\ job'[h].write /\ job'[h].note = job[h].note
        /\ pc'[h] = IF job[h].note.status = "succeeded" THEN "updated" ELSE "done"
        /\ known' = known
    BY <1>5 DEF SetIntentStatus, AfterUpdate, Goto, InboundTypeOK
  <2> QED
    BY <1>0, <2>1 DEF HasDone
<1>6. CASE PutSession(h) \/ SessionFails(h)
  <2>1. pc[h] = "updated" /\ pc'[h] = "done" /\ job' = job
    BY <1>6 DEF PutSession, SessionFails, Goto, InboundTypeOK
  <2>2. PICK i \in Intents : i = job[h].note.intent
    BY <2>1, NoteTyped DEF InboundTypeOK
  <2>3. i \in missed' \/ session'[i] = "complete"
    BY <1>6, <2>2 DEF PutSession, SessionFails, InboundTypeOK
  <2> QED
    BY <1>0, <2>1, <2>2, <2>3 DEF HasDone
<1> QED
  BY <1>1, <1>2, <1>3, <1>4, <1>5, <1>6 DEF HandlerMoves, HandlerStep

LEMMA StepHasDone ==
  ASSUME SInv, [Next]_vars, NEW g \in Handlers
  PROVE  HasDone(g)'
<1>1. Grows /\ InboundTypeOK /\ HasDone(g)
  BY StepGrows DEF SInv, IInv
<1>2. ASSUME NEW h \in Handlers, HandlerMoves(h) PROVE HasDone(g)'
  BY <1>1, <1>2, OneMoves, MoverHasDone, OthersKeep
<1>3. CASE UNCHANGED vars \/ \E i \in Intents : StoreReference(i) \/ StoreSession(i)
  <2>1. UNCHANGED <<pc, job>>
    BY <1>3 DEF vars, StoreReference, StoreSession
  <2> QED
    BY <1>1, <2>1, OthersKeep
<1> QED
  BY <1>2, <1>3 DEF Next, HandlerMoves

LEMMA StepStatusLogged == ASSUME SInv, [Next]_vars PROVE StatusIsLogged'
<1> USE DEF SInv, IInv
<1>1. Grows /\ InboundTypeOK
  BY StepGrows
<1>2. ASSUME NEW h \in Handlers, Commit(h), job[h].write PROVE StatusIsLogged'
  <2>1. PICK n \in Notes : n = job[h].note
    BY <1>2 DEF Commit, InboundTypeOK
  <2>2. known' = known /\ n.intent \in Intents /\ n.status \in Statuses
        /\ status' = [status EXCEPT ![n.intent] = n.status]
    BY <1>2, <2>1, NoteTyped DEF Commit
  <2>3. Logged(n.intent, n.status)'
    BY <1>2, <2>1, <2>2, CommitLogs
  <2>4. ASSUME NEW i \in known', NEW s, s = status'[i], s # "requires_action"
        PROVE  Logged(i, s)'
    <3>1. CASE i = n.intent
      <4>1. s = n.status
        BY <1>1, <2>2, <2>4, <3>1 DEF InboundTypeOK
      <4> QED
        BY <2>3, <3>1, <4>1
    <3>2. CASE i # n.intent
      <4>1. i \in Intents /\ i \in known /\ s = status[i] /\ s \in Statuses
        BY <1>1, <2>2, <2>4, <3>2 DEF InboundTypeOK
      <4> QED
        BY <1>1, <2>4, <4>1 DEF StatusIsLogged, Grows
    <3> QED
      BY <3>1, <3>2
  <2> QED
    BY <2>4 DEF StatusIsLogged, Logged
<1>3. ASSUME UNCHANGED <<known, status>> PROVE StatusIsLogged'
  <2>1. ASSUME NEW i \in known, NEW s, s = status[i], s # "requires_action" PROVE Logged(i, s)'
    <3>1. i \in Intents /\ s \in Statuses
      BY <1>1, <2>1 DEF InboundTypeOK
    <3> QED
      BY <1>1, <2>1, <3>1 DEF StatusIsLogged, Grows
  <2> QED
    BY <1>3, <2>1 DEF StatusIsLogged, Logged
<1>4. ASSUME NEW i \in Intents, StoreReference(i) PROVE StatusIsLogged'
  BY <1>1, <1>4 DEF StoreReference, StatusIsLogged, Logged, InboundTypeOK
<1>5. \/ \E h \in Handlers : Commit(h) /\ job[h].write
      \/ UNCHANGED <<known, status>>
      \/ \E i \in Intents : StoreReference(i)
  BY DEF Next, HandlerStep, vars, BeginTx, ClaimInbound, SkipDuplicate, FindIntentByRef,
     ReadIntent, SetIntentStatus, PutSession, Commit, LookupFails, SessionFails, TxFails, Crash,
     Deliver, StoreSession
<1> QED
  BY <1>2, <1>3, <1>4, <1>5

LEMMA StepReflected == ASSUME SInv, [Next]_vars PROVE AppliedIsReflected'
<1> USE DEF SInv, IInv
<1>1. Grows /\ InboundTypeOK
  BY StepGrows
<1>2. \A n \in Notes : Reflected(n) => Reflected(n)'
  BY <1>1, NoteTyped DEF Grows, Reflected, Logged
<1>3. applied' = applied \/ \E h \in Handlers : Commit(h)
  BY DEF Next, HandlerStep, vars, BeginTx, ClaimInbound, SkipDuplicate, FindIntentByRef,
     ReadIntent, SetIntentStatus, PutSession, LookupFails, SessionFails, TxFails, Crash,
     Deliver, StoreReference, StoreSession
<1>4. ASSUME NEW h \in Handlers, Commit(h), NEW n, n = job[h].note, n \notin unresolved \cup misread
      PROVE  n \in Notes /\ Reflected(n)'
  <2>1. n \in Notes /\ n.intent \in Intents /\ n.status \in Statuses /\ pc[h] = "done"
    BY <1>1, <1>4, NoteTyped DEF Commit, InboundTypeOK
  <2>2. CASE job[h].write
    <3>1. Logged(n.intent, n.status)'
      BY <1>1, <1>4, <2>1, <2>2, CommitLogs
    <3> QED
      BY <2>1, <3>1 DEF Reflected, Logged
  <2>3. CASE ~job[h].write
    BY <1>2, <1>4, <2>1, <2>3 DEF HasDone
  <2> QED
    BY <2>1, <2>2, <2>3
<1>5. ASSUME NEW n \in applied', n \notin unresolved' \cup misread' PROVE Reflected(n)'
  <2>1. n \notin unresolved \cup misread
    BY <1>1, <1>5 DEF Grows
  <2>2. CASE n \in applied
    BY <1>1, <1>2, <2>1, <2>2 DEF AppliedIsReflected, InboundTypeOK
  <2>3. CASE n \notin applied
    <3>1. PICK h \in Handlers : Commit(h)
      BY <1>3, <1>5, <2>3
    <3>2. n = job[h].note
      BY <1>5, <2>3, <3>1 DEF Commit
    <3> QED
      BY <1>4, <2>1, <3>1, <3>2
  <2> QED
    BY <2>2, <2>3
<1> QED
  BY <1>5 DEF AppliedIsReflected, Reflected, Logged

\* A commit adds to the log only what its handler wrote.
LEMMA CommitAdds ==
  ASSUME InboundTypeOK, NEW h \in Handlers, Commit(h), NEW i \in Intents, NEW s,
         Logged(i, s)', ~Logged(i, s)
  PROVE  job[h].write /\ job[h].note.intent = i /\ job[h].note.status = s
<1> DEFINE n == job[h].note
           entry == [note |-> n, from |-> job[h].cur, to |-> n.status]
<1>1. job[h].write
  BY DEF Commit, Logged
<1>2. log' = [log EXCEPT ![n.intent] = Append(log[n.intent], entry)]
  BY <1>1 DEF Commit
<1>3. n.intent = i
  BY <1>2 DEF InboundTypeOK, Logged
<1>4. log[i] \in Seq([note : Notes, from : Statuses, to : Statuses])
      /\ log'[i] = Append(log[i], entry)
  BY <1>2, <1>3 DEF InboundTypeOK
<1>5. entry.to = n.status
  OBVIOUS
<1> HIDE DEF entry
<1>6. PICK k \in 1..Len(log'[i]) : log'[i][k].to = s
  BY DEF Logged
<1>7. k \notin 1..Len(log[i]) \/ log'[i][k] # log[i][k]
  BY <1>6 DEF Logged
<1>8. log'[i][k] = entry
  BY <1>4, <1>6, <1>7
<1> QED
  BY <1>1, <1>3, <1>5, <1>6, <1>8

LEMMA OnlyCommitsLog ==
  ASSUME [Next]_vars
  PROVE  (UNCHANGED <<log, applied>>) \/ \E h \in Handlers : Commit(h)
  BY DEF Next, HandlerStep, vars, BeginTx, ClaimInbound, SkipDuplicate, FindIntentByRef,
     ReadIntent, SetIntentStatus, PutSession, LookupFails, SessionFails, TxFails, Crash,
     Deliver, StoreReference, StoreSession

\* A payment becomes paid by a handler that has seen to its session.
LEMMA PaidIsComplete ==
  ASSUME SInv, [Next]_vars, NEW i \in Intents, Paid(i)'
  PROVE  i \in missed' \/ session'[i] = "complete"
<1> USE DEF SInv, IInv
<1>1. Grows
  BY StepGrows
<1>2. CASE Paid(i)
  BY <1>1, <1>2 DEF SessionsInv, Grows
<1>3. CASE ~Paid(i)
  <2>1. PICK h \in Handlers : Commit(h)
    BY <1>3, OnlyCommitsLog DEF Paid
  <2>2. job[h].write /\ job[h].note.intent = i /\ job[h].note.status = "succeeded"
    <3>1. Logged(i, "succeeded")' /\ ~Logged(i, "succeeded")
      BY <1>3 DEF Paid, Logged
    <3> QED
      BY <2>1, <3>1, CommitAdds
  <2>3. pc[h] = "done"
    BY <2>1 DEF Commit
  <2>4. i \in missed \/ session[i] = "complete"
    BY <2>2, <2>3 DEF HasDone
  <2> QED
    BY <1>1, <2>4 DEF Grows
<1> QED
  BY <1>2, <1>3

\* A pending success stays so until it is recorded and the payment with it is paid.
LEMMA PendingKeeps ==
  ASSUME SInv, [Next]_vars, NEW n \in Notes, n.status = "succeeded", n.intent \in known,
         ~Paid(n.intent)', Pending(n)
  PROVE  Pending(n)'
<1> USE DEF SInv, IInv
<1>1. Grows /\ InboundTypeOK /\ n.intent \in Intents /\ n.status \in Statuses
  BY StepGrows, NoteTyped
<1>2. ~Paid(n.intent) /\ ~Reflected(n)
  BY <1>1 DEF Grows, Paid, Logged, Reflected
<1>3. CASE n \in misread
  BY <1>1, <1>3 DEF Pending, Grows
<1>4. CASE n \notin misread
  <2>1. n \notin applied /\ \A h \in Handlers : pc[h] = "done" /\ job[h].note = n => job[h].write
    BY <1>4 DEF Pending
  <2>2. n \notin applied'
    <3>1. SUFFICES ASSUME n \in applied' PROVE FALSE
      OBVIOUS
    <3>2. PICK h \in Handlers : Commit(h)
      BY <2>1, <3>1, OnlyCommitsLog
    <3>3. job[h].note = n /\ pc[h] = "done"
      BY <2>1, <3>1, <3>2 DEF Commit
    <3>4. Logged(n.intent, n.status)'
      BY <1>1, <2>1, <3>2, <3>3, CommitLogs
    <3> QED
      BY <3>4 DEF Paid, Logged
  <2>3. ASSUME NEW g \in Handlers, pc'[g] = "done", job'[g].note = n, ~job'[g].write
        PROVE  n \in misread'
    <3>1. CASE pc'[g] = pc[g] /\ job'[g] = job[g]
      BY <2>1, <2>3, <3>1
    <3>2. CASE ~(pc'[g] = pc[g] /\ job'[g] = job[g])
      <4>1. HandlerMoves(g)
        <5>1. \E h \in Handlers : HandlerMoves(h)
          BY <3>2 DEF Next, HandlerMoves, vars, StoreReference, StoreSession
        <5> QED
          BY <1>1, <3>2, <5>1, OneMoves
      <4>2. \/ FindIntentByRef(g) \/ LookupFails(g) \/ ReadIntent(g) \/ SetIntentStatus(g)
            \/ PutSession(g) \/ SessionFails(g)
        BY <1>1, <2>3, <4>1 DEF HandlerMoves, HandlerStep, BeginTx, ClaimInbound, SkipDuplicate,
           Commit, TxFails, Crash, Deliver, Goto, Finish, InboundTypeOK
      <4>3. CASE FindIntentByRef(g)
        <5>1. job[g].note = n
          BY <2>3, <4>3 DEF FindIntentByRef
        <5> QED
          BY <1>1, <2>3, <4>3, <5>1 DEF FindIntentByRef, Goto, InboundTypeOK
      <4>4. CASE LookupFails(g)
        BY <2>3, <4>4 DEF LookupFails
      <4>5. CASE ReadIntent(g)
        <5>1. Unchanged(job[g].note) /\ job' = job
          BY <1>1, <2>3, <4>5 DEF ReadIntent, Goto, InboundTypeOK
        <5>2. status[n.intent] = n.status
          BY <2>3, <5>1 DEF Unchanged
        <5>3. Reflected(n)
          BY <5>2, ReflectedMeans DEF StatusIsLogged
        <5> QED
          BY <1>2, <5>3
      <4>6. CASE SetIntentStatus(g)
        BY <1>1, <2>3, <4>6 DEF SetIntentStatus, InboundTypeOK
      <4>7. CASE PutSession(g) \/ SessionFails(g)
        <5>1. pc[g] = "updated" /\ job' = job
          BY <4>7 DEF PutSession, SessionFails
        <5> QED
          BY <2>3, <5>1 DEF HasDone
      <4> QED
        BY <4>2, <4>3, <4>4, <4>5, <4>6, <4>7
    <3> QED
      BY <3>1, <3>2
  <2> QED
    BY <2>2, <2>3 DEF Pending
<1> QED
  BY <1>3, <1>4

\* A session is completed for a success that is not recorded yet.
LEMMA CompletedIsPending ==
  ASSUME SInv, [Next]_vars, NEW i \in Intents, session'[i] = "complete", session[i] # "complete"
  PROVE  i \in known' /\ \E n \in sent' : n.intent = i /\ n.status = "succeeded" /\ Pending(n)'
<1> USE DEF SInv, IInv
<1>1. Grows /\ InboundTypeOK
  BY StepGrows
<1>2. PICK h \in Handlers : PutSession(h)
  BY <1>1 DEF Next, HandlerStep, vars, BeginTx, ClaimInbound, SkipDuplicate, FindIntentByRef,
     ReadIntent, SetIntentStatus, Commit, LookupFails, SessionFails, TxFails, Crash,
     Deliver, StoreReference, StoreSession, InboundTypeOK
<1>3. PICK n \in sent : n = job[h].note
  BY <1>2 DEF PutSession, InboundTypeOK
<1>4. n.intent = i
  BY <1>1, <1>2, <1>3 DEF PutSession, InboundTypeOK
<1>5. /\ n.status = "succeeded" /\ i \in known /\ job[h].write
      /\ UNCHANGED <<applied, job>> /\ pc[h] = "updated" /\ pc' = [pc EXCEPT ![h] = "done"]
  BY <1>2, <1>3, <1>4 DEF PutSession, HasDone, Goto
<1>6. n \notin applied /\ \A g \in Handlers \ {h} : pc[g] = "done" => job[g].note # n
  BY <1>3, <1>5 DEF ClaimsAreExclusive
<1>7. Pending(n)'
  BY <1>1, <1>5, <1>6 DEF Pending, InboundTypeOK
<1> QED
  BY <1>1, <1>4, <1>5, <1>7 DEF Grows

LEMMA StepSessions == ASSUME SInv, [Next]_vars PROVE SessionsInv'
<1>1. Grows /\ sent \subseteq Notes
  BY StepGrows DEF SInv, IInv, InboundTypeOK
<1>2. ASSUME NEW i \in Intents, session'[i] = "complete", ~Paid(i)'
      PROVE  /\ i \in known'
             /\ \E n \in sent' : n.intent = i /\ n.status = "succeeded" /\ Pending(n)'
  <2>1. CASE session[i] = "complete"
    <3>1. ~Paid(i)
      BY <1>1, <1>2 DEF Grows, Paid, Logged, Statuses
    <3>2. i \in known
      BY <2>1, <3>1 DEF SInv, SessionsInv
    <3>3. PICK n \in sent : n.intent = i /\ n.status = "succeeded" /\ Pending(n)
      BY <2>1, <3>1 DEF SInv, SessionsInv
    <3>4. Pending(n)'
      BY <1>1, <1>2, <3>2, <3>3, PendingKeeps
    <3> QED
      BY <1>1, <3>2, <3>3, <3>4 DEF Grows
  <2>2. CASE session[i] # "complete"
    BY <1>2, <2>2, CompletedIsPending
  <2> QED
    BY <2>1, <2>2
<1> QED
  BY <1>2, PaidIsComplete DEF SessionsInv

LEMMA SessionsInvariant == Spec => []SInv
<1>1. SInv /\ [Next]_vars => SInv'
  <2> SUFFICES ASSUME SInv, [Next]_vars PROVE SInv'
    OBVIOUS
  <2>1. IInv'
    BY StepTypeOK, StepExclusive, StepAcked DEF SInv, IInv
  <2>2. \A h \in Handlers : HasDone(h)'
    BY StepHasDone
  <2> QED
    BY <2>1, <2>2, StepStatusLogged, StepReflected, StepSessions DEF SInv
<1> QED
  BY InitSInv, <1>1, PTL DEF Spec

\* A notification recorded as applied gave its intent its status, unless the lookup
\* found no intent or failed, whatever copies and other notifications ran beside it.
THEOREM AppliedTakesEffect == Spec => []AppliedIsReflected
  BY SessionsInvariant, PTL DEF SInv

\* The checkout session, written outside the transactions, agrees with the payment
\* once its notifications are acknowledged, whatever crashed or overlapped.
THEOREM SessionsFollow == Spec => []SessionFollowsPayment
<1>1. SInv => SessionFollowsPayment
  <2> SUFFICES ASSUME SInv, NEW i \in Intents \ missed,
                      \A n \in sent : n.intent = i => n \in acked \ (failed \cup misread)
               PROVE  session[i] = "complete" <=> Paid(i)
    BY DEF SessionFollowsPayment
  <2>1. Paid(i) => session[i] = "complete"
    BY DEF SInv, SessionsInv
  <2>2. ASSUME session[i] = "complete", ~Paid(i) PROVE FALSE
    <3>1. PICK n \in sent : n.intent = i /\ Pending(n)
      BY <2>2 DEF SInv, SessionsInv
    <3>2. n \in acked /\ n \notin failed /\ n \notin misread
      BY <3>1
    <3>3. n \in applied
      BY <3>2 DEF SInv, IInv, OnlyErrorsLoseNotifications
    <3> QED
      BY <3>1, <3>2, <3>3 DEF Pending
  <2> QED
    BY <2>1, <2>2
<1> QED
  BY <1>1, SessionsInvariant, PTL
==============================================================================
