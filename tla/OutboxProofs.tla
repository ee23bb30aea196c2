---------------------------- MODULE OutboxProofs -----------------------------
(***************************************************************************)
(* Proofs about the outbox for any number of events, workers, attempts,    *)
(* faults and replays.  The inductive invariant is OutboxTypeOK /\         *)
(* ClaimDiscipline; PostsAreCounted is added to it for the last theorem.   *)
(***************************************************************************)
EXTENDS Outbox, TLAPS, FiniteSetTheorems

OutboxInv == OutboxTypeOK /\ ClaimDiscipline

\* The part of OutboxTypeOK that is about the deliverer loops.
WorkersTypeOK ==
    /\ pc \in [Workers -> WorkerStep]
    /\ job \in [Workers -> Job]
    /\ \A w \in Workers : pc[w] # "idle" => job[w].ev \in Events

LEMMA InitInv == Init => OutboxInv
BY OutboxAssumption DEF Init, OutboxInv, OutboxTypeOK, ClaimDiscipline, TokensLive,
   JobsAreCurrent, TokensAreUnique, RowStatus, WorkerStep, Job, NoJob, NoToken

\* Ending a job leaves a well-typed idle worker.
LEMMA EndJobTypeOK ==
    ASSUME WorkersTypeOK, NEW w \in Workers, EndJob(w)
    PROVE  WorkersTypeOK'
<1>1. NoJob \in Job /\ "idle" \in WorkerStep
  BY DEF NoJob, NoToken, Job, WorkerStep
<1> QED
  BY <1>1 DEF WorkersTypeOK, EndJob

\* A worker that moves on within its job keeps the event it leased.
LEMMA SameEventTypeOK ==
    ASSUME WorkersTypeOK, NEW w \in Workers, pc[w] # "idle",
           NEW step \in WorkerStep, NEW j \in Job, j.ev = job[w].ev,
           pc' = [pc EXCEPT ![w] = step], job' = [job EXCEPT ![w] = j]
    PROVE  WorkersTypeOK'
BY DEF WorkersTypeOK

\* Each action preserves the types of the columns and of the workers' jobs.
LEMMA StepTypeOK == OutboxTypeOK /\ [Next]_vars => OutboxTypeOK'
<1> SUFFICES ASSUME OutboxTypeOK, [Next]_vars PROVE OutboxTypeOK'
  OBVIOUS
<1> USE OutboxAssumption DEF rowVars, workerVars
<1>0. WorkersTypeOK
  BY DEF OutboxTypeOK, WorkersTypeOK
<1>1. ASSUME NEW w \in Workers, NEW e \in Events, LeaseDueOutbound(w, e)
      PROVE  OutboxTypeOK'
  <2>1. [ev |-> e, tok |-> newClaimToken(e), ok |-> FALSE, seen |-> 0] \in Job
    BY DEF OutboxTypeOK, Job, newClaimToken
  <2>2. WorkersTypeOK'
    BY <1>0, <1>1, <2>1 DEF WorkersTypeOK, LeaseDueOutbound, WorkerStep
  <2> QED
    BY <1>1, <2>2 DEF OutboxTypeOK, WorkersTypeOK, LeaseDueOutbound, newClaimToken,
       RowStatus
<1>2. ASSUME NEW w \in Workers, DeliverPayload(w) PROVE OutboxTypeOK'
  <2>1. PICK taken \in BOOLEAN, ok \in BOOLEAN :
          /\ ok => taken
          /\ job' = [job EXCEPT ![w].ok = ok]
          /\ accepted' = IF taken THEN [accepted EXCEPT ![job[w].ev] = @ + 1]
                                  ELSE accepted
          /\ faults' = IF taken /\ ~ok THEN faults + 1 ELSE faults
    BY <1>2 DEF DeliverPayload
  <2>2. [job[w] EXCEPT !.ok = ok] \in Job /\ [job[w] EXCEPT !.ok = ok].ev = job[w].ev
    BY <1>0 DEF WorkersTypeOK, Job
  <2>3. WorkersTypeOK'
    BY <1>0, <1>2, <2>1, <2>2 DEF WorkersTypeOK, DeliverPayload, WorkerStep
  <2>4. accepted' \in [Events -> Nat]
    BY <1>0, <1>2, <2>1 DEF WorkersTypeOK, OutboxTypeOK, DeliverPayload
  <2>5. faults' \in Nat
    BY <2>1 DEF OutboxTypeOK
  <2> QED
    BY <1>2, <2>3, <2>4, <2>5 DEF OutboxTypeOK, WorkersTypeOK, DeliverPayload
<1>3. ASSUME NEW w \in Workers, CompleteSelect(w) PROVE OutboxTypeOK'
  <2>1. CASE HoldsClaim(w)
    <3> DEFINE j == [job[w] EXCEPT !.seen = attempts[job[w].ev]]
    <3>1. pc[w] # "idle" /\ job[w] \in Job /\ attempts[job[w].ev] \in Nat
      BY <1>0, <1>3 DEF OutboxTypeOK, WorkersTypeOK, CompleteSelect
    <3>2. j \in Job /\ j.ev = job[w].ev
      BY <3>1 DEF Job
    <3>3. job' = [job EXCEPT ![w] = j] /\ pc' = [pc EXCEPT ![w] = "selected"]
      BY <1>0, <1>3, <2>1 DEF CompleteSelect, WorkersTypeOK
    <3>4. WorkersTypeOK'
      BY <1>0, <3>1, <3>2, <3>3, SameEventTypeOK DEF WorkerStep
    <3> QED
      BY <1>3, <3>4 DEF OutboxTypeOK, WorkersTypeOK, CompleteSelect
  <2>2. CASE ~HoldsClaim(w)
    <3>1. WorkersTypeOK'
      BY <1>0, <1>3, <2>2, EndJobTypeOK DEF CompleteSelect
    <3> QED
      BY <1>3, <3>1 DEF OutboxTypeOK, WorkersTypeOK, CompleteSelect
  <2> QED
    BY <2>1, <2>2
<1>4. ASSUME NEW w \in Workers, CompleteUpdate(w) PROVE OutboxTypeOK'
  <2>1. Outcome(w) \in RowStatus
    BY DEF Outcome, RowStatus
  <2>2. WorkersTypeOK'
    BY <1>0, <1>4, EndJobTypeOK DEF CompleteUpdate
  <2>3. /\ status' \in [Events -> RowStatus]
        /\ token' \in [Events -> Nat]
        /\ elapsed' \in [Events -> BOOLEAN]
    <3>1. CASE UpdateMatches(w)
      <4>1. /\ status' = [status EXCEPT ![job[w].ev] = Outcome(w)]
            /\ token' = [token EXCEPT ![job[w].ev] = NoToken]
            /\ elapsed' = [elapsed EXCEPT ![job[w].ev] = FALSE]
        BY <1>4, <3>1 DEF CompleteUpdate
      <4> QED
        BY <2>1, <4>1 DEF OutboxTypeOK, NoToken
    <3>2. CASE ~UpdateMatches(w)
      BY <1>4, <3>2 DEF CompleteUpdate, OutboxTypeOK
    <3> QED
      BY <3>1, <3>2
  <2> QED
    BY <1>4, <2>2, <2>3 DEF OutboxTypeOK, WorkersTypeOK, CompleteUpdate
<1>5. ASSUME NEW w \in Workers, Abandon(w) PROVE OutboxTypeOK'
  <2>1. WorkersTypeOK'
    BY <1>0, <1>5, EndJobTypeOK DEF Abandon
  <2> QED
    BY <1>5, <2>1 DEF OutboxTypeOK, WorkersTypeOK, Abandon
<1>6. ASSUME NEW e \in Events, RowNext(e) PROVE OutboxTypeOK'
  <2>1. CASE EnqueueOutbound(e)
    BY <2>1 DEF OutboxTypeOK, EnqueueOutbound, RowStatus
  <2>2. CASE ReplayOutbound(e)
    BY <2>2 DEF OutboxTypeOK, ReplayOutbound, RowStatus, NoToken
  <2>3. CASE BackoffElapses(e)
    BY <2>3 DEF OutboxTypeOK, BackoffElapses
  <2>4. CASE LeaseLapses(e)
    BY <2>4 DEF OutboxTypeOK, LeaseLapses
  <2> QED
    BY <1>6, <2>1, <2>2, <2>3, <2>4 DEF RowNext
<1>7. CASE UNCHANGED vars
  BY <1>7 DEF OutboxTypeOK, vars
<1> QED
  BY <1>1, <1>2, <1>3, <1>4, <1>5, <1>6, <1>7 DEF Next, WorkerNext

\* The columns, the tokens and the deliverers' jobs keep their types in every
\* behaviour of the outbox, whatever the number of workers and faults.
THEOREM OutboxTypeCorrect == Spec => []OutboxTypeOK
<1>1. Init => OutboxTypeOK
  BY InitInv DEF OutboxInv
<1> QED
  BY <1>1, StepTypeOK, PTL DEF Spec

-----------------------------------------------------------------------------
\* A worker whose job ends disturbs no claim: the rows, the tokens issued and the
\* answers counted are as before, and so are the other workers' jobs.
LEMMA EndJobDiscipline ==
    ASSUME OutboxInv, NEW w \in Workers, EndJob(w),
           UNCHANGED <<rowVars, accepted>>
    PROVE  ClaimDiscipline'
<1> USE DEF OutboxInv, rowVars
<1>1. TokensLive'
  BY DEF ClaimDiscipline, TokensLive
<1>2. \A v \in Workers : pc'[v] # "idle" => v # w /\ pc[v] # "idle" /\ job'[v] = job[v]
                                          /\ pc'[v] = pc[v]
  BY DEF EndJob, OutboxTypeOK
<1>3. JobsAreCurrent'
  BY <1>2 DEF ClaimDiscipline, JobsAreCurrent, JobIsCurrent, UpdateMatches
<1>4. TokensAreUnique'
  BY <1>2 DEF ClaimDiscipline, TokensAreUnique
<1> QED
  BY <1>1, <1>3, <1>4 DEF ClaimDiscipline

\* Each action preserves the claim protocol.
LEMMA StepDiscipline == OutboxInv /\ [Next]_vars => ClaimDiscipline'
<1> SUFFICES ASSUME OutboxInv, [Next]_vars PROVE ClaimDiscipline'
  OBVIOUS
<1> USE DEF OutboxInv
<1>1. ASSUME NEW w \in Workers, NEW e \in Events, LeaseDueOutbound(w, e)
      PROVE  ClaimDiscipline'
  <2>0. issued[e] \in Nat /\ attempts[e] \in Nat /\ \A f \in Events : issued[f] \in Nat
    BY DEF OutboxTypeOK
  <2>1. /\ pc' = [pc EXCEPT ![w] = "leased"]
        /\ job'[w].ev = e /\ job'[w].tok = issued[e] + 1 /\ ~job'[w].ok
        /\ \A v \in Workers : v # w => job'[v] = job[v] /\ pc'[v] = pc[v]
        /\ pc'[w] = "leased"
    BY <1>1 DEF LeaseDueOutbound, newClaimToken, OutboxTypeOK
  <2>2. /\ issued'[e] = issued[e] + 1 /\ token'[e] = issued[e] + 1
        /\ attempts'[e] = attempts[e] + 1 /\ status'[e] = "in_flight"
        /\ \A f \in Events : f # e => /\ issued'[f] = issued[f] /\ token'[f] = token[f]
                                      /\ attempts'[f] = attempts[f] /\ status'[f] = status[f]
        /\ accepted' = accepted
    BY <1>1 DEF LeaseDueOutbound, newClaimToken, OutboxTypeOK
  <2>3. TokensLive'
    BY <2>0, <2>2 DEF ClaimDiscipline, TokensLive, NoToken
  <2>4. ASSUME NEW v \in Workers, pc'[v] # "idle" PROVE JobIsCurrent(v)'
    <3>1. CASE v = w
      BY <2>0, <2>1, <2>2, <3>1 DEF JobIsCurrent
    <3>2. CASE v # w
      <4>1. /\ pc[v] # "idle" /\ job[v].ev \in Events /\ JobIsCurrent(v)
            /\ job'[v] = job[v] /\ pc'[v] = pc[v]
        BY <2>1, <2>4, <3>2 DEF OutboxTypeOK, ClaimDiscipline, JobsAreCurrent
      <4>2. CASE job[v].ev = e
        \* The new token is larger than the one v holds: v's claim is lost.
        BY <2>0, <2>2, <4>1, <4>2 DEF JobIsCurrent, UpdateMatches
      <4>3. CASE job[v].ev # e
        BY <2>2, <4>1, <4>3 DEF JobIsCurrent, UpdateMatches
      <4> QED
        BY <4>2, <4>3
    <3> QED
      BY <3>1, <3>2
  <2>5. TokensAreUnique'
    <3>1. ASSUME NEW v \in Workers, v # w, pc'[v] # "idle", job'[v].ev = e
          PROVE  job'[v].tok # job'[w].tok
      BY <2>0, <2>1, <3>1 DEF ClaimDiscipline, JobsAreCurrent, JobIsCurrent
    <3> QED
      BY <2>1, <3>1 DEF ClaimDiscipline, TokensAreUnique
  <2> QED
    BY <2>3, <2>4, <2>5 DEF ClaimDiscipline, JobsAreCurrent
<1>2. ASSUME NEW w \in Workers, DeliverPayload(w) PROVE ClaimDiscipline'
  <2>1. PICK taken \in BOOLEAN, ok \in BOOLEAN :
          /\ ok => taken
          /\ job' = [job EXCEPT ![w].ok = ok]
          /\ accepted' = IF taken THEN [accepted EXCEPT ![job[w].ev] = @ + 1]
                                  ELSE accepted
          /\ faults' = IF taken /\ ~ok THEN faults + 1 ELSE faults
    BY <1>2 DEF DeliverPayload
  <2>2. UNCHANGED rowVars /\ pc' = [pc EXCEPT ![w] = "posted"] /\ pc[w] = "leased"
    BY <1>2 DEF DeliverPayload
  <2>3. /\ job'[w].ev = job[w].ev /\ job'[w].tok = job[w].tok /\ job'[w].ok = ok
        /\ \A v \in Workers : v # w => job'[v] = job[v] /\ pc'[v] = pc[v]
        /\ pc'[w] = "posted" /\ job[w].ev \in Events
    BY <2>1, <2>2 DEF OutboxTypeOK, Job
  <2>4. /\ \A f \in Events : /\ accepted[f] \in Nat /\ accepted'[f] \in Nat
                              /\ accepted'[f] >= accepted[f]
        /\ ok => accepted'[job[w].ev] > 0
    BY <2>1, <2>3 DEF OutboxTypeOK
  <2>5. ASSUME NEW v \in Workers, pc'[v] # "idle" PROVE JobIsCurrent(v)'
    <3>1. pc[v] # "idle" /\ JobIsCurrent(v) /\ job[v].ev \in Events
      BY <2>2, <2>3, <2>5 DEF OutboxTypeOK, ClaimDiscipline, JobsAreCurrent
    <3>2. CASE v = w
      BY <2>2, <2>3, <2>4, <3>1, <3>2 DEF JobIsCurrent, rowVars
    <3>3. CASE v # w
      <4>1. accepted[job[v].ev] > 0 => accepted'[job[v].ev] > 0
        BY <2>4, <3>1
      <4>2. job'[v] = job[v] /\ pc'[v] = pc[v]
        BY <2>3, <3>3
      <4>3. token' = token /\ issued' = issued /\ attempts' = attempts
        BY <2>2 DEF rowVars
      <4> QED
        BY <3>1, <4>1, <4>2, <4>3 DEF JobIsCurrent, UpdateMatches
    <3> QED
      BY <3>2, <3>3
  <2>6. TokensLive' /\ TokensAreUnique'
    BY <2>2, <2>3 DEF ClaimDiscipline, TokensLive, TokensAreUnique, rowVars
  <2> QED
    BY <2>5, <2>6 DEF ClaimDiscipline, JobsAreCurrent
<1>3. ASSUME NEW w \in Workers, CompleteSelect(w) PROVE ClaimDiscipline'
  <2>1. CASE ~HoldsClaim(w)
    BY <1>3, <2>1, EndJobDiscipline DEF CompleteSelect
  <2>2. CASE HoldsClaim(w)
    <3>1. /\ UNCHANGED <<rowVars, accepted>> /\ pc[w] = "posted"
          /\ pc' = [pc EXCEPT ![w] = "selected"]
          /\ job' = [job EXCEPT ![w].seen = attempts[job[w].ev]]
      BY <1>3, <2>2 DEF CompleteSelect
    <3>2. /\ job'[w].ev = job[w].ev /\ job'[w].tok = job[w].tok /\ job'[w].ok = job[w].ok
          /\ job'[w].seen = attempts[job[w].ev] /\ pc'[w] = "selected"
          /\ \A v \in Workers : v # w => job'[v] = job[v] /\ pc'[v] = pc[v]
      BY <3>1 DEF OutboxTypeOK, Job
    <3>3. ASSUME NEW v \in Workers, pc'[v] # "idle" PROVE JobIsCurrent(v)'
      <4>1. pc[v] # "idle" /\ JobIsCurrent(v)
        BY <3>1, <3>2, <3>3 DEF ClaimDiscipline, JobsAreCurrent
      <4>2. CASE v = w
        BY <3>1, <3>2, <4>1, <4>2 DEF JobIsCurrent, rowVars
      <4>3. CASE v # w
        BY <3>1, <3>2, <4>1, <4>3 DEF JobIsCurrent, rowVars, UpdateMatches
      <4> QED
        BY <4>2, <4>3
    <3>4. TokensLive' /\ TokensAreUnique'
      BY <3>1, <3>2 DEF ClaimDiscipline, TokensLive, TokensAreUnique, rowVars
    <3> QED
      BY <3>3, <3>4 DEF ClaimDiscipline, JobsAreCurrent
  <2> QED
    BY <2>1, <2>2
<1>4. ASSUME NEW w \in Workers, CompleteUpdate(w) PROVE ClaimDiscipline'
  <2>1. CASE ~UpdateMatches(w)
    BY <1>4, <2>1, EndJobDiscipline DEF CompleteUpdate, rowVars
  <2>2. CASE UpdateMatches(w)
    <3> DEFINE e == job[w].ev
    <3>1. /\ pc[w] = "selected" /\ EndJob(w) /\ UNCHANGED <<attempts, issued, accepted>>
          /\ status' = [status EXCEPT ![e] = Outcome(w)]
          /\ token' = [token EXCEPT ![e] = NoToken]
      BY <1>4, <2>2 DEF CompleteUpdate
    <3>2. e \in Events /\ Outcome(w) # "in_flight"
      BY <3>1 DEF OutboxTypeOK, Outcome
    <3>3. TokensLive'
      BY <3>1, <3>2 DEF OutboxTypeOK, ClaimDiscipline, TokensLive, NoToken
    <3>4. \A v \in Workers : pc'[v] # "idle" => /\ v # w /\ pc[v] # "idle"
                                               /\ job'[v] = job[v] /\ pc'[v] = pc[v]
      BY <3>1 DEF EndJob, OutboxTypeOK
    <3>5. ASSUME NEW v \in Workers, pc'[v] # "idle" PROVE JobIsCurrent(v)'
      <4>1. JobIsCurrent(v) /\ job'[v] = job[v] /\ pc'[v] = pc[v] /\ job[v].ev \in Events
        BY <3>4, <3>5 DEF OutboxTypeOK, ClaimDiscipline, JobsAreCurrent
      <4>2. token'[job[v].ev] = token[job[v].ev] \/ token'[job[v].ev] = NoToken
        BY <3>1, <3>2, <4>1 DEF OutboxTypeOK
      <4>3. NoToken # job[v].tok
        BY <4>1 DEF JobIsCurrent, NoToken
      <4> QED
        BY <3>1, <4>1, <4>2, <4>3 DEF JobIsCurrent, UpdateMatches
    <3>6. TokensAreUnique'
      BY <3>4 DEF ClaimDiscipline, TokensAreUnique
    <3> QED
      BY <3>3, <3>5, <3>6 DEF ClaimDiscipline, JobsAreCurrent
  <2> QED
    BY <2>1, <2>2
<1>5. ASSUME NEW w \in Workers, Abandon(w) PROVE ClaimDiscipline'
  BY <1>5, EndJobDiscipline DEF Abandon
<1>6. ASSUME NEW e \in Events, EnqueueOutbound(e) PROVE ClaimDiscipline'
  BY <1>6 DEF EnqueueOutbound, OutboxTypeOK, ClaimDiscipline, TokensLive, JobsAreCurrent,
     JobIsCurrent, TokensAreUnique, UpdateMatches, workerVars
<1>7. ASSUME NEW e \in Events, BackoffElapses(e) \/ LeaseLapses(e) PROVE ClaimDiscipline'
  BY <1>7 DEF BackoffElapses, LeaseLapses, ClaimDiscipline, TokensLive, JobsAreCurrent,
     JobIsCurrent, TokensAreUnique, UpdateMatches, workerVars
<1>8. ASSUME NEW e \in Events, ReplayOutbound(e) PROVE ClaimDiscipline'
  \* A replayable row is not in_flight, so its token is already clear.
  <2>1. token[e] = NoToken
    BY <1>8 DEF ReplayOutbound, ClaimDiscipline, TokensLive
  <2>2. token' = token
    BY <1>8, <2>1 DEF ReplayOutbound, OutboxTypeOK
  <2>3. /\ UNCHANGED <<attempts, issued, pc, job, accepted>>
        /\ status' = [status EXCEPT ![e] = "pending"] /\ status[e] # "in_flight"
    BY <1>8 DEF ReplayOutbound, workerVars
  <2>4. TokensLive'
    BY <2>1, <2>2, <2>3 DEF OutboxTypeOK, ClaimDiscipline, TokensLive
  <2>5. JobsAreCurrent' /\ TokensAreUnique'
    BY <2>2, <2>3 DEF ClaimDiscipline, JobsAreCurrent, JobIsCurrent, TokensAreUnique,
       UpdateMatches
  <2> QED
    BY <2>4, <2>5 DEF ClaimDiscipline
<1>9. CASE UNCHANGED vars
  BY <1>9 DEF vars, rowVars, workerVars, ClaimDiscipline, TokensLive, JobsAreCurrent,
     JobIsCurrent, TokensAreUnique, UpdateMatches
<1> QED
  BY <1>1, <1>2, <1>3, <1>4, <1>5, <1>6, <1>7, <1>8, <1>9 DEF Next, WorkerNext, RowNext

LEMMA OutboxInvariant == Spec => []OutboxInv
<1>1. OutboxInv /\ [Next]_vars => OutboxInv'
  BY StepTypeOK, StepDiscipline DEF OutboxInv
<1> QED
  BY <1>1, InitInv, PTL DEF Spec

\* The claim protocol holds for any number of workers and lapsing leases.
THEOREM ClaimsAreDisciplined == Spec => []ClaimDiscipline
BY OutboxInvariant, PTL DEF OutboxInv

\* No two deliverer loops hold the current claim of one row.
THEOREM SingleOwner == Spec => []AtMostOneOwner
<1>1. OutboxInv => AtMostOneOwner
  BY DEF OutboxInv, ClaimDiscipline, TokensAreUnique, AtMostOneOwner, Owner
<1> QED
  BY <1>1, OutboxInvariant, PTL

\* CompleteOutbound's unguarded UPDATE only ever acts on the row as its SELECT saw
\* it, although the statements are not in one transaction.
THEOREM UpdateIsSafe == Spec => []UpdateActsOnCurrentRow
<1>1. OutboxInv => UpdateActsOnCurrentRow
  BY DEF OutboxInv, OutboxTypeOK, ClaimDiscipline, JobsAreCurrent, JobIsCurrent,
     TokensLive, UpdateActsOnCurrentRow, HoldsClaim, UpdateMatches, NoToken
<1> QED
  BY <1>1, OutboxInvariant, PTL

-----------------------------------------------------------------------------
\* The merchant's view of the rows, as the refinement mapping defines it.
PhaseMap == [e \in Events |-> PhaseOf(status[e])]
ConfirmedMap == {e \in Events : accepted[e] > 0}

\* What stays the same of the rows stays the same in the merchant's view.
LEMMA MapUnchanged ==
    ASSUME status' = status, accepted' = accepted
    PROVE  PhaseMap' = PhaseMap /\ ConfirmedMap' = ConfirmedMap
BY DEF PhaseMap, ConfirmedMap

\* Writing one row's status moves that event's phase and no other.
LEMMA PhaseMapStep ==
    ASSUME OutboxTypeOK, NEW e \in Events, NEW s, status' = [status EXCEPT ![e] = s]
    PROVE  PhaseMap' = [PhaseMap EXCEPT ![e] = PhaseOf(s)]
BY DEF OutboxTypeOK, PhaseMap, PhaseOf

\* Every step of the outbox is a step of EventDelivery or invisible to it.
LEMMA StepRefines ==
    OutboxInv /\ [Next]_vars => [Delivery!DeliveryNext]_(Delivery!deliveryVars)
<1> SUFFICES ASSUME OutboxInv, [Next]_vars
             PROVE  [Delivery!DeliveryNext]_(Delivery!deliveryVars)
  OBVIOUS
<1> USE DEF OutboxInv
<1> DEFINE Goal == [Delivery!DeliveryNext]_(Delivery!deliveryVars)
           Hidden == UNCHANGED <<PhaseMap, attempts, ConfirmedMap, replays>>
<1>0. Hidden => Goal
  BY DEF Delivery!deliveryVars, PhaseMap, ConfirmedMap
<1>1. ASSUME NEW w \in Workers, NEW e \in Events, LeaseDueOutbound(w, e) PROVE Goal
  <2>1. PhaseMap' = [PhaseMap EXCEPT ![e] = "owed"]
    BY <1>1, PhaseMapStep DEF LeaseDueOutbound, PhaseOf
  <2>2. PhaseMap[e] = "owed"
    BY <1>1 DEF LeaseDueOutbound, Due, PhaseMap, PhaseOf
  <2>3. PhaseMap' = PhaseMap
    BY <2>1, <2>2 DEF PhaseMap
  <2>4. ConfirmedMap' = ConfirmedMap
    BY <1>1 DEF LeaseDueOutbound, ConfirmedMap
  <2>5. Delivery!Try(e)
    BY <1>1, <2>2, <2>3, <2>4 DEF Delivery!Try, LeaseDueOutbound, PhaseMap, ConfirmedMap
  <2> QED
    BY <2>5 DEF Delivery!DeliveryNext
<1>2. ASSUME NEW w \in Workers, DeliverPayload(w) PROVE Goal
  <2>0. PICK e \in Events : e = job[w].ev
    BY <1>2 DEF DeliverPayload, OutboxTypeOK
  <2>1. PICK ok \in BOOLEAN :
          accepted' = IF ok THEN [accepted EXCEPT ![e] = @ + 1] ELSE accepted
    BY <1>2, <2>0 DEF DeliverPayload
  <2>2. UNCHANGED <<status, attempts, replays>> /\ attempts[e] > 0
    BY <1>2, <2>0 DEF DeliverPayload, rowVars, OutboxTypeOK, ClaimDiscipline, JobsAreCurrent,
       JobIsCurrent
  <2>3. PhaseMap' = PhaseMap
    BY <2>2 DEF PhaseMap
  <2>4. CASE ~ok
    BY <1>0, <2>1, <2>2, <2>4, MapUnchanged
  <2>5. CASE ok
    <3>1. ConfirmedMap' = ConfirmedMap \cup {e}
      <4>1. \A f \in Events : accepted[f] \in Nat
                /\ accepted'[f] = IF f = e THEN accepted[f] + 1 ELSE accepted[f]
        BY <2>1, <2>2, <2>5 DEF OutboxTypeOK
      <4> QED
        BY <2>2, <4>1 DEF ConfirmedMap
    <3>2. Delivery!Confirm(e)
      BY <2>2, <2>3, <3>1 DEF Delivery!Confirm, PhaseMap, ConfirmedMap
    <3> QED
      BY <3>2 DEF Delivery!DeliveryNext
  <2> QED
    BY <2>4, <2>5
<1>3. ASSUME NEW w \in Workers, CompleteSelect(w) PROVE Goal
  BY <1>0, <1>3, MapUnchanged DEF CompleteSelect, rowVars
<1>4. ASSUME NEW w \in Workers, CompleteUpdate(w) PROVE Goal
  <2>1. CASE ~UpdateMatches(w)
    BY <1>0, <1>4, <2>1, MapUnchanged DEF CompleteUpdate
  <2>2. CASE UpdateMatches(w)
    <3> DEFINE e == job[w].ev
    <3>1. /\ pc[w] = "selected" /\ UNCHANGED <<attempts, accepted, replays>>
          /\ status' = [status EXCEPT ![e] = Outcome(w)]
      BY <1>4, <2>2 DEF CompleteUpdate
    <3>2. e \in Events /\ HoldsClaim(w) /\ job[w].seen = attempts[e] /\ JobIsCurrent(w)
      BY <2>2, <3>1 DEF OutboxTypeOK, ClaimDiscipline, JobsAreCurrent, JobIsCurrent,
         TokensLive, HoldsClaim, UpdateMatches, NoToken
    <3>3. PhaseMap[e] = "owed"
      BY <3>2 DEF HoldsClaim, PhaseMap, PhaseOf
    <3>4. PhaseMap' = [PhaseMap EXCEPT ![e] = PhaseOf(Outcome(w))]
      BY <3>1, <3>2, PhaseMapStep
    <3>5. ConfirmedMap' = ConfirmedMap
      BY <3>1 DEF ConfirmedMap
    <3>6. CASE Outcome(w) = "failed"
      <4>1. PhaseMap' = PhaseMap
        BY <3>3, <3>4, <3>6 DEF PhaseMap, PhaseOf
      <4> QED
        BY <1>0, <3>1, <3>5, <4>1
    <3>7. CASE Outcome(w) = "delivered"
      <4>1. job[w].ok
        BY <3>7 DEF Outcome
      <4>2. e \in ConfirmedMap
        BY <3>1, <3>2, <4>1 DEF JobIsCurrent, ConfirmedMap
      <4>3. Delivery!Settle(e)
        BY <3>1, <3>3, <3>4, <3>5, <3>7, <4>2 DEF Delivery!Settle, PhaseMap, ConfirmedMap,
           PhaseOf
      <4> QED
        BY <3>2, <4>3 DEF Delivery!DeliveryNext
    <3>8. CASE Outcome(w) = "dead"
      <4>1. attempts[e] >= MaxAttempts
        BY <3>2, <3>8 DEF Outcome
      <4>2. Delivery!Settle(e)
        BY <3>1, <3>3, <3>4, <3>5, <3>8, <4>1 DEF Delivery!Settle, PhaseMap, ConfirmedMap,
           PhaseOf
      <4> QED
        BY <3>2, <4>2 DEF Delivery!DeliveryNext
    <3> QED
      BY <3>6, <3>7, <3>8 DEF Outcome
  <2> QED
    BY <2>1, <2>2
<1>5. ASSUME NEW w \in Workers, Abandon(w) PROVE Goal
  BY <1>0, <1>5, MapUnchanged DEF Abandon, rowVars
<1>6. ASSUME NEW e \in Events, EnqueueOutbound(e) PROVE Goal
  <2>1. PhaseMap' = [PhaseMap EXCEPT ![e] = "owed"] /\ PhaseMap[e] = "absent"
    BY <1>6, PhaseMapStep DEF EnqueueOutbound, PhaseOf, PhaseMap
  <2>2. Delivery!Owe(e)
    BY <1>6, <2>1 DEF Delivery!Owe, EnqueueOutbound, PhaseMap
  <2> QED
    BY <2>2 DEF Delivery!DeliveryNext
<1>7. ASSUME NEW e \in Events, ReplayOutbound(e) PROVE Goal
  <2>1. /\ PhaseMap' = [PhaseMap EXCEPT ![e] = "owed"]
        /\ PhaseMap[e] \in {"owed", "delivered"}
    BY <1>7, PhaseMapStep DEF ReplayOutbound, PhaseOf, PhaseMap
  <2>2. Delivery!Reopen(e)
    BY <1>7, <2>1 DEF Delivery!Reopen, ReplayOutbound, PhaseMap
  <2> QED
    BY <2>2 DEF Delivery!DeliveryNext
<1>8. ASSUME NEW e \in Events, BackoffElapses(e) \/ LeaseLapses(e) PROVE Goal
  BY <1>0, <1>8, MapUnchanged DEF BackoffElapses, LeaseLapses
<1>9. CASE UNCHANGED vars
  BY <1>0, <1>9, MapUnchanged DEF vars, rowVars
<1> QED
  BY <1>1, <1>2, <1>3, <1>4, <1>5, <1>6, <1>7, <1>8, <1>9 DEF Next, WorkerNext, RowNext

\* The outbox keeps the merchant's promise: no stale worker un-settles an event, a
\* delivered event was accepted, a dead one was tried MaxAttempts times.
THEOREM OutboxRefinesDelivery == Spec => ImplementsDelivery
<1>1. Init => Delivery!DeliveryInit
  <2> SUFFICES ASSUME Init PROVE Delivery!DeliveryInit
    OBVIOUS
  <2>1. [e \in Events |-> PhaseOf(status[e])] = [e \in Events |-> "absent"]
    BY DEF Init, PhaseOf
  <2>2. {e \in Events : accepted[e] > 0} = {}
    BY DEF Init
  <2> QED
    BY <2>1, <2>2 DEF Init, Delivery!DeliveryInit
<1> QED
  BY <1>1, StepRefines, OutboxInvariant, PTL DEF Spec, ImplementsDelivery,
     Delivery!DeliverySpec

-----------------------------------------------------------------------------
(* Each acceptance by the merchant but the first is paid for.  A row may be*)
(* leased again free of charge only while Spare(e) is 1; the POSTs that    *)
(* are about to be sent and this allowance are counted with the POSTs      *)
(* taken.                                                                  *)

\* The workers about to POST the event, stale ones included.
Taking(e) == {w \in Workers : pc[w] = "leased" /\ job[w].ev = e}

\* No further lease of the row comes without a fault or a replay.
Settling(e) ==
    \/ status[e] \in {"delivered", "dead"}
    \/ /\ status[e] = "in_flight" /\ ~elapsed[e]
       /\ \E w \in Workers : Owner(w, e) /\ (pc[w] = "leased" \/ job[w].ok)

Spare(e) == IF Settling(e) THEN 0 ELSE 1

PostsAreCounted ==
    \A e \in Events : accepted[e] + Cardinality(Taking(e)) + Spare(e) <= 1 + faults + replays

CountInv == OutboxInv /\ PostsAreCounted

LEMMA TakingIsFinite ==
    ASSUME NEW e
    PROVE  IsFiniteSet(Taking(e)) /\ Cardinality(Taking(e)) \in Nat
<1>1. Taking(e) \in SUBSET Workers
  BY DEF Taking
<1> QED
  BY <1>1, OutboxAssumption, FS_Subset, FS_CardinalityType

\* What the count is about, with the types of its parts.
LEMMA CountParts ==
    ASSUME CountInv, NEW e \in Events
    PROVE  /\ accepted[e] \in Nat /\ faults \in Nat /\ replays \in Nat
           /\ Cardinality(Taking(e)) \in Nat /\ Spare(e) \in {0, 1}
           /\ accepted[e] + Cardinality(Taking(e)) + Spare(e) <= 1 + faults + replays
BY TakingIsFinite DEF CountInv, OutboxInv, OutboxTypeOK, PostsAreCounted, Spare

LEMMA InitCount == Init => CountInv
<1> SUFFICES ASSUME Init PROVE CountInv
  OBVIOUS
<1>1. ASSUME NEW e \in Events PROVE Cardinality(Taking(e)) = 0 /\ accepted[e] = 0
  <2>1. Taking(e) = {}
    BY DEF Init, Taking
  <2> QED
    BY <2>1, FS_EmptySet DEF Init
<1>2. PostsAreCounted
  BY <1>1 DEF PostsAreCounted, Spare, Init
<1> QED
  BY <1>2, InitInv DEF CountInv

\* Without a new lease and a POST taken, a step is good for every event about which
\* it spends a fault or a replay, or settles no less than before.
LEMMA SpendOrSettle ==
    ASSUME CountInv, UNCHANGED accepted, NEW e \in Events, Taking(e)' \subseteq Taking(e),
           \/ /\ faults' + replays' = faults + replays + 1
           \/ /\ faults' + replays' = faults + replays
              /\ Settling(e) => Settling(e)',
           faults' \in Nat, replays' \in Nat
    PROVE  accepted'[e] + Cardinality(Taking(e)') + Spare(e)' <= 1 + faults' + replays'
<1>1. Cardinality(Taking(e)') <= Cardinality(Taking(e)) /\ Cardinality(Taking(e)') \in Nat
  BY TakingIsFinite, FS_Subset, FS_CardinalityType
<1>2. Spare(e)' \in {0, 1} /\ (Settling(e) /\ Settling(e)' => Spare(e)' = Spare(e))
      /\ (~Settling(e) => Spare(e) = 1)
  BY DEF Spare
<1> QED
  BY <1>1, <1>2, CountParts

\* A worker that is not about to POST and holds no claim leaves without a trace.
LEMMA StaleLeaves ==
    ASSUME CountInv, NEW w \in Workers, EndJob(w), NEW e \in Events, ~Owner(w, e),
           status'[e] = status[e], elapsed'[e] = elapsed[e], token'[e] = token[e]
    PROVE  Settling(e) => Settling(e)'
<1> SUFFICES ASSUME Settling(e) PROVE Settling(e)'
  OBVIOUS
<1>1. CASE status[e] \in {"delivered", "dead"}
  BY <1>1 DEF Settling
<1>2. CASE status[e] \notin {"delivered", "dead"}
  <2>1. PICK v \in Workers : Owner(v, e) /\ (pc[v] = "leased" \/ job[v].ok)
    BY <1>2 DEF Settling
  <2>2. pc'[v] = pc[v] /\ job'[v] = job[v]
    BY <2>1 DEF EndJob, CountInv, OutboxInv, OutboxTypeOK
  <2> QED
    BY <1>2, <2>1, <2>2 DEF Settling, Owner
<1> QED
  BY <1>1, <1>2

\* A worker whose job ends is no longer about to POST.
LEMMA EndJobTaking ==
    ASSUME CountInv, NEW w \in Workers, EndJob(w), NEW e
    PROVE  Taking(e)' \subseteq Taking(e)
BY DEF Taking, EndJob, CountInv, OutboxInv, OutboxTypeOK

LEMMA LeaseCounts ==
    ASSUME CountInv, NEW w \in Workers, NEW e \in Events, LeaseDueOutbound(w, e)
    PROVE  PostsAreCounted'
<1>1. /\ UNCHANGED <<accepted, faults, replays>> /\ pc[w] = "idle" /\ Due(e)
      /\ \A d \in Events : d # e => status'[d] = status[d] /\ elapsed'[d] = elapsed[d]
                                    /\ token'[d] = token[d]
      /\ status'[e] = "in_flight" /\ elapsed'[e] = FALSE /\ token'[e] = newClaimToken(e)
      /\ \A v \in Workers : v # w => pc'[v] = pc[v] /\ job'[v] = job[v]
      /\ pc'[w] = "leased" /\ job'[w].ev = e /\ job'[w].tok = newClaimToken(e)
  BY DEF LeaseDueOutbound, CountInv, OutboxInv, OutboxTypeOK
<1> SUFFICES ASSUME NEW d \in Events
             PROVE  accepted'[d] + Cardinality(Taking(d)') + Spare(d)' <= 1 + faults' + replays'
  BY DEF PostsAreCounted
<1>2. CASE d = e
  <2>1. Taking(e)' = Taking(e) \cup {w} /\ w \notin Taking(e)
    BY <1>1 DEF Taking
  <2>2. Cardinality(Taking(e)') = Cardinality(Taking(e)) + 1
    BY <2>1, TakingIsFinite, FS_AddElement
  <2>3. Settling(e)'
    BY <1>1 DEF Settling, Owner
  <2>4. ~Settling(e)
    BY <1>1 DEF Settling, Due
  <2>5. Spare(e)' = 0 /\ Spare(e) = 1
    BY <2>3, <2>4 DEF Spare
  <2> QED
    BY <1>1, <1>2, <2>2, <2>5, CountParts
<1>3. CASE d # e
  <2>1. Taking(d)' \subseteq Taking(d)
    BY <1>1, <1>3 DEF Taking
  <2>2. Settling(d) => Settling(d)'
    BY <1>1, <1>3 DEF Settling, Owner
  <2> QED
    BY <1>1, <2>1, <2>2, SpendOrSettle, CountParts
<1> QED
  BY <1>2, <1>3

LEMMA PostCounts ==
    ASSUME CountInv, NEW w \in Workers, DeliverPayload(w)
    PROVE  PostsAreCounted'
<1>0. PICK e \in Events : e = job[w].ev
  BY DEF DeliverPayload, CountInv, OutboxInv, OutboxTypeOK
<1>1. /\ pc[w] = "leased" /\ pc' = [pc EXCEPT ![w] = "posted"]
      /\ UNCHANGED <<status, elapsed, token, replays>>
  BY DEF DeliverPayload, rowVars, CountInv, OutboxInv, OutboxTypeOK
<1>2. PICK taken \in BOOLEAN, ok \in BOOLEAN :
        /\ ok => taken
        /\ job' = [job EXCEPT ![w].ok = ok]
        /\ accepted' = IF taken THEN [accepted EXCEPT ![e] = @ + 1] ELSE accepted
        /\ faults' = IF taken /\ ~ok THEN faults + 1 ELSE faults
  BY <1>0 DEF DeliverPayload
<1>3. /\ \A v \in Workers : v # w => pc'[v] = pc[v] /\ job'[v] = job[v]
      /\ pc'[w] = "posted" /\ job'[w].ev = e /\ job'[w].tok = job[w].tok /\ job'[w].ok = ok
  BY <1>0, <1>1, <1>2 DEF CountInv, OutboxInv, OutboxTypeOK, Job
<1> SUFFICES ASSUME NEW d \in Events
             PROVE  accepted'[d] + Cardinality(Taking(d)') + Spare(d)' <= 1 + faults' + replays'
  BY DEF PostsAreCounted
<1>4. CASE d = e
  <2>1. Taking(e)' = Taking(e) \ {w} /\ w \in Taking(e)
    BY <1>0, <1>1, <1>3 DEF Taking
  <2>2. Cardinality(Taking(e)') = Cardinality(Taking(e)) - 1
    BY <2>1, TakingIsFinite, FS_RemoveElement
  <2>3. Spare(e)' \in {0, 1}
    BY DEF Spare
  <2>4. CASE ~taken
    BY <1>1, <1>2, <1>4, <2>2, <2>3, <2>4, CountParts
  <2>5. CASE taken /\ ~ok
    <3>1. accepted'[e] = accepted[e] + 1 /\ faults' = faults + 1
      BY <1>1, <1>2, <2>5 DEF CountInv, OutboxInv, OutboxTypeOK
    <3> QED
      BY <1>1, <1>4, <2>2, <2>3, <3>1, CountParts
  <2>6. CASE taken /\ ok
    <3>1. accepted'[e] = accepted[e] + 1 /\ faults' = faults
      BY <1>1, <1>2, <2>6 DEF CountInv, OutboxInv, OutboxTypeOK
    <3>2. \A v \in Workers : Owner(v, e) /\ (pc[v] = "leased" \/ job[v].ok) =>
                             Owner(v, e)' /\ (pc'[v] = "leased" \/ job'[v].ok)
      BY <1>1, <1>3, <2>6 DEF Owner
    <3>3. Settling(e) => Settling(e)'
      BY <1>1, <3>2 DEF Settling
    <3>4. Spare(e)' <= Spare(e)
      BY <3>3 DEF Spare
    <3> QED
      BY <1>1, <1>4, <2>2, <2>3, <3>1, <3>4, CountParts
  <2> QED
    BY <1>2, <2>4, <2>5, <2>6
<1>5. CASE d # e
  <2>1. Taking(d)' = Taking(d)
    BY <1>0, <1>1, <1>3, <1>5 DEF Taking
  <2>2. Settling(d)' <=> Settling(d)
    BY <1>0, <1>1, <1>3, <1>5 DEF Settling, Owner
  <2>3. Spare(d)' = Spare(d)
    BY <2>2 DEF Spare
  <2>4. accepted'[d] = accepted[d] /\ faults' \in {faults, faults + 1}
    BY <1>2, <1>5 DEF CountInv, OutboxInv, OutboxTypeOK
  <2> QED
    BY <1>1, <2>1, <2>3, <2>4, CountParts
<1> QED
  BY <1>4, <1>5

LEMMA SelectCounts ==
    ASSUME CountInv, NEW w \in Workers, CompleteSelect(w), NEW e \in Events
    PROVE  Taking(e)' \subseteq Taking(e) /\ (Settling(e) => Settling(e)')
<1>1. UNCHANGED <<status, elapsed, token>> /\ pc[w] = "posted"
  BY DEF CompleteSelect, rowVars
<1>2. CASE HoldsClaim(w)
  <2>1. /\ \A v \in Workers : v # w => pc'[v] = pc[v] /\ job'[v] = job[v]
        /\ pc'[w] = "selected" /\ job'[w].ev = job[w].ev /\ job'[w].tok = job[w].tok
        /\ job'[w].ok = job[w].ok
    BY <1>2 DEF CompleteSelect, CountInv, OutboxInv, OutboxTypeOK, Job
  <2>2. \A v \in Workers : Owner(v, e) /\ (pc[v] = "leased" \/ job[v].ok) =>
                           Owner(v, e)' /\ (pc'[v] = "leased" \/ job'[v].ok)
    BY <1>1, <2>1 DEF Owner
  <2> QED
    BY <1>1, <2>1, <2>2 DEF Taking, Settling
<1>3. CASE ~HoldsClaim(w)
  <2>1. EndJob(w)
    BY <1>3 DEF CompleteSelect
  <2>2. CASE Owner(w, e)
    <3>1. status[e] # "in_flight"
      BY <1>3, <2>2 DEF HoldsClaim, Owner
    <3> QED
      BY <1>1, <2>1, <3>1, EndJobTaking DEF Settling
  <2>3. CASE ~Owner(w, e)
    BY <1>1, <2>1, <2>3, EndJobTaking, StaleLeaves
  <2> QED
    BY <2>2, <2>3
<1> QED
  BY <1>2, <1>3

LEMMA UpdateCounts ==
    ASSUME CountInv, NEW w \in Workers, CompleteUpdate(w), NEW e \in Events
    PROVE  Taking(e)' \subseteq Taking(e) /\ (Settling(e) => Settling(e)')
<1>1. EndJob(w) /\ pc[w] = "selected" /\ Taking(e)' \subseteq Taking(e)
  BY EndJobTaking DEF CompleteUpdate
<1>2. CASE Owner(w, e)
  <2>1. UpdateMatches(w) /\ e = job[w].ev
    BY <1>2 DEF UpdateMatches, Owner
  <2>2. status'[e] = Outcome(w)
    BY <2>1 DEF CompleteUpdate, CountInv, OutboxInv, OutboxTypeOK
  <2>3. HoldsClaim(w)
    BY <1>1, <1>2, <2>1 DEF HoldsClaim, UpdateMatches, CountInv, OutboxInv, OutboxTypeOK,
       ClaimDiscipline, TokensLive, JobsAreCurrent, JobIsCurrent, NoToken
  <2>4. Settling(e) => job[w].ok
    BY <1>1, <1>2, <2>1, <2>3 DEF Settling, HoldsClaim, Owner, CountInv, OutboxInv,
       ClaimDiscipline, TokensAreUnique
  <2>5. job[w].ok => Settling(e)'
    BY <2>2 DEF Settling, Outcome
  <2> QED
    BY <1>1, <2>4, <2>5
<1>3. CASE ~Owner(w, e)
  <2>1. status'[e] = status[e] /\ elapsed'[e] = elapsed[e] /\ token'[e] = token[e]
    BY <1>1, <1>3 DEF CompleteUpdate, UpdateMatches, Owner, CountInv, OutboxInv, OutboxTypeOK
  <2> QED
    BY <1>1, <1>3, <2>1, StaleLeaves
<1> QED
  BY <1>2, <1>3

\* Time, enqueues and replays.
LEMMA RowCounts ==
    ASSUME CountInv, NEW d \in Events, RowNext(d), NEW e \in Events
    PROVE  /\ UNCHANGED accepted /\ Taking(e)' \subseteq Taking(e)
           /\ \/ faults' + replays' = faults + replays + 1
              \/ faults' + replays' = faults + replays /\ (Settling(e) => Settling(e)')
<1>1. UNCHANGED <<pc, job, accepted>> /\ faults \in Nat /\ replays \in Nat
  BY DEF RowNext, EnqueueOutbound, ReplayOutbound, BackoffElapses, LeaseLapses, workerVars,
     CountInv, OutboxInv, OutboxTypeOK
<1>2. Taking(e)' = Taking(e)
  BY <1>1 DEF Taking
<1>3. CASE EnqueueOutbound(d)
  <2>1. /\ status[d] = "absent" /\ \A c \in Events : c # d => status'[c] = status[c]
        /\ UNCHANGED <<elapsed, token, faults, replays>>
    BY <1>3 DEF EnqueueOutbound, CountInv, OutboxInv, OutboxTypeOK
  <2> QED
    BY <1>1, <1>2, <2>1 DEF Settling, Owner
<1>4. CASE ReplayOutbound(d)
  BY <1>1, <1>2, <1>4 DEF ReplayOutbound
<1>5. CASE BackoffElapses(d)
  <2>1. /\ status[d] = "failed" /\ \A c \in Events : c # d => elapsed'[c] = elapsed[c]
        /\ UNCHANGED <<status, token, faults, replays>>
    BY <1>5 DEF BackoffElapses, CountInv, OutboxInv, OutboxTypeOK
  <2> QED
    BY <1>1, <1>2, <2>1 DEF Settling, Owner
<1>6. CASE LeaseLapses(d)
  <2>1. /\ status[d] = "in_flight" /\ \A c \in Events : c # d => elapsed'[c] = elapsed[c]
        /\ UNCHANGED <<status, token, replays>>
    BY <1>6 DEF LeaseLapses, CountInv, OutboxInv, OutboxTypeOK
  <2>2. CASE faults' = faults + 1
    BY <1>1, <1>2, <2>1, <2>2
  <2>3. CASE faults' # faults + 1
    <3>1. faults' = faults /\ \A w \in Workers : ~Owner(w, d)
      BY <1>6, <2>3 DEF LeaseLapses
    <3> QED
      BY <1>1, <1>2, <2>1, <3>1 DEF Settling, Owner
  <2> QED
    BY <2>2, <2>3
<1> QED
  BY <1>3, <1>4, <1>5, <1>6 DEF RowNext

LEMMA StepCounts == CountInv /\ [Next]_vars => CountInv'
<1> SUFFICES ASSUME CountInv, [Next]_vars PROVE CountInv'
  OBVIOUS
<1>1. OutboxInv' /\ faults' \in Nat /\ replays' \in Nat
  <2>1. OutboxInv'
    BY StepTypeOK, StepDiscipline DEF CountInv, OutboxInv
  <2> QED
    BY <2>1 DEF OutboxInv, OutboxTypeOK
<1>2. ASSUME NEW w \in Workers, NEW e \in Events, LeaseDueOutbound(w, e) PROVE PostsAreCounted'
  BY <1>2, LeaseCounts
<1>3. ASSUME NEW w \in Workers, DeliverPayload(w) PROVE PostsAreCounted'
  BY <1>3, PostCounts
<1>4. ASSUME NEW w \in Workers, CompleteSelect(w) \/ CompleteUpdate(w) PROVE PostsAreCounted'
  <2>1. UNCHANGED <<accepted, faults, replays>>
    BY <1>4 DEF CompleteSelect, CompleteUpdate
  <2> QED
    BY <1>1, <1>4, <2>1, SelectCounts, UpdateCounts, SpendOrSettle DEF PostsAreCounted
<1>5. ASSUME NEW w \in Workers, Abandon(w) PROVE PostsAreCounted'
  <2>1. EndJob(w) /\ faults' = faults + 1 /\ UNCHANGED <<accepted, replays>>
    BY <1>5 DEF Abandon
  <2>2. faults' + replays' = faults + replays + 1
    BY <2>1 DEF CountInv, OutboxInv, OutboxTypeOK
  <2> QED
    BY <1>1, <2>1, <2>2, EndJobTaking, SpendOrSettle DEF PostsAreCounted
<1>6. ASSUME NEW d \in Events, RowNext(d) PROVE PostsAreCounted'
  BY <1>1, <1>6, RowCounts, SpendOrSettle DEF PostsAreCounted
<1>7. CASE UNCHANGED vars
  <2>1. UNCHANGED <<accepted, faults, replays, status, elapsed, token, pc, job>>
    BY <1>7 DEF vars, rowVars, workerVars
  <2>2. ASSUME NEW e \in Events
        PROVE  Taking(e)' \subseteq Taking(e) /\ (Settling(e) => Settling(e)')
    BY <2>1 DEF Taking, Settling, Owner
  <2>3. PostsAreCounted'
    BY <1>1, <2>1, <2>2, SpendOrSettle DEF PostsAreCounted
  <2> QED
    BY <1>1, <2>3 DEF CountInv
<1> QED
  BY <1>1, <1>2, <1>3, <1>4, <1>5, <1>6, <1>7 DEF CountInv, Next, WorkerNext

\* A merchant takes an event once, and again only for each crash, database error,
\* early lapse, lost answer or replay, however many workers there are.
THEOREM DuplicatesTakeFaults == Spec => []DuplicatesArePaidFor
<1>1. CountInv => DuplicatesArePaidFor
  <2> SUFFICES ASSUME CountInv, NEW e \in Events PROVE accepted[e] <= 1 + faults + replays
    BY DEF DuplicatesArePaidFor
  <2> QED
    BY CountParts
<1> QED
  BY <1>1, InitCount, StepCounts, PTL DEF Spec
==============================================================================
