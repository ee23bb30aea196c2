------------------------- MODULE IdempotencyProofs --------------------------
(***************************************************************************)
(* Proofs about Idempotency for any number of keys, bodies and servers and *)
(* any number of faults: the types, that all answers under a key agree     *)
(* with the stored one, that a key stays bound to one body, and that the   *)
(* middleware implements SingleAnswer.                                     *)
(***************************************************************************)
EXTENDS Idempotency, TLAPS

\* A key is bound to the body it was first used with, also after a failed or an
\* abandoned run: the wrapped handler never runs with another body.
KeyIsBoundToBody == \A k \in Keys : bodies[k] \subseteq {hash[k]}

\* A key nobody has claimed was never run with any body: what makes
\* KeyIsBoundToBody inductive.
UnclaimedIsUnused == \A k \in Keys : record[k] = "absent" => bodies[k] = {}

IInv == IdempotencyTypeOK /\ AnsweredIsStored /\ UnclaimedIsUnused /\ KeyIsBoundToBody

USE IdempotencyAssumption

\* The invariant holds of an empty table and idle servers.
LEMMA InitIInv == Init => IInv
  BY DEF Init, IInv, IdempotencyTypeOK, AnsweredIsStored, UnclaimedIsUnused,
         KeyIsBoundToBody, NoRequest

\* A server that leaves keeps the types of the servers' variables.
LEMMA LeaveTypeOK ==
  ASSUME IdempotencyTypeOK, NEW s \in Servers, Leave(s)
  PROVE  /\ pc' \in [Servers -> {"idle", "owner", "succeeded", "erred"}]
         /\ req' \in [Servers -> [key : Keys \cup {NoKey}, run : Nat]]
         /\ \A t \in Servers : pc'[t] # "idle" => req'[t].key \in Keys
  BY DEF IdempotencyTypeOK, Leave, NoRequest

\* Every step keeps the types.
LEMMA StepTypeOK == IdempotencyTypeOK /\ [Next]_vars => IdempotencyTypeOK'
<1> SUFFICES ASSUME IdempotencyTypeOK, [Next]_vars PROVE IdempotencyTypeOK'
  OBVIOUS
<1>1. ASSUME NEW s \in Servers, NEW k \in Keys, NEW b \in Bodies,
             ClaimIdempotency(s, k, b)
      PROVE  IdempotencyTypeOK'
  <2>1. hash' \in [Keys -> Bodies \cup {NoBody}]
    BY <1>1 DEF ClaimIdempotency, IdempotencyTypeOK
  <2>2. bodies' \in [Keys -> SUBSET Bodies]
    BY <1>1 DEF ClaimIdempotency, IdempotencyTypeOK
  <2>3. runs' \in [Keys -> Nat]
    BY <1>1 DEF ClaimIdempotency, IdempotencyTypeOK
  <2>4. [key |-> k, run |-> runs[k] + 1] \in [key : Keys \cup {NoKey}, run : Nat]
    BY DEF IdempotencyTypeOK
  <2>5. /\ req' \in [Servers -> [key : Keys \cup {NoKey}, run : Nat]]
        /\ \A t \in Servers : pc'[t] # "idle" => req'[t].key \in Keys
    BY <1>1, <2>4 DEF ClaimIdempotency, IdempotencyTypeOK
  <2> QED
    BY <1>1, <2>1, <2>2, <2>3, <2>5 DEF ClaimIdempotency, IdempotencyTypeOK
<1>2. ASSUME NEW s \in Servers, RunHandler(s) PROVE IdempotencyTypeOK'
  BY <1>2 DEF RunHandler, IdempotencyTypeOK, rowVars, historyVars
<1>3. ASSUME NEW s \in Servers, CompleteIdempotency(s) PROVE IdempotencyTypeOK'
  <2>1. req[s].key \in Keys /\ req[s].run \in Nat
    BY <1>3 DEF CompleteIdempotency, IdempotencyTypeOK
  <2>2. CASE StillProcessing(req[s].key)
    <3>1. /\ record' = [record EXCEPT ![req[s].key] = "completed"]
          /\ response' = [response EXCEPT ![req[s].key] = req[s].run]
          /\ lapsed' = [lapsed EXCEPT ![req[s].key] = FALSE]
          /\ answered' = [answered EXCEPT ![req[s].key] = @ \cup {req[s].run}]
          /\ Leave(s) /\ UNCHANGED <<hash, runs, bodies, faults>>
      BY <1>3, <2>2 DEF CompleteIdempotency
    <3>2. answered' \in [Keys -> SUBSET Nat]
      BY <2>1, <3>1 DEF IdempotencyTypeOK
    <3> QED
      BY <2>1, <3>1, <3>2, LeaveTypeOK DEF IdempotencyTypeOK
  <2>3. CASE ~StillProcessing(req[s].key)
    BY <1>3, <2>3, LeaveTypeOK DEF CompleteIdempotency, IdempotencyTypeOK
  <2> QED
    BY <2>2, <2>3
<1>4. ASSUME NEW s \in Servers, FailIdempotency(s) PROVE IdempotencyTypeOK'
  <2>1. CASE StillProcessing(req[s].key)
    BY <1>4, <2>1, LeaveTypeOK DEF FailIdempotency, IdempotencyTypeOK, historyVars
  <2>2. CASE ~StillProcessing(req[s].key)
    BY <1>4, <2>2, LeaveTypeOK DEF FailIdempotency, IdempotencyTypeOK, historyVars
  <2> QED
    BY <2>1, <2>2
<1>5. ASSUME NEW s \in Servers, Abandon(s) PROVE IdempotencyTypeOK'
  BY <1>5, LeaveTypeOK DEF Abandon, IdempotencyTypeOK, rowVars, historyVars
<1>6. ASSUME NEW k \in Keys, NEW b \in Bodies, ReplayResponse(k, b)
      PROVE  IdempotencyTypeOK'
  BY <1>6 DEF ReplayResponse, IdempotencyTypeOK, rowVars
<1>7. ASSUME NEW k \in Keys, LeaseLapses(k) PROVE IdempotencyTypeOK'
  BY <1>7 DEF LeaseLapses, IdempotencyTypeOK, historyVars
<1>8. CASE UNCHANGED vars
  BY <1>8 DEF IdempotencyTypeOK, vars, rowVars, historyVars
<1> QED
  BY <1>1, <1>2, <1>3, <1>4, <1>5, <1>6, <1>7, <1>8 DEF Next, ServerNext, KeyNext

\* Every step keeps the answers equal to the stored response: only a claim that is
\* 'processing', hence unanswered, can be completed, and a completed one is final.
LEMMA StepAnswered ==
  IdempotencyTypeOK /\ AnsweredIsStored /\ [Next]_vars => AnsweredIsStored'
<1> SUFFICES ASSUME IdempotencyTypeOK, AnsweredIsStored, [Next]_vars
             PROVE  AnsweredIsStored'
  OBVIOUS
<1>1. ASSUME NEW s \in Servers, NEW k \in Keys, NEW b \in Bodies,
             ClaimIdempotency(s, k, b)
      PROVE  AnsweredIsStored'
  BY <1>1 DEF ClaimIdempotency, MayOwn, Reclaimable, IdempotencyTypeOK, AnsweredIsStored
<1>2. ASSUME NEW s \in Servers, RunHandler(s) \/ Abandon(s) PROVE AnsweredIsStored'
  BY <1>2 DEF RunHandler, Abandon, AnsweredIsStored, rowVars, historyVars
<1>3. ASSUME NEW s \in Servers, CompleteIdempotency(s) PROVE AnsweredIsStored'
  <2>1. CASE StillProcessing(req[s].key)
    <3>1. answered[req[s].key] = {} /\ req[s].key \in Keys
      BY <1>3, <2>1 DEF StillProcessing, AnsweredIsStored, CompleteIdempotency,
                        IdempotencyTypeOK
    <3> QED
      BY <1>3, <2>1, <3>1 DEF CompleteIdempotency, AnsweredIsStored, IdempotencyTypeOK
  <2>2. CASE ~StillProcessing(req[s].key)
    BY <1>3, <2>2 DEF CompleteIdempotency, AnsweredIsStored
  <2> QED
    BY <2>1, <2>2
<1>4. ASSUME NEW s \in Servers, FailIdempotency(s) PROVE AnsweredIsStored'
  BY <1>4 DEF FailIdempotency, StillProcessing, AnsweredIsStored, IdempotencyTypeOK,
              historyVars
<1>5. ASSUME NEW k \in Keys, NEW b \in Bodies, ReplayResponse(k, b)
      PROVE  AnsweredIsStored'
  BY <1>5 DEF ReplayResponse, MayReplay, AnsweredIsStored, IdempotencyTypeOK, rowVars
<1>6. ASSUME NEW k \in Keys, LeaseLapses(k) PROVE AnsweredIsStored'
  BY <1>6 DEF LeaseLapses, AnsweredIsStored, historyVars
<1>7. CASE UNCHANGED vars
  BY <1>7 DEF AnsweredIsStored, vars, rowVars, historyVars
<1> QED
  BY <1>1, <1>2, <1>3, <1>4, <1>5, <1>6, <1>7 DEF Next, ServerNext, KeyNext

\* Every step keeps a key bound to its first body: only a claim runs the handler,
\* and it takes over an existing row only with that row's hash.
LEMMA StepBound ==
  IInv /\ [Next]_vars => UnclaimedIsUnused' /\ KeyIsBoundToBody'
<1> SUFFICES ASSUME IInv, [Next]_vars PROVE UnclaimedIsUnused' /\ KeyIsBoundToBody'
  OBVIOUS
<1> USE DEF IInv, UnclaimedIsUnused, KeyIsBoundToBody
<1>1. ASSUME NEW s \in Servers, NEW k \in Keys, NEW b \in Bodies,
             ClaimIdempotency(s, k, b)
      PROVE  UnclaimedIsUnused' /\ KeyIsBoundToBody'
  <2>1. UnclaimedIsUnused'
    BY <1>1 DEF ClaimIdempotency, IdempotencyTypeOK
  <2>2. hash'[k] = b /\ bodies'[k] \subseteq {b}
    BY <1>1 DEF ClaimIdempotency, MayOwn, IdempotencyTypeOK
  <2>3. \A j \in Keys \ {k} : hash'[j] = hash[j] /\ bodies'[j] = bodies[j]
    BY <1>1 DEF ClaimIdempotency, IdempotencyTypeOK
  <2> QED
    BY <2>1, <2>2, <2>3
<1>2. ASSUME NEW s \in Servers, RunHandler(s) \/ Abandon(s)
      PROVE  UnclaimedIsUnused' /\ KeyIsBoundToBody'
  BY <1>2 DEF RunHandler, Abandon, rowVars, historyVars
<1>3. ASSUME NEW s \in Servers, CompleteIdempotency(s) \/ FailIdempotency(s)
      PROVE  UnclaimedIsUnused' /\ KeyIsBoundToBody'
  BY <1>3 DEF CompleteIdempotency, FailIdempotency, StillProcessing,
              IdempotencyTypeOK, historyVars
<1>4. ASSUME NEW k \in Keys,
             LeaseLapses(k) \/ \E b \in Bodies : ReplayResponse(k, b)
      PROVE  UnclaimedIsUnused' /\ KeyIsBoundToBody'
  BY <1>4 DEF LeaseLapses, ReplayResponse, rowVars, historyVars
<1>5. CASE UNCHANGED vars
  BY <1>5 DEF vars, rowVars, historyVars
<1> QED
  BY <1>1, <1>2, <1>3, <1>4, <1>5 DEF Next, ServerNext, KeyNext

\* The inductive invariant holds in every reachable state.
LEMMA IdempotencyInvariant == Spec => []IInv
<1>1. IInv /\ [Next]_vars => IInv'
  BY StepTypeOK, StepAnswered, StepBound DEF IInv
<1> QED
  BY InitIInv, <1>1, PTL DEF Spec

\* Type correctness of the middleware and its table.
THEOREM IdempotencyTypeCorrect == Spec => []IdempotencyTypeOK
  BY IdempotencyInvariant, PTL DEF IInv

\* The stored response is the only one clients were ever given below 500.
THEOREM StoredResponseIsFinal == Spec => []AnsweredIsStored
  BY IdempotencyInvariant, PTL DEF IInv

\* All clients of a key that are answered below 500 are answered alike, even when
\* two owners of one key overlap.
THEOREM ReplaysAgree == Spec => []ResponsesAgree
<1>1. IInv => ResponsesAgree
  BY DEF IInv, AnsweredIsStored, ResponsesAgree
<1> QED
  BY IdempotencyInvariant, <1>1, PTL

\* The wrapped handler is never run with a second body under one key.
THEOREM KeysStayBound == Spec => []KeyIsBoundToBody
  BY IdempotencyInvariant, PTL DEF IInv

-----------------------------------------------------------------------------
(* The refinement.  What a server holds is the number of an execution that  *)
(* has begun, so whichever owner completes a claim decides for one of them. *)

\* Servers hold executions that were begun, and a stored response is one.
ExecutionsAreBegun ==
    /\ \A s \in Servers : pc[s] # "idle" => req[s].run \in 1..runs[req[s].key]
    /\ \A k \in Keys : record[k] = "completed" => response[k] # 0

LEMMA StepBegun ==
    IdempotencyTypeOK /\ ExecutionsAreBegun /\ [Next]_vars => ExecutionsAreBegun'
<1> SUFFICES ASSUME IdempotencyTypeOK, ExecutionsAreBegun, [Next]_vars
             PROVE  ExecutionsAreBegun'
  OBVIOUS
<1> USE DEF ExecutionsAreBegun
<1>1. ASSUME NEW s \in Servers, NEW k \in Keys, NEW b \in Bodies,
             ClaimIdempotency(s, k, b)
      PROVE  ExecutionsAreBegun'
  <2>1. /\ record'[k] = "processing" /\ runs'[k] = runs[k] + 1 /\ runs[k] \in Nat
        /\ \A j \in Keys \ {k} : record'[j] = record[j] /\ runs'[j] = runs[j]
        /\ response' = response
    BY <1>1 DEF ClaimIdempotency, IdempotencyTypeOK
  <2>2. /\ req'[s].key = k /\ req'[s].run = runs'[k]
        /\ \A t \in Servers \ {s} : pc'[t] = pc[t] /\ req'[t] = req[t]
    BY <1>1, <2>1 DEF ClaimIdempotency, IdempotencyTypeOK
  <2>3. \A t \in Servers : pc[t] # "idle" => req[t].key \in Keys /\ req[t].run \in Nat
    BY DEF IdempotencyTypeOK
  <2>4. ASSUME NEW t \in Servers, pc'[t] # "idle"
        PROVE  req'[t].run \in 1..runs'[req'[t].key]
    <3>1. CASE t = s
      BY <2>1, <2>2, <3>1
    <3>2. CASE t # s
      BY <2>1, <2>2, <2>3, <2>4, <3>2
    <3> QED
      BY <3>1, <3>2
  <2> QED
    BY <2>1, <2>4
<1>2. ASSUME NEW s \in Servers,
             \/ RunHandler(s) \/ CompleteIdempotency(s) \/ FailIdempotency(s)
             \/ Abandon(s)
      PROVE  ExecutionsAreBegun'
  <2>1. /\ pc[s] # "idle" /\ req[s].key \in Keys /\ req[s].run # 0
    BY <1>2 DEF RunHandler, CompleteIdempotency, FailIdempotency, Abandon,
                IdempotencyTypeOK
  <2>2. \A t \in Servers : pc'[t] # "idle" => pc[t] # "idle" /\ req'[t] = req[t]
    BY <1>2, <2>1 DEF RunHandler, CompleteIdempotency, FailIdempotency, Abandon, Leave,
                      IdempotencyTypeOK
  <2>3. UNCHANGED runs
    BY <1>2 DEF RunHandler, CompleteIdempotency, FailIdempotency, Abandon, historyVars
  <2>4. \A k \in Keys : record'[k] = "completed" => response'[k] # 0
    BY <1>2, <2>1 DEF RunHandler, CompleteIdempotency, FailIdempotency, Abandon, rowVars,
                      IdempotencyTypeOK
  <2> QED
    BY <2>2, <2>3, <2>4
<1>3. ASSUME NEW k \in Keys,
             LeaseLapses(k) \/ \E b \in Bodies : ReplayResponse(k, b)
      PROVE  ExecutionsAreBegun'
  BY <1>3 DEF LeaseLapses, ReplayResponse, rowVars, historyVars
<1>4. CASE UNCHANGED vars
  BY <1>4 DEF vars, rowVars, historyVars
<1> QED
  BY <1>1, <1>2, <1>3, <1>4 DEF Next, ServerNext, KeyNext

\* A step that changes one row changes the answer of its key alone.
LEMMA AnswerMapStep ==
    ASSUME NEW k \in Keys, NEW r,
           r = IF record'[k] = "completed" THEN response'[k] ELSE 0,
           \A j \in Keys \ {k} : record'[j] = record[j] /\ response'[j] = response[j]
    PROVE  AnswerMap' = [AnswerMap EXCEPT ![k] = r]
  BY DEF AnswerMap

\* Every step of the middleware is a step of SingleAnswer or invisible to it.
LEMMA StepAnswers ==
    IInv /\ ExecutionsAreBegun /\ [Next]_vars
        => [Promise!AnswerNext]_(Promise!answerVars)
<1> SUFFICES ASSUME IInv, ExecutionsAreBegun, [Next]_vars
             PROVE  [Promise!AnswerNext]_(Promise!answerVars)
  OBVIOUS
<1> USE DEF IInv
<1> DEFINE Goal == [Promise!AnswerNext]_(Promise!answerVars)
<1>0. UNCHANGED <<bodies, runs, AnswerMap, answered>> => Goal
  BY DEF Promise!answerVars
<1>1. ASSUME NEW s \in Servers, NEW k \in Keys, NEW b \in Bodies,
             ClaimIdempotency(s, k, b)
      PROVE  Goal
  <2>1. record[k] # "completed" /\ bodies[k] \subseteq {b}
    BY <1>1 DEF ClaimIdempotency, MayOwn, Reclaimable, UnclaimedIsUnused, KeyIsBoundToBody
  <2>2. AnswerMap[k] = 0
    BY <2>1 DEF AnswerMap
  <2>3. AnswerMap' = AnswerMap
    BY <1>1, <2>1 DEF AnswerMap, ClaimIdempotency, IdempotencyTypeOK
  <2>4. bodies' = [bodies EXCEPT ![k] = {b}]
    BY <1>1, <2>1 DEF ClaimIdempotency
  <2>5. Promise!Execute(k, b)
    BY <1>1, <2>1, <2>2, <2>3, <2>4 DEF Promise!Execute, ClaimIdempotency
  <2> QED
    BY <2>5 DEF Promise!AnswerNext
<1>2. ASSUME NEW s \in Servers, RunHandler(s) \/ Abandon(s) PROVE Goal
  BY <1>0, <1>2 DEF RunHandler, Abandon, AnswerMap, rowVars, historyVars
<1>3. ASSUME NEW s \in Servers, CompleteIdempotency(s) PROVE Goal
  <2> DEFINE k == req[s].key
  <2>1. k \in Keys /\ req[s].run \in 1..runs[k] /\ UNCHANGED <<bodies, runs>>
    BY <1>3 DEF CompleteIdempotency, IdempotencyTypeOK, ExecutionsAreBegun
  <2>2. CASE StillProcessing(k)
    <3>1. /\ record' = [record EXCEPT ![k] = "completed"]
          /\ response' = [response EXCEPT ![k] = req[s].run]
          /\ answered' = [answered EXCEPT ![k] = @ \cup {req[s].run}]
      BY <1>3, <2>2 DEF CompleteIdempotency
    <3>2. AnswerMap[k] = 0
      BY <2>1, <2>2 DEF AnswerMap, StillProcessing
    <3>3. AnswerMap' = [AnswerMap EXCEPT ![k] = req[s].run]
      <4>1. /\ record'[k] = "completed" /\ response'[k] = req[s].run
            /\ \A j \in Keys \ {k} : record'[j] = record[j] /\ response'[j] = response[j]
        BY <2>1, <3>1 DEF IdempotencyTypeOK
      <4> HIDE DEF k
      <4> QED
        BY <2>1, <4>1, AnswerMapStep
    <3> HIDE DEF k
    <3>4. Promise!Decide(k, req[s].run)
      BY <2>1, <3>1, <3>2, <3>3 DEF Promise!Decide
    <3> QED
      BY <2>1, <3>4 DEF Promise!AnswerNext
  <2>3. CASE ~StillProcessing(k)
    BY <1>0, <1>3, <2>1, <2>3 DEF CompleteIdempotency, AnswerMap
  <2> QED
    BY <2>2, <2>3
<1>4. ASSUME NEW s \in Servers, FailIdempotency(s) PROVE Goal
  <2>1. UNCHANGED <<bodies, runs, response, answered>>
    BY <1>4 DEF FailIdempotency, historyVars
  <2>2. \A k \in Keys : record'[k] = "completed" <=> record[k] = "completed"
    BY <1>4 DEF FailIdempotency, StillProcessing, IdempotencyTypeOK
  <2>3. AnswerMap' = AnswerMap
    BY <2>1, <2>2 DEF AnswerMap
  <2> QED
    BY <1>0, <2>1, <2>3
<1>5. ASSUME NEW k \in Keys, NEW b \in Bodies, ReplayResponse(k, b) PROVE Goal
  <2>1. /\ answered' = [answered EXCEPT ![k] = @ \cup {response[k]}]
        /\ record[k] = "completed" /\ UNCHANGED <<bodies, runs, record, response>>
    BY <1>5 DEF ReplayResponse, MayReplay, rowVars
  <2>2. AnswerMap[k] = response[k] /\ AnswerMap' = AnswerMap /\ response[k] # 0
    BY <2>1 DEF AnswerMap, ExecutionsAreBegun
  <2>3. Promise!Repeat(k)
    BY <2>1, <2>2 DEF Promise!Repeat
  <2> QED
    BY <2>3 DEF Promise!AnswerNext
<1>6. ASSUME NEW k \in Keys, LeaseLapses(k) PROVE Goal
  BY <1>0, <1>6 DEF LeaseLapses, AnswerMap, historyVars
<1>7. CASE UNCHANGED vars
  BY <1>0, <1>7 DEF vars, AnswerMap, rowVars, historyVars
<1> QED
  BY <1>1, <1>2, <1>3, <1>4, <1>5, <1>6, <1>7 DEF Next, ServerNext, KeyNext

\* The middleware keeps what an Idempotency-Key promises: no execution after the
\* answer or under a second body, one answer, and that of an execution.
THEOREM MiddlewareAnswersOnce == Spec => ImplementsSingleAnswer
<1>1. Init => ExecutionsAreBegun
  BY DEF Init, ExecutionsAreBegun
<1>2. Init => Promise!AnswerInit
  BY DEF Init, Promise!AnswerInit, AnswerMap
<1>3. IInv /\ ExecutionsAreBegun /\ [Next]_vars => ExecutionsAreBegun'
  BY StepBegun DEF IInv
<1> QED
  BY <1>1, <1>2, <1>3, StepAnswers, IdempotencyInvariant, PTL
  DEF Spec, ImplementsSingleAnswer, Promise!AnswerSpec
==============================================================================
