----------------------------- MODULE Idempotency -----------------------------
(***************************************************************************)
(* Request idempotency: the middleware Server.idempotency                  *)
(* (internal/server/server.go) over table idempotency_records              *)
(* (internal/storepg/store.go).                                            *)
(*                                                                         *)
(* A request claims (account, operation, key) in one transaction, runs the *)
(* wrapped handler into a buffer, and finalises the claim in a second      *)
(* transaction before anything is written to the client.  The claim is a   *)
(* 30 second lease without an owner token: Complete and Fail look only at  *)
(* status = 'processing'.                                                  *)
(*                                                                         *)
(* A key stands for the triple, a body for the request hash.  Executions   *)
(* of the wrapped handler are numbered per key, and the number stands for  *)
(* the response: two executions may answer differently.  Requests refused  *)
(* with a 409 change nothing and are not steps.                            *)
(***************************************************************************)
EXTENDS Naturals

CONSTANTS Keys,        \* (account, operation, Idempotency-Key) triples
          Bodies,      \* request bodies, by hash
          Servers,     \* goroutines serving a request
          NoKey, NoBody,
          MaxFaults    \* bound: crashes, disconnects, 5xx answers, early lapses

ASSUME IdempotencyAssumption ==
    /\ NoKey \notin Keys
    /\ NoBody \notin Bodies
    /\ MaxFaults \in Nat

VARIABLES record,    \* column status, and "absent" when there is no row
          hash,      \* request_hash
          response,  \* response_body: the execution that produced it
          lapsed,    \* processing_expires_at < now()
          pc, req,   \* the servers
          runs,      \* executions of the wrapped handler begun per key
          answered,  \* history: responses below 500 that clients were given
          bodies,    \* history: bodies the wrapped handler was run with
          faults

rowVars == <<record, hash, response, lapsed>>
historyVars == <<runs, answered, bodies>>
vars == <<rowVars, pc, req, historyVars, faults>>

NoRequest == [key |-> NoKey, run |-> 0]

IdempotencyTypeOK ==
    /\ record \in [Keys -> {"absent", "processing", "completed", "failed"}]
    /\ hash \in [Keys -> Bodies \cup {NoBody}]
    /\ response \in [Keys -> Nat]
    /\ lapsed \in [Keys -> BOOLEAN]
    /\ pc \in [Servers -> {"idle", "owner", "succeeded", "erred"}]
    /\ req \in [Servers -> [key : Keys \cup {NoKey}, run : Nat]]
    /\ \A s \in Servers : pc[s] # "idle" => req[s].key \in Keys
    /\ runs \in [Keys -> Nat]
    /\ answered \in [Keys -> SUBSET Nat]
    /\ bodies \in [Keys -> SUBSET Bodies]
    /\ faults \in Nat

Init ==
    /\ record = [k \in Keys |-> "absent"]
    /\ hash = [k \in Keys |-> NoBody]
    /\ response = [k \in Keys |-> 0]
    /\ lapsed = [k \in Keys |-> FALSE]
    /\ pc = [s \in Servers |-> "idle"]
    /\ req = [s \in Servers |-> NoRequest]
    /\ runs = [k \in Keys |-> 0]
    /\ answered = [k \in Keys |-> {}]
    /\ bodies = [k \in Keys |-> {}]
    /\ faults = 0

-----------------------------------------------------------------------------
(* ClaimIdempotency: what the claiming transaction decides. *)

\* Mutant of Reclaimable: only a failed claim is ever taken over.
ReclaimableIfFailed(k) == record[k] = "failed"

\* Whether a claim that finds no stored answer may take the row over.
Reclaimable(k) ==
    \/ record[k] = "failed"
    \/ record[k] = "processing" /\ lapsed[k]

\* Mutant of MayOwn: the hash is compared only with a completed or running claim.
MayOwnAfterFailure(k, b) ==
    \/ record[k] \in {"absent", "failed"}
    \/ hash[k] = b /\ Reclaimable(k)

MayOwn(k, b) ==
    \/ record[k] = "absent"
    \/ hash[k] = b /\ Reclaimable(k)

MayReplay(k, b) == record[k] = "completed" /\ hash[k] = b

\* The claim is owned: the wrapped handler is about to run.
ClaimIdempotency(s, k, b) ==
    /\ pc[s] = "idle"
    /\ MayOwn(k, b)
    /\ record' = [record EXCEPT ![k] = "processing"]
    /\ hash' = [hash EXCEPT ![k] = IF record[k] = "absent" THEN b ELSE @]
    /\ lapsed' = [lapsed EXCEPT ![k] = FALSE]
    /\ runs' = [runs EXCEPT ![k] = @ + 1]
    /\ bodies' = [bodies EXCEPT ![k] = @ \cup {b}]
    /\ pc' = [pc EXCEPT ![s] = "owner"]
    /\ req' = [req EXCEPT ![s] = [key |-> k, run |-> runs[k] + 1]]
    /\ UNCHANGED <<response, answered, faults>>

\* The claim finds a stored response, which is written out verbatim.
ReplayResponse(k, b) ==
    /\ MayReplay(k, b)
    /\ answered' = [answered EXCEPT ![k] = @ \cup {response[k]}]
    /\ UNCHANGED <<rowVars, pc, req, runs, bodies, faults>>

-----------------------------------------------------------------------------
(* The owner: run the handler, finalise, answer. *)

\* The wrapped handler returns: any status, a 5xx counting as a fault.
RunHandler(s) ==
    /\ pc[s] = "owner"
    /\ \/ /\ pc' = [pc EXCEPT ![s] = "succeeded"]
          /\ faults' = faults
       \/ /\ faults < MaxFaults
          /\ pc' = [pc EXCEPT ![s] = "erred"]
          /\ faults' = faults + 1
    /\ UNCHANGED <<rowVars, req, historyVars>>

\* Mutant of Leave: the goroutine is done but keeps believing it owns a claim.
LeaveAsOwner(s) ==
    /\ pc' = [pc EXCEPT ![s] = "owner"]
    /\ req' = [req EXCEPT ![s] = NoRequest]

\* The goroutine is done with its request.
Leave(s) ==
    /\ pc' = [pc EXCEPT ![s] = "idle"]
    /\ req' = [req EXCEPT ![s] = NoRequest]

\* Mutant of StillProcessing: the row is selected by its key alone.
AnyRow(k) == record[k] # "absent"

\* The WHERE clause of CompleteIdempotency and FailIdempotency.
StillProcessing(k) == record[k] = "processing"

\* Below 500: store the response, then send it.  Zero rows updated is an error
\* ("idempotency claim is no longer owned"), which the client sees as a 500.
CompleteIdempotency(s) ==
    LET k == req[s].key
    IN /\ pc[s] = "succeeded"
       /\ IF StillProcessing(k)
          THEN /\ record' = [record EXCEPT ![k] = "completed"]
               /\ response' = [response EXCEPT ![k] = req[s].run]
               /\ lapsed' = [lapsed EXCEPT ![k] = FALSE]
               /\ answered' = [answered EXCEPT ![k] = @ \cup {req[s].run}]
          ELSE UNCHANGED <<record, response, lapsed, answered>>
       /\ Leave(s)
       /\ UNCHANGED <<hash, runs, bodies, faults>>

\* 500 or above: release the claim; zero rows updated is not an error here.
FailIdempotency(s) ==
    LET k == req[s].key
    IN /\ pc[s] = "erred"
       /\ IF StillProcessing(k)
          THEN /\ record' = [record EXCEPT ![k] = "failed"]
               /\ lapsed' = [lapsed EXCEPT ![k] = FALSE]
          ELSE UNCHANGED <<record, lapsed>>
       /\ Leave(s)
       /\ UNCHANGED <<hash, response, historyVars, faults>>

-----------------------------------------------------------------------------
(* The environment. *)

\* The process dies, or the client disconnects and r.Context() cancels the
\* finalising transaction: the row stays 'processing'.
Abandon(s) ==
    /\ pc[s] # "idle"
    /\ faults < MaxFaults
    /\ Leave(s)
    /\ faults' = faults + 1
    /\ UNCHANGED <<rowVars, historyVars>>

\* The server holds the claim that was granted last.
Owns(s, k) == pc[s] # "idle" /\ req[s].key = k /\ req[s].run = runs[k]

\* 30 seconds pass.  No adapter sets an HTTP timeout, so a provider call may
\* outlast the lease of its own request; that is counted as a fault.
LeaseLapses(k) ==
    /\ record[k] = "processing" /\ ~lapsed[k]
    /\ lapsed' = [lapsed EXCEPT ![k] = TRUE]
    /\ \/ /\ \A s \in Servers : ~Owns(s, k)
          /\ faults' = faults
       \/ /\ \E s \in Servers : Owns(s, k)
          /\ faults < MaxFaults
          /\ faults' = faults + 1
    /\ UNCHANGED <<record, hash, response, pc, req, historyVars>>

-----------------------------------------------------------------------------
ServerNext(s) ==
    \/ \E k \in Keys, b \in Bodies : ClaimIdempotency(s, k, b)
    \/ RunHandler(s) \/ CompleteIdempotency(s) \/ FailIdempotency(s) \/ Abandon(s)

KeyNext(k) == (\E b \in Bodies : ReplayResponse(k, b)) \/ LeaseLapses(k)

Next == (\E s \in Servers : ServerNext(s)) \/ (\E k \in Keys : KeyNext(k))

Spec == Init /\ [][Next]_vars

\* Handlers and statements return, leases run out, and a client that has had no
\* answer sends its request again.
Fairness ==
    /\ \A s \in Servers : /\ WF_vars(RunHandler(s))
                          /\ WF_vars(CompleteIdempotency(s))
                          /\ WF_vars(FailIdempotency(s))
    /\ \A k \in Keys :
         /\ WF_vars(LeaseLapses(k))
         /\ WF_vars(\E s \in Servers, b \in Bodies :
                        record[k] # "absent" /\ ClaimIdempotency(s, k, b))

FairSpec == Spec /\ Fairness

-----------------------------------------------------------------------------
(* Properties. *)

\* Whatever owners overlap, crash or outlive their lease, all clients that are
\* given a response below 500 under one key are given the same one.
ResponsesAgree == \A k \in Keys : \A r, q \in answered[k] : r = q

\* The stored response is the only one ever given out, and it never changes.
AnsweredIsStored ==
    \A k \in Keys : answered[k] # {} =>
        record[k] = "completed" /\ answered[k] = {response[k]}

AnswerMap == [k \in Keys |-> IF record[k] = "completed" THEN response[k] ELSE 0]

\* The middleware implements SingleAnswer, though its claims have no owner: no owner
\* that was overtaken, nor one that takes a claim over, executes the operation after
\* it was answered, under another body, or answers it a second time.
Promise == INSTANCE SingleAnswer WITH
    begun <- runs, answer <- AnswerMap, given <- answered

ImplementsSingleAnswer == Promise!AnswerSpec

\* A claim whose owner died does not wedge the key: a client that keeps retrying
\* is served once the faults are over.
ClaimIsResolved ==
    \A k \in Keys : record[k] = "processing" ~> record[k] = "completed"
==============================================================================
