------------------------------- MODULE Refunds -------------------------------
(***************************************************************************)
(* Refunds of one payment: createRefund (internal/server/refund.go) over   *)
(* ReserveRefund and WriteRefund (internal/storepg/store.go), inside the   *)
(* idempotency middleware that module Idempotency details.                 *)
(*                                                                         *)
(* A request reserves its amount in one transaction that holds the intent's*)
(* row, calls the provider with no transaction open, and writes the outcome*)
(* in another.  A refund is the re_ id its request's key determines.  Its  *)
(* claim is here one bit, closed: an answer below 500 is stored, so no run *)
(* starts again.  Two runs of one refund overlap only after the first one's*)
(* claim lapsed, which counts as a fault.                                  *)
(*                                                                         *)
(* The provider moves money, or refuses; its answer may be an error, or be *)
(* lost, although the money moved.                                         *)
(***************************************************************************)
EXTENDS Naturals, FiniteSetsExt

CONSTANTS Paid,       \* amount_minor of the intent
          Ids,        \* refund ids
          Amount,     \* the amount each request asks for, 0 for all that is left
          Handlers, NoId,
          MaxFaults   \* bound: crashes, failed transactions, lapsed claims

ASSUME RefundAssumption ==
    /\ Paid \in Nat /\ MaxFaults \in Nat
    /\ Amount \in [Ids -> Nat]
    /\ NoId \notin Ids
    /\ IsFiniteSet(Handlers)

VARIABLES row,       \* refunds.status
          amount,    \* refunds.amount_minor
          closed,    \* the request's answer is stored
          pc, job,   \* the handlers
          moved,     \* how often the provider paid the refund out
          released,  \* history: refunds whose row was 'failed' or 'canceled' once
          faults

vars == <<row, amount, closed, pc, job, moved, released, faults>>

NoJob == [id |-> NoId, answer |-> "none"]

\* What RefundResult.Status may be; an error of the call is written as 'failed'.
Answers == {"succeeded", "failed", "canceled", "pending"}
\* Statuses that ReserveRefund's sum does not count.
Released == {"failed", "canceled"}

RefundTypeOK ==
    /\ row \in [Ids -> Answers \cup {"absent"}]
    /\ amount \in [Ids -> Nat]
    /\ closed \subseteq Ids
    /\ pc \in [Handlers -> {"idle", "reserving", "calling", "answered", "finalizing"}]
    /\ job \in [Handlers -> [id : Ids \cup {NoId}, answer : Answers \cup {"none"}]]
    /\ \A h \in Handlers : /\ pc[h] # "idle" => job[h].id \in Ids
                           /\ pc[h] = "answered" => job[h].answer \in Answers
    /\ moved \in [Ids -> Nat]
    /\ released \subseteq Ids
    /\ faults \in Nat

Init ==
    /\ row = [r \in Ids |-> "absent"]
    /\ amount = [r \in Ids |-> 0]
    /\ closed = {}
    /\ pc = [h \in Handlers |-> "idle"]
    /\ job = [h \in Handlers |-> NoJob]
    /\ moved = [r \in Ids |-> 0]
    /\ released = {}
    /\ faults = 0

-----------------------------------------------------------------------------
Goto(h, place) == pc' = [pc EXCEPT ![h] = place]

\* Mutant of Finish: the request is dropped, its goroutine is not.
FinishInPlace(h) == job' = [job EXCEPT ![h] = NoJob] /\ UNCHANGED pc

Finish(h) == pc' = [pc EXCEPT ![h] = "idle"] /\ job' = [job EXCEPT ![h] = NoJob]

Running(r) == \E h \in Handlers : pc[h] # "idle" /\ job[h].id = r

\* A request, its retry, or a recovery of its lapsed claim reaches the handler.
Begin(h, r) ==
    /\ pc[h] = "idle"
    /\ r \notin closed
    /\ IF Running(r) THEN faults < MaxFaults /\ faults' = faults + 1
                     ELSE faults' = faults
    /\ Goto(h, "reserving")
    /\ job' = [job EXCEPT ![h] = [NoJob EXCEPT !.id = r]]
    /\ UNCHANGED <<row, amount, closed, moved, released>>

TotalOf(S) == MapThenSumSet(LAMBDA r : amount[r], S)

\* Mutant of Reserved: only refunds that went through are counted.
ReservedSucceeded == TotalOf({r \in Ids : row[r] = "succeeded"})

Reserved == TotalOf({r \in Ids : row[r] \in {"pending", "succeeded"}})

\* The amount a new reservation takes: what was asked, or all that remains.
Wanted(r) == IF Amount[r] = 0 THEN Paid - Reserved ELSE Amount[r]
Fits(r) == Wanted(r) > 0 /\ Reserved + Wanted(r) <= Paid

\* ReserveRefund of a new refund, with the intent's row locked.
ReserveNew(h) ==
    LET r == job[h].id
    IN /\ pc[h] = "reserving" /\ row[r] = "absent"
       /\ IF Fits(r)
          THEN /\ row' = [row EXCEPT ![r] = "pending"]
               /\ amount' = [amount EXCEPT ![r] = Wanted(r)]
               /\ Goto(h, "calling")
          ELSE UNCHANGED <<row, amount>> /\ Goto(h, "finalizing")
       /\ UNCHANGED <<closed, job, moved, released, faults>>

\* Mutant of Resumable: a pending reservation waits for the run that made it.
ResumableIfReleased(r) == row[r] \in Released

\* A reservation that a recovered claim may take further.
Resumable(r) == row[r] \in Released \cup {"pending"}

\* ReserveRefund of a refund that has a row, left by an earlier run of the same
\* request: a 'failed' one is pending again, its amount not compared with what
\* is left by now; a succeeded one is answered as it is.
ReserveAgain(h) ==
    LET r == job[h].id
    IN /\ pc[h] = "reserving" /\ row[r] # "absent"
       /\ \/ /\ row[r] = "succeeded"
             /\ Goto(h, "finalizing")
             /\ UNCHANGED <<row, job>>
          \/ /\ Resumable(r)
             /\ row' = [row EXCEPT ![r] = IF @ = "failed" THEN "pending" ELSE @]
             /\ Goto(h, "calling")
             /\ UNCHANGED job
       /\ UNCHANGED <<amount, closed, moved, released, faults>>

\* gw.Refund: the money moves, unless the provider refuses.  Nothing tells it that
\* a call is a repeat: Midtrans' adapter sends no reference of the refund.  An
\* answer that says the money did not move can be wrong, one that says it moved cannot.
CallProvider(h) ==
    LET r == job[h].id
    IN /\ pc[h] = "calling"
       /\ \E pays \in BOOLEAN, answer \in Answers :
            /\ answer = "succeeded" => pays
            /\ job' = [job EXCEPT ![h].answer = answer]
            /\ moved' = [moved EXCEPT ![r] = IF pays THEN @ + 1 ELSE @]
       /\ Goto(h, "answered")
       /\ UNCHANGED <<row, amount, closed, released, faults>>

\* The status that goes into the row.
Outcome(h) == job[h].answer

\* WriteRefund: whatever the row says by now, it takes this run's outcome.
WriteRefund(h) ==
    LET r == job[h].id
    IN /\ pc[h] = "answered"
       /\ row' = [row EXCEPT ![r] = Outcome(h)]
       /\ released' = IF Outcome(h) \in Released THEN released \cup {r} ELSE released
       /\ Goto(h, "finalizing")
       /\ UNCHANGED <<amount, closed, job, moved, faults>>

\* Mutant of Close: only a refund that went through keeps its answer.
CloseSucceeded(h) ==
    closed' = IF row[job[h].id] = "succeeded" THEN closed \cup {job[h].id} ELSE closed

\* The middleware stores the answer: a refusal is a 400, and stored as well.
Close(h) == closed' = closed \cup {job[h].id}

Finalize(h) ==
    /\ pc[h] = "finalizing"
    /\ Close(h)
    /\ Finish(h)
    /\ UNCHANGED <<row, amount, moved, released, faults>>

\* The process dies, the client disconnects, or a transaction fails and the
\* answer is a 500: the run ends and its request may be sent again.
Abandon(h) ==
    /\ pc[h] # "idle"
    /\ faults < MaxFaults
    /\ faults' = faults + 1
    /\ Finish(h)
    /\ UNCHANGED <<row, amount, closed, moved, released>>

-----------------------------------------------------------------------------
HandlerStep(h) ==
    \/ ReserveNew(h) \/ ReserveAgain(h) \/ CallProvider(h) \/ WriteRefund(h)
    \/ Finalize(h)

Next ==
    \E h \in Handlers :
        HandlerStep(h) \/ Abandon(h) \/ (\E r \in Ids : Begin(h, r))

Spec == Init /\ [][Next]_vars

\* Handlers go on, and a client that has a reservation but no answer retries.
Fairness ==
    /\ \A h \in Handlers : WF_vars(HandlerStep(h))
    /\ \A r \in Ids :
         WF_vars(row[r] # "absent" /\ ~Running(r) /\ \E h \in Handlers : Begin(h, r))

FairSpec == Spec /\ Fairness

-----------------------------------------------------------------------------
(* Properties. *)

\* Concurrent requests never reserve more than was paid: only a refund whose
\* reservation was once released can push the total above it.
NewWithinPaid ==
    TotalOf({r \in Ids \ released : row[r] # "absent"}) <= Paid

\* A refund whose provider does not recognise repeats is paid out again only
\* after a crash, a failed transaction or a lapsed claim; never by a retry alone.
RepeatsArePaidFor == \A r \in Ids : moved[r] <= 1 + faults

\* A reservation does not stay open because its run died: the retried request
\* resumes it and is answered.
ReservationIsAnswered == \A r \in Ids : row[r] = "pending" ~> r \in closed

\* As ReserveRefund's contract and its test have it, the refunds pending and
\* succeeded never exceed the payment.
ReservedWithinPaid == Reserved <= Paid
==============================================================================
