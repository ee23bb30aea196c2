------------------------------- MODULE Outbox --------------------------------
(***************************************************************************)
(* The durable outbox: table outbound_events (internal/storepg/outbound.go)*)
(* drained by the deliverer loops of one or more server processes          *)
(* (internal/webhook/deliverer.go).                                        *)
(*                                                                         *)
(* A row is leased under a fresh claim token, POSTed to the merchant, and  *)
(* completed by two statements (SELECT .. FOR UPDATE, then UPDATE) that    *)
(* are not in one transaction: another worker may run between them.        *)
(*                                                                         *)
(* Clock values are abstracted to one bit per row, elapsed: the time the   *)
(* lease query compares with now() (next_attempt_at of a failed row,       *)
(* claimed_until of an in_flight one) has passed.  ORDER BY is abstracted  *)
(* to a free choice among the due rows.                                    *)
(***************************************************************************)
EXTENDS Naturals, FiniteSets

CONSTANTS Events,       \* ids of outbound events
          Workers,      \* deliverer loops
          NoEvent,      \* the event of an idle worker
          MaxAttempts,  \* max_attempts of every row (5 in EnqueueOutbound)
          MaxFaults,    \* bound: crashes, database errors, lost answers, early lapses
          MaxReplays    \* bound: operator replays

ASSUME OutboxAssumption ==
    /\ NoEvent \notin Events
    /\ IsFiniteSet(Workers)
    /\ MaxAttempts \in Nat \ {0}
    /\ MaxFaults \in Nat
    /\ MaxReplays \in Nat

VARIABLES status, attempts, token, elapsed,   \* columns of outbound_events
          issued,                             \* claim tokens generated per row
          pc, job,                            \* the deliverer loops
          accepted,                           \* history: POSTs the merchant has taken
          faults, replays                     \* what the environment has spent

rowVars == <<status, attempts, token, elapsed, issued>>
workerVars == <<pc, job>>
vars == <<rowVars, workerVars, accepted, faults, replays>>

NoToken == 0
NoJob == [ev |-> NoEvent, tok |-> NoToken, ok |-> FALSE, seen |-> 0]

RowStatus == {"absent", "pending", "in_flight", "failed", "delivered", "dead"}
WorkerStep == {"idle", "leased", "posted", "selected"}
Job == [ev : Events \cup {NoEvent}, tok : Nat, ok : BOOLEAN, seen : Nat]

OutboxTypeOK ==
    /\ status \in [Events -> RowStatus]
    /\ attempts \in [Events -> Nat]
    /\ token \in [Events -> Nat]
    /\ elapsed \in [Events -> BOOLEAN]
    /\ issued \in [Events -> Nat]
    /\ pc \in [Workers -> WorkerStep]
    /\ job \in [Workers -> Job]
    /\ \A w \in Workers : pc[w] # "idle" => job[w].ev \in Events
    /\ accepted \in [Events -> Nat]
    /\ faults \in Nat
    /\ replays \in Nat

Init ==
    /\ status = [e \in Events |-> "absent"]
    /\ attempts = [e \in Events |-> 0]
    /\ token = [e \in Events |-> NoToken]
    /\ elapsed = [e \in Events |-> FALSE]
    /\ issued = [e \in Events |-> 0]
    /\ pc = [w \in Workers |-> "idle"]
    /\ job = [w \in Workers |-> NoJob]
    /\ accepted = [e \in Events |-> 0]
    /\ faults = 0
    /\ replays = 0

-----------------------------------------------------------------------------
(* The store's operations on one row. *)

\* INSERT .. ON CONFLICT (id) DO NOTHING: a second enqueue of an id is a no-op.
EnqueueOutbound(e) ==
    /\ status[e] = "absent"
    /\ status' = [status EXCEPT ![e] = "pending"]
    /\ UNCHANGED <<attempts, token, elapsed, issued, workerVars, accepted,
                   faults, replays>>

\* Mutants of Due: a lease is stolen before it lapses; a lapsed one is forgotten.
DueBeforeLapse(e) ==
    \/ status[e] \in {"pending", "in_flight"}
    \/ status[e] = "failed" /\ elapsed[e]

DueUnlessInFlight(e) ==
    \/ status[e] = "pending"
    \/ status[e] = "failed" /\ elapsed[e]

\* The WHERE clause of the lease query.
Due(e) ==
    \/ status[e] = "pending"
    \/ status[e] \in {"failed", "in_flight"} /\ elapsed[e]

\* Mutant of newClaimToken: a re-leased row keeps the token of the lapsed lease.
ReusedClaimToken(e) == IF token[e] = NoToken THEN issued[e] + 1 ELSE token[e]

\* 16 random bytes: a value no earlier lease of the row was given.
newClaimToken(e) == issued[e] + 1

\* One worker leases one due row: a single UPDATE, atomic with its subselect.
LeaseDueOutbound(w, e) ==
    /\ pc[w] = "idle"
    /\ Due(e)
    /\ status' = [status EXCEPT ![e] = "in_flight"]
    /\ attempts' = [attempts EXCEPT ![e] = @ + 1]
    /\ issued' = [issued EXCEPT ![e] = @ + 1]
    /\ token' = [token EXCEPT ![e] = newClaimToken(e)]
    /\ elapsed' = [elapsed EXCEPT ![e] = FALSE]
    /\ pc' = [pc EXCEPT ![w] = "leased"]
    /\ job' = [job EXCEPT ![w] = [ev |-> e, tok |-> newClaimToken(e),
                                  ok |-> FALSE, seen |-> 0]]
    /\ UNCHANGED <<accepted, faults, replays>>

\* deliverPayload: only a 2xx counts.  A POST that fails or times out after the
\* merchant has taken the event is a fault, and reported like any other failure.
DeliverPayload(w) ==
    /\ pc[w] = "leased"
    /\ \E taken \in BOOLEAN, ok \in BOOLEAN :
         /\ ok => taken
         /\ taken /\ ~ok => faults < MaxFaults
         /\ job' = [job EXCEPT ![w].ok = ok]
         /\ accepted' = IF taken THEN [accepted EXCEPT ![job[w].ev] = @ + 1]
                                 ELSE accepted
         /\ faults' = IF taken /\ ~ok THEN faults + 1 ELSE faults
    /\ pc' = [pc EXCEPT ![w] = "posted"]
    /\ UNCHANGED <<rowVars, replays>>

\* The WHERE clause of CompleteOutbound's SELECT: the row is still this lease's.
HoldsClaim(w) ==
    /\ token[job[w].ev] = job[w].tok
    /\ status[job[w].ev] = "in_flight"

\* Mutant of EndJob: the worker forgets the job but not its place in the loop.
EndJobInPlace(w) == job' = [job EXCEPT ![w] = NoJob] /\ UNCHANGED pc

\* deliverOnceDurable turns to the next due row.
EndJob(w) == job' = [job EXCEPT ![w] = NoJob] /\ pc' = [pc EXCEPT ![w] = "idle"]

\* CompleteOutbound, first statement: read attempts, or give up the lost claim.
CompleteSelect(w) ==
    /\ pc[w] = "posted"
    /\ \/ /\ HoldsClaim(w)
          /\ pc' = [pc EXCEPT ![w] = "selected"]
          /\ job' = [job EXCEPT ![w].seen = attempts[job[w].ev]]
       \/ /\ ~HoldsClaim(w)
          /\ EndJob(w)
    /\ UNCHANGED <<rowVars, accepted, faults, replays>>

\* The status CompleteOutbound writes, from the answer and the attempts read.
Outcome(w) ==
    IF job[w].ok THEN "delivered"
    ELSE IF job[w].seen >= MaxAttempts THEN "dead" ELSE "failed"

\* Mutant of UpdateMatches: the UPDATE selects the row by id alone.
UpdateMatchesAnyToken(w) == job[w].ev \in Events

\* The WHERE clause of CompleteOutbound's UPDATE: the token alone.
UpdateMatches(w) == token[job[w].ev] = job[w].tok

\* CompleteOutbound, second statement.  Zero rows is ErrOutboundClaimLost,
\* which the deliverer ignores.
CompleteUpdate(w) ==
    LET e == job[w].ev
    IN /\ pc[w] = "selected"
       /\ IF UpdateMatches(w)
          THEN /\ status' = [status EXCEPT ![e] = Outcome(w)]
               /\ token' = [token EXCEPT ![e] = NoToken]
               /\ elapsed' = [elapsed EXCEPT ![e] = FALSE]
          ELSE UNCHANGED <<status, token, elapsed>>
       /\ EndJob(w)
       /\ UNCHANGED <<attempts, issued, accepted, faults, replays>>

\* Operator replay of a delivered or failed event; attempts are preserved.
ReplayOutbound(e) ==
    /\ status[e] \in {"delivered", "failed"}
    /\ replays < MaxReplays
    /\ status' = [status EXCEPT ![e] = "pending"]
    /\ token' = [token EXCEPT ![e] = NoToken]
    /\ elapsed' = [elapsed EXCEPT ![e] = FALSE]
    /\ replays' = replays + 1
    /\ UNCHANGED <<attempts, issued, workerVars, accepted, faults>>

-----------------------------------------------------------------------------
(* The environment. *)

\* The process dies, or the completing statement fails and is only logged: the
\* worker drops its job and, restarted or in its next cycle, leases again.
Abandon(w) ==
    /\ pc[w] # "idle"
    /\ faults < MaxFaults
    /\ EndJob(w)
    /\ faults' = faults + 1
    /\ UNCHANGED <<rowVars, accepted, replays>>

BackoffElapses(e) ==
    /\ status[e] = "failed" /\ ~elapsed[e]
    /\ elapsed' = [elapsed EXCEPT ![e] = TRUE]
    /\ UNCHANGED <<status, attempts, token, issued, workerVars, accepted,
                   faults, replays>>

Owner(w, e) == pc[w] # "idle" /\ job[w].ev = e /\ job[w].tok = token[e]

\* claimed_until passes.  A lease outlives its worker for free; one that lapses
\* under a slow worker is counted as a fault.
LeaseLapses(e) ==
    /\ status[e] = "in_flight" /\ ~elapsed[e]
    /\ elapsed' = [elapsed EXCEPT ![e] = TRUE]
    /\ \/ /\ \A w \in Workers : ~Owner(w, e)
          /\ faults' = faults
       \/ /\ \E w \in Workers : Owner(w, e)
          /\ faults < MaxFaults
          /\ faults' = faults + 1
    /\ UNCHANGED <<status, attempts, token, issued, workerVars, accepted,
                   replays>>

-----------------------------------------------------------------------------
WorkerNext(w) ==
    \/ \E e \in Events : LeaseDueOutbound(w, e)
    \/ DeliverPayload(w) \/ CompleteSelect(w) \/ CompleteUpdate(w)
    \/ Abandon(w)

RowNext(e) ==
    EnqueueOutbound(e) \/ ReplayOutbound(e) \/ BackoffElapses(e) \/ LeaseLapses(e)

Next == (\E w \in Workers : WorkerNext(w)) \/ (\E e \in Events : RowNext(e))

Spec == Init /\ [][Next]_vars

\* The deliverer's ticker leases again and again, a POST ends within the HTTP
\* client's 10s timeout, statements return, and time passes.  Nothing obliges a
\* caller to enqueue or replay, nor the environment to fail.
Fairness ==
    /\ \A e \in Events : /\ WF_vars(\E w \in Workers : LeaseDueOutbound(w, e))
                         /\ WF_vars(BackoffElapses(e))
                         /\ WF_vars(LeaseLapses(e))
    /\ \A w \in Workers : /\ WF_vars(DeliverPayload(w))
                          /\ WF_vars(CompleteSelect(w))
                          /\ WF_vars(CompleteUpdate(w))

FairSpec == Spec /\ Fairness

-----------------------------------------------------------------------------
(* Properties. *)

\* No two deliverer loops ever hold the current claim of one row, however their
\* leases lapse: a lease always installs a token no other worker has seen.
AtMostOneOwner ==
    \A e \in Events, v, w \in Workers : Owner(v, e) /\ Owner(w, e) => v = w

\* CompleteOutbound's UPDATE repeats neither the status test nor the read of
\* attempts.  Both are still good whenever its token test passes, although the
\* two statements are not in one transaction.
UpdateActsOnCurrentRow ==
    \A w \in Workers :
        pc[w] = "selected" /\ UpdateMatches(w)
            => HoldsClaim(w) /\ job[w].seen = attempts[job[w].ev]

\* Exactly the in_flight rows carry a token, one that was issued.
TokensLive ==
    \A e \in Events : /\ status[e] = "in_flight" <=> token[e] # NoToken
                      /\ token[e] <= issued[e]

\* What a worker knows of its row is so: its token was issued, a 2xx it reports
\* was given, and while it holds the claim the attempts it read are the row's.
JobIsCurrent(w) ==
    /\ job[w].tok \in 1..issued[job[w].ev]
    /\ attempts[job[w].ev] > 0
    /\ pc[w] \in {"posted", "selected"} /\ job[w].ok => accepted[job[w].ev] > 0
    /\ pc[w] = "selected" /\ UpdateMatches(w) => job[w].seen = attempts[job[w].ev]

JobsAreCurrent == \A w \in Workers : pc[w] # "idle" => JobIsCurrent(w)

\* A token is given to one worker only, even long after its lease lapsed.
TokensAreUnique ==
    \A v, w \in Workers :
        /\ pc[v] # "idle" /\ pc[w] # "idle"
        /\ job[v].ev = job[w].ev /\ job[v].tok = job[w].tok
        => v = w

\* The claim protocol of LeaseDueOutbound and CompleteOutbound in one invariant:
\* together with the types it is inductive, and the two properties above follow.
ClaimDiscipline == TokensLive /\ JobsAreCurrent /\ TokensAreUnique

\* A merchant takes an event again only after a crash, a database error, a lapsed
\* lease or an answer that was lost, or because an operator replayed it.
DuplicatesArePaidFor ==
    \A e \in Events : accepted[e] <= 1 + faults + replays

\* The outbox implements EventDelivery: no stale worker un-settles an event, an
\* event is marked delivered only if the merchant accepted it, and given up only
\* after MaxAttempts deliveries were begun.
PhaseOf(s) == IF s \in {"pending", "in_flight", "failed"} THEN "owed" ELSE s

Delivery == INSTANCE EventDelivery WITH
    phase     <- [e \in Events |-> PhaseOf(status[e])],
    tries     <- attempts,
    confirmed <- {e \in Events : accepted[e] > 0},
    reopened  <- replays

ImplementsDelivery == Delivery!DeliverySpec

\* Every enqueued event is eventually delivered or dead-lettered: no crash, lost
\* claim or lapsed lease leaves a row that nobody will lease again.
OwedIsSettled ==
    \A e \in Events : status[e] = "pending" ~> status[e] \in {"delivered", "dead"}
==============================================================================
