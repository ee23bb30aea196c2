----------------------------- MODULE MemoryProofs -----------------------------
(***************************************************************************)
(* Proofs about MemoryMode, for any number of payments, notifications,     *)
(* confirms and attempts.  MemoryInv adds to the types what the copies, the*)
(* queue and the deliverer are good for; each further invariant is proved  *)
(* on top of it, and the safety properties and the refinement follow.      *)
(***************************************************************************)
EXTENDS MemoryMode, TLAPS

Active == {"read", "put", "told", "completed"}
Places == Active \cup {"waiting", "done"}
Jobs == [of : Payments \cup {NoPayment}, status : Statuses]

(* The conjuncts of MemoryTypeOK, by the part of the state they are about. *)
StoreOK ==
    /\ intent \in [Payments -> Statuses \cup {"absent"}]
    /\ session \in [Payments -> {"none", "open", "complete"}]
    /\ made \in [Payments -> {"new", "called", "stored", "done"}]
    /\ \A p \in Payments : intent[p] = "absent" <=> made[p] \in {"new", "called"}
    /\ \A p \in Payments : session[p] # "none" => p \in Checkout /\ made[p] = "done"

NoticesOK ==
    /\ pc \in [Notices -> Places] /\ job \in [Notices -> Jobs]
    /\ \A n \in Notices : pc[n] \in Active => job[n].of \in Payments

ConfirmsOK ==
    /\ cpc \in [Confirms -> {"waiting", "read", "done"}] /\ copy \in [Confirms -> Jobs]
    /\ \A c \in Confirms : cpc[c] = "read" => copy[c].of \in Payments

QueueOK ==
    /\ queue \in [Events -> QueueStatuses] /\ attempts \in [Events -> Nat]
    /\ working \in Events \cup {NoEvent}
    /\ \A e \in Events : queue[e] = "in_flight" <=> working = e

TakenOK == took \in {"none", "yes", "no"} /\ confirmed \subseteq Events

HistoryOK ==
    /\ feed \in [Payments -> Seq(Statuses)]
    /\ raced \subseteq Payments /\ early \subseteq Payments

LEMMA TypeParts ==
    MemoryTypeOK <=> StoreOK /\ NoticesOK /\ ConfirmsOK /\ QueueOK /\ TakenOK /\ HistoryOK
<1>1. /\ Places = {"waiting", "read", "put", "told", "completed", "done"}
      /\ Jobs = [of : Payments \cup {NoPayment}, status : Statuses]
  BY DEF Places, Active, Jobs
<1>2. \A x : x \in Active <=> x \in {"read", "put", "told", "completed"}
  BY DEF Active
<1> QED
  BY <1>1, <1>2 DEF MemoryTypeOK, StoreOK, NoticesOK, ConfirmsOK, QueueOK, TakenOK, HistoryOK

\* A copy is of an intent that is stored, and only what is stored has a feed.
CopiesAreOfStored ==
    /\ \A n \in Notices : pc[n] \in Active => intent[job[n].of] # "absent"
    /\ \A c \in Confirms : cpc[c] = "read" => intent[copy[c].of] # "absent"
    /\ \A p \in Payments : /\ made[p] = "stored" => p \in Checkout
                           /\ intent[p] = "absent" => feed[p] = <<>>

\* An event that is yet to be told is not in the queue.
EventsAreFresh ==
    \A n \in Notices :
        /\ pc[n] \in {"waiting", "read", "put"} => queue[<<"intent", n>>] = "absent"
        /\ pc[n] # "done" => queue[<<"session", n>>] = "absent"

\* What the deliverer knows of the event it has leased.
LeaseIsGood ==
    /\ took # "none" => working # NoEvent
    /\ took = "yes" => working \in confirmed
    /\ \A e \in Events : queue[e] = "in_flight" => attempts[e] > 0

MemoryInv ==
    /\ StoreOK /\ NoticesOK /\ ConfirmsOK /\ QueueOK /\ TakenOK /\ HistoryOK
    /\ CopiesAreOfStored /\ EventsAreFresh /\ LeaseIsGood

\* The markers are what they are not.
LEMMA Markers ==
    /\ Created # "absent" /\ NoEvent \notin Events /\ NoPayment \notin Payments
    /\ Created \in Statuses /\ Said \subseteq Statuses /\ "absent" \notin Statuses
    /\ NoJob \in Jobs
BY MemoryAssumption DEF Statuses, Created, NoJob, Jobs

LEMMA EventsOf ==
    ASSUME NEW n \in Notices
    PROVE  <<"intent", n>> \in Events /\ <<"session", n>> \in Events
BY DEF Events

LEMMA InitInv == Init => MemoryInv
<1> SUFFICES ASSUME Init PROVE MemoryInv
  OBVIOUS
<1> USE Markers
<1>1. StoreOK
  BY DEF Init, StoreOK
<1>2. NoticesOK /\ ConfirmsOK
  BY DEF Init, NoticesOK, ConfirmsOK, Places, Active
<1>3. QueueOK /\ TakenOK
  BY DEF Init, QueueOK, TakenOK, QueueStatuses
<1>4. HistoryOK
  <2>1. <<>> \in Seq(Statuses)
    OBVIOUS
  <2> QED
    BY <2>1 DEF Init, HistoryOK
<1>5. CopiesAreOfStored
  BY DEF Init, CopiesAreOfStored, Active
<1>6. EventsAreFresh
  BY EventsOf DEF Init, EventsAreFresh
<1>7. LeaseIsGood
  BY DEF Init, LeaseIsGood
<1> QED
  BY <1>1, <1>2, <1>3, <1>4, <1>5, <1>6, <1>7 DEF MemoryInv

-----------------------------------------------------------------------------
(* What the steps leave alone keeps its part of the invariant. *)

LEMMA Kept ==
    /\ ConfirmsOK /\ UNCHANGED <<cpc, copy>> => ConfirmsOK'
    /\ NoticesOK /\ UNCHANGED <<pc, job>> => NoticesOK'
    /\ StoreOK /\ UNCHANGED <<intent, session, made>> => StoreOK'
    /\ QueueOK /\ UNCHANGED <<queue, attempts, working>> => QueueOK'
    /\ TakenOK /\ UNCHANGED <<took, confirmed>> => TakenOK'
    /\ HistoryOK /\ UNCHANGED historyVars => HistoryOK'
    /\ EventsAreFresh /\ UNCHANGED <<pc, queue>> => EventsAreFresh'
    /\ LeaseIsGood /\ UNCHANGED deliveryVars => LeaseIsGood'
    /\ CopiesAreOfStored /\ UNCHANGED <<intent, made, pc, job, cpc, copy, feed>>
         => CopiesAreOfStored'
BY DEF StoreOK, NoticesOK, ConfirmsOK, QueueOK, TakenOK, HistoryOK, EventsAreFresh, LeaseIsGood,
   CopiesAreOfStored, historyVars, deliveryVars

\* A handler that moves on, with the job it goes on with.
LEMMA Moved ==
    ASSUME NoticesOK, NEW n \in Notices, NEW place \in Places, NEW j \in Jobs,
           place \in Active => j.of \in Payments,
           pc' = [pc EXCEPT ![n] = place], job' = [job EXCEPT ![n] = j]
    PROVE  NoticesOK' /\ pc'[n] = place /\ job'[n] = j
           /\ \A m \in Notices : m # n => pc'[m] = pc[m] /\ job'[m] = job[m]
BY DEF NoticesOK

LEMMA MovedTo ==
    ASSUME NoticesOK, NEW n \in Notices, NEW place, Goto(n, place) \/ (place = "done" /\ Finish(n)),
           place \in Active => job[n].of \in Payments, place \in Places
    PROVE  /\ NoticesOK' /\ pc'[n] = place
           /\ job'[n] = IF place = "done" /\ Finish(n) THEN NoJob ELSE job[n]
           /\ \A m \in Notices : m # n => pc'[m] = pc[m] /\ job'[m] = job[m]
<1>1. CASE Goto(n, place) /\ ~(place = "done" /\ Finish(n))
  BY <1>1 DEF Goto, NoticesOK
<1>2. CASE place = "done" /\ Finish(n)
  <2>1. pc' = [pc EXCEPT ![n] = "done"] /\ job' = [job EXCEPT ![n] = NoJob]
    BY <1>2 DEF Finish
  <2>2. "done" \notin Active /\ "done" \in Places /\ NoJob \in Jobs
    BY Markers DEF Active, Places
  <2>3. NoticesOK' /\ pc'[n] = "done" /\ job'[n] = NoJob
        /\ \A m \in Notices : m # n => pc'[m] = pc[m] /\ job'[m] = job[m]
    BY <2>1, <2>2, Moved
  <2> QED
    BY <1>2, <2>3
<1> QED
  BY <1>1, <1>2

-----------------------------------------------------------------------------
(* One lemma for each group of actions. *)

LEMMA CreateInv ==
    ASSUME MemoryInv, NEW p \in Payments, CreateStep(p)
    PROVE  MemoryInv'
<1> USE Markers, Kept DEF MemoryInv
<1>0. /\ UNCHANGED <<pc, job, cpc, copy, queue, attempts, working, took, confirmed>>
      /\ UNCHANGED deliveryVars /\ UNCHANGED historyVars /\ UNCHANGED feed
  BY DEF CreateStep, CallProvider, PutIntent, PutSession, handlerVars, deliveryVars, historyVars
<1>1. StoreOK'
  <2>1. CASE CallProvider(p)
    BY <2>1 DEF CallProvider, StoreOK
  <2>2. CASE PutIntent(p)
    BY <2>2 DEF PutIntent, Put, StoreOK
  <2>3. CASE PutSession(p)
    BY <2>3 DEF PutSession, StoreOK, CopiesAreOfStored
  <2> QED
    BY <2>1, <2>2, <2>3 DEF CreateStep
<1>2. CopiesAreOfStored'
  <2>1. \A q \in Payments : intent[q] # "absent" => intent'[q] # "absent"
    BY DEF CreateStep, CallProvider, PutIntent, PutSession, Put, StoreOK
  <2>2. \A q \in Payments : made'[q] = "stored" => q \in Checkout
    BY DEF CreateStep, CallProvider, PutIntent, PutSession, StoreOK, CopiesAreOfStored
  <2> QED
    BY <1>0, <2>1, <2>2 DEF CopiesAreOfStored, NoticesOK, ConfirmsOK
<1> QED
  BY <1>0, <1>1, <1>2

LEMMA ReadIntentInv ==
    ASSUME MemoryInv, NEW n \in Notices, ReadIntent(n)
    PROVE  MemoryInv'
<1> USE Markers, Kept DEF MemoryInv
<1>1. PICK p \in Payments, status \in Said :
        /\ early' = IF made[p] # "done" THEN early \cup {p} ELSE early
        /\ IF ~Known(p) \/ Unchanged(p, status)
           THEN Finish(n) /\ UNCHANGED raced
           ELSE /\ pc' = [pc EXCEPT ![n] = "read"]
                /\ job' = [job EXCEPT ![n] = [of |-> p, status |-> status]]
                /\ NoteRace(p)
  BY DEF ReadIntent
<1>2. /\ pc[n] = "waiting"
      /\ UNCHANGED <<intent, session, made, cpc, copy, queue, attempts, working, took,
                     confirmed, feed>>
      /\ UNCHANGED deliveryVars
  BY DEF ReadIntent, deliveryVars
<1>3. /\ NoticesOK' /\ pc'[n] \in {"read", "done"}
      /\ pc'[n] = "read" => job'[n].of = p /\ intent[p] # "absent"
      /\ \A m \in Notices : m # n => pc'[m] = pc[m] /\ job'[m] = job[m]
  <2>1. CASE Finish(n)
    BY <2>1, MovedTo DEF Places, Active
  <2>2. CASE ~Finish(n)
    <3>1. [of |-> p, status |-> status] \in Jobs
      BY DEF Jobs
    <3>2. "read" \in Places
      BY DEF Places, Active
    <3> QED
      BY <1>1, <2>2, <3>1, <3>2, Moved DEF Known
  <2> QED
    BY <2>1, <2>2
<1>4. HistoryOK'
  BY <1>1, <1>2 DEF HistoryOK, NoteRace
<1>5. CopiesAreOfStored'
  BY <1>2, <1>3 DEF CopiesAreOfStored, Active
<1>6. EventsAreFresh'
  BY <1>2, <1>3 DEF EventsAreFresh
<1> QED
  BY <1>2, <1>3, <1>4, <1>5, <1>6

LEMMA PutStatusInv ==
    ASSUME MemoryInv, NEW n \in Notices, PutStatus(n)
    PROVE  MemoryInv'
<1> USE Markers, Kept DEF MemoryInv
<1>1. /\ job[n].of \in Payments /\ job[n].status \in Statuses /\ intent[job[n].of] # "absent"
      /\ made[job[n].of] \notin {"new", "called"} /\ pc[n] = "read"
  BY DEF PutStatus, NoticesOK, CopiesAreOfStored, StoreOK, Active, Jobs
<1>2. /\ intent' = [intent EXCEPT ![job[n].of] = job[n].status] /\ Goto(n, "put")
      /\ UNCHANGED <<session, made, cpc, copy, queue, attempts, working, took, confirmed, feed>>
      /\ UNCHANGED deliveryVars /\ UNCHANGED historyVars
  BY DEF PutStatus, Put, deliveryVars, historyVars
<1>3. StoreOK' /\ \A q \in Payments : intent'[q] = "absent" <=> intent[q] = "absent"
  BY <1>1, <1>2 DEF StoreOK
<1>4. /\ NoticesOK' /\ pc'[n] = "put" /\ job' = job
      /\ \A m \in Notices : m # n => pc'[m] = pc[m]
  <2>1. "put" \in Places
    BY DEF Places, Active
  <2> QED
    BY <1>1, <1>2, <2>1, MovedTo DEF Goto
<1>5. CopiesAreOfStored'
  BY <1>1, <1>2, <1>3, <1>4 DEF CopiesAreOfStored, Active, NoticesOK, ConfirmsOK
<1>6. EventsAreFresh'
  BY <1>1, <1>2, <1>4 DEF EventsAreFresh
<1> QED
  BY <1>2, <1>3, <1>4, <1>5, <1>6

\* Queueing an event that was not in the queue.
LEMMA EnqueueKeeps ==
    ASSUME MemoryInv, NEW e \in Events, queue[e] = "absent",
           queue' = [queue EXCEPT ![e] = "pending"], UNCHANGED <<attempts, working, took, confirmed>>
    PROVE  QueueOK' /\ TakenOK' /\ LeaseIsGood'
<1> USE Markers DEF MemoryInv
<1>1. QueueOK'
  BY DEF QueueOK, QueueStatuses
<1>2. TakenOK' /\ LeaseIsGood'
  BY DEF TakenOK, LeaseIsGood, QueueOK
<1> QED
  BY <1>1, <1>2

LEMMA TellInv ==
    ASSUME MemoryInv, NEW n \in Notices, Tell(n)
    PROVE  MemoryInv'
<1> USE Markers, Kept, EventsOf DEF MemoryInv
<1> DEFINE e == <<"intent", n>>
<1>1. /\ job[n].of \in Payments /\ job[n].status \in Statuses /\ intent[job[n].of] # "absent"
      /\ pc[n] = "put" /\ e \in Events /\ queue[e] = "absent"
      /\ queue[<<"session", n>>] = "absent"
  BY DEF Tell, NoticesOK, CopiesAreOfStored, EventsAreFresh, Active, Jobs
<1>2. /\ queue' = [queue EXCEPT ![e] = "pending"]
      /\ feed' = [feed EXCEPT ![job[n].of] = Append(@, job[n].status)]
      /\ Goto(n, "told") \/ Finish(n)
      /\ UNCHANGED <<intent, session, made, cpc, copy, attempts, working, took, confirmed, raced,
                     early>>
  BY DEF Tell, Enqueue
<1>3. /\ NoticesOK' /\ pc'[n] \in {"told", "done"} /\ (pc'[n] = "told" => job'[n] = job[n])
      /\ \A m \in Notices : m # n => pc'[m] = pc[m] /\ job'[m] = job[m]
  <2>1. "told" \in Places /\ "done" \in Places /\ "done" \notin Active
    BY DEF Places, Active
  <2>2. CASE Goto(n, "told")
    BY <1>1, <2>1, <2>2, MovedTo
  <2>3. CASE Finish(n)
    BY <1>1, <2>1, <2>3, MovedTo
  <2> QED
    BY <1>2, <2>2, <2>3
<1>4. HistoryOK'
  BY <1>1, <1>2 DEF HistoryOK
<1>5. QueueOK' /\ TakenOK' /\ LeaseIsGood'
  BY <1>1, <1>2, EnqueueKeeps
<1>6. CopiesAreOfStored'
  <2>1. \A p \in Payments : p # job[n].of => feed'[p] = feed[p]
    BY <1>1, <1>2 DEF HistoryOK
  <2> QED
    BY <1>1, <1>2, <1>3, <2>1 DEF CopiesAreOfStored, Active
<1>7. EventsAreFresh'
  <2>1. \A f \in Events : f # e => queue'[f] = queue[f]
    BY <1>1, <1>2 DEF QueueOK
  <2>2. \A m \in Notices : <<"session", m>> # e /\ (m # n => <<"intent", m>> # e)
    OBVIOUS
  <2>3. \A m \in Notices : pc'[m] # "done" => queue'[<<"session", m>>] = "absent"
    <3> TAKE m \in Notices
    <3> HAVE pc'[m] # "done"
    <3>1. queue[<<"session", m>>] = "absent"
      BY <1>1, <1>3 DEF EventsAreFresh
    <3>2. <<"session", m>> \in Events /\ <<"session", m>> # e
      BY <2>2
    <3> QED
      BY <2>1, <3>1, <3>2
  <2>4. \A m \in Notices : pc'[m] \in {"waiting", "read", "put"}
                             => m # n /\ queue'[<<"intent", m>>] = "absent"
    <3> TAKE m \in Notices
    <3> HAVE pc'[m] \in {"waiting", "read", "put"}
    <3>1. m # n /\ pc'[m] = pc[m]
      BY <1>3
    <3>2. queue[<<"intent", m>>] = "absent"
      BY <3>1 DEF EventsAreFresh
    <3>3. <<"intent", m>> \in Events /\ <<"intent", m>> # e
      BY <2>2, <3>1
    <3> QED
      BY <2>1, <3>1, <3>2, <3>3
  <2> QED
    BY <2>3, <2>4 DEF EventsAreFresh
<1> QED
  BY <1>2, <1>3, <1>4, <1>5, <1>6, <1>7

LEMMA CompleteSessionInv ==
    ASSUME MemoryInv, NEW n \in Notices, CompleteSession(n)
    PROVE  MemoryInv'
<1> USE Markers, Kept DEF MemoryInv
<1>1. job[n].of \in Payments /\ pc[n] = "told"
  BY DEF CompleteSession, NoticesOK, Active
<1>2. /\ Goto(n, "completed") \/ Finish(n)
      /\ UNCHANGED <<intent, made, cpc, copy, queue, attempts, working, took, confirmed, feed>>
      /\ UNCHANGED deliveryVars /\ UNCHANGED historyVars
  BY DEF CompleteSession, deliveryVars, historyVars
<1>3. StoreOK'
  <2>1. CASE Paid(job[n].of)
    BY <1>1, <2>1 DEF CompleteSession, Paid, StoreOK
  <2>2. CASE ~Paid(job[n].of)
    BY <1>2, <2>2 DEF CompleteSession
  <2> QED
    BY <2>1, <2>2
<1>4. /\ NoticesOK' /\ pc'[n] \in {"completed", "done"}
      /\ (pc'[n] = "completed" => job'[n] = job[n])
      /\ \A m \in Notices : m # n => pc'[m] = pc[m] /\ job'[m] = job[m]
  <2>1. "completed" \in Places /\ "done" \in Places /\ "done" \notin Active
    BY DEF Places, Active
  <2>2. CASE Goto(n, "completed")
    BY <1>1, <2>1, <2>2, MovedTo
  <2>3. CASE Finish(n)
    BY <1>1, <2>1, <2>3, MovedTo
  <2> QED
    BY <1>2, <2>2, <2>3
<1>5. CopiesAreOfStored'
  BY <1>1, <1>2, <1>4 DEF CopiesAreOfStored, Active
<1>6. EventsAreFresh'
  BY <1>1, <1>2, <1>4 DEF EventsAreFresh
<1> QED
  BY <1>2, <1>3, <1>4, <1>5, <1>6

LEMMA TellSessionInv ==
    ASSUME MemoryInv, NEW n \in Notices, TellSession(n)
    PROVE  MemoryInv'
<1> USE Markers, Kept, EventsOf DEF MemoryInv
<1> DEFINE e == <<"session", n>>
<1>1. pc[n] = "completed" /\ e \in Events /\ queue[e] = "absent"
  BY DEF TellSession, EventsAreFresh
<1>2. /\ Finish(n) /\ queue' = [queue EXCEPT ![e] = "pending"]
      /\ UNCHANGED <<intent, session, made, cpc, copy, attempts, working, took, confirmed, feed>>
      /\ UNCHANGED historyVars
  BY DEF TellSession, Enqueue, historyVars
<1>3. /\ NoticesOK' /\ pc'[n] = "done"
      /\ \A m \in Notices : m # n => pc'[m] = pc[m] /\ job'[m] = job[m]
  <2>1. "done" \in Places /\ "done" \notin Active
    BY DEF Places, Active
  <2> QED
    BY <1>2, <2>1, MovedTo
<1>4. QueueOK' /\ TakenOK' /\ LeaseIsGood'
  BY <1>1, <1>2, EnqueueKeeps
<1>5. CopiesAreOfStored'
  BY <1>2, <1>3 DEF CopiesAreOfStored, Active
<1>6. EventsAreFresh'
  <2>1. \A f \in Events : f # e => queue'[f] = queue[f]
    BY <1>1, <1>2 DEF QueueOK
  <2>2. \A m \in Notices : <<"intent", m>> # e /\ (m # n => <<"session", m>> # e)
    OBVIOUS
  <2> QED
    BY <1>3, <2>1, <2>2 DEF EventsAreFresh
<1> QED
  BY <1>2, <1>3, <1>4, <1>5, <1>6

LEMMA ConfirmInv ==
    ASSUME MemoryInv, NEW c \in Confirms, ConfirmRead(c) \/ ConfirmWrite(c)
    PROVE  MemoryInv'
<1> USE Markers, Kept DEF MemoryInv
<1>0. /\ UNCHANGED <<session, made, pc, job, queue, attempts, working, took, confirmed, feed>>
      /\ UNCHANGED deliveryVars
  BY DEF ConfirmRead, ConfirmWrite, deliveryVars, historyVars
<1>1. CASE ConfirmRead(c)
  <2>1. PICK p \in Payments : /\ Known(p)
                              /\ copy' = [copy EXCEPT ![c] = [of |-> p, status |-> intent[p]]]
                              /\ NoteRace(p)
    BY <1>1 DEF ConfirmRead
  <2>2. cpc' = [cpc EXCEPT ![c] = "read"] /\ UNCHANGED <<intent, feed, early>>
    BY <1>1 DEF ConfirmRead
  <2>3. [of |-> p, status |-> intent[p]] \in Jobs /\ intent[p] # "absent"
    BY <2>1 DEF StoreOK, Known, Jobs
  <2>4. ConfirmsOK' /\ CopiesAreOfStored'
    BY <1>0, <2>1, <2>2, <2>3 DEF ConfirmsOK, CopiesAreOfStored
  <2>5. HistoryOK'
    BY <2>1, <2>2 DEF HistoryOK, NoteRace
  <2> QED
    BY <1>0, <2>2, <2>4, <2>5
<1>2. CASE ConfirmWrite(c)
  <2>1. /\ copy[c].of \in Payments /\ copy[c].status \in Statuses
        /\ intent[copy[c].of] # "absent" /\ made[copy[c].of] \notin {"new", "called"}
    BY <1>2 DEF ConfirmWrite, ConfirmsOK, CopiesAreOfStored, StoreOK, Jobs
  <2>2. /\ intent' = [intent EXCEPT ![copy[c].of] = copy[c].status]
        /\ cpc' = [cpc EXCEPT ![c] = "done"] /\ copy' = [copy EXCEPT ![c] = NoJob]
        /\ UNCHANGED historyVars
    BY <1>2 DEF ConfirmWrite, Put
  <2>3. StoreOK' /\ \A q \in Payments : intent'[q] = "absent" <=> intent[q] = "absent"
    BY <1>0, <2>1, <2>2 DEF StoreOK
  <2>4. ConfirmsOK' /\ \A d \in Confirms : cpc'[d] = "read" => cpc[d] = "read" /\ copy'[d] = copy[d]
    BY <2>2 DEF ConfirmsOK
  <2>5. CopiesAreOfStored'
    BY <1>0, <2>1, <2>3, <2>4 DEF CopiesAreOfStored, Active, NoticesOK, ConfirmsOK
  <2> QED
    BY <1>0, <2>2, <2>3, <2>4, <2>5
<1> QED
  BY <1>1, <1>2

LEMMA DelivererInv ==
    ASSUME MemoryInv, DelivererStep
    PROVE  MemoryInv'
<1> USE Markers, Kept DEF MemoryInv
<1>0. /\ UNCHANGED <<intent, session, made, pc, job, cpc, copy, feed>>
      /\ UNCHANGED historyVars
  BY DEF DelivererStep, LeaseDueWebhook, DeliverPayload, CompleteWebhook, handlerVars, historyVars
<1>1. StoreOK' /\ NoticesOK' /\ ConfirmsOK' /\ HistoryOK' /\ CopiesAreOfStored'
  BY <1>0
<1>2. ASSUME NEW e \in Events, LeaseDueWebhook(e) PROVE MemoryInv'
  <2>1. QueueOK'
    BY <1>2 DEF LeaseDueWebhook, Due, QueueOK, QueueStatuses
  <2>2. TakenOK' /\ LeaseIsGood'
    BY <1>2 DEF LeaseDueWebhook, Due, QueueOK, TakenOK, LeaseIsGood
  <2>3. EventsAreFresh'
    BY <1>0, <1>2, EventsOf DEF LeaseDueWebhook, Due, QueueOK, EventsAreFresh
  <2> QED
    BY <1>1, <2>1, <2>2, <2>3
<1>3. CASE DeliverPayload
  <2>1. /\ UNCHANGED <<queue, attempts, working>> /\ working \in Events
        /\ took' \in {"yes", "no"} /\ confirmed \subseteq confirmed'
        /\ confirmed' \subseteq confirmed \cup {working} /\ (took' = "yes" => working \in confirmed')
    BY <1>3 DEF DeliverPayload, QueueOK
  <2>2. TakenOK' /\ LeaseIsGood'
    BY <2>1 DEF TakenOK, LeaseIsGood
  <2> QED
    BY <1>0, <1>1, <2>1, <2>2
<1>4. CASE CompleteWebhook
  <2>1. working \in Events /\ queue[working] = "in_flight"
        /\ Resolved(working) \in {"delivered", "failed", "pending"}
    BY <1>4 DEF CompleteWebhook, LeaseIsGood, QueueOK, Resolved
  <2>2. /\ queue' = [queue EXCEPT ![working] = Resolved(working)]
        /\ working' = NoEvent /\ took' = "none" /\ UNCHANGED <<attempts, confirmed>>
    BY <1>4 DEF CompleteWebhook
  <2>3. QueueOK'
    BY <2>1, <2>2 DEF QueueOK, QueueStatuses
  <2>4. TakenOK' /\ LeaseIsGood'
    BY <2>1, <2>2 DEF TakenOK, LeaseIsGood, QueueOK
  <2>5. EventsAreFresh'
    BY <1>0, <2>1, <2>2, EventsOf DEF QueueOK, EventsAreFresh
  <2> QED
    BY <1>1, <2>3, <2>4, <2>5
<1> QED
  BY <1>2, <1>3, <1>4 DEF DelivererStep

LEMMA StepInv == MemoryInv /\ [Next]_vars => MemoryInv'
<1> SUFFICES ASSUME MemoryInv, [Next]_vars PROVE MemoryInv'
  OBVIOUS
<1>1. ASSUME NEW n \in Notices, NoticeStep(n) PROVE MemoryInv'
  BY <1>1, ReadIntentInv, PutStatusInv, TellInv, CompleteSessionInv, TellSessionInv
     DEF NoticeStep
<1>2. CASE UNCHANGED vars
  BY <1>2, Kept DEF vars, handlerVars, deliveryVars, historyVars, MemoryInv
<1> QED
  BY <1>1, <1>2, CreateInv, ConfirmInv, DelivererInv DEF Next

LEMMA MemoryInvariant == Spec => []MemoryInv
BY InitInv, StepInv, PTL DEF Spec

\* The store, the handlers and the deliverer keep their types: no handler writes an
\* intent or a session that was never stored, and one event at a time is in flight.
THEOREM MemoryTypeCorrect == Spec => []MemoryTypeOK
<1>1. MemoryInv => MemoryTypeOK
  BY TypeParts DEF MemoryInv
<1> QED
  BY <1>1, MemoryInvariant, PTL


-----------------------------------------------------------------------------
(* What the steps of the handlers do to what the merchant is told. *)

Others(n) == \A m \in Notices : m # n => pc'[m] = pc[m] /\ job'[m] = job[m]

LEMMA ReadDoes ==
    ASSUME MemoryInv, NEW n \in Notices, ReadIntent(n)
    PROVE  /\ Others(n) /\ pc[n] = "waiting" /\ pc'[n] \in {"read", "done"}
           /\ UNCHANGED <<intent, session, made, cpc, copy, feed>>
           /\ raced \subseteq raced' /\ early \subseteq early'
           /\ pc'[n] = "done" => job'[n] = NoJob
           /\ pc'[n] = "read" =>
                /\ job'[n].of \in Payments /\ job'[n].status # intent[job'[n].of]
                /\ job'[n].status \in Statuses
                /\ job'[n].of \notin early' => made[job'[n].of] = "done"
                /\ job'[n].of \notin raced' => ~Holding(job'[n].of)
<1>1. PICK p \in Payments, status \in Said :
        /\ early' = IF made[p] # "done" THEN early \cup {p} ELSE early
        /\ IF ~Known(p) \/ Unchanged(p, status)
           THEN Finish(n) /\ UNCHANGED raced
           ELSE /\ pc' = [pc EXCEPT ![n] = "read"]
                /\ job' = [job EXCEPT ![n] = [of |-> p, status |-> status]]
                /\ NoteRace(p)
  BY DEF ReadIntent
<1>2. pc[n] = "waiting" /\ UNCHANGED <<intent, session, made, cpc, copy, feed>>
  BY DEF ReadIntent
<1>3. CASE Finish(n) /\ UNCHANGED raced
  <2>1. /\ Others(n) /\ pc'[n] = "done" /\ job'[n] = NoJob
    BY <1>3 DEF Finish, Others, MemoryInv, NoticesOK
  <2> QED
    BY <1>1, <1>2, <1>3, <2>1
<1>4. CASE /\ pc' = [pc EXCEPT ![n] = "read"] /\ ~Unchanged(p, status)
           /\ job' = [job EXCEPT ![n] = [of |-> p, status |-> status]]
           /\ NoteRace(p)
  <2>1. /\ Others(n) /\ pc'[n] = "read" /\ job'[n] = [of |-> p, status |-> status]
    BY <1>4 DEF Others, MemoryInv, NoticesOK
  <2>2. raced \subseteq raced' /\ (p \notin raced' => ~Holding(p))
    BY <1>4 DEF NoteRace
  <2>3. status # intent[p] /\ status \in Statuses
    BY <1>4 DEF Unchanged, Statuses
  <2> QED
    BY <1>1, <1>2, <2>1, <2>2, <2>3
<1> QED
  BY <1>1, <1>3, <1>4

LEMMA PutDoes ==
    ASSUME MemoryInv, NEW n \in Notices, PutStatus(n)
    PROVE  /\ Others(n) /\ pc[n] = "read" /\ pc'[n] = "put" /\ job'[n] = job[n]
           /\ UNCHANGED <<session, made, cpc, copy, feed, raced, early>>
           /\ job[n].of \in Payments
           /\ intent' = [intent EXCEPT ![job[n].of] = job[n].status]
BY DEF PutStatus, Put, Goto, Others, MemoryInv, NoticesOK, historyVars, Active

LEMMA TellDoes ==
    ASSUME MemoryInv, NEW n \in Notices, Tell(n)
    PROVE  /\ Others(n) /\ pc[n] = "put"
           /\ UNCHANGED <<intent, session, made, cpc, copy, raced, early>>
           /\ job[n].of \in Payments /\ job[n].status \in Statuses
           /\ feed' = [feed EXCEPT ![job[n].of] = Append(@, job[n].status)]
           /\ IF job[n].status = "succeeded" THEN pc'[n] = "told" /\ job'[n] = job[n]
              ELSE pc'[n] = "done" /\ job'[n] = NoJob
<1>1. Others(n) /\ IF job[n].status = "succeeded" THEN pc'[n] = "told" /\ job'[n] = job[n]
                   ELSE pc'[n] = "done" /\ job'[n] = NoJob
  <2>1. CASE job[n].status = "succeeded"
    BY <2>1 DEF Tell, Goto, Others, MemoryInv, NoticesOK
  <2>2. CASE job[n].status # "succeeded"
    BY <2>2 DEF Tell, Finish, Others, MemoryInv, NoticesOK
  <2> QED
    BY <2>1, <2>2
<1>2. job[n].of \in Payments /\ job[n].status \in Statuses
  BY DEF Tell, MemoryInv, NoticesOK, Active, Jobs
<1> QED
  BY <1>1, <1>2 DEF Tell

LEMMA CompleteDoes ==
    ASSUME MemoryInv, NEW n \in Notices, CompleteSession(n)
    PROVE  /\ Others(n) /\ pc[n] = "told" /\ job[n].of \in Payments
           /\ UNCHANGED <<intent, made, cpc, copy, feed, raced, early>>
           /\ pc'[n] \in {"completed", "done"} /\ job'[n] \in {job[n], NoJob}
           /\ (pc'[n] = "completed" => job'[n] = job[n])
           /\ IF session[job[n].of] # "none"
              THEN session' = [session EXCEPT ![job[n].of] = "complete"]
              ELSE UNCHANGED session
<1>1. job[n].of \in Payments /\ pc[n] = "told"
  BY DEF CompleteSession, MemoryInv, NoticesOK, Active
<1>2. CASE Paid(job[n].of)
  BY <1>1, <1>2 DEF CompleteSession, Paid, Goto, Others, historyVars, MemoryInv, NoticesOK
<1>3. CASE ~Paid(job[n].of)
  BY <1>1, <1>3 DEF CompleteSession, Paid, Finish, Others, historyVars, MemoryInv, NoticesOK
<1> QED
  BY <1>2, <1>3

LEMMA TellSessionDoes ==
    ASSUME MemoryInv, NEW n \in Notices, TellSession(n)
    PROVE  /\ Others(n) /\ pc[n] = "completed" /\ pc'[n] = "done" /\ job'[n] = NoJob
           /\ UNCHANGED <<intent, session, made, cpc, copy, feed, raced, early>>
BY DEF TellSession, Finish, Others, historyVars, MemoryInv, NoticesOK

\* Every other step leaves the notifications and the feed alone.
LEMMA OthersDo ==
    ASSUME \/ \E p \in Payments : CreateStep(p)
           \/ \E c \in Confirms : ConfirmRead(c) \/ ConfirmWrite(c)
           \/ DelivererStep
           \/ UNCHANGED vars
    PROVE  UNCHANGED <<pc, job, feed, early>>
BY DEF CreateStep, CallProvider, PutIntent, PutSession, ConfirmRead, ConfirmWrite, DelivererStep,
   LeaseDueWebhook, DeliverPayload, CompleteWebhook, vars, handlerVars, historyVars

\* Neither do confirms and the deliverer touch a session.
LEMMA RestDo ==
    ASSUME (\E c \in Confirms : ConfirmRead(c) \/ ConfirmWrite(c)) \/ DelivererStep \/ UNCHANGED vars
    PROVE  UNCHANGED <<made, session>>
BY DEF ConfirmRead, ConfirmWrite, DelivererStep, LeaseDueWebhook, DeliverPayload, CompleteWebhook,
   vars

LEMMA AppendLonger ==
    ASSUME NEW S, NEW s \in Seq(S), NEW x \in S
    PROVE  /\ Len(Append(s, x)) = Len(s) + 1 /\ Append(s, x) # <<>>
           /\ DOMAIN s = 1 .. Len(s) /\ DOMAIN Append(s, x) = 1 .. Len(s) + 1
           /\ \A i \in 1 .. Len(s) : Append(s, x)[i] = s[i]
           /\ Append(s, x)[Len(s) + 1] = x
           /\ Len(s) \in Nat
OBVIOUS

InFeed(p, status) == \E i \in DOMAIN feed[p] : feed[p][i] = status

\* The feed is only added to.
LEMMA FeedGrows ==
    ASSUME MemoryInv, [Next]_vars, NEW p \in Payments, NEW status, InFeed(p, status)
    PROVE  InFeed(p, status)'
<1>1. CASE feed' = feed
  BY <1>1 DEF InFeed
<1>2. ASSUME NEW n \in Notices, Tell(n) PROVE InFeed(p, status)'
  <2>1. CASE job[n].of = p
    <3>1. feed[p] \in Seq(Statuses) /\ job[n].status \in Statuses
      BY <1>2, TellDoes DEF MemoryInv, HistoryOK
    <3>2. feed'[p] = Append(feed[p], job[n].status)
      BY <1>2, <2>1, TellDoes DEF MemoryInv, HistoryOK
    <3> QED
      BY <3>1, <3>2, AppendLonger DEF InFeed
  <2>2. CASE job[n].of # p
    BY <1>2, <2>2, TellDoes DEF MemoryInv, HistoryOK, InFeed
  <2> QED
    BY <2>1, <2>2
<1>3. ASSUME NEW n \in Notices, NoticeStep(n), ~Tell(n) PROVE feed' = feed
  BY <1>3, ReadDoes, PutDoes, CompleteDoes, TellSessionDoes DEF NoticeStep
<1> QED
  BY <1>1, <1>2, <1>3, OthersDo DEF Next

\* What a notification tells is in the feed.
LEMMA TellTells ==
    ASSUME MemoryInv, NEW n \in Notices, Tell(n),
           NEW p \in Payments, NEW status, job[n].of = p, job[n].status = status
    PROVE  InFeed(p, status)'
<1>1. feed[p] \in Seq(Statuses) /\ status \in Statuses
  BY TellDoes DEF MemoryInv, HistoryOK
<1>2. feed'[p] = Append(feed[p], status)
  BY TellDoes DEF MemoryInv, HistoryOK
<1> QED
  BY <1>1, <1>2, AppendLonger DEF InFeed

-----------------------------------------------------------------------------
(* StatusIsTold. *)

Telling(p, status) ==
    \E n \in Notices : pc[n] = "put" /\ job[n].of = p /\ job[n].status = status

Told(p, status) == status = Created \/ InFeed(p, status) \/ Telling(p, status)

\* What the intent says, or a confirm's copy of it is about to say.
Says(p, status) ==
    \/ intent[p] = status
    \/ \E c \in Confirms : cpc[c] = "read" /\ copy[c].of = p /\ copy[c].status = status

SaidIsTold == \A p \in Payments, s \in Statuses : Says(p, s) => Told(p, s)

\* What was told stays told.
LEMMA ToldStays ==
    ASSUME MemoryInv, [Next]_vars, NEW p \in Payments, NEW status, Told(p, status)
    PROVE  Told(p, status)'
<1>1. CASE status = Created \/ InFeed(p, status)
  BY <1>1, FeedGrows DEF Told
<1>2. ASSUME NEW n \in Notices, pc[n] = "put", job[n].of = p, job[n].status = status
      PROVE  Told(p, status)'
  <2>1. CASE pc'[n] = pc[n] /\ job'[n] = job[n]
    BY <1>2, <2>1 DEF Told, Telling
  <2>2. CASE Tell(n)
    BY <1>2, <2>2, TellTells DEF Told
  <2>3. ASSUME NEW m \in Notices, NoticeStep(m), m # n PROVE pc'[n] = pc[n] /\ job'[n] = job[n]
    BY <2>3, ReadDoes, PutDoes, TellDoes, CompleteDoes, TellSessionDoes DEF NoticeStep, Others
  <2>4. NoticeStep(n) => Tell(n)
    BY <1>2 DEF NoticeStep, ReadIntent, PutStatus, CompleteSession, TellSession
  <2> QED
    BY <2>1, <2>2, <2>3, <2>4, OthersDo DEF Next
<1> QED
  BY <1>1, <1>2 DEF Told, Telling

\* Nothing says a status of its own but a notification that is about to tell it.
LEMMA SaysDoes ==
    ASSUME MemoryInv, [Next]_vars, NEW p \in Payments, NEW s \in Statuses, Says(p, s)'
    PROVE  Says(p, s) \/ s = Created \/ Telling(p, s)'
<1>1. CASE UNCHANGED <<intent, cpc, copy>>
  BY <1>1 DEF Says
<1>2. ASSUME NEW n \in Notices, NoticeStep(n) PROVE Says(p, s) \/ Telling(p, s)'
  <2>1. CASE PutStatus(n)
    <3>1. intent'[p] = IF p = job[n].of THEN job[n].status ELSE intent[p]
      BY <2>1, PutDoes DEF MemoryInv, StoreOK
    <3> QED
      BY <2>1, <3>1, PutDoes DEF Says, Telling
  <2>2. CASE ~PutStatus(n)
    BY <1>1, <1>2, <2>2, ReadDoes, TellDoes, CompleteDoes, TellSessionDoes DEF NoticeStep, Says
  <2> QED
    BY <2>1, <2>2
<1>3. ASSUME NEW q \in Payments, CreateStep(q) PROVE Says(p, s) \/ s = Created
  <2>1. UNCHANGED <<cpc, copy>> /\ intent'[p] \in {intent[p], Created}
    BY <1>3 DEF CreateStep, CallProvider, PutIntent, PutSession, Put, handlerVars, MemoryInv,
       StoreOK
  <2> QED
    BY <2>1 DEF Says
<1>4. ASSUME NEW c \in Confirms, ConfirmRead(c) PROVE Says(p, s)
  <2>1. intent' = intent
    BY <1>4 DEF ConfirmRead
  <2>2. PICK q \in Payments : copy'[c] = [of |-> q, status |-> intent[q]]
    BY <1>4 DEF ConfirmRead, MemoryInv, ConfirmsOK
  <2>3. \A d \in Confirms : d # c => cpc'[d] = cpc[d] /\ copy'[d] = copy[d]
    BY <1>4 DEF ConfirmRead, MemoryInv, ConfirmsOK
  <2> QED
    BY <2>1, <2>2, <2>3 DEF Says
<1>5. ASSUME NEW c \in Confirms, ConfirmWrite(c) PROVE Says(p, s)
  <2>1. \A d \in Confirms : cpc'[d] = "read" => cpc[d] = "read" /\ copy'[d] = copy[d]
    BY <1>5 DEF ConfirmWrite, MemoryInv, ConfirmsOK
  <2>2. intent'[p] = IF p = copy[c].of THEN copy[c].status ELSE intent[p]
    BY <1>5 DEF ConfirmWrite, Put, MemoryInv, StoreOK
  <2>3. cpc[c] = "read"
    BY <1>5 DEF ConfirmWrite
  <2> QED
    BY <2>1, <2>2, <2>3 DEF Says
<1>6. CASE DelivererStep \/ UNCHANGED vars
  BY <1>1, <1>6 DEF DelivererStep, LeaseDueWebhook, DeliverPayload, CompleteWebhook, vars,
     handlerVars
<1> QED
  BY <1>2, <1>3, <1>4, <1>5, <1>6 DEF Next

\* However the handlers of one payment interleave, the store gives it no status but the
\* one it was created with and those that are in the merchant's feed, or about to be.
THEOREM StatusesAreTold == Spec => []StatusIsTold
<1>1. Init => SaidIsTold
  BY Markers DEF Init, SaidIsTold, Says
<1>2. MemoryInv /\ SaidIsTold /\ [Next]_vars => SaidIsTold'
  BY SaysDoes, ToldStays DEF SaidIsTold, Told
<1>3. MemoryInv /\ SaidIsTold => StatusIsTold
  BY DEF MemoryInv, StoreOK, SaidIsTold, Says, StatusIsTold, Told, InFeed, Telling
<1> QED
  BY <1>1, <1>2, <1>3, MemoryInvariant, PTL DEF Spec


-----------------------------------------------------------------------------
(* SessionCompletes. *)

\* A notification that is no early one is of a payment whose session, if it has one,
\* is stored; once it has told of a success, the success is in the feed.
NoticesAreGood ==
    /\ \A p \in Checkout : made[p] = "done" => session[p] # "none"
    /\ \A n \in Notices, p \in Payments : pc[n] \in Active /\ job[n].of = p =>
         /\ p \notin early => made[p] = "done"
         /\ pc[n] = "told" => job[n].status = "succeeded" /\ InFeed(p, "succeeded")

\* A success that is stored, or copied, is on its way to the session or has got there.
Completing(p) ==
    \/ session[p] = "complete"
    \/ \E n \in Notices : pc[n] \in {"put", "told"} /\ job[n].of = p /\ job[n].status = "succeeded"

SuccessArrives ==
    \A p \in Checkout :
        /\ p \notin early /\ Says(p, "succeeded") => Completing(p)
        /\ session[p] = "complete" => InFeed(p, "succeeded")

LEMMA GoodStep ==
    ASSUME MemoryInv, NoticesAreGood, [Next]_vars
    PROVE  NoticesAreGood'
<1>1. \A p \in Checkout : made'[p] = "done" => session'[p] # "none"
  <2>1. ASSUME NEW p \in Payments, CreateStep(p)
        PROVE  \A q \in Checkout : made'[q] = "done" => session'[q] # "none"
    <3>1. Checkout \subseteq Payments
      BY MemoryAssumption
    <3>2. CASE CallProvider(p)
      BY <3>1, <3>2 DEF CallProvider, NoticesAreGood, MemoryInv, StoreOK
    <3>3. CASE PutIntent(p)
      BY <3>1, <3>3 DEF PutIntent, NoticesAreGood, MemoryInv, StoreOK
    <3>4. CASE PutSession(p)
      BY <3>1, <3>4 DEF PutSession, NoticesAreGood, MemoryInv, StoreOK
    <3> QED
      BY <2>1, <3>2, <3>3, <3>4 DEF CreateStep
  <2>2. ASSUME NEW n \in Notices, NoticeStep(n)
        PROVE  /\ made' = made
               /\ \A p \in Payments : session[p] # "none" => session'[p] # "none"
    BY <2>2, ReadDoes, PutDoes, TellDoes, CompleteDoes, TellSessionDoes
       DEF NoticeStep, MemoryInv, StoreOK
  <2> QED
    BY <2>1, <2>2, RestDo, MemoryAssumption DEF Next, NoticesAreGood
<1>2. \A p \in Payments : made[p] = "done" => made'[p] = "done"
  <2>1. ASSUME NEW p \in Payments, CreateStep(p)
        PROVE  \A q \in Payments : made[q] = "done" => made'[q] = "done"
    BY <2>1 DEF CreateStep, CallProvider, PutIntent, PutSession, MemoryInv, StoreOK
  <2>2. ASSUME NEW n \in Notices, NoticeStep(n) PROVE made' = made
    BY <2>2, ReadDoes, PutDoes, TellDoes, CompleteDoes, TellSessionDoes DEF NoticeStep
  <2> QED
    BY <2>1, <2>2, RestDo DEF Next
<1>3. early \subseteq early'
  BY OthersDo, ReadDoes, PutDoes, TellDoes, CompleteDoes, TellSessionDoes DEF Next, NoticeStep
<1>4. ASSUME NEW n \in Notices, NEW p \in Payments, pc'[n] \in Active, job'[n].of = p
      PROVE  /\ p \notin early' => made'[p] = "done"
             /\ pc'[n] = "told" => job'[n].status = "succeeded" /\ InFeed(p, "succeeded")'
  <2>1. CASE pc'[n] = pc[n] /\ job'[n] = job[n]
    BY <1>2, <1>3, <1>4, <2>1, FeedGrows DEF NoticesAreGood
  <2>2. CASE ReadIntent(n)
    BY <1>2, <1>4, <2>2, ReadDoes DEF Active
  <2>3. CASE PutStatus(n)
    BY <1>2, <1>3, <1>4, <2>3, PutDoes DEF NoticesAreGood, Active
  <2>4. CASE Tell(n)
    BY <1>2, <1>3, <1>4, <2>4, TellDoes, TellTells DEF NoticesAreGood, Active
  <2>5. CASE CompleteSession(n)
    BY <1>2, <1>3, <1>4, <2>5, CompleteDoes DEF NoticesAreGood, Active
  <2>6. CASE TellSession(n)
    BY <1>4, <2>6, TellSessionDoes DEF Active
  <2>7. ASSUME NEW m \in Notices, NoticeStep(m), m # n PROVE pc'[n] = pc[n] /\ job'[n] = job[n]
    BY <2>7, ReadDoes, PutDoes, TellDoes, CompleteDoes, TellSessionDoes DEF NoticeStep, Others
  <2> QED
    BY <2>1, <2>2, <2>3, <2>4, <2>5, <2>6, <2>7, OthersDo DEF Next, NoticeStep
<1> QED
  BY <1>1, <1>4 DEF NoticesAreGood

\* The success on its way gets one step further.
LEMMA CompletingStays ==
    ASSUME MemoryInv, NoticesAreGood, [Next]_vars,
           NEW p \in Checkout, p \notin early, Completing(p)
    PROVE  Completing(p)'
<1> p \in Payments
  BY MemoryAssumption
<1>1. session[p] = "complete" => session'[p] = "complete"
  <2>1. ASSUME NEW q \in Payments, CreateStep(q), session[p] = "complete"
        PROVE  session'[p] = "complete"
    BY <2>1 DEF CreateStep, CallProvider, PutIntent, PutSession, MemoryInv, StoreOK
  <2>2. ASSUME NEW n \in Notices, NoticeStep(n), session[p] = "complete"
        PROVE  session'[p] = "complete"
    BY <2>2, ReadDoes, PutDoes, TellDoes, CompleteDoes, TellSessionDoes
       DEF NoticeStep, MemoryInv, StoreOK
  <2> QED
    BY <2>1, <2>2, RestDo DEF Next
<1>2. ASSUME NEW n \in Notices, pc[n] \in {"put", "told"}, job[n].of = p,
             job[n].status = "succeeded"
      PROVE  Completing(p)'
  <2>1. CASE pc'[n] = pc[n] /\ job'[n] = job[n]
    BY <1>2, <2>1 DEF Completing
  <2>2. CASE Tell(n)
    BY <1>2, <2>2, TellDoes DEF Completing
  <2>3. CASE CompleteSession(n)
    <3>1. made[p] = "done" /\ session[p] # "none"
      BY <1>2 DEF NoticesAreGood, Active
    <3>2. session'[p] = "complete"
      BY <1>2, <2>3, <3>1, CompleteDoes DEF MemoryInv, StoreOK
    <3> QED
      BY <3>2 DEF Completing
  <2>4. ASSUME NEW m \in Notices, NoticeStep(m), m # n PROVE pc'[n] = pc[n] /\ job'[n] = job[n]
    BY <2>4, ReadDoes, PutDoes, TellDoes, CompleteDoes, TellSessionDoes DEF NoticeStep, Others
  <2>5. NoticeStep(n) => Tell(n) \/ CompleteSession(n)
    BY <1>2 DEF NoticeStep, ReadIntent, PutStatus, TellSession
  <2> QED
    BY <2>1, <2>2, <2>3, <2>4, <2>5, OthersDo DEF Next
<1> QED
  BY <1>1, <1>2 DEF Completing

LEMMA ArrivesStep ==
    ASSUME MemoryInv, NoticesAreGood, SuccessArrives, [Next]_vars
    PROVE  SuccessArrives'
<1> SUFFICES ASSUME NEW p \in Checkout
             PROVE  /\ p \notin early' /\ Says(p, "succeeded")' => Completing(p)'
                    /\ session'[p] = "complete" => InFeed(p, "succeeded")'
  BY DEF SuccessArrives
<1> p \in Payments
  BY MemoryAssumption
<1>1. early \subseteq early'
  BY OthersDo, ReadDoes, PutDoes, TellDoes, CompleteDoes, TellSessionDoes DEF Next, NoticeStep
<1>2. ASSUME p \notin early', Says(p, "succeeded")' PROVE Completing(p)'
  <2>1. Telling(p, "succeeded")' => Completing(p)'
    BY DEF Telling, Completing
  <2>2. CASE "succeeded" \in Statuses
    <3>1. Says(p, "succeeded") \/ Telling(p, "succeeded")'
      BY <1>2, <2>2, SaysDoes DEF Created
    <3> QED
      BY <1>1, <1>2, <2>1, <3>1, CompletingStays DEF SuccessArrives
  <2>3. CASE "succeeded" \notin Statuses
    <3>1. MemoryInv'
      BY StepInv
    <3>2. ~Says(p, "succeeded")'
      BY <2>3, <3>1 DEF MemoryInv, StoreOK, ConfirmsOK, Says, Jobs
    <3> QED
      BY <1>2, <3>2
  <2> QED
    BY <2>2, <2>3
<1>3. ASSUME session'[p] = "complete" PROVE InFeed(p, "succeeded")'
  <2>1. CASE session[p] = "complete"
    BY <2>1, FeedGrows DEF SuccessArrives
  <2>2. CASE session[p] # "complete"
    <3>1. PICK n \in Notices : CompleteSession(n)
      <4>1. ASSUME NEW q \in Payments, CreateStep(q) PROVE FALSE
        BY <1>3, <2>2, <4>1 DEF CreateStep, CallProvider, PutIntent, PutSession, MemoryInv, StoreOK
      <4>2. ASSUME NEW n \in Notices, NoticeStep(n) PROVE CompleteSession(n)
        BY <1>3, <2>2, <4>2, ReadDoes, PutDoes, TellDoes, TellSessionDoes DEF NoticeStep
      <4> QED
        BY <1>3, <2>2, <4>1, <4>2, RestDo DEF Next
    <3>2. job[n].of = p /\ pc[n] = "told"
      BY <1>3, <2>2, <3>1, CompleteDoes DEF MemoryInv, StoreOK
    <3>3. InFeed(p, "succeeded")
      BY <3>2 DEF NoticesAreGood, Active
    <3> QED
      BY <3>3, FeedGrows
  <2> QED
    BY <2>1, <2>2
<1> QED
  BY <1>2, <1>3

\* A payment that has succeeded completes its checkout session once the handler of the
\* news is through, unless a notification came before the session was stored; and a
\* session is complete only if the merchant was told of a success.
THEOREM SessionsComplete == Spec => []SessionCompletes
<1>1. Init => NoticesAreGood /\ SuccessArrives
  BY MemoryAssumption DEF Init, NoticesAreGood, SuccessArrives, Says, Active
<1>2. MemoryInv /\ NoticesAreGood /\ SuccessArrives => SessionCompletes
  BY MemoryAssumption
     DEF SuccessArrives, SessionCompletes, Says, Completing, Idle, InFeed
<1> QED
  BY <1>1, <1>2, GoodStep, ArrivesStep, MemoryInvariant, PTL DEF Spec


-----------------------------------------------------------------------------
(* FeedFollowsStatus. *)

Reading(n, p) == pc[n] = "read" /\ job[n].of = p
Putting(n, p) == pc[n] = "put" /\ job[n].of = p
Confirming(c, p) == cpc[c] = "read" /\ copy[c].of = p
Holds(n, p) == Reading(n, p) \/ Putting(n, p)

Last(p) == IF feed[p] = <<>> THEN Created ELSE feed[p][Len(feed[p])]

\* One handler at most holds a copy of the intent.
OneHolds(p) ==
    /\ \A m, n \in Notices : Holds(m, p) /\ Holds(n, p) => m = n
    /\ \A n \in Notices, c \in Confirms : ~(Holds(n, p) /\ Confirming(c, p))

\* What the holder has is news, or for a confirm what the intent says; and between
\* putting a status and telling it, the feed is one entry behind.
HolderIsRight(p) ==
    /\ \A n \in Notices : Reading(n, p) => job[n].status # intent[p]
    /\ \A n \in Notices : Putting(n, p) => job[n].status = intent[p] /\ intent[p] # Last(p)
    /\ \A c \in Confirms : Confirming(c, p) => copy[c].status = intent[p]
    /\ intent[p] # "absent" /\ (\A n \in Notices : ~Putting(n, p)) => intent[p] = Last(p)

TellsNews(p) == \A i \in 1 .. Len(feed[p]) - 1 : feed[p][i] # feed[p][i + 1]

FeedOK(p) == OneHolds(p) /\ HolderIsRight(p) /\ TellsNews(p)

FeedIsRight == \A p \in Payments \ raced : FeedOK(p)

\* A step that changes neither the intent nor the feed, and gives nobody a copy.
LEMMA QuietStep ==
    ASSUME NEW p \in Payments, FeedOK(p), intent'[p] = intent[p], feed'[p] = feed[p],
           \A n \in Notices : /\ Putting(n, p)' <=> Putting(n, p)
                              /\ Reading(n, p)' => Reading(n, p)
                              /\ Holds(n, p) /\ Holds(n, p)' => job'[n] = job[n],
           \A c \in Confirms : Confirming(c, p)' => Confirming(c, p) /\ copy'[c] = copy[c]
    PROVE  FeedOK(p)'
<1>1. \A n \in Notices : Holds(n, p)' => Holds(n, p) /\ job'[n] = job[n]
  BY DEF Holds
<1>2. OneHolds(p)'
  BY <1>1 DEF FeedOK, OneHolds
<1>3. Last(p)' = Last(p)
  BY DEF Last
<1>4. HolderIsRight(p)'
  BY <1>1, <1>3 DEF FeedOK, HolderIsRight, Holds
<1>5. TellsNews(p)'
  BY DEF FeedOK, TellsNews
<1> QED
  BY <1>2, <1>4, <1>5 DEF FeedOK

LEMMA FeedNoticeStep ==
    ASSUME MemoryInv, NEW n \in Notices, NoticeStep(n), NEW p \in Payments, p \notin raced',
           FeedOK(p)
    PROVE  FeedOK(p)'
<1>0. UNCHANGED <<cpc, copy>> /\ Others(n)
  BY ReadDoes, PutDoes, TellDoes, CompleteDoes, TellSessionDoes DEF NoticeStep
<1>a. \A c \in Confirms : Confirming(c, p)' <=> Confirming(c, p)
  BY <1>0 DEF Confirming
<1>b. \A m \in Notices : m # n => /\ Reading(m, p)' <=> Reading(m, p)
                                  /\ Putting(m, p)' <=> Putting(m, p)
                                  /\ job'[m] = job[m]
  BY <1>0 DEF Reading, Putting, Others
<1>1. CASE intent'[p] = intent[p] /\ feed'[p] = feed[p] /\ ~Holds(n, p) /\ ~Holds(n, p)'
  BY <1>0, <1>1, <1>a, <1>b, QuietStep DEF Holds
<1>2. CASE ReadIntent(n)
  <2>1. /\ intent' = intent /\ feed' = feed /\ pc[n] = "waiting" /\ pc'[n] \in {"read", "done"}
        /\ pc'[n] = "read" => /\ job'[n].status # intent[job'[n].of]
                              /\ job'[n].of \notin raced' => ~Holding(job'[n].of)
    BY <1>2, ReadDoes
  <2>2. ~Holds(n, p)
    BY <2>1 DEF Holds, Reading, Putting
  <2>3. CASE Reading(n, p)'
    <3>1. ~Holding(p) /\ job'[n].status # intent[p]
      BY <2>1, <2>3 DEF Reading
    <3>2. /\ \A m \in Notices : ~Holds(m, p)
          /\ \A c \in Confirms : ~Confirming(c, p)
      BY <3>1 DEF Holding, Holds, Reading, Putting, Confirming
    <3>3. OneHolds(p)'
      BY <1>a, <1>b, <3>2 DEF OneHolds, Holds
    <3>4. \A m \in Notices : ~Putting(m, p)'
      BY <1>b, <2>1, <3>2 DEF Holds, Putting
    <3>5. Last(p)' = Last(p)
      BY <2>1 DEF Last
    <3>6. HolderIsRight(p)'
      BY <1>a, <1>b, <2>1, <3>1, <3>2, <3>4, <3>5 DEF HolderIsRight, FeedOK, Holds
    <3> QED
      BY <2>1, <3>3, <3>6 DEF FeedOK, TellsNews
  <2>4. CASE ~Reading(n, p)'
    <3>1. ~Holds(n, p)'
      BY <2>1, <2>4 DEF Holds, Putting
    <3> QED
      BY <1>1, <2>1, <2>2, <3>1
  <2> QED
    BY <2>3, <2>4
<1>3. CASE PutStatus(n)
  <2>1. /\ pc[n] = "read" /\ pc'[n] = "put" /\ job'[n] = job[n] /\ feed' = feed
        /\ job[n].of \in Payments
        /\ intent'[p] = IF p = job[n].of THEN job[n].status ELSE intent[p]
    BY <1>3, PutDoes DEF MemoryInv, StoreOK
  <2>2. CASE job[n].of = p
    <3>1. Reading(n, p) /\ Putting(n, p)' /\ intent[p] # "absent"
      BY <2>1, <2>2 DEF Reading, Putting, MemoryInv, CopiesAreOfStored, Active
    <3>2. /\ \A m \in Notices : m # n => ~Holds(m, p)
          /\ \A c \in Confirms : ~Confirming(c, p)
      BY <3>1 DEF FeedOK, OneHolds, Holds
    <3>3. \A m \in Notices : ~Putting(m, p)
      BY <2>1, <3>2 DEF Holds, Putting
    <3>4. job[n].status # intent[p] /\ intent[p] = Last(p)
      BY <3>1, <3>3 DEF FeedOK, HolderIsRight
    <3>5. Last(p)' = Last(p)
      BY <2>1 DEF Last
    <3>6. OneHolds(p)'
      BY <1>a, <1>b, <3>2 DEF OneHolds, Holds
    <3>7. HolderIsRight(p)'
      <4>1. \A m \in Notices : ~Reading(m, p)' /\ (Putting(m, p)' => m = n)
        BY <1>b, <2>1, <3>2 DEF Holds, Reading
      <4>2. intent'[p] = job'[n].status /\ intent'[p] # Last(p)'
        BY <2>1, <2>2, <3>4, <3>5
      <4> QED
        BY <1>a, <3>1, <3>2, <4>1, <4>2 DEF HolderIsRight
    <3> QED
      BY <2>1, <3>6, <3>7 DEF FeedOK, TellsNews
  <2>3. CASE job[n].of # p
    BY <1>1, <2>1, <2>3 DEF Holds, Reading, Putting
  <2> QED
    BY <2>2, <2>3
<1>4. CASE Tell(n)
  <2>1. /\ pc[n] = "put" /\ pc'[n] \in {"told", "done"} /\ intent' = intent
        /\ job[n].status \in Statuses /\ feed[p] \in Seq(Statuses)
        /\ feed'[p] = IF job[n].of = p THEN Append(feed[p], job[n].status) ELSE feed[p]
    <3>1. /\ pc[n] = "put" /\ intent' = intent /\ job[n].status \in Statuses
          /\ job[n].of \in Payments /\ pc'[n] \in {"told", "done"}
      BY <1>4, TellDoes
    <3>2. feed' = [feed EXCEPT ![job[n].of] = Append(@, job[n].status)]
      BY <1>4, TellDoes
    <3> QED
      BY <3>1, <3>2 DEF MemoryInv, HistoryOK
  <2>2. CASE job[n].of = p
    <3> DEFINE s == feed[p]
               x == job[n].status
    <3>1. Putting(n, p) /\ ~Holds(n, p)'
      BY <2>1, <2>2 DEF Putting, Holds, Reading
    <3>2. /\ \A m \in Notices : m # n => ~Holds(m, p)
          /\ \A c \in Confirms : ~Confirming(c, p)
      BY <3>1 DEF FeedOK, OneHolds, Holds
    <3>3. x = intent[p] /\ intent[p] # Last(p)
      BY <3>1 DEF FeedOK, HolderIsRight
    <3>4. /\ \A m \in Notices : ~Reading(m, p)' /\ ~Putting(m, p)'
          /\ \A c \in Confirms : ~Confirming(c, p)'
      BY <1>a, <1>b, <3>1, <3>2 DEF Holds
    <3>5. feed'[p] = Append(s, x) /\ s \in Seq(Statuses) /\ x \in Statuses
      BY <2>1, <2>2
    <3>6. Last(p)' = x
      BY <3>5, AppendLonger DEF Last
    <3>7. TellsNews(p)'
      <4>1. /\ Len(feed'[p]) - 1 = Len(s) /\ Len(s) \in Nat
            /\ \A i \in 1 .. Len(s) : feed'[p][i] = s[i]
            /\ feed'[p][Len(s) + 1] = x
        BY <3>5, AppendLonger
      <4>2. \A i \in 1 .. Len(s) - 1 : s[i] # s[i + 1]
        BY DEF FeedOK, TellsNews
      <4>3. Len(s) # 0 => s[Len(s)] # x
        BY <3>3 DEF Last
      <4>4. ASSUME NEW i \in 1 .. Len(s) PROVE feed'[p][i] # feed'[p][i + 1]
        <5>1. CASE i = Len(s)
          BY <4>1, <4>3, <5>1
        <5>2. CASE i # Len(s)
          <6>1. i \in 1 .. Len(s) - 1 /\ i + 1 \in 1 .. Len(s)
            BY <4>1, <5>2
          <6> QED
            BY <4>1, <4>2, <6>1
        <5> QED
          BY <5>1, <5>2
      <4> QED
        BY <4>1, <4>4 DEF TellsNews
    <3>8. OneHolds(p)' /\ HolderIsRight(p)'
      BY <2>1, <3>3, <3>4, <3>6 DEF OneHolds, HolderIsRight, Holds
    <3> QED
      BY <3>7, <3>8 DEF FeedOK
  <2>3. CASE job[n].of # p
    <3>1. ~Holds(n, p) /\ ~Holds(n, p)'
      BY <2>1, <2>3 DEF Holds, Reading, Putting
    <3> QED
      BY <1>1, <2>1, <2>3, <3>1
  <2> QED
    BY <2>2, <2>3
<1>5. CASE CompleteSession(n) \/ TellSession(n)
  <2>1. intent' = intent /\ feed' = feed /\ pc[n] \in {"told", "completed"}
        /\ pc'[n] \in {"completed", "done"}
    BY <1>5, CompleteDoes, TellSessionDoes
  <2> QED
    BY <1>1, <2>1 DEF Holds, Reading, Putting
<1> QED
  BY <1>2, <1>3, <1>4, <1>5 DEF NoticeStep

LEMMA FeedConfirmStep ==
    ASSUME MemoryInv, NEW c \in Confirms, ConfirmRead(c) \/ ConfirmWrite(c),
           NEW p \in Payments, p \notin raced', FeedOK(p)
    PROVE  FeedOK(p)'
<1>0. UNCHANGED <<pc, job, feed>>
  BY OthersDo
<1>a. \A n \in Notices : /\ Reading(n, p)' <=> Reading(n, p)
                         /\ Putting(n, p)' <=> Putting(n, p)
  BY <1>0 DEF Reading, Putting
<1>b. \A d \in Confirms : d # c => cpc'[d] = cpc[d] /\ copy'[d] = copy[d]
  BY DEF ConfirmRead, ConfirmWrite, MemoryInv, ConfirmsOK
<1>1. CASE intent'[p] = intent[p] /\ ~Confirming(c, p)'
  BY <1>0, <1>1, <1>a, <1>b, QuietStep DEF Confirming
<1>2. CASE ConfirmRead(c)
  <2>1. PICK q \in Payments : /\ NoteRace(q) /\ cpc'[c] = "read" /\ intent' = intent
                              /\ copy'[c] = [of |-> q, status |-> intent[q]]
    BY <1>2 DEF ConfirmRead, MemoryInv, ConfirmsOK
  <2>2. CASE q = p
    <3>1. ~Holding(p)
      BY <2>1, <2>2 DEF NoteRace
    <3>2. /\ \A n \in Notices : ~Holds(n, p)
          /\ \A d \in Confirms : ~Confirming(d, p)
      BY <3>1 DEF Holding, Holds, Reading, Putting, Confirming
    <3>3. Last(p)' = Last(p)
      BY <1>0 DEF Last
    <3>4. OneHolds(p)' /\ TellsNews(p)'
      BY <1>0, <1>a, <3>2 DEF OneHolds, Holds, FeedOK, TellsNews
    <3>5. \A d \in Confirms : Confirming(d, p)' => copy'[d].status = intent'[p]
      BY <1>b, <2>1, <2>2, <3>2 DEF Confirming
    <3>6. HolderIsRight(p)'
      BY <1>a, <2>1, <3>2, <3>3, <3>5 DEF HolderIsRight, FeedOK, Holds
    <3> QED
      BY <3>4, <3>6 DEF FeedOK
  <2>3. CASE q # p
    BY <1>1, <2>1, <2>3 DEF Confirming
  <2> QED
    BY <2>2, <2>3
<1>3. CASE ConfirmWrite(c)
  <2>1. /\ cpc[c] = "read" /\ cpc'[c] = "done"
        /\ intent'[p] = IF p = copy[c].of THEN copy[c].status ELSE intent[p]
    BY <1>3 DEF ConfirmWrite, Put, MemoryInv, StoreOK, ConfirmsOK
  <2>2. copy[c].of = p => copy[c].status = intent[p]
    BY <2>1 DEF FeedOK, HolderIsRight, Confirming
  <2> QED
    BY <1>1, <2>1, <2>2 DEF Confirming
<1> QED
  BY <1>2, <1>3

LEMMA FeedCreateStep ==
    ASSUME MemoryInv, NEW q \in Payments, CreateStep(q), NEW p \in Payments, FeedOK(p)
    PROVE  FeedOK(p)'
<1>1. UNCHANGED <<pc, job, cpc, copy, feed>>
  BY DEF CreateStep, CallProvider, PutIntent, PutSession, handlerVars, historyVars
<1>2. CASE intent'[p] = intent[p]
  BY <1>1, <1>2, QuietStep DEF Reading, Putting, Confirming
<1>3. CASE intent'[p] # intent[p]
  <2>1. PutIntent(q) /\ q = p
    BY <1>3 DEF CreateStep, CallProvider, PutIntent, PutSession, Put, MemoryInv, StoreOK
  <2>2. intent[p] = "absent" /\ intent'[p] = Created
    BY <2>1 DEF PutIntent, Put, MemoryInv, StoreOK
  <2>3. /\ \A n \in Notices : ~Holds(n, p)
        /\ \A c \in Confirms : ~Confirming(c, p)
        /\ feed[p] = <<>>
    BY <2>2 DEF MemoryInv, CopiesAreOfStored, Holds, Reading, Putting, Confirming, Active
  <2>4. /\ \A n \in Notices : ~Reading(n, p)' /\ ~Putting(n, p)'
        /\ \A c \in Confirms : ~Confirming(c, p)'
    BY <1>1, <2>3 DEF Holds, Reading, Putting, Confirming
  <2>5. Last(p)' = Created
    BY <1>1, <2>3 DEF Last
  <2>6. OneHolds(p)' /\ HolderIsRight(p)'
    BY <2>2, <2>4, <2>5 DEF OneHolds, HolderIsRight, Holds
  <2> QED
    BY <1>1, <2>6 DEF FeedOK, TellsNews
<1> QED
  BY <1>2, <1>3

LEMMA FeedStep ==
    ASSUME MemoryInv, FeedIsRight, [Next]_vars
    PROVE  FeedIsRight'
<1> SUFFICES ASSUME NEW p \in Payments, p \notin raced' PROVE FeedOK(p)'
  BY DEF FeedIsRight
<1>1. raced \subseteq raced'
  BY ReadDoes, PutDoes, TellDoes, CompleteDoes, TellSessionDoes
     DEF Next, NoticeStep, CreateStep, CallProvider, PutIntent, PutSession, ConfirmRead,
         ConfirmWrite, NoteRace, DelivererStep, LeaseDueWebhook, DeliverPayload, CompleteWebhook,
         vars, historyVars
<1>2. FeedOK(p)
  BY <1>1 DEF FeedIsRight
<1>3. CASE DelivererStep \/ UNCHANGED vars
  <2>1. UNCHANGED <<intent, pc, job, cpc, copy, feed>>
    BY <1>3 DEF DelivererStep, LeaseDueWebhook, DeliverPayload, CompleteWebhook, vars,
       handlerVars, historyVars
  <2> QED
    BY <1>2, <2>1, QuietStep DEF Reading, Putting, Confirming
<1> QED
  BY <1>2, <1>3, FeedNoticeStep, FeedConfirmStep, FeedCreateStep DEF Next

\* As long as no two handlers hold a copy of one intent, every event tells the merchant
\* a status the intent did not have before, and the last one the status it has.
THEOREM FeedsFollow == Spec => []FeedFollowsStatus
<1>1. Init => FeedIsRight
  BY DEF Init, FeedIsRight, FeedOK, OneHolds, HolderIsRight, TellsNews, Holds, Reading, Putting,
     Confirming
<1>2. FeedIsRight => FeedFollowsStatus
  BY DEF FeedIsRight, FeedOK, HolderIsRight, TellsNews, FeedFollowsStatus, Putting, Idle, Last
<1> QED
  BY <1>1, <1>2, FeedStep, MemoryInvariant, PTL DEF Spec

-----------------------------------------------------------------------------
(* MemoryImplementsDelivery. *)

PhaseMap == [e \in Events |-> PhaseOf(e)]

\* What a step that gives one event a new status does to the map.
LEMMA PhaseMapStep ==
    ASSUME NEW e \in Events, NEW v, QueueOK, queue' = [queue EXCEPT ![e] = v]
    PROVE  PhaseMap' = [PhaseMap EXCEPT ![e] = IF v \in {"pending", "in_flight"} THEN "owed"
                                               ELSE IF v = "failed" THEN "dead" ELSE v]
BY DEF QueueOK, PhaseMap, PhaseOf

LEMMA StepRefines ==
    MemoryInv /\ [Next]_vars => [Delivery!DeliveryNext]_(Delivery!deliveryVars)
<1> SUFFICES ASSUME MemoryInv, [Next]_vars
             PROVE  [Delivery!DeliveryNext]_(Delivery!deliveryVars)
  OBVIOUS
<1> USE DEF MemoryInv
<1> DEFINE Goal == [Delivery!DeliveryNext]_(Delivery!deliveryVars)
           Hidden == UNCHANGED <<PhaseMap, attempts, confirmed>>
<1>0. Hidden => Goal
  BY DEF Delivery!deliveryVars, PhaseMap
<1>a. UNCHANGED <<queue, attempts, confirmed>> => Goal
  BY <1>0 DEF PhaseMap, PhaseOf
<1>b. ASSUME NEW e \in Events, queue[e] = "absent", queue' = [queue EXCEPT ![e] = "pending"],
             UNCHANGED <<attempts, confirmed>>
      PROVE  Goal
  <2>1. PhaseMap' = [PhaseMap EXCEPT ![e] = "owed"] /\ PhaseMap[e] = "absent"
    BY <1>b, PhaseMapStep DEF PhaseMap, PhaseOf
  <2>2. Delivery!Owe(e)
    BY <1>b, <2>1 DEF Delivery!Owe, PhaseMap
  <2> QED
    BY <2>2 DEF Delivery!DeliveryNext
<1>1. ASSUME NEW p \in Payments, CreateStep(p) PROVE Goal
  BY <1>a, <1>1 DEF CreateStep, CallProvider, PutIntent, PutSession, deliveryVars
<1>2. ASSUME NEW n \in Notices, NoticeStep(n) PROVE Goal
  <2>1. CASE ReadIntent(n) \/ PutStatus(n) \/ CompleteSession(n)
    BY <1>a, <2>1 DEF ReadIntent, PutStatus, CompleteSession, deliveryVars
  <2>2. CASE Tell(n)
    BY <1>b, <2>2, EventsOf DEF Tell, Enqueue, EventsAreFresh
  <2>3. CASE TellSession(n)
    BY <1>b, <2>3, EventsOf DEF TellSession, Enqueue, EventsAreFresh
  <2> QED
    BY <1>2, <2>1, <2>2, <2>3 DEF NoticeStep
<1>3. ASSUME NEW c \in Confirms, ConfirmRead(c) \/ ConfirmWrite(c) PROVE Goal
  BY <1>a, <1>3 DEF ConfirmRead, ConfirmWrite, deliveryVars
<1>4. ASSUME NEW e \in Events, LeaseDueWebhook(e) PROVE Goal
  <2>1. PhaseMap[e] = "owed" /\ PhaseMap' = [PhaseMap EXCEPT ![e] = "owed"]
    BY <1>4, PhaseMapStep DEF LeaseDueWebhook, Due, PhaseMap, PhaseOf
  <2>2. PhaseMap' = PhaseMap
    BY <2>1 DEF PhaseMap
  <2>3. Delivery!Try(e)
    BY <1>4, <2>1, <2>2 DEF Delivery!Try, LeaseDueWebhook, PhaseMap
  <2> QED
    BY <2>3 DEF Delivery!DeliveryNext
<1>5. CASE DeliverPayload
  <2>1. /\ working \in Events /\ attempts[working] > 0 /\ UNCHANGED <<queue, attempts>>
        /\ confirmed' \in {confirmed, confirmed \cup {working}}
    BY <1>5 DEF DeliverPayload, QueueOK, LeaseIsGood
  <2>2. CASE confirmed' = confirmed
    BY <1>a, <2>1, <2>2
  <2>3. CASE confirmed' = confirmed \cup {working}
    <3>1. PhaseMap' = PhaseMap
      BY <2>1 DEF PhaseMap, PhaseOf
    <3>2. Delivery!Confirm(working)
      BY <2>1, <2>3, <3>1 DEF Delivery!Confirm, PhaseMap
    <3> QED
      BY <2>1, <3>2 DEF Delivery!DeliveryNext
  <2> QED
    BY <2>1, <2>2, <2>3
<1>6. CASE CompleteWebhook
  <2> DEFINE e == working
  <2>1. /\ e \in Events /\ queue[e] = "in_flight" /\ UNCHANGED <<attempts, confirmed>>
        /\ queue' = [queue EXCEPT ![e] = Resolved(e)] /\ (took = "yes" => e \in confirmed)
    BY <1>6 DEF CompleteWebhook, LeaseIsGood, QueueOK
  <2>2. PhaseMap[e] = "owed"
    BY <2>1 DEF PhaseMap, PhaseOf
  <2>3. CASE took = "yes"
    <3>1. PhaseMap' = [PhaseMap EXCEPT ![e] = "delivered"]
      BY <2>1, <2>3, PhaseMapStep DEF Resolved
    <3>2. Delivery!Settle(e)
      BY <2>1, <2>2, <2>3, <3>1 DEF Delivery!Settle, PhaseMap
    <3> QED
      BY <2>1, <3>2 DEF Delivery!DeliveryNext
  <2>4. CASE took # "yes" /\ OutOfAttempts(e)
    <3>1. PhaseMap' = [PhaseMap EXCEPT ![e] = "dead"]
      BY <2>1, <2>4, PhaseMapStep DEF Resolved
    <3>2. Delivery!Settle(e)
      BY <2>1, <2>2, <2>4, <3>1 DEF Delivery!Settle, PhaseMap, OutOfAttempts
    <3> QED
      BY <2>1, <3>2 DEF Delivery!DeliveryNext
  <2>5. CASE took # "yes" /\ ~OutOfAttempts(e)
    <3>1. PhaseMap' = [PhaseMap EXCEPT ![e] = "owed"]
      BY <2>1, <2>5, PhaseMapStep DEF Resolved
    <3>2. PhaseMap' = PhaseMap
      BY <2>2, <3>1 DEF PhaseMap
    <3> QED
      BY <1>0, <2>1, <3>2
  <2> QED
    BY <2>3, <2>4, <2>5
<1>7. CASE UNCHANGED vars
  BY <1>a, <1>7 DEF vars, deliveryVars
<1> QED
  BY <1>1, <1>2, <1>3, <1>4, <1>5, <1>6, <1>7 DEF Next, DelivererStep

\* The queue in memory makes the merchant the promise the outbox makes, as long as the
\* process lives: an event delivered was taken, one given up was tried MaxAttempts times.
THEOREM MemoryRefinesDelivery == Spec => MemoryImplementsDelivery
<1>1. Init => Delivery!DeliveryInit
  <2> SUFFICES ASSUME Init PROVE Delivery!DeliveryInit
    OBVIOUS
  <2>1. [e \in Events |-> PhaseOf(e)] = [e \in Events |-> "absent"]
    BY DEF Init, PhaseOf
  <2> QED
    BY <2>1 DEF Init, Delivery!DeliveryInit
<1> QED
  BY <1>1, StepRefines, MemoryInvariant, PTL DEF Spec, MemoryImplementsDelivery,
     Delivery!DeliverySpec
===============================================================================
