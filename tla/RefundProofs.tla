----------------------------- MODULE RefundProofs -----------------------------
(***************************************************************************)
(* Proofs about Refunds, for any payment, any refunds and any number of    *)
(* handlers and faults.                                                    *)
(*                                                                         *)
(* A refund is paid out once, and once more for each fault at most.  Each  *)
(* payout that may come is counted before it comes: those of the runs that *)
(* have not called the provider yet, and one for a run that may still begin*)
(* at no cost.                                                             *)
(*                                                                         *)
(* Refunds that were never released add up to what was paid at most.  The  *)
(* library defines a sum over a set by a recursive function on the subsets *)
(* of the set; the lemmas about it look at a smallest counterexample, of   *)
(* which there is one because sets are finite, where one would use         *)
(* induction.                                                              *)
(***************************************************************************)
EXTENDS Refunds, FiniteSetTheorems, WellFoundedInduction, TLAPS

Places == {"idle", "reserving", "calling", "answered", "finalizing"}

\* The types that the count rests on.
RunsOK ==
    /\ pc \in [Handlers -> Places]
    /\ DOMAIN job = Handlers
    /\ \A h \in Handlers : pc[h] # "idle" => job[h].id \in Ids
    /\ moved \in [Ids -> Nat]
    /\ faults \in Nat

\* Runs that are still to call the provider.
Coming(r) == {h \in Handlers : pc[h] \in {"reserving", "calling"} /\ job[h].id = r}

\* A run that may begin without a fault.
Spare(r) == IF r \in closed \/ Running(r) THEN 0 ELSE 1

PayoutsAreCounted ==
    \A r \in Ids : moved[r] + Cardinality(Coming(r)) + Spare(r) <= 1 + faults

CountInv == RunsOK /\ PayoutsAreCounted

LEMMA ComingIsFinite ==
    ASSUME NEW r
    PROVE  IsFiniteSet(Coming(r)) /\ Cardinality(Coming(r)) \in Nat
<1>1. Coming(r) \in SUBSET Handlers
  BY DEF Coming
<1> QED
  BY <1>1, RefundAssumption, FS_Subset, FS_CardinalityType

LEMMA InitCount == Init => CountInv
<1> SUFFICES ASSUME Init PROVE CountInv
  OBVIOUS
<1>1. RunsOK
  BY DEF Init, RunsOK, Places
<1>2. ASSUME NEW r \in Ids PROVE Cardinality(Coming(r)) = 0 /\ moved[r] = 0
  <2>1. Coming(r) = {}
    BY DEF Init, Coming
  <2> QED
    BY <2>1, FS_EmptySet DEF Init
<1>3. PayoutsAreCounted
  BY <1>2 DEF PayoutsAreCounted, Spare, Init
<1> QED
  BY <1>1, <1>3 DEF CountInv

\* A step that goes on with a run, without a new one and without a payout.
LEMMA SameRun ==
    ASSUME CountInv, NEW h \in Handlers, NEW place \in Places, pc[h] # "idle", place # "idle",
           pc' = [pc EXCEPT ![h] = place], DOMAIN job' = Handlers,
           \A g \in Handlers : job'[g].id = job[g].id,
           place \in {"reserving", "calling"} => pc[h] \in {"reserving", "calling"},
           UNCHANGED <<closed, moved, faults>>
    PROVE  CountInv'
<1>1. \A g \in Handlers : pc'[g] = IF g = h THEN place ELSE pc[g]
  BY DEF CountInv, RunsOK
<1>2. RunsOK'
  BY <1>1 DEF CountInv, RunsOK
<1>3. ASSUME NEW r \in Ids PROVE moved'[r] + Cardinality(Coming(r)') + Spare(r)' <= 1 + faults'
  <2>1. Coming(r)' \in SUBSET Coming(r)
    BY <1>1 DEF Coming
  <2>2. Cardinality(Coming(r)') <= Cardinality(Coming(r)) /\ Cardinality(Coming(r)') \in Nat
    BY <2>1, ComingIsFinite, FS_Subset, FS_CardinalityType
  <2>3. Running(r)' <=> Running(r)
    BY <1>1 DEF Running
  <2>4. Spare(r)' = Spare(r) /\ Spare(r) \in Nat
    BY <2>3 DEF Spare
  <2> QED
    BY <2>2, <2>4, ComingIsFinite DEF CountInv, RunsOK, PayoutsAreCounted
<1> QED
  BY <1>2, <1>3 DEF CountInv, PayoutsAreCounted

\* A run ends: what it was still to pay out is gone.
LEMMA RunEnds ==
    ASSUME CountInv, NEW h \in Handlers, pc[h] # "idle", Finish(h), UNCHANGED moved,
           \/ /\ pc[h] = "finalizing" /\ closed' = closed \cup {job[h].id}
              /\ UNCHANGED faults
           \/ closed' = closed /\ faults' = faults + 1
    PROVE  CountInv'
<1>1. /\ \A g \in Handlers \ {h} : pc'[g] = pc[g] /\ job'[g] = job[g]
      /\ pc'[h] = "idle"
  BY DEF Finish, CountInv, RunsOK
<1>2. RunsOK'
  BY <1>1 DEF Finish, CountInv, RunsOK, Places
<1>3. ASSUME NEW r \in Ids PROVE moved'[r] + Cardinality(Coming(r)') + Spare(r)' <= 1 + faults'
  <2>1. Coming(r)' \in SUBSET Coming(r)
    BY <1>1 DEF Coming
  <2>2. Cardinality(Coming(r)') <= Cardinality(Coming(r)) /\ Cardinality(Coming(r)') \in Nat
    BY <2>1, ComingIsFinite, FS_Subset, FS_CardinalityType
  <2>3. Spare(r) \in {0, 1} /\ Spare(r)' \in {0, 1} /\ moved[r] \in Nat /\ faults \in Nat
    BY DEF Spare, CountInv, RunsOK
  <2>4. moved[r] + Cardinality(Coming(r)) + Spare(r) <= 1 + faults
    BY DEF CountInv, PayoutsAreCounted
  <2>5. CASE faults' = faults + 1
    BY <2>2, <2>3, <2>4, <2>5, ComingIsFinite
  <2>6. CASE closed' = closed \cup {job[h].id} /\ UNCHANGED faults
    <3>1. CASE r = job[h].id
      <4>1. Spare(r)' = 0
        BY <2>6, <3>1 DEF Spare
      <4> QED
        BY <2>2, <2>3, <2>4, <2>6, <4>1, ComingIsFinite
    <3>2. CASE r # job[h].id
      <4>1. Running(r)' <=> Running(r)
        BY <1>1, <3>2 DEF Running
      <4>2. Spare(r)' = Spare(r)
        BY <2>6, <3>2, <4>1 DEF Spare
      <4> QED
        BY <2>2, <2>3, <2>4, <2>6, <4>2, ComingIsFinite
    <3> QED
      BY <3>1, <3>2
  <2> QED
    BY <2>5, <2>6
<1> QED
  BY <1>2, <1>3 DEF CountInv, PayoutsAreCounted

LEMMA BeginCount ==
    ASSUME CountInv, NEW h \in Handlers, NEW r \in Ids, Begin(h, r)
    PROVE  CountInv'
<1>1. /\ pc[h] = "idle" /\ r \notin closed /\ UNCHANGED <<closed, moved>>
      /\ \A g \in Handlers \ {h} : pc'[g] = pc[g] /\ job'[g] = job[g]
      /\ pc'[h] = "reserving" /\ job'[h].id = r
      /\ pc' \in [Handlers -> Places] /\ DOMAIN job' = Handlers
  BY DEF Begin, Goto, NoJob, CountInv, RunsOK, Places
<1>2. IF Running(r) THEN faults' = faults + 1 ELSE faults' = faults
  BY DEF Begin
<1>3. RunsOK'
  BY <1>1, <1>2 DEF CountInv, RunsOK
<1>4. ASSUME NEW q \in Ids PROVE moved'[q] + Cardinality(Coming(q)') + Spare(q)' <= 1 + faults'
  <2>1. moved[q] \in Nat /\ faults \in Nat /\ Spare(q) \in {0, 1} /\ Cardinality(Coming(q)) \in Nat
    BY ComingIsFinite DEF Spare, CountInv, RunsOK
  <2>2. moved[q] + Cardinality(Coming(q)) + Spare(q) <= 1 + faults
    BY DEF CountInv, PayoutsAreCounted
  <2>3. CASE q = r
    <3>1. Coming(r)' = Coming(r) \cup {h} /\ h \notin Coming(r)
      BY <1>1 DEF Coming
    <3>2. Cardinality(Coming(r)') = Cardinality(Coming(r)) + 1
      BY <3>1, ComingIsFinite, FS_AddElement
    <3>3. Spare(r)' = 0
      BY <1>1 DEF Spare, Running
    <3>4. Spare(r) + faults' = faults + 1
      BY <1>1, <1>2, <2>1 DEF Spare
    <3> QED
      BY <1>1, <2>1, <2>2, <2>3, <3>2, <3>3, <3>4, <1>2
  <2>4. CASE q # r
    <3>1. Coming(q)' = Coming(q)
      BY <1>1, <2>4 DEF Coming
    <3>2. Running(q)' <=> Running(q)
      BY <1>1, <2>4 DEF Running
    <3>3. Spare(q)' = Spare(q)
      BY <1>1, <3>2 DEF Spare
    <3> QED
      BY <1>1, <1>2, <2>1, <2>2, <3>1, <3>3
  <2> QED
    BY <2>3, <2>4
<1> QED
  BY <1>3, <1>4 DEF CountInv, PayoutsAreCounted

LEMMA CallCount ==
    ASSUME CountInv, NEW h \in Handlers, CallProvider(h)
    PROVE  CountInv'
<1> DEFINE r == job[h].id
<1>1. /\ pc[h] = "calling" /\ r \in Ids /\ UNCHANGED <<closed, faults>>
      /\ \A g \in Handlers : pc'[g] = IF g = h THEN "answered" ELSE pc[g]
      /\ pc' \in [Handlers -> Places]
  BY DEF CallProvider, Goto, CountInv, RunsOK, Places
<1>2. DOMAIN job' = Handlers /\ \A g \in Handlers : job'[g].id = job[g].id
  <2>1. PICK answer \in Answers : job' = [job EXCEPT ![h].answer = answer]
    BY DEF CallProvider
  <2> QED
    BY <2>1 DEF CountInv, RunsOK
<1>3. /\ moved' \in [Ids -> Nat]
      /\ \A q \in Ids : moved'[q] = moved[q] \/ (q = r /\ moved'[q] = moved[q] + 1)
  <2>1. PICK pays \in BOOLEAN : moved' = [moved EXCEPT ![r] = IF pays THEN @ + 1 ELSE @]
    BY DEF CallProvider
  <2> QED
    BY <1>1, <2>1 DEF CountInv, RunsOK
<1>4. RunsOK'
  BY <1>1, <1>2, <1>3 DEF CountInv, RunsOK
<1>5. ASSUME NEW q \in Ids PROVE moved'[q] + Cardinality(Coming(q)') + Spare(q)' <= 1 + faults'
  <2>1. /\ moved[q] \in Nat /\ faults \in Nat /\ Spare(q) \in {0, 1}
        /\ Cardinality(Coming(q)) \in Nat
        /\ moved[q] + Cardinality(Coming(q)) + Spare(q) <= 1 + faults
    BY ComingIsFinite DEF Spare, CountInv, RunsOK, PayoutsAreCounted
  <2>2. Running(q)' <=> Running(q)
    BY <1>1, <1>2 DEF Running
  <2>3. Spare(q)' = Spare(q)
    BY <1>1, <2>2 DEF Spare
  <2>4. CASE q = r
    <3>1. Coming(q)' = Coming(q) \ {h} /\ h \in Coming(q)
      BY <1>1, <1>2, <2>4 DEF Coming
    <3>2. Cardinality(Coming(q)') = Cardinality(Coming(q)) - 1
      BY <3>1, ComingIsFinite, FS_RemoveElement
    <3> QED
      BY <1>1, <1>3, <2>1, <2>3, <3>2
  <2>5. CASE q # r
    <3>1. Coming(q)' = Coming(q) /\ moved'[q] = moved[q]
      BY <1>1, <1>2, <1>3, <2>5 DEF Coming
    <3> QED
      BY <1>1, <2>1, <2>3, <3>1
  <2> QED
    BY <2>4, <2>5
<1> QED
  BY <1>4, <1>5 DEF CountInv, PayoutsAreCounted

LEMMA StepCount == CountInv /\ [Next]_vars => CountInv'
<1> SUFFICES ASSUME CountInv, [Next]_vars PROVE CountInv'
  OBVIOUS
<1>1. ASSUME NEW h \in Handlers, ReserveNew(h) \/ ReserveAgain(h) \/ WriteRefund(h)
      PROVE  CountInv'
  <2>1. /\ pc[h] \in {"reserving", "answered"} /\ UNCHANGED <<job, closed, moved, faults>>
        /\ \E place \in {"calling", "finalizing"} :
             /\ pc' = [pc EXCEPT ![h] = place]
             /\ place = "calling" => pc[h] = "reserving"
    BY <1>1 DEF ReserveNew, ReserveAgain, WriteRefund, Goto
  <2> QED
    BY <2>1, SameRun DEF Places, CountInv, RunsOK
<1>2. ASSUME NEW h \in Handlers, Finalize(h) PROVE CountInv'
  BY <1>2, RunEnds DEF Finalize, Close
<1>3. ASSUME NEW h \in Handlers, Abandon(h) PROVE CountInv'
  BY <1>3, RunEnds DEF Abandon
<1>4. CASE UNCHANGED vars
  BY <1>4 DEF vars, CountInv, RunsOK, PayoutsAreCounted, Coming, Spare, Running
<1> QED
  BY <1>1, <1>2, <1>3, <1>4, BeginCount, CallCount DEF Next, HandlerStep

\* A refund is paid out again only after a crash, a failed transaction or a lapsed
\* claim, although the provider does not recognise a repeat.
THEOREM RepeatsTakeFaults == Spec => []RepeatsArePaidFor
<1>1. CountInv => RepeatsArePaidFor
  <2> SUFFICES ASSUME CountInv, NEW r \in Ids PROVE moved[r] <= 1 + faults
    BY DEF RepeatsArePaidFor
  <2>1. Cardinality(Coming(r)) \in Nat /\ Spare(r) \in {0, 1}
    BY ComingIsFinite DEF Spare
  <2> QED
    BY <2>1 DEF CountInv, RunsOK, PayoutsAreCounted
<1> QED
  BY <1>1, InitCount, StepCount, PTL DEF Spec

-----------------------------------------------------------------------------
(* Sums over finite sets. *)

SumOf(f, S) == MapThenSumSet(LAMBDA x : f[x], S)
Pick(S) == CHOOSE x \in S : TRUE
IsSum(sum, f, S) ==
    sum = [T \in SUBSET S |-> IF T = {} THEN 0 ELSE f[Pick(T)] + sum[T \ {Pick(T)}]]

LEMMA SmallestSet ==
    ASSUME NEW S, IsFiniteSet(S), NEW B, B \subseteq SUBSET S, B # {}
    PROVE  \E T \in B : \A V \in SUBSET T : V # T => V \notin B
<1>1. B \subseteq FiniteSubsetsOf(S)
  BY FS_FiniteSubsetsOfFinite
<1>2. PICK T \in B : \A U \in B : <<U, T>> \notin StrictSubsetOrdering(S)
  BY <1>1, FS_StrictSubsetOrderingWellFounded, WFMin
<1> QED
  BY <1>2 DEF StrictSubsetOrdering

LEMMA PickIsIn == ASSUME NEW S, S # {} PROVE Pick(S) \in S
BY DEF Pick

\* The recursive functions for two sets agree where both are defined.
LEMMA SumsAgree ==
    ASSUME NEW f, NEW S, IsFiniteSet(S), NEW U, S \subseteq U,
           NEW g, IsSum(g, f, S), NEW h, IsSum(h, f, U)
    PROVE  \A T \in SUBSET S : g[T] = h[T]
<1> DEFINE B == {T \in SUBSET S : g[T] # h[T]}
<1>1. SUFFICES ASSUME B # {} PROVE FALSE
  OBVIOUS
<1>2. PICK T \in B : \A V \in SUBSET T : V # T => V \notin B
  <2>1. B \subseteq SUBSET S
    OBVIOUS
  <2> HIDE DEF B
  <2> QED
    BY <1>1, <2>1, SmallestSet
<1>3. CASE T = {}
  BY <1>3 DEF IsSum
<1>4. CASE T # {}
  <2>1. g[T] = f[Pick(T)] + g[T \ {Pick(T)}] /\ h[T] = f[Pick(T)] + h[T \ {Pick(T)}]
    BY <1>4 DEF IsSum
  <2>2. g[T \ {Pick(T)}] = h[T \ {Pick(T)}]
    BY <1>2, <1>4, PickIsIn
  <2> QED
    BY <2>1, <2>2
<1> QED
  BY <1>3, <1>4

LEMMA SumExists ==
    ASSUME NEW f, NEW S, IsFiniteSet(S)
    PROVE  \E g : IsSum(g, f, S)
<1> DEFINE B == {T \in SUBSET S : ~ \E g : IsSum(g, f, T)}
<1>1. SUFFICES ASSUME B # {} PROVE FALSE
  OBVIOUS
<1>2. PICK T \in B : \A V \in SUBSET T : V # T => V \notin B
  <2>1. B \subseteq SUBSET S
    OBVIOUS
  <2> HIDE DEF B
  <2> QED
    BY <1>1, <2>1, SmallestSet
<1>3. \A V \in SUBSET T : IsFiniteSet(V)
  BY FS_Subset
<1> DEFINE W(V) == CHOOSE g : IsSum(g, f, V)
<1>4. \A V \in SUBSET T : V # T => IsSum(W(V), f, V)
  BY <1>2
<1> DEFINE g == [V \in SUBSET T |->
                   IF V = {} THEN 0 ELSE f[Pick(V)] + W(V \ {Pick(V)})[V \ {Pick(V)}]]
<1>5. ASSUME NEW V \in SUBSET T, V # T PROVE g[V] = W(V)[V]
  <2>1. IsSum(W(V), f, V) /\ IsFiniteSet(V)
    BY <1>3, <1>4, <1>5
  <2>2. CASE V = {}
    BY <2>1, <2>2 DEF IsSum
  <2>3. CASE V # {}
    <3> DEFINE U == V \ {Pick(V)}
    <3>1. U \in SUBSET V /\ U \in SUBSET T /\ U # T /\ IsFiniteSet(U)
      BY <1>3, <1>5, <2>3, PickIsIn
    <3>2. IsSum(W(U), f, U)
      BY <1>4, <3>1
    <3> HIDE DEF W
    <3>3. W(U)[U] = W(V)[U]
      BY <2>1, <3>1, <3>2, SumsAgree
    <3>4. W(V)[V] = f[Pick(V)] + W(V)[U]
      BY <2>1, <2>3 DEF IsSum
    <3> QED
      BY <2>3, <3>3, <3>4
  <2> QED
    BY <2>2, <2>3
<1>6. IsSum(g, f, T)
  <2>1. ASSUME NEW V \in SUBSET T, V # {}
        PROVE  W(V \ {Pick(V)})[V \ {Pick(V)}] = g[V \ {Pick(V)}]
    <3>1. V \ {Pick(V)} \in SUBSET T /\ V \ {Pick(V)} # T
      BY <2>1, PickIsIn
    <3> QED
      BY <1>5, <3>1
  <2> DEFINE w == [V \in SUBSET T |->
                     IF V = {} THEN 0
                     ELSE f[Pick(V)] + W(V \ {Pick(V)})[V \ {Pick(V)}]]
  <2>2. g = w
    OBVIOUS
  <2> HIDE DEF W, g
  <2>3. w = [V \in SUBSET T |-> IF V = {} THEN 0 ELSE f[Pick(V)] + g[V \ {Pick(V)}]]
    BY <2>1
  <2> HIDE DEF w
  <2> QED
    BY <2>2, <2>3 DEF IsSum
<1> QED
  BY <1>2, <1>6

\* What the library's operator is, one element after the other.
LEMMA SumSteps ==
    ASSUME NEW f, NEW S, IsFiniteSet(S)
    PROVE  /\ S = {} => SumOf(f, S) = 0
           /\ S # {} => SumOf(f, S) = f[Pick(S)] + SumOf(f, S \ {Pick(S)})
<1>1. ASSUME NEW T, IsFiniteSet(T)
      PROVE  \E g : IsSum(g, f, T) /\ SumOf(f, T) = g[T]
  <2> DEFINE g == CHOOSE sum : IsSum(sum, f, T)
  <2>1. SumOf(f, T) = g[T]
    BY DEF SumOf, MapThenSumSet, MapThenFoldSet, IsSum, Pick
  <2>2. IsSum(g, f, T)
    BY <1>1, SumExists
  <2> QED
    BY <2>1, <2>2
<1>2. PICK g : IsSum(g, f, S) /\ SumOf(f, S) = g[S]
  BY <1>1
<1>3. CASE S = {}
  BY <1>2, <1>3 DEF IsSum
<1>4. CASE S # {}
  <2> DEFINE T == S \ {Pick(S)}
  <2>1. IsFiniteSet(T)
    BY FS_Subset
  <2>2. PICK h : IsSum(h, f, T) /\ SumOf(f, T) = h[T]
    BY <1>1, <2>1
  <2>3. h[T] = g[T]
    BY <1>2, <2>1, <2>2, SumsAgree
  <2>4. g[S] = f[Pick(S)] + g[T]
    BY <1>2, <1>4 DEF IsSum
  <2> QED
    BY <1>2, <1>4, <2>2, <2>3, <2>4
<1> QED
  BY <1>3, <1>4

LEMMA SumIsNat ==
    ASSUME NEW f, NEW S, IsFiniteSet(S), \A x \in S : f[x] \in Nat
    PROVE  SumOf(f, S) \in Nat
<1> DEFINE B == {T \in SUBSET S : SumOf(f, T) \notin Nat}
<1>1. SUFFICES ASSUME B # {} PROVE FALSE
  OBVIOUS
<1>2. PICK T \in B : \A V \in SUBSET T : V # T => V \notin B
  <2>1. B \subseteq SUBSET S
    OBVIOUS
  <2> HIDE DEF B
  <2> QED
    BY <1>1, <2>1, SmallestSet
<1>3. IsFiniteSet(T)
  BY FS_Subset
<1> DEFINE sum == SumOf(f, T)
<1>4. T # {}
  <2>1. sum \notin Nat
    OBVIOUS
  <2>2. T = {} => sum = 0
    BY <1>3, SumSteps
  <2> HIDE DEF sum
  <2> QED
    BY <2>1, <2>2
<1>5. SumOf(f, T) = f[Pick(T)] + SumOf(f, T \ {Pick(T)}) /\ Pick(T) \in T
  BY <1>3, <1>4, SumSteps, PickIsIn
<1>6. SumOf(f, T \ {Pick(T)}) \in Nat
  BY <1>2, <1>5
<1>7. f[Pick(T)] \in Nat
  BY <1>5
<1> QED
  BY <1>2, <1>5, <1>6, <1>7

\* Functions that agree on a set have the same sum over it.
LEMMA SumOfEqual ==
    ASSUME NEW f, NEW g, NEW S, IsFiniteSet(S), \A x \in S : f[x] = g[x]
    PROVE  SumOf(f, S) = SumOf(g, S)
<1> DEFINE B == {T \in SUBSET S : SumOf(f, T) # SumOf(g, T)}
<1>1. SUFFICES ASSUME B # {} PROVE FALSE
  OBVIOUS
<1>2. PICK T \in B : \A V \in SUBSET T : V # T => V \notin B
  <2>1. B \subseteq SUBSET S
    OBVIOUS
  <2> HIDE DEF B
  <2> QED
    BY <1>1, <2>1, SmallestSet
<1>3. IsFiniteSet(T)
  BY FS_Subset
<1>4. T # {}
  BY <1>2, <1>3, SumSteps
<1>5. /\ SumOf(f, T) = f[Pick(T)] + SumOf(f, T \ {Pick(T)})
      /\ SumOf(g, T) = g[Pick(T)] + SumOf(g, T \ {Pick(T)})
      /\ Pick(T) \in T
  BY <1>3, <1>4, SumSteps, PickIsIn
<1>6. SumOf(f, T \ {Pick(T)}) = SumOf(g, T \ {Pick(T)})
  BY <1>2, <1>5
<1> QED
  BY <1>2, <1>5, <1>6

\* The order in which the elements are picked does not matter.
LEMMA SumWith ==
    ASSUME NEW f, NEW S, IsFiniteSet(S), \A y \in S : f[y] \in Nat,
           NEW T \in SUBSET S, NEW x \in S \ T
    PROVE  SumOf(f, T \cup {x}) = f[x] + SumOf(f, T)
<1> DEFINE Adds(V, y) == SumOf(f, V \cup {y}) = f[y] + SumOf(f, V)
           B == {V \in SUBSET S : \E y \in S \ V : ~Adds(V, y)}
<1>1. SUFFICES ASSUME B # {} PROVE FALSE
  OBVIOUS
<1>2. PICK V \in B : \A W \in SUBSET V : W # V => W \notin B
  <2>1. B \subseteq SUBSET S
    OBVIOUS
  <2> HIDE DEF B
  <2> QED
    BY <1>1, <2>1, SmallestSet
<1>3. PICK y \in S \ V : ~Adds(V, y)
  OBVIOUS
<1> DEFINE U == V \cup {y}
           c == Pick(U)
           W == V \ {c}
<1>4. V \in SUBSET S /\ U \in SUBSET S /\ W \in SUBSET S
  OBVIOUS
<1>5. IsFiniteSet(V) /\ IsFiniteSet(U) /\ IsFiniteSet(W)
  BY <1>4, FS_Subset
<1>6. c \in U /\ SumOf(f, U) = f[c] + SumOf(f, U \ {c})
  BY <1>5, SumSteps, PickIsIn
<1>7. CASE c = y
  <2>1. U \ {c} = V
    BY <1>7
  <2> QED
    BY <1>3, <1>6, <1>7, <2>1
<1>8. CASE c # y
  <2>1. /\ c \in V /\ U \ {c} = W \cup {y} /\ V = W \cup {c}
        /\ W \in SUBSET V /\ W # V /\ y \in S \ W /\ c \in S \ W
    BY <1>6, <1>8
  <2>2. W \notin B
    BY <1>2, <2>1
  <2>3. Adds(W, y) /\ Adds(W, c)
    BY <1>4, <2>1, <2>2
  <2>4. f[c] \in Nat /\ f[y] \in Nat /\ SumOf(f, W) \in Nat
    BY <1>4, <1>5, <2>1, SumIsNat
  <2> HIDE DEF U, W, c
  <2> QED
    BY <1>3, <1>6, <2>1, <2>3, <2>4 DEF U
<1> QED
  BY <1>7, <1>8

\* A larger set has no smaller sum.
LEMMA SumGrows ==
    ASSUME NEW f, NEW S, IsFiniteSet(S), \A y \in S : f[y] \in Nat, NEW T \in SUBSET S
    PROVE  SumOf(f, T) <= SumOf(f, S)
<1> DEFINE B == {V \in SUBSET S : T \subseteq V /\ ~(SumOf(f, T) <= SumOf(f, V))}
<1>1. SUFFICES ASSUME B # {} PROVE FALSE
  OBVIOUS
<1>2. PICK V \in B : \A W \in SUBSET V : W # V => W \notin B
  <2>1. B \subseteq SUBSET S
    OBVIOUS
  <2> HIDE DEF B
  <2> QED
    BY <1>1, <2>1, SmallestSet
<1>3. \A W \in SUBSET S : SumOf(f, W) \in Nat
  BY FS_Subset, SumIsNat
<1>4. V # T /\ T \subseteq V
  BY <1>3
<1>5. PICK x \in V : x \notin T
  BY <1>4
<1> DEFINE W == V \ {x}
<1>6. W \in SUBSET V /\ W # V /\ T \subseteq W /\ W \in SUBSET S /\ x \in S \ W /\ V = W \cup {x}
  BY <1>4, <1>5
<1>7. SumOf(f, T) <= SumOf(f, W)
  BY <1>2, <1>6
<1> HIDE DEF W
<1>8. SumOf(f, V) = f[x] + SumOf(f, W)
  BY <1>6, SumWith
<1> QED
  BY <1>3, <1>6, <1>7, <1>8

-----------------------------------------------------------------------------
(* Types, and the sum of the refunds that were never released. *)

Known == {r \in Ids : row[r] # "absent"}
Kept == {r \in Ids \ released : row[r] # "absent"}

\* A run that goes to the provider has a row to write the answer to.
ReservedOnceTried ==
    \A h \in Handlers : pc[h] \in {"calling", "answered"} => row[job[h].id] # "absent"

\* Only refunds that were tried have a row, so the sums are over finite sets
\* whatever ids there may be; a refund whose row is released was seen to be.
ReservedInv ==
    /\ RefundTypeOK
    /\ IsFiniteSet(Known)
    /\ \A r \in Ids : row[r] \in Released => r \in released
    /\ ReservedOnceTried
    /\ NewWithinPaid

LEMMA TotalIsSum == ASSUME NEW S PROVE TotalOf(S) = SumOf(amount, S)
BY DEF TotalOf, SumOf

LEMMA KeptIsSum == TotalOf(Kept) = SumOf(amount, Kept) /\ (TotalOf(Kept) = SumOf(amount, Kept))'
<1>1. TotalOf(Kept) = SumOf(amount, Kept)
  BY TotalIsSum
<1> QED
  BY <1>1, PTL

LEMMA ReservedIsNat ==
    ASSUME ReservedInv
    PROVE  /\ Reserved \in Nat
           /\ TotalOf(Kept) \in Nat /\ TotalOf(Kept) <= Reserved /\ TotalOf(Kept) <= Paid
           /\ IsFiniteSet(Kept)
<1> DEFINE counted == {r \in Ids : row[r] \in {"pending", "succeeded"}}
<1>1. Kept \in SUBSET counted /\ counted \in SUBSET Known
  BY DEF ReservedInv, RefundTypeOK, Kept, Known, Answers, Released
<1>2. IsFiniteSet(counted) /\ IsFiniteSet(Kept)
  BY <1>1, FS_Subset DEF ReservedInv
<1>3. (\A r \in counted : amount[r] \in Nat) /\ (\A r \in Kept : amount[r] \in Nat)
  BY DEF ReservedInv, RefundTypeOK, Kept
<1>4. Reserved = SumOf(amount, counted)
  BY TotalIsSum DEF Reserved
<1>5. TotalOf(Kept) <= Paid
  BY DEF ReservedInv, NewWithinPaid, Kept
<1> HIDE DEF counted
<1> QED
  BY <1>1, <1>2, <1>3, <1>4, <1>5, SumIsNat, SumGrows, TotalIsSum

LEMMA InitReserved == Init => ReservedInv
<1> SUFFICES ASSUME Init PROVE ReservedInv
  OBVIOUS
<1>1. Known = {} /\ Kept = {}
  BY DEF Init, Known, Kept
<1>2. RefundTypeOK
  BY DEF Init, RefundTypeOK, NoJob
<1>3. TotalOf(Kept) = 0
  BY <1>1, FS_EmptySet, SumSteps, TotalIsSum
<1>4. IsFiniteSet(Known)
  BY <1>1, FS_EmptySet
<1> QED
  BY <1>2, <1>3, <1>4, RefundAssumption
     DEF ReservedInv, ReservedOnceTried, NewWithinPaid, Kept, Init, Released

LEMMA StepTried == ReservedInv /\ [Next]_vars => ReservedOnceTried'
<1> SUFFICES ASSUME RefundTypeOK, ReservedOnceTried, [Next]_vars PROVE ReservedOnceTried'
  BY DEF ReservedInv
<1> USE DEF RefundTypeOK, ReservedOnceTried
<1>1. ASSUME NEW h \in Handlers, NEW r \in Ids, Begin(h, r) PROVE ReservedOnceTried'
  BY <1>1 DEF Begin, Goto
<1>2. ASSUME NEW h \in Handlers, ReserveNew(h) PROVE ReservedOnceTried'
  BY <1>2 DEF ReserveNew, Goto
<1>3. ASSUME NEW h \in Handlers, ReserveAgain(h) PROVE ReservedOnceTried'
  <2>1. /\ UNCHANGED job /\ row[job[h].id] # "absent" /\ job[h].id \in Ids
        /\ \A g \in Handlers \ {h} : pc'[g] = pc[g]
    BY <1>3 DEF ReserveAgain, Goto
  <2>2. \A q \in Ids : row[q] # "absent" => row'[q] # "absent"
    BY <1>3, <2>1 DEF ReserveAgain
  <2>3. \A g \in Handlers : pc[g] \in {"calling", "answered"} => job[g].id \in Ids
    OBVIOUS
  <2> QED
    BY <2>1, <2>2, <2>3
<1>4. ASSUME NEW h \in Handlers, CallProvider(h) PROVE ReservedOnceTried'
  <2>1. PICK answer \in Answers : job' = [job EXCEPT ![h].answer = answer]
    BY <1>4 DEF CallProvider
  <2>2. \A g \in Handlers : job'[g].id = job[g].id
    BY <2>1
  <2> QED
    BY <1>4, <2>2 DEF CallProvider, Goto
<1>5. ASSUME NEW h \in Handlers, WriteRefund(h) PROVE ReservedOnceTried'
  <2>1. Outcome(h) \in Answers /\ row' = [row EXCEPT ![job[h].id] = Outcome(h)]
    BY <1>5 DEF WriteRefund, Outcome
  <2>2. \A q \in Ids : row[q] # "absent" => row'[q] # "absent"
    BY <2>1 DEF Answers
  <2> QED
    BY <1>5, <2>2 DEF WriteRefund, Goto
<1>6. ASSUME NEW h \in Handlers, Finalize(h) \/ Abandon(h) PROVE ReservedOnceTried'
  BY <1>6 DEF Finalize, Abandon, Finish
<1>7. CASE UNCHANGED vars
  BY <1>7 DEF vars
<1> QED
  BY <1>1, <1>2, <1>3, <1>4, <1>5, <1>6, <1>7 DEF Next, HandlerStep

\* A step that adds no refund to those that were never released.
LEMMA KeptShrinks ==
    ASSUME ReservedInv, RefundTypeOK', ReservedOnceTried',
           amount' = amount, Known' = Known, Kept' \subseteq Kept,
           \A r \in Ids : row'[r] \in Released => r \in released'
    PROVE  ReservedInv'
<1>1. SumOf(amount, Kept') <= SumOf(amount, Kept) /\ SumOf(amount, Kept') \in Nat
  <2>1. \A r \in Kept : amount[r] \in Nat
    BY DEF ReservedInv, RefundTypeOK, Kept
  <2>2. IsFiniteSet(Kept) /\ IsFiniteSet(Kept')
    BY ReservedIsNat, FS_Subset
  <2> QED
    BY <2>1, <2>2, SumGrows, SumIsNat
<1>2. TotalOf(Kept)' = SumOf(amount, Kept')
  BY KeptIsSum
<1>3. TotalOf(Kept)' <= Paid
  BY <1>1, <1>2, ReservedIsNat, TotalIsSum, RefundAssumption
<1> QED
  BY <1>3 DEF ReservedInv, NewWithinPaid, Kept

\* A new refund fits beside all that are counted, and so beside those never released.
LEMMA ReserveNewKeeps ==
    ASSUME ReservedInv, ReservedOnceTried', NEW h \in Handlers, ReserveNew(h)
    PROVE  ReservedInv'
<1> DEFINE r == job[h].id
<1>1. /\ r \in Ids /\ row[r] = "absent"
      /\ UNCHANGED <<closed, job, moved, released, faults>>
      /\ pc' \in [Handlers -> {"idle", "reserving", "calling", "answered", "finalizing"}]
      /\ \A g \in Handlers : /\ pc'[g] # "idle" => pc[g] # "idle"
                             /\ pc'[g] = "answered" => pc[g] = "answered"
  BY DEF ReserveNew, Goto, ReservedInv, RefundTypeOK
<1>2. CASE ~Fits(r)
  <2>1. UNCHANGED <<row, amount>>
    BY <1>2 DEF ReserveNew
  <2>2. RefundTypeOK'
    BY <1>1, <2>1 DEF ReservedInv, RefundTypeOK
  <2> QED
    BY <1>1, <2>1, <2>2, KeptShrinks DEF Known, Kept, ReservedInv
<1>3. CASE Fits(r)
  <2>1. /\ row' = [row EXCEPT ![r] = "pending"]
        /\ amount' = [amount EXCEPT ![r] = Wanted(r)]
    BY <1>3 DEF ReserveNew
  <2>2. Wanted(r) \in Nat /\ Reserved + Wanted(r) <= Paid
    BY <1>1, <1>3, ReservedIsNat, RefundAssumption DEF Fits, Wanted
  <2> HIDE DEF r
  <2>3. RefundTypeOK'
    BY <1>1, <2>1, <2>2 DEF ReservedInv, RefundTypeOK, Answers
  <2>4. Known' = Known \cup {r} /\ IsFiniteSet(Known')
    <3>1. Known' = Known \cup {r}
      BY <1>1, <2>1 DEF Known, ReservedInv, RefundTypeOK
    <3> QED
      BY <3>1, FS_AddElement DEF ReservedInv
  <2>5. Kept' \in SUBSET (Kept \cup {r}) /\ r \notin Kept
    BY <1>1, <2>1 DEF Kept, ReservedInv, RefundTypeOK
  <2>6. SumOf(amount', Kept) = SumOf(amount, Kept) /\ SumOf(amount, Kept) \in Nat
    <3>1. \A q \in Kept : amount'[q] = amount[q]
      BY <2>1, <2>5 DEF Kept, ReservedInv, RefundTypeOK
    <3>2. TotalOf(Kept) = SumOf(amount, Kept)
      BY TotalIsSum
    <3> QED
      BY <3>1, <3>2, ReservedIsNat, SumOfEqual
  <2>7. amount'[r] = Wanted(r)
    BY <1>1, <2>1 DEF ReservedInv, RefundTypeOK
  <2> DEFINE all == Kept \cup {r}
  <2>8. IsFiniteSet(all) /\ \A q \in all : amount'[q] \in Nat
    BY <1>1, <2>3, ReservedIsNat, FS_AddElement DEF Kept, RefundTypeOK
  <2>9. SumOf(amount', all) = Wanted(r) + SumOf(amount, Kept)
    <3>1. Kept \in SUBSET all /\ r \in all \ Kept
      BY <2>5
    <3>2. SumOf(amount', Kept \cup {r}) = amount'[r] + SumOf(amount', Kept)
      <4> HIDE DEF all
      <4> QED
        BY <2>8, <3>1, SumWith
    <3> QED
      BY <2>6, <2>7, <3>2
  <2>10. SumOf(amount', Kept') <= SumOf(amount', all) /\ SumOf(amount', Kept') \in Nat
    <3>1. Kept' \in SUBSET all
      BY <2>5
    <3> HIDE DEF all
    <3> QED
      BY <2>8, <3>1, SumGrows, SumIsNat, FS_Subset
  <2>11. SumOf(amount, Kept) <= Reserved
    BY ReservedIsNat, TotalIsSum
  <2>12. SumOf(amount', Kept') <= Paid
    <3> HIDE DEF all
    <3> QED
      BY <2>2, <2>6, <2>9, <2>10, <2>11, ReservedIsNat, RefundAssumption
  <2>13. NewWithinPaid'
    <3>1. TotalOf(Kept)' = SumOf(amount', Kept')
      BY KeptIsSum
    <3> QED
      BY <2>12, <3>1 DEF NewWithinPaid, Kept
  <2>14. \A q \in Ids : row'[q] \in Released => q \in released'
    BY <1>1, <2>1 DEF ReservedInv, RefundTypeOK, Released
  <2> QED
    BY <2>3, <2>4, <2>13, <2>14 DEF ReservedInv
<1> QED
  BY <1>2, <1>3

LEMMA StepReserved == ReservedInv /\ [Next]_vars => ReservedInv'
<1> SUFFICES ASSUME ReservedInv, ReservedOnceTried', [Next]_vars PROVE ReservedInv'
  BY StepTried
<1> USE DEF ReservedInv
<1>1. ASSUME NEW h \in Handlers, ReserveAgain(h) PROVE ReservedInv'
  <2> DEFINE r == job[h].id
  <2>1. /\ r \in Ids /\ row[r] # "absent"
        /\ UNCHANGED <<amount, closed, job, moved, released, faults>>
        /\ pc' \in [Handlers -> {"idle", "reserving", "calling", "answered", "finalizing"}]
        /\ \A g \in Handlers : /\ pc'[g] # "idle" => pc[g] # "idle"
                               /\ pc'[g] = "answered" => pc[g] = "answered"
    BY <1>1 DEF ReserveAgain, Goto, RefundTypeOK
  <2>2. /\ row' \in [Ids -> Answers \cup {"absent"}]
        /\ \A q \in Ids : \/ row'[q] = row[q]
                          \/ row[q] # "absent" /\ row'[q] = "pending"
    BY <1>1, <2>1 DEF ReserveAgain, RefundTypeOK, Answers
  <2>3. RefundTypeOK'
    BY <2>1, <2>2 DEF RefundTypeOK
  <2>4. Known' = Known /\ Kept' \subseteq Kept
    BY <2>1, <2>2 DEF Known, Kept
  <2> QED
    BY <2>1, <2>2, <2>3, <2>4, KeptShrinks DEF Released
<1>2. ASSUME NEW h \in Handlers, WriteRefund(h) PROVE ReservedInv'
  <2> DEFINE r == job[h].id
  <2>1. r \in Ids /\ Outcome(h) \in Answers /\ UNCHANGED <<amount, closed, job, moved, faults>>
    BY <1>2 DEF WriteRefund, RefundTypeOK, Outcome
  <2>2. /\ pc' \in [Handlers -> {"idle", "reserving", "calling", "answered", "finalizing"}]
        /\ \A g \in Handlers : /\ pc'[g] # "idle" => pc[g] # "idle"
                               /\ pc'[g] = "answered" => pc[g] = "answered"
    BY <1>2 DEF WriteRefund, Goto, RefundTypeOK
  <2>3. /\ row' = [row EXCEPT ![r] = Outcome(h)]
        /\ released' \subseteq Ids /\ released \subseteq released'
        /\ Outcome(h) \in Released => r \in released'
    BY <1>2, <2>1 DEF WriteRefund, RefundTypeOK
  <2> HIDE DEF r
  <2>4. RefundTypeOK'
    BY <2>1, <2>2, <2>3 DEF RefundTypeOK
  <2>5. \A q \in Ids : row'[q] \in Released => q \in released'
    BY <2>1, <2>3 DEF RefundTypeOK
  <2>6. row[r] # "absent"
    BY <1>2 DEF WriteRefund, ReservedOnceTried, r
  <2>7. Known' = Known /\ Kept' \subseteq Kept
    BY <2>1, <2>3, <2>6 DEF Known, Kept, RefundTypeOK, Answers
  <2> QED
    BY <2>1, <2>4, <2>5, <2>7, KeptShrinks
<1>3. ASSUME NEW h \in Handlers,
             CallProvider(h) \/ Finalize(h) \/ Abandon(h) \/ (\E r \in Ids : Begin(h, r))
      PROVE  ReservedInv'
  <2>1. UNCHANGED <<row, amount, released>>
    BY <1>3 DEF CallProvider, Finalize, Abandon, Begin
  <2>2. RefundTypeOK'
    <3>1. CASE CallProvider(h)
      <4>1. PICK pays \in BOOLEAN, answer \in Answers :
              /\ job' = [job EXCEPT ![h].answer = answer]
              /\ moved' = [moved EXCEPT ![job[h].id] = IF pays THEN @ + 1 ELSE @]
        BY <3>1 DEF CallProvider
      <4>2. job[h].id \in Ids /\ pc' = [pc EXCEPT ![h] = "answered"] /\ UNCHANGED <<closed, faults>>
        BY <3>1 DEF CallProvider, Goto, RefundTypeOK
      <4>3. moved' \in [Ids -> Nat]
        BY <4>1, <4>2 DEF RefundTypeOK
      <4>4. job' \in [Handlers -> [id : Ids \cup {NoId}, answer : Answers \cup {"none"}]]
            /\ \A g \in Handlers : job'[g].id = job[g].id /\ (g # h => job'[g] = job[g])
            /\ job'[h].answer = answer
        BY <4>1 DEF RefundTypeOK
      <4> QED
        BY <2>1, <4>2, <4>3, <4>4 DEF RefundTypeOK
    <3>2. CASE Finalize(h) \/ Abandon(h)
      <4>1. closed' \subseteq Ids /\ faults' \in Nat /\ UNCHANGED moved /\ Finish(h)
        BY <3>2 DEF Finalize, Close, Abandon, RefundTypeOK
      <4> QED
        BY <2>1, <4>1 DEF Finish, NoJob, RefundTypeOK
    <3>3. ASSUME NEW r \in Ids, Begin(h, r) PROVE RefundTypeOK'
      <4>1. faults' \in Nat /\ UNCHANGED <<closed, moved>>
        BY <3>3 DEF Begin, RefundTypeOK
      <4> QED
        BY <2>1, <3>3, <4>1 DEF Begin, Goto, NoJob, RefundTypeOK
    <3> QED
      BY <1>3, <3>1, <3>2, <3>3
  <2> QED
    BY <2>1, <2>2, KeptShrinks DEF Known, Kept
<1>4. CASE UNCHANGED vars
  <2>1. RefundTypeOK'
    BY <1>4 DEF vars, RefundTypeOK
  <2> QED
    BY <1>4, <2>1, KeptShrinks DEF vars, Known, Kept
<1> QED
  BY <1>1, <1>2, <1>3, <1>4, ReserveNewKeeps DEF Next, HandlerStep

\* The types of Refunds' variables.
THEOREM RefundTypeCorrect == Spec => []RefundTypeOK
<1>1. ReservedInv => RefundTypeOK
  BY DEF ReservedInv
<1> QED
  BY <1>1, InitReserved, StepReserved, PTL DEF Spec

\* Refunds that were never released do not add up to more than was paid, however
\* many requests reserve at once: each reservation is checked under the intent's
\* lock against all that is counted then, and none of them grows later.
THEOREM NewRefundsFit == Spec => []NewWithinPaid
<1>1. ReservedInv => NewWithinPaid
  BY DEF ReservedInv
<1> QED
  BY <1>1, InitReserved, StepReserved, PTL DEF Spec

\* What ReserveRefund's contract says is true as long as no refund was released: the
\* refunds that MCRefundsLimit.cfg shows to exceed the payment were failed once.
THEOREM OnlyReleasedExceed == Spec => [](released = {} => ReservedWithinPaid)
<1>1. ASSUME ReservedInv, released = {} PROVE ReservedWithinPaid
  <2> DEFINE counted == {r \in Ids : row[r] \in {"pending", "succeeded"}}
  <2>1. Kept = counted
    BY <1>1 DEF ReservedInv, RefundTypeOK, Kept, Answers, Released
  <2>2. Reserved = TotalOf(Kept)
    BY <2>1 DEF Reserved
  <2> QED
    BY <1>1, <2>2, ReservedIsNat DEF ReservedWithinPaid
<1>2. ReservedInv => (released = {} => ReservedWithinPaid)
  BY <1>1
<1> QED
  BY <1>2, InitReserved, StepReserved, PTL DEF Spec
==============================================================================
