---------------------------- MODULE SingleAnswer -----------------------------
(***************************************************************************)
(* What an Idempotency-Key promises the clients that use it: the first use *)
(* binds the key to a request body, the operation is executed under that   *)
(* body only and never again once it has an answer, the answer is that of  *)
(* one of the executions, and whoever asks again is given the same one.    *)
(*                                                                         *)
(* Nothing is promised about executions before the answer: there may be    *)
(* several, even at a time.                                                *)
(***************************************************************************)
EXTENDS Naturals

CONSTANTS Keys, Bodies

VARIABLES bodies,  \* the bodies that the operation was executed under
          begun,   \* executions begun, each numbered by this count
          answer,  \* the execution whose answer is the answer, 0 if there is none yet
          given    \* the answers that clients were given

answerVars == <<bodies, begun, answer, given>>

AnswerInit ==
    /\ bodies = [k \in Keys |-> {}]
    /\ begun = [k \in Keys |-> 0]
    /\ answer = [k \in Keys |-> 0]
    /\ given = [k \in Keys |-> {}]

Execute(k, b) ==
    /\ bodies[k] \subseteq {b} /\ answer[k] = 0
    /\ bodies' = [bodies EXCEPT ![k] = {b}]
    /\ begun' = [begun EXCEPT ![k] = @ + 1]
    /\ UNCHANGED <<answer, given>>

Decide(k, execution) ==
    /\ answer[k] = 0
    /\ answer' = [answer EXCEPT ![k] = execution]
    /\ given' = [given EXCEPT ![k] = @ \cup {execution}]
    /\ UNCHANGED <<bodies, begun>>

Repeat(k) ==
    /\ answer[k] # 0
    /\ given' = [given EXCEPT ![k] = @ \cup {answer[k]}]
    /\ UNCHANGED <<bodies, begun, answer>>

AnswerNext ==
    \E k \in Keys :
        \/ \E b \in Bodies : Execute(k, b)
        \/ \E execution \in 1..begun[k] : Decide(k, execution)
        \/ Repeat(k)

AnswerSpec == AnswerInit /\ [][AnswerNext]_answerVars
==============================================================================
