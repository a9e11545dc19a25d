------------------------------- MODULE TaskBag -------------------------------
(***************************************************************************)
(* What the pool of src/src/util.js promises its callers, the two passes   *)
(* of a scan: every task is worked on at most once, never more than Limit  *)
(* of them at a time, and the pool resolves only when all are done.        *)
(***************************************************************************)
EXTENDS Integers, FiniteSets

CONSTANTS Tasks, Limit

VARIABLES todo,     \* tasks nobody has begun
          busy,     \* tasks being worked on
          done,     \* tasks with a result
          outcome   \* what the pool's promise has become

bag == <<todo, busy, done, outcome>>

\* The workers go on with tasks that nobody has begun.
Begin(tasks, others) == /\ tasks \subseteq todo
                        /\ busy' = others \union tasks
                        /\ todo' = todo \ tasks
                        /\ Cardinality(others \union tasks) <= Limit

Finish(t) == /\ t \in busy
             /\ done' = done \union {t}
             /\ \E tasks \in SUBSET todo : Begin(tasks, busy \ {t})
             /\ UNCHANGED outcome

\* A worker that throws is lost, and its task with it.
Abandon(t) == /\ t \in busy
              /\ busy' = busy \ {t}
              /\ outcome' = IF outcome = "pending" THEN "rejected" ELSE outcome
              /\ UNCHANGED <<todo, done>>

Resolve == /\ outcome = "pending" /\ done = Tasks
           /\ outcome' = "resolved"
           /\ UNCHANGED <<todo, busy, done>>

Init == /\ busy \in SUBSET Tasks /\ Cardinality(busy) <= Limit
        /\ todo = Tasks \ busy /\ done = {} /\ outcome = "pending"

Next == (\E t \in Tasks : Finish(t) \/ Abandon(t)) \/ Resolve

Spec == Init /\ [][Next]_bag
=============================================================================
