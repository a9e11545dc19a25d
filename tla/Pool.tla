-------------------------------- MODULE Pool --------------------------------
(***************************************************************************)
(* pool(items, limit, worker) of src/src/util.js: n runners share the      *)
(* counter next.  A runner takes the next index, awaits the worker on that *)
(* item, stores the result and takes another one.  Between two awaits      *)
(* nothing else runs, so that storing and taking are one step.             *)
(***************************************************************************)
EXTENDS Integers, FiniteSets

CONSTANTS length,   \* items.length
          limit,    \* the concurrency asked for
          Throws    \* may a worker throw?

ASSUME PoolAssumption == length \in Nat /\ limit \in Nat /\ Throws \in BOOLEAN

Index == 0 .. length - 1

\* Math.max(1, Math.min(limit, items.length || 1))
n == IF length = 0 \/ limit <= 1 THEN 1 ELSE IF limit < length THEN limit ELSE length
Runners == 0 .. n - 1

VARIABLES next,     \* the shared counter
          runner,   \* what every runner is doing: "busy", "returned" or "thrown"
          i,        \* the index every runner holds
          results,
          outcome,  \* the promise pool returns
          calls     \* history: how often the worker was called on every item

vars == <<next, runner, i, results, outcome, calls>>

NoResult == -1

\* Array.from starts the runners one after the other; each runs to its first await.
Init ==
  /\ next = n
  /\ i = [r \in Runners |-> r]
  /\ runner = [r \in Runners |-> IF r < length THEN "busy" ELSE "returned"]
  /\ results = [k \in Index |-> NoResult]
  /\ outcome = "pending"
  /\ calls = [k \in Index |-> IF k < n THEN 1 ELSE 0]

\* Mutant: the index is claimed when its item is done.
ClaimLate(r) ==
  /\ next' = next
  /\ i' = [i EXCEPT ![r] = next]
  /\ runner' = [runner EXCEPT ![r] = IF next < length THEN "busy" ELSE "returned"]
  /\ calls' = IF next < length THEN [calls EXCEPT ![next] = @ + 1] ELSE calls

\* The runner's loop from its await to the next one.
Take(r) ==
  /\ next' = next + 1
  /\ i' = [i EXCEPT ![r] = next]
  /\ runner' = [runner EXCEPT ![r] = IF next < length THEN "busy" ELSE "returned"]
  /\ calls' = IF next < length THEN [calls EXCEPT ![next] = @ + 1] ELSE calls

\* Mutant: the index is read from the shared counter after the await.
SettleAtCounter(r) ==
  /\ runner[r] = "busy"
  /\ results' = IF next - 1 \in Index THEN [results EXCEPT ![next - 1] = i[r]] ELSE results
  /\ Take(r)
  /\ UNCHANGED outcome

\* Mutant: the worker is given the item at the counter.
SettleOfNext(r) ==
  /\ runner[r] = "busy"
  /\ results' = [results EXCEPT ![i[r]] = next]
  /\ Take(r)
  /\ UNCHANGED outcome

\* The worker's promise resolves with the result for its item.
Settle(r) ==
  /\ runner[r] = "busy"
  /\ results' = [results EXCEPT ![i[r]] = i[r]]
  /\ Take(r)
  /\ UNCHANGED outcome

\* Mutant: nobody listens to a runner that throws.
ThrowUnheard(r) ==
  /\ Throws /\ runner[r] = "busy"
  /\ runner' = [runner EXCEPT ![r] = "thrown"]
  /\ UNCHANGED <<next, i, results, outcome, calls>>

\* It rejects: Promise.all rejects at once, the other runners go on.
Throw(r) ==
  /\ Throws /\ runner[r] = "busy"
  /\ runner' = [runner EXCEPT ![r] = "thrown"]
  /\ outcome' = IF outcome = "pending" THEN "rejected" ELSE outcome
  /\ UNCHANGED <<next, i, results, calls>>

\* Mutant: the pool returns when one runner has run out of items.
ResolveEarly ==
  /\ outcome = "pending"
  /\ \E r \in Runners : runner[r] = "returned"
  /\ outcome' = "resolved"
  /\ UNCHANGED <<next, runner, i, results, calls>>

\* Promise.all: every runner has returned.
Resolve ==
  /\ outcome = "pending"
  /\ \A r \in Runners : runner[r] = "returned"
  /\ outcome' = "resolved"
  /\ UNCHANGED <<next, runner, i, results, calls>>

Next == (\E r \in Runners : Settle(r) \/ Throw(r)) \/ Resolve

Spec == Init /\ [][Next]_vars

\* A worker that is awaited settles: every request it makes is answered or fails.
Fairness == (\A r \in Runners : WF_vars(Settle(r) \/ Throw(r))) /\ WF_vars(Resolve)
FairSpec == Spec /\ Fairness

-----------------------------------------------------------------------------
TypeOK ==
  /\ next \in Nat
  /\ runner \in [Runners -> {"busy", "returned", "thrown"}]
  /\ i \in [Runners -> Nat]
  /\ results \in [Index -> Index \union {NoResult}]
  /\ outcome \in {"pending", "resolved", "rejected"}
  /\ calls \in [Index -> Nat]

\* util.js: "preserving input order in results".  When the pool resolves, every item
\* was worked on exactly once and its result is at its own place.
ResultsInOrder ==
  outcome = "resolved" => \A k \in Index : results[k] = k /\ calls[k] = 1

\* Whatever is thrown, no item is worked on twice: in a scan a second worker on a pin
\* would compare and record it again.
NeverTwice == \A k \in Index : calls[k] <= 1

\* The pool implements the bag of tasks.
todo == {k \in Index : calls[k] = 0}
busy == {i[r] : r \in {s \in Runners : runner[s] = "busy"}}
done == {k \in Index : results[k] # NoResult}
Tasks == Index
Limit == n
Bag == INSTANCE TaskBag WITH Tasks <- Tasks, Limit <- Limit, todo <- todo, busy <- busy,
                             done <- done, outcome <- outcome
ImplementsTaskBag == Bag!Spec

\* The pool's promise settles, and resolves when no worker throws.
PoolSettles == <>(outcome # "pending")
=============================================================================
