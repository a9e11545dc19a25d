----------------------------- MODULE PoolProofs -----------------------------
(***************************************************************************)
(* Pool, for every number of items and runners: results in order, no item  *)
(* worked on twice, and that it implements TaskBag.  Then Requests, for    *)
(* every number of tries and whatever a service asks for: what Pool        *)
(* promises is kept by workers that repeat their requests, and how long    *)
(* they wait is bounded from below and above.                              *)
(***************************************************************************)
EXTENDS Requests, FiniteSetTheorems, TLAPS

\* What relates the counter, the runners and the results.
PoolInv ==
  /\ n <= next
  /\ \A r \in Runners :
       /\ i[r] < next
       /\ runner[r] = "returned" <=> i[r] >= length
       /\ runner[r] # "returned" => results[i[r]] = NoResult
       /\ runner[r] = "thrown" => outcome = "rejected"
       /\ outcome = "resolved" => runner[r] = "returned"
  /\ \A r, s \in Runners : i[r] = i[s] => r = s
  /\ \A k \in Index : /\ calls[k] = IF k < next THEN 1 ELSE 0
                      /\ results[k] \in {k, NoResult}
                      /\ results[k] = k => k < next
                      /\ k < next /\ results[k] = NoResult
                           => \E r \in Runners : i[r] = k

Inv == TypeOK /\ PoolInv

LEMMA RunnersType == n \in Nat /\ n > 0 /\ (length > 0 => n <= length)
BY PoolAssumption DEF n

LEMMA InitInv == Init => Inv
<1> SUFFICES ASSUME Init PROVE Inv
  OBVIOUS
<1> USE PoolAssumption, RunnersType
<1>1. TypeOK
  BY DEF Init, TypeOK, Runners, Index, NoResult
<1>2. PoolInv
  BY DEF Init, PoolInv, Runners, Index, NoResult
<1> QED BY <1>1, <1>2 DEF Inv

LEMMA SettleInv == ASSUME Inv, NEW r \in Runners, Settle(r) PROVE Inv'
<1> USE PoolAssumption, RunnersType DEF Inv
<1>0. i[r] \in Index
  BY DEF TypeOK, PoolInv, Settle, Index
<1>1. TypeOK'
  BY <1>0 DEF TypeOK, Settle, Take, Index, NoResult
<1>2. /\ next' = next + 1
      /\ \A s \in Runners : i'[s] = IF s = r THEN next ELSE i[s]
      /\ \A s \in Runners : runner'[s] = IF s # r THEN runner[s]
                                         ELSE IF next < length THEN "busy" ELSE "returned"
      /\ \A k \in Index : results'[k] = IF k = i[r] THEN k ELSE results[k]
      /\ \A k \in Index : calls'[k] = IF k = next THEN calls[k] + 1 ELSE calls[k]
      /\ outcome' = outcome
  BY <1>0 DEF TypeOK, Settle, Take, Index
<1>3. PoolInv'
  <2>1. (n <= next)'
    BY <1>2 DEF PoolInv, TypeOK
  <2>2. ASSUME NEW s \in Runners
        PROVE  /\ i'[s] < next'
               /\ runner'[s] = "returned" <=> i'[s] >= length
               /\ runner'[s] # "returned" => results'[i'[s]] = NoResult
               /\ runner'[s] = "thrown" => outcome' = "rejected"
               /\ outcome' = "resolved" => runner'[s] = "returned"
    <3>1. CASE s = r
      BY <1>0, <1>2, <3>1 DEF PoolInv, TypeOK, Settle, Index, NoResult
    <3>2. CASE s # r
      BY <1>0, <1>2, <3>2 DEF PoolInv, TypeOK, Index
    <3> QED BY <3>1, <3>2
  <2>3. \A s, u \in Runners : i'[s] = i'[u] => s = u
    BY <1>2 DEF PoolInv, TypeOK
  <2>4. ASSUME NEW k \in Index
        PROVE  /\ calls'[k] = IF k < next' THEN 1 ELSE 0
               /\ results'[k] \in {k, NoResult}
               /\ results'[k] = k => k < next'
               /\ k < next' /\ results'[k] = NoResult => \E s \in Runners : i'[s] = k
    <3>1. calls'[k] = IF k < next' THEN 1 ELSE 0
      BY <1>2 DEF PoolInv, TypeOK, Index
    <3>2. results'[k] \in {k, NoResult} /\ (results'[k] = k => k < next')
      BY <1>0, <1>2 DEF PoolInv, TypeOK, Index, NoResult
    <3>3. ASSUME k < next', results'[k] = NoResult PROVE \E s \in Runners : i'[s] = k
      <4>1. k # i[r] /\ results[k] = NoResult
        BY <1>0, <1>2, <3>3 DEF Index, NoResult
      <4>2. CASE k = next
        BY <1>2, <4>2
      <4>3. CASE k < next
        <5> PICK s \in Runners : i[s] = k
          BY <4>1, <4>3 DEF PoolInv
        <5> QED BY <1>2, <4>1
      <4> QED BY <1>2, <3>3, <4>2, <4>3 DEF TypeOK, Index
    <3> QED BY <3>1, <3>2, <3>3
  <2> QED BY <2>1, <2>2, <2>3, <2>4 DEF PoolInv
<1> QED BY <1>1, <1>3

LEMMA ThrowInv == ASSUME Inv, NEW r \in Runners, Throw(r) PROVE Inv'
<1> USE PoolAssumption DEF Inv
<1>1. TypeOK'
  BY DEF TypeOK, Throw
<1>2. PoolInv'
  BY DEF PoolInv, TypeOK, Throw
<1> QED BY <1>1, <1>2

LEMMA ResolveInv == ASSUME Inv, Resolve PROVE Inv'
BY DEF Inv, TypeOK, PoolInv, Resolve

THEOREM Invariance == Spec => []Inv
<1>1. Inv /\ [Next]_vars => Inv'
  <2> SUFFICES ASSUME Inv, [Next]_vars PROVE Inv'
    OBVIOUS
  <2>1. CASE Next
    BY <2>1, SettleInv, ThrowInv, ResolveInv DEF Next
  <2>2. CASE UNCHANGED vars
    BY <2>2 DEF vars, Inv, TypeOK, PoolInv
  <2> QED BY <2>1, <2>2
<1> QED BY <1>1, InitInv, PTL DEF Spec

\* pool returns its results in input order, one worker's call behind each of them.
THEOREM InOrder == Spec => []ResultsInOrder
<1>1. Inv => ResultsInOrder
  <2> SUFFICES ASSUME Inv, outcome = "resolved", NEW k \in Index
               PROVE  results[k] = k /\ calls[k] = 1
    BY DEF ResultsInOrder
  <2> USE PoolAssumption, RunnersType DEF Inv, PoolInv, TypeOK
  <2>1. \A r \in Runners : i[r] >= length
    OBVIOUS
  <2>2. next > length
    <3>1. 0 \in Runners
      BY DEF Runners
    <3> QED BY <2>1, <3>1
  <2>3. results[k] = k
    BY <2>1, <2>2 DEF Index
  <2> QED BY <2>2, <2>3 DEF Index
<1> QED BY <1>1, Invariance, PTL

\* No item is given to two workers, whatever they throw.
THEOREM CalledOnce == Spec => []NeverTwice
<1>1. Inv => NeverTwice
  BY DEF Inv, PoolInv, NeverTwice
<1> QED BY <1>1, Invariance, PTL

-----------------------------------------------------------------------------
(* Pool implements TaskBag.                                                  *)

\* The bag counts as the pool does.
LEMMA SameCardinality == ASSUME NEW S PROVE Bag!Cardinality(S) = Cardinality(S)
BY DEF Bag!Cardinality, Cardinality

\* Busy runners hold at most n items.
LEMMA BusyFits ==
  ASSUME NEW stage, NEW held
  PROVE  LET at == {held[r] : r \in {s \in Runners : stage[s] = "busy"}}
         IN  Cardinality(at) <= n
<1> DEFINE who == {s \in Runners : stage[s] = "busy"}
           at == {held[r] : r \in who}
<1>1. IsFiniteSet(Runners) /\ Cardinality(Runners) = n
  BY RunnersType, FS_Interval DEF Runners
<1>2. IsFiniteSet(who) /\ Cardinality(who) <= n /\ Cardinality(who) \in Nat
  BY <1>1, FS_Subset, FS_CardinalityType
<1>3. [r \in who |-> held[r]] \in Surjection(who, at)
  BY DEF Surjection
<1>4. IsFiniteSet(at) /\ Cardinality(at) <= Cardinality(who)
  BY <1>2, <1>3, FS_Surjection
<1>5. Cardinality(at) \in Nat
  BY <1>4, FS_CardinalityType
<1> QED BY <1>2, <1>4, <1>5, RunnersType

LEMMA SettleFinishes == ASSUME Inv, NEW r \in Runners, Settle(r) PROVE Bag!Finish(i[r])
<1> USE PoolAssumption, RunnersType DEF Inv
<1> DEFINE tasks == IF next < length THEN {next} ELSE {}
<1>0. i[r] \in Index
  BY DEF TypeOK, PoolInv, Settle, Index
<1>1. i[r] \in busy
  BY DEF busy, Settle
<1>2. done' = done \union {i[r]}
  BY <1>0 DEF done, Settle, TypeOK, NoResult, Index
<1>3. tasks \subseteq todo
  BY DEF todo, Index, PoolInv, TypeOK
<1>4. todo' = todo \ tasks
  BY <1>0 DEF todo, Index, PoolInv, TypeOK, Settle, Take
<1>5. busy' = (busy \ {i[r]}) \union tasks
  <2>1. \A s \in Runners : /\ i'[s] = IF s = r THEN next ELSE i[s]
                           /\ runner'[s] = IF s # r THEN runner[s]
                                           ELSE IF next < length THEN "busy" ELSE "returned"
    BY DEF Settle, Take, TypeOK
  <2>2. ASSUME NEW k PROVE k \in busy' <=> k \in (busy \ {i[r]}) \union tasks
    <3>1. k \in busy' <=> \E s \in Runners : runner'[s] = "busy" /\ i'[s] = k
      BY DEF busy
    <3>2. k \in busy <=> \E s \in Runners : runner[s] = "busy" /\ i[s] = k
      BY DEF busy
    <3> QED BY <2>1, <3>1, <3>2 DEF PoolInv, Settle
  <2> QED BY <2>2
<1>6. Cardinality(busy') <= n
  BY BusyFits DEF busy
<1>7. outcome' = outcome
  BY DEF Settle
<1> HIDE DEF tasks
<1>8. Bag!Cardinality((busy \ {i[r]}) \union tasks) <= Limit
  BY <1>5, <1>6, SameCardinality, Zenon DEF Limit
<1>9. Bag!Begin(tasks, busy \ {i[r]})
  BY <1>3, <1>4, <1>5, <1>8, Zenon DEF Bag!Begin
<1> QED BY <1>1, <1>2, <1>3, <1>7, <1>9 DEF Bag!Finish

LEMMA ThrowAbandons == ASSUME Inv, NEW r \in Runners, Throw(r) PROVE Bag!Abandon(i[r])
<1> USE DEF Inv
<1>1. i[r] \in busy
  BY DEF busy, Throw
<1>2. busy' = busy \ {i[r]}
  <2>1. \A s \in Runners : runner'[s] = IF s = r THEN "thrown" ELSE runner[s]
    BY DEF Throw, TypeOK
  <2>2. i' = i
    BY DEF Throw
  <2> QED BY <2>1, <2>2 DEF busy, PoolInv, Throw
<1>3. todo' = todo /\ done' = done
  BY DEF Throw, todo, done
<1> QED BY <1>1, <1>2, <1>3 DEF Bag!Abandon, Throw

\* The runners and their counter keep the promise of TaskBag.
THEOREM Refinement == Spec => ImplementsTaskBag
<1>1. Init => Bag!Init
  <2> SUFFICES ASSUME Init PROVE Bag!Init
    OBVIOUS
  <2> USE PoolAssumption, RunnersType
  <2>1. busy \in SUBSET Tasks
    BY DEF Init, busy, Tasks, Index, Runners
  <2>2. Bag!Cardinality(busy) <= Limit
    BY BusyFits, SameCardinality DEF busy, Limit
  <2>3. todo = Tasks \ busy
    <3>1. ASSUME NEW k \in Index PROVE k \in busy <=> k < n
      <4>1. k \in busy <=> \E r \in Runners : runner[r] = "busy" /\ i[r] = k
        BY DEF busy
      <4>2. \A r \in Runners : i[r] = r /\ (runner[r] = "busy" <=> r < length)
        BY DEF Init
      <4> QED BY <4>1, <4>2 DEF Runners, Index
    <3> QED BY <3>1 DEF Init, todo, Tasks, Index
  <2>4. done = {}
    BY DEF Init, done
  <2>5. outcome = "pending"
    BY DEF Init
  <2> QED BY <2>1, <2>2, <2>3, <2>4, <2>5 DEF Bag!Init
<1>2. Inv /\ [Next]_vars => [Bag!Next]_(Bag!bag)
  <2> SUFFICES ASSUME Inv, [Next]_vars PROVE [Bag!Next]_(Bag!bag)
    OBVIOUS
  <2>1. ASSUME NEW r \in Runners, Settle(r) \/ Throw(r) PROVE Bag!Next
    <3>1. i[r] \in Tasks
      BY <2>1, PoolAssumption DEF Settle, Throw, Inv, TypeOK, PoolInv, Tasks, Index
    <3> QED BY <2>1, <3>1, SettleFinishes, ThrowAbandons DEF Bag!Next
  <2>2. CASE Resolve
    <3>1. done = Tasks
      <4>1. outcome' = "resolved" /\ results' = results /\ Inv'
        BY <2>2, ResolveInv DEF Resolve
      <4>2. \A k \in Index : results[k] = k
        <5>1. 0 \in Runners
          BY RunnersType DEF Runners
        <5> QED BY <2>2, <5>1, PoolAssumption, RunnersType
                DEF Resolve, Inv, PoolInv, TypeOK, Index, NoResult
      <4> QED BY <4>2, PoolAssumption DEF done, Tasks, Index, NoResult
    <3>2. todo' = todo /\ busy' = busy /\ done' = done
      BY <2>2 DEF Resolve, todo, busy, done
    <3> QED BY <2>2, <3>1, <3>2 DEF Bag!Next, Bag!Resolve, Resolve
  <2>3. CASE UNCHANGED vars
    BY <2>3 DEF vars, Bag!bag, todo, busy, done
  <2> QED BY <2>1, <2>2, <2>3 DEF Next
<1> QED BY <1>1, <1>2, Invariance, PTL DEF Spec, ImplementsTaskBag, Bag!Spec

-----------------------------------------------------------------------------
(* Requests.                                                                *)

LEMMA Powers == 2 ^ 0 = 1 /\ 2 ^ 1 = 2 /\ 2 ^ 2 = 4 /\ 2 ^ 3 = 8 /\ 2 ^ 4 = 16 /\ 2 ^ 5 = 32
OBVIOUS

\* The units of backoff before attempt k + 1.
Backed(k) == IF k <= 5 THEN 2 ^ k - 1 ELSE 31 + (k - 5) * MaxBackoff

LEMMA BackedTable ==
  /\ Backed(0) = 0 /\ Backed(1) = 1 /\ Backed(2) = 3
  /\ Backed(3) = 7 /\ Backed(4) = 15 /\ Backed(5) = 31
BY Powers DEF Backed

LEMMA BackoffTable ==
  backoff(1) = 1 /\ backoff(2) = 2 /\ backoff(3) = 4 /\ backoff(4) = 8 /\ backoff(5) = 16
BY Powers DEF backoff

LEMMA BackoffAdds ==
  ASSUME NEW k \in Nat
  PROVE  /\ Backed(k) \in Nat /\ backoff(k + 1) \in 1 .. MaxBackoff
         /\ Backed(k + 1) = Backed(k) + backoff(k + 1)
<1>1. CASE k \in 0 .. 4
  <2>1. k \in {0, 1, 2, 3, 4}
    BY <1>1
  <2> QED BY <2>1, BackedTable, BackoffTable DEF MaxBackoff
<1>2. CASE k = 5
  <2>1. Backed(6) = 47 /\ backoff(6) = 16
    BY DEF Backed, backoff, MaxBackoff
  <2> QED BY <1>2, <2>1, BackedTable DEF MaxBackoff
<1>3. CASE k >= 6
  BY <1>3 DEF Backed, backoff, MaxBackoff
<1> QED BY <1>1, <1>2, <1>3

LEMMA PauseBounds ==
  ASSUME NEW k \in Nat, NEW answer \in Answers
  PROVE  /\ Pause(k + 1, answer) \in Nat
         /\ backoff(k + 1) <= Pause(k + 1, answer)
         /\ Pause(k + 1, answer) <= backoff(k + 1) + MaxWait
<1>1. answer.wait \in Nat
  BY RequestsAssumption DEF Answers
<1>2. Lower(answer.wait, MaxWait) \in 0 .. MaxWait
  BY <1>1 DEF Lower, MaxWait
<1>3. backoff(k + 1) \in Nat
  <2>1. backoff(k + 1) \in 1 .. MaxBackoff
    BY BackoffAdds
  <2> QED BY <2>1 DEF MaxBackoff
<1> QED BY <1>2, <1>3 DEF Pause, MaxWait

\* The sum of what a request has slept, for every number of attempts.
Slept == \A r \in Runners : LET k == call[r].attempt IN
           /\ Backed(k) <= call[r].waited
           /\ call[r].waited <= Backed(k) + k * MaxWait

RequestsInv == RequestsTypeOK /\ Slept

LEMMA RequestsStart == InitRequests => Init /\ RequestsInv
<1> SUFFICES ASSUME InitRequests PROVE Init /\ RequestsInv
  OBVIOUS
<1>1. Init /\ TypeOK
  BY InitInv DEF InitRequests, Inv
<1>2. \A r \in Runners : call[r] = NewCall
  BY DEF InitRequests
<1>3. call \in [Runners -> [attempt : 0 .. tries - 1, asleep : Nat, waited : Nat]]
  BY RequestsAssumption DEF InitRequests, NewCall
<1>4. Slept
  BY <1>2, BackedTable DEF Slept, NewCall, MaxWait
<1> QED BY <1>1, <1>3, <1>4 DEF RequestsInv, RequestsTypeOK

\* Every step of the requests is one of the pool or leaves it alone.
LEMMA StepsOfPool == [NextRequests]_requests => [Next]_vars
BY DEF NextRequests, Runs, Retry, SleepBefore, Wake, Finish, GiveUp, Next, requests

LEMMA RetryInv ==
  ASSUME RequestsInv, NEW r \in Runners, NEW answer \in Answers, Retry(r, answer)
  PROVE  RequestsInv'
<1> DEFINE k == call[r].attempt
           pause == Pause(k + 1, answer)
<1> USE DEF RequestsInv, RequestsTypeOK
<1>1. k \in Nat /\ k + 1 \in 0 .. tries - 1
  BY RequestsAssumption DEF Retry, TriesLeft
<1>2. pause \in Nat /\ backoff(k + 1) <= pause /\ pause <= backoff(k + 1) + MaxWait
  BY <1>1, PauseBounds
<1>3. UNCHANGED vars
  BY DEF Retry, SleepBefore
<1>4. call' = [call EXCEPT ![r] = [attempt |-> k + 1, asleep |-> pause,
                                   waited |-> call[r].waited + pause]]
  BY DEF Retry, SleepBefore
<1> HIDE DEF pause
<1>5. RequestsTypeOK'
  BY <1>1, <1>2, <1>3, <1>4 DEF TypeOK, vars
<1>6. ASSUME NEW s \in Runners
      PROVE  /\ Backed(call'[s].attempt) <= call'[s].waited
             /\ call'[s].waited <= Backed(call'[s].attempt) + call'[s].attempt * MaxWait
  <2>1. CASE s = r
    <3>1. call'[s].attempt = k + 1 /\ call'[s].waited = call[r].waited + pause
      BY <1>4, <2>1
    <3>2. Backed(k) <= call[r].waited /\ call[r].waited <= Backed(k) + k * MaxWait
      BY DEF Slept
    <3>3. Backed(k) \in Nat /\ backoff(k + 1) \in Nat
          /\ Backed(k + 1) = Backed(k) + backoff(k + 1)
      BY <1>1, BackoffAdds DEF MaxBackoff
    <3>4. call[r].waited \in Nat
      OBVIOUS
    <3> HIDE DEF k
    <3> QED BY <1>1, <1>2, <3>1, <3>2, <3>3, <3>4 DEF MaxWait
  <2>2. CASE s # r
    BY <1>4, <2>2 DEF Slept
  <2> QED BY <2>1, <2>2
<1> QED BY <1>5, <1>6 DEF Slept

LEMMA WakeInv == ASSUME RequestsInv, NEW r \in Runners, Wake(r) PROVE RequestsInv'
<1> USE DEF RequestsInv, RequestsTypeOK
<1>1. RequestsTypeOK'
  BY DEF Wake, TypeOK, vars
<1>2. \A s \in Runners : call'[s].attempt = call[s].attempt /\ call'[s].waited = call[s].waited
  BY DEF Wake
<1> QED BY <1>1, <1>2 DEF Slept

LEMMA FinishInv ==
  ASSUME Inv, RequestsInv, NEW r \in Runners, NEW answer \in Answers, Finish(r, answer)
  PROVE  RequestsInv'
<1> USE DEF RequestsInv, RequestsTypeOK
<1>1. TypeOK'
  BY SettleInv DEF Finish, Inv
<1>2. call' = [call EXCEPT ![r] = NewCall]
  BY DEF Finish
<1>3. RequestsTypeOK'
  BY <1>1, <1>2, RequestsAssumption DEF NewCall
<1>4. \A s \in Runners : call'[s] = IF s = r THEN NewCall ELSE call[s]
  BY <1>2
<1>5. ASSUME NEW s \in Runners
      PROVE  /\ Backed(call'[s].attempt) <= call'[s].waited
             /\ call'[s].waited <= Backed(call'[s].attempt) + call'[s].attempt * MaxWait
  <2>1. CASE s = r
    <3>1. call'[s].attempt = 0 /\ call'[s].waited = 0
      BY <1>4, <2>1 DEF NewCall
    <3> QED BY <3>1, BackedTable DEF MaxWait
  <2>2. CASE s # r
    BY <1>4, <2>2 DEF Slept
  <2> QED BY <2>1, <2>2
<1> QED BY <1>3, <1>5 DEF Slept

LEMMA OtherInv ==
  ASSUME Inv, RequestsInv, [Next]_vars, UNCHANGED call
  PROVE  RequestsInv'
<1>1. TypeOK'
  <2>1. CASE Next
    BY <2>1, SettleInv, ThrowInv, ResolveInv DEF Next, Inv
  <2>2. CASE UNCHANGED vars
    BY <2>2 DEF vars, Inv, TypeOK
  <2> QED BY <2>1, <2>2
<1>2. call' = call
  OBVIOUS
<1> QED BY <1>1, <1>2 DEF RequestsInv, RequestsTypeOK, Slept

LEMMA RequestsStep == Inv /\ RequestsInv /\ [NextRequests]_requests => RequestsInv'
<1> SUFFICES ASSUME Inv, RequestsInv, [NextRequests]_requests PROVE RequestsInv'
  OBVIOUS
<1>1. ASSUME NEW r \in Runners, Runs(r) PROVE RequestsInv'
  <2>1. CASE Wake(r)
    BY <2>1, WakeInv
  <2>2. ASSUME NEW answer \in Answers, Retry(r, answer) PROVE RequestsInv'
    BY <2>2, RetryInv
  <2>3. ASSUME NEW answer \in Answers, Finish(r, answer) PROVE RequestsInv'
    BY <2>3, FinishInv
  <2>4. ASSUME NEW answer \in Answers, GiveUp(r, answer) PROVE RequestsInv'
    BY <2>4, OtherInv DEF GiveUp, Next
  <2> QED BY <1>1, <2>1, <2>2, <2>3, <2>4 DEF Runs
<1>2. CASE Resolve /\ UNCHANGED call
  BY <1>2, OtherInv DEF Next
<1>3. CASE UNCHANGED requests
  BY <1>3, OtherInv DEF requests
<1> QED BY <1>1, <1>2, <1>3 DEF NextRequests

LEMMA RequestsPool == SpecRequests => Spec
BY RequestsStart, StepsOfPool, PTL DEF SpecRequests, Spec

LEMMA RequestsInvariance == SpecRequests => []RequestsInv
<1>1. SpecRequests => []Inv
  BY RequestsPool, Invariance, PTL
<1> QED BY <1>1, RequestsStart, RequestsStep, PTL DEF SpecRequests

-----------------------------------------------------------------------------
\* Attempts stay below tries, and the pool keeps its types.
THEOREM RequestsTyping == SpecRequests => []RequestsTypeOK
BY RequestsInvariance, PTL DEF RequestsInv

\* fetchRetry: the backoff is kept and what a service asks for adds at most 15 s for
\* each of its answers, for every number of tries and every Retry-After.
THEOREM WaitsAreBounded == SpecRequests => []NeverStalls
<1>1. RequestsInv => NeverStalls
  <2> SUFFICES ASSUME RequestsInv, NEW r \in Runners
               PROVE  LET k == call[r].attempt IN
                 /\ call[r].waited >= (IF k <= 5 THEN 2 ^ k - 1 ELSE 31 + (k - 5) * MaxBackoff)
                 /\ call[r].waited <= k * (MaxWait + MaxBackoff)
                 /\ k <= 5 => call[r].waited <= k * MaxWait + 2 ^ k - 1
    BY DEF NeverStalls
  <2> DEFINE k == call[r].attempt
  <2>1. k \in Nat /\ call[r].waited \in Nat
    BY RequestsAssumption DEF RequestsInv, RequestsTypeOK
  <2>2. Backed(k) <= call[r].waited /\ call[r].waited <= Backed(k) + k * MaxWait
    BY DEF RequestsInv, Slept
  <2>3. Backed(k) \in Nat
    BY <2>1, BackoffAdds
  <2>4. Backed(k) <= k * MaxBackoff
    <3> HIDE DEF k
    <3>1. CASE k \in 0 .. 5
      <4>1. k \in {0, 1, 2, 3, 4, 5}
        BY <3>1
      <4> QED BY <4>1, BackedTable DEF MaxBackoff
    <3>2. CASE k > 5
      BY <2>1, <3>2 DEF Backed, MaxBackoff
    <3> QED BY <2>1, <3>1, <3>2
  <2> HIDE DEF k
  <2>5. call[r].waited <= k * (MaxWait + MaxBackoff)
    BY <2>1, <2>2, <2>3, <2>4 DEF MaxWait, MaxBackoff
  <2>6. k <= 5 => call[r].waited <= k * MaxWait + 2 ^ k - 1
    BY <2>1, <2>2, <2>3 DEF Backed, MaxWait
  <2> QED BY <2>1, <2>2, <2>5, <2>6 DEF Backed, k
<1> QED BY <1>1, RequestsInvariance, PTL

\* The promises of pool hold with workers that repeat their requests.
THEOREM OrderedWithRetries == SpecRequests => []ResultsInOrder
BY RequestsPool, InOrder, PTL

\* No item is given to a second worker while the first one repeats its request.
THEOREM OnceWithRetries == SpecRequests => []NeverTwice
BY RequestsPool, CalledOnce, PTL

\* The requests implement the bag of tasks.
THEOREM BagWithRetries == SpecRequests => ImplementsTaskBag
BY RequestsPool, Refinement, PTL
=============================================================================
