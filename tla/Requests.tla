------------------------------ MODULE Requests ------------------------------
(***************************************************************************)
(* fetchRetry of src/src/util.js under the workers of pool: what a worker  *)
(* awaits is a request that is repeated when it fails for the moment.  A   *)
(* worker is one request here; a scan's worker makes several in a row.     *)
(* Times are in units of 500 ms, the default baseMs.                       *)
(***************************************************************************)
EXTENDS Pool

CONSTANTS tries,   \* attempts of a request
          Waits    \* what Retry-After or x-ratelimit-reset may ask for; 0: neither is there

ASSUME RequestsAssumption == tries \in Nat \ {0} /\ Waits \subseteq Nat

VARIABLE call      \* the request of every runner

requests == <<vars, call>>

MaxBackoff == 16      \* 8000 ms
MaxWait == 30         \* 15000 ms

Lower(x, y) == IF x <= y THEN x ELSE y

\* backoff(baseMs, attempt) before attempt number attempt, counted from 0: doubled each
\* time, up to the maximum, which the fifth reaches.
backoff(attempt) == IF attempt <= 5 THEN 2 ^ (attempt - 1) ELSE MaxBackoff

\* A response or, "lost", an exception of fetch; wait is what retryAfterMs makes of it.
Answers == {[kind |-> k, wait |-> 0] : k \in {"served", "refused", "lost"}}
           \union {[kind |-> "busy", wait |-> w] : w \in Waits}

\* 429, 5xx and exceptions.  Every other 4xx is an answer, a rate limit's 403 as well.
Transient(answer) == answer.kind \in {"busy", "lost"}

\* asleep: how long the runner sleeps before its next attempt; waited (history): how
\* long it has slept since it took its item.
NewCall == [attempt |-> 0, asleep |-> 0, waited |-> 0]

InitRequests == Init /\ call = [r \in Runners |-> NewCall]

Asks(r) == runner[r] = "busy" /\ call[r].asleep = 0

TriesLeft(r) == call[r].attempt < tries - 1

\* Mutant: the service is believed without a limit.
Trusting(attempt, answer) == backoff(attempt) + answer.wait

\* The sleep after the answer and the one before the next attempt.
Pause(attempt, answer) == backoff(attempt) + Lower(answer.wait, MaxWait)

SleepBefore(r, attempt, pause) ==
  /\ call' = [call EXCEPT ![r] = [attempt |-> attempt, asleep |-> pause,
                                  waited |-> @.waited + pause]]
  /\ UNCHANGED vars

\* Mutant: the counter starts again.
StartOver(r, answer) ==
  /\ Asks(r) /\ Transient(answer) /\ TriesLeft(r)
  /\ call' = [call EXCEPT ![r] = [attempt |-> 1, asleep |-> 1, waited |-> 1]]
  /\ UNCHANGED vars

Retry(r, answer) ==
  /\ Asks(r) /\ Transient(answer) /\ TriesLeft(r)
  /\ LET attempt == call[r].attempt + 1 IN SleepBefore(r, attempt, Pause(attempt, answer))

Wake(r) ==
  /\ runner[r] = "busy" /\ call[r].asleep > 0
  /\ call' = [call EXCEPT ![r].asleep = 0]
  /\ UNCHANGED vars

\* The worker makes its result of the answer, a 404 or the last failure included, and
\* its runner goes on to the next item, with a request of its own.
Finish(r, answer) ==
  /\ Asks(r) /\ (Transient(answer) => ~TriesLeft(r))
  /\ Settle(r)
  /\ call' = [call EXCEPT ![r] = NewCall]

\* Or the worker throws: what it is given at last is not what it asked for.
GiveUp(r, answer) ==
  /\ Asks(r) /\ answer.kind # "served" /\ (Transient(answer) => ~TriesLeft(r))
  /\ Throw(r)
  /\ UNCHANGED call

Runs(r) == Wake(r) \/ \E answer \in Answers :
             Retry(r, answer) \/ Finish(r, answer) \/ GiveUp(r, answer)

NextRequests == (\E r \in Runners : Runs(r)) \/ (Resolve /\ UNCHANGED call)

SpecRequests == InitRequests /\ [][NextRequests]_requests

\* Every attempt is answered or fails (the timeouts of fetch), timers fire.
FairRequests == /\ SpecRequests
                /\ \A r \in Runners : WF_requests(Runs(r))
                /\ WF_requests(Resolve /\ UNCHANGED call)

-----------------------------------------------------------------------------
\* The type invariant: Pool's and that of the requests.
RequestsTypeOK ==
  /\ TypeOK
  /\ call \in [Runners -> [attempt : 0 .. tries - 1, asleep : Nat, waited : Nat]]

\* README: "retry with exponential backoff on 429/5xx and honour Retry-After".  Before
\* attempt k + 1 a request has slept 2^k - 1 units of backoff at least, and whatever
\* the service asks for in its answers, at most 15 seconds more for each of them: a
\* rate limit that lasts an hour cannot stall the run.
NeverStalls ==
  \A r \in Runners : LET k == call[r].attempt IN
    /\ call[r].waited >= (IF k <= 5 THEN 2 ^ k - 1 ELSE 31 + (k - 5) * MaxBackoff)
    /\ call[r].waited <= k * (MaxWait + MaxBackoff)
    /\ k <= 5 => call[r].waited <= k * MaxWait + 2 ^ k - 1

\* The runners implement Pool with the fairness it assumes of its workers: a request
\* that is repeated still ends, in an answer or in a throw.
Workers == INSTANCE Pool WITH length <- length, limit <- limit, Throws <- Throws,
             next <- next, runner <- runner, i <- i, results <- results,
             outcome <- outcome, calls <- calls
ImplementsFairPool == Workers!FairSpec
=============================================================================
