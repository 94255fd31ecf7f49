---- MODULE Policy ----
(***************************************************************************)
(* The reliability policy around a vendor: Policy.run of tooling/policy.py *)
(* composes RetryPolicy, CircuitBreaker, RateLimiter and a timeout.  Each  *)
(* market data adapter has one Policy that its concurrent calls share, the *)
(* retry counter included; a call runs one step per await.                 *)
(*                                                                         *)
(* Time is counted in ticks, as what is left of each wait.  How long a     *)
(* backoff sleeps (it is jittered) is left open.                           *)
(***************************************************************************)
EXTENDS Integers, FiniteSets

CONSTANTS Calls,     \* calls of Policy.run
          Retries,   \* RetryPolicy.retries
          Threshold, \* CircuitBreaker.failure_threshold
          Interval,  \* ticks of 1 / RateLimiter.per_second
          Timeout    \* ticks of Policy.timeout_sec

ASSUME PolicyAssumption ==
  /\ Retries \in Nat \ {0} /\ Threshold \in Nat \ {0}
  /\ Interval \in Nat /\ Timeout \in Nat

VARIABLES attempts,  \* RetryPolicy._attempts
          failures,  \* CircuitBreaker._failures
          open,      \* CircuitBreaker._open
          cooling,   \* what is left of the interval since RateLimiter._last
          stage,     \* where each call is
          left,      \* what is left of each call's sleep or timeout
          tries,     \* history: the attempts of each call
          joined,    \* history: calls begun while each call was running
          met,       \* history: calls that ran while another did
          barred,    \* history: calls begun while the circuit was open
          late,      \* history: vendor calls of each call while the circuit was open
          spacing    \* history: what is left of an interval since the vendor was last called

shared == <<attempts, failures, open, cooling>>
history == <<tries, joined, met, barred, late, spacing>>
vars == <<shared, stage, left, history>>

\* "exhausted": the vendor's retryable error, or the open circuit's, is raised.
\* "failed": an error that is not retried, or what RetryPolicy makes of one that
\* is no DomainError.
Running == {"limiter", "vendor", "backoff"}
Ended == {"ok", "exhausted", "failed"}

InFlight == {c \in Calls : stage[c] \in Running}

Init ==
  /\ attempts = 0
  /\ failures = 0
  /\ open = FALSE
  /\ cooling = 0
  /\ stage = [c \in Calls |-> "idle"]
  /\ left = [c \in Calls |-> 0]
  /\ tries = [c \in Calls |-> 0]
  /\ joined = [c \in Calls |-> 0]
  /\ met = {}
  /\ barred = {}
  /\ late = [c \in Calls |-> 0]
  /\ spacing = 0

Enter(c, s, ticks) ==
  /\ stage' = [stage EXCEPT ![c] = s]
  /\ left' = [left EXCEPT ![c] = ticks]

----------------------------------------------------------------------------
\* Slips, one for each property that must catch it.

RaiseOrBackOffOnceMore(c, n) == Enter(c, IF n > Retries THEN "exhausted" ELSE "backoff", 0)

RaiseOrBackOffOnceLess(c, n) == Enter(c, IF n + 1 >= Retries THEN "exhausted" ELSE "backoff", 0)

CountsDown == failures' = failures - 1 /\ UNCHANGED open

----------------------------------------------------------------------------
\* RetryPolicy.run after a retryable error: n is the shared counter.
RaiseOrBackOff(c, n) == Enter(c, IF n >= Retries THEN "exhausted" ELSE "backoff", 0)

\* The vendor is called ...
CallVendor(c) ==
  /\ Enter(c, "vendor", Timeout)
  /\ spacing' = Interval
  /\ late' = [late EXCEPT ![c] = IF open THEN @ + 1 ELSE @]

\* Slip: the limiter does not remember the calls it let through at once.
CoolsAfterSleepOnly(slept) == cooling' = IF slept THEN Interval ELSE cooling

\* ... and the limiter remembers when, whether or not it slept.
Cools(slept) == cooling' = Interval

\* Slip: what the open circuit sheds is not counted as an attempt.
AttemptUncounted(c, n) ==
  IF open
    THEN Enter(c, "backoff", 0) /\ UNCHANGED <<shared, tries, late, spacing>>
    ELSE /\ attempts' = n
         /\ tries' = [tries EXCEPT ![c] = @ + 1]
         /\ UNCHANGED <<failures, open>>
         /\ \/ cooling > 0 /\ Enter(c, "limiter", cooling) /\ UNCHANGED <<cooling, late, spacing>>
            \/ cooling = 0 /\ CallVendor(c) /\ Cools(FALSE)

\* Slip: the open circuit lets a first attempt through as a probe.
AttemptAsProbe(c, n) ==
  /\ attempts' = n
  /\ tries' = [tries EXCEPT ![c] = @ + 1]
  /\ UNCHANGED <<failures, open>>
  /\ \/ open /\ n > 1 /\ RaiseOrBackOff(c, n) /\ UNCHANGED <<cooling, late, spacing>>
     \/ ~(open /\ n > 1) /\ cooling > 0 /\ Enter(c, "limiter", cooling) /\ UNCHANGED <<cooling, late, spacing>>
     \/ ~(open /\ n > 1) /\ cooling = 0 /\ CallVendor(c) /\ Cools(FALSE)

\* An attempt up to its first await: through the breaker, then the limiter.
\* What the open circuit raises is retried like any other retryable error.
Attempt(c, n) ==
  /\ attempts' = n
  /\ tries' = [tries EXCEPT ![c] = @ + 1]
  /\ UNCHANGED <<failures, open>>
  /\ \/ open /\ RaiseOrBackOff(c, n) /\ UNCHANGED <<cooling, late, spacing>>
     \/ ~open /\ cooling > 0 /\ Enter(c, "limiter", cooling) /\ UNCHANGED <<cooling, late, spacing>>
     \/ ~open /\ cooling = 0 /\ CallVendor(c) /\ Cools(FALSE)

\* Policy.run: the counter starts anew, whoever else is counting on it.
Begin(c) ==
  /\ stage[c] = "idle"
  /\ Attempt(c, 1)
  /\ joined' = [d \in Calls |-> IF d \in InFlight THEN joined[d] + 1 ELSE joined[d]]
  /\ met' = IF InFlight = {} THEN met ELSE met \cup InFlight \cup {c}
  /\ barred' = IF open THEN barred \cup {c} ELSE barred

Retry(c) ==
  /\ stage[c] = "backoff"
  /\ Attempt(c, attempts + 1)
  /\ UNCHANGED <<joined, met, barred>>

\* The limiter's sleep is over; the breaker is not asked again.
Acquire(c) ==
  /\ stage[c] = "limiter"
  /\ left[c] = 0
  /\ CallVendor(c)
  /\ Cools(TRUE)
  /\ UNCHANGED <<attempts, failures, open, tries, joined, met, barred>>

\* CircuitBreaker.run after an answer, and after a DomainError.
Succeeds == failures' = 0 /\ UNCHANGED open

Counts ==
  /\ failures' = failures + 1
  /\ open' = (open \/ failures + 1 >= Threshold)

VendorAnswers(c) ==
  /\ stage[c] = "vendor"
  /\ Succeeds
  /\ Enter(c, "ok", 0)
  /\ UNCHANGED <<attempts, cooling, history>>

\* A DomainError that is retryable ...
VendorFails(c) ==
  /\ stage[c] = "vendor"
  /\ Counts
  /\ RaiseOrBackOff(c, attempts)
  /\ UNCHANGED <<attempts, cooling, history>>

\* ... and one that is not.
VendorRefuses(c) ==
  /\ stage[c] = "vendor"
  /\ Counts
  /\ Enter(c, "failed", 0)
  /\ UNCHANGED <<attempts, cooling, history>>

\* Anything else, the timeout of wait_for included: the breaker does not count
\* it and RetryPolicy does not retry it.
FailsUnexpectedly(c) ==
  /\ stage[c] = "vendor"
  /\ Enter(c, "failed", 0)
  /\ UNCHANGED <<shared, history>>

TimesOut(c) == left[c] = 0 /\ FailsUnexpectedly(c)

Minus(n) == IF n > 0 THEN n - 1 ELSE 0

Tick ==
  /\ cooling > 0 \/ spacing > 0 \/ \E c \in Calls : left[c] > 0
  /\ cooling' = Minus(cooling)
  /\ spacing' = Minus(spacing)
  /\ left' = [c \in Calls |-> Minus(left[c])]
  /\ UNCHANGED <<attempts, failures, open, stage, tries, joined, met, barred, late>>

Next ==
  \/ \E c \in Calls : \/ Begin(c) \/ Retry(c) \/ Acquire(c)
                      \/ VendorAnswers(c) \/ VendorFails(c) \/ VendorRefuses(c) \/ FailsUnexpectedly(c)
  \/ Tick

Spec == Init /\ [][Next]_vars

\* Sleeps end, timeouts fire and time passes; the vendor may never answer.
Fairness ==
  /\ \A c \in Calls : WF_vars(Retry(c)) /\ WF_vars(Acquire(c)) /\ WF_vars(TimesOut(c))
  /\ WF_vars(Tick)

FairSpec == Spec /\ Fairness

----------------------------------------------------------------------------

TypeOK ==
  /\ attempts \in Nat /\ failures \in Nat
  /\ open \in BOOLEAN
  /\ cooling \in 0..Interval /\ spacing \in 0..Interval
  /\ stage \in [Calls -> {"idle"} \cup Running \cup Ended]
  /\ left \in [Calls -> Nat]
  /\ tries \in [Calls -> Nat]
  /\ joined \in [Calls -> Nat]
  /\ met \subseteq Calls /\ barred \subseteq Calls
  /\ late \in [Calls -> Nat]

\* What the shared counter does guarantee: each call that begins while another
\* runs can give it at most Retries - 1 attempts more, so none goes on for ever.
AttemptsBounded ==
  \A c \in Calls : tries[c] <= Retries + (Retries - 1) * joined[c]

\* A call that never shares the policy with another makes all its attempts
\* before it gives up on retryable errors.
AloneRetriesFully ==
  \A c \in Calls \ met : stage[c] = "exhausted" => tries[c] = Retries

\* ... and keeps its distance from the calls before it.
AloneKeepsRate ==
  [][\A c \in Calls : stage'[c] = "vendor" /\ stage[c] # "vendor" /\ c \notin met' => spacing = 0]_vars

\* However calls share the counter, each ends.
CallsEnd == \A c \in Calls : stage[c] \in Running ~> stage[c] \in Ended

\* CircuitBreaker.run: a call begun while the circuit is open never reaches the
\* vendor.  One that passed the breaker before the circuit opened may still
\* reach it, once, after its wait at the limiter: its retries are shed.
OpenCircuitSheds == \A c \in Calls : late[c] <= IF c \in barred THEN 0 ELSE 1

\* A call makes at most Retries attempts.
AttemptsAreCapped == \A c \in Calls : tries[c] <= Retries

====
