---- MODULE Policy_proofs ----
(***************************************************************************)
(* What calls that share one policy may rely on, for any number of calls,  *)
(* retries, any threshold and any waits: their retries are bounded, an     *)
(* open circuit sheds, and a call alone retries in full and keeps its rate.*)
(***************************************************************************)
EXTENDS Policy, TLAPS

\* How many attempts a call may have behind it: the shared counter says how
\* many since somebody last reset it, and each reset forgot at most Retries - 1.
Forgotten(c) == (Retries - 1) * joined[c]

CallInv(c) ==
  /\ stage[c] = "idle" => tries[c] = 0 /\ joined[c] = 0
  /\ c \in InFlight => attempts >= 1 /\ tries[c] <= attempts + Forgotten(c)
  /\ stage[c] = "backoff" => tries[c] <= Retries - 1 + Forgotten(c)
  /\ tries[c] <= Retries + Forgotten(c)

PolicyInv == TypeOK /\ \A c \in Calls : CallInv(c)

----------------------------------------------------------------------------

LEMMA ForgottenGrows ==
  ASSUME NEW j \in Nat
  PROVE  /\ (Retries - 1) * j \in Nat
         /\ (Retries - 1) * (j + 1) = (Retries - 1) * j + (Retries - 1)
<1> DEFINE more == Retries - 1
<1>1. more \in Nat
  BY PolicyAssumption
<1> HIDE DEF more
<1>2. more * j \in Nat /\ more * (j + 1) = more * j + more
  BY <1>1
<1>. QED BY <1>2 DEF more

LEMMA InitPolicy == Init => PolicyInv
<1> SUFFICES ASSUME Init PROVE PolicyInv
  OBVIOUS
<1>1. TypeOK
  <2>1. 0 \in 0..Interval /\ 0 \in Nat
    BY PolicyAssumption
  <2>2. /\ stage \in [Calls -> {"idle"} \cup Running \cup Ended]
        /\ left \in [Calls -> Nat] /\ tries \in [Calls -> Nat]
        /\ joined \in [Calls -> Nat] /\ late \in [Calls -> Nat]
    BY <2>1 DEF Init
  <2>. QED BY <2>1, <2>2 DEF Init, TypeOK
<1>2. ASSUME NEW c \in Calls PROVE CallInv(c)
  <2>1. stage[c] = "idle" /\ tries[c] = 0 /\ joined[c] = 0 /\ Forgotten(c) \in Nat
    BY ForgottenGrows DEF Init, Forgotten
  <2>. QED BY <2>1, PolicyAssumption DEF CallInv, InFlight, Running
<1>. QED BY <1>1, <1>2 DEF PolicyInv

\* What a call's step puts in stage and left.
LEMMA EnterTyped ==
  ASSUME TypeOK, NEW c \in Calls, NEW s \in Running \cup Ended, NEW ticks \in Nat, Enter(c, s, ticks)
  PROVE  /\ stage' \in [Calls -> {"idle"} \cup Running \cup Ended]
         /\ left' \in [Calls -> Nat]
         /\ stage'[c] = s
         /\ \A d \in Calls \ {c} : stage'[d] = stage[d]
  BY DEF TypeOK, Enter

\* An attempt of c leaves c where its n attempts allow it to be.
LEMMA AttemptStep ==
  ASSUME TypeOK, NEW c \in Calls, NEW n \in Nat, Attempt(c, n)
  PROVE  /\ attempts' = n
         /\ tries' = [tries EXCEPT ![c] = @ + 1]
         /\ failures' = failures /\ open' = open
         /\ stage' \in [Calls -> {"idle"} \cup Running \cup Ended]
         /\ left' \in [Calls -> Nat]
         /\ cooling' \in 0..Interval /\ spacing' \in 0..Interval
         /\ late' \in [Calls -> Nat]
         /\ stage'[c] # "idle"
         /\ stage'[c] = "backoff" => n < Retries
         /\ \A d \in Calls \ {c} : stage'[d] = stage[d]
<1> USE PolicyAssumption
<1>1. CASE open /\ RaiseOrBackOff(c, n) /\ UNCHANGED <<cooling, late, spacing>>
  <2> DEFINE s == IF n >= Retries THEN "exhausted" ELSE "backoff"
  <2>1. Enter(c, s, 0) /\ s \in Running \cup Ended
    BY <1>1 DEF RaiseOrBackOff, Running, Ended
  <2>. QED BY <1>1, <2>1, EnterTyped DEF Attempt, TypeOK
<1>2. CASE ~open /\ cooling > 0 /\ Enter(c, "limiter", cooling) /\ UNCHANGED <<cooling, late, spacing>>
  <2>1. cooling \in Nat /\ "limiter" \in Running \cup Ended
    BY DEF TypeOK, Running
  <2>. QED BY <1>2, <2>1, EnterTyped DEF Attempt, TypeOK
<1>3. CASE ~open /\ cooling = 0 /\ CallVendor(c) /\ Cools(FALSE)
  <2>1. Enter(c, "vendor", Timeout) /\ "vendor" \in Running \cup Ended
    BY <1>3 DEF CallVendor, Running
  <2>2. late' \in [Calls -> Nat] /\ cooling' = Interval /\ spacing' = Interval
    BY <1>3 DEF CallVendor, Cools, TypeOK
  <2>3. /\ stage' \in [Calls -> {"idle"} \cup Running \cup Ended] /\ left' \in [Calls -> Nat]
        /\ stage'[c] = "vendor" /\ \A d \in Calls \ {c} : stage'[d] = stage[d]
    BY <2>1, EnterTyped
  <2>4. Interval \in 0..Interval
    OBVIOUS
  <2>. QED BY <2>2, <2>3, <2>4 DEF Attempt
<1>. QED BY <1>1, <1>2, <1>3 DEF Attempt

\* A step that begins no attempt keeps the invariant if whoever it sends to
\* back off still had retries.
LEMMA NoAttemptKeeps ==
  ASSUME PolicyInv, NEW c \in Calls, TypeOK',
         UNCHANGED <<attempts, tries, joined>>,
         stage[c] \in Running, stage'[c] # "idle",
         stage'[c] = "backoff" => attempts < Retries,
         \A d \in Calls \ {c} : stage'[d] = stage[d]
  PROVE  PolicyInv'
<1>1. ASSUME NEW d \in Calls PROVE CallInv(d)'
  <2>1. /\ CallInv(d) /\ Forgotten(d)' = Forgotten(d) /\ Forgotten(d) \in Nat
        /\ attempts \in Nat /\ tries[d] \in Nat
    BY ForgottenGrows DEF PolicyInv, TypeOK, Forgotten
  <2>2. CASE d # c
    BY <2>1, <2>2 DEF CallInv, InFlight
  <2>3. CASE d = c
    <3>1. attempts >= 1 /\ tries[d] <= attempts + Forgotten(d)
      BY <2>1, <2>3 DEF CallInv, InFlight
    <3>. QED BY <2>1, <2>3, <3>1, PolicyAssumption DEF CallInv, InFlight
  <2>. QED BY <2>2, <2>3
<1>. QED BY <1>1 DEF PolicyInv

LEMMA BeginKeeps ==
  ASSUME PolicyInv, NEW c \in Calls, Begin(c)
  PROVE  PolicyInv'
<1> USE DEF PolicyInv
<1>1. /\ attempts' = 1 /\ tries' = [tries EXCEPT ![c] = @ + 1]
      /\ failures' = failures /\ open' = open
      /\ stage' \in [Calls -> {"idle"} \cup Running \cup Ended] /\ left' \in [Calls -> Nat]
      /\ cooling' \in 0..Interval /\ spacing' \in 0..Interval /\ late' \in [Calls -> Nat]
      /\ stage'[c] # "idle" /\ (stage'[c] = "backoff" => 1 < Retries)
      /\ \A d \in Calls \ {c} : stage'[d] = stage[d]
  BY AttemptStep DEF Begin
<1>2. joined' = [d \in Calls |-> IF d \in InFlight THEN joined[d] + 1 ELSE joined[d]]
  BY DEF Begin
<1>3. met' \subseteq Calls /\ barred' \subseteq Calls
  BY DEF Begin, InFlight, TypeOK
<1>4. joined' \in [Calls -> Nat] /\ tries' \in [Calls -> Nat]
  BY <1>1, <1>2 DEF TypeOK
<1>5. TypeOK'
  BY <1>1, <1>3, <1>4 DEF TypeOK
<1>6. ASSUME NEW d \in Calls PROVE CallInv(d)'
  <2>1. /\ CallInv(d) /\ tries[d] \in Nat /\ joined[d] \in Nat /\ Forgotten(d) \in Nat
        /\ Retries \in Nat \ {0}
    BY ForgottenGrows, PolicyAssumption DEF TypeOK, Forgotten
  <2>2. CASE d = c
    <3>1. stage[d] = "idle" /\ d \notin InFlight
      BY <2>2 DEF Begin, InFlight, Running
    <3>2. tries[d] = 0 /\ joined'[d] = joined[d]
      BY <1>2, <2>1, <3>1 DEF CallInv
    <3>3. tries'[d] = 1 /\ Forgotten(d)' = Forgotten(d)
      BY <1>1, <2>2, <3>2 DEF TypeOK, Forgotten
    <3>. QED BY <1>1, <2>1, <2>2, <3>3 DEF CallInv
  <2>3. CASE d # c /\ d \in InFlight
    <3>1. joined'[d] = joined[d] + 1
      BY <1>2, <2>3
    <3>2. Forgotten(d)' = Forgotten(d) + (Retries - 1)
      BY <2>1, <3>1, ForgottenGrows DEF Forgotten
    <3>3. tries'[d] = tries[d] /\ stage'[d] = stage[d] /\ stage[d] # "idle"
      BY <1>1, <2>3 DEF TypeOK, InFlight, Running
    <3>. QED BY <1>1, <2>1, <3>2, <3>3 DEF CallInv
  <2>4. CASE d # c /\ d \notin InFlight
    <3>1. joined'[d] = joined[d]
      BY <1>2, <2>4
    <3>2. tries'[d] = tries[d] /\ stage'[d] = stage[d] /\ Forgotten(d)' = Forgotten(d)
      BY <1>1, <2>4, <3>1 DEF TypeOK, Forgotten
    <3>3. d \notin InFlight'
      BY <2>4, <3>2 DEF InFlight
    <3>. QED BY <2>1, <3>1, <3>2, <3>3 DEF CallInv, InFlight
  <2>. QED BY <2>2, <2>3, <2>4
<1>. QED BY <1>5, <1>6

LEMMA RetryKeeps ==
  ASSUME PolicyInv, NEW c \in Calls, Retry(c)
  PROVE  PolicyInv'
<1> USE DEF PolicyInv
<1>1. attempts + 1 \in Nat
  BY DEF TypeOK
<1>2. /\ attempts' = attempts + 1 /\ tries' = [tries EXCEPT ![c] = @ + 1]
      /\ failures' = failures /\ open' = open
      /\ stage' \in [Calls -> {"idle"} \cup Running \cup Ended] /\ left' \in [Calls -> Nat]
      /\ cooling' \in 0..Interval /\ spacing' \in 0..Interval /\ late' \in [Calls -> Nat]
      /\ stage'[c] # "idle" /\ (stage'[c] = "backoff" => attempts + 1 < Retries)
      /\ \A d \in Calls \ {c} : stage'[d] = stage[d]
  BY <1>1, AttemptStep DEF Retry
<1>3. UNCHANGED <<joined, met, barred>>
  BY DEF Retry
<1>4. tries' \in [Calls -> Nat]
  BY <1>2 DEF TypeOK
<1>5. TypeOK'
  BY <1>1, <1>2, <1>3, <1>4 DEF TypeOK
<1>6. ASSUME NEW d \in Calls PROVE CallInv(d)'
  <2>1. /\ CallInv(d) /\ tries[d] \in Nat /\ attempts \in Nat
        /\ Forgotten(d) \in Nat /\ Forgotten(d)' = Forgotten(d) /\ Retries \in Nat \ {0}
    BY <1>3, ForgottenGrows, PolicyAssumption DEF TypeOK, Forgotten
  <2>2. CASE d = c
    <3>1. stage[d] = "backoff" /\ d \in InFlight
      BY <2>2 DEF Retry, InFlight, Running
    <3>2. tries[d] <= attempts + Forgotten(d) /\ tries[d] <= Retries - 1 + Forgotten(d)
      BY <2>1, <3>1 DEF CallInv
    <3>3. tries'[d] = tries[d] + 1
      BY <1>2, <2>2 DEF TypeOK
    <3>. QED BY <1>2, <2>1, <2>2, <3>2, <3>3 DEF CallInv
  <2>3. CASE d # c
    <3>1. tries'[d] = tries[d] /\ stage'[d] = stage[d] /\ joined'[d] = joined[d]
      BY <1>2, <1>3, <2>3 DEF TypeOK
    <3>. QED BY <1>2, <2>1, <3>1 DEF CallInv, InFlight
  <2>. QED BY <2>2, <2>3
<1>. QED BY <1>5, <1>6

LEMMA AcquireKeeps ==
  ASSUME PolicyInv, NEW c \in Calls, Acquire(c)
  PROVE  PolicyInv'
<1>1. TypeOK /\ Enter(c, "vendor", Timeout) /\ "vendor" \in Running \cup Ended /\ Timeout \in Nat
  BY PolicyAssumption DEF PolicyInv, Acquire, CallVendor, Running
<1>2. /\ stage' \in [Calls -> {"idle"} \cup Running \cup Ended] /\ left' \in [Calls -> Nat]
      /\ stage'[c] = "vendor" /\ \A d \in Calls \ {c} : stage'[d] = stage[d]
  BY <1>1, EnterTyped
<1>3. /\ UNCHANGED <<attempts, failures, open, tries, joined, met, barred>>
      /\ cooling' = Interval /\ spacing' = Interval /\ late' \in [Calls -> Nat]
  BY <1>1 DEF Acquire, Cools, CallVendor, TypeOK
<1>4. TypeOK'
  BY <1>1, <1>2, <1>3, PolicyAssumption DEF TypeOK
<1>5. stage[c] \in Running
  BY DEF Acquire, Running
<1>. QED BY <1>2, <1>3, <1>4, <1>5, NoAttemptKeeps

LEMMA VendorKeeps ==
  ASSUME PolicyInv, NEW c \in Calls,
         VendorAnswers(c) \/ VendorFails(c) \/ VendorRefuses(c) \/ FailsUnexpectedly(c)
  PROVE  PolicyInv'
<1> DEFINE s == IF attempts >= Retries THEN "exhausted" ELSE "backoff"
<1>1. TypeOK /\ stage[c] \in Running
  BY DEF PolicyInv, VendorAnswers, VendorFails, VendorRefuses, FailsUnexpectedly, Running
<1>2. UNCHANGED <<attempts, cooling, tries, joined, met, barred, late, spacing>>
  BY DEF VendorAnswers, VendorFails, VendorRefuses, FailsUnexpectedly, history, shared
<1>3. failures' \in Nat /\ open' \in BOOLEAN
  <2>1. failures \in Nat /\ open \in BOOLEAN
    BY <1>1 DEF TypeOK
  <2>2. Succeeds \/ Counts \/ UNCHANGED <<failures, open>>
    BY DEF VendorAnswers, VendorFails, VendorRefuses, FailsUnexpectedly, shared
  <2>3. CASE Succeeds
    BY <2>1, <2>3 DEF Succeeds
  <2>4. CASE Counts
    <3>1. failures' = failures + 1
      BY <2>4 DEF Counts
    <3>2. open' \in BOOLEAN
      BY <2>4, Zenon DEF Counts
    <3>. QED BY <2>1, <3>1, <3>2
  <2>5. CASE UNCHANGED <<failures, open>>
    BY <2>1, <2>5
  <2>. QED BY <2>2, <2>3, <2>4, <2>5
<1>4. PICK t \in {"ok", "failed", s} : Enter(c, t, 0)
  BY DEF VendorAnswers, VendorFails, VendorRefuses, FailsUnexpectedly, RaiseOrBackOff
<1>5. t \in Running \cup Ended /\ t # "idle" /\ (t = "backoff" => ~(attempts >= Retries))
  BY DEF Running, Ended
<1>6. /\ stage' \in [Calls -> {"idle"} \cup Running \cup Ended] /\ left' \in [Calls -> Nat]
      /\ stage'[c] = t /\ \A d \in Calls \ {c} : stage'[d] = stage[d]
  BY <1>1, <1>4, <1>5, EnterTyped
<1>7. TypeOK'
  BY <1>1, <1>2, <1>3, <1>6 DEF TypeOK
<1>8. stage'[c] = "backoff" => attempts < Retries
  BY <1>1, <1>5, <1>6, PolicyAssumption DEF TypeOK
<1>. QED BY <1>1, <1>2, <1>5, <1>6, <1>7, <1>8, NoAttemptKeeps

LEMMA TickKeeps == PolicyInv /\ Tick => PolicyInv'
<1> SUFFICES ASSUME PolicyInv, Tick PROVE PolicyInv'
  OBVIOUS
<1>1. \A n \in Nat : Minus(n) \in Nat
  BY DEF Minus
<1>2. TypeOK'
  <2>1. ASSUME NEW n \in 0..Interval PROVE Minus(n) \in 0..Interval
    BY PolicyAssumption DEF Minus
  <2>2. cooling' \in 0..Interval /\ spacing' \in 0..Interval
    BY <2>1 DEF PolicyInv, TypeOK, Tick
  <2>3. left' \in [Calls -> Nat]
    BY <1>1 DEF PolicyInv, TypeOK, Tick
  <2>. QED BY <2>2, <2>3 DEF PolicyInv, TypeOK, Tick
<1>3. UNCHANGED <<attempts, stage, tries, joined>>
  BY DEF Tick
<1>. QED BY <1>2, <1>3 DEF PolicyInv, CallInv, InFlight, Forgotten

LEMMA PolicyStutters == PolicyInv /\ UNCHANGED vars => PolicyInv'
  BY DEF PolicyInv, CallInv, TypeOK, InFlight, Forgotten, vars, shared, history

LEMMA PolicyInvariant == Spec => []PolicyInv
<1>1. PolicyInv /\ [Next]_vars => PolicyInv'
  BY BeginKeeps, RetryKeeps, AcquireKeeps, VendorKeeps, TickKeeps, PolicyStutters DEF Next
<1>. QED BY <1>1, InitPolicy, PTL DEF Spec

\* The types of TypeOK, for any number of calls, retries, threshold and waits.
THEOREM PolicyTypeCorrect == Spec => []TypeOK
<1>1. PolicyInv => TypeOK
  BY DEF PolicyInv
<1>. QED BY <1>1, PolicyInvariant, PTL

\* RetryPolicy.run of any number of concurrent calls: a call makes at most
\* Retries attempts, and Retries - 1 more for each call that joined it.
THEOREM RetriesAreBounded == Spec => []AttemptsBounded
<1>1. PolicyInv => AttemptsBounded
  BY DEF PolicyInv, CallInv, Forgotten, AttemptsBounded
<1>. QED BY <1>1, PolicyInvariant, PTL

----------------------------------------------------------------------------
\* An attempt begins at the limiter only while the circuit is closed, so a call
\* that was late is past the limiter for good and one that was barred never gets
\* there.
LateInv(c) ==
  /\ stage[c] = "idle" => late[c] = 0 /\ c \notin barred
  /\ c \in barred => open /\ late[c] = 0 /\ stage[c] # "limiter"
  /\ \/ late[c] = 0
     \/ late[c] = 1 /\ open /\ stage[c] # "limiter"

LEMMA AttemptIsNotLate ==
  ASSUME TypeOK, NEW c \in Calls, NEW n \in Nat, Attempt(c, n)
  PROVE  /\ late' = late /\ open' = open
         /\ stage'[c] # "idle"
         /\ open => stage'[c] # "limiter"
<1>1. /\ open' = open
      /\ \/ open /\ stage'[c] # "limiter" /\ UNCHANGED late
         \/ ~open /\ UNCHANGED late
  BY DEF Attempt, RaiseOrBackOff, Enter, CallVendor, TypeOK
<1>. QED BY <1>1, AttemptStep

LEMMA LateKept ==
  ASSUME TypeOK, \A c \in Calls : LateInv(c), [Next]_vars
  PROVE  \A c \in Calls : LateInv(c)'
<1> SUFFICES ASSUME NEW d \in Calls PROVE LateInv(d)'
  OBVIOUS
<1>1. ASSUME NEW c \in Calls, Begin(c) \/ Retry(c) PROVE LateInv(d)'
  <2>1. PICK n \in Nat : Attempt(c, n)
    BY <1>1 DEF Begin, Retry, TypeOK
  <2>2. late' = late /\ open' = open /\ stage'[c] # "idle" /\ (open => stage'[c] # "limiter")
    BY <2>1, AttemptIsNotLate
  <2>3. d # c => stage'[d] = stage[d]
    BY <2>1, AttemptStep
  <2>4. \/ barred' = barred
        \/ barred' = barred \cup {c} /\ open /\ late[c] = 0
    BY <1>1 DEF Begin, Retry, LateInv
  <2>. QED BY <2>2, <2>3, <2>4 DEF LateInv
<1>2. ASSUME NEW c \in Calls, Acquire(c) PROVE LateInv(d)'
  <2>1. /\ open' = open /\ barred' = barred /\ stage'[c] = "vendor" /\ stage[c] = "limiter"
        /\ late'[c] = IF open THEN late[c] + 1 ELSE late[c]
        /\ d # c => late'[d] = late[d] /\ stage'[d] = stage[d]
    BY <1>2 DEF Acquire, CallVendor, Enter, TypeOK
  <2>2. late[c] = 0 /\ c \notin barred
    BY <2>1 DEF LateInv
  <2>. QED BY <2>1, <2>2 DEF LateInv
<1>3. ASSUME NEW c \in Calls,
             VendorAnswers(c) \/ VendorFails(c) \/ VendorRefuses(c) \/ FailsUnexpectedly(c)
      PROVE  LateInv(d)'
  <2>1. UNCHANGED <<late, barred>> /\ (open => open')
        /\ stage'[d] \in {stage[d], "ok", "failed", "exhausted", "backoff"}
    BY <1>3 DEF VendorAnswers, VendorFails, VendorRefuses, FailsUnexpectedly, Succeeds, Counts,
                RaiseOrBackOff, Enter, TypeOK, shared, history
  <2>. QED BY <2>1 DEF LateInv
<1>4. CASE Tick \/ UNCHANGED vars
  BY <1>4 DEF Tick, LateInv, vars, shared, history
<1>. QED BY <1>1, <1>2, <1>3, <1>4 DEF Next

\* However many calls wait for the limiter when the circuit opens, each reaches
\* the vendor at most once from then on, and a call begun later never does.
THEOREM OpenSheds == Spec => []OpenCircuitSheds
<1> DEFINE AllLate == \A c \in Calls : LateInv(c)
<1>1. Init => AllLate
  BY DEF Init, LateInv
<1>2. TypeOK /\ AllLate /\ [Next]_vars => AllLate'
  BY LateKept
<1>3. TypeOK /\ AllLate => OpenCircuitSheds
  <2> SUFFICES ASSUME AllLate, NEW c \in Calls PROVE late[c] <= IF c \in barred THEN 0 ELSE 1
    BY DEF OpenCircuitSheds
  <2>. QED BY DEF LateInv
<1>. QED BY <1>1, <1>2, <1>3, PolicyTypeCorrect, PTL DEF Spec

----------------------------------------------------------------------------
\* While a call has met no other, the shared counter is its own and nobody moves
\* the limiter under its sleep.
Alone(c) ==
  /\ joined[c] = 0
  /\ c \in InFlight => InFlight \subseteq {c} /\ tries[c] = attempts
  /\ stage[c] = "exhausted" => tries[c] = Retries
  /\ stage[c] = "limiter" => spacing <= left[c]

AloneInv == spacing = cooling /\ \A c \in Calls \ met : Alone(c)

\* An attempt gives up only out of attempts, waits out the limiter, and calls
\* the vendor at once only when the interval is over.
LEMMA AttemptAlone ==
  ASSUME TypeOK, spacing = cooling, NEW c \in Calls, NEW n \in Nat, Attempt(c, n)
  PROVE  /\ spacing' = cooling'
         /\ stage'[c] = "exhausted" => n >= Retries
         /\ stage'[c] = "limiter" => spacing' <= left'[c]
         /\ stage'[c] = "vendor" => spacing = 0
<1> USE DEF Enter, TypeOK
<1>1. CASE open /\ RaiseOrBackOff(c, n) /\ UNCHANGED <<cooling, late, spacing>>
  BY <1>1 DEF RaiseOrBackOff
<1>2. CASE ~open /\ cooling > 0 /\ Enter(c, "limiter", cooling) /\ UNCHANGED <<cooling, late, spacing>>
  <2>1. left'[c] = cooling /\ stage'[c] = "limiter" /\ spacing' = cooling /\ cooling \in Int
    BY <1>2, PolicyAssumption
  <2>. QED BY <1>2, <2>1
<1>3. CASE ~open /\ cooling = 0 /\ CallVendor(c) /\ Cools(FALSE)
  BY <1>3 DEF CallVendor, Cools
<1>. QED BY <1>1, <1>2, <1>3 DEF Attempt

\* A step of a call that was running leaves what is known of those alone.
LEMMA RunningKeepsAlone ==
  ASSUME AloneInv, PolicyInv, PolicyInv', NEW c \in InFlight, UNCHANGED <<joined, met>>,
         \A d \in Calls \ {c} : stage'[d] = stage[d] /\ tries'[d] = tries[d],
         tries[c] = attempts => tries'[c] = attempts',
         stage'[c] = "exhausted" => attempts' >= Retries,
         stage'[c] = "limiter" => spacing' <= left'[c],
         spacing' = cooling', stage[c] # "exhausted"
  PROVE  AloneInv'
<1> SUFFICES ASSUME NEW d \in Calls \ met PROVE Alone(d)'
  BY DEF AloneInv
<1>1. c \in Calls /\ Alone(d)
  BY DEF AloneInv, InFlight
<1>2. CASE d = c
  <2>1. InFlight' \subseteq {d} /\ tries'[d] = attempts' /\ joined'[d] = 0
    BY <1>1, <1>2 DEF Alone, InFlight
  <2>2. tries'[d] <= Retries
    <3>1. tries'[d] <= Retries + Forgotten(d)'
      BY DEF PolicyInv, CallInv
    <3>2. Forgotten(d)' = 0
      BY <2>1, PolicyAssumption DEF Forgotten
    <3>3. tries'[d] \in Nat
      BY DEF PolicyInv, TypeOK
    <3>. QED BY <3>1, <3>2, <3>3, PolicyAssumption
  <2>3. stage'[d] = "exhausted" => tries'[d] = Retries
    <3>1. attempts' \in Nat
      BY DEF PolicyInv, TypeOK
    <3>. QED BY <1>2, <2>1, <2>2, <3>1, PolicyAssumption
  <2>. QED BY <1>2, <2>1, <2>3 DEF Alone
<1>3. CASE d # c
  <2>1. d \notin InFlight
    BY <1>1, <1>3 DEF Alone
  <2>2. stage'[d] = stage[d] /\ tries'[d] = tries[d] /\ joined'[d] = joined[d]
    BY <1>3
  <2>3. d \notin InFlight' /\ stage'[d] # "limiter"
    BY <2>1, <2>2 DEF InFlight, Running
  <2>. QED BY <1>1, <2>2, <2>3 DEF Alone
<1>. QED BY <1>2, <1>3

LEMMA BeginKeepsAlone ==
  ASSUME AloneInv, PolicyInv, PolicyInv', NEW c \in Calls, Begin(c)
  PROVE  AloneInv'
<1>1. /\ Attempt(c, 1) /\ TypeOK /\ spacing = cooling
      /\ joined' = [d \in Calls |-> IF d \in InFlight THEN joined[d] + 1 ELSE joined[d]]
      /\ met' = IF InFlight = {} THEN met ELSE met \cup InFlight \cup {c}
  BY DEF Begin, AloneInv, PolicyInv
<1>2. /\ attempts' = 1 /\ tries' = [tries EXCEPT ![c] = @ + 1]
      /\ \A d \in Calls \ {c} : stage'[d] = stage[d]
  BY <1>1, AttemptStep
<1>3. /\ spacing' = cooling'
      /\ stage'[c] = "exhausted" => 1 >= Retries
      /\ stage'[c] = "limiter" => spacing' <= left'[c]
  BY <1>1, AttemptAlone
<1>4. ASSUME NEW d \in Calls \ met' PROVE Alone(d)'
  <2>1. Alone(d) /\ d \notin InFlight /\ joined'[d] = joined[d]
    BY <1>1, <1>4 DEF AloneInv
  <2>2. CASE d = c
    <3>1. InFlight = {} /\ tries[c] = 0
      BY <1>1, <1>4, <2>2 DEF Begin, PolicyInv, CallInv
    <3>2. InFlight' \subseteq {c}
      BY <1>2, <3>1 DEF InFlight
    <3>3. tries'[c] = 1
      BY <1>1, <1>2, <3>1 DEF TypeOK
    <3>4. stage'[c] = "exhausted" => tries'[c] = Retries
      BY <1>3, <3>3, PolicyAssumption
    <3>. QED BY <1>2, <1>3, <2>1, <2>2, <3>2, <3>3, <3>4 DEF Alone
  <2>3. CASE d # c
    <3>1. stage'[d] = stage[d] /\ tries'[d] = tries[d]
      BY <1>1, <1>2, <2>3 DEF TypeOK
    <3>2. d \notin InFlight' /\ stage'[d] # "limiter"
      BY <2>1, <3>1 DEF InFlight, Running
    <3>. QED BY <2>1, <3>1, <3>2 DEF Alone
  <2>. QED BY <2>2, <2>3
<1>. QED BY <1>3, <1>4 DEF AloneInv

LEMMA RetryKeepsAlone ==
  ASSUME AloneInv, PolicyInv, PolicyInv', NEW c \in Calls, Retry(c)
  PROVE  AloneInv'
<1>1. /\ Attempt(c, attempts + 1) /\ TypeOK /\ spacing = cooling /\ attempts + 1 \in Nat
      /\ UNCHANGED <<joined, met>> /\ c \in InFlight /\ stage[c] # "exhausted"
  BY DEF Retry, AloneInv, PolicyInv, TypeOK, InFlight, Running
<1>2. /\ attempts' = attempts + 1 /\ tries' = [tries EXCEPT ![c] = @ + 1]
      /\ \A d \in Calls \ {c} : stage'[d] = stage[d]
  BY <1>1, AttemptStep
<1>3. /\ spacing' = cooling'
      /\ stage'[c] = "exhausted" => attempts' >= Retries
      /\ stage'[c] = "limiter" => spacing' <= left'[c]
  BY <1>1, <1>2, AttemptAlone
<1>4. /\ tries'[c] = tries[c] + 1
      /\ \A d \in Calls \ {c} : tries'[d] = tries[d]
  BY <1>1, <1>2 DEF TypeOK
<1>. QED BY <1>1, <1>2, <1>3, <1>4, RunningKeepsAlone

LEMMA ServedKeepsAlone ==
  ASSUME AloneInv, PolicyInv, PolicyInv', NEW c \in Calls,
         Acquire(c) \/ VendorAnswers(c) \/ VendorFails(c) \/ VendorRefuses(c) \/ FailsUnexpectedly(c)
  PROVE  AloneInv'
<1>1. TypeOK /\ c \in InFlight /\ stage[c] # "exhausted" /\ spacing = cooling
  BY DEF AloneInv, PolicyInv, Acquire, VendorAnswers, VendorFails, VendorRefuses, FailsUnexpectedly, InFlight, Running
<1>2. UNCHANGED <<attempts, tries, joined, met>>
  BY DEF Acquire, VendorAnswers, VendorFails, VendorRefuses, FailsUnexpectedly, shared, history
<1>3. spacing' = cooling'
  BY <1>1 DEF Acquire, CallVendor, Cools, VendorAnswers, VendorFails, VendorRefuses, FailsUnexpectedly, shared, history
<1>4. PICK s \in {"vendor", "ok", "failed", "exhausted", "backoff"}, ticks \in {0, Timeout} :
        Enter(c, s, ticks) /\ (s = "exhausted" => attempts >= Retries)
  BY DEF Acquire, CallVendor, VendorAnswers, VendorFails, VendorRefuses, FailsUnexpectedly, RaiseOrBackOff
<1>5. stage'[c] = s /\ \A d \in Calls \ {c} : stage'[d] = stage[d]
  BY <1>1, <1>4 DEF Enter, TypeOK
<1>. QED BY <1>1, <1>2, <1>3, <1>4, <1>5, RunningKeepsAlone

LEMMA TickKeepsAlone ==
  ASSUME AloneInv, PolicyInv, Tick
  PROVE  AloneInv'
<1>1. /\ spacing = cooling /\ spacing \in Nat
      /\ UNCHANGED <<attempts, stage, tries, joined, met>>
      /\ spacing' = Minus(spacing) /\ cooling' = Minus(cooling)
      /\ left' = [c \in Calls |-> Minus(left[c])]
  BY PolicyAssumption DEF AloneInv, PolicyInv, TypeOK, Tick
<1>2. ASSUME NEW d \in Calls \ met PROVE Alone(d)'
  <2>1. Alone(d) /\ left[d] \in Nat /\ left'[d] = Minus(left[d])
    BY <1>1 DEF AloneInv, PolicyInv, TypeOK
  <2>2. stage[d] = "limiter" => spacing' <= left'[d]
    BY <1>1, <2>1 DEF Minus, Alone
  <2>. QED BY <1>1, <2>1, <2>2 DEF Alone, InFlight
<1>. QED BY <1>1, <1>2 DEF AloneInv

LEMMA AloneInvariant == Spec => [](PolicyInv /\ AloneInv)
<1>1. Init => AloneInv
  BY DEF Init, AloneInv, Alone, InFlight, Running
<1>2. ASSUME AloneInv, PolicyInv, PolicyInv', [Next]_vars PROVE AloneInv'
  <2>1. CASE UNCHANGED vars
    BY <1>2, <2>1 DEF AloneInv, Alone, InFlight, vars, shared, history
  <2>. QED BY <1>2, <2>1, BeginKeepsAlone, RetryKeepsAlone, ServedKeepsAlone, TickKeepsAlone DEF Next
<1>. QED BY <1>1, <1>2, PolicyInvariant, PTL DEF Spec

\* A call that never shares the policy makes all its attempts, and no more,
\* before a retryable error is raised.
THEOREM AloneRetries == Spec => []AloneRetriesFully
<1>1. AloneInv => AloneRetriesFully
  BY DEF AloneInv, Alone, AloneRetriesFully
<1>. QED BY <1>1, AloneInvariant, PTL

\* A call that has met no other reaches the vendor a whole interval after the
\* vendor was last called.
THEOREM AloneKeepsItsRate == Spec => AloneKeepsRate
<1> DEFINE Kept == \A c \in Calls : stage'[c] = "vendor" /\ stage[c] # "vendor" /\ c \notin met' => spacing = 0
<1>1. ASSUME PolicyInv, AloneInv, Next PROVE Kept
  <2> SUFFICES ASSUME NEW d \in Calls, stage'[d] = "vendor", stage[d] # "vendor", d \notin met'
               PROVE  spacing = 0
    OBVIOUS
  <2>1. TypeOK /\ spacing = cooling /\ spacing \in Nat
    BY <1>1, PolicyAssumption DEF PolicyInv, AloneInv, TypeOK
  <2>2. ASSUME NEW c \in Calls, Begin(c) \/ Retry(c) PROVE spacing = 0
    <3>1. PICK n \in Nat : Attempt(c, n)
      BY <2>1, <2>2 DEF Begin, Retry, TypeOK
    <3>2. d = c
      BY <2>1, <3>1, AttemptStep
    <3>. QED BY <2>1, <3>1, <3>2, AttemptAlone
  <2>3. ASSUME NEW c \in Calls, Acquire(c) PROVE spacing = 0
    <3>1. d = c /\ met' = met /\ stage[c] = "limiter" /\ left[c] = 0
      BY <2>1, <2>3 DEF Acquire, CallVendor, Enter, TypeOK
    <3>2. spacing <= left[d]
      BY <1>1, <3>1 DEF AloneInv, Alone
    <3>. QED BY <2>1, <3>1, <3>2
  <2>4. ASSUME NEW c \in Calls,
               VendorAnswers(c) \/ VendorFails(c) \/ VendorRefuses(c) \/ FailsUnexpectedly(c)
        PROVE  FALSE
    BY <2>1, <2>4 DEF VendorAnswers, VendorFails, VendorRefuses, FailsUnexpectedly, RaiseOrBackOff, Enter, TypeOK
  <2>5. CASE Tick
    BY <2>5 DEF Tick
  <2>. QED BY <1>1, <2>2, <2>3, <2>4, <2>5 DEF Next
<1>2. PolicyInv /\ AloneInv /\ [Next]_vars => [Kept]_vars
  BY <1>1
<1>. QED BY <1>2, AloneInvariant, PTL DEF Spec, AloneKeepsRate

====
