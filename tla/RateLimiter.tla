----------------------------- MODULE RateLimiter -----------------------------
(***************************************************************************)
(* The token bucket in front of the webhook endpoint                       *)
(* (internal/webhooks/ratelimit.go) and the requests that draw on it.      *)
(*                                                                         *)
(* ServeHTTP reads the clock before allow takes the mutex, so requests may *)
(* reach the bucket in another order than they read the clock.  A second   *)
(* has Ticks ticks and a token Ticks units, which keeps the refill exact;  *)
(* the rounding of float64 is abstracted.                                  *)
(***************************************************************************)
EXTENDS Integers, Sequences

CONSTANTS
  PerSecond,  \* WEBHOOK_RATE_PER_SECOND
  Burst,      \* WEBHOOK_RATE_BURST
  Ticks,      \* resolution of the clock
  MaxClock,   \* bound of the clock
  Requests,   \* goroutines serving requests
  Unset       \* the zero time, and no clock read yet

ASSUME RateLimiterAssumption ==
  /\ PerSecond \in Int /\ Burst \in Int
  /\ Ticks \in Nat \ {0} /\ MaxClock \in Nat
  /\ Unset \notin Int

\* newRateLimiter's defaults.
Rate == IF PerSecond <= 0 THEN 30 ELSE PerSecond
Capacity == IF Burst <= 0 THEN 2 * Rate ELSE Burst

VARIABLES
  clock,
  reading,  \* what each request read from the clock
  tokens,   \* in units
  last,
  admitted, \* history: readings of the admitted requests
  ordered   \* history: no request was overtaken so far

vars == <<clock, reading, tokens, last, admitted, ordered>>

TypeOK ==
  /\ clock \in 0..MaxClock
  /\ reading \in [Requests -> 0..MaxClock \cup {Unset}]
  /\ tokens \in Int /\ tokens <= Capacity * Ticks
  /\ last \in 0..MaxClock \cup {Unset}
  /\ admitted \in Seq(0..MaxClock)
  /\ ordered \in BOOLEAN

Init ==
  /\ clock = 0
  /\ reading = [r \in Requests |-> Unset]
  /\ tokens = Capacity * Ticks
  /\ last = Unset
  /\ admitted = <<>>
  /\ ordered = TRUE

Tick ==
  /\ clock < MaxClock
  /\ clock' = clock + 1
  /\ UNCHANGED <<reading, tokens, last, admitted, ordered>>

\* h.now() is evaluated before the mutex is taken.
ReadClock(r) ==
  /\ reading[r] = Unset
  /\ reading' = [reading EXCEPT ![r] = clock]
  /\ UNCHANGED <<clock, tokens, last, admitted, ordered>>

Earned(now) == IF last = Unset THEN 0 ELSE Rate * (now - last)

\* Mutant: the bucket has no bottom to its growth.
RefilledUncapped(now) == tokens + Earned(now)

\* Mutant: the elapsed time is truncated to whole seconds.
RefilledTruncated(now) ==
  LET whole == IF last = Unset THEN 0 ELSE ((now - last) \div Ticks) * Ticks
      sum == tokens + Rate * whole
  IN  IF sum > Capacity * Ticks THEN Capacity * Ticks ELSE sum

Refilled(now) ==
  LET sum == tokens + Earned(now)
  IN  IF sum > Capacity * Ticks THEN Capacity * Ticks ELSE sum

InOrder(now) == last = Unset \/ last <= now

\* allow, as one step: it runs under the mutex.
Admit(r) ==
  /\ reading[r] # Unset
  /\ Refilled(reading[r]) >= Ticks
  /\ tokens' = Refilled(reading[r]) - Ticks
  /\ last' = reading[r]
  /\ admitted' = Append(admitted, reading[r])
  /\ ordered' = (ordered /\ InOrder(reading[r]))
  /\ reading' = [reading EXCEPT ![r] = Unset]
  /\ UNCHANGED clock

Refuse(r) ==
  /\ reading[r] # Unset
  /\ Refilled(reading[r]) < Ticks
  /\ tokens' = Refilled(reading[r])
  /\ last' = reading[r]
  /\ ordered' = (ordered /\ InOrder(reading[r]))
  /\ reading' = [reading EXCEPT ![r] = Unset]
  /\ UNCHANGED <<clock, admitted>>

Next == Tick \/ \E r \in Requests : ReadClock(r) \/ Admit(r) \/ Refuse(r)

Spec == Init /\ [][Next]_vars

-----------------------------------------------------------------------------

\* Admitting n requests that span the given time stays within burst + rate * time.
Within(n, span) == n * Ticks <= Capacity * Ticks + Rate * span

\* However requests overtake each other between the clock and the mutex, any
\* run of admitted requests stays within the burst plus the refill of the time
\* between the readings of its first and last one.
WindowBound ==
  \A i, k \in 1..Len(admitted) :
    i <= k => Within(k - i + 1, admitted[k] - admitted[i])

\* As long as no request was overtaken between the clock and the mutex, one is
\* refused only if admitting it would break that bound for some run of admitted
\* requests: the bucket never refuses too early.
RefusedOnlyOverBudget ==
  [][\A r \in Requests : Refuse(r) /\ ordered' =>
       \E i \in 1..Len(admitted) :
         ~Within(Len(admitted) - i + 2, reading[r] - admitted[i])]_vars
=============================================================================
