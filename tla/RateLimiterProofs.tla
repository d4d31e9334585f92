-------------------------- MODULE RateLimiterProofs --------------------------
(***************************************************************************)
(* Theorems about the token bucket, for every rate, burst and number of    *)
(* requests overtaking each other.                                         *)
(***************************************************************************)
EXTENDS RateLimiter, TLAPS

\* What the bucket still holds and what it gave away since an admission stay
\* within the capacity and what the time up to the last reading refilled.
Balanced ==
  \A i \in 1..Len(admitted) :
    /\ last # Unset
    /\ tokens + (Len(admitted) - i + 1) * Ticks <= Capacity * Ticks + Rate * (last - admitted[i])

IInv == TypeOK /\ Balanced /\ WindowBound

\* The defaults make both parameters positive.
LEMMA Parameters ==
  /\ Rate \in Nat \ {0} /\ Capacity \in Nat \ {0}
  /\ Capacity * Ticks \in Nat /\ Capacity * Ticks >= Ticks
<1>1. Rate \in Nat \ {0} /\ Capacity \in Nat \ {0} /\ Ticks \in Nat \ {0}
  BY RateLimiterAssumption DEF Rate, Capacity
<1>2. \A c, t \in Nat \ {0} : c * t \in Nat /\ c * t >= t
  OBVIOUS
<1> QED BY <1>1, <1>2

\* A refill is capped, and what it adds to is paid by the time between the two
\* readings, whichever of them is older.
LEMMA RefillEffect ==
  ASSUME TypeOK, NEW now \in 0..MaxClock
  PROVE  /\ Refilled(now) \in Int /\ Refilled(now) <= Capacity * Ticks
         /\ last = Unset => Refilled(now) <= tokens
         /\ last # Unset => \A t \in 0..MaxClock :
              Refilled(now) + Rate * (last - t) <= tokens + Rate * (now - t)
<1>1. /\ Rate \in Int /\ Capacity * Ticks \in Int /\ tokens \in Int
      /\ now \in Int
      /\ last # Unset => last \in Int
  BY Parameters, RateLimiterAssumption DEF TypeOK
<1>2. Earned(now) \in Int
  BY <1>1 DEF Earned
<1>3. Refilled(now) \in Int /\ Refilled(now) <= Capacity * Ticks
      /\ Refilled(now) <= tokens + Earned(now)
  BY <1>1, <1>2 DEF Refilled
<1>4. \A t \in 0..MaxClock : last # Unset =>
        Rate * (now - last) + Rate * (last - t) = Rate * (now - t)
  <2>1. \A a, b, c, d \in Int : d * (a - b) + d * (b - c) = d * (a - c)
    OBVIOUS
  <2> QED BY <1>1, <2>1, RateLimiterAssumption
<1>5. last # Unset => \A t \in 0..MaxClock : Rate * (last - t) \in Int /\ Rate * (now - t) \in Int
  BY <1>1, RateLimiterAssumption
<1>6. last = Unset => Refilled(now) <= tokens
  BY <1>1, <1>3 DEF Earned
<1>7. ASSUME last # Unset, NEW t \in 0..MaxClock
      PROVE  Refilled(now) + Rate * (last - t) <= tokens + Rate * (now - t)
  <2>1. Earned(now) + Rate * (last - t) = Rate * (now - t)
    BY <1>4, <1>7 DEF Earned
  <2> HIDE DEF Earned
  <2> DEFINE x == Rate * (last - t)
             y == Rate * (now - t)
  <2>2. x \in Int /\ y \in Int /\ Earned(now) + x = y
    BY <1>5, <1>7, <2>1
  <2> HIDE DEF x, y
  <2>3. Refilled(now) + x <= tokens + y
    BY <1>1, <1>2, <1>3, <2>2
  <2> QED BY <2>3 DEF x, y
<1> QED BY <1>3, <1>6, <1>7

LEMMA InitIInv == Init => IInv
BY Parameters, RateLimiterAssumption DEF Init, IInv, TypeOK, Balanced, WindowBound

\* After a refill nothing admitted earlier is over the budget of the new reading.
LEMMA RefillBalanced ==
  ASSUME IInv, NEW now \in 0..MaxClock, NEW i \in 1..Len(admitted)
  PROVE  Refilled(now) + (Len(admitted) - i + 1) * Ticks
           <= Capacity * Ticks + Rate * (now - admitted[i])
<1>1. /\ last # Unset /\ last \in Int /\ admitted[i] \in 0..MaxClock /\ tokens \in Int
      /\ Len(admitted) \in Nat
  BY RateLimiterAssumption DEF IInv, Balanced, TypeOK
<1> DEFINE g == (Len(admitted) - i + 1) * Ticks
           c == Capacity * Ticks
           x == Rate * (last - admitted[i])
           y == Rate * (now - admitted[i])
<1>2. g \in Int /\ c \in Int /\ x \in Int /\ y \in Int /\ Refilled(now) \in Int
  BY <1>1, Parameters, RefillEffect, RateLimiterAssumption DEF IInv
<1>3. tokens + g <= c + x
  BY DEF IInv, Balanced
<1>4. Refilled(now) + x <= tokens + y
  BY <1>1, RefillEffect DEF IInv
<1> HIDE DEF g, c, x, y
<1>5. Refilled(now) + g <= c + y
  BY <1>1, <1>2, <1>3, <1>4
<1> QED BY <1>5 DEF g, c, y

LEMMA AdmitIInv ==
  ASSUME IInv, NEW r \in Requests, Admit(r)
  PROVE  IInv'
<1> DEFINE now == reading[r]
           n == Len(admitted)
           c == Capacity * Ticks
<1>1. /\ now \in 0..MaxClock /\ n \in Nat /\ Ticks \in Nat \ {0} /\ Rate \in Nat /\ c \in Int
      /\ Refilled(now) \in Int /\ Refilled(now) <= c /\ Refilled(now) >= Ticks
      /\ tokens' = Refilled(now) - Ticks /\ last' = now /\ last' # Unset
  BY Parameters, RefillEffect, RateLimiterAssumption DEF Admit, IInv, TypeOK
<1>2. /\ Len(admitted') = n + 1 /\ admitted'[n + 1] = now
      /\ \A i \in 1..n : admitted'[i] = admitted[i]
      /\ admitted' \in Seq(0..MaxClock)
  BY <1>1 DEF Admit, IInv, TypeOK
<1>3. TypeOK'
  BY <1>1, <1>2 DEF Admit, IInv, TypeOK, InOrder
<1>4. \A i \in 1..n : Refilled(now) + (n - i + 1) * Ticks <= c + Rate * (now - admitted[i])
  BY <1>1, RefillBalanced
<1>5. \A i \in 1..n : /\ (n - i + 1) * Ticks \in Int /\ Rate * (now - admitted[i]) \in Int
                      /\ (n + 1 - i + 1) * Ticks = (n - i + 1) * Ticks + Ticks
  <2>1. \A a, t \in Int : a * t \in Int /\ (a + 1) * t = a * t + t
    OBVIOUS
  <2> SUFFICES ASSUME NEW i \in 1..n
               PROVE  /\ (n - i + 1) * Ticks \in Int /\ Rate * (now - admitted[i]) \in Int
                      /\ (n + 1 - i + 1) * Ticks = (n - i + 1) * Ticks + Ticks
    OBVIOUS
  <2>2. n - i + 1 \in Int /\ now - admitted[i] \in Int /\ n + 1 - i + 1 = (n - i + 1) + 1
    <3>1. admitted[i] \in 0..MaxClock
      <4>1. i \in 1..Len(admitted) /\ admitted \in Seq(0..MaxClock)
        BY DEF IInv, TypeOK
      <4> QED BY <4>1, RateLimiterAssumption
    <3>2. admitted[i] \in Int /\ now \in Int
      BY <1>1, <3>1
    <3>3. n - i + 1 \in Int /\ n + 1 - i + 1 = (n - i + 1) + 1
      <4> HIDE DEF n
      <4> QED BY <1>1
    <3> HIDE DEF n, now
    <3> QED BY <3>2, <3>3
  <2> HIDE DEF n, now
  <2> QED BY <1>1, <2>1, <2>2
<1>6. ASSUME NEW i \in 1..(n + 1)
      PROVE  tokens' + (n + 1 - i + 1) * Ticks <= c + Rate * (now - admitted'[i])
  <2>1. CASE i = n + 1
    <3>1. (n + 1 - i + 1) * Ticks = Ticks /\ Rate * (now - admitted'[i]) = 0
      BY <1>1, <1>2, <2>1
    <3> HIDE DEF n, now, c
    <3> QED BY <1>1, <3>1
  <2>2. CASE i \in 1..n
    <3> DEFINE g == (n - i + 1) * Ticks
               y == Rate * (now - admitted[i])
               h == (n + 1 - i + 1) * Ticks
    <3>1. g \in Int /\ y \in Int /\ h = g + Ticks /\ Refilled(now) + g <= c + y
      BY <1>4, <1>5, <2>2
    <3>2. admitted'[i] = admitted[i]
      BY <1>2, <2>2
    <3> HIDE DEF g, y, h, c, n, now
    <3>3. tokens' + h <= c + y
      BY <1>1, <3>1
    <3> QED BY <3>2, <3>3 DEF h, y
  <2> QED BY <1>1, <2>1, <2>2
<1>7. Balanced'
  BY <1>1, <1>2, <1>6 DEF Balanced
<1>8. ASSUME NEW i \in 1..(n + 1), NEW k \in 1..(n + 1), i <= k
      PROVE  (k - i + 1) * Ticks <= c + Rate * (admitted'[k] - admitted'[i])
  <2>1. CASE k = n + 1
    <3> DEFINE h == (n + 1 - i + 1) * Ticks
               y == Rate * (now - admitted'[i])
    <3>1. h \in Int /\ y \in Int /\ tokens' + h <= c + y
      <4>1. admitted'[i] \in Int
        BY <1>2, RateLimiterAssumption
      <4>2. n + 1 - i + 1 \in Int /\ now - admitted'[i] \in Int
        BY <1>1, <4>1
      <4>3. \A a, b \in Int : a * b \in Int
        OBVIOUS
      <4> HIDE DEF n, now, c
      <4> QED BY <1>1, <1>6, <4>2, <4>3
    <3>2. (k - i + 1) * Ticks = h /\ admitted'[k] = now
      BY <1>2, <2>1
    <3> HIDE DEF h, y, c, n, now
    <3>3. h <= c + y
      BY <1>1, <3>1
    <3> QED BY <3>2, <3>3 DEF y
  <2>2. CASE k \in 1..n
    <3>1. i \in 1..n
      BY <1>1, <1>8, <2>2
    <3> QED BY <1>2, <1>8, <2>2, <3>1 DEF IInv, WindowBound, Within
  <2> QED BY <1>1, <2>1, <2>2
<1>9. WindowBound'
  BY <1>2, <1>8 DEF WindowBound, Within
<1> QED BY <1>3, <1>7, <1>9 DEF IInv

LEMMA RefuseIInv ==
  ASSUME IInv, NEW r \in Requests, Refuse(r)
  PROVE  IInv'
<1>1. /\ reading[r] \in 0..MaxClock /\ last' = reading[r] /\ last' # Unset
      /\ tokens' = Refilled(reading[r]) /\ admitted' = admitted
  BY RateLimiterAssumption DEF Refuse, IInv, TypeOK
<1>2. TypeOK'
  BY <1>1, RefillEffect DEF Refuse, IInv, TypeOK, InOrder
<1>3. Balanced'
  BY <1>1, RefillBalanced DEF Balanced
<1>4. WindowBound'
  BY <1>1 DEF IInv, WindowBound
<1> QED BY <1>2, <1>3, <1>4 DEF IInv

LEMMA NextIInv == IInv /\ [Next]_vars => IInv'
<1> SUFFICES ASSUME IInv, [Next]_vars PROVE IInv'
  OBVIOUS
<1>1. CASE UNCHANGED vars
  BY <1>1 DEF vars, IInv, TypeOK, Balanced, WindowBound
<1>2. CASE Tick
  BY <1>2, RateLimiterAssumption DEF Tick, IInv, TypeOK, Balanced, WindowBound
<1>3. ASSUME NEW r \in Requests, ReadClock(r) PROVE IInv'
  BY <1>3 DEF ReadClock, IInv, TypeOK, Balanced, WindowBound
<1> QED BY <1>1, <1>2, <1>3, AdmitIInv, RefuseIInv DEF Next

\* The bucket is never fuller than its capacity and all readings are times.
THEOREM TypeCorrect == Spec => []TypeOK
BY InitIInv, NextIInv, PTL DEF Spec, IInv

\* Any run of admitted requests stays within burst + rate * time, although
\* allow may see an older time after a newer one (rateLimiter.allow).
THEOREM WindowBounded == Spec => []WindowBound
BY InitIInv, NextIInv, PTL DEF Spec, IInv

-----------------------------------------------------------------------------
(* The bucket is exact while no request is overtaken. *)

\* Unless it is full, the bucket lacks exactly what some run of admissions took
\* beyond the refill: nothing is forgotten between two readings.
Tight ==
  ordered =>
    \/ tokens = Capacity * Ticks
    \/ /\ last # Unset
       /\ \E i \in 1..Len(admitted) :
            tokens + (Len(admitted) - i + 1) * Ticks = Capacity * Ticks + Rate * (last - admitted[i])

\* A refill keeps the bucket tight.
LEMMA RefillTight ==
  ASSUME IInv, Tight, ordered, NEW now \in 0..MaxClock, InOrder(now)
  PROVE  \/ Refilled(now) = Capacity * Ticks
         \/ \E i \in 1..Len(admitted) :
              Refilled(now) + (Len(admitted) - i + 1) * Ticks
                = Capacity * Ticks + Rate * (now - admitted[i])
<1>1. /\ tokens \in Int /\ tokens <= Capacity * Ticks /\ Capacity * Ticks \in Int
      /\ Rate \in Nat /\ now \in Int
      /\ last # Unset => last \in Int
  BY Parameters, RateLimiterAssumption DEF IInv, TypeOK
<1>2. Earned(now) \in Int /\ Earned(now) >= 0
  <2>1. \A a, b, c \in Int : a >= 0 /\ b <= c => a * (c - b) \in Int /\ a * (c - b) >= 0
    OBVIOUS
  <2>2. CASE last = Unset
    BY <2>2 DEF Earned
  <2>3. CASE last # Unset
    <3>1. last \in Int /\ last <= now
      BY <1>1, <2>3 DEF InOrder
    <3>2. Rate * (now - last) \in Int /\ Rate * (now - last) >= 0
      BY <1>1, <2>1, <3>1
    <3> QED BY <2>3, <3>2 DEF Earned
  <2> QED BY <2>2, <2>3
<1>3. CASE tokens = Capacity * Ticks
  <2> DEFINE c == Capacity * Ticks
  <2> HIDE DEF c
  <2>1. Refilled(now) = c
    BY <1>1, <1>2, <1>3 DEF Refilled, c
  <2> QED BY <2>1 DEF c
<1>4. ASSUME last # Unset, NEW i \in 1..Len(admitted),
             tokens + (Len(admitted) - i + 1) * Ticks = Capacity * Ticks + Rate * (last - admitted[i]),
             Refilled(now) # Capacity * Ticks
      PROVE  Refilled(now) + (Len(admitted) - i + 1) * Ticks
               = Capacity * Ticks + Rate * (now - admitted[i])
  <2> DEFINE c == Capacity * Ticks
             g == (Len(admitted) - i + 1) * Ticks
             x == Rate * (last - admitted[i])
             y == Rate * (now - admitted[i])
             e == Rate * (now - last)
  <2>1. admitted[i] \in Int /\ Len(admitted) \in Nat /\ last \in Int
    <3>1. admitted \in Seq(0..MaxClock) /\ MaxClock \in Nat
      BY RateLimiterAssumption DEF IInv, TypeOK
    <3>2. Len(admitted) \in Nat /\ admitted[i] \in 0..MaxClock
      BY <3>1
    <3>3. last # Unset
      BY <1>4
    <3> QED BY <1>1, <3>1, <3>2, <3>3
  <2>2. Refilled(now) = tokens + e
    BY <1>4 DEF Refilled, Earned
  <2>3. e + x = y /\ e \in Int /\ x \in Int /\ y \in Int
    <3>1. \A a, b, z, d \in Int : d * (a - b) + d * (b - z) = d * (a - z)
      OBVIOUS
    <3>2. \A a, b, d \in Int : d * (a - b) \in Int
      OBVIOUS
    <3>3. Rate \in Int
      BY <1>1
    <3>4. e + x = y
      BY <1>1, <2>1, <3>1, <3>3
    <3>5. e \in Int /\ x \in Int /\ y \in Int
      BY <1>1, <2>1, <3>2, <3>3
    <3> QED BY <3>4, <3>5
  <2>4. g \in Int /\ c \in Int
    BY <1>1, <2>1, RateLimiterAssumption
  <2>5. tokens + g = c + x
    BY <1>4
  <2> HIDE DEF c, g, x, y, e
  <2>6. Refilled(now) + g = c + y
    BY <1>1, <2>2, <2>3, <2>4, <2>5
  <2> QED BY <2>6 DEF c, g, y
<1> QED BY <1>3, <1>4 DEF Tight

LEMMA AdmitTight ==
  ASSUME IInv, IInv', Tight, NEW r \in Requests, Admit(r)
  PROVE  Tight'
<1> DEFINE now == reading[r]
           n == Len(admitted)
           c == Capacity * Ticks
<1>1. /\ now \in 0..MaxClock /\ now # Unset /\ n \in Nat /\ c \in Int /\ Ticks \in Nat
      /\ Refilled(now) \in Int /\ tokens' = Refilled(now) - Ticks /\ last' = now
      /\ ordered' => ordered /\ InOrder(now)
      /\ Len(admitted') = n + 1 /\ admitted'[n + 1] = now
      /\ \A i \in 1..n : admitted'[i] = admitted[i] /\ admitted[i] \in Int
  <2>1. now \in 0..MaxClock /\ now # Unset
    BY RateLimiterAssumption DEF Admit, IInv, TypeOK
  <2>2. c \in Int /\ Ticks \in Nat /\ Refilled(now) \in Int
    BY <2>1, Parameters, RefillEffect, RateLimiterAssumption DEF IInv
  <2>3. /\ tokens' = Refilled(now) - Ticks /\ last' = now
        /\ ordered' => ordered /\ InOrder(now)
        /\ admitted' = Append(admitted, now)
    BY DEF Admit
  <2>4. admitted \in Seq(0..MaxClock)
    BY DEF IInv, TypeOK
  <2>5. /\ n \in Nat /\ Len(admitted') = n + 1 /\ admitted'[n + 1] = now
        /\ \A i \in 1..n : admitted'[i] = admitted[i] /\ admitted[i] \in Int
    BY <2>1, <2>3, <2>4, RateLimiterAssumption
  <2> QED BY <2>1, <2>2, <2>3, <2>5
<1>2. CASE Refilled(now) = c
  <2>1. n + 1 \in 1..Len(admitted') /\ (n + 1 - (n + 1) + 1) * Ticks = Ticks
        /\ Rate * (now - now) = 0
    BY <1>1, Parameters
  <2>2. tokens' + Ticks = c + 0
    BY <1>1, <1>2
  <2>3. /\ n + 1 \in 1..Len(admitted') /\ last' # Unset
        /\ tokens' + (Len(admitted') - (n + 1) + 1) * Ticks
             = Capacity * Ticks + Rate * (last' - admitted'[n + 1])
    BY <1>1, <2>1, <2>2
  <2> HIDE DEF n
  <2> QED BY <2>3 DEF Tight
<1>3. ASSUME NEW i \in 1..n,
             Refilled(now) + (n - i + 1) * Ticks = c + Rate * (now - admitted[i])
      PROVE  tokens' + (n + 1 - i + 1) * Ticks = c + Rate * (now - admitted[i])
  <2> DEFINE g == (n - i + 1) * Ticks
             h == (n + 1 - i + 1) * Ticks
             y == Rate * (now - admitted[i])
  <2>1. g \in Int /\ h = g + Ticks
    <3>1. \A a, t \in Int : a * t \in Int /\ (a + 1) * t = a * t + t
      OBVIOUS
    <3>2. n - i + 1 \in Int /\ n + 1 - i + 1 = (n - i + 1) + 1
      BY <1>1
    <3> HIDE DEF n
    <3> QED BY <1>1, <3>1, <3>2
  <2>2. y \in Int
    BY <1>1, Parameters
  <2> HIDE DEF g, h, y, c, n, now
  <2>3. tokens' + h = c + y
    BY <1>1, <1>3, <2>1, <2>2 DEF g, y
  <2> QED BY <2>3 DEF h, y
<1>4. ASSUME NEW i \in 1..n,
             Refilled(now) + (n - i + 1) * Ticks = c + Rate * (now - admitted[i])
      PROVE  Tight'
  <2>1. i \in 1..Len(admitted') /\ admitted'[i] = admitted[i]
    BY <1>1
  <2>2. tokens' + (Len(admitted') - i + 1) * Ticks = c + Rate * (last' - admitted'[i])
    BY <1>1, <1>3, <1>4, <2>1
  <2> QED BY <1>1, <2>1, <2>2 DEF Tight
<1>5. CASE ~ordered'
  BY <1>5 DEF Tight
<1> QED BY <1>1, <1>2, <1>4, <1>5, RefillTight

LEMMA RefuseTight ==
  ASSUME IInv, Tight, NEW r \in Requests, Refuse(r)
  PROVE  Tight'
<1>1. /\ reading[r] \in 0..MaxClock /\ reading[r] # Unset /\ last' = reading[r]
      /\ tokens' = Refilled(reading[r]) /\ admitted' = admitted
      /\ ordered' => ordered /\ InOrder(reading[r])
  BY RateLimiterAssumption DEF Refuse, IInv, TypeOK
<1>2. CASE ordered'
  BY <1>1, <1>2, RefillTight DEF Tight
<1>3. CASE ~ordered'
  BY <1>3 DEF Tight
<1> QED BY <1>2, <1>3

LEMMA TightAlways == Spec => [](IInv /\ Tight)
<1>1. Init => IInv /\ Tight
  BY InitIInv DEF Init, Tight
<1>2. IInv /\ Tight /\ [Next]_vars => IInv' /\ Tight'
  <2> SUFFICES ASSUME IInv, Tight, [Next]_vars PROVE IInv' /\ Tight'
    OBVIOUS
  <2>1. IInv'
    BY NextIInv
  <2>3. CASE UNCHANGED vars \/ Tick \/ \E r \in Requests : ReadClock(r)
    <3>1. UNCHANGED <<tokens, last, admitted, ordered>>
      BY <2>3 DEF vars, Tick, ReadClock
    <3> QED BY <2>1, <3>1 DEF Tight
  <2>4. CASE \E r \in Requests : Admit(r) \/ Refuse(r)
    BY <2>1, <2>4, AdmitTight, RefuseTight
  <2> QED BY <2>1, <2>3, <2>4 DEF Next
<1> QED BY <1>1, <1>2, PTL DEF Spec

\* The bucket never refuses too early: as long as no request was overtaken, one
\* more admission would have broken the bound (rateLimiter.allow).
THEOREM RefusalsJustified == Spec => RefusedOnlyOverBudget
<1>1. ASSUME IInv, Tight, NEW r \in Requests, Refuse(r), ordered'
      PROVE  \E i \in 1..Len(admitted) :
               ~Within(Len(admitted) - i + 2, reading[r] - admitted[i])
  <2> DEFINE now == reading[r]
             c == Capacity * Ticks
  <2>1. /\ now \in 0..MaxClock /\ ordered /\ InOrder(now) /\ Refilled(now) \in Int
        /\ Refilled(now) < Ticks /\ Ticks \in Nat /\ c \in Int /\ c >= Ticks
    <3>1. now \in 0..MaxClock /\ ordered /\ InOrder(now) /\ Refilled(now) < Ticks
      BY <1>1, RateLimiterAssumption DEF Refuse, IInv, TypeOK
    <3>2. Refilled(now) \in Int
      BY <1>1, <3>1, RefillEffect DEF IInv
    <3>3. Ticks \in Nat
      BY RateLimiterAssumption
    <3>4. c \in Int /\ c >= Ticks
      BY Parameters
    <3> HIDE DEF c, now
    <3> QED BY <3>1, <3>2, <3>3, <3>4
  <2>2. PICK i \in 1..Len(admitted) :
          Refilled(now) + (Len(admitted) - i + 1) * Ticks = c + Rate * (now - admitted[i])
    <3>1. \/ Refilled(now) = c
          \/ \E i \in 1..Len(admitted) :
               Refilled(now) + (Len(admitted) - i + 1) * Ticks = c + Rate * (now - admitted[i])
      <4> HIDE DEF now
      <4> QED BY <1>1, <2>1, RefillTight
    <3>2. Refilled(now) # c
      <4> HIDE DEF c, now
      <4> QED BY <2>1
    <3> HIDE DEF c, now
    <3> QED BY <3>1, <3>2
  <2> DEFINE g == (Len(admitted) - i + 1) * Ticks
             h == (Len(admitted) - i + 2) * Ticks
             y == Rate * (now - admitted[i])
  <2>3. Len(admitted) \in Nat /\ admitted[i] \in Int /\ now \in Int
    BY <1>1, <2>1, RateLimiterAssumption DEF IInv, TypeOK
  <2>4. g \in Int /\ h = g + Ticks /\ h \in Int
    <3>1. \A a, t \in Int : a * t \in Int /\ (a + 1) * t = a * t + t
      OBVIOUS
    <3>2. Len(admitted) - i + 1 \in Int /\ Len(admitted) - i + 2 = (Len(admitted) - i + 1) + 1
      BY <2>3
    <3> QED BY <2>1, <3>1, <3>2
  <2>5. y \in Int
    BY <2>3, Parameters
  <2> HIDE DEF g, h, y, c, now
  <2>6. ~(h <= c + y)
    BY <2>1, <2>2, <2>4, <2>5 DEF g, y
  <2> QED BY <2>6 DEF Within, h, y, c, now
<1>2. IInv /\ Tight /\ [Next]_vars
        => [\A r \in Requests : Refuse(r) /\ ordered' =>
              \E i \in 1..Len(admitted) :
                ~Within(Len(admitted) - i + 2, reading[r] - admitted[i])]_vars
  BY <1>1
<1> QED BY <1>2, TightAlways, PTL DEF Spec, RefusedOnlyOverBudget
=============================================================================
