------------------------- MODULE CancellationProofs -------------------------
(***************************************************************************)
(* Theorems about Cancellation, for any length of a second, any width of   *)
(* the seconds and any timeouts.                                           *)
(***************************************************************************)
EXTENDS Cancellation, TLAPS

----------------------------------------------------------------------------
(* Seconds and milliseconds. *)

\* A product of times.
LEMMA Product == \A a, b \in Nat : a * b \in Nat
OBVIOUS

\* Quotient and remainder.
LEMMA DivMod ==
    ASSUME NEW t \in Int, NEW w \in Int, w > 0
    PROVE  t = w * (t \div w) + (t % w)
OBVIOUS

\* A time is its seconds and its milliseconds.
LEMMA Split ==
    ASSUME NEW t \in Nat
    PROVE  /\ t \div Second \in Nat /\ t % Second \in Nat /\ t % Second < Second
           /\ t = Second * (t \div Second) + (t % Second)
<1>1. t \in Int /\ Second \in Int /\ Second > 0
  BY TimeOK
<1>2. t \div Second \in Nat /\ t % Second \in Nat /\ t % Second < Second
  BY TimeOK
<1>3. t = Second * (t \div Second) + (t % Second)
  BY <1>1, DivMod, Zenon
<1> QED
  BY <1>2, <1>3

\* More seconds are more time.
LEMMA Longer ==
    ASSUME NEW s \in Nat, NEW a \in Nat, NEW b \in Nat, a < b
    PROVE  s * a + s <= s * b
<1>1. PICK d \in Nat : b = a + 1 + d
  <2>1. b - a - 1 \in Nat /\ b = a + 1 + (b - a - 1)
    OBVIOUS
  <2> QED
    BY <2>1
<1>2. s * b = s * a + s + s * d
  BY <1>1
<1>3. s * d \in Nat /\ s * a \in Nat
  OBVIOUS
<1> QED
  BY <1>2, <1>3

\* Times compare by their seconds, and then by their milliseconds.
LEMMA Compare ==
    ASSUME NEW t \in Nat, NEW s \in Nat, NEW m \in 0 .. Second
    PROVE  t >= Second * s + m <=>
             \/ t \div Second > s
             \/ t \div Second = s /\ t % Second >= m
<1> DEFINE q == t \div Second
           r == t % Second
<1>1. q \in Nat /\ r \in Nat /\ r < Second /\ t = Second * q + r
  BY Split, TimeOK
<1>2. Second \in Nat /\ m \in Nat /\ m <= Second /\ Second * q \in Nat /\ Second * s \in Nat
  BY <1>1, TimeOK
<1> HIDE DEF q, r
<1>3. CASE q > s
  <2>1. Second * s + Second <= Second * q
    BY <1>1, <1>2, <1>3, Longer
  <2> QED
    BY <1>1, <1>2, <1>3, <2>1 DEF q, r
<1>4. CASE q = s
  BY <1>1, <1>2, <1>4 DEF q, r
<1>5. CASE q < s
  <2>1. Second * q + Second <= Second * s
    BY <1>1, <1>2, <1>5, Longer
  <2>2. t < Second * s + m
    BY <1>1, <1>2, <2>1
  <2> QED
    BY <1>1, <1>2, <1>5, <2>2 DEF q, r
<1> QED
  BY <1>1, <1>2, <1>3, <1>4, <1>5

\* A difference taken modulo the width of an integer is no more than the difference, and
\* is the difference unless it wraps.
LEMMA Modulo ==
    ASSUME NEW d \in Nat, NEW w \in Nat \ {0}
    PROVE  /\ d % w \in Nat /\ d % w <= d
           /\ d < w => d % w = d
<1> DEFINE q == d \div w
           r == d % w
<1>1. q \in Nat /\ r \in Nat /\ r < w /\ d = w * q + r
  OBVIOUS
<1>2. w * q \in Nat
  BY <1>1
<1> HIDE DEF q, r
<1>3. r <= d
  BY <1>1, <1>2
<1>4. ASSUME d < w PROVE r = d
  <2>1. CASE q = 0
    BY <1>1, <2>1
  <2>2. CASE q > 0
    <3>1. w * 0 + w <= w * q
      BY <1>1, <2>2, Longer
    <3> QED
      BY <1>1, <1>2, <1>4, <3>1
  <2> QED
    BY <1>1, <2>1, <2>2
<1> QED
  BY <1>1, <1>3, <1>4 DEF r

----------------------------------------------------------------------------
(* The invariant. *)

\* A request that is still pending was made since the last call ended.
AskedFor ==
    cancel => /\ asked # 0
              /\ asked = Phase \/ (running /\ asked = Phase - 1)

\* A TA that sleeps went to sleep in the past.
AsleepSince == waited = Awake \/ (waited.time \in Timeouts /\ waited.base <= now)

\* Its sleep is over at the time it asked for, and is not overslept by more than Late.
AsleepUntil ==
    waited # Awake /\ waited.time + Late <= MaxUint
        => /\ waited.wake = waited.base + waited.time
           /\ now <= waited.wake + Late

\* The time to cancel the call, as it was computed when the call started.
DueAt ==
    running =>
        /\ timeout = Infinite => cancel_time = Forever
        /\ timeout # Infinite
             /\ (start \div Second) + (timeout \div Second) < MaxUint
             /\ (start % Second) + (timeout % Second) <= Second
           => cancel_time = [seconds |-> (start \div Second) + (timeout \div Second),
                             millis |-> (start % Second) + (timeout % Second)]

\* What waited may be (TypeOK).
Waits == [base : 0 .. Horizon, time : Timeouts \cup {Infinite}, wake : 0 .. Horizon + MaxUint]

IInv == TypeOK /\ AskedFor /\ AsleepSince /\ AsleepUntil /\ DueAt

\* set_invoke_timeout() stays in 32 bits of seconds.
LEMMA DeadlineType ==
    ASSUME now \in 0 .. Horizon, NEW to \in Timeouts \cup {Infinite}
    PROVE  Deadline(to) \in Time
<1>1. Forever \in Time
  BY TimeOK DEF Forever, Time
<1>2. CASE to = Infinite
  BY <1>1, <1>2 DEF Deadline
<1>3. CASE to # Infinite
  <2> DEFINE s == Seconds + (to \div Second)
             m == Millis + (to % Second)
  <2>0. to \in Nat /\ now \in Nat
    BY <1>3, TimeoutsOK, TimeOK, HorizonOK
  <2>1. /\ Seconds \in Nat /\ Millis \in Nat /\ Millis < Second
        /\ to \div Second \in Nat /\ to % Second \in Nat /\ to % Second < Second
    BY <2>0, Split DEF Seconds, Millis
  <2>2. s \in Nat /\ m \in Nat /\ m < 2 * Second
    BY <2>1, TimeOK
  <2>3. Sum(to) = [seconds |-> s, millis |-> m] /\ Sum(to).seconds = s /\ Sum(to).millis = m
    BY DEF Sum
  <2>4. Deadline(to) = IF s > MaxUint THEN Forever
                       ELSE IF m <= Second THEN Sum(to)
                       ELSE IF Seconds + 1 > MaxUint THEN Forever
                       ELSE [seconds |-> (Seconds + 1 + 1) % (MaxUint + 1), millis |-> m - Second]
    BY <1>3, <2>3 DEF Deadline
  <2> HIDE DEF s, m
  <2>5. CASE s <= MaxUint /\ m <= Second
    <3>1. [seconds |-> s, millis |-> m] \in Time
      BY <2>2, <2>5, TimeOK DEF Time
    <3> QED
      BY <2>2, <2>3, <2>4, <2>5, <3>1, TimeOK
  <2>6. CASE s <= MaxUint /\ m > Second
    <3>1. (Seconds + 1 + 1) % (MaxUint + 1) \in 0 .. MaxUint
      BY <2>1, TimeOK
    <3>2. m - Second \in 0 .. 2 * Second
      BY <2>2, <2>6, TimeOK
    <3>3. [seconds |-> (Seconds + 1 + 1) % (MaxUint + 1), millis |-> m - Second] \in Time
      BY <3>1, <3>2 DEF Time
    <3> QED
      BY <1>1, <2>1, <2>2, <2>4, <2>6, <3>3, TimeOK
  <2>7. CASE s > MaxUint
    BY <1>1, <2>4, <2>7
  <2> QED
    BY <2>2, <2>5, <2>6, <2>7, TimeOK
<1> QED
  BY <1>2, <1>3

\* It adds the seconds and the milliseconds when neither carries.
LEMMA DeadlineSum ==
    ASSUME now \in 0 .. Horizon, NEW to \in Timeouts \cup {Infinite}
    PROVE  /\ to = Infinite => Deadline(to) = Forever
           /\ to # Infinite
                /\ (now \div Second) + (to \div Second) < MaxUint
                /\ (now % Second) + (to % Second) <= Second
              => Deadline(to) = [seconds |-> (now \div Second) + (to \div Second),
                                 millis |-> (now % Second) + (to % Second)]
<1>1. CASE to = Infinite
  BY <1>1 DEF Deadline
<1>2. CASE to # Infinite
  <2>0. to \in Nat /\ now \in Nat
    BY <1>2, TimeoutsOK, TimeOK, HorizonOK
  <2>1. Sum(to).seconds = (now \div Second) + (to \div Second)
        /\ Sum(to).millis = (now % Second) + (to % Second)
    BY DEF Sum, Seconds, Millis
  <2>2. (now \div Second) + (to \div Second) \in Nat /\ MaxUint \in Nat
    BY <2>0, Split, TimeOK
  <2> QED
    BY <1>2, <2>1, <2>2 DEF Deadline, Sum, Seconds, Millis
<1> QED
  BY <1>1, <1>2

\* The time that syscall_wait() measures is no more than the time that passed, and is that
\* time unless it wraps.
LEMMA ElapsedIs ==
    ASSUME TypeOK, AsleepSince, waited # Awake
    PROVE  /\ Elapsed \in Nat /\ Elapsed <= now - waited.base
           /\ now - waited.base <= MaxUint => Elapsed = now - waited.base
<1>1. PICK b \in Nat : b = waited.base /\ b <= now
  BY HorizonOK DEF TypeOK, AsleepSince
<1>2. now \in Nat /\ MaxUint + 1 \in Nat \ {0} /\ Second \in Nat \ {0}
  BY HorizonOK, TimeOK DEF TypeOK
<1> DEFINE w == MaxUint + 1
           d == now - b
<1>3. w \in Nat \ {0} /\ d \in Nat
  BY <1>1, <1>2
<1>4. /\ Seconds \in Nat /\ Millis \in Nat /\ now = Second * Seconds + Millis
      /\ b \div Second \in Nat /\ b % Second \in Nat
      /\ b = Second * (b \div Second) + (b % Second)
  BY <1>1, <1>2, Split DEF Seconds, Millis
<1>5. (Seconds - (b \div Second)) * Second = Second * Seconds - Second * (b \div Second)
  BY <1>2, <1>4
<1>6. (Seconds - (b \div Second)) * Second + Millis - (b % Second) = d
  <2>1. Second * Seconds \in Nat /\ Second * (b \div Second) \in Nat
    BY <1>2, <1>4
  <2> QED
    BY <1>1, <1>2, <1>3, <1>4, <1>5, <2>1
<1>7. Elapsed = d % w
  BY <1>1, <1>6 DEF Elapsed
<1> HIDE DEF w, d
<1>8. d % w \in Nat /\ d % w <= d /\ (d < w => d % w = d)
  BY <1>3, Modulo
<1>9. Elapsed \in Nat /\ Elapsed <= d /\ (d < w => Elapsed = d)
  BY <1>7, <1>8
<1>10. d = now - waited.base /\ (d <= MaxUint <=> d < w)
  BY <1>1, <1>2, <1>3, TimeOK DEF d, w
<1> QED
  BY <1>9, <1>10

\* The session starts with no request and no call.
LEMMA InitIInv == Init => IInv
<1> SUFFICES ASSUME Init PROVE IInv
  OBVIOUS
<1> USE DEF Init
<1>1. cancel_time \in Time
  BY TimeOK DEF Time
<1>2. waited \in Waits
  BY HorizonOK, TimeOK DEF Awake, Waits
<1>3. now \in 0 .. Horizon /\ ops \in 0 .. MaxOps /\ start \in 0 .. Horizon
      /\ asked \in 0 .. 2 * MaxOps
  BY HorizonOK
<1>4. {cancel, cancel_mask, running} \subseteq BOOLEAN
      /\ timeout \in Timeouts \cup {Infinite}
  OBVIOUS
<1>5. TypeOK
  BY <1>1, <1>2, <1>3, <1>4 DEF TypeOK, Waits
<1> QED
  BY <1>5 DEF IInv, AskedFor, AsleepSince, AsleepUntil, DueAt

\* Every step preserves the invariant.
LEMMA IInvStep == IInv /\ [Next]_vars => IInv'
<1> SUFFICES ASSUME IInv, [Next]_vars PROVE IInv'
  OBVIOUS
<1> USE HorizonOK
<1>0. /\ now \in Nat /\ ops \in Nat /\ asked \in Nat
      /\ now \in 0 .. Horizon
  BY DEF IInv, TypeOK
<1>1. ASSUME NEW to \in Timeouts \cup {Infinite}, Enter(to) PROVE IInv'
  <2>1. Deadline(to) \in Time
    BY <1>0, DeadlineType
  <2>2. TypeOK'
    BY <1>1, <2>1 DEF IInv, TypeOK, Enter
  <2>3. AskedFor' /\ AsleepSince' /\ AsleepUntil'
    BY <1>0, <1>1 DEF IInv, AskedFor, AsleepSince, AsleepUntil, Enter, Phase
  <2>4. DueAt'
    BY <1>0, <1>1, DeadlineSum DEF DueAt, Enter
  <2> QED
    BY <2>2, <2>3, <2>4 DEF IInv
<1>2. CASE Return
  BY <1>0, <1>2 DEF Return, IInv, TypeOK, AskedFor, AsleepSince, AsleepUntil, DueAt
<1>3. CASE Cancel
  <2>1. Phase' = Phase /\ Phase \in 1 .. 2 * MaxOps
    BY <1>0, <1>3 DEF Cancel, Phase, IInv, TypeOK
  <2>2. AskedFor'
    BY <1>3, <2>1 DEF Cancel, AskedFor
  <2> QED
    BY <1>0, <1>3, <2>1, <2>2 DEF Cancel, IInv, TypeOK, AsleepSince, AsleepUntil, DueAt
<1>4. ASSUME NEW m \in BOOLEAN, Mask(m) PROVE IInv'
  BY <1>0, <1>4 DEF Mask, IInv, TypeOK, AskedFor, AsleepSince, AsleepUntil, DueAt, Phase
<1>5. ASSUME NEW to \in Timeouts, Wait(to) PROVE IInv'
  <2>0. to \in 0 .. MaxUint /\ MaxUint \in Nat /\ Late \in Nat
    BY TimeOK, TimeoutsOK
  <2> DEFINE W == [base |-> now, time |-> to, wake |-> now + to]
  <2>1. waited' = Awake \/ waited' = W
    BY <1>5 DEF Wait
  <2>2. Awake \in Waits
    BY TimeOK DEF Awake, Waits
  <2>3. W \in Waits
    BY <1>0, <2>0 DEF Waits
  <2>4. TypeOK'
    BY <1>0, <1>5, <2>1, <2>2, <2>3 DEF Wait, IInv, TypeOK, Waits
  <2>5. AskedFor' /\ DueAt'
    BY <1>0, <1>5 DEF Wait, IInv, AskedFor, DueAt, Phase
  <2>6. AsleepSince' /\ AsleepUntil'
    BY <1>0, <1>5, <2>0, <2>1 DEF Wait, AsleepSince, AsleepUntil
  <2> QED
    BY <2>4, <2>5, <2>6 DEF IInv
<1>6. CASE Resume
  <2>0. MaxUint \in Nat /\ Late \in Nat /\ Timeouts \subseteq Nat
    BY TimeOK, TimeoutsOK
  <2>1. /\ waited \in Waits /\ waited # Awake
        /\ waited.time \in Timeouts /\ waited.base <= now
    BY <1>6 DEF Resume, IInv, TypeOK, AsleepSince, Waits
  <2>2. PICK b \in 0 .. Horizon, t \in 0 .. MaxUint :
          b = waited.base /\ t = waited.time
    BY <2>1, TimeoutsOK DEF Waits
  <2>3. PICK e \in Nat : e = Elapsed /\ e <= now - b /\ (now - b <= MaxUint => e = now - b)
    BY <1>6, <2>2, ElapsedIs DEF Resume, IInv
  <2>4. CASE waited' = Awake
    <3>1. Awake \in Waits
      BY <2>0 DEF Awake, Waits
    <3>2. TypeOK'
      BY <1>0, <1>6, <2>4, <3>1 DEF Resume, IInv, TypeOK, Waits
    <3> QED
      BY <1>6, <2>4, <3>2 DEF Resume, IInv, AskedFor, AsleepSince, AsleepUntil, DueAt, Phase
  <2>5. CASE waited' = [waited EXCEPT !.wake = now + (t - e)] /\ e < t
    <3>1. now + (t - e) \in 0 .. Horizon + MaxUint
      BY <1>0, <2>0, <2>2, <2>3, <2>5
    <3>2. waited' \in Waits
      BY <2>1, <2>5, <3>1 DEF Waits
    <3>3. waited'.base = b /\ waited'.time = t /\ waited'.wake = now + (t - e) /\ now' = now
      BY <1>6, <2>1, <2>2, <2>5 DEF Resume, Waits
    <3>4. TypeOK' /\ AskedFor' /\ DueAt'
      BY <1>0, <1>6, <3>2 DEF Resume, IInv, TypeOK, AskedFor, DueAt, Phase, Waits
    <3>5. AsleepSince'
      BY <2>1, <2>2, <3>3 DEF AsleepSince
    <3>6. AsleepUntil'
      <4> SUFFICES ASSUME t + Late <= MaxUint
                   PROVE  now + (t - e) = b + t /\ now <= (now + (t - e)) + Late
        BY <3>3 DEF AsleepUntil
      <4>1. waited.wake = b + t /\ now <= waited.wake + Late
        BY <2>1, <2>2 DEF IInv, AsleepUntil
      <4> QED
        BY <1>0, <2>0, <2>2, <2>3, <4>1
    <3> QED
      BY <3>4, <3>5, <3>6 DEF IInv
  <2> QED
    BY <1>6, <2>2, <2>3, <2>4, <2>5 DEF Resume
<1>7. CASE Tick
  <2>0. MaxUint \in Nat /\ Late \in Nat /\ Timeouts \subseteq Nat
    BY TimeOK, TimeoutsOK
  <2>1. TypeOK' /\ AskedFor' /\ DueAt'
    BY <1>0, <1>7 DEF Tick, IInv, TypeOK, AskedFor, DueAt, Phase
  <2>2. waited.base \in Nat /\ waited.wake \in Nat /\ waited' = waited /\ now' = now + 1
    BY <1>7, <2>0 DEF IInv, TypeOK, Tick
  <2>3. AsleepSince'
    BY <1>0, <2>2 DEF IInv, AsleepSince
  <2>4. AsleepUntil'
    BY <1>0, <1>7, <2>0, <2>2 DEF Tick, IInv, AsleepUntil
  <2> QED
    BY <2>1, <2>3, <2>4 DEF IInv
<1>8. CASE UNCHANGED vars
  BY <1>8 DEF vars, IInv, TypeOK, AskedFor, AsleepSince, AsleepUntil, DueAt, Phase
<1> QED
  BY <1>1, <1>2, <1>3, <1>4, <1>5, <1>6, <1>7, <1>8 DEF Next

\* The invariant holds in every behaviour.
THEOREM Inductive == Spec => []IInv
BY InitIInv, IInvStep, PTL DEF Spec

----------------------------------------------------------------------------
(* What follows. *)

\* A TA sees a cancellation only because its call has a timeout, or for a request that the
\* client made during this call or after the last one had ended: user_ta_enter() clears
\* what was asked for during a call when the call ends.
THEOREM CancelledForAReason == Spec => []NoSpuriousCancel
<1>1. IInv => NoSpuriousCancel
  <2> SUFFICES ASSUME IInv, running, IsCancelled, timeout = Infinite
               PROVE  asked \in {Phase - 1, Phase} \ {0}
    BY DEF NoSpuriousCancel
  <2>1. cancel_time.seconds = MaxUint
    BY DEF IInv, DueAt, Forever
  <2>2. cancel
    BY <2>1 DEF IsCancelled
  <2> QED
    BY <2>2 DEF IInv, AskedFor
<1> QED
  BY <1>1, Inductive, PTL

\* The fields of the session stay in 32 bits of seconds, and a call whose end carries
\* neither milliseconds nor seconds is cancelled from the millisecond that its timeout
\* names: set_invoke_timeout() and tee_ta_session_is_cancelled() agree.
THEOREM CancelledAtItsTime == Spec => []DeadlineOK
<1>1. IInv => DeadlineOK
  <2> SUFFICES ASSUME IInv PROVE CancelledOnTime
    BY DEF IInv, DeadlineOK
  <2> SUFFICES ASSUME running, ~cancel_mask, ~cancel, timeout # Infinite,
                      (start + timeout) \div Second < MaxUint,
                      (start % Second) + (timeout % Second) <= Second
               PROVE  IsCancelled <=> now >= start + timeout
    BY DEF CancelledOnTime
  <2> DEFINE s == (start \div Second) + (timeout \div Second)
             m == (start % Second) + (timeout % Second)
  <2>1. start \in Nat /\ timeout \in Nat /\ now \in Nat /\ start + timeout \in Nat
    BY TimeOK, TimeoutsOK, HorizonOK DEF IInv, TypeOK
  <2>2. /\ s \in Nat /\ m \in 0 .. Second
        /\ start + timeout = Second * s + m
    <3>1. /\ start \div Second \in Nat /\ start % Second \in Nat
          /\ start = Second * (start \div Second) + (start % Second)
      BY <2>1, Split
    <3>2. /\ timeout \div Second \in Nat /\ timeout % Second \in Nat
          /\ timeout = Second * (timeout \div Second) + (timeout % Second)
      BY <2>1, Split
    <3>3. Second * s = Second * (start \div Second) + Second * (timeout \div Second)
      BY <3>1, <3>2, TimeOK
    <3>4. Second * (start \div Second) \in Nat /\ Second * (timeout \div Second) \in Nat
      BY <3>1, <3>2, TimeOK, Product, Zenon
    <3> QED
      BY <2>1, <3>1, <3>2, <3>3, <3>4, TimeOK
  <2> HIDE DEF s, m
  <2>3. s < MaxUint
    <3>1. start + timeout >= Second * s + 0
      BY <2>2, TimeOK
    <3>2. 0 \in 0 .. Second
      BY TimeOK
    <3>3. \/ (start + timeout) \div Second > s
          \/ (start + timeout) \div Second = s /\ (start + timeout) % Second >= 0
      BY <2>1, <2>2, <3>1, <3>2, Compare, Zenon
    <3>4. (start + timeout) \div Second \in Nat
      BY <2>1, Split
    <3> QED
      BY <2>2, <3>3, <3>4, TimeOK
  <2>4. cancel_time = [seconds |-> s, millis |-> m]
    BY <2>3 DEF IInv, DueAt, s, m
  <2> DEFINE Later == now \div Second > s \/ (now \div Second = s /\ now % Second >= m)
  <2>5. IsCancelled <=> Later
    <3>1. cancel_time.seconds = s /\ cancel_time.millis = m /\ s # MaxUint
      BY <2>2, <2>3, <2>4, TimeOK
    <3> QED
      BY <3>1 DEF IsCancelled, Seconds, Millis
  <2>6. now >= Second * s + m <=> Later
    BY <2>1, <2>2, Compare, Zenon
  <2> QED
    BY <2>2, <2>5, <2>6, Zenon
<1> QED
  BY <1>1, Inductive, PTL

\* syscall_wait() returns no sooner than it was asked to unless the TA is cancelled: its
\* subtraction of seconds and milliseconds modulo 2^32 never exceeds the time that passed.
THEOREM NoEarlyReturn == Spec => WaitNotEarly
<1>1. IInv /\ [Next]_vars =>
        [waited # Awake /\ waited' = Awake
           => now - waited.base >= waited.time \/ (~cancel_mask /\ IsCancelled)]_vars
  <2> SUFFICES ASSUME IInv, Next, waited # Awake, waited' = Awake, ~IsCancelled
               PROVE  now - waited.base >= waited.time
    BY DEF IsCancelled
  <2>1. Resume
    BY DEF Next, Enter, Return, Cancel, Mask, Wait, Tick
  <2>2. waited.time \in Nat
    <3>1. waited.time \in Timeouts
      BY DEF IInv, AsleepSince
    <3>2. \A t \in Timeouts : t \in Nat
      BY TimeOK, TimeoutsOK
    <3> QED
      BY <3>1, <3>2
  <2>3. waited.base \in Nat /\ now \in Nat /\ waited \in Waits
    BY HorizonOK DEF IInv, TypeOK, Waits
  <2>4. Elapsed \in Nat /\ Elapsed <= now - waited.base
    BY ElapsedIs DEF IInv
  <2>5. Elapsed >= waited.time
    <3> SUFFICES ASSUME Elapsed < waited.time PROVE FALSE
      BY <2>2, <2>4
    <3>1. waited' = [waited EXCEPT !.wake = now + (waited.time - Elapsed)]
      BY <2>1, <2>2, <2>4 DEF Resume
    <3>2. waited'.wake = now + (waited.time - Elapsed)
      BY <2>3, <3>1 DEF Waits
    <3>3. waited'.wake = 0
      BY DEF Awake
    <3> QED
      BY <2>2, <2>3, <2>4, <3>2, <3>3
  <2> QED
    BY <2>2, <2>3, <2>4, <2>5
<1> QED
  BY <1>1, Inductive, PTL DEF Spec, WaitNotEarly

\* syscall_wait() does not keep the TA longer than it was asked to, but for what the normal
\* world oversleeps its last request: a round that finds itself resumed too early asks for
\* the rest of the time only.
THEOREM NoLateReturn == Spec => []WaitNotLate
<1>1. IInv => WaitNotLate
  BY DEF IInv, AsleepUntil, WaitNotLate
<1> QED
  BY <1>1, Inductive, PTL
=============================================================================
