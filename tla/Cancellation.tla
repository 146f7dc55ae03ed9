---------------------------- MODULE Cancellation ----------------------------
(***************************************************************************)
(* Cancelling the call that a session has in progress: the cancel fields   *)
(* of struct tee_ta_session, set by tee_ta_open_session() and              *)
(* tee_ta_invoke_command() (set_invoke_timeout()), by the client's request *)
(* (tee_ta_cancel_command()) and by the TA's own syscalls, and read by     *)
(* tee_ta_session_is_cancelled(), for a TA that polls and for one that     *)
(* sleeps in syscall_wait().  One session; its calls exclude each other    *)
(* (module TaManager) but a request for cancellation may come at any time. *)
(***************************************************************************)
EXTENDS Integers

CONSTANTS
    Second,     \* milliseconds in a second
    MaxUint,    \* UINT32_MAX, of seconds and of milliseconds
    Timeouts,   \* the finite values of cancel_req_to and of TEE_Wait()
    Late,       \* by how much the normal world may oversleep a SUSPEND request
    Horizon,    \* bound: the time at which the clock stops
    MaxOps,     \* bound: how many calls are made
    Infinite    \* TEE_TIMEOUT_INFINITE

ASSUME TimeOK == Second \in Nat \ {0} /\ MaxUint \in Nat
ASSUME TimeoutsOK == Timeouts \subseteq 0 .. MaxUint /\ Late \in Nat
ASSUME HorizonOK == Horizon \in Nat /\ MaxOps \in Nat

VARIABLES
    now,            \* system time in milliseconds
    cancel, cancel_mask, cancel_time,
    running,        \* the TA is in the call
    waited,         \* syscall_wait(): base_time, timeout, and when the sleep in progress is over
    \* history
    ops,            \* how many calls were made
    start, timeout, \* when the call started, and its cancel_req_to
    asked           \* the phase of the session in which cancel was last asked for

vars == <<now, cancel, cancel_mask, cancel_time, running, waited, ops, start, timeout, asked>>

Time == [seconds : 0 .. MaxUint, millis : 0 .. 2 * Second]
Forever == [seconds |-> MaxUint, millis |-> 2 * Second]
Awake == [base |-> 0, time |-> Infinite, wake |-> 0]

\* The phases of a session: call number n is phase 2n - 1, and phase 2n is
\* the time from its end to the beginning of the next call.
Phase == IF running THEN 2 * ops - 1 ELSE 2 * ops

TypeOK ==
    /\ now \in 0 .. Horizon
    /\ {cancel, cancel_mask, running} \subseteq BOOLEAN
    /\ cancel_time \in Time
    /\ waited \in [base : 0 .. Horizon, time : Timeouts \cup {Infinite}, wake : 0 .. Horizon + MaxUint]
    /\ ops \in 0 .. MaxOps /\ start \in 0 .. Horizon
    /\ timeout \in Timeouts \cup {Infinite}
    /\ asked \in 0 .. 2 * MaxOps

\* tee_ta_init_session()
Init ==
    /\ now = 0
    /\ cancel = FALSE /\ cancel_mask = TRUE /\ cancel_time = [seconds |-> 0, millis |-> 0]
    /\ running = FALSE /\ waited = Awake
    /\ ops = 0 /\ start = 0 /\ timeout = Infinite /\ asked = 0

Seconds == now \div Second
Millis == now % Second

\* The time plus to milliseconds when neither millis nor seconds carry.
Sum(to) == [seconds |-> Seconds + (to \div Second), millis |-> Millis + (to % Second)]

\* Mutant: milliseconds that add up to a second count as a carry.
DeadlineCarries(to) ==
    IF to = Infinite THEN Forever
    ELSE IF Sum(to).seconds > MaxUint THEN Forever
    ELSE IF Sum(to).millis < Second THEN Sum(to)
    ELSE IF Seconds + 1 > MaxUint THEN Forever
    ELSE [seconds |-> (Seconds + 1 + 1) % (MaxUint + 1), millis |-> Sum(to).millis - Second]

\* set_invoke_timeout().  When the milliseconds carry, the seconds are
\* computed again, from the current time.
Deadline(to) ==
    IF to = Infinite THEN Forever
    ELSE IF Sum(to).seconds > MaxUint THEN Forever
    ELSE IF Sum(to).millis <= Second THEN Sum(to)
    ELSE IF Seconds + 1 > MaxUint THEN Forever
    ELSE [seconds |-> (Seconds + 1 + 1) % (MaxUint + 1), millis |-> Sum(to).millis - Second]

\* tee_ta_session_is_cancelled()
IsCancelled ==
    /\ ~cancel_mask
    /\ \/ cancel
       \/ /\ cancel_time.seconds # MaxUint
          /\ \/ Seconds > cancel_time.seconds
             \/ Seconds = cancel_time.seconds /\ Millis >= cancel_time.millis

\* tee_ta_open_session(), tee_ta_invoke_command(): the TA is entered.
Enter(to) ==
    /\ ~running /\ ops < MaxOps
    /\ running' = TRUE
    /\ cancel_time' = Deadline(to)
    /\ ops' = ops + 1 /\ start' = now /\ timeout' = to
    /\ UNCHANGED <<now, cancel, cancel_mask, waited, asked>>

\* Mutant: the request is not cleared.
ReturnCancelled ==
    /\ running /\ waited = Awake
    /\ running' = FALSE
    /\ UNCHANGED <<now, cancel, cancel_mask, cancel_time, waited, ops, start, timeout, asked>>

\* user_ta_enter() when the TA has returned.
Return ==
    /\ running /\ waited = Awake
    /\ running' = FALSE
    /\ cancel' = FALSE
    /\ UNCHANGED <<now, cancel_mask, cancel_time, waited, ops, start, timeout, asked>>

\* tee_ta_cancel_command(): the client asks to cancel the call it last made;
\* the call may have ended when the request is handled.
Cancel ==
    /\ ops > 0
    /\ cancel' = TRUE
    /\ asked' = Phase
    /\ UNCHANGED <<now, cancel_mask, cancel_time, running, waited, ops, start, timeout>>

\* syscall_mask_cancellation(), syscall_unmask_cancellation()
Mask(m) ==
    /\ running /\ waited = Awake
    /\ cancel_mask' = m
    /\ UNCHANGED <<now, cancel, cancel_time, running, waited, ops, start, timeout, asked>>

\* syscall_wait(): the first round of its loop may end it, or the thread
\* sleeps in the normal world for the whole timeout: tee_time_wait() is one
\* SUSPEND request ...
Wait(to) ==
    /\ running /\ waited = Awake
    /\ waited' = IF IsCancelled \/ to = 0 THEN Awake
                 ELSE [base |-> now, time |-> to, wake |-> now + to]
    /\ UNCHANGED <<now, cancel, cancel_mask, cancel_time, running, ops, start, timeout, asked>>

\* Mutant: the milliseconds of the two times are not subtracted.
ElapsedSeconds ==
    ((Seconds - (waited.base \div Second)) * Second + Millis) % (MaxUint + 1)

\* mytime, a uint32_t of milliseconds, as syscall_wait() computes it.
Elapsed ==
    ((Seconds - (waited.base \div Second)) * Second + Millis - (waited.base % Second))
        % (MaxUint + 1)

\* Mutant: the thread sleeps for the whole timeout again.
ResumeFull ==
    /\ waited # Awake
    /\ waited' = IF IsCancelled \/ Elapsed >= waited.time THEN Awake
                 ELSE [waited EXCEPT !.wake = now + waited.time]
    /\ UNCHANGED <<now, cancel, cancel_mask, cancel_time, running, ops, start, timeout, asked>>

\* ... the normal world resumes it, sooner or later than it was asked to, and
\* the next round ends the call or sleeps for the rest of the time.  A request
\* to cancel does not resume the thread.
Resume ==
    /\ waited # Awake
    /\ waited' = IF IsCancelled \/ Elapsed >= waited.time THEN Awake
                 ELSE [waited EXCEPT !.wake = now + (waited.time - Elapsed)]
    /\ UNCHANGED <<now, cancel, cancel_mask, cancel_time, running, ops, start, timeout, asked>>

\* Time passes, but the normal world does not oversleep a request by more
\* than Late.
Tick ==
    /\ now < Horizon
    /\ waited = Awake \/ now < waited.wake + Late
    /\ now' = now + 1
    /\ UNCHANGED <<cancel, cancel_mask, cancel_time, running, waited, ops, start, timeout, asked>>

Next ==
    \/ \E to \in Timeouts \cup {Infinite} : Enter(to)
    \/ Return \/ Cancel
    \/ \E m \in BOOLEAN : Mask(m)
    \/ \E to \in Timeouts : Wait(to)
    \/ Resume \/ Tick

Spec == Init /\ [][Next]_vars

----------------------------------------------------------------------------
\* user_ta_enter(): the next operation "should not have an old cancellation
\* pending".  The TA sees a cancellation only if its call has a timeout or if
\* the client asked for one since the last call ended: one that was asked for
\* during an earlier call is gone, whether the TA looked at it or not.
NoSpuriousCancel ==
    running /\ IsCancelled => asked \in {Phase - 1, Phase} \ {0} \/ timeout # Infinite

\* A TA that masks cancellation is not woken early: it leaves syscall_wait()
\* no sooner than the time it asked for, whatever seconds and milliseconds
\* carry, and without a mask only when it is cancelled.
WaitNotEarly ==
    [][waited # Awake /\ waited' = Awake
         => now - waited.base >= waited.time \/ (~cancel_mask /\ IsCancelled)]_vars

\* syscall_wait() does not sleep longer than it was asked to, but for what the
\* normal world oversleeps the last of its requests, however often it resumes
\* the thread too early; provided that mytime does not wrap.
WaitNotLate ==
    waited # Awake /\ waited.time + Late <= MaxUint
        => now <= waited.base + waited.time + Late

\* struct tee_ta_session: cancel_time is the "Time when to cancel the TA
\* invocation": an unmasked call with a timeout is cancelled from then on and
\* not before, at the first and the last millisecond of a second too, provided
\* that neither the milliseconds nor the seconds of its end carry.
CancelledOnTime ==
    running /\ ~cancel_mask /\ ~cancel /\ timeout # Infinite
            /\ (start + timeout) \div Second < MaxUint
            /\ (start % Second) + (timeout % Second) <= Second
        => (IsCancelled <=> now >= start + timeout)

\* Times stay in 32 bits of seconds (ADD_OVERFLOW in set_invoke_timeout()), and a call
\* is cancelled when its timeout says so.
DeadlineOK == TypeOK /\ CancelledOnTime
=============================================================================
