------------------------------ MODULE StatusLed ------------------------------
(***************************************************************************)
(* The status LED observer (status_led.c, status_led_policy.c).            *)
(*                                                                         *)
(* Other threads report semantic events under status_led_lock; the LED     *)
(* thread renders the policy state and writes the strip, every 100 ms or   *)
(* when a flash is reported, with a backoff while the strip fails.  Time   *)
(* is a uint32_t of milliseconds: here a counter of ticks modulo Wrap.     *)
(* Durations keep their order, not their ratio.                            *)
(***************************************************************************)
EXTENDS Integers, FiniteSets

CONSTANTS
    Wrap,           \* 2^32 ms, in ticks; even
    Flash,          \* STATUS_LED_NMEA_ACTIVITY_FLASH_MS
    UpdateTime,     \* STATUS_LED_UPDATE_MS
    RetryInitial, RetryMax,   \* STATUS_LED_RETRY_INITIAL_MS and _MAX_MS
    AttemptMax,     \* UINT8_MAX
    PulsePeriod,    \* STATUS_LED_CONNECTING_PERIOD_MS
    SessionMax,     \* bound on simultaneous TCP NMEA sessions
    MaxLag,         \* ticks from reading the clock to using it or ending the update
    Reported        \* the reports besides sessions: kinds of flash, and "connecting"

Kinds == {"error", "forwarded", "activity"}

ASSUME LedAssumption ==
    /\ {Wrap, Flash, UpdateTime, RetryInitial, RetryMax, AttemptMax, PulsePeriod,
        SessionMax, MaxLag} \subseteq Nat \ {0}
    /\ Wrap % 2 = 0 /\ PulsePeriod % 2 = 0
    /\ Flash + MaxLag < Wrap \div 2
    /\ Reported \subseteq Kinds \cup {"connecting"}

None == <<"none", 0>>

VARIABLES
    elapsed,        \* uptime since the start, modulo Wrap
    sessions, client_connecting,   \* active_tcp_nmea_sessions, tcp_nmea_client_connecting
    active, until,  \* per kind of flash: ..._flash_active and ..._flash_until_ms
    report,         \* a reporter that has read the clock and not yet the lock
    ledPc, seen,    \* the LED thread: "sleep" or "render", and its now_ms
    mayRetry,       \* now_ms >= next_retry_ms
    timeout,        \* ticks left of its wait for status_led_wake
    status_led_wake,
    retryIn,        \* ticks left until next_retry_ms
    failed_attempts,
    applied,        \* applied_rgb, None before the first success
    lit,            \* what the strip shows
    age,            \* per kind: ticks since the last report, up to Wrap \div 2
    sinceTry        \* ticks since the clock reading of the last update, if it failed, up to TryMax

policy == <<sessions, client_connecting, active, until>>
thread == <<ledPc, seen, mayRetry, timeout, retryIn, failed_attempts, applied, lit, sinceTry>>
ledVars == <<elapsed, policy, report, thread, status_led_wake, age>>

TryMax == RetryMax + MaxLag

LedInit ==
    /\ elapsed = 0
    /\ sessions = 0 /\ client_connecting = FALSE
    /\ active = [k \in Kinds |-> FALSE] /\ until = [k \in Kinds |-> 0]
    /\ report = None
    /\ ledPc = "sleep" /\ seen = 0 /\ mayRetry = FALSE /\ timeout = 0
    /\ status_led_wake = 0
    /\ retryIn = 0 /\ failed_attempts = 0
    /\ applied = None /\ lit = None
    /\ age = [k \in Kinds |-> Wrap \div 2]
    /\ sinceTry = TryMax

-----------------------------------------------------------------------------
(* Rendering (status_led_policy.c). *)

\* (int32_t)(now - until) < 0: the difference has its top bit set.
Negative(d) == d % Wrap >= Wrap \div 2

\* Mutant: the deadline is compared as an unsigned number.
ActiveUnsigned(k, now) == active[k] /\ now < until[k]
FlashActive(k, now) == active[k] /\ Negative(now - until[k])

BaseState == IF sessions > 0 THEN "connected"
             ELSE IF client_connecting THEN "connecting" ELSE "disconnected"

\* The height of the pulse stands for its colour.
RenderConnecting(now) ==
    LET phase == now % PulsePeriod
    IN <<"pulse", IF phase > PulsePeriod \div 2 THEN PulsePeriod - phase ELSE phase>>

RenderBase(now) == IF BaseState = "connecting" THEN RenderConnecting(now)
                   ELSE <<BaseState, 0>>

\* Error before forwarded before activity before the base state
Render(now) ==
    IF FlashActive("error", now) THEN <<"error", 0>>
    ELSE IF FlashActive("forwarded", now) THEN <<"forwarded", 0>>
    ELSE IF FlashActive("activity", now) THEN <<"activity", 0>>
    ELSE RenderBase(now)

-----------------------------------------------------------------------------
(* Reports *)

SessionStarted ==
    /\ sessions < SessionMax
    /\ sessions' = sessions + 1
    /\ UNCHANGED <<elapsed, client_connecting, active, until, report, thread,
                   status_led_wake, age>>

\* At zero sessions the count stays as it is.
SessionEnded ==
    /\ sessions > 0
    /\ sessions' = sessions - 1
    /\ UNCHANGED <<elapsed, client_connecting, active, until, report, thread,
                   status_led_wake, age>>

\* A report that repeats the last one changes nothing.
ClientConnecting ==
    /\ "connecting" \in Reported
    /\ client_connecting' = ~client_connecting
    /\ UNCHANGED <<elapsed, sessions, active, until, report, thread,
                   status_led_wake, age>>

\* The reporter reads the clock before it takes the lock ...
ReportRead(k) ==
    /\ report = None
    /\ report' = <<k, elapsed>>
    /\ age' = [age EXCEPT ![k] = 0]
    /\ UNCHANGED <<elapsed, policy, thread, status_led_wake>>

\* ... and wakes the LED thread after it has released it.
ReportStore ==
    /\ report # None
    /\ active' = [active EXCEPT ![report[1]] = TRUE]
    /\ until' = [until EXCEPT ![report[1]] = (report[2] + Flash) % Wrap]
    /\ report' = None
    /\ status_led_wake' = 1
    /\ UNCHANGED <<elapsed, sessions, client_connecting, thread, age>>

-----------------------------------------------------------------------------
(* status_led_thread *)

\* status_led_retry_delay_ms: delay_ms after n rounds of its loop, and the result
DelayAfter[n \in 0 .. AttemptMax] ==
    IF n = 0 THEN RetryInitial
    ELSE IF DelayAfter[n - 1] < RetryMax THEN 2 * DelayAfter[n - 1] ELSE DelayAfter[n - 1]

RetryDelay(attempts) ==
    IF DelayAfter[attempts - 1] > RetryMax THEN RetryMax ELSE DelayAfter[attempts - 1]

\* Mutant: the backoff is ignored.
AnyTime == TRUE
\* Mutant: a strip that has failed is not tried again.
GiveUp == failed_attempts = 0
MayRetry == retryIn = 0

\* One clock reading at the top of the loop serves the rendering, the comparison with
\* next_retry_ms and, if the update fails, the next next_retry_ms.
WakeUp ==
    /\ ledPc = "sleep"
    /\ timeout = 0 \/ status_led_wake = 1
    /\ ledPc' = "render"
    /\ seen' = elapsed
    /\ mayRetry' = MayRetry
    /\ status_led_wake' = 0 /\ timeout' = 0
    /\ UNCHANGED <<elapsed, policy, report, age, retryIn, failed_attempts,
                   applied, lit, sinceTry>>

Due(colour) == mayRetry /\ applied # colour

Sleep == ledPc' = "sleep" /\ seen' = 0 /\ mayRetry' = FALSE /\ timeout' = UpdateTime

Others == UNCHANGED <<elapsed, policy, report, age, status_led_wake>>

NothingDue ==
    /\ ledPc = "render"
    /\ ~Due(Render(seen))
    /\ Sleep /\ Others
    /\ UNCHANGED <<retryIn, failed_attempts, applied, lit, sinceTry>>

UpdateSucceeds ==
    /\ ledPc = "render"
    /\ Due(Render(seen))
    /\ lit' = Render(seen) /\ applied' = lit'
    /\ failed_attempts' = 0 /\ retryIn' = 0
    /\ sinceTry' = TryMax
    /\ Sleep /\ Others

NextAttempt == IF failed_attempts < AttemptMax THEN failed_attempts + 1
               ELSE failed_attempts

Lag(t) == (elapsed - t) % Wrap
Less(n, m) == IF n > m THEN n - m ELSE 0

\* next_retry_ms = now_ms + retry_delay_ms: the time the update took is part of the delay.
UpdateFails ==
    /\ ledPc = "render"
    /\ Due(Render(seen))
    /\ failed_attempts' = NextAttempt
    /\ retryIn' = Less(RetryDelay(NextAttempt), Lag(seen))
    /\ sinceTry' = Lag(seen)
    /\ UNCHANGED <<applied, lit>>
    /\ Sleep /\ Others

-----------------------------------------------------------------------------
(* Time: within MaxLag ticks of reading the clock a reporter has stored its *)
(* report, and the LED thread has rendered and updated the strip.           *)

Dec(n) == IF n > 0 THEN n - 1 ELSE 0
Inc(n, max) == IF n < max THEN n + 1 ELSE max

Tick ==
    /\ ledPc = "sleep" => timeout > 0
    /\ ledPc = "render" => Lag(seen) < MaxLag
    /\ report # None => Lag(report[2]) < MaxLag
    /\ elapsed' = (elapsed + 1) % Wrap
    /\ timeout' = Dec(timeout)
    /\ retryIn' = Dec(retryIn)
    /\ age' = [k \in Kinds |-> Inc(age[k], Wrap \div 2)]
    /\ sinceTry' = Inc(sinceTry, TryMax)
    /\ UNCHANGED <<policy, report, ledPc, seen, mayRetry, status_led_wake, failed_attempts,
                   applied, lit>>

Reports == SessionStarted \/ SessionEnded \/ ClientConnecting
           \/ (\E k \in Reported \cap Kinds : ReportRead(k)) \/ ReportStore
ThreadStep == WakeUp \/ NothingDue \/ UpdateSucceeds \/ UpdateFails
LedNext == Reports \/ ThreadStep \/ Tick

LedSpec == LedInit /\ [][LedNext]_ledVars

\* Time passes, or the LED thread is running, and a strip that is tried again and again
\* is updated sooner or later.
LedFairSpec == LedSpec /\ WF_ledVars(Tick \/ ThreadStep) /\ SF_ledVars(UpdateSucceeds)

-----------------------------------------------------------------------------
(* Properties *)

Flashing(k) == lit' # lit /\ lit' = <<k, 0>>

\* A flash is put on the strip only shortly after a report of its kind, over
\* the wrap of the millisecond counter too, as long as less than half the
\* range of the counter has passed since that report.
FlashIsRecent ==
    [][\A k \in Kinds : Flashing(k) /\ age[k] < Wrap \div 2 => age[k] < Flash + MaxLag]_ledVars

\* However often reports wake the thread, from the clock reading of a failed update to
\* the clock reading of the next one passes at least the backoff of that failure.  From
\* the failure itself it may be less, by the time for which the update blocked.
BackoffKept ==
    [][UpdateSucceeds \/ UpdateFails =>
          failed_attempts = 0 \/ sinceTry - Lag(seen) >= RetryDelay(failed_attempts)]_ledVars

\* Once nothing is reported any more, a strip that works again sooner or later shows what
\* the policy renders at that time, also when the last updates failed: the base state, or
\* a flash that is dormant and has come back half a range after its report.
LedCatchesUp ==
    <>[](report = None /\ sessions > 0) => []<>(lit = Render(elapsed))
=============================================================================
