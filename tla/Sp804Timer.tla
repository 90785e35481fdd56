----------------------------- MODULE Sp804Timer -----------------------------
(***************************************************************************)
(* The SP804 timer driver (drivers/sp804_timer/src/sp804_timer.c) on its    *)
(* free-running down-counter.  The driver keeps a long tick count by adding *)
(* up differences of a short counter, and serves one timeout by reloading   *)
(* that counter.  Hardware time passes between any two register accesses,   *)
(* within the bounds MaxGap, AckDelay and Latency.                          *)
(***************************************************************************)
EXTENDS Integers

CONSTANTS
  Full,         \* values of the hardware counter (2^32 in the device)
  Epoch,        \* values of the driver's tick count (2^64 in the device)
  Delays,       \* how far ahead of the tick count a client sets a timeout
  Settings,     \* the values a client gives to timer_set_ticks
  Latency,      \* hardware ticks an interrupt may wait for its handler
  MaxGap,       \* hardware ticks from reading tvalue to writing tload
  AckDelay      \* hardware ticks from writing tload to writing tintclr

ASSUME TimerAssumption ==
  /\ Full \in Nat /\ Full > 3 /\ Epoch \in Nat /\ Epoch >= Full
  /\ Latency \in Nat /\ MaxGap \in Nat /\ AckDelay \in Nat
  /\ Delays \subseteq -(Epoch \div 2) .. Epoch \div 2 - 1
  /\ Settings \subseteq 0 .. Epoch - 1

VARIABLES
  tvalue, raw,                     \* the counter and its interrupt line
  enabled,                         \* device->state = STATE_TIMEKEEP
  timeout, count_from, ticks,      \* the driver's fields
  stage, caller, toLoad, expired,     \* the handler under way
  since,  \* history: hardware ticks since tvalue was last read or loaded
  left,   \* history: hardware ticks to the armed deadline, or Void
  lag,    \* history: hardware ticks not counted since the timeout was armed
  late    \* history: hardware ticks the raised interrupt has waited

hardware == <<tvalue, raw>>
fields == <<enabled, timeout, count_from, ticks>>
handler == <<stage, caller, toLoad, expired>>
history == <<since, left, lag, late>>
timerVars == <<hardware, fields, handler, history>>
-----------------------------------------------------------------------------
Void == Epoch  \* no deadline

\* Half of the counter's range; TIME_MAX in the source.
TIME_MAXFull == Full - 1      \* seeded fault: the whole range
TIME_MAX == (Full - 1) \div 2

Wrapped(n) == n % Epoch
Signed(n) == IF n < Epoch \div 2 THEN n ELSE n - Epoch
Less(a, b) == IF a < b THEN a ELSE b
More(a, b) == IF a < b THEN b ELSE a

\* The difference of two readings of the counter, as uint32_t computes it.
Elapsed(from, to) == (from - to) % Full

\* update_ticks: one read of tvalue brings the count up to date.
UpdateTicks ==
  /\ ticks' = Wrapped(ticks + Elapsed(count_from, tvalue))
  /\ count_from' = tvalue
  /\ since' = 0

\* The body of timer_timeout_impl up to its call of set_timeout: what is to
\* be loaded, and whether the timeout has passed.
ServeTimeoutIdle(t) ==        \* seeded fault: the counter is left free-running
  LET remaining == Signed(Wrapped(t - ticks')) IN
  /\ expired' = (remaining <= 0)
  /\ timeout' = IF remaining <= 0 THEN 0 ELSE t
  /\ toLoad' = TIME_MAX
ServeTimeoutEager(t) ==       \* seeded fault: expires with one tick to go
  LET remaining == Signed(Wrapped(t - ticks')) IN
  /\ expired' = (remaining <= 1)
  /\ timeout' = IF remaining <= 1 THEN 0 ELSE t
  /\ toLoad' = IF remaining <= 1 THEN TIME_MAX ELSE Less(remaining, TIME_MAX)
ServeTimeout(t) ==
  LET remaining == Signed(Wrapped(t - ticks')) IN
  /\ expired' = (remaining <= 0)
  /\ timeout' = IF remaining <= 0 THEN 0 ELSE t
  /\ toLoad' = IF remaining <= 0 THEN TIME_MAX ELSE Less(remaining, TIME_MAX)
-----------------------------------------------------------------------------
\* device_setup_impl followed by the first device_enable_impl, before which no
\* field but ticks is written and a client has no use of the timer.
TimerInit ==
  /\ tvalue = TIME_MAX /\ raw = FALSE
  /\ enabled = TRUE
  /\ timeout = 0 /\ count_from = TIME_MAX /\ ticks = 0
  /\ stage = "idle" /\ caller = "client" /\ toLoad = TIME_MAX /\ expired = FALSE
  /\ since = 0 /\ left = Void /\ lag = 0 /\ late = 0

\* The counter falls by one; it raises the interrupt on reaching zero and
\* wraps round after it.
CounterMayFall ==
  /\ stage = "idle" /\ raw => late < Latency
  /\ stage = "load" => since < MaxGap
  /\ stage = "ack"  => since < AckDelay
Tick ==
  /\ enabled /\ CounterMayFall
  /\ tvalue' = (tvalue - 1) % Full
  /\ raw' = (raw \/ tvalue = 1)
  /\ since' = Less(since + 1, Full)
  /\ left' = IF left = Void THEN Void ELSE More(left - 1, -Epoch)
  /\ late' = IF raw THEN Less(late + 1, Latency) ELSE 0
  /\ UNCHANGED <<fields, handler, lag>>

\* timer_get_ticks_impl.
GetTicks ==
  /\ stage = "idle"
  /\ UpdateTicks
  /\ UNCHANGED <<hardware, enabled, timeout, handler, left, lag, late>>

\* timer_set_ticks_impl: the count alone is written.  What an armed timeout
\* means from here on is not defined: left is Void.
SetTicks(n) ==
  /\ stage = "idle"
  /\ ticks' = n
  /\ left' = Void
  /\ UNCHANGED <<hardware, enabled, timeout, count_from, handler, since, lag, late>>

\* timer_timeout_impl, called by a client, as far as set_timeout.
ClientTimeout(d) ==
  /\ stage = "idle"
  /\ UpdateTicks
  /\ Wrapped(ticks' + d) # 0
  /\ ServeTimeout(Wrapped(ticks' + d))
  /\ left' = d /\ lag' = 0
  /\ stage' = "load" /\ caller' = "client"
  /\ UNCHANGED <<hardware, enabled, late>>

\* device_interrupt_impl, as far as set_timeout.
InterruptIdles ==             \* seeded fault: an armed timeout is not looked at
  /\ raw /\ stage = "idle"
  /\ UpdateTicks
  /\ toLoad' = TIME_MAX /\ expired' = FALSE
  /\ stage' = "load" /\ caller' = "irq"
  /\ UNCHANGED <<hardware, enabled, timeout, left, lag, late>>
TimerInterrupt ==
  /\ raw /\ stage = "idle"
  /\ UpdateTicks
  /\ IF timeout # 0
     THEN ServeTimeout(timeout)
     ELSE /\ toLoad' = TIME_MAX /\ expired' = FALSE
          /\ UNCHANGED timeout
  /\ stage' = "load" /\ caller' = "irq"
  /\ UNCHANGED <<hardware, enabled, left, lag, late>>

\* set_timeout: count_from and tload; then the handler acknowledges, and a
\* client's call returns.
Load ==
  /\ stage = "load"
  /\ count_from' = toLoad /\ tvalue' = toLoad
  /\ lag' = Less(lag + since, Epoch)
  /\ since' = 0
  /\ stage' = IF caller = "irq" THEN "ack" ELSE "idle"
  /\ UNCHANGED <<raw, enabled, timeout, ticks, caller, toLoad, expired, left, late>>

\* The write of tintclr that ends device_interrupt_impl.
Acknowledge ==
  /\ stage = "ack" /\ stage' = "idle"
  /\ raw' = FALSE /\ late' = 0
  /\ UNCHANGED <<tvalue, fields, caller, toLoad, expired, since, left, lag>>

\* device_enable_impl.
Enable ==
  /\ stage = "idle"
  /\ enabled' = TRUE
  /\ count_from' = TIME_MAX /\ tvalue' = TIME_MAX
  /\ timeout' = 0 /\ left' = Void
  /\ since' = 0
  /\ UNCHANGED <<raw, ticks, handler, lag, late>>

\* device_disable_impl.
Disable ==
  /\ stage = "idle"
  /\ enabled' = FALSE
  /\ UNCHANGED <<hardware, timeout, count_from, ticks, handler, history>>

TimerNext ==
  \/ Tick \/ GetTicks \/ TimerInterrupt \/ Load \/ Acknowledge
  \/ \E n \in Settings : SetTicks(n)
  \/ \E d \in Delays : ClientTimeout(d)
  \/ Enable \/ Disable

\* The counter never stops (what holds Tick back is a bound of the model),
\* and the driver's thread takes an interrupt between two client calls.
TimerSpec ==
  /\ TimerInit /\ [][TimerNext]_timerVars
  /\ SF_timerVars(Tick) /\ SF_timerVars(TimerInterrupt)
  /\ WF_timerVars(Load) /\ WF_timerVars(Acknowledge)
-----------------------------------------------------------------------------
\* Every register and field keeps its width, and a timeout is loaded into the
\* counter only when it is not zero: a zero load would raise no interrupt.
TimerTypeOK ==
  /\ tvalue \in 0 .. Full - 1 /\ raw \in BOOLEAN /\ enabled \in BOOLEAN
  /\ timeout \in 0 .. Epoch - 1 /\ ticks \in 0 .. Epoch - 1
  /\ count_from \in 0 .. Full - 1
  /\ stage \in {"idle", "load", "ack"} /\ caller \in {"client", "irq"}
  /\ toLoad \in 1 .. TIME_MAX /\ expired \in BOOLEAN
  /\ since \in 0 .. Full /\ lag \in 0 .. Epoch /\ late \in 0 .. Latency
  /\ left \in -Epoch .. Epoch

\* What update_ticks is about to add is the number of ticks that really
\* passed since the counter was last read or loaded, wrap-around included:
\* the comment at sp804_timer.c:84-94 (half the range is enough to tell).
CountHonest == Elapsed(count_from, tvalue) = since

\* An armed timeout is not reported before its time: timer_timeout_impl
\* compares the accumulated count, which may only lag behind the hardware.
NeverEarly ==
  [][ stage = "load" /\ stage' # "load" /\ expired /\ left # Void => left <= 0 ]_timerVars

\* An armed timeout is overdue by no more than the interrupt's latency and
\* the ticks lost between reading tvalue and writing tload, however many
\* reloads a long timeout takes.
Punctual ==
  timeout # 0 /\ left # Void /\ enabled => left >= -(Latency + lag + MaxGap)

\* An armed timeout expires unless the driver is stopped, the timeout is
\* replaced, or the tick count is changed under it.
Expires ==
  []<>(timeout = 0 \/ ~enabled \/ left = Void \/ (stage = "load" /\ caller = "client"))
=============================================================================
