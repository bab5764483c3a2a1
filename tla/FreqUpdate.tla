----------------------------- MODULE FreqUpdate -----------------------------
(***************************************************************************)
(* What one policy's hook decides: whether an update is due, the perf      *)
(* event values of the interval and the frequency that follows from them,  *)
(* over changes of the policy's limits and over restarts.  The hook is one *)
(* step here; module FreqSwitch has its interleavings and what becomes of  *)
(* the request.                                                            *)
(***************************************************************************)
EXTENDS Heuristic

CONSTANTS
  Delay,        \* freq_update_delay_ns, in ticks of the clock
  Limits,       \* the [min, max] that the core may give the policy
  Increments,   \* what the three counters may count in a tick
  MaxSkew,      \* how far the clock of another CPU of the policy lags behind
  MaxTime       \* bound: ticks in a behaviour, fewer than an s64 can count

Events == 0 .. 2                       \* PERF_EVENT_COUNT

ASSUME UpdateAssumption ==
  /\ Delay \in Nat /\ Delay > 0
  /\ MaxSkew \in Nat
  /\ MaxTime \in Nat /\ 2 * MaxTime < U64
  /\ Increments \subseteq [Events -> Nat]
  /\ Limits \subseteq [min : Nat, max : Nat]
  /\ \A l \in Limits : l.min <= l.max

VARIABLES
  gov,            \* "unbound", "ready" (between callbacks) or "running"
  now,            \* clock of policy->cpu
  limits,         \* policy->min and policy->max
  count,          \* count[i]: what perf event i counted since its allocation
  last_event_value,
  last_freq_update_time_ns,
  last_requested_freq,
  event_values,   \* of the newest update; memutil_log_data logs them
  since_read,     \* history: what each event counted since it was last read
  window,         \* history: since_read when event_values were read
  carried,        \* history: last_event_value is of an earlier start's events
  window_carried, \* history: carried when event_values were read
  fresh           \* history: the limits did not change since the newest
                  \* frequency was derived from them

memutil_policy == <<last_event_value, last_freq_update_time_ns, last_requested_freq>>
history == <<event_values, since_read, window, carried, window_carried, fresh>>
vars == <<gov, now, limits, count, memutil_policy, history>>

Zeros == [i \in Events |-> 0]

TypeOK ==
  /\ gov \in {"unbound", "ready", "running"}
  /\ now \in Nat
  /\ limits \in Limits
  /\ count \in [Events -> Nat]
  /\ last_event_value \in [Events -> Nat]
  /\ last_freq_update_time_ns \in Nat
  /\ last_requested_freq \in Nat
  /\ event_values \in [Events -> 0 .. U64 - 1]
  /\ since_read \in [Events -> Nat]
  /\ window \in [Events -> Nat]
  /\ carried \in BOOLEAN
  /\ window_carried \in BOOLEAN
  /\ fresh \in BOOLEAN

Init ==
  /\ gov = "unbound"
  /\ now = 0
  /\ limits \in Limits
  /\ count = Zeros
  /\ last_event_value = Zeros
  /\ last_freq_update_time_ns = 0
  /\ last_requested_freq = limits.max
  /\ event_values = Zeros
  /\ since_read = Zeros
  /\ window = Zeros
  /\ carried = FALSE
  /\ window_carried = FALSE
  /\ fresh = TRUE

-----------------------------------------------------------------------------
(***************************************************************************)
(* The environment: time passes, events are counted, limits change.        *)
(***************************************************************************)
Tick(increment) ==
  /\ now < MaxTime
  /\ now' = now + 1
  /\ IF gov = "running"
       THEN /\ count' = [i \in Events |-> count[i] + increment[i]]
            /\ since_read' = [i \in Events |-> since_read[i] + increment[i]]
       ELSE UNCHANGED <<count, since_read>>
  /\ UNCHANGED <<gov, limits, memutil_policy, event_values, window, carried,
                 window_carried, fresh>>

\* The core changes the limits of the policy; memutil_limits only reports it.
MemutilLimits(l) ==
  /\ l # limits
  /\ limits' = l
  /\ fresh' = FALSE
  /\ UNCHANGED <<gov, now, count, memutil_policy, event_values, since_read,
                 window, carried, window_carried>>

-----------------------------------------------------------------------------
(***************************************************************************)
(* The callbacks, as far as the hook's data is concerned.                  *)
(***************************************************************************)

\* memutil_policy_alloc zeroes the policy and starts from policy->max.
MemutilInit ==
  /\ gov = "unbound"
  /\ gov' = "ready"
  /\ last_event_value' = Zeros
  /\ last_freq_update_time_ns' = 0
  /\ last_requested_freq' = limits.max
  /\ carried' = FALSE
  /\ fresh' = TRUE
  /\ UNCHANGED <<now, limits, count, event_values, since_read, window, window_carried>>

\* memutil_start resets the time of the last update and allocates the events,
\* which count from zero; last_event_value keeps its contents.
MemutilStart ==
  /\ gov = "ready"
  /\ gov' = "running"
  /\ last_freq_update_time_ns' = 0
  /\ count' = Zeros
  /\ since_read' = Zeros
  /\ carried' = (last_event_value # Zeros)
  /\ UNCHANGED <<now, limits, last_event_value, last_requested_freq, event_values,
                 window, window_carried, fresh>>

\* The events cannot be allocated.
MemutilStartFail ==
  /\ gov = "ready"
  /\ last_freq_update_time_ns' = 0
  /\ UNCHANGED <<gov, now, limits, count, last_event_value, last_requested_freq, history>>

MemutilStop ==
  /\ gov = "running"
  /\ gov' = "ready"
  /\ UNCHANGED <<now, limits, count, memutil_policy, history>>

MemutilExit ==
  /\ gov = "ready"
  /\ gov' = "unbound"
  /\ UNCHANGED <<now, limits, count, memutil_policy, history>>

-----------------------------------------------------------------------------
(***************************************************************************)
(* The hook, called with a timestamp by a CPU of the policy.               *)
(***************************************************************************)

\* Faulty: the difference is compared as a u64.
ShouldUpdateUnsigned(time) == (time - last_freq_update_time_ns) % U64 >= Delay

\* memutil_should_update_frequency: the difference of two u64 as an s64.
ShouldUpdate(time) == S64(time - last_freq_update_time_ns) >= Delay

\* Faulty: the difference is not reduced to a u64.
EventDeltaUnbounded(i) == count[i] - last_event_value[i]

\* The difference that memutil_read_perf_event yields, a u64.
EventDelta(i) == (count[i] - last_event_value[i]) % U64

\* Faulty: the failed read stores its result, 0, in last_event_value.
UpdateUnreadStoresZero(time) ==
  /\ gov = "running"
  /\ ShouldUpdate(time)
  /\ last_requested_freq' = limits.max
  /\ last_freq_update_time_ns' = time
  /\ last_event_value' = [last_event_value EXCEPT ![0] = 0]
  /\ fresh' = TRUE
  /\ UNCHANGED <<gov, now, limits, count, event_values, since_read, window,
                 carried, window_carried>>

\* memutil_update_frequency off policy->cpu: reading the first event fails, no
\* event is read, and the maximum is requested.
UpdateUnread(time) ==
  /\ gov = "running"
  /\ ShouldUpdate(time)
  /\ last_requested_freq' = limits.max
  /\ last_freq_update_time_ns' = time
  /\ fresh' = TRUE
  /\ UNCHANGED <<gov, now, limits, count, last_event_value, event_values,
                 since_read, window, carried, window_carried>>

\* memutil_update_frequency on policy->cpu.
UpdateFrequency(time) ==
  LET cycles == S64(EventDelta(1))
      offcore_stalls == S64(EventDelta(2))
  IN
  /\ gov = "running"
  /\ ShouldUpdate(time)
  /\ event_values' = [i \in Events |-> EventDelta(i)]
  /\ last_event_value' = count
  /\ last_requested_freq' =
       IF cycles = 0
         THEN last_requested_freq
         ELSE calculate_frequency_heuristic_stalls(offcore_stalls, cycles,
                                                   limits.max, limits.min)
  /\ last_freq_update_time_ns' = time
  /\ since_read' = Zeros
  /\ window' = since_read
  /\ carried' = FALSE
  /\ window_carried' = carried
  /\ fresh' = (fresh \/ cycles # 0)
  /\ UNCHANGED <<gov, now, limits, count>>

-----------------------------------------------------------------------------
Next ==
  \/ \E increment \in Increments : Tick(increment)
  \/ \E l \in Limits : MemutilLimits(l)
  \/ MemutilInit
  \/ MemutilStart
  \/ MemutilStartFail
  \/ MemutilStop
  \/ MemutilExit
  \/ UpdateFrequency(now)
  \/ \E skew \in 0 .. MaxSkew : now >= skew /\ UpdateUnread(now - skew)

Spec == Init /\ [][Next]_vars

-----------------------------------------------------------------------------
(***************************************************************************)
(* Properties.                                                             *)
(***************************************************************************)

\* memutil_read_perf_event: the values an update works with are what the events
\* counted since they were read last - also when updates in between could not
\* read them - except for the first read after a restart.
ValuesAreOfInterval ==
  ~window_carried => event_values = [i \in Events |-> window[i] % U64]

\* The frequency in force was derived from the current limits and lies within
\* them, whatever the counters say, unless the limits changed and every update
\* since then found no cycles.
RequestWithinLimits ==
  fresh => limits.min <= last_requested_freq /\ last_requested_freq <= limits.max

\* Updates of one run are at least Delay apart by their timestamps, and these
\* never run backwards, although the CPUs of a policy have different clocks.
UpdatesAreSpaced ==
  [][gov = "running" /\ gov' = "running"
       /\ last_freq_update_time_ns' # last_freq_update_time_ns
     => last_freq_update_time_ns' - last_freq_update_time_ns >= Delay]_vars

\* "provides the event value difference to the last time the value was read"
\* (main.c 234-236), of every read.
EveryDeltaIsOfInterval ==
  event_values = [i \in Events |-> window[i] % U64]
=============================================================================
