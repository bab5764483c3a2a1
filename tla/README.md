# A TLA+ model of the memutil frequency governor

memutil (stallgov) is a Linux cpufreq governor. Every few milliseconds the
scheduler's update-util hook reads three perf events of the CPU, derives from
the share of cycles that were stalled on memory which frequency is worthwhile,
and requests it from the cpufreq driver. This directory holds TLA+ modules that
model it, TLC configurations that check them and TLAPS proofs. All line numbers
are those of the files in `src/src/`; `main.c` stands for `memutil_main.c`.

## 1. Inventory

| Component | State | Operations | Interacts with |
|---|---|---|---|
| Frequency switching (`main.c` 249-330, 480-560, 640-720) | `last_requested_freq`, `last_freq_update_time_ns`, `freq_update_in_progress`, `update_lock`, the irq_work, the kthread_work | `memutil_update_frequency_hook`, `memutil_set_frequency_to`, `memutil_deferred_set_frequency`, `memutil_irq_work`, `memutil_work` | called by the scheduler; hands requests from the hook to an interrupt, to a thread, to the driver |
| Frequency decision (`main.c` 234-270, 340-480, 690-720) | `last_event_value`, `last_freq_update_time_ns`, `last_requested_freq`, the policy's limits | `memutil_should_update_frequency`, `memutil_read_perf_event`, `memutil_update_frequency`, the two heuristics | reads perf events, requests a frequency, logs |
| Log ring buffer (`memutil_ringbuffer_log.c`) | `data`, `insert_offset`, `had_wraparound`, `lock` | open, close, write, append to log file | written by the hook, emptied by readers of the log file |
| Governor life cycle (`main.c` 560-640, 770-990) | the policy struct, its worker, `is_logfile_initialized`, `memutil_init_mutex` | `memutil_init`, `_start`, `_stop`, `_exit`, `_limits` | called by the cpufreq core; creates and removes everything else |
| debugfs log file, ring buffer registry (`memutil_debugfs_logfile.c`) | `logfile_data`, `log_file`, `ringbuffers` | init, exit, register, append, `user_read_log` | empties every registered ring buffer when user space reads from offset 0 |
| debugfs directory and info file | `root_dir`, `info_file`, the info text | init, exit, read | created by the first start, removed by the first stop |
| Perf counters (`memutil_perf_counter.c`, `memutil_cpuid_helper.c`) | `events_map` | setup and teardown of the map, lookup, parsing, allocation, release | used by start and stop |
| Local perf event read (`memutil_perf_read_local.c`) | none | read an event of this CPU | used by the hook |
| Event data (`pmu_events.c`), scripts, `Makefile` | none | none | - |

What is hard here: the hook runs where nothing can interrupt it and shares two
spin locks with threads on the same CPU; a request crosses three execution
contexts without a queue; a stop tears down what all of them use; perf events
are read only on one CPU of a policy, so some updates have no data; the
heuristics are fixed-point arithmetic on wrapped differences; several policies
share debugfs and the events map although each starts and stops by itself;
readers of the log share one text and its registry with each other and with the
callbacks, without a lock; a hand-written parser cuts up the descriptions of
events.
`PROJECT.json` lists each of these hazards with its line and the properties
that watch over it.

What makes each component correct:

- switching: no request is lost, no lock is waited for on the CPU that holds
  it, nothing is used after its release, a stop returns and is final;
- decision: values are those of the interval since the last read, the request
  lies within the limits, updates are spaced, the heuristics interpolate;
- ring buffer: a read returns the newest entries in order, each entry at most
  once, and never hangs;
- life cycle: no registered ring buffer is freed, `is_logfile_initialized` tells
  the truth about debugfs, a failed start and a stop leave nothing behind, a
  running policy has all its events, nothing is released twice;
- log file: a reader that nobody disturbs gets what the ring buffers held, in
  whole entries; the text stays within its memory, which exists while it is used;
- perf events: a counter is created with the attributes that its description says,
  an event is refused only for a reason, searches and parser stay within bounds.

## 2. Modules and how they correspond to the code

`PROJECT.json` maps every definition to its lines.

**FreqSwitch** - one policy. `hpc[c]` is the position of CPU c's hook: each
access to shared state in `memutil_update_frequency_hook` and its callees is a
step of its own (`HookCheck`, `HookRead`, `HookSet`, `HookLock`, `HookQueue`,
`HookLog`). `hon[c]` is the CPU that executes it, which may be one outside the
policy; that CPU does nothing else meanwhile. `IrqWork` is `memutil_irq_work`;
`WorkerTake` to `WorkerTarget` are `memutil_work` on the worker thread, which is
bound to `policy->cpu` and makes no step while a hook runs there.
`gov` is the position of the cpufreq core in the callbacks: `MemutilInit`,
`MemutilStart` and `InstallHook`, `RemoveHook` to `ReleaseResources`
(`memutil_stop`, one step per wait), `MemutilExit` and `FreePolicy`. Error paths
of init and start are alternatives of those actions. Which frequency is chosen
and whether an update is due are free choices here. As in the code, a policy
with more than one CPU is refused in `memutil_set_frequency_to` after the
request was recorded. `RelatedCpus` are the CPUs of the policy and `cpus`, that is
`policy->cpus`, those online: between a stop and the next start one may go or come
(`CpuHotplug`), so a policy may become shared and cease to be. synchronize_rcu, irq_work_sync and
kthread_cancel_work_sync are kernel functions, modelled as what they wait for.

**Mailbox** - what FreqSwitch promises, in four variables: it is open or closed,
holds the newest request until it is taken, what is on its way, and the driver's
frequency. A
request replaces one that was not taken; what is taken is delivered or, when the
mailbox is closed, dropped. `ImplementsMailbox` in FreqSwitch is the refinement:
it is open while the governor is started, its slot is `last_requested_freq` while
an update is ahead or a hook is about to hand one over, and what is on its way is
the worker's local `freq` between its read and the call of the driver.

**Heuristic** - `calculate_frequency_heuristic_stalls` and `_ipc` as operators:
C division truncates towards zero (`Quotient`), a u64 is reinterpreted as s64
(`S64`), and both products by 100 wrap as an s64 does: that of the event value and,
in `Position`, that of the distance from the lower threshold. `ProductsFit` says that
neither does. The difference of the two thresholds, an int, is taken to fit one, and
-2^63 divided by -1, on which the CPU traps, is not reproduced. U64 stands for 2^64.

**FreqUpdate** - what one hook decides, in one step, over time, counting,
limit changes and restarts: `UpdateFrequency` is a hook on `policy->cpu`,
`UpdateUnread` one on another CPU of the policy, where reading the events
fails and the maximum is requested. `Tick` and `MemutilLimits` are the
environment. History variables (`since_read`, `window`, `carried`, `fresh`)
record what the properties compare with. It extends Heuristic.

**Ringbuffer** - one buffer, one hook that writes, any number of readers in
`memutil_ringbuffer_append_to_logfile`. Entry k is the number k; memory that
was never written is 0, so that an output of it would be seen. `on_cpu[r]`
says whether a reader shares the hook's CPU, `irqs_off[r]` whether it has
disabled interrupts there. Formatting of entries is left out.

**LossyLog** - what Ringbuffer promises: entries are logged in order, a reader takes
all that are left at one instant and shows them one by one; only the oldest may be
forgotten, and only when more are logged than fit. `ImplementsLossyLog` is the
refinement: `Pending` are the entries a copy of the buffer would yield, `Held(r)`
those of r's copy that it has not yet output.

**LogFile** - the debugfs log file, one text that all readers share. `rpc[r]` is the
position of reader r in `user_read_log`: each access to the registry, to
`size_used` or to the data is a step (`ClearLog`, `ReadWalk`, `Take`, `AppendCheck`,
`AppendMemcpy`, `AppendAdd`, `CopyToUser`). A ring buffer is the sequence of its
newest entries, which is what LossyLog says of it, and is taken in one step; a policy
that found no memory for its ring buffer runs without one (`ring[b]` is "none"), and
its stop removes debugfs like any other. An
entry has a size; its text are that many distinguishable cells, so that a lost, torn
or repeated cell is seen. `cpc` is the position of the callbacks, which hold the
mutex: creation, registration (the compiler stores the count before the pointer),
and in the exit the registry's count, the data, the file, the wait for readers. The
array keeps its old pointers, as in the code. `Overlaps` says what may overlap
a call of `user_read_log`: another ("read") or a callback ("callback"). Nothing in
the code excludes either; with `{}` the readers are those of a system where one
process at a time reads the log and no policy is started or stopped meanwhile.
The history variables describe what the reader that started last should find: the
registry at its call (`slots`), what each ring buffer held then and was given since,
less what was overwritten (`stream`), the number of the newest entry (`mark`), the
ring buffers it could not copy (`failed`), and what it was handed (`received`). None
of them is filled from what the reader does to the text: a ring buffer that it skips
or loses shows as an entry that is still pending or not in the text. The branch "cleared
logfile is to small" is part of `AppendCheck`; the governor's lines (at most 130
bytes) never take it.

**PerfEvents** - from an event's name to the attributes of a counter. `SetupScan` is an
iteration of the search for the map, `FindPlatformEvent` one of the search in the
table, and the loop of `parse_platform_event` is `KeyEnd`, `ValueEnd`, `InsideToken` and
`StringEnd`: separators are overwritten, and the character behind one is skipped, as
in the code. Strings are sequences of cells, numbers are sets of bits, `keys` and
`values` are the two halves of `pairs`, where 0 is an uninitialised pointer. `Allocate`
may be called in any state of the map, as policies start in any order; the
interleavings of such calls are in Governor. Descriptions are assumed well-formed
(`WellFormed`), as all of `pmu_events.c` are: a key, "=", a value, separated by ",".
A description that ends in "=" would make the loop read beyond its end; there is none.

**Governor** - any number of policies and what they share. `pc[p]` is the
position of the core in the callbacks of p: those of one policy run one after
the other, those of two policies interleave. `memutil_start` is StartLock,
`init_logging_once` and opening and registering the ring buffer under
`memutil_init_mutex`; then, for the first policy only, the search of the events
map ("map", "scan", "end"), which moves `events_map` itself and takes no mutex;
then the perf events one by one ("alloc", "search"), with the clean-up when one
fails. "fail_alloc" to "fail_close" are the labels of the error path, "release"
to "close" the parts of `memutil_stop`. Within a mutex section, only the accesses
that a policy without the mutex could see are steps of their own. Which events
are portable is left open (`AllocatePortable` and `AllocateWithoutMap` are both
possible for any index), and so is which map entry fits the CPU.
`MapExhaustible` says whether the search may pass over every entry. With the
table in `pmu_events.c` and the test in `memutil_perf_counter.c` 196 it cannot, so
it is FALSE in the violations and TRUE in the passing run, which thereby also
covers the error path. `StopAfterFailedStart` lets the core stop a policy
whose start has failed: cpufreq does so in a suspend after a failed resume, and
never otherwise. `dead_event_released` and `dead_buffer_closed` are history
variables: they record that an event was released, or a ring buffer closed, that was
not live. The first online CPU is
fixed, that is, CPUs do not come and go.

**MCHeuristic**, **MCFreqUpdate**, **MCPerfEvents** give constants their values for TLC;
MCHeuristic also holds the exact interpolation that the heuristics are
compared with. **FreqSwitchProofs**, **HeuristicProofs**, **MCHeuristicProofs**,
**FreqUpdateProofs**, **RingbufferProofs**, **GovernorProofs**, **LogFileProofs**,
**PerfEventsProofs** hold the theorems. Operators whose comment starts with
"Faulty" are not part of a specification: each is a plausible mistake in the
definition that follows it, used to confirm that a property notices it.

## 3. Runs

| Run | Question | Bounds and why they are enough |
|---|---|---|
| `freq_switch` | Does the deferred path lose a request, deadlock, or outlive a stop? Does it implement Mailbox? Does each request reach the driver, does a stop return? | Two CPUs of the policy, one of which goes offline and comes back, so that it is unshared, where the deferred path is used, and shared, where hooks run concurrently and are removed one by one; one CPU outside. Three frequencies tell apart the one requested, the one the worker read and the one the driver has. Starts and stops are unbounded. |
| `ringbuffer` | Do reads deliver the newest entries, in order, once, does each read end, and does the whole implement LossyLog? | Size 3, batches up to 4 and 7 entries: exact fill, overflow by one, more than two rounds without a read, a batch larger than the buffer (the governor passes 1, the interface allows any count). Two readers race with each other. |
| `heuristic` | Are both heuristics close to the exact interpolation, monotone, exact at the thresholds? | Default thresholds, counts up to 30 each: ratios from 1/30 to 30 lie below, between and above all thresholds. 65536 in place of 2^64: the second product overflows in the states with the largest ratios, up from 4 events in a cycle, of which the properties say nothing, as there the position turns around; in all others it fits. Minimum = maximum is one of the limit pairs. |
| `freq_update` | Values, limits and spacing over time, restarts and limit changes | Six ticks with a delay of two: two reads with an unread update between them, or with a restart between them. Idle, busy, stalled and multiplexed intervals. 65536 in place of 2^64: differences wrap at it after a restart. Other clocks lag by up to two ticks, so differences are negative too. |
| `freq_update_restart` | Is every difference that of its interval? | Violated: see section 5. |
| `governor` | Do policies that start, fail and stop concurrently keep debugfs, registry, events and map in order? | Three policies: the first one and two others that race with each other as well. Registry limit two, so that the third is refused. Two events, so that the second can fail after the first. Starts and stops are unbounded, each step that can fail may fail. |
| `governor_failed_resume` | Are only allocated events released, also if a failed start is followed by a stop? | Violated: see section 5. |
| `log_file` | Does an undisturbed reader get everything that the registered ring buffers held, within the data and while it exists? | Two ring buffers of two entries and a capacity of three cells with entries of one and two: texts that fit exactly, that overflow by one, and a force clear in the middle of a read. Chunks of two, so that a read takes several calls; a second reader starts between them. Any copy may fail. Three entries in a behaviour, written before or between the steps of a read. `Overlaps` is empty, so the overlaps of readers and callbacks are only in the next two runs. |
| `log_file_readers` | Is the capacity respected when readers overlap? | Violated: see section 5. |
| `log_file_stop` | Is the data live when a callback overlaps a read? | Violated: see section 5. |
| `perf_events` | Are the attributes those of the description, refusals justified, accesses in bounds? | Two maps and CPUs for the first, for the second and for neither. Three pairs at most in place of eight, descriptions of one to four pairs; names and values of one cell and of several; unknown keys; nameless and repeated entries. |
| `perf_events_map` | Does the map fit the CPU? | Violated: see section 5. |

Deadlock is checked in every run except `heuristic`, whose counters simply end
at their bound; the passing runs of Ringbuffer and FreqUpdate continue with
reads, respectively callbacks, once their bound is reached.

Fairness. A hook runs with interrupts off, so it goes on: weak fairness. The
irq_work and the worker can run only between hooks on their CPU, hence strong
fairness; the code justifies it by making the worker a SCHED_DEADLINE thread
with SCHED_FLAG_SUGOV (`main.c` `memutil_create_worker_thread`), which no other
thread passes over. A callback that was entered goes on. In Ringbuffer the lock
is a queued spin lock, which is granted in order, so both sides get it (strong
fairness), and a reader is scheduled again after the hook. Nothing obliges the
scheduler to call the hook or the core to call a callback.

## 4. Proofs

TLAPS checks every theorem for all values of the constants that satisfy the
named assumptions.

- `FreqSwitchProofs`, from CpuAssumption (`policy->cpu` is in the policy) and
  FreqAssumption. The inductive invariant adds to the properties: which actors
  may be active in which phase of the callbacks (`PhaseInv`; teardown is safe
  because each wait of `memutil_stop` excludes one more actor), that the
  interrupt and worker are only used without fast switching in unshared
  policies (`DeferredOnly`), that a hook's position is one its CPU can reach
  (`LocalInv`), and who holds `update_lock` (`LockInv`). NoMissedUpdate is not
  inductive alone: whether the flag, tested under the lock, tells the truth about an
  update ahead is `FlagNotStuck` and `OneUpdateAhead`. Theorems: TypeCorrect,
  NothingMissed, FlagTracksUpdate, FlagCleared, DeadlockFree,
  NothingUsedAfterRelease, QuietWhenStopped. RefinesMailbox: every step is one of
  Mailbox or a stutter; it needs the invariant where the mailbox is closed, since
  only the waits of `memutil_stop` rule out a worker that is still to deliver.
- `RingbufferProofs`, from SizeAssumption. The central predicate says of each of
  the last min(Size, written - cleared) entries in which slot it is, counting
  back from insert_offset; storing one entry preserves it (`HoldsStore`), a
  copy inherits it, and reading a copy from the right offset yields the
  entries in order (`OutputOrder`). The ranges of entries held by readers and
  by the buffer are disjoint, hence DeliveredOnce. Also TypeCorrect,
  OutputCorrect, NothingLostEarly, DeadlockFree. RefinesLossyLog follows from the same
  predicate: what a copy yields is exactly the range `Pending` at that instant.
- `HeuristicProofs`: both heuristics stay within the limits for all values with
  cycles other than 0, also if products overflow, since a position is clamped to
  0..100 (StallsWithinLimits, IpcWithinLimits); more stalls never raise the
  frequency unless one of the two products overflows (StallsLowerFrequency). Its lemmas on the
  integer quotient and on the position between two thresholds (`DivBounds`,
  `PositionClose`, `PositionAtThresholds`, `InterpolateBounds`, `InvertedClose`) serve the
  next two modules.
- `MCHeuristicProofs`, from CountAssumption (thresholds in order, limits that are
  frequencies), for all counts of which neither product overflows (`StallsFit`,
  `IpcFit`, which the properties state themselves). The two divisions lose less than
  one percent, respectively less than one unit of frequency: StallsClose and IpcClose
  bound the distance from the exact interpolation, LimitsReached says that nothing is
  lost at and beyond the thresholds, and RightReaction that rounding never turns the
  reaction around, in either event of either heuristic.
- `FreqUpdateProofs`, from UpdateAssumption: `count = last_event_value +
  since_read` unless the values are carried over a restart, which makes
  IntervalsExact inductive; LimitsRespected rests on StallsWithinLimits;
  UpdatesSpaced holds as timestamps stay below half the range of a u64.
  StallsDecide and StallsInterpolate join the reads, the conversions and the
  heuristic: in an update whose interval lies within one start and whose event values
  fit an s64 in both products of the heuristic (`WholeInterval`, `IntervalFits`), the request follows from what happened since the last read. It
  is exactly a limit at and beyond the thresholds, and the exact interpolation up to
  rounding between them. Without `~carried` TLC finds counterexamples (finding 1).
  RateFits says when an interval fits: updates on other CPUs read nothing, so the
  time between two reads has no bound, but what an event counts in a tick has one. The
  second product is the stricter one: a count, in a single cycle, times 10000 must stay below
  2^63. At 5 GHz that bound is reached after more than 51 hours without a read
  (`RateInv`); before, no interval overflows, whatever the cycles.
- `GovernorProofs`, from GovernorAssumption: any number of policies, events and
  registry entries. The inductive invariant says which positions hold the mutex
  (`MutexInv`), that a policy registers after opening and closes only after
  the registry was emptied (`RegistryInv`, `BufferInv`), that exactly the events
  below `index` are live during allocation (`EventsInv`, `IndexInv`) and that
  the first policy's position determines the map (`MapInv`). RegisteredBuffersOpen
  is not inductive alone: that a policy past its own debugfs exit is not
  registered depends on the mutex and on FlagTellsOfDebugfs, since an exit
  empties the registry only if the flag is set. Theorems: TypeCorrect,
  RegistrySafe, DebugfsConsistent, EventsReleased, EventsComplete hold for every value of the
  constants; MapKept and ReleasedOnce (events and ring buffers) if a failed start is not
  followed by a stop.
- `LogFileProofs`, from LogFileAssumption: CapacityRespected if "read" is not in
  `Overlaps`, also while callbacks overlap: the test in `AppendCheck` holds until
  `AppendAdd`, since no other reader runs and the callbacks only ever reset
  `size_used`. ReadersSafe if "callback" is not in `Overlaps`, for any number of
  overlapping readers: every slot below `count` holds a ring buffer that is not
  closed. TypeCorrect holds for each value of `Overlaps`. The two assumptions are
  just the ones whose absence the two violations show.
  ReadComplete if `Overlaps` is empty. UndisturbedReadComplete speaks of a reader
  outside a call; its inductive form, `ReadInv`, speaks of each step within one. The
  reader walks through the slots of its call (`WalkedInv`): ring buffers that it has not
  come to have lost nothing, and those that it is done with and could copy hold nothing
  that is older than the call (`HandedInv`). What has left the ring buffers, in the
  order of the slots, is what was dropped, what the log holds and what the copy still
  holds (`TextInv`, `Kept`). Each ring buffer is in one slot only (`UniqueInv`), since a
  policy registers once between its start and the exit that empties the registry;
  otherwise its text would be expected twice. Dropping happens only where the sum
  exceeds the capacity (`KeptDrop`), so nothing is lost if all of it fits. What the
  concatenation of texts computes (`FlattenCons`, `TextCons`, `FlattenPut`) is proved by
  induction over a set of numbers (`Induction`), from the well-foundedness of the naturals.
- `PerfEventsProofs`, from PerfEventsAssumption (tables end with their end marker and
  have no other, descriptions are well-formed). The 28 tables of `pmu_events.c` are such:
  only their last entries have no name, event or description. A marker in the middle would
  end the search, and an event listed behind it would be refused although it is
  there. `SearchInv` says that no entry the search has passed has the name. For the
  parser's first loop, `Cut` says that what it has not reached is still the
  description, `KeyFrom` and `KeyAhead` that an "=" is ahead of the key it reads with
  nothing but the key before it, and `Pairs` that each pair cut off holds a key and a value of the
  description. For its second loop, `ConvertInv` says that `config` holds the fields of the
  pairs converted so far, all of them understood (`ConfigOfPairs`, `Understood`).
  Theorems: ParserInBounds (without `KeyAhead` the end of the string could come with the
  last pair's value unset, and the skip behind a separator could jump over the
  end), AttributesCorrect, RejectionJustified, and TypeCorrect: no description sets a
  bit of config above 31.

Only model-checked: liveness (RequestReachesDriver, StopReturns, ReadReturns), since
TLAPS proves nothing about fairness. Every other property of the passing runs is
stated by a theorem.

## 5. Findings

1. `memutil_start` allocates events that count from zero, but `last_event_value`
   is zeroed only in `memutil_policy_alloc`. After a stop and start without exit
   and init, the first difference wraps and is not "the event value difference to
   the last time the value was read" (`main.c` 234-236). The frequency derived
   from it still lies within the limits, for one interval (`freq_update_restart`).
2. `memutil_stop` (line 944) releases the events but leaves the events array as it
   is, and so does a start that fails before it allocates any. If a policy was
   started and stopped, its restart fails and the core stops it once more, the events
   of the first start are released a second time (`governor_failed_resume`; its trace is
   this sequence). `logbuffer` is left as it is too: a stop after any failed
   start closes the ring buffer that the start has closed already.
3. `memutil_setup_events_map` (`memutil_perf_counter.c` 196) ends its search at the
   first map that does not match the CPU (`perf_events_map`). Platform events are
   looked up in the table of another CPU model.
4. `memutil_debugfs_logfile_exit` (line 163) frees the text before `debugfs_remove`
   waits for the readers that are using it. In the trace of `log_file_stop` a start
   has created the log file, a reader calls `user_read_log`, and the start removes the
   log file again because the info file cannot be created (`memutil_debugfs.c` 48-50).
   `memutil_stop` reaches the same function through `memutil_debugfs_exit`.
5. `user_read_log` takes no lock: two readers that start at the same time both find
   room for an entry and write beyond the text (line 192, `log_file_readers`).

Further observations from the modelling, without a run of their own:

- `memutil_write_ringbuffer` (line 110) sets `had_wraparound` when the last slot is
  filled, although nothing is overwritten yet. The output is right (OutputCorrect),
  but "Loss of data!" is warned of for a buffer that was merely full.
- `memutil_perf_counter.h` 64-65 requires the events map to be set up before events
  are allocated. `memutil_start` (line 887) sets it up only for the policy of the first
  online CPU; a policy that starts earlier finds no platform event and fails
  (`AllocateWithoutMap` in Governor).
- `find_platform_event` (`memutil_perf_counter.c` 224) tests `events_map` and then uses
  it without `memutil_init_mutex`; a stop or a failed start of the first policy may
  reset it in between (`FindPlatformEvent`, teardown, `AllocatePlatform` in Governor).
- `main.c` 379 (and 350): the product by 100 wraps when there are more than about
  2^63 / 10^4 stalls per cycle. The position is then clamped to 0 although it is far
  above the threshold, and the maximum is requested instead of the minimum. Only an
  interval of more than two days has such values (RateFits).
- `parse_event_pair` (line 274) keeps 8 bits of an event code; the tables for AMD
  CPUs have codes of 12.

## 6. Plan

Done, in this order: FreqSwitch, Ringbuffer, Heuristic, FreqUpdate, Governor, Mailbox,
LossyLog, LogFile, PerfEvents, with proofs and the two refinements.

The safety properties and refinements of all passing runs are proved, and so is the way
from the counters to the request, with the rates for which it holds. Nothing of the
plan is left.

## 7. Not modelled

- `pmu_events.c`: 90,582 lines of generated tables, 97 % of the repository's lines,
  without behaviour. PerfEvents states as assumptions what the code relies on.
  The map therefore covers a small share of all lines, though most of the code.
- The first online CPU, and `policy->cpu`, are fixed. `cpumask_first(cpu_online_mask)`
  may differ between a start and a stop, and the core may move `policy->cpu` when
  that CPU goes offline; then another policy sets up or tears down the map.
- The text of log lines and of the info file, and reading the info file, which is
  written once.
- Enabled and running times in `memutil_perf_read_local.c`, which nobody uses, and
  `period` in the parser, which is parsed and dropped.
- Values of module parameters that divide by zero (`main.c` 378 with equal
  thresholds, 768 with an interval above one second): the models assume others.
- Scripts, build files, and the debugging macros.
