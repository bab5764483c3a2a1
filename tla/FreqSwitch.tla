----------------------------- MODULE FreqSwitch -----------------------------
(***************************************************************************)
(* One cpufreq policy under the memutil governor: the scheduler hook that  *)
(* requests a frequency, the irq_work and the kernel thread that carry a   *)
(* request to the driver when fast switching is not available, and the     *)
(* governor callbacks (init, start, stop, exit) that create and tear down  *)
(* what the other three use.                                               *)
(*                                                                         *)
(* The actors are                                                          *)
(*   - the hook of each online CPU of the policy, with interrupts off,     *)
(*     on that CPU or on another one that updates the run queue remotely;  *)
(*   - the irq_work, on the CPU that queued it;                            *)
(*   - the worker thread, bound to policy->cpu, hence never running while  *)
(*     a hook or an interrupt runs there;                                  *)
(*   - the cpufreq core, which calls the callbacks of one policy one at a  *)
(*     time, and between a stop and a start lets a sibling of policy->cpu  *)
(*     come or go.  policy->cpu itself stays online.                       *)
(* Which frequency is chosen, and whether an update is due, is left open   *)
(* here; module FreqUpdate models those choices.                           *)
(***************************************************************************)
CONSTANTS
  RelatedCpus,  \* policy->related_cpus, online and offline
  PolicyCpu,    \* policy->cpu: the worker and the perf events are bound to it
  OtherCpus,    \* CPUs outside the policy, which may call a hook remotely
  Freqs,        \* frequencies the heuristic may choose
  MaxFreq       \* policy->max when the memutil_policy is allocated

ASSUME CpuAssumption ==
  /\ PolicyCpu \in RelatedCpus
  /\ RelatedCpus \cap OtherCpus = {}

ASSUME FreqAssumption == MaxFreq \in Freqs

VARIABLES
  cpus,                     \* policy->cpus: the related CPUs that are online
  gov,                      \* where the cpufreq core is in the callbacks
  allocated,                \* the struct memutil_policy is allocated
  fast_switch_enabled,
  hooked,                   \* CPUs whose update_util hook is installed
  events,                   \* perf events: "none", "live" or "released"
  logbuffer,                \* ring buffer: "NULL", "open" or "closed"
  last_requested_freq,
  requested_since_start,    \* last_freq_update_time_ns # 0
  freq_update_in_progress,
  update_lock,              \* who holds it: "free", "hook" or "worker"
  hpc,                      \* hpc[c]: where the hook of CPU c is
  hon,                      \* hon[c]: the CPU that (last) executed hook c
  irq_pending,              \* irq_work is queued
  work_queued,              \* kthread_work is on the worker's list
  wpc,                      \* where the worker is in memutil_work
  wfreq,                    \* memutil_work's local variable frequency
  irqs_off,                 \* the worker has disabled interrupts on PolicyCpu
  curFreq                   \* frequency the driver was last told to set

core == <<allocated, fast_switch_enabled, events, logbuffer>>
request == <<last_requested_freq, requested_since_start>>
worker == <<wpc, wfreq, irqs_off>>
vars == <<cpus, gov, core, hooked, request, freq_update_in_progress, update_lock,
          hpc, hon, irq_pending, work_queued, worker, curFreq>>

AllCpus == RelatedCpus \cup OtherCpus

TypeOK ==
  /\ cpus \in SUBSET RelatedCpus
  /\ PolicyCpu \in cpus
  /\ gov \in {"unbound", "ready", "install", "running", "unhook", "sync_irq",
              "cancel", "drain", "release", "flush"}
  /\ allocated \in BOOLEAN
  /\ fast_switch_enabled \in BOOLEAN
  /\ hooked \in SUBSET cpus
  /\ events \in {"none", "live", "released"}
  /\ logbuffer \in {"NULL", "open", "closed"}
  /\ last_requested_freq \in Freqs
  /\ requested_since_start \in BOOLEAN
  /\ freq_update_in_progress \in BOOLEAN
  /\ update_lock \in {"free", "hook", "worker"}
  /\ hpc \in [RelatedCpus -> {"idle", "check", "read", "set", "lock", "queue", "log"}]
  /\ hon \in [RelatedCpus -> AllCpus]
  /\ irq_pending \in BOOLEAN
  /\ work_queued \in BOOLEAN
  /\ wpc \in {"idle", "lock", "sample", "target"}
  /\ wfreq \in Freqs
  /\ irqs_off \in BOOLEAN
  /\ curFreq \in Freqs

Init ==
  /\ cpus \in SUBSET RelatedCpus
  /\ PolicyCpu \in cpus
  /\ gov = "unbound"
  /\ allocated = FALSE
  /\ fast_switch_enabled = FALSE
  /\ hooked = {}
  /\ events = "none"
  /\ logbuffer = "NULL"
  /\ last_requested_freq = MaxFreq
  /\ requested_since_start = FALSE
  /\ freq_update_in_progress = FALSE
  /\ update_lock = "free"
  /\ hpc = [c \in RelatedCpus |-> "idle"]
  /\ hon = [c \in RelatedCpus |-> c]
  /\ irq_pending = FALSE
  /\ work_queued = FALSE
  /\ wpc = "idle"
  /\ wfreq = MaxFreq
  /\ irqs_off = FALSE
  /\ curFreq \in Freqs

\* policy_is_shared: more than one CPU in policy->cpus.
PolicyIsShared == cpus # {PolicyCpu}

\* CPU x executes a hook, and so nothing else until that hook returns.
HookOn(x) == \E c \in RelatedCpus : hpc[c] # "idle" /\ hon[c] = x

-----------------------------------------------------------------------------
(***************************************************************************)
(* The hook of CPU c: memutil_update_frequency_hook.                       *)
(***************************************************************************)

\* The scheduler calls the installed hook of c from CPU x, which has
\* interrupts enabled and executes no other hook.
HookEnter(c, x) ==
  /\ c \in hooked
  /\ hpc[c] = "idle"
  /\ x \in cpus \cup OtherCpus
  /\ ~HookOn(x)
  /\ ~(x = PolicyCpu /\ irqs_off)
  /\ hpc' = [hpc EXCEPT ![c] = "check"]
  /\ hon' = [hon EXCEPT ![c] = x]
  /\ UNCHANGED <<cpus, gov, core, hooked, request, freq_update_in_progress,
                 update_lock, irq_pending, work_queued, worker, curFreq>>

\* memutil_this_cpu_can_update
ThisCpuCanUpdate(c) == hon[c] \in cpus

\* memutil_should_update_frequency: a remote CPU never updates; a CPU of the
\* policy does when the delay has passed.
HookCheck(c) ==
  /\ hpc[c] = "check"
  /\ \/ hpc' = [hpc EXCEPT ![c] = "idle"]
     \/ /\ ThisCpuCanUpdate(c)
        /\ hpc' = [hpc EXCEPT ![c] = "read"]
  /\ UNCHANGED <<cpus, gov, core, hooked, request, freq_update_in_progress,
                 update_lock, hon, irq_pending, work_queued, worker, curFreq>>

\* memutil_update_frequency reads the perf events of the policy.
HookRead(c) ==
  /\ hpc[c] = "read"
  /\ hpc' = [hpc EXCEPT ![c] = "set"]
  /\ UNCHANGED <<cpus, gov, core, hooked, request, freq_update_in_progress,
                 update_lock, hon, irq_pending, work_queued, worker, curFreq>>

\* memutil_perf_event_read_local: the events are per-CPU ones, neither inherited
\* nor pinned, so reading fails exactly off the CPU they are bound to.
EventsReadable(c) == hon[c] = PolicyCpu

\* After setting the frequency the hook logs, unless the events were not read.
AfterSet(c) == IF EventsReadable(c) THEN "log" ELSE "idle"

\* memutil_set_frequency_to: record the request, then refuse a shared policy,
\* switch at once, or go on to memutil_deferred_set_frequency.
HookSet(c, freq) ==
  /\ hpc[c] = "set"
  /\ last_requested_freq' = freq
  /\ requested_since_start' = TRUE
  /\ \/ /\ PolicyIsShared
        /\ hpc' = [hpc EXCEPT ![c] = AfterSet(c)]
        /\ UNCHANGED curFreq
     \/ /\ ~PolicyIsShared
        /\ fast_switch_enabled
        /\ curFreq' = freq
        /\ hpc' = [hpc EXCEPT ![c] = AfterSet(c)]
     \/ /\ ~PolicyIsShared
        /\ ~fast_switch_enabled
        /\ hpc' = [hpc EXCEPT ![c] = "lock"]
        /\ UNCHANGED curFreq
  /\ UNCHANGED <<cpus, gov, core, hooked, freq_update_in_progress, update_lock,
                 hon, irq_pending, work_queued, worker>>

HookLock(c) ==
  /\ hpc[c] = "lock"
  /\ update_lock = "free"
  /\ update_lock' = "hook"
  /\ hpc' = [hpc EXCEPT ![c] = "queue"]
  /\ UNCHANGED <<cpus, gov, core, hooked, request, freq_update_in_progress, hon,
                 irq_pending, work_queued, worker, curFreq>>

\* Faulty: an update is queued whatever freq_update_in_progress says.
UpdateAlwaysDue == TRUE

\* Faulty: no update is queued while the worker is busy, not even once it has
\* read the frequency.
UpdateDueWhenWorkerIdle == ~freq_update_in_progress /\ wpc = "idle"

\* !freq_update_in_progress, the condition for queueing an update.
UpdateDue == ~freq_update_in_progress

\* The critical section of memutil_deferred_set_frequency, and its unlock.
HookQueue(c) ==
  /\ hpc[c] = "queue"
  /\ \/ /\ UpdateDue
        /\ freq_update_in_progress' = TRUE
        /\ irq_pending' = TRUE
     \/ /\ ~UpdateDue
        /\ UNCHANGED <<freq_update_in_progress, irq_pending>>
  /\ update_lock' = "free"
  /\ hpc' = [hpc EXCEPT ![c] = AfterSet(c)]
  /\ UNCHANGED <<cpus, gov, core, hooked, request, hon, work_queued, worker, curFreq>>

\* memutil_log_data writes to the ring buffer, if there is one, and returns.
HookLog(c) ==
  /\ hpc[c] = "log"
  /\ hpc' = [hpc EXCEPT ![c] = "idle"]
  /\ UNCHANGED <<cpus, gov, core, hooked, request, freq_update_in_progress,
                 update_lock, hon, irq_pending, work_queued, worker, curFreq>>

HookStep(c) ==
  \/ HookCheck(c)
  \/ HookRead(c)
  \/ \E f \in Freqs : HookSet(c, f)
  \/ HookLock(c)
  \/ HookQueue(c)
  \/ HookLog(c)

-----------------------------------------------------------------------------
(***************************************************************************)
(* The interrupt and the worker thread.                                    *)
(***************************************************************************)

\* Faulty: the handler queues the irq_work again.
IrqWorkRequeued ==
  /\ irq_pending
  /\ ~HookOn(PolicyCpu)
  /\ ~irqs_off
  /\ work_queued' = TRUE
  /\ UNCHANGED <<cpus, gov, core, hooked, request, freq_update_in_progress,
                 update_lock, hpc, hon, irq_pending, worker, curFreq>>

\* memutil_irq_work: queue the kthread_work (a no-op if it is queued already).
IrqWork ==
  /\ irq_pending
  /\ ~HookOn(PolicyCpu)
  /\ ~irqs_off
  /\ irq_pending' = FALSE
  /\ work_queued' = TRUE
  /\ UNCHANGED <<cpus, gov, core, hooked, request, freq_update_in_progress,
                 update_lock, hpc, hon, worker, curFreq>>

\* kthread_worker_fn takes the work off its list and calls memutil_work.
WorkerTake ==
  /\ wpc = "idle"
  /\ work_queued
  /\ ~HookOn(PolicyCpu)
  /\ work_queued' = FALSE
  /\ wpc' = "lock"
  /\ UNCHANGED <<cpus, gov, core, hooked, request, freq_update_in_progress,
                 update_lock, hpc, hon, irq_pending, wfreq, irqs_off, curFreq>>

\* Faulty: raw_spin_lock without disabling interrupts.
WorkerLockIrqsOn ==
  /\ wpc = "lock"
  /\ ~HookOn(PolicyCpu)
  /\ update_lock = "free"
  /\ update_lock' = "worker"
  /\ wpc' = "sample"
  /\ UNCHANGED <<cpus, gov, core, hooked, request, freq_update_in_progress,
                 hpc, hon, irq_pending, work_queued, wfreq, irqs_off, curFreq>>

\* raw_spin_lock_irqsave(&update_lock)
WorkerLock ==
  /\ wpc = "lock"
  /\ ~HookOn(PolicyCpu)
  /\ update_lock = "free"
  /\ update_lock' = "worker"
  /\ irqs_off' = TRUE
  /\ wpc' = "sample"
  /\ UNCHANGED <<cpus, gov, core, hooked, request, freq_update_in_progress,
                 hpc, hon, irq_pending, work_queued, wfreq, curFreq>>

\* The critical section of memutil_work, and its unlock.
WorkerSample ==
  /\ wpc = "sample"
  /\ ~HookOn(PolicyCpu)
  /\ wfreq' = last_requested_freq
  /\ freq_update_in_progress' = FALSE
  /\ update_lock' = "free"
  /\ irqs_off' = FALSE
  /\ wpc' = "target"
  /\ UNCHANGED <<cpus, gov, core, hooked, request, hpc, hon, irq_pending,
                 work_queued, curFreq>>

\* __cpufreq_driver_target
WorkerTarget ==
  /\ wpc = "target"
  /\ ~HookOn(PolicyCpu)
  /\ curFreq' = wfreq
  /\ wpc' = "idle"
  /\ UNCHANGED <<cpus, gov, core, hooked, request, freq_update_in_progress,
                 update_lock, hpc, hon, irq_pending, work_queued, wfreq, irqs_off>>

WorkerStep == WorkerTake \/ WorkerLock \/ WorkerSample \/ WorkerTarget

-----------------------------------------------------------------------------
(***************************************************************************)
(* The governor callbacks.                                                 *)
(***************************************************************************)

actors == <<hooked, update_lock, hpc, hon, irq_pending, work_queued, worker, curFreq>>

\* memutil_init: cpufreq_enable_fast_switch decides whether fast switching is
\* available; allocating the policy or creating the worker may fail, in which
\* case everything is undone.
MemutilInit ==
  /\ cpus \in SUBSET RelatedCpus
  /\ PolicyCpu \in cpus
  /\ gov = "unbound"
  /\ \/ /\ gov' = "ready"
        /\ allocated' = TRUE
        /\ fast_switch_enabled' \in BOOLEAN
        /\ events' = "none"
        /\ logbuffer' = "NULL"
        /\ last_requested_freq' = MaxFreq
        /\ requested_since_start' = FALSE
        /\ freq_update_in_progress' = FALSE
     \/ UNCHANGED <<gov, core, request, freq_update_in_progress>>
  /\ UNCHANGED <<cpus, actors>>

\* Faulty: memutil_start does not reset freq_update_in_progress.
MemutilStartKeepFlag ==
  /\ gov = "ready"
  /\ requested_since_start' = FALSE
  /\ gov' = "install"
  /\ events' = "live"
  /\ logbuffer' \in {"NULL", "open"}
  /\ UNCHANGED <<cpus, allocated, fast_switch_enabled, last_requested_freq,
                 freq_update_in_progress, actors>>

\* memutil_start up to setup_per_cpu_data.  Opening the ring buffer may fail,
\* and then there is no log; setting up the events may fail, and then the ring
\* buffer is closed and the start is refused.
MemutilStart ==
  /\ gov = "ready"
  /\ requested_since_start' = FALSE
  /\ freq_update_in_progress' = FALSE
  /\ \/ /\ gov' = "install"
        /\ events' = "live"
        /\ logbuffer' \in {"NULL", "open"}
     \/ /\ gov' = "ready"
        /\ UNCHANGED events
        /\ logbuffer' \in {"NULL", "closed"}
  /\ UNCHANGED <<cpus, allocated, fast_switch_enabled, last_requested_freq, actors>>

\* Faulty: the hooks are installed on all related CPUs, offline ones included.
InstallHookRelated(c) ==
  /\ gov = "install"
  /\ c \in RelatedCpus \ hooked
  /\ hooked' = hooked \cup {c}
  /\ gov' = IF hooked' = RelatedCpus THEN "running" ELSE "install"
  /\ UNCHANGED <<cpus, core, request, freq_update_in_progress, update_lock, hpc, hon,
                 irq_pending, work_queued, worker, curFreq>>

\* install_update_hook, one CPU at a time.
InstallHook(c) ==
  /\ gov = "install"
  /\ c \in cpus \ hooked
  /\ hooked' = hooked \cup {c}
  /\ gov' = IF hooked' = cpus THEN "running" ELSE "install"
  /\ UNCHANGED <<cpus, core, request, freq_update_in_progress, update_lock, hpc, hon,
                 irq_pending, work_queued, worker, curFreq>>

\* memutil_stop: remove the hooks, one CPU at a time.
RemoveHook(c) ==
  /\ gov \in {"running", "unhook"}
  /\ c \in hooked
  /\ gov' = "unhook"
  /\ hooked' = hooked \ {c}
  /\ UNCHANGED <<cpus, core, request, freq_update_in_progress, update_lock, hpc, hon,
                 irq_pending, work_queued, worker, curFreq>>

\* Faulty: memutil_stop waits for the hook of policy->cpu only.
HookOfPolicyCpuReturned == hpc[PolicyCpu] = "idle"

\* No hook is executing: what synchronize_rcu waits for.
HooksReturned == \A c \in RelatedCpus : hpc[c] = "idle"

\* synchronize_rcu
SynchronizeRcu ==
  /\ gov = "unhook"
  /\ hooked = {}
  /\ HooksReturned
  /\ gov' = IF fast_switch_enabled THEN "release" ELSE "sync_irq"
  /\ UNCHANGED <<cpus, core, request, freq_update_in_progress, actors>>

\* Faulty: memutil_stop does not wait for the irq_work.
IrqWorkNotAwaited ==
  /\ gov = "sync_irq"
  /\ gov' = "cancel"
  /\ UNCHANGED <<cpus, core, request, freq_update_in_progress, actors>>

\* irq_work_sync waits until the irq_work has run.
IrqWorkSync ==
  /\ gov = "sync_irq"
  /\ ~irq_pending
  /\ gov' = "cancel"
  /\ UNCHANGED <<cpus, core, request, freq_update_in_progress, actors>>

\* kthread_cancel_work_sync takes the work off the list...
CancelWork ==
  /\ gov = "cancel"
  /\ work_queued' = FALSE
  /\ gov' = "drain"
  /\ UNCHANGED <<cpus, core, request, freq_update_in_progress, hooked, update_lock,
                 hpc, hon, irq_pending, worker, curFreq>>

\* Faulty: kthread_cancel_work without waiting for the worker.
WorkNotAwaited == TRUE

\* memutil_work is not being executed.
WorkReturned == wpc = "idle"

\* ... and waits for memutil_work to return if it is being executed.
CancelWorkSync ==
  /\ gov = "drain"
  /\ WorkReturned
  /\ gov' = "release"
  /\ UNCHANGED <<cpus, core, request, freq_update_in_progress, actors>>

\* The rest of memutil_stop: release the perf events, close the ring buffer.
ReleaseResources ==
  /\ gov = "release"
  /\ events' = "released"
  /\ logbuffer' = IF logbuffer = "open" THEN "closed" ELSE logbuffer
  /\ gov' = "ready"
  /\ UNCHANGED <<cpus, allocated, fast_switch_enabled, request,
                 freq_update_in_progress, actors>>

\* memutil_exit up to memutil_stop_worker_thread.
MemutilExit ==
  /\ gov = "ready"
  /\ gov' = "flush"
  /\ UNCHANGED <<cpus, core, request, freq_update_in_progress, actors>>

\* memutil_stop_worker_thread (for the slow path), memutil_policy_free and
\* cpufreq_disable_fast_switch.
FreePolicy ==
  /\ gov = "flush"
  /\ fast_switch_enabled \/ (~work_queued /\ wpc = "idle")
  /\ allocated' = FALSE
  /\ fast_switch_enabled' = FALSE
  /\ gov' = "unbound"
  /\ UNCHANGED <<cpus, events, logbuffer, request, freq_update_in_progress, actors>>

\* A CPU of the policy goes offline or comes online while the governor is
\* stopped: the core stops it, changes policy->cpus and starts it again.
CpuHotplug(c) ==
  /\ gov \in {"unbound", "ready"}
  /\ c # PolicyCpu
  /\ cpus' = IF c \in cpus THEN cpus \ {c} ELSE cpus \cup {c}
  /\ UNCHANGED <<gov, core, request, freq_update_in_progress, actors>>

StopStep ==
  \/ \E c \in RelatedCpus : gov = "unhook" /\ RemoveHook(c)
  \/ SynchronizeRcu
  \/ IrqWorkSync
  \/ CancelWork
  \/ CancelWorkSync
  \/ ReleaseResources

CallbackStep ==
  \/ \E c \in RelatedCpus : InstallHook(c)
  \/ StopStep
  \/ FreePolicy

-----------------------------------------------------------------------------
Next ==
  \/ \E c \in RelatedCpus, x \in AllCpus : HookEnter(c, x)
  \/ \E c \in RelatedCpus : HookStep(c)
  \/ IrqWork
  \/ WorkerStep
  \/ MemutilInit
  \/ MemutilStart
  \/ \E c \in RelatedCpus : InstallHook(c)
  \/ \E c \in RelatedCpus : RemoveHook(c)
  \/ SynchronizeRcu
  \/ IrqWorkSync
  \/ CancelWork
  \/ CancelWorkSync
  \/ ReleaseResources
  \/ MemutilExit
  \/ FreePolicy
  \/ \E c \in RelatedCpus : CpuHotplug(c)

Spec == Init /\ [][Next]_vars

(***************************************************************************)
(* A hook cannot be interrupted, so it goes on (weak fairness).  The       *)
(* interrupt and the worker run whenever no hook occupies their CPU; hooks *)
(* end, and the worker has the highest scheduling class (SCHED_DEADLINE    *)
(* with SCHED_FLAG_SUGOV), so neither is passed over for ever (strong      *)
(* fairness).  A callback that was entered goes on.  Nothing forces the    *)
(* scheduler to call a hook or the core to call a callback.                *)
(***************************************************************************)
Fairness ==
  /\ \A c \in RelatedCpus : WF_vars(HookStep(c))
  /\ SF_vars(IrqWork)
  /\ SF_vars(WorkerStep)
  /\ WF_vars(CallbackStep)

FairSpec == Spec /\ Fairness

-----------------------------------------------------------------------------
(***************************************************************************)
(* Properties.                                                             *)
(***************************************************************************)

Started == gov \in {"install", "running", "unhook", "sync_irq"}

\* A hook has recorded its request and not yet passed the critical section.
Handing(c) == hpc[c] \in {"lock", "queue"}

\* An update is under way that has yet to read last_requested_freq.
UpdateAhead == irq_pending \/ work_queued \/ wpc \in {"lock", "sample"}

\* The comment in memutil_work (main.c 502-513): no request is missed.  On the
\* deferred path, once a hook has handed over its request, the request is
\* with the driver, with the worker, or an update that will read it is ahead.
NoMissedUpdate ==
  (/\ Started
   /\ requested_since_start
   /\ ~fast_switch_enabled
   /\ ~PolicyIsShared
   /\ \A c \in RelatedCpus : ~Handing(c))
  => \/ UpdateAhead
     \/ wpc = "target" /\ wfreq = last_requested_freq
     \/ wpc = "idle" /\ curFreq = last_requested_freq

\* freq_update_in_progress is never left set without an update under way that
\* will clear it; while it is, every later request is dropped (main.c 279).
FlagNotStuck ==
  Started /\ freq_update_in_progress => UpdateAhead

\* irq_work_queue is never called on a pending irq_work, and the kthread_work
\* is never queued twice: at most one update is under way ahead of its read.
OneUpdateAhead ==
  /\ ~(irq_pending /\ work_queued)
  /\ ~(irq_pending /\ wpc \in {"lock", "sample"})
  /\ ~(work_queued /\ wpc \in {"lock", "sample"})
  /\ Started /\ ~freq_update_in_progress => ~UpdateAhead

\* A hook never waits for update_lock on the CPU of the worker that holds it:
\* the worker could not run to release it (main.c 514, irqsave).
NoSelfDeadlock ==
  \A c \in RelatedCpus :
    hpc[c] = "lock" /\ hon[c] = PolicyCpu => update_lock # "worker"

\* Teardown in memutil_stop and memutil_exit takes nothing away that a hook,
\* the irq_work or the worker still uses: the policy, the perf events and the
\* ring buffer.
ResourcesAlive ==
  /\ \A c \in RelatedCpus :
       /\ hpc[c] # "idle" => allocated
       /\ hpc[c] = "read" => events = "live"
       /\ hpc[c] = "log" => logbuffer # "closed"
  /\ UpdateAhead \/ wpc = "target" => allocated

\* Seen from outside, the deferred path is a mailbox for one frequency, module
\* Mailbox: a request that a hook is handing over or that an update has yet to
\* read is in the slot, the one the worker has read is taken.
MB == INSTANCE Mailbox WITH
  open  <- Started,
  slot  <- IF UpdateAhead \/ (\E c \in RelatedCpus : Handing(c))
             THEN {last_requested_freq} ELSE {},
  taken <- IF wpc = "target" THEN {wfreq} ELSE {},
  out   <- curFreq

\* Hook, irq_work, worker and callbacks together implement that mailbox: the
\* newest request stays in it until the worker takes it, what is taken reaches
\* the driver before anything newer, a request is dropped only by a stop, and
\* a start finds nothing left of the time before.
ImplementsMailbox == MB!Spec

\* Once memutil_stop has returned, the governor commands no frequency until it
\* is started again: no hook, interrupt or work survives the stop.
NoSwitchWhileStopped ==
  [][curFreq' # curFreq => gov \notin {"unbound", "ready", "release", "flush"}]_vars

\* On the deferred path, a request that is handed over reaches the driver, or
\* a newer one replaces it, or the governor is being stopped.
RequestReachesDriver ==
  \A f \in Freqs :
    (/\ gov = "running"
     /\ requested_since_start
     /\ ~PolicyIsShared
     /\ last_requested_freq = f)
    ~> (curFreq = f \/ last_requested_freq # f \/ gov # "running")

\* memutil_stop returns: none of its waits (hooks, irq_work, worker) is for
\* something that never ends.
StopReturns == gov = "unhook" ~> gov = "ready"
=============================================================================
