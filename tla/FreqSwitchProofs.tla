-------------------------- MODULE FreqSwitchProofs --------------------------
(***************************************************************************)
(* Proofs about FreqSwitch, for every set of CPUs and of frequencies.      *)
(***************************************************************************)
EXTENDS FreqSwitch, TLAPS

\* The callbacks during which a hook may be installed or executing.
Hooking == {"install", "running", "unhook"}

\* What exists in each phase of the callbacks, and which actors may be active.
PhaseInv ==
  /\ allocated <=> gov # "unbound"
  /\ hooked # {} => gov \in Hooking
  /\ \A c \in RelatedCpus : hpc[c] # "idle" => gov \in Hooking /\ c \in cpus
  /\ gov \in Hooking => events = "live" /\ logbuffer # "closed"
  /\ irq_pending => gov \in Hooking \cup {"sync_irq"}
  /\ work_queued => gov \in Hooking \cup {"sync_irq", "cancel"}
  /\ wpc # "idle" => gov \in Hooking \cup {"sync_irq", "cancel", "drain"}

\* Only the deferred path of a policy that is not shared uses the lock, the
\* interrupt and the worker.
DeferredOnly ==
  /\ \A c \in RelatedCpus : Handing(c) => ~fast_switch_enabled /\ ~PolicyIsShared
  /\ UpdateAhead \/ wpc = "target" => ~fast_switch_enabled /\ ~PolicyIsShared

\* A hook that goes on to update runs on a CPU of the policy, by
\* memutil_this_cpu_can_update.
LocalInv ==
  \A c \in RelatedCpus : hpc[c] \notin {"idle", "check"} => hon[c] \in cpus

\* Who holds update_lock; the worker holds it with interrupts off and so no
\* hook is executing on its CPU.
LockInv ==
  /\ update_lock = "worker" <=> wpc = "sample"
  /\ irqs_off <=> wpc = "sample"
  /\ wpc = "sample" => ~HookOn(PolicyCpu)

\* The inductive invariant.
IInv ==
  /\ TypeOK
  /\ PhaseInv
  /\ DeferredOnly
  /\ LocalInv
  /\ LockInv
  /\ FlagNotStuck
  /\ OneUpdateAhead
  /\ NoMissedUpdate
-----------------------------------------------------------------------------

\* The invariant holds before the governor is attached to the policy.
LEMMA InitIInv == Init => IInv
  BY CpuAssumption, FreqAssumption
     DEF Init, IInv, TypeOK, PhaseInv, DeferredOnly, LocalInv, LockInv, FlagNotStuck,
         OneUpdateAhead, NoMissedUpdate, Started, Handing, UpdateAhead, HookOn,
         AllCpus, Hooking

\* Every step of a hook, the interrupt, the worker or a callback preserves it.
LEMMA StepIInv == IInv /\ [Next]_vars => IInv'
<1> SUFFICES ASSUME IInv, [Next]_vars PROVE IInv'
  OBVIOUS
<1> USE CpuAssumption, FreqAssumption
    DEF IInv, TypeOK, PhaseInv, DeferredOnly, LocalInv, LockInv, FlagNotStuck,
        OneUpdateAhead, NoMissedUpdate, Started, Handing, UpdateAhead, HookOn,
        AllCpus, Hooking, PolicyIsShared, core, request, worker, actors
<1>1. ASSUME NEW c \in RelatedCpus, NEW x \in AllCpus, HookEnter(c, x) PROVE IInv'
  BY <1>1 DEF HookEnter
<1>2. ASSUME NEW c \in RelatedCpus, HookCheck(c) PROVE IInv'
  BY <1>2 DEF HookCheck, ThisCpuCanUpdate
<1>3. ASSUME NEW c \in RelatedCpus, HookRead(c) PROVE IInv'
  BY <1>3 DEF HookRead
<1>4. ASSUME NEW c \in RelatedCpus, NEW f \in Freqs, HookSet(c, f) PROVE IInv'
  BY <1>4 DEF HookSet, AfterSet, EventsReadable
<1>5. ASSUME NEW c \in RelatedCpus, HookLock(c) PROVE IInv'
  BY <1>5 DEF HookLock
<1>6. ASSUME NEW c \in RelatedCpus, HookQueue(c) PROVE IInv'
  <2>1. hpc[c] = "queue" /\ ~PolicyIsShared /\ ~fast_switch_enabled
    BY <1>6 DEF HookQueue, UpdateDue
  <2>2. c = PolicyCpu /\ hon[c] = PolicyCpu
    BY <2>1
  <2>3. wpc # "sample" /\ gov \in Hooking
    BY <2>1, <2>2
  <2>4. TypeOK'
    BY <1>6, <2>1 DEF HookQueue, UpdateDue, AfterSet, EventsReadable
  <2>5. (PhaseInv /\ DeferredOnly /\ LocalInv /\ LockInv)'
    BY <1>6, <2>1, <2>2, <2>3 DEF HookQueue, UpdateDue, AfterSet, EventsReadable
  <2>6. (FlagNotStuck /\ OneUpdateAhead /\ NoMissedUpdate)'
    BY <1>6, <2>1, <2>3 DEF HookQueue, UpdateDue
  <2>7. QED
    BY <2>4, <2>5, <2>6
<1>7. ASSUME NEW c \in RelatedCpus, HookLog(c) PROVE IInv'
  BY <1>7 DEF HookLog
<1>8. CASE IrqWork
  BY <1>8 DEF IrqWork
<1>9. CASE WorkerTake
  BY <1>9, ZenonT(60) DEF WorkerTake
<1>10. CASE WorkerLock
  BY <1>10 DEF WorkerLock
<1>11. CASE WorkerSample
  BY <1>11 DEF WorkerSample
<1>12. CASE WorkerTarget
  BY <1>12 DEF WorkerTarget
<1>13. CASE MemutilInit
  <2>1. CASE UNCHANGED <<gov, core, request, freq_update_in_progress>>
    BY <1>13, <2>1 DEF MemutilInit
  <2>2. CASE gov' = "ready" /\ allocated' = TRUE
    <3>1. gov = "unbound" /\ (\A c \in RelatedCpus : hpc[c] = "idle") /\ hooked = {}
      BY <1>13 DEF MemutilInit
    <3>2. /\ events' = "none" /\ logbuffer' = "NULL" /\ last_requested_freq' = MaxFreq
          /\ fast_switch_enabled' \in BOOLEAN /\ requested_since_start' = FALSE
          /\ freq_update_in_progress' = FALSE /\ UNCHANGED <<cpus, actors>>
      BY <1>13, <2>2, <3>1 DEF MemutilInit
    <3>3. TypeOK'
      BY <2>2, <3>2
    <3>4. (PhaseInv /\ DeferredOnly)'
      BY <2>2, <3>1, <3>2
    <3>5. (LocalInv /\ LockInv)'
      BY <2>2, <3>1, <3>2
    <3>6. (FlagNotStuck /\ OneUpdateAhead /\ NoMissedUpdate)'
      BY <2>2, <3>1, <3>2
    <3>7. QED
      BY <3>3, <3>4, <3>5, <3>6
  <2>3. QED
    BY <1>13, <2>1, <2>2 DEF MemutilInit
<1>14. CASE MemutilStart
  BY <1>14 DEF MemutilStart
<1>15. ASSUME NEW c \in RelatedCpus, InstallHook(c) PROVE IInv'
  BY <1>15 DEF InstallHook
<1>16. ASSUME NEW c \in RelatedCpus, RemoveHook(c) PROVE IInv'
  BY <1>16 DEF RemoveHook
<1>17. CASE SynchronizeRcu
  BY <1>17 DEF SynchronizeRcu, HooksReturned
<1>18. CASE IrqWorkSync
  BY <1>18 DEF IrqWorkSync
<1>19. CASE CancelWork
  BY <1>19, ZenonT(60) DEF CancelWork
<1>20. CASE CancelWorkSync
  BY <1>20 DEF CancelWorkSync, WorkReturned
<1>21. CASE ReleaseResources
  BY <1>21 DEF ReleaseResources
<1>22. CASE MemutilExit
  BY <1>22 DEF MemutilExit
<1>23. CASE FreePolicy
  BY <1>23, ZenonT(60) DEF FreePolicy
<1>24. ASSUME NEW c \in RelatedCpus, CpuHotplug(c) PROVE IInv'
  BY <1>24 DEF CpuHotplug
<1>25. CASE UNCHANGED vars
  BY <1>25 DEF vars
<1>26. QED
  BY <1>1, <1>2, <1>3, <1>4, <1>5, <1>6, <1>7, <1>8, <1>9, <1>10, <1>11, <1>12, <1>13, <1>14, <1>15, <1>16, <1>17, <1>18, <1>19, <1>20, <1>21, <1>22, <1>23, <1>24, <1>25 DEF Next, HookStep, WorkerStep
\* IInv is an invariant of FreqSwitch.
THEOREM Invariance == Spec => []IInv
  BY InitIInv, StepIInv, PTL DEF Spec

\* Every variable keeps its type.
THEOREM TypeCorrect == Spec => []TypeOK
<1>1. IInv => TypeOK
  BY DEF IInv
<1>2. QED
  BY <1>1, Invariance, PTL

\* The deferred path misses no request: what memutil_work's comment claims of
\* update_lock holds although last_requested_freq is written outside the lock.
THEOREM NothingMissed == Spec => []NoMissedUpdate
<1>1. IInv => NoMissedUpdate
  BY DEF IInv
<1>2. QED
  BY <1>1, Invariance, PTL

\* freq_update_in_progress is never left set without an update that clears it,
\* so no request is refused for good (main.c 279).
THEOREM FlagCleared == Spec => []FlagNotStuck
<1>1. IInv => FlagNotStuck
  BY DEF IInv
<1>2. QED
  BY <1>1, Invariance, PTL

\* At most one update is ahead of its read, and none unless the flag is set.
THEOREM FlagTracksUpdate == Spec => []OneUpdateAhead
<1>1. IInv => OneUpdateAhead
  BY DEF IInv
<1>2. QED
  BY <1>1, Invariance, PTL

\* The hook never spins on a lock held by the worker it has interrupted.
THEOREM DeadlockFree == Spec => []NoSelfDeadlock
<1>1. IInv => NoSelfDeadlock
  BY DEF IInv, LockInv, NoSelfDeadlock, HookOn
<1>2. QED
  BY <1>1, Invariance, PTL

\* Nothing is released by memutil_stop or memutil_exit while it is in use.
THEOREM NothingUsedAfterRelease == Spec => []ResourcesAlive
<1>1. IInv => ResourcesAlive
  BY DEF IInv, PhaseInv, Hooking, ResourcesAlive, UpdateAhead
<1>2. QED
  BY <1>1, Invariance, PTL

\* After memutil_stop has returned no frequency is commanded.
THEOREM QuietWhenStopped == Spec => NoSwitchWhileStopped
<1>1. IInv /\ [Next]_vars =>
        [curFreq' # curFreq => gov \notin {"unbound", "ready", "release", "flush"}]_vars
  <2> SUFFICES ASSUME IInv, Next, curFreq' # curFreq
               PROVE  gov \notin {"unbound", "ready", "release", "flush"}
    BY DEF vars
  <2>1. (\E c \in RelatedCpus, f \in Freqs : HookSet(c, f)) \/ WorkerTarget
    BY DEF Next, HookEnter, HookStep, HookCheck, HookRead, HookLock, HookQueue,
           HookLog, IrqWork, WorkerStep, WorkerTake, WorkerLock, WorkerSample,
           MemutilInit, MemutilStart, InstallHook, RemoveHook, SynchronizeRcu,
           IrqWorkSync, CancelWork, CancelWorkSync, ReleaseResources,
           MemutilExit, FreePolicy, CpuHotplug, actors
  <2>2. CASE \E c \in RelatedCpus, f \in Freqs : HookSet(c, f)
    BY <2>2 DEF HookSet, IInv, PhaseInv, Hooking
  <2>3. CASE WorkerTarget
    BY <2>3 DEF WorkerTarget, IInv, PhaseInv, Hooking
  <2>4. QED
    BY <2>1, <2>2, <2>3
<1>2. QED
  BY <1>1, Invariance, PTL DEF Spec, NoSwitchWhileStopped

\* Hook, irq_work, worker and callbacks implement a mailbox for one frequency.
THEOREM RefinesMailbox == Spec => ImplementsMailbox
<1>1. Init => MB!Init
  BY DEF Init, MB!Init, Started, UpdateAhead, Handing
<1>2. IInv /\ [Next]_vars => [MB!Next]_(MB!vars)
  <2> SUFFICES ASSUME IInv, [Next]_vars
               PROVE  MB!Next \/ UNCHANGED MB!vars
    OBVIOUS
  <2> USE CpuAssumption
      DEF IInv, TypeOK, PhaseInv, DeferredOnly, LocalInv, LockInv, OneUpdateAhead,
          FlagNotStuck, Started, Handing, UpdateAhead, HookOn, Hooking,
          PolicyIsShared, core, request, worker, actors, MB!vars
  <2>1. ASSUME NEW c \in RelatedCpus, NEW x \in AllCpus, HookEnter(c, x)
        PROVE  UNCHANGED MB!vars
    BY <2>1 DEF HookEnter
  <2>2. ASSUME NEW c \in RelatedCpus, HookCheck(c) \/ HookRead(c) \/ HookLog(c)
        PROVE  UNCHANGED MB!vars
    BY <2>2 DEF HookCheck, HookRead, HookLog
  <2>3. ASSUME NEW c \in RelatedCpus, NEW f \in Freqs, HookSet(c, f)
        PROVE  MB!Put(f) \/ MB!Switch(f) \/ UNCHANGED MB!vars
    BY <2>3 DEF HookSet, AfterSet, EventsReadable, MB!Put, MB!Switch
  <2>4. ASSUME NEW c \in RelatedCpus, HookLock(c) \/ HookQueue(c)
        PROVE  UNCHANGED MB!vars
    BY <2>4 DEF HookLock, HookQueue, AfterSet, EventsReadable, UpdateDue
  <2>5. CASE IrqWork \/ WorkerTake \/ WorkerLock
    BY <2>5 DEF IrqWork, WorkerTake, WorkerLock
  <2>6. CASE WorkerSample
    BY <2>6 DEF WorkerSample, MB!Next, MB!Take
  <2>7. CASE WorkerTarget
    BY <2>7 DEF WorkerTarget, MB!Next, MB!Deliver
  <2>8. CASE MemutilInit \/ MemutilExit \/ FreePolicy \/ ReleaseResources \/ CancelWorkSync
    BY <2>8 DEF MemutilInit, MemutilExit, FreePolicy, ReleaseResources, CancelWorkSync
  <2>9. CASE MemutilStart
    BY <2>9 DEF MemutilStart, MB!Next, MB!Open
  <2>10. ASSUME NEW c \in RelatedCpus, InstallHook(c) \/ RemoveHook(c) \/ CpuHotplug(c)
         PROVE  UNCHANGED MB!vars
    BY <2>10 DEF InstallHook, RemoveHook, CpuHotplug
  <2>11. CASE SynchronizeRcu \/ IrqWorkSync
    BY <2>11 DEF SynchronizeRcu, IrqWorkSync, MB!Next, MB!Close
  <2>12. CASE CancelWork
    BY <2>12 DEF CancelWork, MB!Next, MB!Drop
  <2>13. CASE UNCHANGED vars
    BY <2>13 DEF vars
  <2>14. QED
    BY <2>1, <2>2, <2>3, <2>4, <2>5, <2>6, <2>7, <2>8, <2>9, <2>10, <2>11, <2>12,
       <2>13 DEF Next, HookStep, WorkerStep, MB!Next
<1>3. QED
  BY <1>1, <1>2, Invariance, PTL DEF Spec, ImplementsMailbox, MB!Spec
=============================================================================
