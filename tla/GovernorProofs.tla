--------------------------- MODULE GovernorProofs ---------------------------
(***************************************************************************)
(* Proofs about module Governor, for any number of policies, events and    *)
(* registry entries.                                                       *)
(***************************************************************************)
EXTENDS Governor, TLAPS

-----------------------------------------------------------------------------
(***************************************************************************)
(* The inductive invariant.                                                *)
(***************************************************************************)

\* Exactly the policy in a critical section holds the mutex.
MutexInv ==
  /\ \A p \in Policies :
       pc[p] \in {"init", "open", "register", "fail_exit", "stop_exit"}
         <=> p \in memutil_init_mutex
  /\ \A p, q \in memutil_init_mutex : p = q

\* Nobody is registered before it has opened its ring buffer, and nobody closes
\* it before it has seen the registry emptied.
RegistryInv ==
  /\ \A p \in Policies :
       Registered(p) =>
         /\ HoldsBuffer(p)
         /\ pc[p] \notin {"stopped", "failed", "init", "open", "register",
                          "fail_close", "close"}
  /\ \A p \in Policies : pc[p] = "register" => is_logfile_initialized

\* Where a policy has a ring buffer, and where it may have one.
BufferInv ==
  \A p \in Policies :
    /\ pc[p] = "register" => HoldsBuffer(p)
    /\ pc[p] \in {"stopped", "failed", "init", "open"} => ~HoldsBuffer(p)
    /\ ~StopAfterFailedStart /\ pc[p] \notin {"stopped", "failed", "init", "open"}
         => logbuffer[p] # "closed"

\* Which perf events of a policy are live.
EventsInv ==
  \A p \in Policies : \A i \in EventIndices :
    /\ pc[p] \in {"alloc", "search"} => (i < index[p] <=> events[p][i] = "live")
    /\ pc[p] = "running" => events[p][i] = "live"
    /\ pc[p] = "release" /\ ~StopAfterFailedStart => events[p][i] = "live"
    /\ pc[p] \notin {"alloc", "search", "running", "release"} => events[p][i] # "live"

\* A policy starts to allocate with the first event, and searches for an event
\* only while there is one left to allocate.
IndexInv ==
  \A p \in Policies :
    /\ pc[p] \in {"map", "scan"} => index[p] = 1
    /\ pc[p] = "search" => MoreEvents(p)

\* Only the first policy sets up the map; where it is determines the map.
MapInv ==
  /\ \A p \in Policies : pc[p] \in {"map", "scan", "end"} => p = First
  /\ pc[First] \in {"scan", "alloc", "search", "fail_alloc", "running"} =>
       events_map = "table"
  /\ pc[First] \in {"release", "stop_lock", "stop_exit"} /\ ~StopAfterFailedStart =>
       events_map = "table"
  /\ pc[First] \in {"stopped", "failed", "init", "open", "register", "map",
                    "fail_lock", "fail_exit", "fail_close", "close"} =>
       events_map = "NULL"

ReleaseInv == ~StopAfterFailedStart => ReleasesOnlyLive

IInv ==
  /\ TypeOK
  /\ MutexInv
  /\ FlagTellsOfDebugfs
  /\ RegistryInv
  /\ BufferInv
  /\ EventsInv
  /\ IndexInv
  /\ MapInv
  /\ ReleaseInv
-----------------------------------------------------------------------------

\* The invariant holds before any policy is started.
LEMMA InitIInv == Init => IInv
<1> SUFFICES ASSUME Init PROVE IInv
  OBVIOUS
<1> USE GovernorAssumption
    DEF Init, PolicyTypeOK, SharedTypeOK, FlagTypeOK, MutexInv, FlagTellsOfDebugfs, RegistryInv, BufferInv,
        EventsInv, IndexInv, MapInv, ReleaseInv, ReleasesOnlyLive, released_dead, Registered,
        HoldsBuffer, NoEvents, MoreEvents, EventIndices
<1>1. TypeOK
  <2>1. PolicyTypeOK
    OBVIOUS
  <2>2. SharedTypeOK
    OBVIOUS
  <2>3. FlagTypeOK
    OBVIOUS
  <2>4. QED
    BY <2>1, <2>2, <2>3 DEF TypeOK
<1>2. MutexInv
  OBVIOUS
<1>3. FlagTellsOfDebugfs
  OBVIOUS
<1>4. RegistryInv
  OBVIOUS
<1>5. BufferInv
  OBVIOUS
<1>6. EventsInv
  OBVIOUS
<1>7. IndexInv
  OBVIOUS
<1>8. MapInv
  OBVIOUS
<1>9. ReleaseInv
  OBVIOUS
<1>10. QED
  BY <1>1, <1>2, <1>3, <1>4, <1>5, <1>6, <1>7, <1>8, <1>9 DEF IInv

\* Registering appends one entry to the registry and registers nobody else.
LEMMA AppendRegisters ==
  ASSUME NEW s \in Seq(Policies), NEW p \in Policies
  PROVE  /\ Append(s, p) \in Seq(Policies)
         /\ Len(Append(s, p)) = Len(s) + 1
         /\ \A k \in 1 .. Len(Append(s, p)) :
              Append(s, p)[k] = p \/ (k \in 1 .. Len(s) /\ Append(s, p)[k] = s[k])
  OBVIOUS

\* Removing debugfs leaves a registry, and one that is empty if it was in use.
LEMMA ExitRegistry ==
  ASSUME SharedTypeOK, DebugfsExit
  PROVE  /\ ringbuffers' \in Seq(Policies)
         /\ Len(ringbuffers') <= MaxRingbufferCount
<1>1. CASE is_logfile_initialized
  BY <1>1, GovernorAssumption DEF DebugfsExit, LogfileExit, InfofileExit
<1>2. CASE ~is_logfile_initialized
  BY <1>2 DEF DebugfsExit, debugfs, SharedTypeOK
<1>3. QED
  BY <1>1, <1>2

\* What allocating an event does to the events of a policy.
LEMMA AllocatedEvents ==
  ASSUME PolicyTypeOK, NEW p \in Policies, MoreEvents(p), EventAllocated(p)
  PROVE  /\ events' \in [Policies -> [EventIndices -> {"NULL", "live", "released"}]]
         /\ index' \in [Policies -> 1 .. EventCount + 1]
         /\ index'[p] = index[p] + 1
         /\ \A i \in EventIndices :
              events'[p][i] = IF i = index[p] THEN "live" ELSE events[p][i]
         /\ \A q \in Policies \ {p} : events'[q] = events[q] /\ index'[q] = index[q]
<1> USE GovernorAssumption DEF PolicyTypeOK, MoreEvents, EventAllocated, EventIndices
<1>1. index[p] \in EventIndices
  OBVIOUS
<1>2. events[p] \in [EventIndices -> {"NULL", "live", "released"}]
  OBVIOUS
<1>3. [events[p] EXCEPT ![index[p]] = "live"]
        \in [EventIndices -> {"NULL", "live", "released"}]
  BY <1>1, <1>2
<1>4. events' = [events EXCEPT ![p] = [events[p] EXCEPT ![index[p]] = "live"]]
  OBVIOUS
<1>5. QED
  BY <1>1, <1>2, <1>3, <1>4

\* What the clean-up does to them.
LEMMA CleanedEvents ==
  ASSUME PolicyTypeOK, NEW p \in Policies, Cleanup(p)
  PROVE  /\ events' \in [Policies -> [EventIndices -> {"NULL", "live", "released"}]]
         /\ \A i \in EventIndices :
              events'[p][i] = IF i < index[p] THEN "NULL" ELSE events[p][i]
         /\ \A q \in Policies \ {p} : events'[q] = events[q]
         /\ index' = index
  BY DEF PolicyTypeOK, Cleanup

\* An allocated event preserves the invariant.
LEMMA AllocationStep ==
  ASSUME IInv, NEW p \in Policies, MoreEvents(p), pc[p] \in {"alloc", "search"},
         pc' = [pc EXCEPT ![p] = "alloc"], EventAllocated(p), UNCHANGED shared
  PROVE  IInv'
<1>1. /\ events' \in [Policies -> [EventIndices -> {"NULL", "live", "released"}]]
      /\ index' \in [Policies -> 1 .. EventCount + 1]
      /\ index'[p] = index[p] + 1
      /\ \A i \in EventIndices :
           events'[p][i] = IF i = index[p] THEN "live" ELSE events[p][i]
      /\ \A q \in Policies \ {p} : events'[q] = events[q] /\ index'[q] = index[q]
  BY AllocatedEvents DEF IInv, TypeOK
<1>2. UNCHANGED released_dead
  BY DEF EventAllocated
<1> USE GovernorAssumption
    DEF IInv, TypeOK, PolicyTypeOK, SharedTypeOK, FlagTypeOK, MutexInv,
        FlagTellsOfDebugfs, RegistryInv, BufferInv, EventsInv, IndexInv, MapInv,
        ReleaseInv, ReleasesOnlyLive, released_dead, Registered, HoldsBuffer, MoreEvents, Starting,
        Failing, Stopping, EventIndices, shared, debugfs
<1>3. TypeOK'
  BY <1>1, <1>2
<1>4. MutexInv'
  BY <1>1, <1>2
<1>5. FlagTellsOfDebugfs'
  BY <1>1, <1>2
<1>6. RegistryInv'
  BY <1>1, <1>2, SMTT(60)
<1>7. BufferInv'
  BY <1>1, <1>2
<1>8. EventsInv'
  <2>1. index[p] \in Int /\ pc'[p] = "alloc"
    OBVIOUS
  <2>2. ASSUME NEW i \in EventIndices
        PROVE  i < index'[p] <=> events'[p][i] = "live"
    <3>1. i < index[p] <=> events[p][i] = "live"
      OBVIOUS
    <3>2. i < index'[p] <=> i < index[p] \/ i = index[p]
      BY <1>1, <2>1
    <3>3. QED
      BY <1>1, <3>1, <3>2
  <2>3. ASSUME NEW q \in Policies, q # p
        PROVE  pc'[q] = pc[q] /\ events'[q] = events[q] /\ index'[q] = index[q]
    BY <1>1, <2>3
  <2>4. QED
    BY <2>1, <2>2, <2>3
<1>9. IndexInv'
  BY <1>1, <1>2
<1>10. MapInv'
  BY <1>1, <1>2
<1>11. ReleaseInv'
  BY <1>1, <1>2
<1>12. QED
  BY <1>3, <1>4, <1>5, <1>6, <1>7, <1>8, <1>9, <1>10, <1>11 DEF IInv

\* A failed allocation and its clean-up preserve the invariant.
LEMMA CleanupStep ==
  ASSUME IInv, NEW p \in Policies, MoreEvents(p), pc[p] \in {"alloc", "search"},
         pc' = [pc EXCEPT ![p] = "fail_alloc"], Cleanup(p), UNCHANGED shared
  PROVE  IInv'
<1>1. /\ events' \in [Policies -> [EventIndices -> {"NULL", "live", "released"}]]
      /\ \A i \in EventIndices :
           events'[p][i] = IF i < index[p] THEN "NULL" ELSE events[p][i]
      /\ \A q \in Policies \ {p} : events'[q] = events[q]
      /\ index' = index
  BY CleanedEvents DEF IInv, TypeOK
<1>2. UNCHANGED released_dead
  BY DEF Cleanup, ReleaseEvents, released_dead, IInv, TypeOK, FlagTypeOK, EventsInv
<1> USE GovernorAssumption
    DEF IInv, TypeOK, PolicyTypeOK, SharedTypeOK, FlagTypeOK, MutexInv,
        FlagTellsOfDebugfs, RegistryInv, BufferInv, EventsInv, IndexInv, MapInv,
        ReleaseInv, ReleasesOnlyLive, released_dead, Registered, HoldsBuffer, MoreEvents, Starting,
        Failing, Stopping, EventIndices, shared, debugfs
<1>3. TypeOK'
  BY <1>1, <1>2
<1>4. MutexInv'
  BY <1>1, <1>2
<1>5. FlagTellsOfDebugfs'
  BY <1>1, <1>2
<1>6. RegistryInv'
  BY <1>1, <1>2
<1>7. BufferInv'
  BY <1>1, <1>2
<1>8. EventsInv'
  BY <1>1, <1>2
<1>9. IndexInv'
  BY <1>1, <1>2
<1>10. MapInv'
  BY <1>1, <1>2
<1>11. ReleaseInv'
  BY <1>1, <1>2
<1>12. QED
  BY <1>3, <1>4, <1>5, <1>6, <1>7, <1>8, <1>9, <1>10, <1>11 DEF IInv

\* Every step of a callback preserves it.
LEMMA StepIInv == IInv /\ [Next]_vars => IInv'
<1> SUFFICES ASSUME IInv, [Next]_vars PROVE IInv'
  OBVIOUS
<1> USE GovernorAssumption
    DEF IInv, TypeOK, PolicyTypeOK, SharedTypeOK, FlagTypeOK, MutexInv, FlagTellsOfDebugfs, RegistryInv, BufferInv,
        EventsInv, IndexInv, MapInv, ReleaseInv, ReleasesOnlyLive, released_dead, Registered,
        HoldsBuffer, MoreEvents, Starting, Failing, Stopping, EventIndices, Goto,
        policy, debugfs, logging, shared
<1>1. ASSUME NEW p \in Policies, StartLock(p) PROVE IInv'
  BY <1>1 DEF StartLock, Lock
<1>2. ASSUME NEW p \in Policies, InitLoggingOnce(p) PROVE IInv'
  <2> USE <1>2 DEF InitLoggingOnce, DebugfsInitialised, DebugfsInitFails,
         LogfileExit, LogfileInit, InfofileInit
  <2>1. TypeOK'
    <3>1. PolicyTypeOK'
      OBVIOUS
    <3>2. SharedTypeOK'
      BY ExitRegistry
    <3>3. FlagTypeOK'
      OBVIOUS
    <3>4. QED
      BY <3>1, <3>2, <3>3 DEF TypeOK
  <2>2. MutexInv'
    OBVIOUS
  <2>3. FlagTellsOfDebugfs'
    OBVIOUS
  <2>4. RegistryInv'
    OBVIOUS
  <2>5. BufferInv'
    OBVIOUS
  <2>6. EventsInv'
    OBVIOUS
  <2>7. IndexInv'
    OBVIOUS
  <2>8. MapInv'
    OBVIOUS
  <2>9. ReleaseInv'
    OBVIOUS
  <2>10. QED
    BY <2>1, <2>2, <2>3, <2>4, <2>5, <2>6, <2>7, <2>8, <2>9
<1>3. ASSUME NEW p \in Policies, OpenUnregistered(p) PROVE IInv'
  <2> USE <1>3 DEF OpenUnregistered, Unlock, AfterLogging
  <2>1. PolicyTypeOK'
    <3>1. pc' \in [Policies -> {"stopped", "running", "failed"}
                                 \cup Starting \cup Failing \cup Stopping]
      <4>1. CASE p = First
        BY <4>1
      <4>2. CASE p # First
        BY <4>2
      <4>3. QED
        BY <4>1, <4>2
    <3>2. index' \in [Policies -> 1 .. EventCount + 1]
      OBVIOUS
    <3>3. logbuffer' \in [Policies -> {"NULL", "open", "closed"}]
      <4>1. CASE logbuffer' = [logbuffer EXCEPT ![p] = "NULL"]
        BY <4>1 DEF PolicyTypeOK
      <4>2. CASE logbuffer' = [logbuffer EXCEPT ![p] = "open"]
        BY <4>2 DEF PolicyTypeOK
      <4>3. QED
        BY <4>1, <4>2
    <3>4. QED
      BY <3>1, <3>2, <3>3
  <2>2. SharedTypeOK'
    OBVIOUS
  <2>3. FlagTypeOK'
    OBVIOUS
  <2>4. MutexInv'
    OBVIOUS
  <2>5. FlagTellsOfDebugfs'
    OBVIOUS
  <2>6. RegistryInv'
    OBVIOUS
  <2>7. BufferInv'
    OBVIOUS
  <2>8. EventsInv'
    OBVIOUS
  <2>9. IndexInv'
    OBVIOUS
  <2>10. MapInv'
    OBVIOUS
  <2>11. ReleaseInv'
    OBVIOUS
  <2>12. QED
    BY <2>1, <2>2, <2>3, <2>4, <2>5, <2>6, <2>7, <2>8, <2>9, <2>10, <2>11
<1>4. ASSUME NEW p \in Policies, OpenRingbuffer(p) PROVE IInv'
  BY <1>4 DEF OpenRingbuffer
<1>5. ASSUME NEW p \in Policies, RegisterRingbuffer(p) PROVE IInv'
  <2> USE <1>5 DEF RegisterRingbuffer, Unlock, AfterLogging, RegistryFull
  <2>1. /\ ringbuffers' \in Seq(Policies)
        /\ Len(ringbuffers') <= MaxRingbufferCount
        /\ \A k \in 1 .. Len(ringbuffers') :
             \/ ringbuffers'[k] = p
             \/ k \in 1 .. Len(ringbuffers) /\ ringbuffers'[k] = ringbuffers[k]
    <3>1. CASE UNCHANGED ringbuffers
      BY <3>1
    <3>2. CASE ~RegistryFull /\ ringbuffers' = Append(ringbuffers, p)
      BY <3>2, AppendRegisters
    <3>3. QED
      BY <3>1, <3>2
  <2>2. PolicyTypeOK' /\ SharedTypeOK' /\ FlagTypeOK'
    BY <2>1
  <2>3. RegistryInv'
    BY <2>1, SMTT(60)
  <2>4. MutexInv' /\ FlagTellsOfDebugfs'
    OBVIOUS
  <2>5. BufferInv' /\ MapInv' /\ ReleaseInv'
    OBVIOUS
  <2>6. EventsInv' /\ IndexInv'
    OBVIOUS
  <2>7. QED
    BY <2>2, <2>3, <2>4, <2>5, <2>6
<1>6. ASSUME NEW p \in Policies, SetupFails(p) PROVE IInv'
  BY <1>6 DEF SetupFails
<1>7. ASSUME NEW p \in Policies, SetupEventsMap(p) PROVE IInv'
  BY <1>7 DEF SetupEventsMap
<1>8. ASSUME NEW p \in Policies, SetupDone(p) PROVE IInv'
  BY <1>8 DEF SetupDone
<1>9. ASSUME NEW p \in Policies, SetupReachesEnd(p) PROVE IInv'
  BY <1>9 DEF SetupReachesEnd
<1>10. ASSUME NEW p \in Policies, SetupNotFound(p) PROVE IInv'
  BY <1>10 DEF SetupNotFound
<1>11. ASSUME NEW p \in Policies, AllocatePortable(p) PROVE IInv'
  BY <1>11, AllocationStep, CleanupStep DEF AllocatePortable
<1>12. ASSUME NEW p \in Policies, AllocateWithoutMap(p) PROVE IInv'
  BY <1>12, CleanupStep DEF AllocateWithoutMap
<1>13. ASSUME NEW p \in Policies, FindPlatformEvent(p) PROVE IInv'
  BY <1>13, SMTT(60) DEF FindPlatformEvent
<1>14. ASSUME NEW p \in Policies, AllocatePlatform(p) PROVE IInv'
  BY <1>14, AllocationStep, CleanupStep DEF AllocatePlatform
<1>15. ASSUME NEW p \in Policies, InstallUpdateHook(p) PROVE IInv'
  BY <1>15 DEF InstallUpdateHook
<1>16. ASSUME NEW p \in Policies, FailTeardown(p) PROVE IInv'
  BY <1>16 DEF FailTeardown, Teardown
<1>17. ASSUME NEW p \in Policies, FailLock(p) PROVE IInv'
  BY <1>17 DEF FailLock, Lock
<1>18. ASSUME NEW p \in Policies, FailDebugfsExit(p) PROVE IInv'
  <2> USE <1>18 DEF FailDebugfsExit, DebugfsExit, LogfileExit, InfofileExit, Unlock
  <2>1. TypeOK'
    <3>1. PolicyTypeOK'
      OBVIOUS
    <3>2. SharedTypeOK'
      BY ExitRegistry
    <3>3. FlagTypeOK'
      OBVIOUS
    <3>4. QED
      BY <3>1, <3>2, <3>3 DEF TypeOK
  <2>2. MutexInv'
    OBVIOUS
  <2>3. FlagTellsOfDebugfs'
    OBVIOUS
  <2>4. RegistryInv'
    OBVIOUS
  <2>5. BufferInv'
    OBVIOUS
  <2>6. EventsInv'
    OBVIOUS
  <2>7. IndexInv'
    OBVIOUS
  <2>8. MapInv'
    OBVIOUS
  <2>9. ReleaseInv'
    OBVIOUS
  <2>10. QED
    BY <2>1, <2>2, <2>3, <2>4, <2>5, <2>6, <2>7, <2>8, <2>9
<1>19. ASSUME NEW p \in Policies, FailClose(p) PROVE IInv'
  <2> USE <1>19 DEF FailClose, CloseRingbuffer
  <2>1. TypeOK'
    OBVIOUS
  <2>2. MutexInv'
    OBVIOUS
  <2>3. FlagTellsOfDebugfs'
    OBVIOUS
  <2>4. RegistryInv'
    OBVIOUS
  <2>5. BufferInv'
    OBVIOUS
  <2>6. EventsInv'
    OBVIOUS
  <2>7. IndexInv'
    OBVIOUS
  <2>8. MapInv'
    OBVIOUS
  <2>9. ReleaseInv'
    OBVIOUS
  <2>10. QED
    BY <2>1, <2>2, <2>3, <2>4, <2>5, <2>6, <2>7, <2>8, <2>9
<1>20. ASSUME NEW p \in Policies, MemutilStop(p) PROVE IInv'
  <2>1. UNCHANGED <<index, events, released_dead, shared>>
    BY <1>20 DEF MemutilStop
  <2>2. CASE Goto(p, "running", "release")
    BY <2>1, <2>2
  <2>3. CASE StopAfterFailedStart /\ Goto(p, "failed", "release")
    BY <2>1, <2>3, SMTT(60)
  <2>4. QED
    BY <1>20, <2>2, <2>3 DEF MemutilStop
<1>21. ASSUME NEW p \in Policies, ReleasePerfEvents(p) PROVE IInv'
  BY <1>21, SMTT(30) DEF ReleasePerfEvents, ReleaseEvents
<1>22. ASSUME NEW p \in Policies, StopLock(p) PROVE IInv'
  BY <1>22 DEF StopLock, Lock
<1>23. ASSUME NEW p \in Policies, StopDebugfsExit(p) PROVE IInv'
  <2> USE <1>23 DEF StopDebugfsExit, DebugfsExit, LogfileExit, InfofileExit, Unlock, Teardown
  <2>1. TypeOK'
    <3>1. PolicyTypeOK'
      OBVIOUS
    <3>2. SharedTypeOK'
      BY ExitRegistry
    <3>3. FlagTypeOK'
      OBVIOUS
    <3>4. QED
      BY <3>1, <3>2, <3>3 DEF TypeOK
  <2>2. MutexInv'
    OBVIOUS
  <2>3. FlagTellsOfDebugfs'
    OBVIOUS
  <2>4. RegistryInv'
    OBVIOUS
  <2>5. BufferInv'
    OBVIOUS
  <2>6. EventsInv'
    OBVIOUS
  <2>7. IndexInv'
    OBVIOUS
  <2>8. MapInv'
    OBVIOUS
  <2>9. ReleaseInv'
    OBVIOUS
  <2>10. QED
    BY <2>1, <2>2, <2>3, <2>4, <2>5, <2>6, <2>7, <2>8, <2>9
<1>24. ASSUME NEW p \in Policies, StopClose(p) PROVE IInv'
  <2> USE <1>24 DEF StopClose, CloseRingbuffer
  <2>1. TypeOK'
    OBVIOUS
  <2>2. MutexInv'
    OBVIOUS
  <2>3. FlagTellsOfDebugfs'
    OBVIOUS
  <2>4. RegistryInv'
    OBVIOUS
  <2>5. BufferInv'
    OBVIOUS
  <2>6. EventsInv'
    OBVIOUS
  <2>7. IndexInv'
    OBVIOUS
  <2>8. MapInv'
    OBVIOUS
  <2>9. ReleaseInv'
    OBVIOUS
  <2>10. QED
    BY <2>1, <2>2, <2>3, <2>4, <2>5, <2>6, <2>7, <2>8, <2>9
<1>25. ASSUME NEW p \in Policies, MemutilExit(p) PROVE IInv'
  BY <1>25 DEF MemutilExit, NoEvents
<1>26. CASE UNCHANGED vars
  BY <1>26 DEF vars
<1>27. QED
  BY <1>1, <1>2, <1>3, <1>4, <1>5, <1>6, <1>7, <1>8, <1>9, <1>10, <1>11, <1>12, <1>13, <1>14, <1>15, <1>16, <1>17, <1>18, <1>19, <1>20, <1>21, <1>22, <1>23, <1>24, <1>25, <1>26 DEF Next
-----------------------------------------------------------------------------
\* The inductive invariant holds throughout.
THEOREM Invariance == Spec => []IInv
  BY InitIInv, StepIInv, PTL DEF Spec

\* Every variable keeps its type; in particular the registry never exceeds
\* MAX_RINGBUFFER_COUNT entries.
THEOREM TypeCorrect == Spec => []TypeOK
<1>1. IInv => TypeOK
  BY DEF IInv
<1>2. QED
  BY <1>1, Invariance, PTL

\* The log file only ever reads ring buffers that exist, whichever policies are
\* started and stopped concurrently, and whichever starts fail.
THEOREM RegistrySafe == Spec => []RegisteredBuffersOpen
<1>1. IInv => RegisteredBuffersOpen
  BY DEF IInv, RegistryInv, RegisteredBuffersOpen
<1>2. QED
  BY <1>1, Invariance, PTL

\* memutil_debugfs_exit and memutil_debugfs_init find what the flag promises.
THEOREM DebugfsConsistent == Spec => []FlagTellsOfDebugfs
<1>1. IInv => FlagTellsOfDebugfs
  BY DEF IInv
<1>2. QED
  BY <1>1, Invariance, PTL

\* Failed starts and stops leave no perf event and no ring buffer behind.
THEOREM EventsReleased == Spec => []NothingLeftBehind
<1>1. IInv => NothingLeftBehind
  BY DEF IInv, BufferInv, EventsInv, NothingLeftBehind
<1>2. QED
  BY <1>1, Invariance, PTL

\* A policy that runs has all its events.
THEOREM EventsComplete == Spec => []RunningHasEvents
<1>1. IInv => RunningHasEvents
  BY DEF IInv, EventsInv, RunningHasEvents
<1>2. QED
  BY <1>1, Invariance, PTL

\* If the core only stops what was started, the events map is in place for as
\* long as the first policy may use it.
THEOREM MapKept ==
  ASSUME ~StopAfterFailedStart
  PROVE  Spec => []MapIsFirsts
<1>1. IInv => MapIsFirsts
  BY DEF IInv, MapInv, MapIsFirsts
<1>2. QED
  BY <1>1, Invariance, PTL

\* If the core only stops what was started, every perf event and every ring
\* buffer is released at most once.
THEOREM ReleasedOnce ==
  ASSUME ~StopAfterFailedStart
  PROVE  Spec => []ReleasesOnlyLive
<1>1. IInv => ReleasesOnlyLive
  BY DEF IInv, ReleaseInv
<1>2. QED
  BY <1>1, Invariance, PTL
=============================================================================
