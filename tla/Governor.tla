------------------------------ MODULE Governor ------------------------------
(***************************************************************************)
(* The governor callbacks of several policies and what these policies      *)
(* share: the debugfs directory with its log and info file, the registry   *)
(* of ring buffers, memutil_init_mutex, and the events map, which only the *)
(* policy of the first online CPU sets up.  The core calls the callbacks   *)
(* of one policy one after the other and those of two policies             *)
(* concurrently.  Module FreqSwitch has the hooks and what stopping them   *)
(* takes.                                                                  *)
(***************************************************************************)
EXTENDS Integers, Sequences

CONSTANTS
  Policies,
  First,                  \* the policy of cpumask_first(cpu_online_mask)
  EventCount,             \* PERF_EVENT_COUNT
  MaxRingbufferCount,     \* MAX_RINGBUFFER_COUNT
  MapExhaustible,         \* every entry of memutil_pmu_events_map may be passed
                          \* over; not so with the table in pmu_events.c
  StopAfterFailedStart    \* the core stops a policy whose start has failed, as
                          \* it does in a suspend after a failed resume

ASSUME GovernorAssumption ==
  /\ First \in Policies
  /\ EventCount \in Nat
  /\ MaxRingbufferCount \in Nat
  /\ MapExhaustible \in BOOLEAN
  /\ StopAfterFailedStart \in BOOLEAN

VARIABLES
  pc,                       \* pc[p]: where the callbacks of p are
  index,                    \* index[p]: i in memutil_allocate_perf_counters_for_cpu
  events,                   \* events[p][i]: "NULL", "live" or "released"
  logbuffer,                \* logbuffer[p]: "NULL", "open" or "closed"
  memutil_init_mutex,       \* who holds it: a set of at most one policy
  is_logfile_initialized,
  root_dir, log_file, info_file,  \* they exist
  ringbuffers,              \* registry: whose ring buffers are registered
  events_map,               \* "NULL", "table", or "end": the entry without table
  dead_event_released,      \* history: an event was released that was not live
  dead_buffer_closed        \* history: a ring buffer was closed that was not open

policy == <<pc, index, events, logbuffer>>
debugfs == <<is_logfile_initialized, root_dir, log_file, info_file, ringbuffers>>
released_dead == <<dead_event_released, dead_buffer_closed>>
vars == <<policy, memutil_init_mutex, debugfs, events_map, released_dead>>

EventIndices == 1 .. EventCount

Starting == {"init", "open", "register", "map", "scan", "end", "alloc", "search"}
Failing == {"fail_alloc", "fail_lock", "fail_exit", "fail_close"}
Stopping == {"release", "stop_lock", "stop_exit", "close"}

PolicyTypeOK ==
  /\ pc \in [Policies -> {"stopped", "running", "failed"}
                           \cup Starting \cup Failing \cup Stopping]
  /\ index \in [Policies -> 1 .. EventCount + 1]
  /\ events \in [Policies -> [EventIndices -> {"NULL", "live", "released"}]]
  /\ logbuffer \in [Policies -> {"NULL", "open", "closed"}]

SharedTypeOK ==
  /\ memutil_init_mutex \in SUBSET Policies
  /\ ringbuffers \in Seq(Policies)
  /\ Len(ringbuffers) <= MaxRingbufferCount
  /\ events_map \in {"NULL", "table", "end"}

FlagTypeOK ==
  /\ is_logfile_initialized \in BOOLEAN
  /\ root_dir \in BOOLEAN
  /\ log_file \in BOOLEAN
  /\ info_file \in BOOLEAN
  /\ dead_event_released \in BOOLEAN
  /\ dead_buffer_closed \in BOOLEAN

TypeOK == PolicyTypeOK /\ SharedTypeOK /\ FlagTypeOK

NoEvents == [i \in EventIndices |-> "NULL"]

\* Every policy has been through memutil_init.
Init ==
  /\ pc = [p \in Policies |-> "stopped"]
  /\ index = [p \in Policies |-> 1]
  /\ events = [p \in Policies |-> NoEvents]
  /\ logbuffer = [p \in Policies |-> "NULL"]
  /\ memutil_init_mutex = {}
  /\ is_logfile_initialized = FALSE
  /\ root_dir = FALSE
  /\ log_file = FALSE
  /\ info_file = FALSE
  /\ ringbuffers = <<>>
  /\ events_map = "NULL"
  /\ dead_event_released = FALSE
  /\ dead_buffer_closed = FALSE

Goto(p, from, to) == pc[p] = from /\ pc' = [pc EXCEPT ![p] = to]

\* Faulty: the mutex is not taken.
LockIgnored(p) == UNCHANGED memutil_init_mutex

Lock(p) == memutil_init_mutex = {} /\ memutil_init_mutex' = {p}
Unlock(p) == memutil_init_mutex' = memutil_init_mutex \ {p}

-----------------------------------------------------------------------------
(***************************************************************************)
(* debugfs.                                                                *)
(***************************************************************************)

\* memutil_debugfs_logfile_init and memutil_debugfs_infofile_init succeed.  Where
\* they fail they undo what they did.
LogfileInit == log_file' = TRUE
InfofileInit == info_file' = TRUE

\* memutil_debugfs_logfile_exit and memutil_debugfs_infofile_exit
LogfileExit == log_file' = FALSE /\ ringbuffers' = <<>>
InfofileExit == info_file' = FALSE

\* memutil_debugfs_init succeeds, or had done so before.
DebugfsInitialised ==
  /\ root_dir' = TRUE
  /\ \/ root_dir /\ UNCHANGED <<log_file, info_file>>
     \/ ~root_dir /\ LogfileInit /\ InfofileInit
  /\ is_logfile_initialized' = TRUE
  /\ UNCHANGED ringbuffers

\* memutil_debugfs_init fails at the directory or the log file, of which nothing
\* is left, or at the info file, and then removes the log file again.
DebugfsInitFails ==
  /\ ~root_dir
  /\ \/ UNCHANGED <<log_file, ringbuffers>>
     \/ LogfileExit
  /\ is_logfile_initialized' = FALSE
  /\ UNCHANGED <<root_dir, info_file>>

\* Faulty: is_logfile_initialized is not reset.
DebugfsExitKeepsFlag ==
  \/ /\ is_logfile_initialized
     /\ LogfileExit
     /\ InfofileExit
     /\ root_dir' = FALSE
     /\ UNCHANGED is_logfile_initialized
  \/ ~is_logfile_initialized /\ UNCHANGED debugfs

\* The part of memutil_start's error path and of memutil_stop that removes
\* debugfs, for all policies: memutil_debugfs_exit.
DebugfsExit ==
  \/ /\ is_logfile_initialized
     /\ LogfileExit
     /\ InfofileExit
     /\ root_dir' = FALSE
     /\ is_logfile_initialized' = FALSE
  \/ ~is_logfile_initialized /\ UNCHANGED debugfs

-----------------------------------------------------------------------------
(***************************************************************************)
(* memutil_start: logging.                                                 *)
(***************************************************************************)

StartLock(p) ==
  /\ Goto(p, "stopped", "init")
  /\ Lock(p)
  /\ UNCHANGED <<index, events, logbuffer, debugfs, events_map, released_dead>>

\* init_logging_once
InitLoggingOnce(p) ==
  /\ Goto(p, "init", "open")
  /\ \/ p # First /\ UNCHANGED debugfs
     \/ p = First /\ DebugfsInitialised
     \/ p = First /\ DebugfsInitFails
  /\ UNCHANGED <<index, events, logbuffer, memutil_init_mutex, events_map, released_dead>>

\* Where memutil_start goes on after init_logging.
AfterLogging(p) == IF p = First THEN "map" ELSE "alloc"

\* memutil_open_ringbuffer fails, or there is no log file to register with.
OpenUnregistered(p) ==
  /\ Goto(p, "open", AfterLogging(p))
  /\ \/ logbuffer' = [logbuffer EXCEPT ![p] = "NULL"]
     \/ ~is_logfile_initialized /\ logbuffer' = [logbuffer EXCEPT ![p] = "open"]
  /\ Unlock(p)
  /\ index' = [index EXCEPT ![p] = 1]
  /\ UNCHANGED <<events, debugfs, events_map, released_dead>>

OpenRingbuffer(p) ==
  /\ is_logfile_initialized
  /\ Goto(p, "open", "register")
  /\ logbuffer' = [logbuffer EXCEPT ![p] = "open"]
  /\ UNCHANGED <<index, events, memutil_init_mutex, debugfs, events_map, released_dead>>

\* Faulty: the limit is tested too late.
RegistryOverfull == Len(ringbuffers) > MaxRingbufferCount

RegistryFull == Len(ringbuffers) >= MaxRingbufferCount

\* memutil_debugfs_register_ringbuffer, whose refusal is ignored.
RegisterRingbuffer(p) ==
  /\ Goto(p, "register", AfterLogging(p))
  /\ \/ RegistryFull /\ UNCHANGED ringbuffers
     \/ ~RegistryFull /\ ringbuffers' = Append(ringbuffers, p)
  /\ Unlock(p)
  /\ index' = [index EXCEPT ![p] = 1]
  /\ UNCHANGED <<events, logbuffer, is_logfile_initialized, root_dir, log_file,
                 info_file, events_map, released_dead>>

-----------------------------------------------------------------------------
(***************************************************************************)
(* memutil_start: the events map, and its teardown.  The search moves      *)
(* events_map itself, without memutil_init_mutex.  Which entry is chosen   *)
(* depends on the CPU and on the generated table and is left open.         *)
(***************************************************************************)
logging == <<index, events, logbuffer, memutil_init_mutex, debugfs, released_dead>>

\* memutil_get_cpuid_str fails.
SetupFails(p) ==
  /\ Goto(p, "map", "fail_lock")
  /\ UNCHANGED <<logging, events_map>>

SetupEventsMap(p) ==
  /\ Goto(p, "map", "scan")
  /\ events_map' = "table"
  /\ UNCHANGED logging

\* The entry events_map points to is chosen.
SetupDone(p) ==
  /\ Goto(p, "scan", "alloc")
  /\ UNCHANGED <<logging, events_map>>

\* No entry is chosen: events_map reaches the one that marks the end...
SetupReachesEnd(p) ==
  /\ MapExhaustible
  /\ Goto(p, "scan", "end")
  /\ events_map' = "end"
  /\ UNCHANGED logging

\* ... and is reset.
SetupNotFound(p) ==
  /\ Goto(p, "end", "fail_lock")
  /\ events_map' = "NULL"
  /\ UNCHANGED logging

\* Faulty: any policy tears down the events map.
TeardownByAnyone(p) == events_map' = "NULL"

\* memutil_teardown_events_map, called for the first policy only.
Teardown(p) == events_map' = IF p = First THEN "NULL" ELSE events_map

-----------------------------------------------------------------------------
(***************************************************************************)
(* memutil_start: the perf events.                                         *)
(***************************************************************************)
shared == <<logbuffer, memutil_init_mutex, debugfs, events_map>>

\* Faulty: the last event is left out.
MoreEventsButOne(p) == index[p] < EventCount

MoreEvents(p) == index[p] <= EventCount

\* memutil_allocate_perf_counter_for succeeds.
EventAllocated(p) ==
  /\ events' = [events EXCEPT ![p][index[p]] = "live"]
  /\ index' = [index EXCEPT ![p] = @ + 1]
  /\ UNCHANGED released_dead

\* perf_event_release_kernel for the events released, as the history sees it.
ReleaseEvents(p, released) ==
  /\ dead_event_released' =
       (dead_event_released \/ \E i \in released : events[p][i] # "live")
  /\ UNCHANGED dead_buffer_closed

\* Faulty: the clean-up starts with the event that could not be allocated.
CleanupWithFailedEvent(p) ==
  /\ ReleaseEvents(p, {i \in EventIndices : i <= index[p]})
  /\ events' = [events EXCEPT ![p] =
                  [i \in EventIndices |-> IF i <= index[p] THEN "NULL" ELSE @[i]]]
  /\ UNCHANGED index

\* Faulty: the events allocated so far are kept.
NoCleanup(p) == UNCHANGED <<events, index, released_dead>>

\* The label cleanup of memutil_allocate_perf_counters_for_cpu.
Cleanup(p) ==
  /\ ReleaseEvents(p, {i \in EventIndices : i < index[p]})
  /\ events' = [events EXCEPT ![p] =
                  [i \in EventIndices |-> IF i < index[p] THEN "NULL" ELSE @[i]]]
  /\ UNCHANGED index

\* A portable event, which needs no map.
AllocatePortable(p) ==
  /\ MoreEvents(p)
  /\ \/ Goto(p, "alloc", "alloc") /\ EventAllocated(p)
     \/ Goto(p, "alloc", "fail_alloc") /\ Cleanup(p)
  /\ UNCHANGED shared

\* A platform event without a map: find_platform_event yields NULL.
AllocateWithoutMap(p) ==
  /\ MoreEvents(p)
  /\ events_map = "NULL"
  /\ Goto(p, "alloc", "fail_alloc")
  /\ Cleanup(p)
  /\ UNCHANGED shared

\* find_platform_event has found events_map set...
FindPlatformEvent(p) ==
  /\ MoreEvents(p)
  /\ events_map # "NULL"
  /\ Goto(p, "alloc", "search")
  /\ UNCHANGED <<index, events, released_dead, shared>>

\* ... and searches events_map->table.  Not found, not parsed or not allocated is
\* a failure.  The first policy may have torn the map down in between.
AllocatePlatform(p) ==
  /\ \/ Goto(p, "search", "alloc") /\ EventAllocated(p)
     \/ Goto(p, "search", "fail_alloc") /\ Cleanup(p)
  /\ UNCHANGED shared

\* setup_per_cpu_data and install_update_hook.
InstallUpdateHook(p) ==
  /\ ~MoreEvents(p)
  /\ Goto(p, "alloc", "running")
  /\ UNCHANGED <<index, events, released_dead, shared>>

-----------------------------------------------------------------------------
(***************************************************************************)
(* memutil_start: the error path.                                          *)
(***************************************************************************)
FailTeardown(p) ==
  /\ Goto(p, "fail_alloc", "fail_lock")
  /\ Teardown(p)
  /\ UNCHANGED logging

FailLock(p) ==
  /\ Goto(p, "fail_lock", "fail_exit")
  /\ Lock(p)
  /\ UNCHANGED <<index, events, logbuffer, debugfs, events_map, released_dead>>

FailDebugfsExit(p) ==
  /\ Goto(p, "fail_exit", "fail_close")
  /\ DebugfsExit
  /\ Unlock(p)
  /\ UNCHANGED <<index, events, logbuffer, events_map, released_dead>>

\* memutil_close_ringbuffer, if there is a ring buffer.
CloseRingbuffer(p) ==
  /\ dead_buffer_closed' = (dead_buffer_closed \/ logbuffer[p] = "closed")
  /\ UNCHANGED dead_event_released
  /\ logbuffer' = [logbuffer EXCEPT ![p] = IF @ = "NULL" THEN @ ELSE "closed"]

FailClose(p) ==
  /\ Goto(p, "fail_close", "failed")
  /\ CloseRingbuffer(p)
  /\ UNCHANGED <<index, events, memutil_init_mutex, debugfs, events_map>>

-----------------------------------------------------------------------------
(***************************************************************************)
(* memutil_stop, memutil_exit and memutil_init.                            *)
(***************************************************************************)

\* The hooks are removed and have returned.
MemutilStop(p) ==
  /\ \/ Goto(p, "running", "release")
     \/ StopAfterFailedStart /\ Goto(p, "failed", "release")
  /\ UNCHANGED <<index, events, released_dead, shared>>

\* memutil_release_perf_events, which skips events that are NULL.
ReleasePerfEvents(p) ==
  /\ Goto(p, "release", "stop_lock")
  /\ ReleaseEvents(p, {i \in EventIndices : events[p][i] # "NULL"})
  /\ events' = [events EXCEPT ![p] =
                  [i \in EventIndices |-> IF @[i] = "NULL" THEN "NULL" ELSE "released"]]
  /\ UNCHANGED <<index, shared>>

StopLock(p) ==
  /\ Goto(p, "stop_lock", "stop_exit")
  /\ Lock(p)
  /\ UNCHANGED <<index, events, logbuffer, debugfs, events_map, released_dead>>

StopDebugfsExit(p) ==
  /\ Goto(p, "stop_exit", "close")
  /\ DebugfsExit
  /\ Teardown(p)
  /\ Unlock(p)
  /\ UNCHANGED <<index, events, logbuffer, released_dead>>

StopClose(p) ==
  /\ Goto(p, "close", "stopped")
  /\ CloseRingbuffer(p)
  /\ UNCHANGED <<index, events, memutil_init_mutex, debugfs, events_map>>

\* memutil_exit frees the struct memutil_policy; the next memutil_init allocates
\* one that is zeroed.
MemutilExit(p) ==
  /\ pc[p] \in {"stopped", "failed"}
  /\ pc' = [pc EXCEPT ![p] = "stopped"]
  /\ events' = [events EXCEPT ![p] = NoEvents]
  /\ logbuffer' = [logbuffer EXCEPT ![p] = "NULL"]
  /\ UNCHANGED <<index, memutil_init_mutex, debugfs, events_map, released_dead>>

-----------------------------------------------------------------------------
Next ==
  \E p \in Policies :
    \/ StartLock(p)
    \/ InitLoggingOnce(p)
    \/ OpenUnregistered(p)
    \/ OpenRingbuffer(p)
    \/ RegisterRingbuffer(p)
    \/ SetupFails(p)
    \/ SetupEventsMap(p)
    \/ SetupDone(p)
    \/ SetupReachesEnd(p)
    \/ SetupNotFound(p)
    \/ AllocatePortable(p)
    \/ AllocateWithoutMap(p)
    \/ FindPlatformEvent(p)
    \/ AllocatePlatform(p)
    \/ InstallUpdateHook(p)
    \/ FailTeardown(p)
    \/ FailLock(p)
    \/ FailDebugfsExit(p)
    \/ FailClose(p)
    \/ MemutilStop(p)
    \/ ReleasePerfEvents(p)
    \/ StopLock(p)
    \/ StopDebugfsExit(p)
    \/ StopClose(p)
    \/ MemutilExit(p)

Spec == Init /\ [][Next]_vars

-----------------------------------------------------------------------------
(***************************************************************************)
(* Properties.                                                             *)
(***************************************************************************)
Registered(p) == \E k \in 1 .. Len(ringbuffers) : ringbuffers[k] = p

\* A policy holds a ring buffer that it opened and has not yet closed.
HoldsBuffer(p) == logbuffer[p] = "open"

\* Reading the log walks the registry (user_read_log): a registered ring buffer
\* has not been freed, although each policy closes its own and any policy's
\* stop or failed start empties the registry.
RegisteredBuffersOpen == \A p \in Policies : Registered(p) => HoldsBuffer(p)

\* is_logfile_initialized says whether directory, log and info file exist:
\* memutil_debugfs_exit is never called without them, no file is left over, and
\* only then is anything registered.
FlagTellsOfDebugfs ==
  /\ is_logfile_initialized <=> root_dir
  /\ root_dir <=> log_file
  /\ root_dir <=> info_file
  /\ ~root_dir => ringbuffers = <<>>

\* A start that fails undoes what it did, and a stop undoes all of the start:
\* no perf event and no ring buffer is left behind.
NothingLeftBehind ==
  \A p \in Policies :
    pc[p] \in {"stopped", "failed"} =>
      /\ \A i \in EventIndices : events[p][i] # "live"
      /\ ~HoldsBuffer(p)

\* The hook reads all events without looking whether they exist.
RunningHasEvents ==
  \A p \in Policies :
    pc[p] = "running" => \A i \in EventIndices : events[p][i] = "live"

\* The events map stays in place from its setup to the stop of the first policy,
\* whatever the others do, and is gone afterwards.
MapIsFirsts ==
  /\ pc[First] \in {"alloc", "search", "fail_alloc", "running", "release"} =>
       events_map = "table"
  /\ pc[First] \in {"stopped", "failed"} => events_map = "NULL"

\* Over failed starts, restarts and stops of any policy, neither events nor ring
\* buffers are released that are not live: memutil_stop and the error path of
\* memutil_start leave the pointers as they are.
ReleasesOnlyLive == ~dead_event_released /\ ~dead_buffer_closed

\* "Release previously allocated perf events" (perf_counter.h 78): the events that
\* a clean-up or memutil_stop releases have been allocated and not been released
\* since.
ReleasesAllocatedEvents == ~dead_event_released
=============================================================================
