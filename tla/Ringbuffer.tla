----------------------------- MODULE Ringbuffer -----------------------------
(***************************************************************************)
(* One log ring buffer (memutil_ringbuffer_log.c): the scheduler hook of a *)
(* CPU writes entries to it, threads that read the debugfs log file take   *)
(* them out.  Both sides hold buffer->lock; the hook cannot be interrupted *)
(* and runs on the buffer's CPU, a reader runs there or elsewhere.         *)
(*                                                                         *)
(* The k-th entry written is represented by the number k, so a slot tells  *)
(* which entry it holds; 0 is memory that was never written.               *)
(***************************************************************************)
EXTENDS Integers, Sequences

CONSTANTS
  Size,         \* buffer->size
  Readers,      \* threads inside memutil_ringbuffer_append_to_logfile
  MaxBatch,     \* largest count passed to memutil_write_ringbuffer
  MaxEntries    \* bound: entries written in a behaviour

ASSUME SizeAssumption ==
  Size \in Nat \ {0} /\ MaxBatch \in Nat /\ MaxEntries \in Nat

VARIABLES
  data, insert_offset, had_wraparound,  \* struct memutil_ringbuffer
  lock,           \* buffer->lock: "free", "writer" or "reader"
  wpc,            \* the hook: "idle", "lock" or "loop"
  wleft,          \* entries memutil_write_ringbuffer has yet to store
  rpc,            \* rpc[r]: where reader r is
  on_cpu,         \* on_cpu[r]: reader r runs on the buffer's CPU
  irqs_off,       \* irqs_off[r]: reader r has interrupts disabled
  copy,           \* copy[r]: the reader's local buffer_copy
  out,            \* out[r]: what the reader has output from its copy
  written,        \* history: number of entries written
  cleared,        \* history: value of written at the last clear_buffer
  delivered       \* history: entries that some reader has output

buffer == <<data, insert_offset, had_wraparound>>
readers == <<rpc, on_cpu, irqs_off, copy, out, delivered>>
vars == <<buffer, lock, wpc, wleft, readers, written, cleared>>

Slots == 0 .. Size - 1

\* buffer_copy, and the two history variables when it was made.
Copies == [data : [Slots -> Nat], insert_offset : Slots, had_wraparound : BOOLEAN,
           written : Nat, cleared : Nat]

TypeOK ==
  /\ data \in [Slots -> Nat]
  /\ insert_offset \in Slots
  /\ had_wraparound \in BOOLEAN
  /\ lock \in {"free", "writer", "reader"}
  /\ wpc \in {"idle", "lock", "loop"}
  /\ wleft \in Nat
  /\ rpc \in [Readers -> {"idle", "alloc", "lock", "locked", "output"}]
  /\ on_cpu \in [Readers -> BOOLEAN]
  /\ irqs_off \in [Readers -> BOOLEAN]
  /\ copy \in [Readers -> Copies]
  /\ out \in [Readers -> Seq(Nat)]
  /\ written \in Nat
  /\ cleared \in Nat
  /\ delivered \in SUBSET Nat

NoCopy == [data |-> [j \in Slots |-> 0], insert_offset |-> 0,
           had_wraparound |-> FALSE, written |-> 0, cleared |-> 0]

\* memutil_open_ringbuffer
Init ==
  /\ data = [j \in Slots |-> 0]
  /\ insert_offset = 0
  /\ had_wraparound = FALSE
  /\ lock = "free"
  /\ wpc = "idle"
  /\ wleft = 0
  /\ rpc = [r \in Readers |-> "idle"]
  /\ on_cpu = [r \in Readers |-> FALSE]
  /\ irqs_off = [r \in Readers |-> FALSE]
  /\ copy = [r \in Readers |-> NoCopy]
  /\ out = [r \in Readers |-> <<>>]
  /\ written = 0
  /\ cleared = 0
  /\ delivered = {}

-----------------------------------------------------------------------------
(***************************************************************************)
(* The writer: memutil_write_ringbuffer, called by the hook.               *)
(***************************************************************************)

\* The hook starts on the buffer's CPU unless interrupts are disabled there.
WriteCall(count) ==
  /\ wpc = "idle"
  /\ written + count <= MaxEntries
  /\ \A r \in Readers : ~(on_cpu[r] /\ irqs_off[r])
  /\ wpc' = "lock"
  /\ wleft' = count
  /\ UNCHANGED <<buffer, lock, readers, written, cleared>>

\* Faulty: the flag is not set when the entries fill the buffer exactly.
PassesEnd == insert_offset + wleft > Size

\* The entries reach the end of the buffer.
ReachesEnd == insert_offset + wleft >= Size

\* Take the lock and note whether the entries reach the end of the buffer.
WriteLock ==
  /\ wpc = "lock"
  /\ lock = "free"
  /\ lock' = "writer"
  /\ wpc' = "loop"
  /\ had_wraparound' = (had_wraparound \/ ReachesEnd)
  /\ UNCHANGED <<data, insert_offset, wleft, readers, written, cleared>>

\* Faulty: the offset is not wrapped.
OffsetUnwrapped(o) == o + 1

\* Faulty: the offset stays at the end of the buffer.
OffsetSaturated(o) == IF o + 1 < Size THEN o + 1 ELSE o

NextOffset(o) == (o + 1) % Size

\* One iteration of the loop.
WriteEntry ==
  /\ wpc = "loop"
  /\ wleft > 0
  /\ data' = [data EXCEPT ![insert_offset] = written + 1]
  /\ insert_offset' = NextOffset(insert_offset)
  /\ wleft' = wleft - 1
  /\ written' = written + 1
  /\ UNCHANGED <<had_wraparound, lock, wpc, readers, cleared>>

WriteUnlock ==
  /\ wpc = "loop"
  /\ wleft = 0
  /\ lock' = "free"
  /\ wpc' = "idle"
  /\ UNCHANGED <<buffer, wleft, readers, written, cleared>>

WriteStep == WriteLock \/ WriteEntry \/ WriteUnlock

-----------------------------------------------------------------------------
(***************************************************************************)
(* A reader: memutil_ringbuffer_append_to_logfile.                         *)
(***************************************************************************)

\* A reader on the buffer's CPU makes no step while the hook runs there.
CanRun(r) == ~(on_cpu[r] /\ wpc # "idle")

\* The call, on the buffer's CPU (here) or on another.
ReadCall(r, here) ==
  /\ rpc[r] = "idle"
  /\ here => wpc = "idle"
  /\ rpc' = [rpc EXCEPT ![r] = "alloc"]
  /\ on_cpu' = [on_cpu EXCEPT ![r] = here]
  /\ UNCHANGED <<buffer, lock, wpc, wleft, irqs_off, copy, out, delivered,
                 written, cleared>>

\* The copy cannot be allocated: return -ENOMEM and leave the buffer as it is.
ReadFail(r) ==
  /\ rpc[r] = "alloc"
  /\ CanRun(r)
  /\ rpc' = [rpc EXCEPT ![r] = "idle"]
  /\ UNCHANGED <<buffer, lock, wpc, wleft, on_cpu, irqs_off, copy, out,
                 delivered, written, cleared>>

\* The copy is allocated.
ReadAlloc(r) ==
  /\ rpc[r] = "alloc"
  /\ CanRun(r)
  /\ rpc' = [rpc EXCEPT ![r] = "lock"]
  /\ UNCHANGED <<buffer, lock, wpc, wleft, on_cpu, irqs_off, copy, out,
                 delivered, written, cleared>>

\* Faulty: raw_spin_lock without disabling interrupts.
ReadLockIrqsOn(r) ==
  /\ rpc[r] = "lock"
  /\ CanRun(r)
  /\ lock = "free"
  /\ lock' = "reader"
  /\ rpc' = [rpc EXCEPT ![r] = "locked"]
  /\ UNCHANGED <<buffer, wpc, wleft, on_cpu, irqs_off, copy, out, delivered,
                 written, cleared>>

\* raw_spin_lock_irqsave
ReadLock(r) ==
  /\ rpc[r] = "lock"
  /\ CanRun(r)
  /\ lock = "free"
  /\ lock' = "reader"
  /\ irqs_off' = [irqs_off EXCEPT ![r] = TRUE]
  /\ rpc' = [rpc EXCEPT ![r] = "locked"]
  /\ UNCHANGED <<buffer, wpc, wleft, on_cpu, copy, out, delivered, written, cleared>>

\* The part of the buffer that memcpy copies; the rest of the copy stays
\* uninitialised.
CopiedData ==
  [j \in Slots |-> IF had_wraparound \/ j < insert_offset THEN data[j] ELSE 0]

\* Faulty: the buffer keeps its entries.
BufferKept == UNCHANGED <<insert_offset, had_wraparound>>

\* clear_buffer
ClearBuffer == insert_offset' = 0 /\ had_wraparound' = FALSE

\* Copy the buffer, clear it, and unlock.
ReadCopy(r) ==
  /\ rpc[r] = "locked"
  /\ CanRun(r)
  /\ copy' = [copy EXCEPT ![r] =
                [data |-> CopiedData, insert_offset |-> insert_offset,
                 had_wraparound |-> had_wraparound,
                 written |-> written, cleared |-> cleared]]
  /\ ClearBuffer
  /\ cleared' = written
  /\ lock' = "free"
  /\ irqs_off' = [irqs_off EXCEPT ![r] = FALSE]
  /\ rpc' = [rpc EXCEPT ![r] = "output"]
  /\ UNCHANGED <<data, wpc, wleft, on_cpu, out, delivered, written>>

\* Faulty: output starts at the first slot even after a wraparound.
ReadOffsetFirst(b) == 0

\* memutil_output_data: where it starts and how many entries it outputs.
ReadOffset(b) == IF b.had_wraparound THEN b.insert_offset ELSE 0
ValidSize(b) == IF b.had_wraparound THEN Size ELSE b.insert_offset

\* The entry output in iteration i of memutil_output_data.
OutputElement(b, i) == b.data[(ReadOffset(b) + i) % Size]

\* Faulty: the loop does not advance.
ReadOutputStuck(r) ==
  /\ rpc[r] = "output"
  /\ CanRun(r)
  /\ Len(out[r]) < ValidSize(copy[r])
  /\ UNCHANGED vars

ReadOutput(r) ==
  /\ rpc[r] = "output"
  /\ CanRun(r)
  /\ Len(out[r]) < ValidSize(copy[r])
  /\ LET e == OutputElement(copy[r], Len(out[r]))
     IN  /\ out' = [out EXCEPT ![r] = Append(@, e)]
         /\ delivered' = delivered \cup {e}
  /\ UNCHANGED <<buffer, lock, wpc, wleft, rpc, on_cpu, irqs_off, copy,
                 written, cleared>>

\* Free the copy and return.
ReadReturn(r) ==
  /\ rpc[r] = "output"
  /\ CanRun(r)
  /\ Len(out[r]) = ValidSize(copy[r])
  /\ rpc' = [rpc EXCEPT ![r] = "idle"]
  /\ copy' = [copy EXCEPT ![r] = NoCopy]
  /\ out' = [out EXCEPT ![r] = <<>>]
  /\ UNCHANGED <<buffer, lock, wpc, wleft, on_cpu, irqs_off, delivered,
                 written, cleared>>

ReadStep(r) ==
  \/ ReadFail(r)
  \/ ReadAlloc(r)
  \/ ReadLock(r)
  \/ ReadCopy(r)
  \/ ReadOutput(r)
  \/ ReadReturn(r)

-----------------------------------------------------------------------------
Next ==
  \/ \E count \in 1 .. MaxBatch : WriteCall(count)
  \/ WriteStep
  \/ \E r \in Readers, here \in BOOLEAN : ReadCall(r, here)
  \/ \E r \in Readers : ReadStep(r)

Spec == Init /\ [][Next]_vars

(***************************************************************************)
(* The hook is not interrupted, a reader is scheduled again after every    *)
(* hook on its CPU, and the lock is a queued one, so whoever waits gets it. *)
(***************************************************************************)
Fairness ==
  /\ SF_vars(WriteLock)
  /\ WF_vars(WriteEntry \/ WriteUnlock)
  /\ \A r \in Readers : SF_vars(ReadStep(r))

FairSpec == Spec /\ Fairness

-----------------------------------------------------------------------------
(***************************************************************************)
(* Properties.                                                             *)
(***************************************************************************)
Lesser(a, b) == IF a <= b THEN a ELSE b

\* What a copy must yield: the entries written since the buffer was cleared,
\* or the newest Size of them.
ExpectedCount(b) == Lesser(Size, b.written - b.cleared)
ExpectedFirst(b) == b.written - ExpectedCount(b) + 1

\* memutil_output_data outputs exactly the entries that were in the buffer when
\* it was copied, oldest first, whatever the number of wraparounds, and never
\* uninitialised memory.
OutputIsNewestEntries ==
  \A r \in Readers :
    rpc[r] = "output" =>
      /\ ValidSize(copy[r]) = ExpectedCount(copy[r])
      /\ \A k \in 1 .. Len(out[r]) : out[r][k] = ExpectedFirst(copy[r]) + k - 1

\* Reading takes an entry out of the buffer: no entry is output twice, by the
\* same reader or by two that run concurrently.
NoEntryTwice ==
  [][\A r \in Readers :
       Len(out'[r]) > Len(out[r]) => out'[r][Len(out'[r])] \notin delivered]_vars

\* The comment in memutil_ringbuffer_append_to_logfile (lines 135-139): the
\* hook never waits on its own CPU for a lock that a reader holds there.
NoSelfDeadlock ==
  wpc = "lock" => \A r \in Readers : ~(rpc[r] = "locked" /\ on_cpu[r])

\* Every entry is with the buffer, with a reader, delivered or overwritten, and
\* only entries older than Size newer ones are overwritten: an entry written
\* after the last clear is in the buffer while no more than Size follow it.
NewestStayInBuffer ==
  \A n \in 1 .. written :
    n > cleared /\ n > written - Size => \E j \in Slots : data[j] = n

\* memutil_ringbuffer_append_to_logfile gets the lock and returns, although the
\* hook may interrupt it, and the hook and other readers contend for the lock.
ReadReturns == \A r \in Readers : rpc[r] = "lock" ~> rpc[r] = "idle"

\* Entries reader r has copied and yet to output: what memutil_output_data will
\* find in the slots of the copy.
Held(r) ==
  IF rpc[r] = "output"
    THEN {OutputElement(copy[r], i) : i \in Len(out[r]) .. ValidSize(copy[r]) - 1}
    ELSE {}

\* Entries written since the last clear_buffer, or the newest Size of them.
Pending == {n \in cleared + 1 .. written : n > written - Size}

LL == INSTANCE LossyLog WITH
  logged  <- written,
  pending <- Pending,
  held    <- [r \in Readers |-> Held(r)]

\* The ring buffer, its lock and the copies implement the lossy log: a copy
\* holds exactly what was pending, nothing is lost between copy and clear, and
\* each reader outputs what it took, oldest first.
ImplementsLossyLog == LL!Spec
=============================================================================
