------------------------------ MODULE LogFile ------------------------------
(***************************************************************************)
(* The debugfs log file (memutil_debugfs_logfile.c).  Reading it from the  *)
(* start empties the registered ring buffers into one text that all        *)
(* readers share; later reads go on in that text.  Nothing protects text   *)
(* and registry against a second reader, nor against the callbacks that    *)
(* create and remove the file.  Overlaps says what of this may happen.     *)
(*                                                                         *)
(* A ring buffer is its entries, the newest RingSize of them, as module    *)
(* LossyLog allows.  An entry is a number and the size of its text; the    *)
(* text is made of cells, the k-th cell of entry e being <<e, k>>.         *)
(***************************************************************************)
EXTENDS Integers, Sequences, SequencesExt

CONSTANTS
  Buffers,      \* the ring buffers, one per policy
  First,        \* that of the policy which creates the file
  Readers,      \* open files
  RingSize,     \* LOG_RINGBUFFER_SIZE
  MaxCount,     \* MAX_RINGBUFFER_COUNT
  Capacity,     \* LOGFILE_CAPACITY, in cells
  Sizes,        \* sizes of the text of an entry
  Chunks,       \* sizes a reader may ask for
  MaxLogged,    \* bound: entries logged in a behaviour
  Overlaps      \* what may overlap a call of user_read_log: "read", "callback"

ASSUME LogFileAssumption ==
  /\ First \in Buffers
  /\ RingSize \in Nat /\ MaxCount \in Nat /\ Capacity \in Nat /\ MaxLogged \in Nat
  /\ Sizes \in SUBSET (Nat \ {0})
  /\ Chunks \in SUBSET (Nat \ {0})
  /\ Overlaps \in SUBSET {"read", "callback"}

VARIABLES
  buffers, count,   \* ringbuffers: the array, {} or {b} in each slot, and its count
  log_file,         \* the debugfs file exists and lets readers in
  live,             \* logfile_data and its data are allocated
  data, size_used,  \* *logfile_data
  cpc, cbuf,        \* where the callbacks are, and for which ring buffer
  ring,             \* ring[b]: "closed", "open", "closing", or "none": the policy
                    \* runs without one, there was no memory for it
  pending,          \* pending[b]: entries of ring buffer b
  logged,           \* number of entries logged
  pos,              \* pos[r]: the file position
  rpc,              \* rpc[r]: where reader r is in user_read_log
  i,                \* i[r]: its local variable i
  rbuf,             \* rbuf[r]: the ring buffer it was given, {} or {b}
  copy,             \* copy[r]: what is left of its copy of that buffer
  alone,            \* history: the reader that was the last to start, or {}
  mark,             \* history: logged when it started
  slots,            \* history: the registry when it started
  stream,           \* history: stream[b]: the entries b held then, and those it got
                    \* since, without the overwritten ones
  failed,           \* history: the ring buffers it could not copy
  received          \* history: cells it has received since then

registry == <<buffers, count>>
text == <<data, size_used>>
core == <<cpc, cbuf, ring>>
history == <<alone, mark, slots, stream, failed, received>>
local == <<pos, rpc, i, rbuf, copy>>
vars == <<registry, log_file, live, text, core, pending, logged, local, history>>

Entry == (1 .. MaxLogged) \X Sizes
Cell == (0 .. MaxLogged) \X Nat
None == <<0, 0>>      \* a cell that was never written

\* The text of an entry: memutil_output_element.
CellsOf(e) == [k \in 1 .. e[2] |-> <<e[1], k>>]

\* The text of a sequence of entries: memutil_output_data.
TextOf(es) == FlattenSeq([n \in DOMAIN es |-> CellsOf(es[n])])

InCall(r) == rpc[r] # "idle"

\* Since the last reader started: what has left ring buffer b, but for entries that
\* were overwritten, and the text of that for the ring buffers that were registered.
Drained(b) == SubSeq(stream[b], 1, Len(stream[b]) - Len(pending[b]))
DrainedText ==
  FlattenSeq([n \in DOMAIN slots |-> TextOf(Drained(CHOOSE b \in slots[n] : TRUE))])

FileTypeOK ==
  /\ buffers \in [1 .. MaxCount -> SUBSET Buffers]
  /\ count \in 0 .. MaxCount
  /\ log_file \in BOOLEAN
  /\ live \in BOOLEAN
  /\ data \in [1 .. Capacity -> Cell]
  /\ size_used \in Nat

CallbackTypeOK ==
  /\ cpc \in {"idle", "create", "info", "open", "count", "store", "exit",
              "remove", "wait"}
  /\ cbuf \in Buffers
  /\ ring \in [Buffers -> {"closed", "open", "closing", "none"}]
  /\ pending \in [Buffers -> Seq(Entry)]
  /\ logged \in 0 .. MaxLogged

ReaderTypeOK ==
  /\ pos \in [Readers -> Nat]
  /\ rpc \in [Readers -> {"idle", "clear", "walk", "take", "output", "memcpy",
                          "add", "user"}]
  /\ i \in [Readers -> 0 .. MaxCount]
  /\ rbuf \in [Readers -> SUBSET Buffers]
  /\ copy \in [Readers -> Seq(Entry)]

TypeOK == FileTypeOK /\ CallbackTypeOK /\ ReaderTypeOK

Init ==
  /\ buffers = [n \in 1 .. MaxCount |-> {}]
  /\ count = 0
  /\ log_file = FALSE
  /\ live = FALSE
  /\ data = [k \in 1 .. Capacity |-> None]
  /\ size_used = 0
  /\ cpc = "idle"
  /\ cbuf = First
  /\ ring = [b \in Buffers |-> "closed"]
  /\ pending = [b \in Buffers |-> <<>>]
  /\ logged = 0
  /\ pos = [r \in Readers |-> 0]
  /\ rpc = [r \in Readers |-> "idle"]
  /\ i = [r \in Readers |-> 0]
  /\ rbuf = [r \in Readers |-> {}]
  /\ copy = [r \in Readers |-> <<>>]
  /\ alone = {}
  /\ mark = 0
  /\ slots = <<>>
  /\ stream = [b \in Buffers |-> <<>>]
  /\ failed = {}
  /\ received = <<>>

-----------------------------------------------------------------------------
(***************************************************************************)
(* A reader: user_read_log.                                                *)
(***************************************************************************)

Goto(r, from, to) == rpc[r] = from /\ rpc' = [rpc EXCEPT ![r] = to]

Forget ==
  /\ alone' = {}
  /\ mark' = 0
  /\ slots' = <<>>
  /\ stream' = [b \in Buffers |-> <<>>]
  /\ failed' = {}
  /\ received' = <<>>

\* *ppos == 0
StartsAnew(r) == pos[r] = 0

\* The call; debugfs lets it in while the file exists.
ReadCall(r) ==
  /\ log_file
  /\ "read" \notin Overlaps => \A s \in Readers : ~InCall(s)
  /\ "callback" \notin Overlaps => cpc = "idle"
  /\ \/ /\ StartsAnew(r)
        /\ Goto(r, "idle", "clear")
        /\ alone' = {r}
        /\ mark' = logged
        /\ slots' = SubSeq(buffers, 1, count)
        /\ stream' = pending
        /\ failed' = {}
        /\ received' = <<>>
     \/ /\ ~StartsAnew(r)
        /\ Goto(r, "idle", "user")
        /\ UNCHANGED history
  /\ UNCHANGED <<registry, log_file, live, text, core, pending, logged, pos, i,
                 rbuf, copy>>

\* clear_log
ClearLog(r) ==
  /\ Goto(r, "clear", "walk")
  /\ size_used' = 0
  /\ i' = [i EXCEPT ![r] = 0]
  /\ UNCHANGED <<registry, log_file, live, data, core, pending, logged, pos,
                 rbuf, copy, history>>

\* The test of the loop, which reads count and the array anew each time.
ReadWalk(r) ==
  /\ \/ /\ i[r] < count
        /\ Goto(r, "walk", "take")
        /\ rbuf' = [rbuf EXCEPT ![r] = buffers[i[r] + 1]]
     \/ /\ i[r] >= count
        /\ Goto(r, "walk", "user")
        /\ UNCHANGED rbuf
  /\ UNCHANGED <<registry, log_file, live, text, core, pending, logged, pos, i,
                 copy, history>>

\* History: reader r could not copy the ring buffer it was given.
NoteFailure(r) ==
  /\ failed' = IF r \in alone THEN failed \union rbuf[r] ELSE failed
  /\ UNCHANGED <<alone, mark, slots, stream, received>>

\* Faulty: a ring buffer that cannot be copied is skipped twice.
TakeFailsTwice(r) ==
  /\ Goto(r, "take", "walk")
  /\ i' = [i EXCEPT ![r] = @ + 2]
  /\ NoteFailure(r)
  /\ UNCHANGED <<registry, log_file, live, text, core, pending, logged, pos,
                 rbuf, copy>>

\* Faulty: the ring buffer is cleared although it could not be copied.
TakeFailsClears(r) ==
  /\ Goto(r, "take", "walk")
  /\ i' = [i EXCEPT ![r] = @ + 1]
  /\ pending' = [b \in Buffers |-> IF b \in rbuf[r] THEN <<>> ELSE pending[b]]
  /\ NoteFailure(r)
  /\ UNCHANGED <<registry, log_file, live, text, core, logged, pos, rbuf, copy>>

\* There is no memory for the copy: the ring buffer keeps its entries.
TakeFails(r) ==
  /\ Goto(r, "take", "walk")
  /\ i' = [i EXCEPT ![r] = @ + 1]
  /\ NoteFailure(r)
  /\ UNCHANGED <<registry, log_file, live, text, core, pending, logged, pos,
                 rbuf, copy>>

\* memutil_ringbuffer_append_to_logfile copies the entries and clears the ring
\* buffer.
Take(r, b) ==
  /\ Goto(r, "take", "output")
  /\ b \in rbuf[r]
  /\ copy' = [copy EXCEPT ![r] = pending[b]]
  /\ pending' = [pending EXCEPT ![b] = <<>>]
  /\ UNCHANGED <<registry, log_file, live, text, core, logged, pos, i, rbuf, history>>

\* Faulty: one cell too many is let in.
OverflowsLate(n) == size_used + n > Capacity + 1

\* The text does not fit behind what is there.
Overflows(n) == size_used + n > Capacity

\* memutil_debugfs_append_to_logfile of the next entry: clear the log if need
\* be, refuse a text larger than the whole log.
AppendCheck(r) ==
  /\ rpc[r] = "output"
  /\ copy[r] # <<>>
  /\ LET n == Head(copy[r])[2]
     IN  /\ size_used' = IF Overflows(n) THEN 0 ELSE size_used
         /\ rpc' = [rpc EXCEPT ![r] = IF Capacity < n THEN "output" ELSE "memcpy"]
         /\ copy' = [copy EXCEPT ![r] = IF Capacity < n THEN Tail(@) ELSE @]
  /\ UNCHANGED <<registry, log_file, live, data, core, pending, logged, pos, i,
                 rbuf, history>>

\* memcpy; what it writes behind the end of data is left out.
AppendMemcpy(r) ==
  /\ Goto(r, "memcpy", "add")
  /\ LET cells == CellsOf(Head(copy[r]))
     IN  data' = [k \in 1 .. Capacity |->
                    IF k - size_used \in DOMAIN cells THEN cells[k - size_used]
                                                      ELSE data[k]]
  /\ UNCHANGED <<registry, log_file, live, size_used, core, pending, logged, pos,
                 i, rbuf, copy, history>>

AppendAdd(r) ==
  /\ Goto(r, "add", "output")
  /\ size_used' = size_used + Head(copy[r])[2]
  /\ copy' = [copy EXCEPT ![r] = Tail(@)]
  /\ UNCHANGED <<registry, log_file, live, data, core, pending, logged, pos, i,
                 rbuf, history>>

\* The ring buffer is done, go on to the next.
NextBuffer(r) ==
  /\ Goto(r, "output", "walk")
  /\ copy[r] = <<>>
  /\ i' = [i EXCEPT ![r] = @ + 1]
  /\ UNCHANGED <<registry, log_file, live, text, core, pending, logged, pos,
                 rbuf, copy, history>>

\* simple_read_from_buffer: at most n cells, from the file position on.
CopyToUser(r, n) ==
  /\ Goto(r, "user", "idle")
  /\ LET end == IF pos[r] >= size_used THEN pos[r]
                ELSE IF pos[r] + n <= size_used THEN pos[r] + n ELSE size_used
         cells == [k \in 1 .. end - pos[r] |->
                     IF pos[r] + k <= Capacity THEN data[pos[r] + k] ELSE None]
     IN  /\ pos' = [pos EXCEPT ![r] = end]
         /\ received' = IF r \in alone THEN received \o cells ELSE received
  /\ i' = [i EXCEPT ![r] = 0]
  /\ rbuf' = [rbuf EXCEPT ![r] = {}]
  /\ UNCHANGED <<registry, log_file, live, text, core, pending, logged, copy,
                 alone, mark, slots, stream, failed>>

ReadStep(r) ==
  \/ ClearLog(r)
  \/ ReadWalk(r)
  \/ TakeFails(r)
  \/ \E b \in Buffers : Take(r, b)
  \/ AppendCheck(r)
  \/ AppendMemcpy(r)
  \/ AppendAdd(r)
  \/ NextBuffer(r)
  \/ \E n \in Chunks : CopyToUser(r, n)

\* The reader seeks to the start, or opens the file again.
Rewind(r) ==
  /\ ~InCall(r)
  /\ pos[r] # 0
  /\ pos' = [pos EXCEPT ![r] = 0]
  /\ IF r \in alone THEN Forget ELSE UNCHANGED history
  /\ UNCHANGED <<registry, log_file, live, text, core, pending, logged, rpc, i,
                 rbuf, copy>>

-----------------------------------------------------------------------------
(***************************************************************************)
(* The hook of a policy logs an entry: memutil_log_data.                   *)
(***************************************************************************)
Log(b, size) ==
  /\ ring[b] = "open"
  /\ logged < MaxLogged
  /\ logged' = logged + 1
  /\ LET all == Append(pending[b], <<logged', size>>)
     IN  pending' = [pending EXCEPT ![b] =
                       IF Len(all) > RingSize THEN Tail(all) ELSE all]
  /\ stream' = IF alone = {} THEN stream
               ELSE [stream EXCEPT ![b] = Drained(b) \o pending'[b]]
  /\ UNCHANGED <<registry, log_file, live, text, core, local, alone, mark, slots,
                 failed, received>>

-----------------------------------------------------------------------------
(***************************************************************************)
(* The callbacks, as far as the log file is concerned.  They hold          *)
(* memutil_init_mutex; cpc = "idle" means that it is free.                 *)
(***************************************************************************)
CallbackMayRun == "callback" \notin Overlaps => \A r \in Readers : ~InCall(r)

\* init_logging; the policy of the first CPU creates the file if there is none.
StartPolicy(b) ==
  /\ CallbackMayRun
  /\ cpc = "idle"
  /\ ring[b] = "closed"
  /\ cbuf' = b
  /\ cpc' = IF b = First /\ ~log_file THEN "create" ELSE "open"
  /\ UNCHANGED <<registry, log_file, live, text, ring, pending, logged, local, history>>

\* memutil_debugfs_logfile_init, which may fail.
LogfileInit ==
  /\ CallbackMayRun
  /\ cpc = "create"
  /\ \/ /\ cpc' = "info"
        /\ log_file' = TRUE
        /\ live' = TRUE
        /\ size_used' = 0
        /\ data' = [k \in 1 .. Capacity |-> None]
     \/ /\ cpc' = "open"
        /\ UNCHANGED <<log_file, live, text>>
  /\ UNCHANGED <<registry, cbuf, ring, pending, logged, local, history>>

\* memutil_debugfs_infofile_init; if it fails the log file is removed again.
InfofileInit ==
  /\ CallbackMayRun
  /\ cpc = "info"
  /\ cpc' \in {"open", "exit"}
  /\ UNCHANGED <<registry, log_file, live, text, cbuf, ring, pending, logged, local, history>>

\* memutil_open_ringbuffer, which may fail, and the test of
\* is_logfile_initialized and of the registry's capacity.
OpenRingbuffer ==
  /\ CallbackMayRun
  /\ cpc = "open"
  /\ \/ /\ ring' = [ring EXCEPT ![cbuf] = "open"]
        /\ pending' = [pending EXCEPT ![cbuf] = <<>>]
        /\ cpc' = IF log_file /\ count < MaxCount THEN "count" ELSE "idle"
     \/ /\ ring' = [ring EXCEPT ![cbuf] = "none"]
        /\ cpc' = "idle"
        /\ UNCHANGED pending
  /\ UNCHANGED <<registry, log_file, live, text, cbuf, logged, local, history>>

\* memutil_debugfs_register_ringbuffer: the compiler may store the new count
\* ahead of the pointer, and does so.
RegisterCount ==
  /\ CallbackMayRun
  /\ cpc = "count"
  /\ cpc' = "store"
  /\ count' = count + 1
  /\ UNCHANGED <<buffers, log_file, live, text, cbuf, ring, pending, logged,
                 local, history>>

RegisterStore ==
  /\ CallbackMayRun
  /\ cpc = "store"
  /\ cpc' = "idle"
  /\ buffers' = [buffers EXCEPT ![count] = {cbuf}]
  /\ UNCHANGED <<count, log_file, live, text, cbuf, ring, pending, logged,
                 local, history>>

\* The mutex is released; a policy without a ring buffer has nothing to close.
Releases(b) ==
  ring' = [ring EXCEPT ![b] = IF @ = "open" THEN "closing" ELSE "closed"]

\* memutil_stop, or the error path of memutil_start, of a policy; the hook no
\* longer runs.  It removes debugfs for all policies.
StopPolicy(b) ==
  /\ CallbackMayRun
  /\ cpc = "idle"
  /\ ring[b] \in {"open", "none"}
  /\ cbuf' = b
  /\ IF log_file
       THEN cpc' = "exit" /\ UNCHANGED ring
       ELSE Releases(b) /\ UNCHANGED cpc
  /\ UNCHANGED <<registry, log_file, live, text, pending, logged, local, history>>

\* Faulty: the registry is not emptied.
ExitKeepsRegistry ==
  /\ CallbackMayRun
  /\ cpc = "exit"
  /\ cpc' = "remove"
  /\ live' = FALSE
  /\ UNCHANGED <<registry, log_file, text, cbuf, ring, pending, logged,
                 local, history>>

\* memutil_debugfs_logfile_exit empties the registry and frees the data...
LogfileExit ==
  /\ CallbackMayRun
  /\ cpc = "exit"
  /\ cpc' = "remove"
  /\ count' = 0
  /\ live' = FALSE
  /\ UNCHANGED <<buffers, log_file, text, cbuf, ring, pending, logged,
                 local, history>>

\* ... and removes the file: debugfs lets no reader in any more...
DebugfsRemove ==
  /\ CallbackMayRun
  /\ cpc = "remove"
  /\ cpc' = "wait"
  /\ log_file' = FALSE
  /\ UNCHANGED <<registry, live, text, cbuf, ring, pending, logged, local, history>>

\* ... and waits for those that are in.  Files that are still open are of no use
\* afterwards.  A start whose info file failed goes on, a stop is done.
DebugfsWait ==
  /\ CallbackMayRun
  /\ cpc = "wait"
  /\ \A r \in Readers : ~InCall(r)
  /\ cpc' = IF ring[cbuf] = "closed" THEN "open" ELSE "idle"
  /\ Releases(cbuf)
  /\ pos' = [r \in Readers |-> 0]
  /\ Forget
  /\ UNCHANGED <<registry, log_file, live, text, cbuf, pending, logged, rpc, i,
                 rbuf, copy>>

\* memutil_close_ringbuffer, after the mutex is released.
CloseRingbuffer(b) ==
  /\ CallbackMayRun
  /\ ring[b] = "closing"
  /\ ring' = [ring EXCEPT ![b] = "closed"]
  /\ pending' = [pending EXCEPT ![b] = <<>>]
  /\ UNCHANGED <<registry, log_file, live, text, cpc, cbuf, logged, local, history>>

-----------------------------------------------------------------------------
Next ==
  \/ \E r \in Readers : ReadCall(r) \/ ReadStep(r) \/ Rewind(r)
  \/ \E b \in Buffers, size \in Sizes : Log(b, size)
  \/ \E b \in Buffers : StartPolicy(b) \/ StopPolicy(b) \/ CloseRingbuffer(b)
  \/ LogfileInit
  \/ InfofileInit
  \/ OpenRingbuffer
  \/ RegisterCount
  \/ RegisterStore
  \/ LogfileExit
  \/ DebugfsRemove
  \/ DebugfsWait

Spec == Init /\ [][Next]_vars

-----------------------------------------------------------------------------
(***************************************************************************)
(* Properties.                                                             *)
(***************************************************************************)

\* What a reader finds that started a read, and since then no other has.  Every
\* ring buffer that was registered when it started, and that could be copied, has
\* handed over all that it held then.  The text is what left these ring buffers,
\* one after the other, less what a force clear dropped from its front, in whole
\* lines; nothing is dropped if all of it fits, and what could not be copied is
\* still in its ring buffer.  What the reader has received, in however many calls,
\* is the text up to its position.
UndisturbedReadComplete ==
  \A r \in alone : ~InCall(r) =>
    LET dropped == Len(DrainedText) - size_used
    IN  /\ \A n \in DOMAIN slots : \A b \in slots[n] \ failed :
             \A k \in DOMAIN pending[b] : pending[b][k][1] > mark
        /\ dropped >= 0
        /\ \A k \in 1 .. size_used : data[k] = DrainedText[dropped + k]
        /\ size_used > 0 => data[1][2] = 1
        /\ Len(DrainedText) <= Capacity => dropped = 0
        /\ received = [k \in 1 .. pos[r] |-> data[k]]

\* "The total size (in bytes) of the logfile (valid + free data)" (logfile.c 69)
\* is never exceeded: memcpy in memutil_debugfs_append_to_logfile stays within
\* data.
UsedWithinTotal ==
  /\ size_used <= Capacity
  /\ \A r \in Readers :
       rpc[r] = "memcpy" => size_used + Head(copy[r])[2] <= Capacity

\* user_read_log uses the data of the file, and the ring buffers of the
\* registry, only while they are allocated (logfile.c 48 and 66).
UsesLiveMemory ==
  \A r \in Readers :
    /\ InCall(r) => live
    /\ rpc[r] = "take" => \E b \in rbuf[r] : ring[b] \in {"open", "closing"}
=============================================================================
