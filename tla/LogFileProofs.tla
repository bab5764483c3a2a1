---------------------------- MODULE LogFileProofs ----------------------------
(***************************************************************************)
(* Proofs about LogFile, for every number of ring buffers and readers,     *)
(* every capacity and all sizes of text.                                   *)
(***************************************************************************)
EXTENDS LogFile, SequenceTheorems, NaturalsInduction, WellFoundedInduction, TLAPS

\* Calls of user_read_log do not overlap.
SerialInv ==
  "read" \notin Overlaps =>
    \A r, s \in Readers : InCall(r) /\ InCall(s) => r = s

\* A reader that has checked the capacity has an entry to append, and it fits.
AppendInv ==
  \A r \in Readers : rpc[r] \in {"memcpy", "add"} =>
    /\ copy[r] # <<>>
    /\ "read" \notin Overlaps => size_used + Head(copy[r])[2] <= Capacity

SizeInv == "read" \notin Overlaps => size_used <= Capacity

\* What exists in each phase of the callbacks.
PhaseInv ==
  /\ IF cpc = "remove" THEN ~live ELSE live <=> log_file
  /\ cpc \in {"create", "wait"} => ~log_file
  /\ cpc \in {"info", "count", "store", "exit", "remove"} => log_file
  /\ cpc \in {"create", "info", "open"} => ring[cbuf] = "closed"
  /\ cpc \in {"count", "store"} => ring[cbuf] = "open"
  /\ cpc = "count" => count < MaxCount
  /\ cpc = "store" => count > 0
  /\ ~log_file \/ cpc \in {"info", "remove", "wait"} => count = 0

\* The registered ring buffers are open; the last one may be missing yet.
RegistryInv ==
  \A n \in 1 .. count :
    \/ n = count /\ cpc = "store"
    \/ \E b \in Buffers : buffers[n] = {b} /\ ring[b] = "open"

\* No ring buffer is registered twice.
UniqueInv ==
  /\ \A m, n \in 1 .. count :
       /\ cpc = "store" => m # count /\ n # count
       /\ buffers[m] = buffers[n]
       => m = n
  /\ cpc = "count" => \A n \in 1 .. count : buffers[n] # {cbuf}
  /\ cpc = "store" => \A n \in 1 .. count - 1 : buffers[n] # {cbuf}

\* A reader walks the registry as far as it has entries, and was given one.
WalkInv ==
  \A r \in Readers : rpc[r] \in {"take", "output", "memcpy", "add"} => i[r] < MaxCount

\* Without overlapping callbacks a reader finds the file as it was, and the
\* ring buffer it was given open.
QuietInv ==
  "callback" \notin Overlaps =>
    \A r \in Readers :
      /\ InCall(r) => cpc = "idle" /\ log_file
      /\ rpc[r] = "take" => \E b \in rbuf[r] : ring[b] = "open"

IInv ==
  /\ TypeOK
  /\ SerialInv
  /\ AppendInv
  /\ SizeInv
  /\ PhaseInv
  /\ RegistryInv
  /\ UniqueInv
  /\ WalkInv
  /\ QuietInv
-----------------------------------------------------------------------------

\* The text of an entry has the size that is reserved for it.
LEMMA EntryParts ==
  ASSUME NEW s \in Seq(Entry), s # <<>>
  PROVE  /\ Head(s) \in Entry /\ Tail(s) \in Seq(Entry)
         /\ Head(s)[1] \in 1 .. MaxLogged /\ Head(s)[2] \in Nat
         /\ \A k \in DOMAIN CellsOf(Head(s)) : CellsOf(Head(s))[k] \in Cell
<1>1. Head(s) \in Entry /\ Tail(s) \in Seq(Entry)
  OBVIOUS
<1>2. Head(s)[1] \in 1 .. MaxLogged /\ Head(s)[2] \in Nat
  BY <1>1, LogFileAssumption DEF Entry
<1>3. ASSUME NEW k \in DOMAIN CellsOf(Head(s)) PROVE CellsOf(Head(s))[k] \in Cell
  <2>1. k \in Nat /\ CellsOf(Head(s))[k] = <<Head(s)[1], k>>
    BY <1>2 DEF CellsOf
  <2>2. Head(s)[1] \in 0 .. MaxLogged
    BY <1>2, LogFileAssumption
  <2>3. QED
    BY <2>1, <2>2 DEF Cell
<1>4. QED
  BY <1>1, <1>2, <1>3

\* Where counters and cells start.
LEMMA Zeros == 0 \in 0 .. MaxCount /\ 0 \in 0 .. MaxLogged /\ None \in Cell
  BY LogFileAssumption DEF None, Cell

\* The invariant holds before the first policy is started.
LEMMA InitIInv == Init => IInv
<1> SUFFICES ASSUME Init PROVE IInv
  OBVIOUS
<1> USE LogFileAssumption DEF Init
<1>1. TypeOK
  <2>1. FileTypeOK
    BY Zeros DEF FileTypeOK
  <2>2. CallbackTypeOK
    BY Zeros DEF CallbackTypeOK
  <2>3. ReaderTypeOK
    BY Zeros DEF ReaderTypeOK
  <2>4. QED
    BY <2>1, <2>2, <2>3 DEF TypeOK
<1>2. SerialInv /\ AppendInv /\ SizeInv /\ PhaseInv /\ RegistryInv /\ UniqueInv /\ WalkInv
      /\ QuietInv
  BY DEF SerialInv, AppendInv, SizeInv, PhaseInv, RegistryInv, UniqueInv, WalkInv, QuietInv,
     InCall
<1>3. QED
  BY <1>1, <1>2 DEF IInv

\* Every step of a reader, a hook or a callback preserves the invariant.
LEMMA StepIInv == IInv /\ [Next]_vars => IInv'
<1> SUFFICES ASSUME IInv, [Next]_vars PROVE IInv'
  OBVIOUS
<1> USE LogFileAssumption DEF IInv, TypeOK, InCall, Goto
<1>u. ASSUME UNCHANGED <<registry, cpc, cbuf>> PROVE UniqueInv'
  BY <1>u DEF registry, UniqueInv
<1>1. ASSUME NEW r \in Readers, ReadCall(r) PROVE IInv'
  <2>1. FileTypeOK'
    BY <1>1 DEF ReadCall, registry, text, core, history, StartsAnew, FileTypeOK
  <2>2. CallbackTypeOK'
    BY <1>1 DEF ReadCall, registry, text, core, history, StartsAnew, CallbackTypeOK
  <2>3. ReaderTypeOK'
    BY <1>1 DEF ReadCall, registry, text, core, history, StartsAnew, ReaderTypeOK
  <2>4. (SerialInv /\ AppendInv /\ SizeInv)'
    BY <1>1 DEF ReadCall, registry, text, core, history, StartsAnew, ReaderTypeOK,
       FileTypeOK, SerialInv, AppendInv, SizeInv
  <2>5. (PhaseInv /\ RegistryInv /\ UniqueInv)'
    <3>1. (PhaseInv /\ RegistryInv)'
      BY <1>1 DEF ReadCall, registry, text, core, history, StartsAnew, CallbackTypeOK,
         FileTypeOK, PhaseInv, RegistryInv
    <3>2. UniqueInv'
      BY <1>1, <1>u DEF ReadCall, core
    <3>3. QED
      BY <3>1, <3>2
  <2>6. (WalkInv /\ QuietInv)'
    <3>1. WalkInv'
      BY <1>1 DEF ReadCall, ReaderTypeOK, WalkInv
    <3>2. QuietInv'
      BY <1>1 DEF ReadCall, core, ReaderTypeOK, QuietInv
    <3>3. QED
      BY <3>1, <3>2
  <2>7. QED
    BY <2>1, <2>2, <2>3, <2>4, <2>5, <2>6
<1>2. ASSUME NEW r \in Readers, ClearLog(r) PROVE IInv'
  <2>1. FileTypeOK'
    BY <1>2 DEF ClearLog, registry, core, history, FileTypeOK
  <2>2. CallbackTypeOK'
    BY <1>2 DEF ClearLog, registry, core, history, CallbackTypeOK
  <2>3. ReaderTypeOK'
    BY <1>2 DEF ClearLog, registry, core, history, ReaderTypeOK
  <2>4. (SerialInv /\ AppendInv /\ SizeInv)'
    BY <1>2 DEF ClearLog, registry, core, history, ReaderTypeOK, FileTypeOK,
       SerialInv, AppendInv, SizeInv
  <2>5. (PhaseInv /\ RegistryInv /\ UniqueInv)'
    <3>1. (PhaseInv /\ RegistryInv)'
      BY <1>2 DEF ClearLog, registry, core, history, CallbackTypeOK, FileTypeOK,
         PhaseInv, RegistryInv
    <3>2. UniqueInv'
      BY <1>2, <1>u DEF ClearLog, core
    <3>3. QED
      BY <3>1, <3>2
  <2>6. (WalkInv /\ QuietInv)'
    BY <1>2 DEF ClearLog, registry, core, history, ReaderTypeOK, FileTypeOK,
       WalkInv, QuietInv, PhaseInv, RegistryInv
  <2>7. QED
    BY <2>1, <2>2, <2>3, <2>4, <2>5, <2>6
<1>3. ASSUME NEW r \in Readers, ReadWalk(r) PROVE IInv'
  <2>1. FileTypeOK'
    BY <1>3 DEF ReadWalk, registry, text, core, history, FileTypeOK
  <2>2. CallbackTypeOK'
    BY <1>3 DEF ReadWalk, registry, text, core, history, CallbackTypeOK
  <2>3. ReaderTypeOK'
    <3>1. i[r] < count => i[r] + 1 \in 1 .. MaxCount
      BY DEF ReaderTypeOK, FileTypeOK
    <3>2. QED
      BY <1>3, <3>1 DEF ReadWalk, FileTypeOK, ReaderTypeOK
  <2>4. (SerialInv /\ AppendInv /\ SizeInv)'
    <3>1. SerialInv'
      BY <1>3 DEF ReadWalk, ReaderTypeOK, SerialInv
    <3>2. AppendInv'
      BY <1>3 DEF ReadWalk, text, ReaderTypeOK, AppendInv
    <3>3. SizeInv'
      BY <1>3 DEF ReadWalk, text, SizeInv
    <3> QED
      BY <3>1, <3>2, <3>3
  <2>5. (PhaseInv /\ RegistryInv /\ UniqueInv)'
    <3>1. (PhaseInv /\ RegistryInv)'
      BY <1>3 DEF ReadWalk, registry, text, core, history, CallbackTypeOK, FileTypeOK,
         PhaseInv, RegistryInv
    <3>2. UniqueInv'
      BY <1>3, <1>u DEF ReadWalk, core
    <3>3. QED
      BY <3>1, <3>2
  <2>6. (WalkInv /\ QuietInv)'
    <3>1. WalkInv'
      BY <1>3 DEF ReadWalk, ReaderTypeOK, FileTypeOK, WalkInv
    <3>2. CASE i[r] < count /\ rbuf' = [rbuf EXCEPT ![r] = buffers[i[r] + 1]]
      <4>1. i[r] + 1 \in 1 .. count
        BY <3>2 DEF ReaderTypeOK, FileTypeOK
      <4>2. "callback" \notin Overlaps => \E b \in rbuf'[r] : ring[b] = "open"
        <5>1. rbuf'[r] = buffers[i[r] + 1]
          BY <3>2 DEF ReaderTypeOK
        <5>2. "callback" \notin Overlaps => cpc = "idle"
          BY <1>3 DEF ReadWalk, QuietInv
        <5>3. QED
          BY <4>1, <5>1, <5>2 DEF RegistryInv
      <4>3. QuietInv'
        BY <1>3, <3>2, <4>2 DEF ReadWalk, core, ReaderTypeOK, QuietInv
      <4>4. QED
        BY <3>1, <4>3
    <3>3. CASE i[r] >= count /\ rpc' = [rpc EXCEPT ![r] = "user"] /\ UNCHANGED rbuf
      BY <1>3, <3>1, <3>3 DEF ReadWalk, core, ReaderTypeOK, QuietInv
    <3>4. QED
      BY <1>3, <3>2, <3>3 DEF ReadWalk
  <2>7. QED
    BY <2>1, <2>2, <2>3, <2>4, <2>5, <2>6
<1>4. ASSUME NEW r \in Readers, TakeFails(r) PROVE IInv'
  <2>1. FileTypeOK'
    BY <1>4 DEF TakeFails, NoteFailure, registry, text, core, history, FileTypeOK
  <2>2. CallbackTypeOK'
    BY <1>4 DEF TakeFails, NoteFailure, registry, text, core, history, CallbackTypeOK
  <2>3. ReaderTypeOK'
    <3>1. i[r] + 1 \in 0 .. MaxCount
      BY <1>4 DEF TakeFails, WalkInv, ReaderTypeOK
    <3>2. QED
      BY <1>4, <3>1 DEF TakeFails, ReaderTypeOK
  <2>4. (SerialInv /\ AppendInv /\ SizeInv)'
    BY <1>4 DEF TakeFails, NoteFailure, registry, text, core, history, ReaderTypeOK,
       FileTypeOK,
       SerialInv, AppendInv, SizeInv
  <2>5. (PhaseInv /\ RegistryInv /\ UniqueInv)'
    <3>1. (PhaseInv /\ RegistryInv)'
      BY <1>4 DEF TakeFails, NoteFailure, registry, text, core, history,
         CallbackTypeOK, FileTypeOK, PhaseInv, RegistryInv
    <3>2. UniqueInv'
      BY <1>4, <1>u DEF TakeFails, core
    <3>3. QED
      BY <3>1, <3>2
  <2>6. (WalkInv /\ QuietInv)'
    BY <1>4 DEF TakeFails, NoteFailure, registry, text, core, history, ReaderTypeOK,
       FileTypeOK,
       WalkInv, QuietInv, PhaseInv, RegistryInv
  <2>7. QED
    BY <2>1, <2>2, <2>3, <2>4, <2>5, <2>6
<1>5. ASSUME NEW r \in Readers, NEW b \in Buffers, Take(r, b) PROVE IInv'
  <2>1. FileTypeOK'
    BY <1>5 DEF Take, registry, text, core, FileTypeOK
  <2>2. CallbackTypeOK'
    BY <1>5 DEF Take, registry, text, core, CallbackTypeOK
  <2>3. ReaderTypeOK'
    BY <1>5 DEF Take, ReaderTypeOK, CallbackTypeOK
  <2>4. (SerialInv /\ AppendInv /\ SizeInv)'
    BY <1>5 DEF Take, registry, text, core, ReaderTypeOK, FileTypeOK, SerialInv,
       AppendInv, SizeInv
  <2>5. (PhaseInv /\ RegistryInv /\ UniqueInv)'
    <3>1. (PhaseInv /\ RegistryInv)'
      BY <1>5 DEF Take, registry, text, core, CallbackTypeOK, FileTypeOK, PhaseInv,
         RegistryInv
    <3>2. UniqueInv'
      BY <1>5, <1>u DEF Take, core
    <3>3. QED
      BY <3>1, <3>2
  <2>6. (WalkInv /\ QuietInv)'
    BY <1>5 DEF Take, registry, text, core, ReaderTypeOK, FileTypeOK, WalkInv,
       QuietInv, PhaseInv, RegistryInv
  <2>7. QED
    BY <2>1, <2>2, <2>3, <2>4, <2>5, <2>6
<1>6. ASSUME NEW r \in Readers, AppendCheck(r) PROVE IInv'
  <2>1. FileTypeOK'
    BY <1>6 DEF AppendCheck, registry, core, history, Overflows, FileTypeOK
  <2>2. CallbackTypeOK'
    BY <1>6 DEF AppendCheck, registry, core, history, Overflows, CallbackTypeOK
  <2>3. ReaderTypeOK'
    BY <1>6 DEF AppendCheck, registry, core, history, Overflows, ReaderTypeOK
  <2>4. (SerialInv /\ AppendInv /\ SizeInv)'
    <3> DEFINE n == Head(copy[r])[2]
    <3>1. n \in Nat /\ size_used \in Nat /\ copy[r] # <<>> /\ InCall(r)
      BY <1>6, EntryParts DEF AppendCheck, ReaderTypeOK, FileTypeOK
    <3>2. SerialInv'
      BY <1>6 DEF AppendCheck, ReaderTypeOK, SerialInv
    <3>3. SizeInv'
      BY <1>6 DEF AppendCheck, SizeInv, FileTypeOK
    <3>4. ASSUME NEW s \in Readers, s # r, rpc'[s] \in {"memcpy", "add"}
          PROVE  "read" \in Overlaps /\ copy'[s] # <<>>
      BY <1>6, <3>1, <3>4 DEF AppendCheck, SerialInv, AppendInv, ReaderTypeOK
    <3>5. ASSUME rpc'[r] \in {"memcpy", "add"}
          PROVE  copy'[r] = copy[r] /\ size_used' + n <= Capacity
      <4>1. n <= Capacity /\ copy'[r] = copy[r]
        BY <1>6, <3>1, <3>5 DEF AppendCheck, ReaderTypeOK
      <4>2. size_used' = IF size_used + n > Capacity THEN 0 ELSE size_used
        BY <1>6 DEF AppendCheck, Overflows
      <4>3. QED
        BY <3>1, <4>1, <4>2
    <3>6. AppendInv'
      BY <3>1, <3>4, <3>5 DEF AppendInv
    <3>7. QED
      BY <3>2, <3>3, <3>6
  <2>5. (PhaseInv /\ RegistryInv /\ UniqueInv)'
    <3>1. (PhaseInv /\ RegistryInv)'
      BY <1>6 DEF AppendCheck, registry, core, history, Overflows, CallbackTypeOK,
         FileTypeOK, PhaseInv, RegistryInv
    <3>2. UniqueInv'
      BY <1>6, <1>u DEF AppendCheck, core
    <3>3. QED
      BY <3>1, <3>2
  <2>6. (WalkInv /\ QuietInv)'
    BY <1>6 DEF AppendCheck, registry, core, history, Overflows, ReaderTypeOK,
       FileTypeOK, WalkInv, QuietInv, PhaseInv, RegistryInv
  <2>7. QED
    BY <2>1, <2>2, <2>3, <2>4, <2>5, <2>6
<1>7. ASSUME NEW r \in Readers, AppendMemcpy(r) PROVE IInv'
  <2>1. FileTypeOK'
    <3>1. copy[r] # <<>> /\ copy[r] \in Seq(Entry)
      BY <1>7 DEF AppendMemcpy, AppendInv, ReaderTypeOK
    <3>2. \A k \in DOMAIN CellsOf(Head(copy[r])) : CellsOf(Head(copy[r]))[k] \in Cell
      BY <3>1, EntryParts
    <3>3. data' \in [1 .. Capacity -> Cell]
      BY <1>7, <3>2 DEF AppendMemcpy, FileTypeOK
    <3>4. QED
      BY <1>7, <3>3 DEF AppendMemcpy, registry, FileTypeOK
  <2>2. CallbackTypeOK'
    BY <1>7 DEF AppendMemcpy, registry, core, history, CallbackTypeOK
  <2>3. ReaderTypeOK'
    BY <1>7 DEF AppendMemcpy, registry, core, history, ReaderTypeOK
  <2>4. (SerialInv /\ AppendInv /\ SizeInv)'
    BY <1>7 DEF AppendMemcpy, registry, core, history, ReaderTypeOK, FileTypeOK,
       SerialInv, AppendInv, SizeInv
  <2>5. (PhaseInv /\ RegistryInv /\ UniqueInv)'
    <3>1. (PhaseInv /\ RegistryInv)'
      BY <1>7 DEF AppendMemcpy, registry, core, history, CallbackTypeOK, FileTypeOK,
         PhaseInv, RegistryInv
    <3>2. UniqueInv'
      BY <1>7, <1>u DEF AppendMemcpy, core
    <3>3. QED
      BY <3>1, <3>2
  <2>6. (WalkInv /\ QuietInv)'
    BY <1>7 DEF AppendMemcpy, registry, core, history, ReaderTypeOK, FileTypeOK,
       WalkInv, QuietInv, PhaseInv, RegistryInv
  <2>7. QED
    BY <2>1, <2>2, <2>3, <2>4, <2>5, <2>6
<1>8. ASSUME NEW r \in Readers, AppendAdd(r) PROVE IInv'
  <2>1. FileTypeOK'
    <3>1. copy[r] # <<>> /\ copy[r] \in Seq(Entry)
      BY <1>8 DEF AppendAdd, AppendInv, ReaderTypeOK
    <3>2. Head(copy[r])[2] \in Nat
      BY <3>1, EntryParts
    <3>3. QED
      BY <1>8, <3>2 DEF AppendAdd, registry, FileTypeOK
  <2>2. CallbackTypeOK'
    BY <1>8 DEF AppendAdd, registry, core, history, CallbackTypeOK
  <2>3. ReaderTypeOK'
    <3>1. copy[r] # <<>> /\ copy[r] \in Seq(Entry)
      BY <1>8 DEF AppendAdd, AppendInv, ReaderTypeOK
    <3>2. Tail(copy[r]) \in Seq(Entry)
      BY <3>1, EntryParts
    <3>3. QED
      BY <1>8, <3>2 DEF AppendAdd, ReaderTypeOK
  <2>4. (SerialInv /\ AppendInv /\ SizeInv)'
    BY <1>8 DEF AppendAdd, registry, core, history, ReaderTypeOK, FileTypeOK,
       SerialInv, AppendInv, SizeInv
  <2>5. (PhaseInv /\ RegistryInv /\ UniqueInv)'
    <3>1. (PhaseInv /\ RegistryInv)'
      BY <1>8 DEF AppendAdd, registry, core, history, CallbackTypeOK, FileTypeOK,
         PhaseInv, RegistryInv
    <3>2. UniqueInv'
      BY <1>8, <1>u DEF AppendAdd, core
    <3>3. QED
      BY <3>1, <3>2
  <2>6. (WalkInv /\ QuietInv)'
    BY <1>8 DEF AppendAdd, registry, core, history, ReaderTypeOK, FileTypeOK,
       WalkInv, QuietInv, PhaseInv, RegistryInv
  <2>7. QED
    BY <2>1, <2>2, <2>3, <2>4, <2>5, <2>6
<1>9. ASSUME NEW r \in Readers, NextBuffer(r) PROVE IInv'
  <2>1. FileTypeOK'
    BY <1>9 DEF NextBuffer, registry, text, core, history, FileTypeOK
  <2>2. CallbackTypeOK'
    BY <1>9 DEF NextBuffer, registry, text, core, history, CallbackTypeOK
  <2>3. ReaderTypeOK'
    <3>1. i[r] + 1 \in 0 .. MaxCount
      BY <1>9 DEF NextBuffer, WalkInv, ReaderTypeOK
    <3>2. QED
      BY <1>9, <3>1 DEF NextBuffer, ReaderTypeOK
  <2>4. (SerialInv /\ AppendInv /\ SizeInv)'
    BY <1>9 DEF NextBuffer, registry, text, core, history, ReaderTypeOK, FileTypeOK,
       SerialInv, AppendInv, SizeInv
  <2>5. (PhaseInv /\ RegistryInv /\ UniqueInv)'
    <3>1. (PhaseInv /\ RegistryInv)'
      BY <1>9 DEF NextBuffer, registry, text, core, history, CallbackTypeOK,
         FileTypeOK, PhaseInv, RegistryInv
    <3>2. UniqueInv'
      BY <1>9, <1>u DEF NextBuffer, core
    <3>3. QED
      BY <3>1, <3>2
  <2>6. (WalkInv /\ QuietInv)'
    BY <1>9 DEF NextBuffer, registry, text, core, history, ReaderTypeOK, FileTypeOK,
       WalkInv, QuietInv, PhaseInv, RegistryInv
  <2>7. QED
    BY <2>1, <2>2, <2>3, <2>4, <2>5, <2>6
<1>10. ASSUME NEW r \in Readers, NEW n \in Chunks, CopyToUser(r, n) PROVE IInv'
  <2>1. FileTypeOK'
    BY <1>10 DEF CopyToUser, registry, text, core, FileTypeOK
  <2>2. CallbackTypeOK'
    BY <1>10 DEF CopyToUser, registry, text, core, CallbackTypeOK
  <2>3. ReaderTypeOK'
    <3>1. n \in Nat /\ size_used \in Nat /\ pos[r] \in Nat
      BY DEF FileTypeOK, ReaderTypeOK
    <3>2. pos' \in [Readers -> Nat]
      BY <1>10, <3>1 DEF CopyToUser, ReaderTypeOK
    <3>3. QED
      BY <1>10, <3>2, Zeros DEF CopyToUser, ReaderTypeOK
  <2>4. (SerialInv /\ AppendInv /\ SizeInv)'
    BY <1>10 DEF CopyToUser, registry, text, core, ReaderTypeOK, FileTypeOK,
       SerialInv, AppendInv, SizeInv
  <2>5. (PhaseInv /\ RegistryInv /\ UniqueInv)'
    <3>1. (PhaseInv /\ RegistryInv)'
      BY <1>10 DEF CopyToUser, registry, text, core, CallbackTypeOK, FileTypeOK,
         PhaseInv, RegistryInv
    <3>2. UniqueInv'
      BY <1>10, <1>u DEF CopyToUser, core
    <3>3. QED
      BY <3>1, <3>2
  <2>6. (WalkInv /\ QuietInv)'
    BY <1>10 DEF CopyToUser, registry, text, core, ReaderTypeOK, FileTypeOK,
       WalkInv, QuietInv, PhaseInv, RegistryInv
  <2>7. QED
    BY <2>1, <2>2, <2>3, <2>4, <2>5, <2>6
<1>11. ASSUME NEW r \in Readers, Rewind(r) PROVE IInv'
  <2>1. FileTypeOK'
    BY <1>11 DEF Rewind, registry, text, core, history, Forget, FileTypeOK
  <2>2. CallbackTypeOK'
    BY <1>11 DEF Rewind, registry, text, core, history, Forget, CallbackTypeOK
  <2>3. ReaderTypeOK'
    BY <1>11 DEF Rewind, registry, text, core, history, Forget, ReaderTypeOK
  <2>4. (SerialInv /\ AppendInv /\ SizeInv)'
    BY <1>11 DEF Rewind, registry, text, core, history, Forget, ReaderTypeOK,
       FileTypeOK, SerialInv, AppendInv, SizeInv
  <2>5. (PhaseInv /\ RegistryInv /\ UniqueInv)'
    <3>1. (PhaseInv /\ RegistryInv)'
      BY <1>11 DEF Rewind, registry, text, core, history, Forget, CallbackTypeOK,
         FileTypeOK, PhaseInv, RegistryInv
    <3>2. UniqueInv'
      BY <1>11, <1>u DEF Rewind, core
    <3>3. QED
      BY <3>1, <3>2
  <2>6. (WalkInv /\ QuietInv)'
    BY <1>11 DEF Rewind, registry, text, core, history, Forget, ReaderTypeOK,
       FileTypeOK, WalkInv, QuietInv, PhaseInv, RegistryInv
  <2>7. QED
    BY <2>1, <2>2, <2>3, <2>4, <2>5, <2>6
<1>12. ASSUME NEW b \in Buffers, NEW size \in Sizes, Log(b, size) PROVE IInv'
  <2>1. FileTypeOK'
    BY <1>12 DEF Log, registry, text, core, local, history, FileTypeOK
  <2>2. CallbackTypeOK'
    <3> DEFINE all == Append(pending[b], <<logged', size>>)
    <3>1. logged' \in 1 .. MaxLogged /\ pending[b] \in Seq(Entry)
      BY <1>12 DEF Log, CallbackTypeOK
    <3>2. <<logged', size>> \in Entry
      BY <3>1 DEF Entry
    <3>3. all \in Seq(Entry) /\ all # <<>>
      BY <3>1, <3>2
    <3>4. Tail(all) \in Seq(Entry)
      BY <3>3, EntryParts
    <3>5. pending' \in [Buffers -> Seq(Entry)]
      BY <1>12, <3>3, <3>4 DEF Log, CallbackTypeOK
    <3>6. QED
      BY <1>12, <3>1, <3>5 DEF Log, core, CallbackTypeOK
  <2>3. ReaderTypeOK'
    BY <1>12 DEF Log, registry, text, core, local, history, ReaderTypeOK
  <2>4. (SerialInv /\ AppendInv /\ SizeInv)'
    BY <1>12 DEF Log, registry, text, core, local, history, ReaderTypeOK,
       FileTypeOK, SerialInv, AppendInv, SizeInv
  <2>5. (PhaseInv /\ RegistryInv /\ UniqueInv)'
    <3>1. (PhaseInv /\ RegistryInv)'
      BY <1>12 DEF Log, registry, text, core, local, history, CallbackTypeOK,
         FileTypeOK, PhaseInv, RegistryInv
    <3>2. UniqueInv'
      BY <1>12, <1>u DEF Log, core
    <3>3. QED
      BY <3>1, <3>2
  <2>6. (WalkInv /\ QuietInv)'
    BY <1>12 DEF Log, registry, text, core, local, history, ReaderTypeOK,
       FileTypeOK, WalkInv, QuietInv, PhaseInv, RegistryInv
  <2>7. QED
    BY <2>1, <2>2, <2>3, <2>4, <2>5, <2>6
<1>13. ASSUME NEW b \in Buffers, StartPolicy(b) PROVE IInv'
  <2>1. FileTypeOK'
    BY <1>13 DEF StartPolicy, registry, text, local, history, CallbackMayRun, FileTypeOK
  <2>2. CallbackTypeOK'
    BY <1>13 DEF StartPolicy, registry, text, local, history, CallbackMayRun,
       CallbackTypeOK
  <2>3. ReaderTypeOK'
    BY <1>13 DEF StartPolicy, registry, text, local, history, CallbackMayRun,
       ReaderTypeOK
  <2>4. (SerialInv /\ AppendInv /\ SizeInv)'
    BY <1>13 DEF StartPolicy, registry, text, local, history, CallbackMayRun,
       ReaderTypeOK, FileTypeOK, SerialInv, AppendInv, SizeInv
  <2>5. (PhaseInv /\ RegistryInv /\ UniqueInv)'
    BY <1>13 DEF StartPolicy, registry, text, local, history, CallbackMayRun,
       CallbackTypeOK, FileTypeOK, PhaseInv, RegistryInv, UniqueInv
  <2>6. (WalkInv /\ QuietInv)'
    BY <1>13 DEF StartPolicy, registry, text, local, history, CallbackMayRun,
       ReaderTypeOK, FileTypeOK, WalkInv, QuietInv, PhaseInv, RegistryInv
  <2>7. QED
    BY <2>1, <2>2, <2>3, <2>4, <2>5, <2>6
<1>14. ASSUME NEW b \in Buffers, StopPolicy(b) PROVE IInv'
  <2>1. FileTypeOK'
    BY <1>14 DEF StopPolicy, Releases, registry, text, local, history, CallbackMayRun, FileTypeOK
  <2>2. CallbackTypeOK'
    BY <1>14 DEF StopPolicy, Releases, registry, text, local, history, CallbackMayRun,
       CallbackTypeOK
  <2>3. ReaderTypeOK'
    BY <1>14 DEF StopPolicy, Releases, registry, text, local, history, CallbackMayRun,
       ReaderTypeOK
  <2>4. (SerialInv /\ AppendInv /\ SizeInv)'
    BY <1>14 DEF StopPolicy, Releases, registry, text, local, history, CallbackMayRun,
       ReaderTypeOK, FileTypeOK, SerialInv, AppendInv, SizeInv
  <2>5. (PhaseInv /\ RegistryInv /\ UniqueInv)'
    BY <1>14 DEF StopPolicy, Releases, registry, text, local, history, CallbackMayRun,
       CallbackTypeOK, FileTypeOK, PhaseInv, RegistryInv, UniqueInv
  <2>6. (WalkInv /\ QuietInv)'
    BY <1>14 DEF StopPolicy, Releases, registry, text, local, history, CallbackMayRun,
       ReaderTypeOK, FileTypeOK, WalkInv, QuietInv, PhaseInv, RegistryInv
  <2>7. QED
    BY <2>1, <2>2, <2>3, <2>4, <2>5, <2>6
<1>15. ASSUME NEW b \in Buffers, CloseRingbuffer(b) PROVE IInv'
  <2>1. FileTypeOK'
    BY <1>15 DEF CloseRingbuffer, registry, text, local, history, CallbackMayRun,
       FileTypeOK
  <2>2. CallbackTypeOK'
    BY <1>15 DEF CloseRingbuffer, registry, text, local, history, CallbackMayRun,
       CallbackTypeOK
  <2>3. ReaderTypeOK'
    BY <1>15 DEF CloseRingbuffer, registry, text, local, history, CallbackMayRun,
       ReaderTypeOK
  <2>4. (SerialInv /\ AppendInv /\ SizeInv)'
    BY <1>15 DEF CloseRingbuffer, registry, text, local, history, CallbackMayRun,
       ReaderTypeOK, FileTypeOK, SerialInv, AppendInv, SizeInv
  <2>5. (PhaseInv /\ RegistryInv /\ UniqueInv)'
    <3>1. \A c \in Buffers : ring[c] = "open" => ring'[c] = "open"
      BY <1>15 DEF CloseRingbuffer, CallbackTypeOK
    <3>2. PhaseInv'
      BY <1>15, <3>1 DEF CloseRingbuffer, registry, CallbackTypeOK, PhaseInv
    <3>3. RegistryInv'
      BY <1>15, <3>1 DEF CloseRingbuffer, registry, RegistryInv
    <3>4. UniqueInv'
      BY <1>15 DEF CloseRingbuffer, registry, UniqueInv
    <3>5. QED
      BY <3>2, <3>3, <3>4
  <2>6. (WalkInv /\ QuietInv)'
    BY <1>15 DEF CloseRingbuffer, registry, text, local, history, CallbackMayRun,
       ReaderTypeOK, FileTypeOK, WalkInv, QuietInv, PhaseInv, RegistryInv
  <2>7. QED
    BY <2>1, <2>2, <2>3, <2>4, <2>5, <2>6
<1>16. CASE LogfileInit
  <2>1. FileTypeOK'
    <3>1. data' \in [1 .. Capacity -> Cell] /\ size_used' \in Nat
      BY <1>16, Zeros DEF LogfileInit, text, FileTypeOK
    <3>2. log_file' \in BOOLEAN /\ live' \in BOOLEAN
      BY <1>16 DEF LogfileInit, FileTypeOK
    <3>3. QED
      BY <1>16, <3>1, <3>2 DEF LogfileInit, registry, FileTypeOK
  <2>2. CallbackTypeOK'
    BY <1>16 DEF LogfileInit, registry, text, local, history, CallbackMayRun,
       CallbackTypeOK
  <2>3. ReaderTypeOK'
    BY <1>16 DEF LogfileInit, registry, text, local, history, CallbackMayRun,
       ReaderTypeOK
  <2>4. (SerialInv /\ AppendInv /\ SizeInv)'
    <3>1. ASSUME NEW r \in Readers, rpc[r] \in {"memcpy", "add"}, "read" \notin Overlaps
          PROVE  0 + Head(copy[r])[2] <= Capacity
      <4>1. copy[r] \in Seq(Entry) /\ copy[r] # <<>>
        BY <3>1 DEF ReaderTypeOK, AppendInv
      <4>2. Head(copy[r])[2] \in Nat
        BY <4>1, EntryParts
      <4>3. size_used \in Nat /\ size_used + Head(copy[r])[2] <= Capacity
        BY <3>1 DEF FileTypeOK, AppendInv
      <4>4. QED
        BY <4>2, <4>3
    <3>2. AppendInv'
      BY <1>16, <3>1 DEF LogfileInit, text, local, AppendInv
    <3>3. (SerialInv /\ SizeInv)'
      BY <1>16 DEF LogfileInit, text, local, SerialInv, SizeInv
    <3>4. QED
      BY <3>2, <3>3
  <2>5. (PhaseInv /\ RegistryInv /\ UniqueInv)'
    BY <1>16 DEF LogfileInit, registry, text, local, history, CallbackMayRun,
       CallbackTypeOK, FileTypeOK, PhaseInv, RegistryInv, UniqueInv
  <2>6. (WalkInv /\ QuietInv)'
    BY <1>16 DEF LogfileInit, registry, text, local, history, CallbackMayRun,
       ReaderTypeOK, FileTypeOK, WalkInv, QuietInv, PhaseInv, RegistryInv
  <2>7. QED
    BY <2>1, <2>2, <2>3, <2>4, <2>5, <2>6
<1>17. CASE InfofileInit
  <2>1. FileTypeOK'
    BY <1>17 DEF InfofileInit, registry, text, local, history, CallbackMayRun,
       FileTypeOK
  <2>2. CallbackTypeOK'
    BY <1>17 DEF InfofileInit, registry, text, local, history, CallbackMayRun,
       CallbackTypeOK
  <2>3. ReaderTypeOK'
    BY <1>17 DEF InfofileInit, registry, text, local, history, CallbackMayRun,
       ReaderTypeOK
  <2>4. (SerialInv /\ AppendInv /\ SizeInv)'
    BY <1>17 DEF InfofileInit, registry, text, local, history, CallbackMayRun,
       ReaderTypeOK, FileTypeOK, SerialInv, AppendInv, SizeInv
  <2>5. (PhaseInv /\ RegistryInv /\ UniqueInv)'
    BY <1>17 DEF InfofileInit, registry, text, local, history, CallbackMayRun,
       CallbackTypeOK, FileTypeOK, PhaseInv, RegistryInv, UniqueInv
  <2>6. (WalkInv /\ QuietInv)'
    BY <1>17 DEF InfofileInit, registry, text, local, history, CallbackMayRun,
       ReaderTypeOK, FileTypeOK, WalkInv, QuietInv, PhaseInv, RegistryInv
  <2>7. QED
    BY <2>1, <2>2, <2>3, <2>4, <2>5, <2>6
<1>18. CASE OpenRingbuffer
  <2>1. FileTypeOK'
    BY <1>18 DEF OpenRingbuffer, registry, text, local, history, CallbackMayRun,
       FileTypeOK
  <2>2. CallbackTypeOK'
    <3>1. <<>> \in Seq(Entry)
      OBVIOUS
    <3>2. pending' \in [Buffers -> Seq(Entry)]
      BY <1>18, <3>1 DEF OpenRingbuffer, CallbackTypeOK
    <3>3. /\ cpc' \in {"idle", "count"}
          /\ ring' \in [Buffers -> {"closed", "open", "closing", "none"}]
      BY <1>18 DEF OpenRingbuffer, CallbackTypeOK
    <3>4. QED
      BY <1>18, <3>2, <3>3 DEF OpenRingbuffer, CallbackTypeOK
  <2>3. ReaderTypeOK'
    BY <1>18 DEF OpenRingbuffer, registry, text, local, history, CallbackMayRun,
       ReaderTypeOK
  <2>4. (SerialInv /\ AppendInv /\ SizeInv)'
    BY <1>18 DEF OpenRingbuffer, registry, text, local, history, CallbackMayRun,
       ReaderTypeOK, FileTypeOK, SerialInv, AppendInv, SizeInv
  <2>5. (PhaseInv /\ RegistryInv /\ UniqueInv)'
    <3>1. \A b \in Buffers : ring[b] = "open" => ring'[b] = "open"
      BY <1>18 DEF OpenRingbuffer, CallbackTypeOK, PhaseInv
    <3>2. RegistryInv'
      BY <1>18, <3>1 DEF OpenRingbuffer, registry, RegistryInv
    <3>3. PhaseInv'
      BY <1>18 DEF OpenRingbuffer, registry, CallbackTypeOK, PhaseInv
    <3>4. \A n \in 1 .. count : buffers[n] # {cbuf}
      BY <1>18 DEF OpenRingbuffer, PhaseInv, RegistryInv
    <3>5. UniqueInv'
      BY <1>18, <3>4 DEF OpenRingbuffer, registry, UniqueInv
    <3>6. QED
      BY <3>2, <3>3, <3>5
  <2>6. (WalkInv /\ QuietInv)'
    BY <1>18 DEF OpenRingbuffer, registry, text, local, history, CallbackMayRun,
       ReaderTypeOK, FileTypeOK, WalkInv, QuietInv, PhaseInv, RegistryInv
  <2>7. QED
    BY <2>1, <2>2, <2>3, <2>4, <2>5, <2>6
<1>19. CASE RegisterCount
  <2>1. FileTypeOK'
    <3>1. count + 1 \in 0 .. MaxCount
      BY <1>19 DEF RegisterCount, PhaseInv, FileTypeOK
    <3>2. QED
      BY <1>19, <3>1 DEF RegisterCount, text, FileTypeOK
  <2>2. CallbackTypeOK'
    BY <1>19 DEF RegisterCount, text, local, history, CallbackMayRun, CallbackTypeOK
  <2>3. ReaderTypeOK'
    BY <1>19 DEF RegisterCount, text, local, history, CallbackMayRun, ReaderTypeOK
  <2>4. (SerialInv /\ AppendInv /\ SizeInv)'
    BY <1>19 DEF RegisterCount, text, local, history, CallbackMayRun, ReaderTypeOK,
       FileTypeOK, SerialInv, AppendInv, SizeInv
  <2>5. (PhaseInv /\ RegistryInv /\ UniqueInv)'
    <3>1. (PhaseInv /\ RegistryInv)'
      BY <1>19 DEF RegisterCount, text, local, history, CallbackMayRun,
         CallbackTypeOK, FileTypeOK, PhaseInv, RegistryInv
    <3>2. count \in Nat /\ count' = count + 1 /\ cpc = "count" /\ cpc' = "store"
          /\ UNCHANGED <<buffers, cbuf>>
      BY <1>19 DEF RegisterCount, FileTypeOK
    <3>3. \A n \in 1 .. count' : n # count' => n \in 1 .. count
      BY <3>2
    <3>4. UniqueInv'
      BY <3>2, <3>3 DEF UniqueInv
    <3>5. QED
      BY <3>1, <3>4
  <2>6. (WalkInv /\ QuietInv)'
    BY <1>19 DEF RegisterCount, text, local, history, CallbackMayRun, ReaderTypeOK,
       FileTypeOK, WalkInv, QuietInv, PhaseInv, RegistryInv
  <2>7. QED
    BY <2>1, <2>2, <2>3, <2>4, <2>5, <2>6
<1>20. CASE RegisterStore
  <2>1. FileTypeOK'
    BY <1>20 DEF RegisterStore, text, FileTypeOK, CallbackTypeOK
  <2>2. CallbackTypeOK'
    BY <1>20 DEF RegisterStore, text, local, history, CallbackMayRun, CallbackTypeOK
  <2>3. ReaderTypeOK'
    BY <1>20 DEF RegisterStore, text, local, history, CallbackMayRun, ReaderTypeOK
  <2>4. (SerialInv /\ AppendInv /\ SizeInv)'
    BY <1>20 DEF RegisterStore, text, local, history, CallbackMayRun, ReaderTypeOK,
       FileTypeOK, SerialInv, AppendInv, SizeInv
  <2>5. (PhaseInv /\ RegistryInv /\ UniqueInv)'
    <3>1. count \in 1 .. MaxCount /\ ring[cbuf] = "open" /\ cbuf \in Buffers
      BY <1>20 DEF RegisterStore, PhaseInv, FileTypeOK, CallbackTypeOK
    <3>2. RegistryInv'
      <4> SUFFICES ASSUME NEW n \in 1 .. count
                   PROVE  \E b \in Buffers : buffers'[n] = {b} /\ ring[b] = "open"
        BY <1>20 DEF RegisterStore, RegistryInv
      <4>1. CASE n = count
        BY <1>20, <3>1, <4>1 DEF RegisterStore, FileTypeOK
      <4>2. CASE n # count
        BY <1>20, <3>1, <4>2 DEF RegisterStore, FileTypeOK, RegistryInv
      <4>3. QED
        BY <4>1, <4>2
    <3>3. PhaseInv'
      BY <1>20 DEF RegisterStore, PhaseInv
    <3>4. ASSUME NEW m \in 1 .. count, NEW n \in 1 .. count, buffers'[m] = buffers'[n]
          PROVE  m = n
      <4>1. buffers'[count] = {cbuf} /\ cpc = "store"
        BY <1>20, <3>1 DEF RegisterStore, FileTypeOK
      <4>2. \A k \in 1 .. count : k # count => buffers'[k] = buffers[k] /\ k \in 1 .. count - 1
        BY <1>20, <3>1 DEF RegisterStore, FileTypeOK
      <4>3. QED
        BY <3>4, <4>1, <4>2 DEF UniqueInv
    <3>5. UniqueInv'
      BY <1>20, <3>4 DEF RegisterStore, UniqueInv
    <3>6. QED
      BY <3>2, <3>3, <3>5
  <2>6. (WalkInv /\ QuietInv)'
    BY <1>20 DEF RegisterStore, text, local, history, CallbackMayRun, ReaderTypeOK,
       FileTypeOK, WalkInv, QuietInv, PhaseInv, RegistryInv
  <2>7. QED
    BY <2>1, <2>2, <2>3, <2>4, <2>5, <2>6
<1>21. CASE LogfileExit
  <2>1. FileTypeOK'
    BY <1>21, Zeros DEF LogfileExit, text, FileTypeOK
  <2>2. CallbackTypeOK'
    BY <1>21 DEF LogfileExit, text, local, history, CallbackMayRun, CallbackTypeOK
  <2>3. ReaderTypeOK'
    BY <1>21 DEF LogfileExit, text, local, history, CallbackMayRun, ReaderTypeOK
  <2>4. (SerialInv /\ AppendInv /\ SizeInv)'
    BY <1>21 DEF LogfileExit, text, local, history, CallbackMayRun, ReaderTypeOK,
       FileTypeOK, SerialInv, AppendInv, SizeInv
  <2>5. (PhaseInv /\ RegistryInv /\ UniqueInv)'
    BY <1>21 DEF LogfileExit, text, local, history, CallbackMayRun, CallbackTypeOK,
       FileTypeOK, PhaseInv, RegistryInv, UniqueInv
  <2>6. (WalkInv /\ QuietInv)'
    BY <1>21 DEF LogfileExit, text, local, history, CallbackMayRun, ReaderTypeOK,
       FileTypeOK, WalkInv, QuietInv, PhaseInv, RegistryInv
  <2>7. QED
    BY <2>1, <2>2, <2>3, <2>4, <2>5, <2>6
<1>22. CASE DebugfsRemove
  <2>1. FileTypeOK'
    BY <1>22 DEF DebugfsRemove, registry, text, local, history, CallbackMayRun,
       FileTypeOK
  <2>2. CallbackTypeOK'
    BY <1>22 DEF DebugfsRemove, registry, text, local, history, CallbackMayRun,
       CallbackTypeOK
  <2>3. ReaderTypeOK'
    BY <1>22 DEF DebugfsRemove, registry, text, local, history, CallbackMayRun,
       ReaderTypeOK
  <2>4. (SerialInv /\ AppendInv /\ SizeInv)'
    BY <1>22 DEF DebugfsRemove, registry, text, local, history, CallbackMayRun,
       ReaderTypeOK, FileTypeOK, SerialInv, AppendInv, SizeInv
  <2>5. (PhaseInv /\ RegistryInv /\ UniqueInv)'
    <3>1. PhaseInv'
      BY <1>22 DEF DebugfsRemove, registry, PhaseInv
    <3>2. count = 0 /\ count' = 0
      BY <1>22 DEF DebugfsRemove, registry, PhaseInv
    <3>3. RegistryInv'
      BY <3>2 DEF RegistryInv
    <3>4. UniqueInv'
      BY <1>22, <3>2 DEF DebugfsRemove, UniqueInv
    <3>5. QED
      BY <3>1, <3>3, <3>4
  <2>6. (WalkInv /\ QuietInv)'
    BY <1>22 DEF DebugfsRemove, registry, text, local, history, CallbackMayRun,
       ReaderTypeOK, FileTypeOK, WalkInv, QuietInv, PhaseInv, RegistryInv
  <2>7. QED
    BY <2>1, <2>2, <2>3, <2>4, <2>5, <2>6
<1>23. CASE DebugfsWait
  <2>1. FileTypeOK'
    BY <1>23 DEF DebugfsWait, Releases, registry, text, CallbackMayRun, Forget, FileTypeOK
  <2>2. CallbackTypeOK'
    BY <1>23 DEF DebugfsWait, Releases, registry, text, CallbackMayRun, Forget, CallbackTypeOK
  <2>3. ReaderTypeOK'
    BY <1>23 DEF DebugfsWait, Releases, registry, text, CallbackMayRun, Forget, ReaderTypeOK
  <2>4. (SerialInv /\ AppendInv /\ SizeInv)'
    BY <1>23 DEF DebugfsWait, Releases, registry, text, CallbackMayRun, Forget, ReaderTypeOK,
       FileTypeOK, SerialInv, AppendInv, SizeInv
  <2>5. (PhaseInv /\ RegistryInv /\ UniqueInv)'
    BY <1>23 DEF DebugfsWait, Releases, registry, text, CallbackMayRun, Forget,
       CallbackTypeOK, FileTypeOK, PhaseInv, RegistryInv, UniqueInv
  <2>6. (WalkInv /\ QuietInv)'
    BY <1>23 DEF DebugfsWait, Releases, registry, text, CallbackMayRun, Forget, ReaderTypeOK,
       FileTypeOK, WalkInv, QuietInv, PhaseInv, RegistryInv
  <2>7. QED
    BY <2>1, <2>2, <2>3, <2>4, <2>5, <2>6
<1>24. CASE UNCHANGED vars
  <2>1. UniqueInv'
    BY <1>24, <1>u DEF vars, core
  <2>2. QED
    BY <1>24, <2>1 DEF vars, registry, text, core, local, history, FileTypeOK,
       CallbackTypeOK, ReaderTypeOK, SerialInv, AppendInv,
       SizeInv, PhaseInv, RegistryInv, WalkInv, QuietInv
<1>25. QED
  BY <1>1, <1>2, <1>3, <1>4, <1>5, <1>6, <1>7, <1>8, <1>9, <1>10, <1>11, <1>12,
     <1>13, <1>14, <1>15, <1>16, <1>17, <1>18, <1>19, <1>20, <1>21, <1>22, <1>23, <1>24
  DEF Next, ReadStep

\* IInv is an invariant of LogFile.
THEOREM Invariance == Spec => []IInv
  BY InitIInv, StepIInv, PTL DEF Spec

\* Every variable keeps its type; in particular a reader never walks past the
\* end of the registry, whatever callbacks do to it meanwhile.
THEOREM TypeCorrect == Spec => []TypeOK
<1>1. IInv => TypeOK
  BY DEF IInv
<1>2. QED
  BY <1>1, Invariance, PTL

\* As long as calls of user_read_log do not overlap, the text never exceeds the
\* capacity of the log, even while callbacks remove and create the file.
THEOREM CapacityRespected ==
  ASSUME "read" \notin Overlaps
  PROVE  Spec => []UsedWithinTotal
<1>1. IInv => UsedWithinTotal
  BY DEF IInv, SizeInv, AppendInv, UsedWithinTotal
<1>2. QED
  BY <1>1, Invariance, PTL

\* As long as no callback overlaps a call of user_read_log, readers use only
\* memory that is allocated, although each stop removes the file for all
\* policies and leaves the pointers in the registry.
THEOREM ReadersSafe ==
  ASSUME "callback" \notin Overlaps
  PROVE  Spec => []UsesLiveMemory
<1>1. IInv => UsesLiveMemory
  BY DEF IInv, QuietInv, PhaseInv, UsesLiveMemory, InCall
<1>2. QED
  BY <1>1, Invariance, PTL
-----------------------------------------------------------------------------
(***************************************************************************)
(* What FlattenSeq, and with it TextOf, computes.  Induction over a set of *)
(* numbers needs no operator as parameter.                                 *)
(***************************************************************************)

\* A set of numbers that holds 0, and n + 1 with n, holds all of them.
LEMMA Induction ==
  ASSUME NEW S, 0 \in S, \A n \in Nat : n \in S => n + 1 \in S
  PROVE  \A n \in Nat : n \in S
<1> SUFFICES ASSUME Nat \ S # {} PROVE FALSE
  OBVIOUS
<1> DEFINE R == OpToRel(<, Nat)
<1>1. \A x, y \in Nat : x < y => <<x, y>> \in R
  BY DEF OpToRel
<1>2. PICK m \in Nat \ S : \A y \in Nat \ S : ~(<<y, m>> \in R)
  <2>1. Nat \ S \subseteq Nat
    OBVIOUS
  <2> QED
    BY <2>1, NatLessThanWellFounded, WFMin
<1> HIDE DEF R
<1>3. m # 0 /\ m \in Nat
  BY Zenon
<1>5. m - 1 \in Nat /\ m - 1 < m /\ (m - 1) + 1 = m
  BY <1>3
<1>4. m - 1 \in S
  <2>1. <<m - 1, m>> \in R
    BY <1>1, <1>3, <1>5
  <2> QED
    BY <1>2, <1>5, <2>1, Zenon
<1> QED
  BY <1>4, <1>5

\* The equation of the function by which FlattenSeq is defined.
Flattens(f, ss, n) ==
  f = [k \in 1 .. n |-> IF k = 1 THEN ss[k] ELSE f[k - 1] \o ss[k]]

\* There is such a function, for every number of parts.
LEMMA FlattenExists ==
  ASSUME NEW T, NEW ss \in Seq(Seq(T))
  PROVE  \A n \in Nat : n <= Len(ss) => \E f : Flattens(f, ss, n)
<1> DEFINE S == {n \in Nat : n <= Len(ss) => \E f : Flattens(f, ss, n)}
<1>1. 0 \in S
  <2>1. Flattens(<<>>, ss, 0)
    BY DEF Flattens
  <2> QED
    BY <2>1
<1>2. ASSUME NEW n \in Nat, n \in S, n + 1 <= Len(ss) PROVE \E f : Flattens(f, ss, n + 1)
  <2>1. PICK f : Flattens(f, ss, n)
    <3>1. n <= Len(ss)
      BY <1>2
    <3> QED
      BY <1>2, <3>1
  <2> DEFINE g == [k \in 1 .. n + 1 |->
                    IF k <= n THEN f[k] ELSE IF k = 1 THEN ss[k] ELSE f[k - 1] \o ss[k]]
             h == [k \in 1 .. n + 1 |-> IF k = 1 THEN ss[k] ELSE g[k - 1] \o ss[k]]
  <2>2. \A k \in 1 .. n : f[k] = IF k = 1 THEN ss[k] ELSE f[k - 1] \o ss[k]
    BY <2>1 DEF Flattens
  <2>3. ASSUME NEW k \in 1 .. n + 1 PROVE g[k] = h[k]
    <3>1. k # 1 => k - 1 \in 1 .. n /\ k - 1 \in 1 .. n + 1 /\ k - 1 <= n
      OBVIOUS
    <3>2. k # 1 => g[k - 1] = f[k - 1]
      BY <3>1
    <3>3. k <= n => k \in 1 .. n
      OBVIOUS
    <3> QED
      BY <2>2, <3>2, <3>3
  <2>4. g = h
    BY <2>3
  <2> HIDE DEF g
  <2>5. Flattens(g, ss, n + 1)
    BY <2>4 DEF Flattens
  <2> QED
    BY <2>5
<1>3. ASSUME NEW n \in Nat, n \in S PROVE n + 1 \in S
  <2>1. n + 1 \in Nat
    OBVIOUS
  <2>2. n + 1 <= Len(ss) => \E f : Flattens(f, ss, n + 1)
    BY <1>2, <1>3, Zenon
  <2> QED
    BY <2>1, <2>2
<1> HIDE DEF S
<1>4. \A n \in Nat : n \in S
  BY <1>1, <1>3, Induction
<1> QED
  BY <1>4 DEF S

\* FlattenSeq unfolded.
LEMMA FlattenIs ==
  ASSUME NEW T, NEW ss \in Seq(Seq(T)), ss # <<>>
  PROVE  \E f : Flattens(f, ss, Len(ss)) /\ FlattenSeq(ss) = f[Len(ss)]
<1> DEFINE f == CHOOSE g : Flattens(g, ss, Len(ss))
<1>1. Len(ss) \in Nat /\ Len(ss) # 0
  OBVIOUS
<1>2. \E g : Flattens(g, ss, Len(ss))
  BY <1>1, FlattenExists
<1>3. Flattens(f, ss, Len(ss))
  BY <1>2, Zenon
<1>4. FlattenSeq(ss) = f[Len(ss)]
  BY <1>1, Zenon DEF FlattenSeq, Flattens
<1> QED
  BY <1>3, <1>4

\* It holds sequences, each the one before it with the next part appended.
LEMMA FlattenTyped ==
  ASSUME NEW T, NEW ss \in Seq(Seq(T)), NEW f, Flattens(f, ss, Len(ss))
  PROVE  \A n \in 1 .. Len(ss) :
           /\ f[n] \in Seq(T)
           /\ f[n] = IF n = 1 THEN ss[n] ELSE f[n - 1] \o ss[n]
<1>1. \A n \in 1 .. Len(ss) : f[n] = IF n = 1 THEN ss[n] ELSE f[n - 1] \o ss[n]
  BY DEF Flattens
<1> DEFINE S == {n \in Nat : n \in 1 .. Len(ss) => f[n] \in Seq(T)}
<1>2. 0 \in S
  OBVIOUS
<1>3. ASSUME NEW n \in Nat, n \in S PROVE n + 1 \in S
  <2> SUFFICES ASSUME n + 1 \in 1 .. Len(ss) PROVE f[n + 1] \in Seq(T)
    OBVIOUS
  <2>1. ss[n + 1] \in Seq(T)
    OBVIOUS
  <2>2. CASE n = 0
    BY <1>1, <2>1, <2>2
  <2>3. CASE n # 0
    <3>1. n \in 1 .. Len(ss) /\ n + 1 # 1 /\ (n + 1) - 1 = n
      BY <2>3
    <3>2. f[n] \in Seq(T)
      BY <1>3, <3>1
    <3>3. f[n + 1] = f[n] \o ss[n + 1]
      BY <1>1, <3>1
    <3> QED
      BY <2>1, <3>2, <3>3, ConcatProperties
  <2> QED
    BY <2>2, <2>3
<1> HIDE DEF S
<1>4. \A n \in Nat : n \in S
  BY <1>2, <1>3, Induction
<1> QED
  BY <1>1, <1>4 DEF S

\* What FlattenSeq does: the first part, followed by the others.
LEMMA FlattenCons ==
  ASSUME NEW T, NEW ss \in Seq(Seq(T)), ss # <<>>
  PROVE  /\ FlattenSeq(Tail(ss)) \in Seq(T)
         /\ FlattenSeq(ss) = Head(ss) \o FlattenSeq(Tail(ss))
<1> DEFINE ts == Tail(ss)
<1>1. /\ ts \in Seq(Seq(T)) /\ Len(ss) \in Nat \ {0} /\ Len(ts) = Len(ss) - 1
      /\ Head(ss) = ss[1] /\ ss[1] \in Seq(T)
      /\ \A n \in 1 .. Len(ts) : ts[n] = ss[n + 1]
  OBVIOUS
<1> HIDE DEF ts
<1>2. PICK f : Flattens(f, ss, Len(ss)) /\ FlattenSeq(ss) = f[Len(ss)]
  BY FlattenIs
<1>3. \A n \in 1 .. Len(ss) :
        /\ f[n] \in Seq(T)
        /\ f[n] = IF n = 1 THEN ss[n] ELSE f[n - 1] \o ss[n]
  BY <1>2, FlattenTyped
<1>4. CASE ts = <<>>
  <2>1. Len(ss) = 1 /\ FlattenSeq(ts) = <<>>
    BY <1>1, <1>4 DEF FlattenSeq
  <2>2. FlattenSeq(ss) = ss[1]
    BY <1>2, <1>3, <2>1
  <2>3. <<>> \in Seq(T) /\ ss[1] = ss[1] \o <<>>
    BY <1>1, ConcatEmptySeq
  <2> QED
    BY <1>1, <2>1, <2>2, <2>3 DEF ts
<1>5. CASE ts # <<>>
  <2>1. PICK g : Flattens(g, ts, Len(ts)) /\ FlattenSeq(ts) = g[Len(ts)]
    BY <1>1, <1>5, FlattenIs
  <2>2. \A n \in 1 .. Len(ts) :
          /\ g[n] \in Seq(T)
          /\ g[n] = IF n = 1 THEN ts[n] ELSE g[n - 1] \o ts[n]
    <3>1. ts \in Seq(Seq(T)) /\ Flattens(g, ts, Len(ts))
      BY <1>1, <2>1
    <3> QED
      BY <3>1, FlattenTyped
  <2> DEFINE S == {n \in Nat : n \in 1 .. Len(ts) => f[n + 1] = ss[1] \o g[n]}
  <2>3. 0 \in S
    OBVIOUS
  <2>4. ASSUME NEW n \in Nat, n \in S PROVE n + 1 \in S
    <3> SUFFICES ASSUME n + 1 \in 1 .. Len(ts) PROVE f[(n + 1) + 1] = ss[1] \o g[n + 1]
      <4>1. n + 1 \in Nat
        OBVIOUS
      <4> QED
        BY <4>1, Zenon
    <3>1. /\ (n + 1) + 1 \in 1 .. Len(ss) /\ (n + 1) + 1 # 1 /\ ((n + 1) + 1) - 1 = n + 1
          /\ ts[n + 1] = ss[(n + 1) + 1]
      BY <1>1
    <3>2. f[(n + 1) + 1] = f[n + 1] \o ts[n + 1]
      BY <1>3, <3>1
    <3>3. ts[n + 1] \in Seq(T)
      BY <1>1
    <3>4. CASE n = 0
      <4>1. g[n + 1] = ts[n + 1] /\ f[n + 1] = ss[1]
        BY <1>1, <1>3, <2>2, <3>4
      <4> QED
        BY <3>2, <4>1
    <3>5. CASE n # 0
      <4>1. n \in 1 .. Len(ts) /\ n + 1 # 1 /\ (n + 1) - 1 = n
        BY <1>1, <3>5
      <4>2. f[n + 1] = ss[1] \o g[n] /\ g[n] \in Seq(T)
        BY <2>2, <2>4, <4>1
      <4>3. g[n + 1] = g[n] \o ts[n + 1]
        BY <2>2, <4>1
      <4>4. (ss[1] \o g[n]) \o ts[n + 1] = ss[1] \o (g[n] \o ts[n + 1])
        <5> DEFINE x == ss[1]
                   y == g[n]
                   z == ts[n + 1]
        <5>1. x \in Seq(T) /\ y \in Seq(T) /\ z \in Seq(T)
          BY <1>1, <3>3, <4>2
        <5> HIDE DEF x, y, z
        <5>2. (x \o y) \o z = x \o (y \o z)
          BY <5>1, SMTT(60)
        <5> QED
          BY <5>2 DEF x, y, z
      <4> QED
        BY <3>2, <4>2, <4>3, <4>4
    <3> QED
      BY <3>4, <3>5
  <2> HIDE DEF S
  <2>5. \A n \in Nat : n \in S
    BY <2>3, <2>4, Induction
  <2>6. Len(ts) \in Nat /\ Len(ts) \in 1 .. Len(ts) /\ Len(ts) + 1 = Len(ss)
    BY <1>1, <1>5
  <2>7. f[Len(ss)] = ss[1] \o g[Len(ts)]
    BY <2>5, <2>6 DEF S
  <2> QED
    BY <1>1, <1>2, <2>1, <2>2, <2>6, <2>7 DEF ts
<1> QED
  BY <1>4, <1>5

\* It flattens into a sequence, into the empty one if there are only empty parts.
LEMMA FlattenEmpty ==
  ASSUME NEW T, NEW ss \in Seq(Seq(T))
  PROVE  /\ FlattenSeq(ss) \in Seq(T)
         /\ (\A n \in 1 .. Len(ss) : ss[n] = <<>>) => FlattenSeq(ss) = <<>>
<1>1. CASE ss = <<>>
  <2>1. FlattenSeq(ss) = <<>>
    BY <1>1 DEF FlattenSeq
  <2> QED
    BY <2>1
<1>2. CASE ss # <<>>
  <2>1. PICK f : Flattens(f, ss, Len(ss)) /\ FlattenSeq(ss) = f[Len(ss)]
    BY <1>2, FlattenIs
  <2>2. \A n \in 1 .. Len(ss) :
          /\ f[n] \in Seq(T)
          /\ f[n] = IF n = 1 THEN ss[n] ELSE f[n - 1] \o ss[n]
    BY <2>1, FlattenTyped
  <2>3. Len(ss) \in Nat /\ Len(ss) \in 1 .. Len(ss)
    BY <1>2
  <2>4. ASSUME \A n \in 1 .. Len(ss) : ss[n] = <<>> PROVE f[Len(ss)] = <<>>
    <3> DEFINE S == {n \in Nat : n \in 1 .. Len(ss) => f[n] = <<>>}
    <3>1. 0 \in S
      OBVIOUS
    <3>2. ASSUME NEW n \in Nat, n \in S PROVE n + 1 \in S
      <4> SUFFICES ASSUME n + 1 \in 1 .. Len(ss) PROVE f[n + 1] = <<>>
        OBVIOUS
      <4>1. CASE n = 0
        BY <2>2, <2>4, <4>1
      <4>2. CASE n # 0
        <5>1. n \in 1 .. Len(ss) /\ n + 1 # 1 /\ (n + 1) - 1 = n
          BY <4>2
        <5>2. f[n + 1] = f[n] \o ss[n + 1] /\ f[n] = <<>> /\ ss[n + 1] = <<>>
          BY <2>2, <2>4, <3>2, <5>1
        <5> QED
          BY <5>2
      <4> QED
        BY <4>1, <4>2
    <3> HIDE DEF S
    <3>3. \A n \in Nat : n \in S
      BY <3>1, <3>2, Induction
    <3> QED
      BY <2>3, <3>3 DEF S
  <2> QED
    BY <2>1, <2>2, <2>3, <2>4
<1> QED
  BY <1>1, <1>2

\* tt is ss with its part m filled, behind which there is nothing.
Fills(tt, ss, m) ==
  /\ Len(tt) = Len(ss) /\ m \in 1 .. Len(ss) /\ ss[m] = <<>>
  /\ \A k \in 1 .. Len(ss) : k < m => tt[k] = ss[k]
  /\ \A k \in 1 .. Len(ss) : k > m => ss[k] = <<>> /\ tt[k] = <<>>

\* That appends to the whole.
LEMMA FlattenPut ==
  ASSUME NEW T, NEW ss \in Seq(Seq(T)), NEW tt \in Seq(Seq(T)), NEW m, Fills(tt, ss, m)
  PROVE  FlattenSeq(tt) = FlattenSeq(ss) \o tt[m]
<1> USE DEF Fills
<1>1. Len(ss) \in Nat \ {0} /\ ss # <<>> /\ tt # <<>> /\ m \in Nat \ {0} /\ tt[m] \in Seq(T)
  OBVIOUS
<1>2. PICK f : Flattens(f, ss, Len(ss)) /\ FlattenSeq(ss) = f[Len(ss)]
  BY <1>1, FlattenIs
<1>3. PICK g : Flattens(g, tt, Len(tt)) /\ FlattenSeq(tt) = g[Len(tt)]
  BY <1>1, FlattenIs
<1>4. \A n \in 1 .. Len(ss) :
        /\ f[n] \in Seq(T)
        /\ f[n] = IF n = 1 THEN ss[n] ELSE f[n - 1] \o ss[n]
  <2>1. ss \in Seq(Seq(T)) /\ Flattens(f, ss, Len(ss))
    BY <1>2
  <2> QED
    BY ONLY <2>1, FlattenTyped
<1>5. \A n \in 1 .. Len(ss) :
        /\ g[n] \in Seq(T)
        /\ g[n] = IF n = 1 THEN tt[n] ELSE g[n - 1] \o tt[n]
  <2>1. tt \in Seq(Seq(T)) /\ Flattens(g, tt, Len(tt)) /\ Len(tt) = Len(ss)
    BY <1>3
  <2> QED
    BY ONLY <2>1, FlattenTyped
<1> DEFINE S == {n \in Nat : n \in 1 .. Len(ss) =>
                   g[n] = IF n < m THEN f[n] ELSE f[n] \o tt[m]}
<1>6. 0 \in S
  OBVIOUS
<1>7. ASSUME NEW n \in Nat, n \in S PROVE n + 1 \in S
  <2> SUFFICES ASSUME n + 1 \in 1 .. Len(ss)
               PROVE  g[n + 1] = IF n + 1 < m THEN f[n + 1] ELSE f[n + 1] \o tt[m]
    <3>1. n + 1 \in Nat
      OBVIOUS
    <3> QED
      BY <3>1, Zenon
  <2>1. CASE n = 0
    <3>1. g[n + 1] = tt[n + 1] /\ f[n + 1] = ss[n + 1]
      BY <1>4, <1>5, <2>1
    <3>2. n + 1 < m \/ n + 1 = m
      BY <1>1, <2>1
    <3>3. <<>> \o tt[m] = tt[m]
      BY <1>1, ConcatEmptySeq
    <3> QED
      BY <3>1, <3>2, <3>3
  <2>2. CASE n # 0
    <3>1. n \in 1 .. Len(ss) /\ n + 1 # 1 /\ (n + 1) - 1 = n
      BY <2>2
    <3>2. /\ g[n + 1] = g[n] \o tt[n + 1] /\ f[n + 1] = f[n] \o ss[n + 1]
          /\ f[n] \in Seq(T) /\ g[n] \in Seq(T)
          /\ g[n] = IF n < m THEN f[n] ELSE f[n] \o tt[m]
      BY <1>4, <1>5, <1>7, <3>1
    <3>3. f[n] \o <<>> = f[n] /\ g[n] \o <<>> = g[n]
      BY <3>2, ConcatEmptySeq
    <3>4. CASE n + 1 < m
      <4>1. n < m /\ tt[n + 1] = ss[n + 1]
        BY <1>1, <3>4
      <4> QED
        BY <3>2, <3>4, <4>1
    <3>5. CASE n + 1 = m
      <4>2. ss[m] = <<>> /\ n < m /\ ~(n + 1 < m)
        BY <1>1, <3>5
      <4>1. ss[n + 1] = <<>> /\ tt[n + 1] = tt[m]
        BY <3>5, <4>2
      <4> QED
        BY <3>2, <3>3, <4>1, <4>2
    <3>6. CASE n + 1 > m
      <4>1. ~(n < m) /\ ~(n + 1 < m) /\ ss[n + 1] = <<>> /\ tt[n + 1] = <<>>
        BY <1>1, <3>6
      <4> QED
        BY <3>2, <3>3, <4>1
    <3> QED
      BY <1>1, <3>4, <3>5, <3>6
  <2> QED
    BY <2>1, <2>2
<1> HIDE DEF S
<1>8. \A n \in Nat : n \in S
  BY <1>6, <1>7, Induction
<1>9. Len(ss) \in 1 .. Len(ss) /\ ~(Len(ss) < m)
  BY <1>1
<1> QED
  BY <1>1, <1>2, <1>3, <1>8, <1>9 DEF S

\* The text of a sequence of entries: that of the first, and of the others.
LEMMA TextCons ==
  /\ TextOf(<<>>) = <<>>
  /\ \A es \in Seq(Entry) :
       /\ TextOf(es) \in Seq(Cell)
       /\ es # <<>> => TextOf(es) = CellsOf(Head(es)) \o TextOf(Tail(es))
<1>1. TextOf(<<>>) = <<>>
  BY DEF TextOf, FlattenSeq
<1>2. ASSUME NEW es \in Seq(Entry), es # <<>>
      PROVE  /\ TextOf(es) \in Seq(Cell)
             /\ TextOf(es) = CellsOf(Head(es)) \o TextOf(Tail(es))
  <2> DEFINE ss == [n \in DOMAIN es |-> CellsOf(es[n])]
             ts == [n \in DOMAIN Tail(es) |-> CellsOf(Tail(es)[n])]
  <2>1. \A e \in Entry : CellsOf(e) \in Seq(Cell)
    <3> SUFFICES ASSUME NEW e \in Entry PROVE CellsOf(e) \in Seq(Cell)
      OBVIOUS
    <3>1. e[1] \in 0 .. MaxLogged /\ e[2] \in Nat
      <4>1. e[1] \in 1 .. MaxLogged /\ e[2] \in Sizes
        BY DEF Entry
      <4> QED
        <5>1. Sizes \subseteq Nat /\ 1 .. MaxLogged \subseteq 0 .. MaxLogged
          BY LogFileAssumption
        <5> QED
          BY <4>1, <5>1, Zenon
    <3>2. \A k \in 1 .. e[2] : <<e[1], k>> \in Cell
      BY <3>1 DEF Cell
    <3> QED
      BY <3>1, <3>2, SMTT(60) DEF CellsOf
  <2>2. /\ Len(es) \in Nat \ {0} /\ DOMAIN es = 1 .. Len(es)
        /\ \A n \in 1 .. Len(es) : es[n] \in Entry
        /\ Tail(es) \in Seq(Entry) /\ Len(Tail(es)) = Len(es) - 1
        /\ DOMAIN Tail(es) = 1 .. Len(es) - 1
        /\ \A n \in 1 .. Len(es) - 1 : Tail(es)[n] = es[n + 1]
        /\ Head(es) = es[1]
    BY <1>2
  <2>3. ss \in Seq(Seq(Cell)) /\ Len(ss) = Len(es)
        /\ \A n \in 1 .. Len(es) : ss[n] = CellsOf(es[n])
    BY <2>1, <2>2
  <2>4. ts \in Seq(Seq(Cell)) /\ Len(ts) = Len(es) - 1
        /\ \A n \in 1 .. Len(es) - 1 : ts[n] = CellsOf(es[n + 1])
    <3>1. \A n \in 1 .. Len(es) - 1 : Tail(es)[n] \in Entry
      BY <2>2
    <3>2. Len(es) - 1 \in Nat
      BY <2>2
    <3> QED
      BY <2>1, <2>2, <3>1, <3>2
  <2>5. TextOf(es) = FlattenSeq(ss) /\ TextOf(Tail(es)) = FlattenSeq(ts)
    BY DEF TextOf
  <2> HIDE DEF ss, ts
  <2>6. ss # <<>> /\ Head(ss) = CellsOf(Head(es))
    BY <2>2, <2>3
  <2>7. Tail(ss) = ts
    <3>1. Tail(ss) \in Seq(Seq(Cell)) /\ Len(Tail(ss)) = Len(ts)
      BY <2>2, <2>3, <2>4, <2>6
    <3>2. ASSUME NEW n \in 1 .. Len(Tail(ss)) PROVE Tail(ss)[n] = ts[n]
      <4>1. n \in 1 .. Len(es) - 1 /\ n + 1 \in 1 .. Len(es)
        BY <2>2, <2>4, <3>1
      <4>2. Tail(ss)[n] = ss[n + 1]
        BY <2>3, <2>6, HeadTailProperties
      <4> QED
        BY <2>3, <2>4, <4>1, <4>2
    <3> QED
      BY <2>4, <3>1, <3>2, SeqEqual
  <2>8. FlattenSeq(ts) \in Seq(Cell) /\ FlattenSeq(ss) = Head(ss) \o FlattenSeq(ts)
    BY <2>3, <2>6, <2>7, FlattenCons
  <2>9. Head(ss) \in Seq(Cell)
    BY <2>3, <2>6
  <2> QED
    BY <2>5, <2>6, <2>8, <2>9, ConcatProperties
<1>3. <<>> \in Seq(Cell)
  OBVIOUS
<1> QED
  BY <1>1, <1>2, <1>3

-----------------------------------------------------------------------------
(***************************************************************************)
(* What left the ring buffers.                                             *)
(***************************************************************************)

\* What left a ring buffer that got s and still holds p.
Left(s, p) == SubSeq(s, 1, Len(s) - Len(p))

\* A registry holds one ring buffer in each slot.
Registry(sl) ==
  /\ sl \in Seq(SUBSET Buffers)
  /\ \A n \in 1 .. Len(sl) : \E b \in Buffers : sl[n] = {b}

\* The text of what left each of its ring buffers.
PartsOf(sl, st, pd) ==
  [n \in DOMAIN sl |->
     TextOf(Left(st[CHOOSE b \in sl[n] : TRUE], pd[CHOOSE b \in sl[n] : TRUE]))]

\* What these parts are.
Parts(P, sl, st, pd) ==
  /\ P \in Seq(Seq(Cell)) /\ FlattenSeq(P) \in Seq(Cell)
  /\ Len(P) = Len(sl) /\ Len(sl) \in Nat
  /\ \A n \in 1 .. Len(sl) : \A b \in sl[n] : P[n] = TextOf(Left(st[b], pd[b]))

\* Nothing left a ring buffer that holds all it got, and all one that holds nothing.
LEMMA LeftFacts ==
  ASSUME NEW s \in Seq(Entry), NEW p \in Seq(Entry)
  PROVE  /\ Left(s, p) \in Seq(Entry)
         /\ s = p => Left(s, p) = <<>>
         /\ p = <<>> => Left(s, p) = s
<1> DEFINE n == Len(s) - Len(p)
<1>1. Len(s) \in Nat /\ Len(p) \in Nat /\ n \in Int /\ n <= Len(s)
  OBVIOUS
<1>2. Left(s, p) = [k \in 1 .. n |-> s[k]]
  <2>1. Left(s, p) = [k \in 1 .. (1 + n) - 1 |-> s[(1 + k) - 1]]
    BY SMTT(60) DEF Left
  <2>2. (1 + n) - 1 = n /\ \A k \in 1 .. n : (1 + k) - 1 = k
    BY <1>1
  <2> HIDE DEF n
  <2> QED
    BY <2>1, <2>2
<1>3. ASSUME n >= 0 PROVE Left(s, p) \in Seq(Entry) /\ Len(Left(s, p)) = n
  <2>1. n \in Nat /\ \A k \in 1 .. n : s[k] \in Entry
    BY <1>1, <1>3
  <2> QED
    BY <1>2, <2>1
<1>4. ASSUME n <= 0 PROVE Left(s, p) = <<>>
  <2> HIDE DEF n
  <2>1. [k \in 1 .. n |-> s[k]] = <<>>
    BY <1>1, <1>4
  <2> QED
    BY <1>2, <2>1
<1>5. ASSUME p = <<>> PROVE Left(s, p) = s
  <2>1. n = Len(s)
    BY <1>1, <1>5
  <2>2. s = [k \in 1 .. Len(s) |-> s[k]]
    OBVIOUS
  <2> HIDE DEF n
  <2> QED
    BY <1>2, <2>1, <2>2
<1>6. (s = p => n = 0) /\ (n >= 0 \/ n <= 0) /\ <<>> \in Seq(Entry)
  BY <1>1
<1> HIDE DEF n
<1> QED
  BY <1>3, <1>4, <1>5, <1>6

\* Logging leaves alone what left a ring buffer.
LEMMA LeftLogged ==
  ASSUME NEW s \in Seq(Entry), NEW p \in Seq(Entry)
  PROVE  Left(s \o p, p) = s
<1> DEFINE t == s \o p
<1>1. /\ t \in Seq(Entry) /\ Len(s) \in Nat /\ Len(p) \in Nat
      /\ Len(t) = Len(s) + Len(p)
      /\ \A k \in 1 .. Len(s) : t[k] = s[k]
  OBVIOUS
<1> HIDE DEF t
<1>2. Len(t) - Len(p) = Len(s)
  BY <1>1
<1>3. SubSeq(t, 1, Len(s)) = s
  BY <1>1
<1> QED
  BY <1>2, <1>3 DEF Left, t

\* The parts are texts.
LEMMA PartsTyped ==
  ASSUME NEW sl, Registry(sl), NEW st \in [Buffers -> Seq(Entry)],
         NEW pd \in [Buffers -> Seq(Entry)]
  PROVE  Parts(PartsOf(sl, st, pd), sl, st, pd)
<1> DEFINE P == PartsOf(sl, st, pd)
<1>1. DOMAIN sl = 1 .. Len(sl) /\ Len(sl) \in Nat
  BY DEF Registry
<1>2. ASSUME NEW n \in 1 .. Len(sl), NEW b \in sl[n]
      PROVE  P[n] = TextOf(Left(st[b], pd[b])) /\ P[n] \in Seq(Cell)
  <2>1. sl[n] = {b} /\ b \in Buffers
    BY DEF Registry
  <2>2. (CHOOSE c \in sl[n] : TRUE) = b
    BY <2>1
  <2>3. P[n] = TextOf(Left(st[b], pd[b]))
    BY <1>1, <2>2 DEF PartsOf
  <2>4. Left(st[b], pd[b]) \in Seq(Entry)
    BY <2>1, LeftFacts
  <2> QED
    BY <2>3, <2>4, TextCons
<1>3. \A n \in 1 .. Len(sl) : P[n] \in Seq(Cell)
  BY <1>2 DEF Registry
<1>4. DOMAIN P = 1 .. Len(sl)
  BY <1>1 DEF PartsOf
<1>5. P = [n \in 1 .. Len(sl) |-> P[n]]
  BY <1>4 DEF PartsOf
<1> HIDE DEF P
<1>6. P \in Seq(Seq(Cell)) /\ Len(P) = Len(sl)
  BY <1>1, <1>3, <1>5
<1>7. FlattenSeq(P) \in Seq(Cell)
  BY <1>6, FlattenEmpty
<1> QED
  BY <1>1, <1>2, <1>6, <1>7 DEF P, Parts

\* The same left each ring buffer: the text is the same.
LEMMA DrainedKept ==
  ASSUME Registry(slots), slots' = slots,
         stream \in [Buffers -> Seq(Entry)], stream' \in [Buffers -> Seq(Entry)],
         pending \in [Buffers -> Seq(Entry)], pending' \in [Buffers -> Seq(Entry)],
         \A n \in 1 .. Len(slots) : \A b \in slots[n] :
           Left(stream'[b], pending'[b]) = Left(stream[b], pending[b])
  PROVE  DrainedText' = DrainedText
<1>p. PICK P : P = PartsOf(slots, stream, pending)
  OBVIOUS
<1>n. PICK st, pd : st = stream' /\ pd = pending'
  OBVIOUS
<1>q. PICK Q : Q = PartsOf(slots, st, pd)
  OBVIOUS
<1>1. Parts(P, slots, stream, pending)
  BY <1>p, PartsTyped
<1>2. Parts(Q, slots, st, pd)
  <2>1. st \in [Buffers -> Seq(Entry)] /\ pd \in [Buffers -> Seq(Entry)]
    BY <1>n
  <2> QED
    BY <1>q, <2>1, PartsTyped
<1>3. DrainedText = FlattenSeq(P) /\ DrainedText' = FlattenSeq(Q)
  BY <1>p, <1>n, <1>q DEF DrainedText, Drained, PartsOf, Left
<1>4. ASSUME NEW n \in 1 .. Len(slots) PROVE P[n] = Q[n]
  <2>1. PICK b \in Buffers : slots[n] = {b}
    BY DEF Registry
  <2>2. P[n] = TextOf(Left(stream[b], pending[b]))
    BY <1>1, <2>1 DEF Parts
  <2>3. Q[n] = TextOf(Left(st[b], pd[b]))
    BY <1>2, <2>1 DEF Parts
  <2>4. Left(st[b], pd[b]) = Left(stream[b], pending[b])
    BY <1>n, <2>1
  <2> QED
    BY <2>2, <2>3, <2>4
<1>5. P = Q
  BY <1>1, <1>2, <1>4, SeqEqual DEF Parts
<1> QED
  BY <1>3, <1>5

\* The ring buffer of slot m is emptied, and nothing left those behind it: its text
\* is appended.
LEMMA DrainedMore ==
  ASSUME Registry(slots), slots' = slots, stream' = stream,
         stream \in [Buffers -> Seq(Entry)], pending \in [Buffers -> Seq(Entry)],
         \A k, n \in 1 .. Len(slots) : slots[k] = slots[n] => k = n,
         NEW m \in 1 .. Len(slots), NEW b \in Buffers, slots[m] = {b},
         pending' = [pending EXCEPT ![b] = <<>>],
         \A n \in 1 .. Len(slots) : \A c \in slots[n] : n >= m => stream[c] = pending[c]
  PROVE  DrainedText' = DrainedText \o TextOf(pending[b])
<1>p. PICK P : P = PartsOf(slots, stream, pending)
  OBVIOUS
<1>n. PICK pd : pd = pending'
  OBVIOUS
<1>q. PICK Q : Q = PartsOf(slots, stream, pd)
  OBVIOUS
<1>1. /\ <<>> \in Seq(Entry) /\ pd \in [Buffers -> Seq(Entry)] /\ pd[b] = <<>>
      /\ \A c \in Buffers : c # b => pd[c] = pending[c]
  BY <1>n
<1>2. Parts(P, slots, stream, pending)
  BY <1>p, PartsTyped
<1>3. Parts(Q, slots, stream, pd)
  BY <1>1, <1>q, PartsTyped
<1>4. DrainedText = FlattenSeq(P) /\ DrainedText' = FlattenSeq(Q)
  BY <1>p, <1>n, <1>q DEF DrainedText, Drained, PartsOf, Left
<1>5. ASSUME NEW n \in 1 .. Len(slots), n >= m PROVE P[n] = <<>>
  <2>1. PICK c \in Buffers : slots[n] = {c}
    BY DEF Registry
  <2>2. stream[c] = pending[c] /\ P[n] = TextOf(Left(stream[c], pending[c]))
    BY <1>2, <1>5, <2>1 DEF Parts
  <2>3. Left(stream[c], pending[c]) = <<>>
    BY <2>2, LeftFacts
  <2> QED
    BY <2>2, <2>3, TextCons
<1>6. ASSUME NEW n \in 1 .. Len(slots), n # m PROVE Q[n] = P[n]
  <2>1. PICK c \in Buffers : slots[n] = {c}
    BY DEF Registry
  <2>2. c # b
    BY <1>6, <2>1
  <2>3. pd[c] = pending[c]
    BY <1>1, <2>2
  <2>4. c \in slots[n]
    BY <2>1
  <2>5. Q[n] = TextOf(Left(stream[c], pd[c]))
    BY <1>3, <2>4 DEF Parts
  <2>6. P[n] = TextOf(Left(stream[c], pending[c]))
    BY <1>2, <2>4 DEF Parts
  <2> QED
    BY <2>3, <2>5, <2>6
<1>7. Q[m] = TextOf(pending[b])
  <2>1. Q[m] = TextOf(Left(stream[b], pd[b])) /\ stream[b] = pending[b]
    BY <1>3 DEF Parts
  <2>2. Left(stream[b], pd[b]) = stream[b]
    BY <1>1, <2>1, LeftFacts
  <2> QED
    BY <2>1, <2>2
<1>8. /\ P[m] = <<>>
      /\ \A k \in 1 .. Len(P) : k < m => Q[k] = P[k]
      /\ \A k \in 1 .. Len(P) : k > m => P[k] = <<>> /\ Q[k] = <<>>
  BY <1>2, <1>5, <1>6 DEF Parts
<1>9. FlattenSeq(Q) = FlattenSeq(P) \o Q[m]
  <2>1. Fills(Q, P, m)
    BY <1>2, <1>3, <1>8 DEF Parts, Fills
  <2>2. P \in Seq(Seq(Cell)) /\ Q \in Seq(Seq(Cell))
    BY <1>2, <1>3 DEF Parts
  <2> QED
    BY ONLY <2>1, <2>2, FlattenPut
<1> QED
  BY <1>4, <1>7, <1>9

-----------------------------------------------------------------------------
(***************************************************************************)
(* What an undisturbed reader gets.                                        *)
(***************************************************************************)

\* The text that was taken is, in this order: what a force clear dropped, what
\* the log holds, what is still to be appended.
Kept(tk, used, d, rest) ==
  LET dropped == Len(tk) - (used + Len(rest))
  IN  /\ dropped >= 0
      /\ \A k \in 1 .. used : d[k] = tk[dropped + k]
      /\ \A k \in 1 .. Len(rest) : tk[(dropped + used) + k] = rest[k]
      /\ used > 0 => d[1][2] = 1
      /\ Len(tk) <= Capacity => dropped = 0

\* Taking a ring buffer's entries adds them to what is still to come.
LEMMA KeptTake ==
  ASSUME NEW tk \in Seq(Cell), NEW u \in Nat, NEW d, Kept(tk, u, d, <<>>),
         NEW rest \in Seq(Cell)
  PROVE  Kept(tk \o rest, u, d, rest)
<1> DEFINE D == Len(tk) - u
<1>1. /\ Len(tk) \in Nat /\ Len(rest) \in Nat /\ Len(tk \o rest) = Len(tk) + Len(rest)
      /\ \A k \in 1 .. Len(tk) : (tk \o rest)[k] = tk[k]
      /\ \A k \in 1 .. Len(rest) : (tk \o rest)[Len(tk) + k] = rest[k]
  OBVIOUS
<1>2. Len(tk) - (u + Len(<<>>)) = D /\ D \in Int
  BY <1>1
<1>3. Len(tk \o rest) - (u + Len(rest)) = D
  BY <1>1
<1>4. D >= 0 /\ D + u = Len(tk) /\ \A k \in 1 .. u : D + k \in 1 .. Len(tk)
  BY <1>1, <1>2 DEF Kept
<1> HIDE DEF D
<1>5. /\ \A k \in 1 .. u : d[k] = tk[D + k]
      /\ u > 0 => d[1][2] = 1
      /\ Len(tk) <= Capacity => D = 0
  BY <1>2 DEF Kept
<1>6. \A k \in 1 .. u : d[k] = (tk \o rest)[D + k]
  BY <1>1, <1>4, <1>5
<1>7. \A k \in 1 .. Len(rest) : (tk \o rest)[(D + u) + k] = rest[k]
  BY <1>1, <1>4
<1>8. Len(tk \o rest) <= Capacity => D = 0
  BY <1>1, <1>5, LogFileAssumption
<1> QED
  BY <1>3, <1>4, <1>5, <1>6, <1>7, <1>8 DEF Kept

\* A force clear, and refusing a text larger than the log, drop from the front; the
\* text that was taken does not fit then.
LEMMA KeptDrop ==
  ASSUME NEW tk \in Seq(Cell), NEW u \in Nat, NEW d,
         NEW c \in Seq(Cell), NEW rest \in Seq(Cell),
         Kept(tk, u, d, c \o rest), u + Len(c) > Capacity
  PROVE  /\ Kept(tk, 0, d, c \o rest)
         /\ Kept(tk, 0, d, rest)
<1> DEFINE all == c \o rest
           D == Len(tk) - (u + Len(all))
<1>1. /\ Len(tk) \in Nat /\ Len(c) \in Nat /\ Len(rest) \in Nat
      /\ Len(all) = Len(c) + Len(rest)
      /\ \A k \in 1 .. Len(rest) : all[Len(c) + k] = rest[k]
  OBVIOUS
<1> HIDE DEF all
<1>2. /\ D >= 0 /\ D \in Nat /\ D + (u + Len(all)) = Len(tk)
      /\ \A k \in 1 .. Len(all) : tk[(D + u) + k] = all[k]
  BY <1>1 DEF Kept, all
<1> HIDE DEF D
<1>3. Len(tk) > Capacity
  BY <1>1, <1>2, LogFileAssumption
<1>4. Kept(tk, 0, d, all)
  <2>1. Len(tk) - (0 + Len(all)) = D + u
    BY <1>1, <1>2
  <2>2. \A k \in 1 .. Len(all) : tk[((D + u) + 0) + k] = all[k]
    BY <1>2
  <2>3. D + u >= 0
    BY <1>2
  <2> QED
    BY <1>1, <1>3, <2>1, <2>2, <2>3, LogFileAssumption DEF Kept
<1>5. Kept(tk, 0, d, rest)
  <2> DEFINE E == (D + u) + Len(c)
  <2>1. Len(tk) - (0 + Len(rest)) = E /\ E \in Nat
    BY <1>1, <1>2
  <2>2. ASSUME NEW k \in 1 .. Len(rest) PROVE tk[(E + 0) + k] = rest[k]
    <3>1. Len(c) + k \in 1 .. Len(all) /\ (E + 0) + k = (D + u) + (Len(c) + k)
      BY <1>1, <1>2
    <3> QED
      BY <1>1, <1>2, <3>1
  <2>3. E >= 0 /\ ~(Len(tk) <= Capacity)
    BY <1>1, <1>2, <1>3, LogFileAssumption
  <2> HIDE DEF E
  <2>4. /\ \A k \in 1 .. 0 : d[k] = tk[E + k]
        /\ ~(0 > 0)
    OBVIOUS
  <2> QED
    BY <2>1, <2>2, <2>3, <2>4, Zenon DEF Kept
<1> QED
  BY <1>4, <1>5 DEF all

\* Writing behind the text leaves it as it is.
LEMMA KeptWrite ==
  ASSUME NEW tk, NEW u \in Nat, NEW d, NEW e, NEW rest, Kept(tk, u, d, rest),
         \A k \in 1 .. u : e[k] = d[k]
  PROVE  Kept(tk, u, e, rest)
BY DEF Kept

\* The next entry becomes part of the text.
LEMMA KeptAdd ==
  ASSUME NEW tk \in Seq(Cell), NEW u \in Nat, NEW d,
         NEW c \in Seq(Cell), NEW rest \in Seq(Cell),
         Kept(tk, u, d, c \o rest), \A k \in 1 .. Len(c) : d[u + k] = c[k],
         Len(c) > 0, c[1][2] = 1
  PROVE  Kept(tk, u + Len(c), d, rest)
<1> DEFINE all == c \o rest
           D == Len(tk) - (u + Len(all))
<1>1. /\ Len(tk) \in Nat /\ Len(c) \in Nat /\ Len(rest) \in Nat
      /\ Len(all) = Len(c) + Len(rest)
      /\ \A k \in 1 .. Len(c) : all[k] = c[k]
      /\ \A k \in 1 .. Len(rest) : all[Len(c) + k] = rest[k]
  OBVIOUS
<1> HIDE DEF all
<1>2. /\ D >= 0 /\ D \in Nat /\ D + (u + Len(all)) = Len(tk)
      /\ \A k \in 1 .. u : d[k] = tk[D + k]
      /\ \A k \in 1 .. Len(all) : tk[(D + u) + k] = all[k]
      /\ u > 0 => d[1][2] = 1
      /\ Len(tk) <= Capacity => D = 0
  BY <1>1 DEF Kept, all
<1> HIDE DEF D
<1>3. Len(tk) - ((u + Len(c)) + Len(rest)) = D
  BY <1>1, <1>2
<1>4. ASSUME NEW k \in 1 .. u + Len(c) PROVE d[k] = tk[D + k]
  <2>1. CASE k <= u
    BY <1>2, <2>1
  <2>2. CASE k > u
    <3>1. /\ k - u \in 1 .. Len(c) /\ k - u \in 1 .. Len(all)
          /\ u + (k - u) = k /\ (D + u) + (k - u) = D + k
      BY <1>1, <1>2, <2>2
    <3>2. d[k] = c[k - u]
      BY <3>1
    <3> QED
      BY <1>1, <1>2, <3>1, <3>2
  <2> QED
    BY <1>1, <2>1, <2>2
<1>5. ASSUME NEW k \in 1 .. Len(rest) PROVE tk[(D + (u + Len(c))) + k] = rest[k]
  <2>1. Len(c) + k \in 1 .. Len(all) /\ (D + (u + Len(c))) + k = (D + u) + (Len(c) + k)
    BY <1>1, <1>2
  <2> QED
    BY <1>1, <1>2, <2>1
<1>6. d[1][2] = 1
  <2>1. u = 0 => d[1] = c[1]
    <3>1. 1 \in 1 .. Len(c)
      BY <1>1
    <3> QED
      BY <3>1
  <2> QED
    BY <1>2, <2>1
<1> QED
  BY <1>1, <1>2, <1>3, <1>4, <1>5, <1>6 DEF Kept

\* Who is alone.  The reader within a read that empties the ring buffers is.
AloneInv ==
  /\ \A r \in alone : r \in Readers /\ alone = {r}
  /\ \A r \in Readers : rpc[r] \notin {"idle", "user"} => r \in alone
  /\ \A r \in Readers : rpc[r] \notin {"output", "memcpy", "add"} => copy[r] = <<>>
  /\ alone # {} => log_file \/ cpc = "wait"

\* Nothing is drained yet; and the text is one.
LEMMA DrainedTyped ==
  ASSUME Registry(slots), stream \in [Buffers -> Seq(Entry)],
         pending \in [Buffers -> Seq(Entry)]
  PROVE  /\ DrainedText \in Seq(Cell)
         /\ (\A n \in 1 .. Len(slots) : \A b \in slots[n] : stream[b] = pending[b])
              => DrainedText = <<>>
<1>1. PICK P : P = PartsOf(slots, stream, pending)
  OBVIOUS
<1>2. Parts(P, slots, stream, pending)
  BY <1>1, PartsTyped
<1>3. DrainedText = FlattenSeq(P)
  BY <1>1 DEF DrainedText, Drained, PartsOf, Left
<1>4. ASSUME \A n \in 1 .. Len(slots) : \A b \in slots[n] : stream[b] = pending[b],
             NEW n \in 1 .. Len(slots)
      PROVE  P[n] = <<>>
  <2>1. PICK b \in Buffers : slots[n] = {b}
    BY DEF Registry
  <2>2. stream[b] = pending[b] /\ P[n] = TextOf(Left(stream[b], pending[b]))
    BY <1>2, <1>4, <2>1 DEF Parts
  <2>3. Left(stream[b], pending[b]) = <<>>
    BY <2>2, LeftFacts
  <2> QED
    BY <2>2, <2>3, TextCons
<1>5. P \in Seq(Seq(Cell)) /\ Len(P) = Len(slots) /\ FlattenSeq(P) \in Seq(Cell)
  BY <1>2 DEF Parts
<1>6. (\A n \in 1 .. Len(P) : P[n] = <<>>) => FlattenSeq(P) = <<>>
  BY <1>5, FlattenEmpty
<1> QED
  BY <1>3, <1>4, <1>5, <1>6

\* How many ring buffers of the registry a reader is done with.
Done(r) ==
  IF rpc[r] = "clear" THEN 0
  ELSE IF rpc[r] \in {"walk", "take"} THEN i[r]
  ELSE IF rpc[r] \in {"output", "memcpy", "add"} THEN i[r] + 1
  ELSE Len(slots)

\* The ring buffers that were registered are open as long as the file exists, and
\* no two of them are the same.
SlotInv ==
  /\ Registry(slots)
  /\ alone = {} => slots = <<>>
  /\ \A n \in 1 .. Len(slots) : \A b \in slots[n] : ring[b] = "open"
  /\ \A m, n \in 1 .. Len(slots) : slots[m] = slots[n] => m = n

StreamInv == stream \in [Buffers -> Seq(Entry)] /\ mark \in 0 .. logged

\* The reader walks through them one by one.
WalkedInv ==
  \A r \in alone :
    /\ rpc[r] \notin {"idle", "user"} => slots = SubSeq(buffers, 1, count)
    /\ rpc[r] \in {"take", "output", "memcpy", "add"} => i[r] < Len(slots)
    /\ rpc[r] = "take" => rbuf[r] = slots[i[r] + 1]

\* Nothing has left those that it has not come to; those that it is done with, and
\* could copy, hold only what was logged since it started.
HandedInv ==
  \A r \in alone : \A n \in 1 .. Len(slots) : \A b \in slots[n] :
    IF n > Done(r) THEN stream[b] = pending[b]
    ELSE b \notin failed => \A k \in DOMAIN pending[b] : pending[b][k][1] > mark

HeldInv == SlotInv /\ StreamInv /\ WalkedInv /\ HandedInv

\* Nobody has read before the first policy is started.
LEMMA InitHeldInv == Init => HeldInv
<1> SUFFICES ASSUME Init PROVE HeldInv
  OBVIOUS
<1>1. /\ alone = {} /\ slots = <<>> /\ mark = 0 /\ logged = 0
      /\ stream = [b \in Buffers |-> <<>>]
  BY DEF Init
<1>2. /\ <<>> \in Seq(Entry) /\ Len(slots) = 0 /\ slots \in Seq(SUBSET Buffers)
      /\ 1 .. 0 = {}
  BY <1>1
<1> QED
  BY <1>1, <1>2 DEF HeldInv, SlotInv, StreamInv, WalkedInv, HandedInv, Registry

\* Every step preserves HeldInv, as long as nothing overlaps a call.
LEMMA StepHeldInv ==
  ASSUME Overlaps = {}
  PROVE  IInv /\ AloneInv /\ HeldInv /\ [Next]_vars => HeldInv'
<1> SUFFICES ASSUME IInv, AloneInv, HeldInv, [Next]_vars PROVE HeldInv'
  OBVIOUS
<1> USE LogFileAssumption
<1>a. /\ FileTypeOK /\ CallbackTypeOK /\ ReaderTypeOK /\ PhaseInv /\ RegistryInv /\ UniqueInv
      /\ SlotInv /\ StreamInv /\ WalkedInv /\ HandedInv
  BY DEF IInv, TypeOK, HeldInv
<1>b. Len(slots) \in Nat /\ \A r \in Readers : i[r] \in Nat
  BY <1>a DEF SlotInv, Registry, ReaderTypeOK
<1>c. \A r \in Readers : rpc[r] # "idle" => cpc = "idle" /\ log_file
  BY DEF IInv, QuietInv, InCall
<1>d. CallbackMayRun => \A r \in Readers : rpc[r] = "idle"
  BY DEF CallbackMayRun, InCall
<1>e. \A r \in Readers : rpc[r] \notin {"idle", "user"} => alone = {r}
  BY DEF AloneInv
<1>f. \A r \in alone : r \in Readers
  BY DEF AloneInv
<1>g. ASSUME UNCHANGED <<alone, mark, slots, stream, pending, logged, ring, buffers, count>>,
             failed' = failed \/ \E r \in alone : failed' = failed \union rbuf[r],
             WalkedInv',
             \A r \in alone : \A n \in 1 .. Len(slots) : \A b \in slots[n] :
               IF n > Done(r)' THEN n > Done(r) ELSE n > Done(r) => b \in failed'
      PROVE  HeldInv'
  <2>1. SlotInv' /\ StreamInv'
    BY <1>a, <1>g DEF SlotInv, StreamInv
  <2>2. HandedInv'
    <3> SUFFICES ASSUME NEW r \in alone, NEW n \in 1 .. Len(slots), NEW b \in slots[n]
                 PROVE  IF n > Done(r)' THEN stream[b] = pending[b]
                        ELSE b \notin failed' =>
                               \A k \in DOMAIN pending[b] : pending[b][k][1] > mark
      BY <1>g DEF HandedInv
    <3> QED
      BY <1>a, <1>g DEF HandedInv
  <2> QED
    BY <1>g, <2>1, <2>2 DEF HeldInv
<1>h. ASSUME UNCHANGED <<alone, mark, slots, stream, failed, logged, rpc, i>>,
             \A r \in Readers : rpc[r] = "idle",
             \A n \in 1 .. Len(slots) : \A b \in slots[n] :
               pending'[b] = pending[b] /\ ring'[b] = "open"
      PROVE  HeldInv'
  <2>1. SlotInv' /\ StreamInv'
    BY <1>a, <1>h DEF SlotInv, StreamInv
  <2>2. WalkedInv'
    BY <1>f, <1>h DEF WalkedInv
  <2>3. \A r \in alone : Done(r) = Len(slots) /\ Done(r)' = Len(slots)
    BY <1>f, <1>h DEF Done
  <2>4. HandedInv'
    BY <1>a, <1>h, <2>3 DEF HandedInv
  <2> QED
    BY <2>1, <2>2, <2>4 DEF HeldInv
<1>1. ASSUME NEW r \in Readers, ReadCall(r) PROVE HeldInv'
  <2>1. /\ rpc[r] = "idle" /\ cpc = "idle" /\ \A s \in Readers : rpc[s] = "idle"
        /\ UNCHANGED <<buffers, count, ring, pending, logged, i, rbuf>>
    BY <1>1 DEF ReadCall, InCall, Goto, registry, core
  <2>2. CASE StartsAnew(r)
    <3>1. /\ alone' = {r} /\ mark' = logged /\ slots' = SubSeq(buffers, 1, count)
          /\ stream' = pending /\ failed' = {} /\ rpc' = [rpc EXCEPT ![r] = "clear"]
      BY <1>1, <2>2 DEF ReadCall, Goto, StartsAnew
    <3>2. /\ slots' \in Seq(SUBSET Buffers) /\ Len(slots') = count
          /\ \A n \in 1 .. count : slots'[n] = buffers[n]
      <4>1. buffers \in Seq(SUBSET Buffers) /\ Len(buffers) = MaxCount
        BY <1>a DEF FileTypeOK
      <4>2. count \in Nat /\ count <= Len(buffers)
        BY <1>a, <4>1 DEF FileTypeOK
      <4> QED
        BY <3>1, <4>1, <4>2
    <3>3. SlotInv'
      <4>1. \A n \in 1 .. count : \E b \in Buffers : buffers[n] = {b} /\ ring[b] = "open"
        BY <1>a, <2>1 DEF RegistryInv
      <4>2. \A m, n \in 1 .. count : buffers[m] = buffers[n] => m = n
        BY <1>a, <2>1 DEF UniqueInv
      <4>3. Registry(slots')
        BY <3>2, <4>1 DEF Registry
      <4>4. \A n \in 1 .. count : \A b \in slots'[n] : ring'[b] = "open"
        BY <2>1, <3>2, <4>1
      <4> QED
        BY <3>1, <3>2, <4>2, <4>3, <4>4 DEF SlotInv, Registry
    <3>4. StreamInv'
      BY <1>a, <2>1, <3>1 DEF StreamInv, CallbackTypeOK
    <3>5. rpc'[r] = "clear" /\ Done(r)' = 0
      BY <1>a, <3>1 DEF Done, ReaderTypeOK
    <3>6. WalkedInv'
      BY <2>1, <3>1, <3>5 DEF WalkedInv
    <3>7. HandedInv'
      BY <2>1, <3>1, <3>5 DEF HandedInv
    <3> QED
      BY <3>3, <3>4, <3>6, <3>7 DEF HeldInv
  <2>3. CASE ~StartsAnew(r)
    <3>1. /\ UNCHANGED <<alone, mark, slots, stream, failed>>
          /\ rpc' = [rpc EXCEPT ![r] = "user"]
      BY <1>1, <2>3 DEF ReadCall, Goto, StartsAnew, history
    <3>2. \A s \in alone : rpc'[s] \in {"idle", "user"} /\ rpc[s] \in {"idle", "user"}
      BY <1>a, <1>f, <2>1, <3>1 DEF ReaderTypeOK
    <3>3. WalkedInv'
      BY <3>1, <3>2 DEF WalkedInv
    <3>4. \A s \in alone : Done(s)' = Done(s)
      BY <3>1, <3>2 DEF Done
    <3> QED
      BY <1>g, <2>1, <3>1, <3>3, <3>4
  <2> QED
    BY <2>2, <2>3
<1>2. ASSUME NEW r \in Readers,
             ClearLog(r) \/ ReadWalk(r) \/ TakeFails(r) \/ AppendCheck(r)
             \/ AppendMemcpy(r) \/ AppendAdd(r) \/ NextBuffer(r)
      PROVE  HeldInv'
  <2>1. /\ UNCHANGED <<alone, mark, slots, stream, pending, logged, ring, buffers, count>>
        /\ rpc[r] \notin {"idle", "user"}
    BY <1>2 DEF ClearLog, ReadWalk, TakeFails, AppendCheck, AppendMemcpy, AppendAdd,
       NextBuffer, NoteFailure, Goto, history, registry, core
  <2>2. alone = {r} /\ rpc[r] \in {"clear", "walk", "take", "output", "memcpy", "add"}
    BY <1>a, <1>e, <2>1 DEF ReaderTypeOK
  <2>3. /\ slots = SubSeq(buffers, 1, count)
        /\ rpc[r] \in {"take", "output", "memcpy", "add"} => i[r] < Len(slots)
        /\ rpc[r] = "take" => rbuf[r] = slots[i[r] + 1]
    BY <1>a, <2>1, <2>2 DEF WalkedInv
  <2>4. Len(slots) = count /\ \A n \in 1 .. count : slots[n] = buffers[n]
    <3>1. buffers \in Seq(SUBSET Buffers) /\ Len(buffers) = MaxCount
      BY <1>a DEF FileTypeOK
    <3>2. count \in Nat /\ count <= Len(buffers)
      BY <1>a, <3>1 DEF FileTypeOK
    <3> QED
      BY <2>3, <3>1, <3>2
  <2>5. ASSUME failed' = failed,
               rpc'[r] \in {"walk", "take", "output", "memcpy", "add", "user"},
               rpc'[r] \in {"take", "output", "memcpy", "add"} => i'[r] < Len(slots),
               rpc'[r] = "take" => rbuf'[r] = slots[i'[r] + 1],
               \A n \in 1 .. Len(slots) : n > Done(r)' <=> n > Done(r)
        PROVE  HeldInv'
    <3>1. WalkedInv'
      BY <2>1, <2>2, <2>3, <2>5 DEF WalkedInv
    <3> QED
      BY <1>g, <2>1, <2>2, <2>5, <3>1
  <2>6. CASE ClearLog(r)
    <3>1. rpc[r] = "clear" /\ rpc'[r] = "walk" /\ i'[r] = 0 /\ failed' = failed
      BY <1>a, <2>6 DEF ClearLog, Goto, history, ReaderTypeOK
    <3>2. Done(r)' = 0 /\ Done(r) = 0
      BY <3>1 DEF Done
    <3> QED
      BY <2>5, <3>1, <3>2
  <2>7. CASE ReadWalk(r)
    <3>1. rpc[r] = "walk" /\ i' = i /\ failed' = failed
      BY <2>7 DEF ReadWalk, Goto, history
    <3>2. CASE i[r] < count /\ rpc' = [rpc EXCEPT ![r] = "take"]
               /\ rbuf' = [rbuf EXCEPT ![r] = buffers[i[r] + 1]]
      <4>1. rpc'[r] = "take" /\ rbuf'[r] = buffers[i[r] + 1]
        BY <1>a, <3>2 DEF ReaderTypeOK
      <4>2. i[r] + 1 \in 1 .. count
        BY <1>a, <1>b, <3>2 DEF FileTypeOK
      <4>3. Done(r)' = i[r] /\ Done(r) = i[r]
        BY <3>1, <4>1 DEF Done
      <4> QED
        BY <2>4, <2>5, <3>1, <3>2, <4>1, <4>2, <4>3
    <3>3. CASE i[r] >= count /\ rpc' = [rpc EXCEPT ![r] = "user"]
      <4>1. rpc'[r] = "user"
        BY <1>a, <3>3 DEF ReaderTypeOK
      <4>2. Done(r)' = Len(slots) /\ Done(r) = i[r]
        BY <2>1, <3>1, <4>1 DEF Done
      <4>3. \A n \in 1 .. Len(slots) : ~(n > Len(slots)) /\ ~(n > i[r])
        BY <1>b, <2>4, <3>3
      <4> QED
        BY <2>5, <3>1, <4>1, <4>2, <4>3
    <3> QED
      BY <2>7, <3>2, <3>3 DEF ReadWalk, Goto
  <2>8. CASE TakeFails(r)
    <3>1. /\ rpc[r] = "take" /\ rpc'[r] = "walk" /\ i'[r] = i[r] + 1
          /\ failed' = failed \union rbuf[r]
      BY <1>a, <2>2, <2>8 DEF TakeFails, NoteFailure, Goto, ReaderTypeOK
    <3>2. Done(r)' = i[r] + 1 /\ Done(r) = i[r]
      BY <3>1 DEF Done
    <3>3. WalkedInv'
      BY <2>1, <2>2, <2>3, <3>1 DEF WalkedInv
    <3>4. ASSUME NEW n \in 1 .. Len(slots), NEW b \in slots[n], n > Done(r), ~(n > Done(r)')
          PROVE  b \in failed'
      <4>1. n = i[r] + 1
        BY <1>b, <3>2, <3>4
      <4> QED
        BY <2>3, <3>1, <4>1
    <3>5. \A n \in 1 .. Len(slots) : n > Done(r)' => n > Done(r)
      BY <1>b, <3>2
    <3> QED
      BY <1>g, <2>1, <2>2, <3>1, <3>3, <3>4, <3>5
  <2>9. CASE AppendCheck(r) \/ AppendMemcpy(r) \/ AppendAdd(r)
    <3>1. /\ rpc[r] \in {"output", "memcpy", "add"} /\ rpc'[r] \in {"output", "memcpy", "add"}
          /\ i' = i /\ failed' = failed
      BY <1>a, <2>9 DEF AppendCheck, AppendMemcpy, AppendAdd, Goto, history, ReaderTypeOK
    <3>2. Done(r)' = i[r] + 1 /\ Done(r) = i[r] + 1
      BY <3>1 DEF Done
    <3> QED
      BY <2>3, <2>5, <3>1, <3>2
  <2>10. CASE NextBuffer(r)
    <3>1. /\ rpc[r] = "output" /\ rpc'[r] = "walk" /\ i'[r] = i[r] + 1
          /\ failed' = failed
      BY <1>a, <2>10 DEF NextBuffer, Goto, history, ReaderTypeOK
    <3>2. Done(r)' = i[r] + 1 /\ Done(r) = i[r] + 1
      BY <3>1 DEF Done
    <3> QED
      BY <2>5, <3>1, <3>2
  <2> QED
    BY <1>2, <2>6, <2>7, <2>8, <2>9, <2>10
<1>3. ASSUME NEW r \in Readers, NEW b \in Buffers, Take(r, b) PROVE HeldInv'
  <2>1. /\ rpc[r] = "take" /\ rpc'[r] = "output" /\ b \in rbuf[r]
        /\ pending' = [pending EXCEPT ![b] = <<>>]
        /\ UNCHANGED <<alone, mark, slots, stream, failed, logged, ring, buffers, count, i>>
    BY <1>3, <1>a DEF Take, Goto, history, registry, core, ReaderTypeOK
  <2>2. alone = {r} /\ i[r] < Len(slots) /\ rbuf[r] = slots[i[r] + 1]
    BY <1>a, <1>e, <2>1 DEF WalkedInv
  <2>3. i[r] + 1 \in 1 .. Len(slots) /\ slots[i[r] + 1] = {b}
    <3>1. i[r] + 1 \in 1 .. Len(slots)
      BY <1>b, <2>2
    <3> QED
      BY <1>a, <2>1, <2>2, <3>1 DEF SlotInv, Registry
  <2>4. SlotInv' /\ StreamInv'
    BY <1>a, <2>1 DEF SlotInv, StreamInv
  <2>5. WalkedInv'
    BY <1>a, <2>1, <2>2 DEF WalkedInv
  <2>6. Done(r)' = i[r] + 1 /\ Done(r) = i[r]
    BY <2>1 DEF Done
  <2>7. ASSUME NEW n \in 1 .. Len(slots), NEW c \in slots[n]
        PROVE  IF n > i[r] + 1 THEN stream[c] = pending'[c]
               ELSE c \notin failed => \A k \in DOMAIN pending'[c] : pending'[c][k][1] > mark
    <3>1. c \in Buffers /\ slots[n] = {c}
      BY <1>a DEF SlotInv, Registry
    <3>2. CASE n = i[r] + 1
      <4>1. c = b /\ pending'[c] = <<>>
        BY <1>a, <2>1, <2>3, <3>1, <3>2 DEF CallbackTypeOK
      <4> QED
        BY <1>b, <3>2, <4>1
    <3>3. CASE n # i[r] + 1
      <4>1. c # b
        BY <1>a, <2>3, <3>1, <3>3 DEF SlotInv
      <4>2. pending'[c] = pending[c]
        BY <1>a, <2>1, <3>1, <4>1 DEF CallbackTypeOK
      <4>3. n > i[r] + 1 <=> n > i[r]
        BY <1>b, <3>3
      <4> QED
        BY <1>a, <2>2, <2>6, <4>2, <4>3 DEF HandedInv
    <3> QED
      BY <3>2, <3>3
  <2>8. HandedInv'
    BY <2>1, <2>2, <2>6, <2>7 DEF HandedInv
  <2> QED
    BY <2>4, <2>5, <2>8 DEF HeldInv
<1>4. ASSUME NEW r \in Readers, NEW n \in Chunks, CopyToUser(r, n) PROVE HeldInv'
  <2>1. /\ rpc[r] = "user" /\ rpc' = [rpc EXCEPT ![r] = "idle"]
        /\ i' = [i EXCEPT ![r] = 0]
        /\ UNCHANGED <<alone, mark, slots, stream, failed, pending, logged, ring, buffers,
                       count>>
    BY <1>4 DEF CopyToUser, Goto, registry, core
  <2>2. \A s \in Readers : s # r => rpc[s] = "idle"
    BY <2>1 DEF IInv, SerialInv, InCall
  <2>3. \A s \in alone : rpc'[s] \in {"idle", "user"} /\ rpc[s] \in {"idle", "user"}
    BY <1>a, <1>f, <2>1, <2>2 DEF ReaderTypeOK
  <2>4. WalkedInv'
    BY <2>1, <2>3 DEF WalkedInv
  <2>5. \A s \in alone : Done(s)' = Done(s)
    BY <2>1, <2>3 DEF Done
  <2> QED
    BY <1>g, <2>1, <2>4, <2>5
<1>5. ASSUME alone' = {}, slots' = <<>>, stream' = [b \in Buffers |-> <<>>], mark' = 0,
             logged' = logged
      PROVE  HeldInv'
  <2>1. <<>> \in Seq(Entry) /\ slots' \in Seq(SUBSET Buffers) /\ Len(slots') = 0
    BY <1>5
  <2>2. logged \in Nat
    BY <1>a DEF CallbackTypeOK
  <2> QED
    BY <1>5, <2>1, <2>2 DEF HeldInv, SlotInv, StreamInv, WalkedInv, HandedInv, Registry
<1>6. ASSUME NEW r \in Readers, Rewind(r) PROVE HeldInv'
  <2>1. CASE r \in alone
    BY <1>5, <1>6, <2>1 DEF Rewind, Forget
  <2>2. CASE r \notin alone
    <3>1. UNCHANGED <<alone, mark, slots, stream, failed, pending, logged, ring, buffers,
                      count, rpc, i, rbuf>>
      BY <1>6, <2>2 DEF Rewind, history, registry, core
    <3>2. WalkedInv' /\ \A s \in alone : Done(s)' = Done(s)
      BY <1>a, <3>1 DEF WalkedInv, Done
    <3> QED
      BY <1>g, <3>1, <3>2
  <2> QED
    BY <2>1, <2>2
<1>7. ASSUME NEW b \in Buffers, NEW size \in Sizes, Log(b, size) PROVE HeldInv'
  <2> DEFINE all == Append(pending[b], <<logged', size>>)
  <2>1. /\ logged' = logged + 1
        /\ pending' = [pending EXCEPT ![b] = IF Len(all) > RingSize THEN Tail(all) ELSE all]
        /\ stream' = IF alone = {} THEN stream
                      ELSE [stream EXCEPT ![b] = Left(stream[b], pending[b]) \o pending'[b]]
        /\ UNCHANGED <<alone, mark, slots, failed, ring, buffers, count, rpc, i, rbuf>>
    BY <1>7 DEF Log, registry, core, local, Drained, Left
  <2>2. logged \in Nat /\ mark \in Nat /\ mark <= logged
    BY <1>a DEF StreamInv, CallbackTypeOK
  <2>3. pending' \in [Buffers -> Seq(Entry)]
    BY StepIInv DEF IInv, TypeOK, CallbackTypeOK
  <2>4. ASSUME NEW k \in DOMAIN pending'[b], pending'[b][k][1] <= mark
        PROVE  \E j \in DOMAIN pending[b] : pending[b][j][1] <= mark
    <3>1. pending[b] \in Seq(Entry) /\ pending'[b] = IF Len(all) > RingSize THEN Tail(all) ELSE all
      BY <1>a, <2>1 DEF CallbackTypeOK
    <3>2. /\ Len(all) = Len(pending[b]) + 1 /\ Len(pending[b]) \in Nat
          /\ all[Len(all)] = <<logged', size>>
          /\ \A j \in 1 .. Len(pending[b]) : all[j] = pending[b][j]
      BY <3>1
    <3>3. \E j \in 1 .. Len(all) : pending'[b][k] = all[j]
      <4>1. all \in Seq(Entry \union {<<logged', size>>}) /\ all # <<>>
        BY <3>1
      <4> HIDE DEF all
      <4>2. CASE pending'[b] = all
        BY <2>4, <4>1, <4>2
      <4>3. CASE pending'[b] = Tail(all)
        <5>1. k + 1 \in 1 .. Len(all) /\ Tail(all)[k] = all[k + 1]
          BY <2>4, <4>1, <4>3
        <5> QED
          BY <4>3, <5>1
      <4> QED
        BY <3>1, <4>2, <4>3
    <3>4. PICK j \in 1 .. Len(all) : pending'[b][k] = all[j]
      BY <3>3
    <3>5. j # Len(all)
      BY <2>1, <2>2, <2>4, <3>2, <3>4
    <3>6. j \in 1 .. Len(pending[b]) /\ DOMAIN pending[b] = 1 .. Len(pending[b])
      BY <3>1, <3>2, <3>5
    <3>7. pending[b][j] = all[j]
      BY <3>2, <3>6
    <3> QED
      BY <2>4, <3>4, <3>6, <3>7
  <2>5. stream' \in [Buffers -> Seq(Entry)]
    <3>1. Left(stream[b], pending[b]) \in Seq(Entry) /\ pending'[b] \in Seq(Entry)
      BY <1>a, <2>3, LeftFacts DEF StreamInv, CallbackTypeOK
    <3>2. Left(stream[b], pending[b]) \o pending'[b] \in Seq(Entry)
      BY <3>1, ConcatProperties
    <3> QED
      BY <1>a, <2>1, <3>2 DEF StreamInv
  <2>6. SlotInv' /\ StreamInv'
    BY <1>a, <2>1, <2>2, <2>5 DEF SlotInv, StreamInv
  <2>7. WalkedInv' /\ \A r \in alone : Done(r)' = Done(r)
    BY <1>a, <2>1 DEF WalkedInv, Done
  <2>8. ASSUME NEW r \in alone, NEW n \in 1 .. Len(slots), NEW c \in slots[n]
        PROVE  IF n > Done(r) THEN stream'[c] = pending'[c]
               ELSE c \notin failed => \A k \in DOMAIN pending'[c] : pending'[c][k][1] > mark
    <3>1. c \in Buffers
      BY <1>a DEF SlotInv, Registry
    <3>2. IF n > Done(r) THEN stream[c] = pending[c]
          ELSE c \notin failed => \A k \in DOMAIN pending[c] : pending[c][k][1] > mark
      BY <1>a DEF HandedInv
    <3>3. CASE c # b
      BY <1>a, <2>1, <3>1, <3>2, <3>3 DEF CallbackTypeOK, StreamInv
    <3>4. CASE c = b
      <4>1. stream'[b] = Left(stream[b], pending[b]) \o pending'[b]
        BY <1>a, <2>1 DEF StreamInv
      <4>2. stream[b] = pending[b] => stream'[b] = pending'[b]
        <5>1. stream[b] = pending[b] => Left(stream[b], pending[b]) = <<>>
          BY <1>a, LeftFacts DEF StreamInv, CallbackTypeOK
        <5>2. <<>> \o pending'[b] = pending'[b]
          BY <2>3, ConcatEmptySeq
        <5> QED
          BY <4>1, <5>1, <5>2
      <4>3. ASSUME \A k \in DOMAIN pending[b] : pending[b][k][1] > mark,
                   NEW k \in DOMAIN pending'[b]
            PROVE  pending'[b][k][1] > mark
        <5>1. pending'[b][k][1] \in Int /\ \A j \in DOMAIN pending[b] : pending[b][j][1] \in Int
          BY <1>a, <2>3 DEF Entry, CallbackTypeOK
        <5> QED
          BY <2>2, <2>4, <4>3, <5>1
      <4> QED
        BY <3>2, <3>4, <4>2, <4>3
    <3> QED
      BY <3>3, <3>4
  <2>9. HandedInv'
    BY <2>1, <2>7, <2>8, SMTT(60) DEF HandedInv
  <2> QED
    BY <2>6, <2>7, <2>9 DEF HeldInv
<1>8. ASSUME NEW b \in Buffers, StartPolicy(b) PROVE HeldInv'
  BY <1>a, <1>d, <1>h, <1>8 DEF StartPolicy, local, history, SlotInv
<1>9. ASSUME NEW b \in Buffers, StopPolicy(b) PROVE HeldInv'
  <2>1. /\ \A r \in Readers : rpc[r] = "idle"
        /\ UNCHANGED <<alone, mark, slots, stream, failed, logged, rpc, i, pending>>
        /\ log_file => ring' = ring
        /\ cpc = "idle"
    BY <1>d, <1>9 DEF StopPolicy, local, history
  <2>2. ~log_file => slots = <<>>
    BY <1>a, <2>1 DEF AloneInv, SlotInv
  <2> QED
    BY <1>a, <1>h, <2>1, <2>2 DEF SlotInv
<1>10. ASSUME NEW b \in Buffers, CloseRingbuffer(b) PROVE HeldInv'
  <2>1. /\ \A r \in Readers : rpc[r] = "idle"
        /\ UNCHANGED <<alone, mark, slots, stream, failed, logged, rpc, i>>
        /\ ring[b] = "closing"
        /\ \A c \in Buffers : c # b => ring'[c] = ring[c] /\ pending'[c] = pending[c]
    BY <1>a, <1>d, <1>10 DEF CloseRingbuffer, local, history, CallbackTypeOK
  <2> QED
    BY <1>a, <1>h, <2>1 DEF SlotInv, Registry
<1>11. CASE OpenRingbuffer
  <2>1. /\ \A r \in Readers : rpc[r] = "idle"
        /\ UNCHANGED <<alone, mark, slots, stream, failed, logged, rpc, i>>
        /\ ring[cbuf] = "closed"
        /\ \A c \in Buffers : c # cbuf => ring'[c] = ring[c] /\ pending'[c] = pending[c]
    BY <1>a, <1>d, <1>11 DEF OpenRingbuffer, local, history, CallbackTypeOK, PhaseInv
  <2> QED
    BY <1>a, <1>h, <2>1 DEF SlotInv, Registry
<1>12. CASE LogfileInit \/ InfofileInit \/ RegisterCount \/ RegisterStore
            \/ LogfileExit \/ DebugfsRemove
  BY <1>a, <1>d, <1>h, <1>12 DEF LogfileInit, InfofileInit, RegisterCount, RegisterStore,
     LogfileExit, DebugfsRemove, local, history, SlotInv
<1>13. CASE DebugfsWait
  BY <1>5, <1>13 DEF DebugfsWait, Forget
<1>14. CASE UNCHANGED vars
  <2>1. WalkedInv' /\ \A r \in alone : Done(r)' = Done(r)
    BY <1>a, <1>14 DEF WalkedInv, Done, vars, local, history, registry
  <2> QED
    BY <1>g, <1>14, <2>1 DEF vars, history, registry, core
<1> QED
  BY <1>1, <1>2, <1>3, <1>4, <1>6, <1>7, <1>8, <1>9, <1>10, <1>11, <1>12, <1>13, <1>14
  DEF Next, ReadStep

\* The log in the middle of that read, and what was received of it afterwards.
TextInv ==
  \A r \in alone :
    /\ rpc[r] # "clear" => Kept(DrainedText, size_used, data, TextOf(copy[r]))
    /\ rpc[r] = "add" =>
         \A k \in 1 .. Head(copy[r])[2] : data[size_used + k] = CellsOf(Head(copy[r]))[k]
    /\ IF rpc[r] \in {"idle", "user"} THEN pos[r] <= size_used ELSE pos[r] = 0
    /\ received = [k \in 1 .. pos[r] |-> data[k]]

ReadInv == AloneInv /\ HeldInv /\ TextInv

\* The text of an entry is not empty, and starts with its first cell.
LEMMA CellsParts ==
  ASSUME NEW s \in Seq(Entry), s # <<>>
  PROVE  /\ CellsOf(Head(s)) \in Seq(Cell)
         /\ Len(CellsOf(Head(s))) = Head(s)[2] /\ Head(s)[2] \in Nat \ {0}
         /\ CellsOf(Head(s))[1][2] = 1
         /\ DOMAIN CellsOf(Head(s)) = 1 .. Head(s)[2]
<1> DEFINE n == Head(s)[2]
<1>1. n \in Nat /\ n # 0
  <2>1. n \in Sizes
    BY EntryParts DEF Entry
  <2> QED
    BY <2>1, LogFileAssumption
<1>2. CellsOf(Head(s)) = [k \in 1 .. n |-> <<Head(s)[1], k>>]
  BY DEF CellsOf
<1> HIDE DEF n
<1>3. \A k \in 1 .. n : CellsOf(Head(s))[k] \in Cell
  BY <1>2, EntryParts
<1>4. CellsOf(Head(s)) \in Seq(Cell) /\ Len(CellsOf(Head(s))) = n
  BY <1>1, <1>2, <1>3
<1>5. CellsOf(Head(s))[1] = <<Head(s)[1], 1>>
  BY <1>1, <1>2
<1> QED
  BY <1>1, <1>2, <1>4, <1>5 DEF n

\* Nobody has read before the first policy is started.
LEMMA InitReadInv == Init => ReadInv
  BY InitHeldInv DEF Init, ReadInv, AloneInv, TextInv

\* Every step preserves ReadInv, as long as nothing overlaps a call.
LEMMA StepReadInv ==
  ASSUME Overlaps = {}
  PROVE  IInv /\ ReadInv /\ [Next]_vars => ReadInv'
<1> SUFFICES ASSUME IInv, ReadInv, [Next]_vars PROVE (AloneInv /\ TextInv)'
  BY StepHeldInv DEF ReadInv
<1> USE LogFileAssumption
<1>a. FileTypeOK /\ CallbackTypeOK /\ ReaderTypeOK /\ AppendInv /\ SizeInv /\ PhaseInv
      /\ AloneInv /\ TextInv /\ SlotInv /\ StreamInv /\ WalkedInv /\ HandedInv
  BY DEF IInv, TypeOK, ReadInv, HeldInv
<1>b. \A r, s \in Readers : rpc[r] # "idle" /\ rpc[s] # "idle" => r = s
  BY DEF IInv, SerialInv, InCall
<1>c. \A r \in Readers : rpc[r] # "idle" => cpc = "idle" /\ log_file
  BY DEF IInv, QuietInv, InCall
<1>d. CallbackMayRun => \A r \in Readers : rpc[r] = "idle"
  BY DEF CallbackMayRun, InCall
<1>e. \A r \in Readers : rpc[r] \notin {"idle", "user"} => alone = {r}
  BY <1>a DEF AloneInv
<1>f. size_used \in Nat /\ size_used <= Capacity
  BY <1>a DEF FileTypeOK, SizeInv
<1>g. ASSUME UNCHANGED <<data, size_used, pos, rpc, copy, alone, DrainedText, received>>,
             alone # {} => log_file' \/ cpc' = "wait"
      PROVE  (AloneInv /\ TextInv)'
  BY <1>a, <1>g DEF AloneInv, TextInv
<1>h. DrainedText \in Seq(Cell)
  BY <1>a, DrainedTyped DEF SlotInv, StreamInv, CallbackTypeOK
<1>i. /\ stream' \in [Buffers -> Seq(Entry)]
      /\ pending' \in [Buffers -> Seq(Entry)]
  BY StepIInv, StepHeldInv DEF ReadInv, HeldInv, StreamInv, IInv, TypeOK, CallbackTypeOK
<1>t. ASSUME UNCHANGED <<slots, stream, pending>> PROVE DrainedText' = DrainedText
  BY <1>t DEF DrainedText, Drained
<1>u. ASSUME UNCHANGED <<slots, stream>>,
             \A n \in 1 .. Len(slots) : \A b \in slots[n] : pending'[b] = pending[b]
      PROVE  DrainedText' = DrainedText
  BY <1>a, <1>i, <1>u, DrainedKept DEF SlotInv, StreamInv, CallbackTypeOK
<1>1. ASSUME NEW r \in Readers, ReadCall(r) PROVE (AloneInv /\ TextInv)'
  <2>1. /\ rpc[r] = "idle" /\ log_file /\ cpc = "idle"
        /\ \A s \in Readers : rpc[s] = "idle" /\ copy[s] = <<>>
    BY <1>1, <1>a DEF ReadCall, InCall, Goto, AloneInv
  <2>2. CASE StartsAnew(r)
    <3>1. /\ alone' = {r} /\ received' = <<>> /\ pos'[r] = 0
          /\ rpc' = [rpc EXCEPT ![r] = "clear"] /\ UNCHANGED <<copy, data, log_file, cpc>>
      BY <1>1, <2>2 DEF ReadCall, Goto, StartsAnew, text, core
    <3>3. AloneInv'
      BY <1>a, <2>1, <3>1 DEF AloneInv, ReaderTypeOK
    <3>4. TextInv'
      BY <1>a, <3>1 DEF TextInv, ReaderTypeOK
    <3> QED
      BY <3>3, <3>4
  <2>3. CASE ~StartsAnew(r)
    <3>1. /\ UNCHANGED <<alone, DrainedText, received, pos, copy, data, size_used, log_file, cpc>>
          /\ rpc' = [rpc EXCEPT ![r] = "user"]
      BY <1>1, <1>t, <2>3 DEF ReadCall, Goto, StartsAnew, text, core, history
    <3>3. AloneInv'
      BY <1>a, <2>1, <3>1 DEF AloneInv, ReaderTypeOK
    <3>4. TextInv'
      <4> SUFFICES ASSUME NEW s \in alone
                   PROVE  rpc[s] = "idle" /\ rpc'[s] \in {"idle", "user"}
        BY <1>a, <3>1 DEF TextInv
      <4> QED
        BY <1>a, <2>1, <3>1 DEF AloneInv, ReaderTypeOK
    <3> QED
      BY <3>3, <3>4
  <2> QED
    BY <2>2, <2>3
<1>2. ASSUME NEW r \in Readers, ClearLog(r) PROVE (AloneInv /\ TextInv)'
  <2>1. /\ rpc[r] = "clear" /\ rpc' = [rpc EXCEPT ![r] = "walk"] /\ size_used' = 0
        /\ UNCHANGED <<data, pos, copy, alone, DrainedText, received, log_file, cpc>>
    BY <1>2, <1>t DEF ClearLog, Goto, core, history
  <2>2. alone = {r} /\ copy[r] = <<>>
    BY <1>a, <1>e, <2>1 DEF AloneInv
  <2>3. AloneInv'
    BY <1>a, <2>1, <2>2 DEF AloneInv, ReaderTypeOK
  <2>4. TextInv'
    <3>1. pos[r] = 0 /\ received = [k \in 1 .. pos[r] |-> data[k]]
      BY <1>a, <2>1, <2>2 DEF TextInv
    <3>4. DrainedText = <<>>
      <4>1. \A n \in 1 .. Len(slots) : \A b \in slots[n] : stream[b] = pending[b]
        BY <1>a, <2>1, <2>2 DEF HandedInv, Done
      <4> QED
        BY <1>a, <4>1, DrainedTyped DEF SlotInv, StreamInv, CallbackTypeOK
    <3>2. Kept(<<>>, 0, data, <<>>)
      BY DEF Kept
    <3>3. Kept(DrainedText', size_used', data', TextOf(copy'[r]))
      BY <2>1, <2>2, <3>2, <3>4, TextCons
    <3> QED
      BY <1>a, <2>1, <2>2, <3>1, <3>3 DEF TextInv, ReaderTypeOK
  <2> QED
    BY <2>1, <2>3, <2>4
<1>3. ASSUME NEW r \in Readers, ReadWalk(r) \/ TakeFails(r) \/ NextBuffer(r)
      PROVE  (AloneInv /\ TextInv)'
  <2>1. /\ rpc[r] \in {"walk", "take", "output"}
        /\ \E pc \in {"walk", "take", "user"} : rpc' = [rpc EXCEPT ![r] = pc]
        /\ UNCHANGED <<data, size_used, pos, copy, alone, DrainedText, received, log_file, cpc>>
    BY <1>3, <1>t DEF ReadWalk, TakeFails, NextBuffer,
       NoteFailure, Goto, core, history, text
  <2>2. alone = {r} /\ copy[r] = <<>>
    BY <1>3, <1>a, <1>e, <2>1 DEF AloneInv, NextBuffer, ReadWalk, TakeFails, Goto
  <2>3. AloneInv'
    BY <1>a, <2>1, <2>2 DEF AloneInv, ReaderTypeOK
  <2>4. TextInv'
    BY <1>a, <1>f, <2>1, <2>2 DEF TextInv, ReaderTypeOK
  <2> QED
    BY <2>1, <2>3, <2>4
<1>4. ASSUME NEW r \in Readers, NEW b \in Buffers, Take(r, b) PROVE (AloneInv /\ TextInv)'
  <2>1. /\ rpc[r] = "take" /\ rpc' = [rpc EXCEPT ![r] = "output"]
        /\ copy' = [copy EXCEPT ![r] = pending[b]]
        /\ UNCHANGED <<data, size_used, pos, alone, received, log_file, cpc>>
    BY <1>4 DEF Take, Goto, core, text, history
  <2>2. alone = {r} /\ copy[r] = <<>> /\ pending[b] \in Seq(Entry)
    BY <1>a, <1>e, <2>1 DEF AloneInv, CallbackTypeOK
  <2>3. DrainedText' = DrainedText \o TextOf(pending[b]) /\ TextOf(pending[b]) \in Seq(Cell)
    <3>1. i[r] < Len(slots) /\ rbuf[r] = slots[i[r] + 1]
      BY <1>a, <2>1, <2>2 DEF WalkedInv
    <3>2. i[r] + 1 \in 1 .. Len(slots) /\ i[r] \in Nat /\ Len(slots) \in Nat
      BY <1>a, <3>1 DEF SlotInv, Registry, ReaderTypeOK
    <3>3. slots[i[r] + 1] = {b}
      BY <1>4, <1>a, <3>1, <3>2 DEF Take, SlotInv, Registry
    <3>4. \A n \in 1 .. Len(slots) : \A c \in slots[n] : n >= i[r] + 1 => stream[c] = pending[c]
      <4>1. Done(r) = i[r]
        BY <2>1 DEF Done
      <4>2. \A n \in 1 .. Len(slots) : n >= i[r] + 1 => n > Done(r)
        BY <3>2, <4>1
      <4> QED
        BY <1>a, <2>2, <4>2 DEF HandedInv
    <3>5. DrainedText' = DrainedText \o TextOf(pending[b])
      <4>1. slots' = slots /\ stream' = stream /\ pending' = [pending EXCEPT ![b] = <<>>]
        BY <1>4 DEF Take, history
      <4> QED
        BY <1>a, <3>2, <3>3, <3>4, <4>1, DrainedMore DEF SlotInv, StreamInv, CallbackTypeOK
    <3> QED
      BY <2>2, <3>5, TextCons
  <2>4. AloneInv'
    BY <1>a, <2>1, <2>2 DEF AloneInv, ReaderTypeOK
  <2>6. TextInv'
    <3>1. /\ Kept(DrainedText, size_used, data, <<>>)
          /\ pos[r] = 0 /\ received = [k \in 1 .. pos[r] |-> data[k]]
      BY <1>a, <2>1, <2>2, TextCons DEF TextInv
    <3>2. Kept(DrainedText', size_used, data, TextOf(pending[b]))
      BY <1>f, <1>h, <2>3, <3>1, KeptTake
    <3>3. Kept(DrainedText', size_used', data', TextOf(copy'[r]))
      BY <1>a, <2>1, <3>2 DEF ReaderTypeOK
    <3> QED
      BY <1>a, <2>1, <2>2, <3>1, <3>3 DEF TextInv, ReaderTypeOK
  <2> QED
    BY <2>4, <2>6
<1>5. ASSUME NEW r \in Readers, AppendCheck(r) PROVE (AloneInv /\ TextInv)'
  <2> DEFINE n == Head(copy[r])[2]
             c == CellsOf(Head(copy[r]))
             rest == TextOf(Tail(copy[r]))
  <2>1. /\ rpc[r] = "output" /\ copy[r] # <<>>
        /\ size_used' = IF size_used + n > Capacity THEN 0 ELSE size_used
        /\ rpc' = [rpc EXCEPT ![r] = IF Capacity < n THEN "output" ELSE "memcpy"]
        /\ copy' = [copy EXCEPT ![r] = IF Capacity < n THEN Tail(copy[r]) ELSE copy[r]]
        /\ UNCHANGED <<data, pos, alone, DrainedText, received, log_file, cpc>>
    BY <1>5, <1>t DEF AppendCheck, Overflows, core, history
  <2>2. alone = {r} /\ copy[r] \in Seq(Entry)
    BY <1>a, <1>e, <2>1 DEF ReaderTypeOK
  <2>3. /\ c \in Seq(Cell) /\ Len(c) = n /\ n \in Nat \ {0}
        /\ rest \in Seq(Cell) /\ TextOf(copy[r]) = c \o rest
    <3>1. Tail(copy[r]) \in Seq(Entry)
      BY <2>1, <2>2, EntryParts
    <3>2. rest \in Seq(Cell) /\ TextOf(copy[r]) = c \o rest
      BY <2>1, <2>2, <3>1, TextCons
    <3> QED
      BY <2>1, <2>2, <3>2, CellsParts
  <2>4. AloneInv'
    BY <1>a, <2>1, <2>2 DEF AloneInv, ReaderTypeOK
  <2>5. /\ Kept(DrainedText, size_used, data, c \o rest)
        /\ pos[r] = 0 /\ received = [k \in 1 .. pos[r] |-> data[k]]
    BY <1>a, <2>1, <2>2, <2>3 DEF TextInv
  <2>6. TextOf(copy'[r]) = IF Capacity < n THEN rest ELSE c \o rest
    BY <1>a, <2>1, <2>3 DEF ReaderTypeOK
  <2> HIDE DEF n, c, rest
  <2>7. size_used + n > Capacity =>
          Kept(DrainedText, 0, data, c \o rest) /\ Kept(DrainedText, 0, data, rest)
    BY <1>f, <1>h, <2>3, <2>5, KeptDrop
  <2>8. Capacity < n => size_used + n > Capacity
    BY <1>f, <2>3
  <2>9. Kept(DrainedText', size_used', data', TextOf(copy'[r]))
    BY <2>1, <2>5, <2>6, <2>7, <2>8
  <2>10. rpc'[r] \in {"output", "memcpy"}
    BY <1>a, <2>1 DEF ReaderTypeOK
  <2>11. TextInv'
    BY <2>1, <2>2, <2>5, <2>9, <2>10 DEF TextInv
  <2> QED
    BY <2>1, <2>4, <2>11
<1>6. ASSUME NEW r \in Readers, AppendMemcpy(r) PROVE (AloneInv /\ TextInv)'
  <2> DEFINE n == Head(copy[r])[2]
             c == CellsOf(Head(copy[r]))
  <2>1. /\ rpc[r] = "memcpy" /\ rpc' = [rpc EXCEPT ![r] = "add"]
        /\ data' = [k \in 1 .. Capacity |->
                      IF k - size_used \in DOMAIN c THEN c[k - size_used] ELSE data[k]]
        /\ UNCHANGED <<size_used, pos, copy, alone, DrainedText, received, log_file, cpc>>
    BY <1>6, <1>t DEF AppendMemcpy, Goto, core, history
  <2>2. /\ alone = {r} /\ copy[r] \in Seq(Entry) /\ copy[r] # <<>>
        /\ size_used + n <= Capacity
    BY <1>a, <1>e, <2>1 DEF ReaderTypeOK, AppendInv
  <2>3. DOMAIN c = 1 .. n /\ n \in Nat
    BY <2>2, CellsParts
  <2>4. AloneInv'
    BY <1>a, <2>1, <2>2 DEF AloneInv, ReaderTypeOK
  <2>5. /\ Kept(DrainedText, size_used, data, TextOf(copy[r]))
        /\ pos[r] = 0 /\ received = [k \in 1 .. pos[r] |-> data[k]]
    BY <1>a, <2>1, <2>2 DEF TextInv
  <2> HIDE DEF c, n
  <2>6. ASSUME NEW k \in 1 .. size_used PROVE data'[k] = data[k]
    <3>1. k \in 1 .. Capacity /\ ~(k - size_used \in 1 .. n)
      BY <1>f, <2>3
    <3> QED
      BY <2>1, <2>3, <3>1
  <2>7. ASSUME NEW k \in 1 .. n PROVE data'[size_used + k] = c[k]
    <3>1. size_used + k \in 1 .. Capacity /\ (size_used + k) - size_used = k
      BY <1>f, <2>2, <2>3
    <3> QED
      BY <2>1, <2>3, <3>1
  <2>8. Kept(DrainedText, size_used, data', TextOf(copy[r]))
    BY <1>f, <2>5, <2>6, KeptWrite
  <2>9. received' = [k \in 1 .. pos'[r] |-> data'[k]]
    BY <2>1, <2>5
  <2>10. rpc'[r] = "add"
    BY <1>a, <2>1 DEF ReaderTypeOK
  <2>11. TextInv'
    BY <2>1, <2>2, <2>5, <2>7, <2>8, <2>9, <2>10, SMTT(60) DEF TextInv, c, n
  <2> QED
    BY <2>1, <2>4, <2>11
<1>7. ASSUME NEW r \in Readers, AppendAdd(r) PROVE (AloneInv /\ TextInv)'
  <2> DEFINE n == Head(copy[r])[2]
             c == CellsOf(Head(copy[r]))
             rest == TextOf(Tail(copy[r]))
  <2>1. /\ rpc[r] = "add" /\ rpc' = [rpc EXCEPT ![r] = "output"]
        /\ size_used' = size_used + n
        /\ copy' = [copy EXCEPT ![r] = Tail(copy[r])]
        /\ UNCHANGED <<data, pos, alone, DrainedText, received, log_file, cpc>>
    BY <1>7, <1>t DEF AppendAdd, Goto, core, history
  <2>2. alone = {r} /\ copy[r] \in Seq(Entry) /\ copy[r] # <<>>
    BY <1>a, <1>e, <2>1 DEF ReaderTypeOK, AppendInv
  <2>3. /\ c \in Seq(Cell) /\ Len(c) = n /\ n \in Nat \ {0} /\ c[1][2] = 1
        /\ rest \in Seq(Cell) /\ TextOf(copy[r]) = c \o rest
    <3>1. Tail(copy[r]) \in Seq(Entry)
      BY <2>2, EntryParts
    <3>2. rest \in Seq(Cell) /\ TextOf(copy[r]) = c \o rest
      BY <2>2, <3>1, TextCons
    <3> QED
      BY <2>2, <3>2, CellsParts
  <2>4. AloneInv'
    BY <1>a, <2>1, <2>2 DEF AloneInv, ReaderTypeOK
  <2>5. /\ Kept(DrainedText, size_used, data, c \o rest)
        /\ \A k \in 1 .. n : data[size_used + k] = c[k]
        /\ pos[r] = 0 /\ received = [k \in 1 .. pos[r] |-> data[k]]
    BY <1>a, <2>1, <2>2, <2>3 DEF TextInv
  <2>6. TextOf(copy'[r]) = rest /\ rpc'[r] = "output"
    BY <1>a, <2>1 DEF ReaderTypeOK
  <2> HIDE DEF n, c, rest
  <2>7. Kept(DrainedText, size_used + n, data, rest)
    <3>1. Len(c) > 0
      BY <2>3
    <3>2. Kept(DrainedText, size_used + Len(c), data, rest)
      BY <1>f, <1>h, <2>3, <2>5, <3>1, KeptAdd
    <3> QED
      BY <2>3, <3>2
  <2>8. TextInv'
    BY <2>1, <2>2, <2>5, <2>6, <2>7 DEF TextInv
  <2> QED
    BY <2>1, <2>4, <2>8
<1>8. ASSUME NEW r \in Readers, NEW n \in Chunks, CopyToUser(r, n) PROVE (AloneInv /\ TextInv)'
  <2> DEFINE end == IF pos[r] >= size_used THEN pos[r]
                    ELSE IF pos[r] + n <= size_used THEN pos[r] + n ELSE size_used
             cells == [k \in 1 .. end - pos[r] |->
                         IF pos[r] + k <= Capacity THEN data[pos[r] + k] ELSE None]
  <2>1. /\ rpc[r] = "user" /\ rpc' = [rpc EXCEPT ![r] = "idle"]
        /\ pos' = [pos EXCEPT ![r] = end]
        /\ received' = IF r \in alone THEN received \o cells ELSE received
        /\ UNCHANGED <<data, size_used, copy, alone, DrainedText, log_file, cpc>>
    BY <1>8, <1>t DEF CopyToUser, Goto, core, text
  <2>2. pos[r] \in Nat /\ n \in Nat /\ end \in Nat
    BY <1>a, <1>f DEF ReaderTypeOK
  <2>3. AloneInv'
    BY <1>a, <2>1 DEF AloneInv, ReaderTypeOK
  <2>4. CASE r \in alone
    <3>1. pos[r] <= size_used /\ received = [k \in 1 .. pos[r] |-> data[k]]
      BY <1>a, <2>1, <2>4 DEF TextInv
    <3>2. pos[r] <= end /\ end <= size_used /\ end <= Capacity
      BY <1>f, <2>2, <3>1
    <3>3. cells = [k \in 1 .. end - pos[r] |-> data[pos[r] + k]]
      BY <2>2, <3>2
    <3> HIDE DEF end, cells
    <3>4. received \o cells = [k \in 1 .. end |-> data[k]]
      <4>1. received \in Seq(Cell) /\ cells \in Seq(Cell)
        <5>1. \A k \in 1 .. Capacity : data[k] \in Cell
          BY <1>a DEF FileTypeOK
        <5>2. /\ \A k \in 1 .. pos[r] : k \in 1 .. Capacity
              /\ \A k \in 1 .. end - pos[r] : pos[r] + k \in 1 .. Capacity
          BY <2>2, <3>2
        <5>3. end - pos[r] \in Nat
          BY <2>2, <3>2
        <5>4. \A k \in 1 .. pos[r] : data[k] \in Cell
          BY <5>1, <5>2
        <5>5. \A k \in 1 .. end - pos[r] : data[pos[r] + k] \in Cell
          BY <5>1, <5>2
        <5>6. [k \in 1 .. pos[r] |-> data[k]] \in Seq(Cell)
          BY <2>2, <5>4
        <5>7. [k \in 1 .. end - pos[r] |-> data[pos[r] + k]] \in Seq(Cell)
          BY <5>3, <5>5
        <5> QED
          BY <3>1, <3>3, <5>6, <5>7, Zenon
      <4>2. Len(received) = pos[r] /\ Len(cells) = end - pos[r]
        BY <2>2, <3>1, <3>2, <3>3
      <4>3. /\ received \o cells \in Seq(Cell)
            /\ Len(received \o cells) = end
        <5>1. /\ received \o cells \in Seq(Cell)
              /\ Len(received \o cells) = Len(received) + Len(cells)
          BY <4>1, ConcatProperties
        <5>2. pos[r] + (end - pos[r]) = end
          BY <2>2
        <5> QED
          BY <4>2, <5>1, <5>2
      <4>4. \A k \in 1 .. end : data[k] \in Cell
        <5>1. \A k \in 1 .. end : k \in 1 .. Capacity
          BY <2>2, <3>2
        <5> QED
          BY <1>a, <5>1 DEF FileTypeOK
      <4>5. ASSUME NEW k \in 1 .. end PROVE (received \o cells)[k] = data[k]
        <5>1. CASE k <= pos[r]
          <6>1. k \in 1 .. Len(received) /\ k \in 1 .. pos[r]
            BY <2>2, <4>2, <5>1
          <6>2. (received \o cells)[k] = received[k]
            BY <4>1, <6>1
          <6> QED
            BY <3>1, <6>1, <6>2
        <5>2. CASE k > pos[r]
          <6>1. k - pos[r] \in 1 .. end - pos[r] /\ pos[r] + (k - pos[r]) = k
            BY <2>2, <3>2, <5>2
          <6>2. k \in 1 .. Len(received) + Len(cells) /\ k > Len(received)
            BY <2>2, <3>2, <4>2, <5>2
          <6>3. (received \o cells)[k] = cells[k - Len(received)]
            BY <4>1, <6>2
          <6>4. (received \o cells)[k] = cells[k - pos[r]]
            BY <4>2, <6>3
          <6> QED
            BY <3>3, <6>1, <6>4
        <5>3. k <= pos[r] \/ k > pos[r]
          BY <2>2
        <5> QED
          BY <5>1, <5>2, <5>3, Zenon
      <4> DEFINE t == [k \in 1 .. end |-> data[k]]
      <4>6. t \in Seq(Cell) /\ Len(t) = end /\ \A k \in 1 .. end : t[k] = data[k]
        BY <2>2, <4>4
      <4> HIDE DEF t
      <4>7. received \o cells = t
        BY <4>3, <4>5, <4>6, SeqEqual
      <4> QED
        BY <4>7 DEF t
    <3>5. alone = {r} /\ rpc'[r] = "idle" /\ pos'[r] = end
      BY <1>a, <2>1, <2>4 DEF AloneInv, ReaderTypeOK
    <3>6. Kept(DrainedText, size_used, data, TextOf(copy[r]))
      BY <1>a, <2>1, <2>4 DEF TextInv
    <3>7. TextInv'
      BY <2>1, <2>4, <3>2, <3>4, <3>5, <3>6 DEF TextInv
    <3> QED
      BY <2>1, <2>3, <3>7
  <2>5. CASE r \notin alone
    <3>1. \A s \in alone : rpc'[s] = rpc[s] /\ pos'[s] = pos[s]
      BY <1>a, <2>1, <2>5 DEF AloneInv, ReaderTypeOK
    <3>2. TextInv'
      BY <1>a, <2>1, <2>5, <3>1 DEF TextInv
    <3> QED
      BY <2>1, <2>3, <3>2
  <2> QED
    BY <2>4, <2>5
<1>9. ASSUME NEW r \in Readers, Rewind(r) PROVE (AloneInv /\ TextInv)'
  <2>1. /\ rpc[r] = "idle" /\ pos' = [pos EXCEPT ![r] = 0]
        /\ IF r \in alone THEN alone' = {}
                          ELSE UNCHANGED <<alone, DrainedText, received>>
        /\ UNCHANGED <<data, size_used, rpc, copy, log_file, cpc>>
    BY <1>9, <1>t DEF Rewind, InCall, Forget, text, core, history
  <2>2. CASE r \in alone
    <3>1. \A s \in Readers : rpc[s] \in {"idle", "user"}
      BY <1>a, <2>1, <2>2 DEF AloneInv
    <3> QED
      BY <1>a, <2>1, <2>2, <3>1 DEF AloneInv, TextInv
  <2>3. CASE r \notin alone
    <3>1. \A s \in alone : pos'[s] = pos[s]
      BY <1>a, <2>1, <2>3 DEF AloneInv, ReaderTypeOK
    <3> QED
      BY <1>a, <2>1, <2>3, <3>1 DEF AloneInv, TextInv
  <2> QED
    BY <2>2, <2>3
<1>10. ASSUME NEW b \in Buffers, NEW size \in Sizes, Log(b, size) PROVE (AloneInv /\ TextInv)'
  <2>1. /\ UNCHANGED <<slots, data, size_used, pos, rpc, copy, alone, received, log_file, cpc>>
        /\ stream' = IF alone = {} THEN stream
                      ELSE [stream EXCEPT ![b] = Left(stream[b], pending[b]) \o pending'[b]]
        /\ \A c \in Buffers : c # b => pending'[c] = pending[c]
    BY <1>a, <1>10 DEF Log, text, core, local, Drained, Left, CallbackTypeOK
  <2>2. CASE alone = {}
    BY <1>a, <2>1, <2>2 DEF AloneInv, TextInv
  <2>3. CASE alone # {}
    <3>1. \A c \in Buffers : Left(stream'[c], pending'[c]) = Left(stream[c], pending[c])
      <4>1. Left(stream[b], pending[b]) \in Seq(Entry) /\ pending'[b] \in Seq(Entry)
        BY <1>a, <1>i, LeftFacts DEF StreamInv, CallbackTypeOK
      <4>2. stream'[b] = Left(stream[b], pending[b]) \o pending'[b]
        BY <1>a, <2>1, <2>3 DEF StreamInv
      <4>3. Left(stream'[b], pending'[b]) = Left(stream[b], pending[b])
        BY <4>1, <4>2, LeftLogged
      <4>4. \A c \in Buffers : c # b => stream'[c] = stream[c]
        BY <1>a, <2>1 DEF StreamInv
      <4> QED
        BY <2>1, <4>3, <4>4
    <3>2. \A n \in 1 .. Len(slots) : \A c \in slots[n] : c \in Buffers
      BY <1>a DEF SlotInv, Registry
    <3>3. DrainedText' = DrainedText
      BY <1>a, <1>i, <2>1, <3>1, <3>2, DrainedKept DEF SlotInv, StreamInv, CallbackTypeOK
    <3> QED
      BY <1>a, <1>g, <2>1, <3>3 DEF AloneInv
  <2> QED
    BY <2>2, <2>3
<1>11. ASSUME NEW b \in Buffers, StartPolicy(b) \/ StopPolicy(b) PROVE (AloneInv /\ TextInv)'
  BY <1>a, <1>g, <1>t, <1>11 DEF StartPolicy, StopPolicy, text, local, history, AloneInv
<1>16. ASSUME NEW b \in Buffers, CloseRingbuffer(b) PROVE (AloneInv /\ TextInv)'
  <2>1. \A c \in Buffers : ring[c] = "open" => pending'[c] = pending[c]
    BY <1>a, <1>16 DEF CloseRingbuffer, CallbackTypeOK
  <2>2. DrainedText' = DrainedText
    BY <1>a, <1>u, <1>16, <2>1 DEF CloseRingbuffer, history, SlotInv, Registry
  <2> QED
    BY <1>a, <1>g, <1>16, <2>2 DEF CloseRingbuffer, text, local, history, AloneInv
<1>17. CASE OpenRingbuffer
  <2>1. \A c \in Buffers : ring[c] = "open" => pending'[c] = pending[c]
    BY <1>a, <1>17 DEF OpenRingbuffer, CallbackTypeOK, PhaseInv
  <2>2. DrainedText' = DrainedText
    BY <1>a, <1>u, <1>17, <2>1 DEF OpenRingbuffer, history, SlotInv, Registry
  <2> QED
    BY <1>a, <1>g, <1>17, <2>2 DEF OpenRingbuffer, text, local, history, AloneInv
<1>12. CASE LogfileInit
  <2>1. alone = {} /\ alone' = {} /\ rpc' = rpc /\ copy' = copy
    BY <1>a, <1>12 DEF LogfileInit, PhaseInv, AloneInv, local, history
  <2> QED
    BY <1>a, <2>1 DEF AloneInv, TextInv
<1>13. CASE InfofileInit \/ RegisterCount \/ RegisterStore
            \/ LogfileExit \/ DebugfsRemove
  BY <1>a, <1>g, <1>t, <1>13 DEF InfofileInit, RegisterCount, RegisterStore,
     LogfileExit, DebugfsRemove, text, local, history, AloneInv
<1>14. CASE DebugfsWait
  <2>1. /\ alone' = {} /\ UNCHANGED <<rpc, copy>>
        /\ \A r \in Readers : rpc[r] = "idle"
    BY <1>14 DEF DebugfsWait, Forget, InCall
  <2> QED
    BY <1>a, <2>1 DEF AloneInv, TextInv
<1>15. CASE UNCHANGED vars
  BY <1>a, <1>g, <1>t, <1>15 DEF vars, text, core, local, history, AloneInv
<1> QED
  BY <1>1, <1>2, <1>3, <1>4, <1>5, <1>6, <1>7, <1>8, <1>9, <1>10, <1>11, <1>12,
     <1>13, <1>14, <1>15, <1>16, <1>17 DEF Next, ReadStep

\* As long as neither reads nor callbacks overlap a call of user_read_log, a
\* reader gets all that the registered ring buffers held when it started, but for
\* those that could not be copied, which keep their entries: the text of what left
\* them is in the log, in order, in whole lines and without a gap, and the reader
\* receives it in however many calls.  It loses only what a force clear dropped,
\* and nothing if all of it fits.
THEOREM ReadComplete ==
  ASSUME Overlaps = {}
  PROVE  Spec => []UndisturbedReadComplete
<1>1. IInv /\ ReadInv => UndisturbedReadComplete
  <2> SUFFICES ASSUME IInv, ReadInv, NEW r \in alone, ~InCall(r)
               PROVE  LET dropped == Len(DrainedText) - size_used
                      IN  /\ \A n \in DOMAIN slots : \A b \in slots[n] \ failed :
                               \A k \in DOMAIN pending[b] : pending[b][k][1] > mark
                          /\ dropped >= 0
                          /\ \A k \in 1 .. size_used : data[k] = DrainedText[dropped + k]
                          /\ size_used > 0 => data[1][2] = 1
                          /\ Len(DrainedText) <= Capacity => dropped = 0
                          /\ received = [k \in 1 .. pos[r] |-> data[k]]
    BY DEF UndisturbedReadComplete
  <2>1. rpc[r] = "idle" /\ copy[r] = <<>> /\ size_used \in Nat
    BY DEF ReadInv, AloneInv, InCall, IInv, TypeOK, FileTypeOK
  <2>2. /\ Kept(DrainedText, size_used, data, <<>>)
        /\ received = [k \in 1 .. pos[r] |-> data[k]]
    BY <2>1, TextCons DEF ReadInv, TextInv
  <2>3. size_used + Len(<<>>) = size_used
    BY <2>1
  <2>4. \A n \in DOMAIN slots : \A b \in slots[n] \ failed :
          \A k \in DOMAIN pending[b] : pending[b][k][1] > mark
    <3>1. Done(r) = Len(slots)
      BY <2>1 DEF Done
    <3>2. \A n \in DOMAIN slots : n \in 1 .. Len(slots) /\ ~(n > Done(r))
      BY <3>1 DEF ReadInv, HeldInv, SlotInv, Registry
    <3> QED
      BY <3>2 DEF ReadInv, HeldInv, HandedInv
  <2> QED
    BY <2>2, <2>3, <2>4 DEF Kept
<1>2. QED
  BY <1>1, Invariance, InitReadInv, StepReadInv, PTL DEF Spec
=============================================================================
