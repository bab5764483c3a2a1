-------------------------- MODULE RingbufferProofs --------------------------
(***************************************************************************)
(* Proofs about Ringbuffer, for every buffer size and set of readers.      *)
(***************************************************************************)
EXTENDS Ringbuffer, TLAPS

\* Who holds the lock, and with interrupts off; a reader that holds it on the
\* buffer's CPU keeps the hook from starting there.
LockInv ==
  /\ lock = "writer" <=> wpc = "loop"
  /\ \A r \in Readers :
       /\ rpc[r] = "locked" => lock = "reader"
       /\ irqs_off[r] <=> rpc[r] = "locked"
       /\ rpc[r] = "locked" /\ on_cpu[r] => wpc = "idle"
       /\ \A s \in Readers : rpc[r] = "locked" /\ rpc[s] = "locked" => r = s

\* What the slots of a buffer hold after w entries, cleared at entry c, when
\* the next one goes to slot o.
Holds(d, o, w, c) ==
  /\ w - c < Size => o = w - c /\ \A j \in 0 .. o - 1 : d[j] = c + 1 + j
  /\ w - c >= Size => \A j \in Slots :
       d[j] = IF j < o THEN w - o + 1 + j ELSE w - Size - o + 1 + j

\* had_wraparound is set ahead of the loop that fills the last slot, so it is
\* compared with the entries written once the loop will be done.
RingInv ==
  /\ cleared <= written
  /\ Holds(data, insert_offset, written, cleared)
  /\ had_wraparound <=>
       written - cleared + (IF wpc = "loop" THEN wleft ELSE 0) >= Size

\* The same of the copies readers work on, and what they have output so far.
CopyOK(b) ==
  /\ b.cleared <= b.written
  /\ Holds(b.data, b.insert_offset, b.written, b.cleared)
  /\ b.had_wraparound <=> b.written - b.cleared >= Size

CopyInv ==
  \A r \in Readers :
    IF rpc[r] = "output"
      THEN /\ CopyOK(copy[r])
           /\ Len(out[r]) <= ValidSize(copy[r])
           /\ \A k \in 1 .. Len(out[r]) : out[r][k] = ExpectedFirst(copy[r]) + k - 1
      ELSE out[r] = <<>>

\* Copies are taken of disjoint stretches of the entries, and what a reader has
\* yet to output was not delivered.
DeliveryInv ==
  /\ \A n \in delivered : n <= cleared
  /\ \A r \in Readers : rpc[r] = "output" =>
       /\ copy[r].written <= cleared
       /\ \A n \in delivered :
            n < ExpectedFirst(copy[r]) + Len(out[r]) \/ n > copy[r].written
       /\ \A s \in Readers : rpc[s] = "output" /\ r # s =>
            copy[r].written <= copy[s].cleared \/ copy[s].written <= copy[r].cleared

IInv == TypeOK /\ LockInv /\ RingInv /\ CopyInv /\ DeliveryInv

-----------------------------------------------------------------------------
\* Where the insert and the read offset point after a step (lines 56 and 115):
\* they wrap at most once.
LEMMA Wrap ==
  ASSUME NEW o \in Slots, NEW i \in 0 .. Size
  PROVE  (o + i) % Size = IF o + i < Size THEN o + i ELSE o + i - Size
  BY SizeAssumption, Z3 DEF Slots

\* Storing an entry at the insert offset and advancing it (lines 114-115) keeps
\* the newest entries in order, before and after the first wraparound.
LEMMA HoldsStore ==
  ASSUME NEW d \in [Slots -> Nat], NEW o \in Slots, NEW w \in Nat, NEW c \in Nat,
         c <= w, Holds(d, o, w, c),
         NEW p, p = IF o + 1 < Size THEN o + 1 ELSE 0
  PROVE  /\ p \in Slots
         /\ Holds([d EXCEPT ![o] = w + 1], p, w + 1, c)
<1> USE SizeAssumption
<1>1. p \in Slots
  BY DEF Slots
<1>2. CASE w - c < Size
  <2>1. CASE w - c + 1 < Size
    BY <1>1, <1>2, <2>1 DEF Holds, Slots
  <2>2. CASE w - c + 1 = Size
    BY <1>1, <1>2, <2>2 DEF Holds, Slots
  <2>3. QED
    BY <1>2, <2>1, <2>2
<1>3. CASE w - c >= Size
  <2>1. CASE o + 1 < Size
    BY <1>1, <1>3, <2>1 DEF Holds, Slots
  <2>2. CASE ~(o + 1 < Size)
    <3>1. o + 1 = Size /\ p = 0 /\ o = Size - 1
      BY <2>2 DEF Slots
    <3>2. \A j \in Slots : j # o => d[j] = w - o + 1 + j
      BY <1>3, <3>1 DEF Holds, Slots
    <3>3. \A j \in Slots : [d EXCEPT ![o] = w + 1][j] = w + 1 - Size + 1 + j
      BY <3>1, <3>2 DEF Slots
    <3>4. QED
      BY <1>1, <1>3, <3>1, <3>3 DEF Holds, Slots
  <2>3. QED
    BY <2>1, <2>2
<1>4. QED
  BY <1>1, <1>2, <1>3

\* Iteration i of memutil_output_data outputs the i-th of the entries that are
\* expected (lines 51-57).
LEMMA OutputOrder ==
  ASSUME NEW b \in Copies, CopyOK(b)
  PROVE  /\ ValidSize(b) = ExpectedCount(b)
         /\ \A i \in 0 .. ValidSize(b) - 1 : OutputElement(b, i) = ExpectedFirst(b) + i
<1> DEFINE o == b.insert_offset  w == b.written  c == b.cleared  d == b.data
<1>1. /\ o \in Slots /\ w \in Nat /\ c \in Nat /\ d \in [Slots -> Nat]
      /\ c <= w /\ Holds(d, o, w, c)
      /\ b.had_wraparound \in BOOLEAN /\ b.had_wraparound <=> w - c >= Size
  BY DEF Copies, CopyOK
<1>2. ASSUME b.had_wraparound, NEW i \in 0 .. Size - 1
      PROVE  d[(o + i) % Size] = w - Size + 1 + i
  <2> DEFINE p == (o + i) % Size
  <2>1. p = IF o + i < Size THEN o + i ELSE o + i - Size
    BY <1>1, Wrap, SizeAssumption
  <2>2. w - c >= Size
    BY <1>1, <1>2
  <2> HIDE DEF o, w, c, d, p
  <2>3. p \in Slots
    BY <1>1, <2>1, SizeAssumption DEF Slots
  <2>4. d[p] = IF p < o THEN w - o + 1 + p ELSE w - Size - o + 1 + p
    BY <1>1, <2>2, <2>3 DEF Holds
  <2>5. d[p] = w - Size + 1 + i
    BY <1>1, <2>1, <2>3, <2>4, SizeAssumption DEF Slots
  <2>6. QED
    BY <2>5 DEF p
<1>3. ASSUME ~b.had_wraparound
      PROVE  o = w - c /\ \A i \in 0 .. o - 1 : d[(0 + i) % Size] = c + 1 + i
  <2> HIDE DEF o, w, c, d
  <2>1. o = w - c /\ \A j \in 0 .. o - 1 : d[j] = c + 1 + j
    BY <1>1, <1>3, SizeAssumption DEF Holds
  <2>2. ASSUME NEW i \in 0 .. o - 1 PROVE (0 + i) % Size = i
    <3>1. 0 \in Slots /\ i \in 0 .. Size /\ 0 + i < Size /\ 0 + i = i
      BY <1>1, SizeAssumption DEF Slots
    <3>2. QED
      BY <3>1, Wrap
  <2>3. QED
    BY <2>1, <2>2
<1>4. CASE b.had_wraparound
  <2>1. ValidSize(b) = Size /\ ExpectedCount(b) = Size /\ ExpectedFirst(b) = w - Size + 1
    BY <1>1, <1>4, SizeAssumption DEF ValidSize, ExpectedCount, ExpectedFirst, Lesser
  <2>2. QED
    BY <1>2, <1>4, <2>1 DEF OutputElement, ReadOffset
<1>5. CASE ~b.had_wraparound
  <2>1. /\ ValidSize(b) = o /\ o = w - c /\ o < Size
        /\ ExpectedCount(b) = o /\ ExpectedFirst(b) = c + 1
    BY <1>1, <1>3, <1>5, SizeAssumption
    DEF ValidSize, ExpectedCount, ExpectedFirst, Lesser, Slots
  <2>2. QED
    BY <1>3, <1>5, <2>1 DEF OutputElement, ReadOffset
<1>6. QED
  BY <1>1, <1>4, <1>5

\* The expected entries are the last ones written, up to the last.
LEMMA ExpectedRange ==
  ASSUME NEW b \in Copies, CopyOK(b)
  PROVE  /\ b.written \in Nat
         /\ ExpectedFirst(b) \in Nat
         /\ ValidSize(b) \in Nat
         /\ ExpectedFirst(b) + ValidSize(b) - 1 = b.written
<1> DEFINE w == b.written  c == b.cleared
<1>1. w \in Nat /\ c \in Nat /\ c <= w
  BY DEF Copies, CopyOK
<1>2. ValidSize(b) = ExpectedCount(b)
  BY OutputOrder
<1>3. /\ ExpectedCount(b) = IF Size <= w - c THEN Size ELSE w - c
      /\ ExpectedFirst(b) = w - ExpectedCount(b) + 1
  BY DEF ExpectedFirst, ExpectedCount, Lesser
<1> HIDE DEF w, c
<1>4. ExpectedCount(b) \in Nat /\ ExpectedCount(b) <= w
  BY <1>1, <1>3, SizeAssumption
<1>5. QED
  BY <1>1, <1>2, <1>3, <1>4 DEF w

\* memutil_open_ringbuffer establishes the invariant.
LEMMA InitIInv == Init => IInv
<1> SUFFICES ASSUME Init PROVE IInv
  OBVIOUS
<1> USE SizeAssumption DEF Init
<1>1. NoCopy \in Copies
  BY DEF NoCopy, Copies, Slots
<1>2. TypeOK
  <2>1. data \in [Slots -> Nat] /\ insert_offset \in Slots
    BY DEF Slots
  <2>2. out \in [Readers -> Seq(Nat)]
    BY <<>> \in Seq(Nat)
  <2>3. QED
    BY <1>1, <2>1, <2>2 DEF TypeOK
<1>3. LockInv /\ RingInv
  BY DEF LockInv, RingInv, Holds
<1>4. CopyInv /\ DeliveryInv
  BY DEF CopyInv, DeliveryInv
<1>5. QED
  BY <1>2, <1>3, <1>4 DEF IInv

\* A reader that outputs an element has not reached the end of its copy.
LEMMA OutputFacts ==
  ASSUME IInv, NEW r \in Readers, ReadOutput(r)
  PROVE  /\ rpc[r] = "output" /\ copy[r] \in Copies /\ CopyOK(copy[r])
         /\ out[r] \in Seq(Nat) /\ Len(out[r]) \in Nat /\ Len(out[r]) < ValidSize(copy[r])
         /\ ValidSize(copy[r]) \in Nat
<1>1. /\ rpc[r] = "output"
      /\ out[r] \in Seq(Nat) /\ Len(out[r]) \in Nat /\ Len(out[r]) < ValidSize(copy[r])
  BY DEF ReadOutput, IInv, TypeOK
<1>2. copy[r] \in Copies
  BY DEF IInv, TypeOK
<1>3. CopyOK(copy[r])
  BY <1>1 DEF IInv, CopyInv
<1>4. ValidSize(copy[r]) \in Nat
  BY <1>2, SizeAssumption DEF ValidSize, Copies, Slots
<1> QED
  BY <1>1, <1>2, <1>3, <1>4

\* Every step of the hook and of a reader preserves the invariant.
LEMMA StepIInv == IInv /\ [Next]_vars => IInv'
<1> SUFFICES ASSUME IInv, [Next]_vars PROVE IInv'
  OBVIOUS
<1> USE SizeAssumption DEF IInv
<1>1. ASSUME NEW count \in 1 .. MaxBatch, WriteCall(count) PROVE IInv'
  BY <1>1 DEF WriteCall, buffer, readers, TypeOK, LockInv, RingInv, CopyInv, DeliveryInv
<1>2. CASE WriteLock
  <2>1. TypeOK' /\ LockInv'
    BY <1>2 DEF WriteLock, readers, TypeOK, LockInv
  <2>2. RingInv'
    <3>1. had_wraparound <=> written - cleared >= Size
      BY <1>2 DEF WriteLock, RingInv, TypeOK
    <3>2. ~had_wraparound => insert_offset = written - cleared
      BY <3>1 DEF TypeOK, RingInv, Holds
    <3>3. had_wraparound' <=> written - cleared + wleft >= Size
      <4>1. CASE had_wraparound
        <5>1. written - cleared + wleft >= Size
          BY <3>1, <4>1 DEF TypeOK
        <5>2. had_wraparound' = TRUE
          BY <1>2, <4>1, Zenon DEF WriteLock
        <5>3. QED
          BY <5>1, <5>2
      <4>2. CASE ~had_wraparound
        BY <1>2, <3>2, <4>2 DEF WriteLock, ReachesEnd, TypeOK
      <4>3. QED
        BY <4>1, <4>2
    <3>4. QED
      BY <1>2, <3>3 DEF WriteLock, RingInv
  <2>3. CopyInv' /\ DeliveryInv'
    BY <1>2 DEF WriteLock, readers, CopyInv, DeliveryInv
  <2>4. QED
    BY <2>1, <2>2, <2>3
<1>3. CASE WriteEntry
  <2>1. /\ insert_offset' \in Slots
        /\ Holds(data', insert_offset', written', cleared')
    <3>1. insert_offset' = IF insert_offset + 1 < Size THEN insert_offset + 1 ELSE 0
      <4>1. 1 \in 0 .. Size /\ insert_offset \in Slots
        BY DEF TypeOK
      <4>2. insert_offset'
              = IF insert_offset + 1 < Size THEN insert_offset + 1 ELSE insert_offset + 1 - Size
        BY <1>3, <4>1, Wrap DEF WriteEntry, NextOffset
      <4>3. QED
        BY <4>1, <4>2 DEF Slots
    <3>2. QED
      BY <1>3, <3>1, HoldsStore DEF WriteEntry, TypeOK, RingInv
  <2>2. TypeOK' /\ LockInv'
    BY <1>3, <2>1 DEF WriteEntry, readers, TypeOK, LockInv
  <2>3. RingInv'
    BY <1>3, <2>1 DEF WriteEntry, TypeOK, RingInv
  <2>4. CopyInv' /\ DeliveryInv'
    BY <1>3 DEF WriteEntry, readers, CopyInv, DeliveryInv
  <2>5. QED
    BY <2>2, <2>3, <2>4
<1>4. CASE WriteUnlock
  BY <1>4 DEF WriteUnlock, buffer, readers, TypeOK, LockInv, RingInv, CopyInv, DeliveryInv
<1>5. ASSUME NEW r \in Readers, NEW here \in BOOLEAN, ReadCall(r, here) PROVE IInv'
  <2>1. TypeOK' /\ LockInv'
    BY <1>5 DEF ReadCall, buffer, TypeOK, LockInv
  <2>2. RingInv'
    BY <1>5 DEF ReadCall, buffer, RingInv
  <2>3. CopyInv' /\ DeliveryInv'
    BY <1>5 DEF ReadCall, TypeOK, CopyInv, DeliveryInv
  <2>4. QED
    BY <2>1, <2>2, <2>3
<1>6. ASSUME NEW r \in Readers, ReadFail(r) PROVE IInv'
  BY <1>6 DEF ReadFail, buffer, TypeOK, LockInv, RingInv, CopyInv, DeliveryInv
<1>7. ASSUME NEW r \in Readers, ReadAlloc(r) PROVE IInv'
  BY <1>7 DEF ReadAlloc, buffer, TypeOK, LockInv, RingInv, CopyInv, DeliveryInv
<1>8. ASSUME NEW r \in Readers, ReadLock(r) PROVE IInv'
  <2>1. TypeOK' /\ LockInv'
    BY <1>8 DEF ReadLock, CanRun, buffer, TypeOK, LockInv
  <2>2. RingInv'
    BY <1>8 DEF ReadLock, buffer, RingInv
  <2>3. CopyInv' /\ DeliveryInv'
    BY <1>8 DEF ReadLock, TypeOK, CopyInv, DeliveryInv
  <2>4. QED
    BY <2>1, <2>2, <2>3
<1>9. ASSUME NEW r \in Readers, ReadCopy(r) PROVE IInv'
  <2> DEFINE b == [data |-> CopiedData, insert_offset |-> insert_offset,
                   had_wraparound |-> had_wraparound,
                   written |-> written, cleared |-> cleared]
  <2>1. b \in Copies
    BY DEF CopiedData, Copies, TypeOK
  <2>2. TypeOK'
    <3>1. copy' \in [Readers -> Copies]
      BY <1>9, <2>1 DEF ReadCopy, TypeOK
    <3>2. insert_offset' \in Slots
      BY <1>9 DEF ReadCopy, ClearBuffer, Slots
    <3>3. QED
      BY <1>9, <3>1, <3>2 DEF ReadCopy, ClearBuffer, TypeOK
  <2>3. LockInv'
    BY <1>9 DEF ReadCopy, TypeOK, LockInv
  <2>4. RingInv'
    BY <1>9 DEF ReadCopy, ClearBuffer, TypeOK, LockInv, RingInv, Holds, Slots
  <2>5. CopyOK(b)
    <3>1. had_wraparound <=> written - cleared >= Size
      <4>1. wpc # "loop"
        BY <1>9 DEF ReadCopy, LockInv
      <4>2. QED
        BY <4>1 DEF RingInv, TypeOK
    <3>2. Holds(CopiedData, insert_offset, written, cleared)
      BY <3>1 DEF RingInv, Holds, CopiedData, TypeOK, Slots
    <3>3. QED
      BY <3>1, <3>2 DEF CopyOK, RingInv
  <2>6. CopyInv'
    <3>1. out[r] = <<>> /\ 0 <= ValidSize(b)
      BY <1>9 DEF ReadCopy, CopyInv, ValidSize, TypeOK, Slots
    <3>2. copy'[r] = b /\ rpc'[r] = "output" /\ out'[r] = <<>>
      BY <1>9, <3>1 DEF ReadCopy, TypeOK
    <3>3. ASSUME NEW s \in Readers, s # r
          PROVE  copy'[s] = copy[s] /\ rpc'[s] = rpc[s] /\ out'[s] = out[s]
      BY <1>9, <3>3 DEF ReadCopy, TypeOK
    <3>4. QED
      BY <2>5, <3>1, <3>2, <3>3 DEF CopyInv
  <2>7. DeliveryInv'
    <3>1. /\ copy' = [copy EXCEPT ![r] = b]
          /\ cleared' = written
          /\ rpc' = [rpc EXCEPT ![r] = "output"]
          /\ UNCHANGED <<out, delivered>>
      BY <1>9 DEF ReadCopy
    <3>2. b.written = written /\ b.cleared = cleared
      OBVIOUS
    <3>3. cleared <= ExpectedFirst(b) - 1 /\ ExpectedFirst(b) \in Nat /\ Len(out[r]) = 0
      BY <1>9 DEF ReadCopy, ExpectedFirst, ExpectedCount, Lesser, TypeOK, RingInv, CopyInv
    <3>4. cleared <= written
      BY DEF RingInv
    <3>5. copy'[r] = b /\ \A s \in Readers : s # r => copy'[s] = copy[s] /\ rpc'[s] = rpc[s]
      BY <3>1 DEF TypeOK
    <3> HIDE DEF b
    <3>6. \A n \in delivered : n <= cleared'
      BY <3>1, <3>4 DEF DeliveryInv, TypeOK
    <3>7. \A s \in Readers : rpc'[s] = "output" =>
            /\ copy'[s].written <= cleared'
            /\ \A n \in delivered :
                 n < ExpectedFirst(copy'[s]) + Len(out[s]) \/ n > copy'[s].written
      <4>1. \A n \in delivered : n < ExpectedFirst(b) + Len(out[r])
        BY <3>3 DEF DeliveryInv, TypeOK
      <4>2. ASSUME NEW s \in Readers, s # r, rpc[s] = "output" PROVE copy[s].written <= written
        BY <3>4, <4>2, SMTT(60) DEF DeliveryInv, TypeOK, Copies
      <4>3. QED
        BY <3>1, <3>2, <3>5, <4>1, <4>2 DEF DeliveryInv, TypeOK
    <3>8. ASSUME NEW s \in Readers, NEW t \in Readers, rpc'[s] = "output", rpc'[t] = "output",
                 s # t
          PROVE  copy'[s].written <= copy'[t].cleared \/ copy'[t].written <= copy'[s].cleared
      BY <3>2, <3>5, <3>8 DEF DeliveryInv
    <3>9. QED
      BY <3>1, <3>6, <3>7, <3>8 DEF DeliveryInv
  <2>8. QED
    BY <2>2, <2>3, <2>4, <2>6, <2>7
<1>10. ASSUME NEW r \in Readers, ReadOutput(r) PROVE IInv'
  <2> DEFINE n == Len(out[r])
             e == OutputElement(copy[r], n)
  <2>1. /\ rpc[r] = "output" /\ copy[r] \in Copies /\ CopyOK(copy[r])
        /\ out[r] \in Seq(Nat) /\ n \in Nat /\ n < ValidSize(copy[r])
        /\ ValidSize(copy[r]) \in Nat
    BY <1>10, OutputFacts
  <2>2. /\ ValidSize(copy[r]) = ExpectedCount(copy[r])
        /\ e = ExpectedFirst(copy[r]) + n
    BY <2>1, OutputOrder
  <2>3. /\ ExpectedFirst(copy[r]) \in Nat
        /\ copy[r].cleared < e /\ e <= copy[r].written /\ e \in Nat
    <3>1. ExpectedFirst(copy[r]) = copy[r].written - ExpectedCount(copy[r]) + 1
      BY DEF ExpectedFirst
    <3>2. /\ ExpectedCount(copy[r]) <= copy[r].written - copy[r].cleared
          /\ ExpectedCount(copy[r]) \in Nat /\ n < ExpectedCount(copy[r])
          /\ copy[r].written \in Nat /\ copy[r].cleared \in Nat
      BY <2>1, <2>2 DEF ExpectedCount, Lesser, Copies, CopyOK
    <3> HIDE DEF e, n
    <3>3. QED
      BY <2>1, <2>2, <3>1, <3>2, SMTT(60)
  <2>4. /\ out' = [out EXCEPT ![r] = Append(out[r], e)]
        /\ delivered' = delivered \cup {e}
        /\ UNCHANGED <<buffer, lock, wpc, wleft, rpc, on_cpu, irqs_off, copy,
                       written, cleared>>
    BY <1>10 DEF ReadOutput
  <2> HIDE DEF e
  <2>5. Append(out[r], e) \in Seq(Nat) /\ Len(Append(out[r], e)) = n + 1
    BY <2>1, <2>3
  <2>6. TypeOK' /\ LockInv' /\ RingInv'
    BY <2>3, <2>4, <2>5 DEF buffer, TypeOK, LockInv, RingInv
  <2>7. CopyInv'
    <3>1. \A k \in 1 .. n + 1 : Append(out[r], e)[k] = ExpectedFirst(copy[r]) + k - 1
      BY <2>1, <2>2, <2>3, <2>5 DEF CopyInv
    <3>2. \A s \in Readers : s # r => out'[s] = out[s]
      BY <2>4 DEF TypeOK
    <3>3. out'[r] = Append(out[r], e)
      BY <2>4 DEF TypeOK
    <3>4. QED
      BY <2>1, <2>4, <2>5, <3>1, <3>2, <3>3 DEF CopyInv
  <2>8. DeliveryInv'
    <3>1. ASSUME NEW s \in Readers, s # r, rpc[s] = "output"
          PROVE  /\ e < ExpectedFirst(copy[s]) \/ e > copy[s].written
                 /\ ExpectedFirst(copy[s]) \in Nat /\ Len(out[s]) \in Nat
      <4>1. copy[s].written <= copy[r].cleared \/ copy[r].written <= copy[s].cleared
        BY <2>1, <3>1 DEF DeliveryInv
      <4>2. copy[s] \in Copies /\ CopyOK(copy[s]) /\ out[s] \in Seq(Nat)
        BY <3>1 DEF TypeOK, CopyInv
      <4>3. /\ copy[s].written \in Nat /\ copy[s].cleared \in Nat
            /\ copy[r].written \in Nat /\ copy[r].cleared \in Nat
        BY <2>1, <4>2 DEF Copies
      <4>4. copy[s].cleared < ExpectedFirst(copy[s]) /\ ExpectedFirst(copy[s]) \in Nat
        BY <4>2, <4>3 DEF CopyOK, ExpectedFirst, ExpectedCount, Lesser
      <4>5. QED
        BY <2>3, <4>1, <4>2, <4>3, <4>4
    <3>2. Len(out'[r]) = n + 1 /\ \A s \in Readers : s # r => out'[s] = out[s]
      BY <2>4, <2>5 DEF TypeOK
    <3>3. copy[r].written <= cleared /\ copy[r].written \in Nat
      BY <2>1 DEF DeliveryInv, Copies
    <3>4. \A m \in delivered' : m <= cleared'
      BY <2>3, <2>4, <3>3 DEF DeliveryInv, TypeOK
    <3>5. ASSUME NEW s \in Readers, rpc[s] = "output", NEW m \in delivered'
          PROVE  m < ExpectedFirst(copy[s]) + Len(out'[s]) \/ m > copy[s].written
      <4>1. CASE s = r
        BY <2>1, <2>2, <2>3, <2>4, <3>2, <4>1 DEF DeliveryInv, TypeOK
      <4>2. CASE s # r
        BY <2>3, <2>4, <3>1, <3>2, <3>5, <4>2 DEF DeliveryInv, TypeOK
      <4>3. QED
        BY <4>1, <4>2
    <3>6. QED
      BY <2>4, <3>4, <3>5 DEF DeliveryInv
  <2>9. QED
    BY <2>6, <2>7, <2>8
<1>11. ASSUME NEW r \in Readers, ReadReturn(r) PROVE IInv'
  <2>1. NoCopy \in Copies
    BY DEF NoCopy, Copies, Slots
  <2>2. TypeOK'
    BY <1>11, <2>1 DEF ReadReturn, buffer, TypeOK
  <2>3. LockInv' /\ RingInv'
    BY <1>11 DEF ReadReturn, buffer, TypeOK, LockInv, RingInv
  <2>4. CopyInv' /\ DeliveryInv'
    BY <1>11 DEF ReadReturn, TypeOK, CopyInv, DeliveryInv
  <2>5. QED
    BY <2>2, <2>3, <2>4
<1>12. CASE UNCHANGED vars
  BY <1>12 DEF vars, buffer, readers, TypeOK, LockInv, RingInv, CopyInv, DeliveryInv
<1>13. QED
  BY <1>1, <1>2, <1>3, <1>4, <1>5, <1>6, <1>7, <1>8, <1>9, <1>10, <1>11, <1>12
  DEF Next, WriteStep, ReadStep

\* IInv is an invariant of Ringbuffer.
THEOREM Invariance == Spec => []IInv
  BY InitIInv, StepIInv, PTL DEF Spec

\* Every variable keeps its type; in particular insert_offset never leaves the
\* buffer, whatever count memutil_write_ringbuffer is given.
THEOREM TypeCorrect == Spec => []TypeOK
<1>1. IInv => TypeOK
  BY DEF IInv
<1>2. QED
  BY <1>1, Invariance, PTL

\* A reader outputs exactly the newest entries of the buffer it copied, oldest
\* first, for every buffer size and any number of wraparounds.
THEOREM OutputCorrect == Spec => []OutputIsNewestEntries
<1>1. IInv => OutputIsNewestEntries
  BY OutputOrder DEF IInv, TypeOK, CopyInv, OutputIsNewestEntries
<1>2. QED
  BY <1>1, Invariance, PTL

\* The hook never spins on a lock that a reader on its own CPU holds.
THEOREM DeadlockFree == Spec => []NoSelfDeadlock
<1>1. IInv => NoSelfDeadlock
  BY DEF IInv, LockInv, NoSelfDeadlock
<1>2. QED
  BY <1>1, Invariance, PTL

\* Only an entry that Size newer ones follow is ever overwritten.
THEOREM NothingLostEarly == Spec => []NewestStayInBuffer
<1>1. IInv => NewestStayInBuffer
  <2> SUFFICES ASSUME IInv, NEW n \in 1 .. written, n > cleared, n > written - Size
               PROVE  \E j \in Slots : data[j] = n
    BY DEF NewestStayInBuffer
  <2> USE SizeAssumption DEF IInv, TypeOK, RingInv, Holds, Slots
  <2>1. CASE written - cleared < Size
    <3>1. n - cleared - 1 \in 0 .. insert_offset - 1
      BY <2>1
    <3>2. data[n - cleared - 1] = n
      BY <2>1, <3>1
    <3>3. QED
      BY <3>1, <3>2
  <2>2. CASE written - cleared >= Size
    <3>1. CASE n > written - insert_offset
      <4>1. n - written + insert_offset - 1 \in Slots
        BY <3>1
      <4>2. data[n - written + insert_offset - 1] = n
        BY <2>2, <3>1, <4>1
      <4>3. QED
        BY <4>1, <4>2
    <3>2. CASE n <= written - insert_offset
      <4>1. n - written + Size + insert_offset - 1 \in Slots
        BY <3>2
      <4>2. data[n - written + Size + insert_offset - 1] = n
        BY <2>2, <3>2, <4>1
      <4>3. QED
        BY <4>1, <4>2
    <3>3. QED
      BY <3>1, <3>2
  <2>3. QED
    BY <2>1, <2>2
<1>2. QED
  BY <1>1, Invariance, PTL

\* No entry is output twice, by one reader or by two.
THEOREM DeliveredOnce == Spec => NoEntryTwice
<1>1. IInv /\ [Next]_vars =>
        [\A r \in Readers :
           Len(out'[r]) > Len(out[r]) => out'[r][Len(out'[r])] \notin delivered]_vars
  <2> SUFFICES ASSUME IInv, Next, NEW r \in Readers, Len(out'[r]) > Len(out[r])
               PROVE  out'[r][Len(out'[r])] \notin delivered
    BY DEF vars, readers
  <2> USE DEF IInv
  <2>1. ReadOutput(r)
    BY DEF Next, WriteStep, ReadStep, WriteCall, WriteLock, WriteEntry, WriteUnlock,
           ReadCall, ReadFail, ReadAlloc, ReadLock, ReadCopy, ReadOutput, ReadReturn, readers, TypeOK
  <2> DEFINE n == Len(out[r])
             e == OutputElement(copy[r], n)
  <2>2. /\ rpc[r] = "output" /\ copy[r] \in Copies /\ CopyOK(copy[r])
        /\ out[r] \in Seq(Nat) /\ n \in Nat /\ n < ValidSize(copy[r])
        /\ ValidSize(copy[r]) \in Nat
    BY <2>1, OutputFacts
  <2>3. /\ ValidSize(copy[r]) = ExpectedCount(copy[r])
        /\ e = ExpectedFirst(copy[r]) + n
    BY <2>2, OutputOrder
  <2>4. e \in Nat /\ e <= copy[r].written
    BY <2>2, <2>3, ExpectedRange
  <2>5. out'[r] = Append(out[r], e)
    BY <2>1 DEF ReadOutput, TypeOK
  <2> HIDE DEF e
  <2>6. out'[r][Len(out'[r])] = e
    BY <2>2, <2>4, <2>5
  <2>7. \A m \in delivered : m \in Nat /\ (m < e \/ m > copy[r].written)
    BY <2>2, <2>3 DEF DeliveryInv, TypeOK
  <2>8. QED
    BY <2>2, <2>4, <2>6, <2>7 DEF Copies
<1>2. QED
  BY <1>1, Invariance, PTL DEF Spec, NoEntryTwice

\* What iterations n and later of memutil_output_data find in a copy.
LEMMA Remaining ==
  ASSUME NEW b \in Copies, CopyOK(b), NEW n \in Nat, n <= ValidSize(b)
  PROVE  {OutputElement(b, i) : i \in n .. ValidSize(b) - 1}
           = ExpectedFirst(b) + n .. b.written
<1> DEFINE f == ExpectedFirst(b)  v == ValidSize(b)
<1>1. f \in Int /\ v \in Nat /\ b.written \in Nat /\ f + v - 1 = b.written
  BY ExpectedRange
<1>2. \A i \in n .. v - 1 : OutputElement(b, i) = f + i
  BY <1>1, OutputOrder
<1> HIDE DEF f, v
<1>3. ASSUME NEW m \in f + n .. b.written
      PROVE  \E i \in n .. v - 1 : OutputElement(b, i) = m
  <2>1. m - f \in n .. v - 1 /\ f + (m - f) = m
    BY <1>1
  <2>2. QED
    BY <1>2, <2>1
<1>4. \A i \in n .. v - 1 : OutputElement(b, i) \in f + n .. b.written
  BY <1>1, <1>2
<1>5. QED
  BY <1>3, <1>4 DEF f, v

\* What reader r holds while it outputs.
LEMMA HeldRange ==
  ASSUME IInv, NEW r \in Readers, rpc[r] = "output"
  PROVE  Held(r) = ExpectedFirst(copy[r]) + Len(out[r]) .. copy[r].written
<1>1. /\ copy[r] \in Copies /\ CopyOK(copy[r])
      /\ Len(out[r]) \in Nat /\ Len(out[r]) <= ValidSize(copy[r])
  BY DEF IInv, CopyInv, TypeOK
<1>2. QED
  BY <1>1, Remaining DEF Held

\* Ring buffer, lock and copies implement the lossy log.
THEOREM RefinesLossyLog == Spec => ImplementsLossyLog
<1>1. Init => LL!Init
  BY SizeAssumption DEF Init, LL!Init, Pending, Held
<1>2. IInv /\ IInv' /\ [Next]_vars => [LL!Next]_(LL!vars)
  <2> SUFFICES ASSUME IInv, IInv', [Next]_vars
               PROVE  LL!Next \/ UNCHANGED LL!vars
    OBVIOUS
  <2> USE SizeAssumption
  <2>1. ASSUME NEW count \in 1 .. MaxBatch, WriteCall(count)
        PROVE  UNCHANGED LL!vars
    BY <2>1 DEF WriteCall, readers, LL!vars, Pending, Held
  <2>2. CASE WriteLock \/ WriteUnlock
    BY <2>2 DEF WriteLock, WriteUnlock, readers, LL!vars, Pending, Held
  <2>3. CASE WriteEntry
    <3>1. written' = written + 1 /\ cleared' = cleared /\ UNCHANGED readers
      BY <2>3 DEF WriteEntry
    <3>2. written \in Nat /\ cleared \in Nat /\ cleared <= written
      BY DEF IInv, TypeOK, RingInv
    <3>3. Pending' = {n \in Pending \cup {written'} : n > written' - Size}
      BY <3>1, <3>2 DEF Pending
    <3>4. UNCHANGED <<[r \in Readers |-> Held(r)], delivered>>
      BY <3>1 DEF Held, readers
    <3>5. QED
      BY <3>1, <3>3, <3>4 DEF LL!Next, LL!Log
  <2>4. ASSUME NEW r \in Readers, NEW here \in BOOLEAN, ReadCall(r, here)
        PROVE  UNCHANGED LL!vars
    BY <2>4 DEF ReadCall, LL!vars, Pending, Held, IInv, TypeOK
  <2>5. ASSUME NEW r \in Readers, ReadFail(r) \/ ReadAlloc(r) \/ ReadLock(r)
        PROVE  UNCHANGED LL!vars
    <3>1. UNCHANGED <<copy, out, delivered, written, cleared>>
      BY <2>5 DEF ReadFail, ReadAlloc, ReadLock
    <3>2. \A s \in Readers : rpc'[s] = "output" <=> rpc[s] = "output"
      BY <2>5 DEF ReadFail, ReadAlloc, ReadLock, IInv, TypeOK
    <3>3. \A s \in Readers : Held(s)' = Held(s)
      BY <3>1, <3>2 DEF Held
    <3>4. QED
      BY <3>1, <3>3 DEF LL!vars, Pending
  <2>6. ASSUME NEW r \in Readers, ReadCopy(r) PROVE LL!Take(r)
    <3>1. /\ rpc[r] = "locked" /\ rpc' = [rpc EXCEPT ![r] = "output"]
          /\ rpc'[r] = "output" /\ out[r] = <<>> /\ out' = out
          /\ written' = written /\ cleared' = written /\ delivered' = delivered
          /\ copy'[r].written = written /\ copy'[r].cleared = cleared
          /\ \A s \in Readers \ {r} : copy'[s] = copy[s] /\ rpc'[s] = rpc[s]
      BY <2>6 DEF ReadCopy, IInv, CopyInv, TypeOK
    <3>2. written \in Nat /\ cleared \in Nat /\ cleared <= written
      BY DEF IInv, TypeOK, RingInv
    <3>3. (copy[r] \in Copies)' /\ CopyOK(copy[r])' /\ (Len(out[r]) = 0)'
      BY <3>1 DEF IInv, CopyInv, TypeOK
    <3>4. Held(r)' = ExpectedFirst(copy[r])' .. copy'[r].written
      <4>1. 0 <= ValidSize(copy'[r]) /\ ExpectedFirst(copy'[r]) + 0 = ExpectedFirst(copy'[r])
        BY <3>1, <3>2, <3>3
           DEF ValidSize, Copies, Slots, ExpectedFirst, ExpectedCount, Lesser
      <4>2. Held(r)' = {OutputElement(copy'[r], i) : i \in 0 .. ValidSize(copy'[r]) - 1}
        BY <3>1, <3>3 DEF Held, ValidSize, OutputElement, ReadOffset
      <4>3. QED
        BY <3>3, <4>1, <4>2, Remaining, SMTT(60)
           DEF CopyOK, Holds, ExpectedFirst, ExpectedCount, Lesser
    <3>5. Held(r)' = Pending
      BY <3>1, <3>2, <3>4 DEF Pending, ExpectedFirst, ExpectedCount, Lesser
    <3>6. Held(r) = {} /\ Pending' = {}
      BY <3>1, <3>2 DEF Held, Pending
    <3>7. \A s \in Readers \ {r} : Held(s)' = Held(s)
      <4> SUFFICES ASSUME NEW s \in Readers \ {r} PROVE Held(s)' = Held(s)
        OBVIOUS
      <4>1. copy'[s] = copy[s] /\ rpc'[s] = rpc[s] /\ out'[s] = out[s]
        BY <3>1
      <4>2. QED
        BY <4>1 DEF Held, ValidSize, OutputElement, ReadOffset
    <3>8. QED
      BY <3>1, <3>5, <3>6, <3>7 DEF LL!Take
  <2>7. ASSUME NEW r \in Readers, ReadOutput(r) PROVE LL!Show(r)
    <3> DEFINE e == OutputElement(copy[r], Len(out[r]))
               n == Len(out[r])
    <3>1. /\ rpc[r] = "output" /\ n < ValidSize(copy[r]) /\ n \in Nat
          /\ out' = [out EXCEPT ![r] = Append(@, e)] /\ delivered' = delivered \cup {e}
          /\ rpc' = rpc /\ copy' = copy /\ written' = written /\ cleared' = cleared
      BY <2>7 DEF ReadOutput, IInv, TypeOK
    <3>2. copy[r] \in Copies /\ CopyOK(copy[r]) /\ ValidSize(copy[r]) \in Nat
      <4>1. copy[r] \in Copies /\ CopyOK(copy[r])
        BY <3>1 DEF IInv, CopyInv, TypeOK
      <4>2. QED
        BY <4>1, ExpectedRange
    <3>3. /\ e = ExpectedFirst(copy[r]) + n /\ e \in Int
          /\ copy[r].written = ExpectedFirst(copy[r]) + ValidSize(copy[r]) - 1
          /\ ExpectedFirst(copy[r]) \in Int /\ copy[r].written \in Nat
      BY <3>1, <3>2, OutputOrder, ExpectedRange
    <3>4. Len(out'[r]) = n + 1 /\ \A s \in Readers \ {r} : out'[s] = out[s]
      BY <3>1, <3>2, <3>3 DEF IInv, TypeOK
    <3>5. Held(r) = e .. copy[r].written
      BY <3>1, <3>3, HeldRange
    <3>6. Held(r)' = e + 1 .. copy[r].written
      <4>1. n + 1 \in Nat /\ n + 1 <= ValidSize(copy[r])
        BY <3>1, <3>2
      <4>2. Held(r)' = {OutputElement(copy[r], i) : i \in n + 1 .. ValidSize(copy[r]) - 1}
        BY <3>1, <3>4, SMTT(60) DEF Held, ValidSize, OutputElement, ReadOffset
      <4>3. Held(r)' = ExpectedFirst(copy[r]) + (n + 1) .. copy[r].written
        BY <3>2, <4>1, <4>2, Remaining
      <4> HIDE DEF e, n
      <4>4. QED
        BY <3>1, <3>3, <4>3
    <3>7. \A s \in Readers \ {r} : Held(s)' = Held(s)
      BY <3>1, <3>4 DEF Held, ValidSize, OutputElement, ReadOffset
    <3> HIDE DEF e
    <3>8. /\ e \in Held(r) /\ \A m \in Held(r) : e <= m
          /\ Held(r)' = Held(r) \ {e}
      BY <3>1, <3>2, <3>3, <3>5, <3>6 DEF n
    <3>9. UNCHANGED <<written, Pending>>
      BY <3>1 DEF Pending
    <3>10. QED
      BY <3>1, <3>7, <3>8, <3>9 DEF LL!Show
  <2>8. ASSUME NEW r \in Readers, ReadReturn(r) PROVE UNCHANGED LL!vars
    <3>1. /\ rpc[r] = "output" /\ Len(out[r]) = ValidSize(copy[r])
          /\ rpc' = [rpc EXCEPT ![r] = "idle"] /\ copy' = [copy EXCEPT ![r] = NoCopy]
          /\ out' = [out EXCEPT ![r] = <<>>] /\ UNCHANGED <<written, cleared, delivered>>
      BY <2>8 DEF ReadReturn
    <3>2. Held(r) = {}
      <4>1. ValidSize(copy[r]) \in Nat
        BY <3>1, ExpectedRange DEF IInv, CopyInv, TypeOK
      <4>2. QED
        BY <3>1, <4>1 DEF Held
    <3>3. Held(r)' = {}
      BY <3>1 DEF Held, IInv, TypeOK
    <3>4. \A s \in Readers \ {r} : Held(s)' = Held(s)
      BY <3>1 DEF Held, IInv, TypeOK, ValidSize, OutputElement, ReadOffset
    <3>5. QED
      BY <3>1, <3>2, <3>3, <3>4 DEF LL!vars, Pending
  <2>9. CASE UNCHANGED vars
    BY <2>9 DEF vars, readers, LL!vars, Pending, Held
  <2>10. QED
    BY <2>1, <2>2, <2>3, <2>4, <2>5, <2>6, <2>7, <2>8, <2>9
    DEF Next, WriteStep, ReadStep, LL!Next
<1>3. QED
  BY <1>1, <1>2, Invariance, PTL DEF Spec, ImplementsLossyLog, LL!Spec
=============================================================================
