------------------------------ MODULE LossyLog ------------------------------
(***************************************************************************)
(* What a log ring buffer promises: the writer never waits for a reader,   *)
(* the newest Size entries are kept until they are taken, a reader takes   *)
(* all of them at once and shows them oldest first.  Entries are numbered  *)
(* in the order in which they are logged.  Ringbuffer implements it.       *)
(***************************************************************************)
EXTENDS Integers

CONSTANTS Size, Readers

VARIABLES
  logged,     \* number of entries logged
  pending,    \* entries that wait to be taken
  held,       \* held[r]: entries that reader r has taken and yet to show
  delivered   \* entries that were shown

vars == <<logged, pending, held, delivered>>

Init ==
  /\ logged = 0
  /\ pending = {}
  /\ held = [r \in Readers |-> {}]
  /\ delivered = {}

\* An entry is logged; of the pending ones only the newest are kept.
Log ==
  /\ logged' = logged + 1
  /\ pending' = {n \in pending \cup {logged'} : n > logged' - Size}
  /\ UNCHANGED <<held, delivered>>

Take(r) ==
  /\ held[r] = {}
  /\ held' = [held EXCEPT ![r] = pending]
  /\ pending' = {}
  /\ UNCHANGED <<logged, delivered>>

\* The oldest entry held is shown.
Show(r) ==
  \E e \in held[r] :
    /\ \A n \in held[r] : e <= n
    /\ held' = [held EXCEPT ![r] = @ \ {e}]
    /\ delivered' = delivered \cup {e}
    /\ UNCHANGED <<logged, pending>>

Next ==
  \/ Log
  \/ \E r \in Readers : Take(r) \/ Show(r)

Spec == Init /\ [][Next]_vars
=============================================================================
