------------------------------ MODULE Mailbox ------------------------------
(***************************************************************************)
(* What the deferred frequency switch promises (main.c 502-513): a mailbox *)
(* for one frequency between the hook, which must not wait, and the        *)
(* driver, which may take long.  FreqSwitch implements it.                 *)
(***************************************************************************)
CONSTANT Freqs

VARIABLES
  open,    \* the governor is started: requests are accepted and kept
  slot,    \* {} or {f}: the newest request, not yet taken
  taken,   \* {} or {f}: the request on its way to the driver
  out      \* the frequency the driver was last told to set

vars == <<open, slot, taken, out>>

Init ==
  /\ open = FALSE
  /\ slot = {}
  /\ taken = {}
  /\ out \in Freqs

\* A start finds an empty mailbox.
Open ==
  /\ ~open
  /\ slot = {}
  /\ taken = {}
  /\ open' = TRUE
  /\ UNCHANGED <<slot, taken, out>>

Close ==
  /\ open
  /\ open' = FALSE
  /\ UNCHANGED <<slot, taken, out>>

\* A request replaces the one that was not taken yet.
Put(f) ==
  /\ open
  /\ slot' = {f}
  /\ UNCHANGED <<open, taken, out>>

Take ==
  /\ slot # {}
  /\ taken = {}
  /\ taken' = slot
  /\ slot' = {}
  /\ UNCHANGED <<open, out>>

Deliver ==
  /\ taken # {}
  /\ out' \in taken
  /\ taken' = {}
  /\ UNCHANGED <<open, slot>>

\* A fast switch reaches the driver at once and overtakes nothing.
Switch(f) ==
  /\ open
  /\ slot = {}
  /\ taken = {}
  /\ out' = f
  /\ UNCHANGED <<open, slot, taken>>

\* Only a stop drops a request.
Drop ==
  /\ ~open
  /\ slot' = {}
  /\ UNCHANGED <<open, taken, out>>

Next ==
  \/ Open
  \/ Close
  \/ \E f \in Freqs : Put(f) \/ Switch(f)
  \/ Take
  \/ Deliver
  \/ Drop

Spec == Init /\ [][Next]_vars
=============================================================================
