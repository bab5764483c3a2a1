---------------------------- MODULE MCHeuristic -----------------------------
(***************************************************************************)
(* The heuristics against exact interpolation: two event counts grow one   *)
(* by one, and the frequency each heuristic derives from them is compared  *)
(* with the value without rounding.                                        *)
(***************************************************************************)
EXTENDS Heuristic

CONSTANTS
  MaxCount,     \* bound on both counts
  MaxFreqs,     \* values of policy->max
  MinFreqs      \* values of policy->min

(***************************************************************************)
(* The parameters are in order and the limits are frequencies.  The counts *)
(* may be so large that the products of the heuristics overflow.           *)
(***************************************************************************)
ASSUME CountAssumption ==
  /\ min_stalls_per_cycle < max_stalls_per_cycle
  /\ min_ipc < max_ipc
  /\ MaxFreqs \subseteq Nat /\ MinFreqs \subseteq Nat
  /\ MaxCount \in Nat

VARIABLES
  count,        \* stalls or instructions of the interval
  cycles,       \* cycles of the interval, not 0: the caller checks that
  max_freq,
  min_freq

vars == <<count, cycles, max_freq, min_freq>>

Init ==
  /\ count = 0
  /\ cycles = 1
  /\ max_freq \in MaxFreqs
  /\ min_freq \in {f \in MinFreqs : f <= max_freq}

OneMoreEvent ==
  /\ count < MaxCount
  /\ count' = count + 1
  /\ UNCHANGED <<cycles, max_freq, min_freq>>

OneMoreCycle ==
  /\ cycles < MaxCount
  /\ cycles' = cycles + 1
  /\ UNCHANGED <<count, max_freq, min_freq>>

Next == OneMoreEvent \/ OneMoreCycle

Spec == Init /\ [][Next]_vars

StallsFreq == calculate_frequency_heuristic_stalls(count, cycles, max_freq, min_freq)
IpcFreq == calculate_frequency_heuristic_ipc(count, cycles, max_freq, min_freq)

-----------------------------------------------------------------------------
(***************************************************************************)
(* The position of count / cycles between two thresholds, as the numerator *)
(* of a fraction with denominator Whole, and the error that the two        *)
(* roundings to whole percents may add to it.                              *)
(***************************************************************************)
Whole(lo, hi) == 100 * (hi - lo) * cycles
ExactPosition(lo, hi) == clamp(100 * (100 * count - lo * cycles), 0, Whole(lo, hi))
RoundingError(lo, hi) == cycles * (100 + (hi - lo))

\* Neither product of the heuristic overflows.
StallsFit == ProductsFit(count, cycles, min_stalls_per_cycle)
IpcFit == ProductsFit(count, cycles, min_ipc)

\* calculate_frequency_heuristic_stalls interpolates: as long as its s64 products do
\* not overflow, the frequency falls linearly from max_freq at
\* min_stalls_per_cycle to min_freq at max_stalls_per_cycle, and rounding to whole
\* percents errs on the side of a higher frequency, by less than one unit on the
\* other.
StallsCloseToExact ==
  LET lo == min_stalls_per_cycle
      hi == max_stalls_per_cycle
      whole == Whole(lo, hi)
      exact == min_freq * whole + (whole - ExactPosition(lo, hi)) * (max_freq - min_freq)
  IN  StallsFit =>
        /\ StallsFreq * whole > exact - whole
        /\ StallsFreq * whole <= exact + RoundingError(lo, hi) * (max_freq - min_freq)

\* calculate_frequency_heuristic_ipc rises linearly from min_freq at min_ipc to
\* max_freq at max_ipc, as long as its products do not overflow, and rounding errs
\* on the side of a lower frequency.
IpcCloseToExact ==
  LET whole == Whole(min_ipc, max_ipc)
      exact == min_freq * whole + ExactPosition(min_ipc, max_ipc) * (max_freq - min_freq)
  IN  IpcFit =>
        /\ IpcFreq * whole <= exact
        /\ IpcFreq * whole
             > exact - whole - RoundingError(min_ipc, max_ipc) * (max_freq - min_freq)

\* At and beyond the thresholds rounding has no effect: the stalls heuristic
\* reaches both limits exactly, and so does the IPC heuristic, up to the values
\* whose products overflow.
ThresholdsReachLimits ==
  /\ StallsFit =>
       /\ 100 * count <= min_stalls_per_cycle * cycles => StallsFreq = max_freq
       /\ 100 * count >= max_stalls_per_cycle * cycles => StallsFreq = min_freq
  /\ IpcFit =>
       /\ 100 * count <= min_ipc * cycles => IpcFreq = min_freq
       /\ 100 * count >= max_ipc * cycles => IpcFreq = max_freq

\* The heuristics never react the wrong way unless a product overflows: one more
\* stall never raises the frequency and one more cycle without a stall never lowers
\* it; instructions act the other way round.
ReactsTheRightWay ==
  [][/\ StallsFit /\ StallsFit' =>
          /\ cycles' = cycles => StallsFreq' <= StallsFreq
          /\ count' = count => StallsFreq' >= StallsFreq
     /\ IpcFit /\ IpcFit' =>
          /\ cycles' = cycles => IpcFreq' >= IpcFreq
          /\ count' = count => IpcFreq' <= IpcFreq]_vars
=============================================================================
