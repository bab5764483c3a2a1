------------------------- MODULE MCHeuristicProofs --------------------------
(***************************************************************************)
(* The heuristics are close to exact interpolation and react the right     *)
(* way, for every number of events and cycles whose products fit an s64,   *)
(* every pair of limits and all module parameters that are in order.       *)
(***************************************************************************)
EXTENDS MCHeuristic, HeuristicProofs, TLAPS

\* The counts of an interval and the limits of a policy.
IInv ==
  /\ count \in 0 .. MaxCount
  /\ cycles \in Nat \ {0}
  /\ max_freq \in Nat /\ min_freq \in Nat
  /\ min_freq <= max_freq

\* The counts stay within their bounds and the limits in order.
THEOREM Invariance == Spec => []IInv
<1>1. Init => IInv
  BY CountAssumption DEF Init, IInv
<1>2. IInv /\ [Next]_vars => IInv'
  BY CountAssumption DEF IInv, Next, OneMoreEvent, OneMoreCycle, vars
<1> QED
  BY <1>1, <1>2, PTL DEF Spec

\* The heuristics as functions of the share of events alone.
FreqOfShare ==
  /\ StallsFit =>
       StallsFreq = Interpolate(100 - Percent(Quotient(100 * count, cycles),
                                              min_stalls_per_cycle, max_stalls_per_cycle),
                                max_freq, min_freq)
  /\ IpcFit =>
       IpcFreq = Interpolate(Percent(Quotient(100 * count, cycles), min_ipc, max_ipc),
                             max_freq, min_freq)

\* They are that without overflow of the s64.
LEMMA NoOverflow == IInv => FreqOfShare
<1> SUFFICES ASSUME IInv
             PROVE  FreqOfShare
  OBVIOUS
<1>1. count \in Nat /\ cycles \in Nat /\ cycles > 0
  BY CountAssumption DEF IInv
<1>2. ASSUME NEW f, NEW g
      PROVE  /\ ProductsFit(count, cycles, min_stalls_per_cycle) =>
                  calculate_frequency_heuristic_stalls(count, cycles, f, g)
                    = Interpolate(100 - Percent(Quotient(100 * count, cycles),
                                                min_stalls_per_cycle, max_stalls_per_cycle),
                                  f, g)
             /\ ProductsFit(count, cycles, min_ipc) =>
                  calculate_frequency_heuristic_ipc(count, cycles, f, g)
                    = Interpolate(Percent(Quotient(100 * count, cycles), min_ipc, max_ipc),
                                  f, g)
  BY <1>1, FrequencyFits
<1> QED
  BY <1>2, Zenon DEF FreqOfShare, StallsFit, IpcFit, StallsFreq, IpcFreq

\* The exact position in the terms of PercentClose.
LEMMA ExactPositionClose ==
  ASSUME IInv, NEW lo \in Int, NEW hi \in Int, lo < hi
  PROVE  LET p == Percent(Quotient(100 * count, cycles), lo, hi)
             e == (hi - lo) * cycles
         IN  /\ p \in 0 .. 100
             /\ e \in Nat /\ e > 0 /\ Whole(lo, hi) = 100 * e
             /\ RoundingError(lo, hi) \in Nat
             /\ ExactPosition(lo, hi) \in Int
             /\ p * e <= ExactPosition(lo, hi)
             /\ ExactPosition(lo, hi) <= p * e + RoundingError(lo, hi)
<1> DEFINE p == Percent(Quotient(100 * count, cycles), lo, hi)
           e == (hi - lo) * cycles
<1>1. count \in Nat /\ cycles \in Nat /\ cycles > 0
  BY CountAssumption DEF IInv
<1>2. /\ p \in 0 .. 100
      /\ ExactPosition(lo, hi) \in Int
      /\ p * e <= ExactPosition(lo, hi)
      /\ ExactPosition(lo, hi) <= p * e + RoundingError(lo, hi)
  BY <1>1, PercentClose DEF ExactPosition, Whole, RoundingError
<1>3. e \in Nat /\ e > 0 /\ Whole(lo, hi) = 100 * e /\ RoundingError(lo, hi) \in Nat
  BY <1>1, Z3 DEF Whole, RoundingError
<1> QED
  BY <1>2, <1>3

\* Unless a product overflows, the frequency of the stalls heuristic is the exact
\* one, rounded up by at most the error of two percentages and down by less than
\* one unit.
THEOREM StallsClose == Spec => []StallsCloseToExact
<1>1. ASSUME IInv
      PROVE  StallsCloseToExact
  <2> DEFINE lo == min_stalls_per_cycle
             hi == max_stalls_per_cycle
             freq == Interpolate(100 - Percent(Quotient(100 * count, cycles), lo, hi),
                                 max_freq, min_freq)
             whole == 100 * (hi - lo) * cycles
             exact == min_freq * whole
                        + (whole - clamp(100 * (100 * count - lo * cycles), 0, whole))
                            * (max_freq - min_freq)
  <2>1. lo \in Int /\ hi \in Int /\ lo < hi
    BY ParameterAssumption, CountAssumption
  <2>2. /\ count \in Nat /\ cycles \in Nat /\ cycles > 0
        /\ min_freq \in Nat /\ max_freq \in Nat /\ min_freq <= max_freq
    BY <1>1, CountAssumption DEF IInv
  <2>3. StallsFit => StallsFreq = freq
    BY <1>1, NoOverflow DEF FreqOfShare
  <2>4. /\ freq * whole > exact - whole
        /\ freq * whole <= exact + (cycles * (100 + (hi - lo))) * (max_freq - min_freq)
    BY <2>1, <2>2, InvertedClose
  <2> QED
    BY <2>3, <2>4, Zenon DEF StallsCloseToExact, Whole, ExactPosition, RoundingError
<1> QED
  BY <1>1, Invariance, PTL

\* Unless a product overflows, the frequency of the IPC heuristic is the exact one,
\* rounded down.
THEOREM IpcClose == Spec => []IpcCloseToExact
<1>1. ASSUME IInv
      PROVE  IpcCloseToExact
  <2> DEFINE p == Percent(Quotient(100 * count, cycles), min_ipc, max_ipc)
             e == (max_ipc - min_ipc) * cycles
             x == ExactPosition(min_ipc, max_ipc)
             r == RoundingError(min_ipc, max_ipc)
             w == Whole(min_ipc, max_ipc)
             d == max_freq - min_freq
  <2>1. min_ipc \in Int /\ max_ipc \in Int /\ min_ipc < max_ipc
    BY ParameterAssumption, CountAssumption
  <2>2. /\ p \in 0 .. 100
        /\ e \in Nat /\ e > 0 /\ w = 100 * e /\ r \in Nat
        /\ x \in Int /\ p * e <= x /\ x <= p * e + r
    BY <1>1, <2>1, ExactPositionClose
  <2>3. d \in Nat /\ min_freq \in Nat /\ max_freq \in Nat /\ min_freq <= max_freq
    BY <1>1 DEF IInv
  <2> DEFINE freq == Interpolate(p, max_freq, min_freq)
  <2>4. IpcFit => IpcFreq = freq
    BY <1>1, NoOverflow DEF FreqOfShare
  <2> HIDE DEF p, e, x, r, w
  <2>5. PICK g \in Nat :
          /\ freq = min_freq + g
          /\ 100 * g <= p * d
          /\ p * d < 100 * g + 100
    BY <2>2, <2>3, InterpolateBounds, ZenonT(60)
  <2> HIDE DEF d, freq
  <2> DEFINE y == x - r
  <2>6. p \in Nat /\ y \in Int /\ w \in Nat /\ p * e \in Int
    BY <2>2
  <2>7. p * e >= y
    BY <2>2, <2>6
  <2>8. g * w > y * d - w
    BY <2>2, <2>3, <2>5, <2>6, <2>7, ShareAtLeast
  <2>9. g * w <= x * d
    BY <2>2, <2>3, <2>5, <2>6, ShareAtMost
  <2>10. /\ y * d = x * d - r * d
         /\ (min_freq + g) * w = min_freq * w + g * w
         /\ x * d \in Int /\ r * d \in Int /\ min_freq * w \in Int /\ g * w \in Int
    BY <2>2, <2>3, <2>5, <2>6, Z3
  <2> HIDE DEF y
  <2>11. /\ freq * w <= min_freq * w + x * d
         /\ freq * w > (min_freq * w + x * d) - w - r * d
    BY <2>5, <2>6, <2>8, <2>9, <2>10
  <2> QED
    BY <2>4, <2>11, Zenon DEF IpcCloseToExact, x, r, w, d
<1> QED
  BY <1>1, Invariance, PTL

\* At and beyond the thresholds both heuristics request exactly the limits, up to
\* values whose products overflow.
THEOREM LimitsReached == Spec => []ThresholdsReachLimits
<1>1. ASSUME IInv
      PROVE  ThresholdsReachLimits
  <2> DEFINE s == Percent(Quotient(100 * count, cycles), min_stalls_per_cycle,
                           max_stalls_per_cycle)
             p == Percent(Quotient(100 * count, cycles), min_ipc, max_ipc)
  <2>1. /\ min_stalls_per_cycle \in Int /\ max_stalls_per_cycle \in Int
        /\ min_stalls_per_cycle < max_stalls_per_cycle
        /\ min_ipc \in Int /\ max_ipc \in Int /\ min_ipc < max_ipc
    BY ParameterAssumption, CountAssumption
  <2>2. /\ count \in Nat /\ cycles \in Nat /\ cycles > 0
        /\ min_freq \in Nat /\ max_freq \in Nat /\ min_freq <= max_freq
    BY <1>1, CountAssumption DEF IInv
  <2>3. /\ 100 * count <= min_stalls_per_cycle * cycles => s = 0
        /\ 100 * count >= max_stalls_per_cycle * cycles => s = 100
    BY <2>1, <2>2, PercentAtThresholds
  <2>4. /\ 100 * count <= min_ipc * cycles => p = 0
        /\ 100 * count >= max_ipc * cycles => p = 100
    BY <2>1, <2>2, PercentAtThresholds
  <2>5. /\ StallsFit => StallsFreq = Interpolate(100 - s, max_freq, min_freq)
        /\ IpcFit => IpcFreq = Interpolate(p, max_freq, min_freq)
    BY <1>1, NoOverflow DEF FreqOfShare
  <2>6. /\ Interpolate(0, max_freq, min_freq) = min_freq
        /\ Interpolate(100, max_freq, min_freq) = max_freq
    BY <2>2, InterpolateEnds
  <2> HIDE DEF s, p
  <2>7. 100 - 0 = 100 /\ 100 - 100 = 0
    OBVIOUS
  <2> QED
    BY <2>3, <2>4, <2>5, <2>6, <2>7 DEF ThresholdsReachLimits
<1> QED
  BY <1>1, Invariance, PTL

\* One more event or cycle never moves a frequency the wrong way, unless a product
\* overflows.
THEOREM RightReaction == Spec => ReactsTheRightWay
<1> DEFINE Right ==
      /\ StallsFit /\ StallsFit' =>
           /\ cycles' = cycles => StallsFreq' <= StallsFreq
           /\ count' = count => StallsFreq' >= StallsFreq
      /\ IpcFit /\ IpcFit' =>
           /\ cycles' = cycles => IpcFreq' >= IpcFreq
           /\ count' = count => IpcFreq' <= IpcFreq
<1>1. ASSUME IInv, IInv', FreqOfShare', Next
      PROVE  Right
  <2> DEFINE q == Quotient(100 * count, cycles)
  <2>1. /\ min_stalls_per_cycle \in Int /\ max_stalls_per_cycle \in Int
        /\ min_stalls_per_cycle < max_stalls_per_cycle
        /\ min_ipc \in Int /\ max_ipc \in Int /\ min_ipc < max_ipc
    BY ParameterAssumption, CountAssumption
  <2>2. /\ 100 * count \in Nat /\ cycles \in Nat /\ cycles > 0
        /\ 100 * count' \in Nat /\ cycles' \in Nat /\ cycles' > 0
        /\ min_freq \in Nat /\ max_freq \in Nat /\ min_freq <= max_freq
        /\ min_freq' = min_freq /\ max_freq' = max_freq
    <3>1. /\ count \in Nat /\ count' \in Nat
          /\ cycles \in Nat /\ cycles > 0 /\ cycles' \in Nat /\ cycles' > 0
          /\ min_freq \in Nat /\ max_freq \in Nat /\ min_freq <= max_freq
      BY <1>1, CountAssumption DEF IInv
    <3>2. min_freq' = min_freq /\ max_freq' = max_freq
      BY <1>1 DEF Next, OneMoreEvent, OneMoreCycle
    <3>3. \A n \in Nat : 100 * n \in Nat
      OBVIOUS
    <3> QED
      BY <3>1, <3>2, <3>3
  <2>3. q \in Int /\ q' \in Int
    BY <2>2, QuotientInt
  <2> DEFINE stalls_freq(share) == Interpolate(100 - Percent(share, min_stalls_per_cycle,
                                                             max_stalls_per_cycle),
                                               max_freq, min_freq)
             ipc_freq(share) == Interpolate(Percent(share, min_ipc, max_ipc),
                                            max_freq, min_freq)
  <2>4. /\ StallsFit => StallsFreq = stalls_freq(q)
        /\ IpcFit => IpcFreq = ipc_freq(q)
    BY <1>1, NoOverflow DEF FreqOfShare
  <2>5. /\ StallsFit' => StallsFreq' = stalls_freq(q')
        /\ IpcFit' => IpcFreq' = ipc_freq(q')
    BY <1>1, <2>2 DEF FreqOfShare
  <2>6. ASSUME NEW s \in Int, NEW t \in Int, s <= t
        PROVE  stalls_freq(t) <= stalls_freq(s) /\ ipc_freq(s) <= ipc_freq(t)
    BY <2>1, <2>2, <2>6, FrequencyOfShare, ZenonT(60)
  <2>7. ASSUME NEW s \in Int, NEW t \in Int, s <= t
        PROVE  stalls_freq(s) >= stalls_freq(t) /\ ipc_freq(t) >= ipc_freq(s)
    BY <2>6, <2>7
  <2>8. CASE OneMoreEvent
    <3>1. cycles' = cycles /\ count' # count /\ 100 * count <= 100 * count'
      BY <1>1, <2>8, CountAssumption DEF IInv, OneMoreEvent
    <3>2. q <= q'
      BY <2>2, <3>1, QuotientMonotone
    <3> HIDE DEF q, stalls_freq, ipc_freq
    <3>3. stalls_freq(q') <= stalls_freq(q) /\ ipc_freq(q') >= ipc_freq(q)
      BY <2>3, <2>6, <2>7, <3>2
    <3> QED
      BY <2>4, <2>5, <3>1, <3>3
  <2>9. CASE OneMoreCycle
    <3>1. count' = count /\ cycles' # cycles /\ cycles <= cycles'
      BY <1>1, <2>9 DEF IInv, OneMoreCycle
    <3>2. q' <= q
      BY <2>2, <3>1, QuotientAntitone
    <3> HIDE DEF q, stalls_freq, ipc_freq
    <3>3. stalls_freq(q') >= stalls_freq(q) /\ ipc_freq(q') <= ipc_freq(q)
      BY <2>3, <2>6, <2>7, <3>2
    <3> QED
      BY <2>4, <2>5, <3>1, <3>3
  <2> QED
    BY <1>1, <2>8, <2>9 DEF Next
<1>2. IInv /\ IInv' /\ FreqOfShare' /\ [Next]_vars => [Right]_vars
  BY <1>1
<1> QED
  BY <1>2, NoOverflow, Invariance, PTL DEF Spec, ReactsTheRightWay
=============================================================================
