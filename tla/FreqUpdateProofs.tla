-------------------------- MODULE FreqUpdateProofs --------------------------
(***************************************************************************)
(* Proofs about FreqUpdate, for all limits, counter values, delays and     *)
(* module parameters.                                                      *)
(***************************************************************************)
EXTENDS FreqUpdate, HeuristicProofs

\* No timestamp lies in the future, and none is beyond the range of an s64.
TimeInv == now <= MaxTime /\ last_freq_update_time_ns <= MaxTime

\* last_event_value is where the interval of the next read starts, unless it is
\* left over from the events of an earlier start.
DeltaInv ==
  gov = "running" /\ ~carried =>
    \A i \in Events : count[i] = last_event_value[i] + since_read[i]

IInv == TypeOK /\ TimeInv /\ DeltaInv /\ RequestWithinLimits /\ ValuesAreOfInterval

\* The limits of a policy are ordered natural numbers.
LEMMA LimitsType ==
  ASSUME NEW l \in Limits
  PROVE  l.min \in Nat /\ l.max \in Nat /\ l.min <= l.max
  BY UpdateAssumption

\* An update requests a natural number, within the limits if it had cycles.
LEMMA UpdateRequest ==
  ASSUME TypeOK, NEW time, UpdateFrequency(time)
  PROVE  /\ last_requested_freq' \in Nat
         /\ S64(EventDelta(1)) # 0 =>
              last_requested_freq' >= limits.min /\ last_requested_freq' <= limits.max
<1>1. EventDelta(1) \in Int /\ EventDelta(2) \in Int
  BY ParameterAssumption, Z3 DEF EventDelta, TypeOK, Events
<1>2. S64(EventDelta(1)) \in Int /\ S64(EventDelta(2)) \in Int
  BY <1>1, ParameterAssumption DEF S64
<1>3. limits.min \in Nat /\ limits.max \in Nat /\ limits.min <= limits.max
  BY LimitsType DEF TypeOK
<1>4. CASE S64(EventDelta(1)) = 0
  BY <1>4 DEF UpdateFrequency, TypeOK
<1>5. CASE S64(EventDelta(1)) # 0
  <2>1. calculate_frequency_heuristic_stalls(S64(EventDelta(2)), S64(EventDelta(1)),
                                             limits.max, limits.min)
          \in limits.min .. limits.max
    BY <1>2, <1>3, <1>5, StallsWithinLimits
  <2>2. last_requested_freq'
          = calculate_frequency_heuristic_stalls(S64(EventDelta(2)), S64(EventDelta(1)),
                                                 limits.max, limits.min)
    BY <1>5 DEF UpdateFrequency
  <2>3. QED
    BY <1>3, <2>1, <2>2
<1>6. QED
  BY <1>4, <1>5

\* The initial states satisfy the invariant.
LEMMA InitIInv == Init => IInv
<1> SUFFICES ASSUME Init PROVE IInv
  OBVIOUS
<1>1. limits.min \in Nat /\ limits.max \in Nat /\ limits.min <= limits.max
  BY LimitsType DEF Init
<1>2. Zeros \in [Events -> Nat] /\ Zeros \in [Events -> 0 .. U64 - 1]
  BY ParameterAssumption DEF Zeros
<1>3. TypeOK
  BY <1>1, <1>2 DEF Init, TypeOK
<1>4. TimeInv /\ DeltaInv /\ RequestWithinLimits
  BY <1>1, UpdateAssumption DEF Init, TimeInv, DeltaInv, RequestWithinLimits
<1>5. ValuesAreOfInterval
  <2>1. 0 % U64 = 0
    BY ParameterAssumption, Z3
  <2>2. QED
    BY <2>1 DEF Init, ValuesAreOfInterval, Zeros
<1>6. QED
  BY <1>3, <1>4, <1>5 DEF IInv

\* Every step preserves the invariant.
LEMMA StepIInv == IInv /\ [Next]_vars => IInv'
<1> SUFFICES ASSUME IInv, [Next]_vars PROVE IInv'
  OBVIOUS
<1> USE DEF IInv, memutil_policy, history
<1>1. ASSUME NEW increment \in Increments, Tick(increment) PROVE IInv'
  <2>1. increment \in [Events -> Nat]
    BY UpdateAssumption
  <2>2. TypeOK'
    BY <1>1, <2>1 DEF Tick, TypeOK
  <2>3. TimeInv'
    BY <1>1, UpdateAssumption DEF Tick, TimeInv, TypeOK
  <2>4. DeltaInv'
    BY <1>1, <2>1 DEF Tick, DeltaInv, TypeOK
  <2>5. RequestWithinLimits' /\ ValuesAreOfInterval'
    BY <1>1 DEF Tick, RequestWithinLimits, ValuesAreOfInterval
  <2>6. QED
    BY <2>2, <2>3, <2>4, <2>5
<1>2. ASSUME NEW l \in Limits, MemutilLimits(l) PROVE IInv'
  BY <1>2 DEF MemutilLimits, TypeOK, TimeInv, DeltaInv, RequestWithinLimits,
              ValuesAreOfInterval
<1>3. CASE MemutilInit
  <2>1. limits.min \in Nat /\ limits.max \in Nat /\ limits.min <= limits.max
    BY LimitsType DEF TypeOK
  <2>2. Zeros \in [Events -> Nat]
    BY DEF Zeros
  <2>3. TypeOK'
    BY <1>3, <2>1, <2>2 DEF MemutilInit, TypeOK
  <2>4. TimeInv' /\ DeltaInv'
    BY <1>3, UpdateAssumption DEF MemutilInit, TimeInv, DeltaInv
  <2>5. RequestWithinLimits'
    BY <1>3, <2>1 DEF MemutilInit, RequestWithinLimits
  <2>6. ValuesAreOfInterval'
    BY <1>3 DEF MemutilInit, ValuesAreOfInterval
  <2>7. QED
    BY <2>3, <2>4, <2>5, <2>6
<1>4. CASE MemutilStart
  <2>1. Zeros \in [Events -> Nat]
    BY DEF Zeros
  <2>2. TypeOK' /\ TimeInv'
    BY <1>4, <2>1, UpdateAssumption DEF MemutilStart, TypeOK, TimeInv
  <2>3. DeltaInv'
    <3>1. ~carried' => last_event_value' = Zeros /\ count' = Zeros /\ since_read' = Zeros
      BY <1>4 DEF MemutilStart
    <3>2. QED
      BY <3>1 DEF DeltaInv, Zeros
  <2>4. RequestWithinLimits' /\ ValuesAreOfInterval'
    BY <1>4 DEF MemutilStart, RequestWithinLimits, ValuesAreOfInterval
  <2>5. QED
    BY <2>2, <2>3, <2>4
<1>5. CASE MemutilStartFail
  BY <1>5, UpdateAssumption
  DEF MemutilStartFail, TypeOK, TimeInv, DeltaInv, RequestWithinLimits, ValuesAreOfInterval
<1>6. CASE MemutilStop
  BY <1>6 DEF MemutilStop, TypeOK, TimeInv, DeltaInv, RequestWithinLimits,
              ValuesAreOfInterval
<1>7. CASE MemutilExit
  BY <1>7 DEF MemutilExit, TypeOK, TimeInv, DeltaInv, RequestWithinLimits,
              ValuesAreOfInterval
<1>8. CASE UpdateFrequency(now)
  <2>1. /\ last_requested_freq' \in Nat
        /\ S64(EventDelta(1)) # 0 =>
             last_requested_freq' >= limits.min /\ last_requested_freq' <= limits.max
        /\ S64(EventDelta(1)) = 0 => last_requested_freq' = last_requested_freq
    BY <1>8, UpdateRequest DEF UpdateFrequency
  <2>2. Zeros \in [Events -> Nat]
    BY DEF Zeros
  <2>3. \A i \in Events : EventDelta(i) \in 0 .. U64 - 1
    BY ParameterAssumption, Z3 DEF EventDelta, TypeOK
  <2>4. TypeOK'
    BY <1>8, <2>1, <2>2, <2>3 DEF UpdateFrequency, TypeOK
  <2>5. TimeInv'
    BY <1>8 DEF UpdateFrequency, TimeInv
  <2>6. DeltaInv'
    BY <1>8 DEF UpdateFrequency, DeltaInv, TypeOK, Zeros
  <2>7. RequestWithinLimits'
    <3>1. limits' = limits /\ fresh' = (fresh \/ S64(EventDelta(1)) # 0)
      BY <1>8 DEF UpdateFrequency
    <3>2. QED
      BY <2>1, <3>1 DEF RequestWithinLimits, TypeOK
  <2>8. ValuesAreOfInterval'
    <3>1. ASSUME ~carried PROVE \A i \in Events : EventDelta(i) = since_read[i] % U64
      <4>1. \A i \in Events : count[i] - last_event_value[i] = since_read[i]
        BY <1>8, <3>1 DEF UpdateFrequency, DeltaInv, TypeOK
      <4>2. QED
        BY <4>1 DEF EventDelta
    <3>2. QED
      BY <1>8, <3>1 DEF UpdateFrequency, ValuesAreOfInterval
  <2>9. QED
    BY <2>4, <2>5, <2>6, <2>7, <2>8
<1>9. ASSUME NEW skew \in 0 .. MaxSkew, now >= skew, UpdateUnread(now - skew) PROVE IInv'
  <2>1. limits.min \in Nat /\ limits.max \in Nat /\ limits.min <= limits.max
    BY LimitsType DEF TypeOK
  <2>2. now - skew \in Nat /\ now - skew <= MaxTime
    BY <1>9, UpdateAssumption DEF TypeOK, TimeInv
  <2>3. QED
    BY <1>9, <2>1, <2>2
    DEF UpdateUnread, TypeOK, TimeInv, DeltaInv, RequestWithinLimits, ValuesAreOfInterval
<1>10. CASE UNCHANGED vars
  BY <1>10 DEF vars, TypeOK, TimeInv, DeltaInv, RequestWithinLimits, ValuesAreOfInterval
<1>11. QED
  BY <1>1, <1>2, <1>3, <1>4, <1>5, <1>6, <1>7, <1>8, <1>9, <1>10 DEF Next

\* IInv is an invariant of FreqUpdate.
THEOREM Invariance == Spec => []IInv
  BY InitIInv, StepIInv, PTL DEF Spec

\* Every variable keeps its type.
THEOREM TypeCorrect == Spec => []TypeOK
<1>1. IInv => TypeOK
  BY DEF IInv
<1>2. QED
  BY <1>1, Invariance, PTL

\* The governor's request respects the limits of the policy, whatever the perf
\* events count and however often they are multiplexed or restarted.
THEOREM LimitsRespected == Spec => []RequestWithinLimits
<1>1. IInv => RequestWithinLimits
  BY DEF IInv
<1>2. QED
  BY <1>1, Invariance, PTL

\* Intervals are measured without a gap or an overlap, from the second read of
\* a start on.
THEOREM IntervalsExact == Spec => []ValuesAreOfInterval
<1>1. IInv => ValuesAreOfInterval
  BY DEF IInv
<1>2. QED
  BY <1>1, Invariance, PTL

\* A signed difference of two timestamps that fit an s64 is their difference.
LEMMA TimeDifference ==
  ASSUME NEW s \in Nat, NEW t \in Nat, 2 * s < U64, 2 * t < U64
  PROVE  S64(s - t) = s - t
<1>1. U64 \in Nat /\ s - t \in Int
  BY ParameterAssumption
<1>2. FitsS64(s - t)
  BY <1>1 DEF FitsS64
<1> QED
  BY <1>1, <1>2, S64Fits

\* Updates keep their distance although the policy's CPUs call the hook with
\* clocks that lag behind each other.
THEOREM UpdatesSpaced == Spec => UpdatesAreSpaced
<1>1. IInv /\ [Next]_vars =>
        [gov = "running" /\ gov' = "running"
           /\ last_freq_update_time_ns' # last_freq_update_time_ns
         => last_freq_update_time_ns' - last_freq_update_time_ns >= Delay]_vars
  <2> SUFFICES ASSUME IInv, Next, gov = "running", gov' = "running",
                      last_freq_update_time_ns' # last_freq_update_time_ns
               PROVE  last_freq_update_time_ns' - last_freq_update_time_ns >= Delay
    BY DEF vars
  <2>1. \E time \in 0 .. MaxTime : ShouldUpdate(time) /\ last_freq_update_time_ns' = time
    <3>1. CASE UpdateFrequency(now)
      BY <3>1 DEF UpdateFrequency, IInv, TypeOK, TimeInv
    <3>2. CASE \E skew \in 0 .. MaxSkew : now >= skew /\ UpdateUnread(now - skew)
      BY <3>2, UpdateAssumption DEF UpdateUnread, IInv, TypeOK, TimeInv
    <3>3. QED
      BY <3>1, <3>2 DEF Next, Tick, MemutilLimits, MemutilInit, MemutilStart,
         MemutilStartFail, MemutilStop, MemutilExit, memutil_policy
  <2>2. PICK time \in 0 .. MaxTime : ShouldUpdate(time) /\ last_freq_update_time_ns' = time
    BY <2>1
  <2>3. S64(time - last_freq_update_time_ns) = time - last_freq_update_time_ns
    <3>1. /\ time \in Nat /\ 2 * time < U64
          /\ last_freq_update_time_ns \in Nat /\ 2 * last_freq_update_time_ns < U64
      BY UpdateAssumption, ParameterAssumption DEF IInv, TypeOK, TimeInv
    <3>2. QED
      BY <3>1, TimeDifference
  <2>4. QED
    BY <2>2, <2>3 DEF ShouldUpdate
<1>2. QED
  BY <1>1, Invariance, PTL DEF Spec, UpdatesAreSpaced
-----------------------------------------------------------------------------
(***************************************************************************)
(* From the counters to the request: the reads of the events, the          *)
(* conversions and the heuristic together.                                 *)
(***************************************************************************)

\* The counts of the interval fit an s64, and so do both products of the heuristic.
IntervalFits ==
  /\ FitsS64(since_read[1])
  /\ FitsS64(since_read[2])
  /\ since_read[1] > 0 =>
       ProductsFit(since_read[2], since_read[1], min_stalls_per_cycle)

\* An update with whole intervals of this start: last_event_value is of the events
\* it reads, and the thresholds are in order.
WholeInterval ==
  UpdateFrequency(now) /\ ~carried /\ IntervalFits
    /\ min_stalls_per_cycle < max_stalls_per_cycle

\* memutil_update_frequency requests what the events that happened since the last
\* read call for: the maximum if the share of stalls is at most
\* min_stalls_per_cycle percent, the minimum if it is at least
\* max_stalls_per_cycle percent, and no change without a cycle.
RequestFollowsStalls ==
  [][WholeInterval
     => LET cycles == since_read[1]
            stalls == since_read[2]
        IN  /\ cycles = 0 => last_requested_freq' = last_requested_freq
            /\ cycles > 0 /\ 100 * stalls <= min_stalls_per_cycle * cycles
                 => last_requested_freq' = limits.max
            /\ cycles > 0 /\ 100 * stalls >= max_stalls_per_cycle * cycles
                 => last_requested_freq' = limits.min]_vars

\* Between the thresholds memutil_update_frequency requests the exact
\* interpolation of the share of stalls, less than one unit below it and above it
\* by at most the rounding of two percentages.
RequestInterpolates ==
  [][WholeInterval /\ since_read[1] > 0
     => LET cycles == since_read[1]
            stalls == since_read[2]
            range == max_stalls_per_cycle - min_stalls_per_cycle
            whole == 100 * range * cycles
            exact == limits.min * whole
                       + (whole - clamp(100 * (100 * stalls - min_stalls_per_cycle * cycles),
                                        0, whole))
                           * (limits.max - limits.min)
        IN  /\ last_requested_freq' * whole > exact - whole
            /\ last_requested_freq' * whole
                 <= exact + (cycles * (100 + range)) * (limits.max - limits.min)]_vars

\* The heuristic is given the counts of the interval themselves.
LEMMA CountsReachHeuristic ==
  ASSUME IInv, gov = "running", ~carried, IntervalFits
  PROVE  /\ since_read[1] \in Nat /\ since_read[2] \in Nat
         /\ S64(EventDelta(1)) = since_read[1]
         /\ S64(EventDelta(2)) = since_read[2]
<1>1. since_read[1] \in Nat /\ since_read[2] \in Nat
  BY DEF IInv, TypeOK, Events
<1>2. ASSUME NEW i \in {1, 2}, FitsS64(since_read[i])
      PROVE  S64(EventDelta(i)) = since_read[i]
  <2>1. count[i] - last_event_value[i] = since_read[i]
    BY DEF IInv, TypeOK, DeltaInv, Events
  <2>2. since_read[i] % U64 = since_read[i]
    <3>1. since_read[i] \in Nat /\ since_read[i] < U64 /\ U64 \in Nat /\ U64 > 0
      BY <1>1, <1>2, ParameterAssumption DEF FitsS64
    <3> DEFINE n == since_read[i]
    <3> HIDE DEF n
    <3>2. n % U64 = n
      BY <3>1, Z3 DEF n
    <3> QED
      BY <3>2 DEF n
  <2>3. S64(since_read[i]) = since_read[i]
    BY <1>1, <1>2, S64Fits
  <2> QED
    BY <2>1, <2>2, <2>3 DEF EventDelta
<1> QED
  BY <1>1, <1>2 DEF IntervalFits

\* The request in terms of what was counted.
LEMMA RequestOfCounts ==
  ASSUME IInv, WholeInterval
  PROVE  /\ since_read[1] \in Nat /\ since_read[2] \in Nat
         /\ limits.min \in Nat /\ limits.max \in Nat /\ limits.min <= limits.max
         /\ last_requested_freq' =
              IF since_read[1] = 0
                THEN last_requested_freq
                ELSE Interpolate(100 - Percent(Quotient(100 * since_read[2], since_read[1]),
                                               min_stalls_per_cycle, max_stalls_per_cycle),
                                 limits.max, limits.min)
<1>1. UpdateFrequency(now) /\ ~carried /\ IntervalFits /\ gov = "running"
  BY DEF WholeInterval, UpdateFrequency
<1>2. /\ since_read[1] \in Nat /\ since_read[2] \in Nat
      /\ S64(EventDelta(1)) = since_read[1]
      /\ S64(EventDelta(2)) = since_read[2]
  BY <1>1, CountsReachHeuristic
<1>3. limits.min \in Nat /\ limits.max \in Nat /\ limits.min <= limits.max
  BY LimitsType DEF IInv, TypeOK
<1>4. last_requested_freq' =
        IF since_read[1] = 0
          THEN last_requested_freq
          ELSE calculate_frequency_heuristic_stalls(since_read[2], since_read[1],
                                                    limits.max, limits.min)
  BY <1>1, <1>2 DEF UpdateFrequency
<1>5. ASSUME since_read[1] # 0
      PROVE  calculate_frequency_heuristic_stalls(since_read[2], since_read[1],
                                                  limits.max, limits.min)
               = Interpolate(100 - Percent(Quotient(100 * since_read[2], since_read[1]),
                                           min_stalls_per_cycle, max_stalls_per_cycle),
                             limits.max, limits.min)
  <2>1. since_read[1] > 0
    BY <1>2, <1>5
  <2>2. ProductsFit(since_read[2], since_read[1], min_stalls_per_cycle)
    BY <1>1, <2>1 DEF IntervalFits
  <2> QED
    BY <1>2, <2>1, <2>2, FrequencyFits
<1> QED
  BY <1>2, <1>3, <1>4, <1>5

\* From what happened in an interval to the frequency that is requested, at and
\* beyond the thresholds.
THEOREM StallsDecide == Spec => RequestFollowsStalls
<1> DEFINE cycles == since_read[1]
           stalls == since_read[2]
           Follows ==
             /\ cycles = 0 => last_requested_freq' = last_requested_freq
             /\ cycles > 0 /\ 100 * stalls <= min_stalls_per_cycle * cycles
                  => last_requested_freq' = limits.max
             /\ cycles > 0 /\ 100 * stalls >= max_stalls_per_cycle * cycles
                  => last_requested_freq' = limits.min
<1>1. ASSUME IInv, WholeInterval
      PROVE  Follows
  <2> DEFINE p == Percent(Quotient(100 * stalls, cycles), min_stalls_per_cycle,
                          max_stalls_per_cycle)
  <2>1. /\ cycles \in Nat /\ stalls \in Nat
        /\ limits.min \in Nat /\ limits.max \in Nat /\ limits.min <= limits.max
        /\ last_requested_freq' =
             IF cycles = 0 THEN last_requested_freq
                           ELSE Interpolate(100 - p, limits.max, limits.min)
    BY <1>1, RequestOfCounts
  <2>2. /\ Interpolate(0, limits.max, limits.min) = limits.min
        /\ Interpolate(100, limits.max, limits.min) = limits.max
    BY <2>1, InterpolateEnds
  <2>3. ASSUME cycles > 0
        PROVE  /\ 100 * stalls <= min_stalls_per_cycle * cycles => p = 0
               /\ 100 * stalls >= max_stalls_per_cycle * cycles => p = 100
    BY <1>1, <2>1, <2>3, ParameterAssumption, PercentAtThresholds DEF WholeInterval
  <2> HIDE DEF p
  <2>4. 100 - 0 = 100 /\ 100 - 100 = 0 /\ (cycles > 0 => cycles # 0)
    BY <2>1
  <2> QED
    BY <2>1, <2>2, <2>3, <2>4
<1>2. IInv => [WholeInterval => Follows]_vars
  BY <1>1
<1> QED
  BY <1>2, Invariance, PTL DEF Spec, RequestFollowsStalls

\* The same between the thresholds, with the exact size of the rounding.
THEOREM StallsInterpolate == Spec => RequestInterpolates
<1> DEFINE cycles == since_read[1]
           stalls == since_read[2]
           max_freq == limits.max
           min_freq == limits.min
           range == max_stalls_per_cycle - min_stalls_per_cycle
           whole == 100 * range * cycles
           exact == min_freq * whole
                      + (whole - clamp(100 * (100 * stalls - min_stalls_per_cycle * cycles),
                                       0, whole))
                          * (max_freq - min_freq)
           Close ==
             /\ last_requested_freq' * whole > exact - whole
             /\ last_requested_freq' * whole
                  <= exact + (cycles * (100 + range)) * (max_freq - min_freq)
<1>1. ASSUME IInv, WholeInterval, cycles > 0
      PROVE  Close
  <2> DEFINE freq == Interpolate(100 - Percent(Quotient(100 * stalls, cycles),
                                               min_stalls_per_cycle,
                                               max_stalls_per_cycle),
                                 max_freq, min_freq)
  <2>1. /\ cycles \in Nat /\ stalls \in Nat /\ cycles # 0
        /\ min_freq \in Nat /\ max_freq \in Nat /\ min_freq <= max_freq
        /\ last_requested_freq' = IF cycles = 0 THEN last_requested_freq ELSE freq
    BY <1>1, RequestOfCounts
  <2>2. /\ min_stalls_per_cycle \in Int /\ max_stalls_per_cycle \in Int
        /\ min_stalls_per_cycle < max_stalls_per_cycle
    BY <1>1, ParameterAssumption DEF WholeInterval
  <2> HIDE DEF cycles, stalls, max_freq, min_freq
  <2>3. /\ freq * whole > exact - whole
        /\ freq * whole <= exact + (cycles * (100 + range)) * (max_freq - min_freq)
    BY <1>1, <2>1, <2>2, InvertedClose
  <2>4. last_requested_freq' = freq
    BY <2>1
  <2> HIDE DEF freq, exact, whole, range
  <2> QED
    BY <2>3, <2>4
<1>2. IInv => [WholeInterval /\ cycles > 0 => Close]_vars
  BY <1>1
<1> QED
  BY <1>2, Invariance, PTL DEF Spec, RequestInterpolates

\* What an event counts in a tick is bounded by a rate, so what it counted since
\* it was read is bounded by the time, although no bound on the time between
\* two reads exists: updates on the other CPUs of the policy read nothing.
RateInv(rate) == \A i \in Events : since_read[i] <= rate * now

\* Every step keeps a rate that bounds the increments.
LEMMA StepRateInv ==
  ASSUME NEW rate \in Nat,
         \A increment \in Increments : \A i \in Events : increment[i] <= rate,
         IInv, RateInv(rate), [Next]_vars
  PROVE  RateInv(rate)'
<1>1. now \in Nat /\ since_read \in [Events -> Nat]
  BY DEF IInv, TypeOK
<1>2. CASE UNCHANGED since_read /\ now' = now
  BY <1>2 DEF RateInv
<1>3. CASE since_read' = Zeros /\ now' = now
  <2>1. rate * now \in Nat
    BY <1>1, Z3
  <2> QED
    BY <1>3, <2>1 DEF RateInv, Zeros
<1>4. ASSUME NEW increment \in Increments, Tick(increment) PROVE RateInv(rate)'
  <2> SUFFICES ASSUME NEW i \in Events PROVE since_read'[i] <= rate * now'
    BY DEF RateInv
  <2>1. increment \in [Events -> Nat]
    BY UpdateAssumption
  <2>2. since_read'[i] \in Nat /\ since_read'[i] <= since_read[i] + rate
    BY <1>1, <1>4, <2>1 DEF Tick
  <2>3. now' = now + 1
    BY <1>4 DEF Tick
  <2>4. rate * (now + 1) = rate * now + rate /\ rate * now \in Nat
    BY <1>1, Z3
  <2>5. since_read[i] <= rate * now /\ since_read[i] \in Nat
    BY <1>1 DEF RateInv
  <2> QED
    BY <2>2, <2>3, <2>4, <2>5
<1> QED
  BY <1>2, <1>3, <1>4 DEF Next, MemutilLimits, MemutilInit, MemutilStart, MemutilStartFail,
     MemutilStop, MemutilExit, UpdateFrequency, UpdateUnread, vars, history

\* If a counter that runs at its highest rate for the whole time stays below about
\* 2^63 / 10000, no interval overflows either product of the heuristic, however
\* rarely the events are read: IntervalFits holds throughout.
THEOREM RateFits ==
  ASSUME NEW rate \in Nat,
         \A increment \in Increments : \A i \in Events : increment[i] <= rate,
         2 * (((rate * MaxTime) * 100 + Magnitude(min_stalls_per_cycle)) * 100) < U64
  PROVE  Spec => []IntervalFits
<1>1. Init => RateInv(rate)
  <2>1. rate * 0 = 0
    BY Z3
  <2> QED
    BY <2>1 DEF Init, RateInv, Zeros
<1>2. IInv /\ RateInv(rate) /\ [Next]_vars => RateInv(rate)'
  BY StepRateInv
<1>3. IInv /\ RateInv(rate) => IntervalFits
  <2> SUFFICES ASSUME IInv, RateInv(rate) PROVE IntervalFits
    OBVIOUS
  <2>1. now \in Nat /\ MaxTime \in Nat /\ now <= MaxTime
    BY UpdateAssumption DEF IInv, TypeOK, TimeInv
  <2>2. rate * now <= rate * MaxTime /\ rate * now \in Nat /\ rate * MaxTime \in Nat
    BY <2>1, Z3
  <2>3. /\ since_read[1] \in Nat /\ since_read[2] \in Nat
        /\ since_read[1] <= rate * now /\ since_read[2] <= rate * now
    BY DEF IInv, TypeOK, RateInv, Events
  <2> DEFINE top == rate * MaxTime
             lo == min_stalls_per_cycle
             cycles == since_read[1]
             stalls == since_read[2]
             q == Quotient(stalls * 100, cycles)
  <2>4. /\ top \in Nat /\ cycles \in Nat /\ stalls \in Nat
        /\ cycles <= top /\ stalls <= top
    BY <2>2, <2>3
  <2>5. lo \in Int /\ U64 \in Nat /\ 2 * ((top * 100 + Magnitude(lo)) * 100) < U64
    BY ParameterAssumption
  <2>6. cycles > 0 => q \in Nat /\ q <= stalls * 100
    <3>1. stalls * 100 \in Nat
      BY <2>4
    <3> QED
      BY <2>4, <3>1, QuotientAtMost
  <2> HIDE DEF top, lo, cycles, stalls, q
  <2>7. /\ FitsS64(cycles) /\ FitsS64(stalls) /\ FitsS64(stalls * 100)
    BY <2>4, <2>5 DEF FitsS64, Magnitude
  <2>8. cycles > 0 => FitsS64((q - lo) * 100)
    BY <2>4, <2>5, <2>6 DEF FitsS64, Magnitude
  <2> QED
    BY <2>7, <2>8, Zenon DEF IntervalFits, ProductsFit, cycles, stalls, lo, q
<1> QED
  BY <1>1, <1>2, <1>3, Invariance, PTL DEF Spec
=============================================================================
