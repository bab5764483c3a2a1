-------------------------- MODULE HeuristicProofs ---------------------------
(***************************************************************************)
(* What the heuristics return, for all event values, limits and module     *)
(* parameters (arithmetic overflow of the event values included).          *)
(***************************************************************************)
EXTENDS Heuristic, TLAPS

\* A percentage of a range is at most the range.
LEMMA PartOfRange ==
  ASSUME NEW f \in 0 .. 100, NEW d \in Nat
  PROVE  (f * d) \div 100 \in 0 .. d /\ f * d \in Nat
<1>1. f * d \in Nat /\ f * d <= 100 * d
  BY Z3
<1>2. QED
  BY <1>1, Z3

\* Division by a number that is not zero yields an integer.
LEMMA QuotientInt ==
  ASSUME NEW a \in Int, NEW b \in Int, b # 0
  PROVE  Quotient(a, b) \in Int
<1>1. Magnitude(a) \in Nat /\ Magnitude(b) \in Nat /\ Magnitude(b) > 0
  BY DEF Magnitude
<1>2. Magnitude(a) \div Magnitude(b) \in Int
  BY <1>1, Z3
<1>3. QED
  BY <1>2 DEF Quotient

\* A quotient with a positive divisor grows with the dividend.
LEMMA DivMonotone ==
  ASSUME NEW a \in Nat, NEW b \in Nat, a <= b, NEW c \in Nat, c > 0
  PROVE  a \div c <= b \div c /\ a \div c \in Nat
  BY Z3

\* The same of C's division, for dividends of either sign.
LEMMA QuotientMonotone ==
  ASSUME NEW a \in Int, NEW b \in Int, a <= b, NEW c \in Nat, c > 0
  PROVE  Quotient(a, c) <= Quotient(b, c)
<1>1. CASE a >= 0
  BY <1>1, DivMonotone DEF Quotient, Magnitude
<1>2. CASE a < 0 /\ b >= 0
  BY <1>2, DivMonotone DEF Quotient, Magnitude
<1>3. CASE b < 0
  BY <1>3, DivMonotone DEF Quotient, Magnitude
<1>4. QED
  BY <1>1, <1>2, <1>3

\* Where a value lies between two bounds, in percent, when nothing overflows.
Percent(value, lowest, highest) ==
  clamp(Quotient((value - lowest) * 100, highest - lowest), 0, 100)

\* An s64 is an integer, and one that an s64 can hold keeps its value.
LEMMA S64Fits ==
  ASSUME NEW x \in Int
  PROVE  S64(x) \in Int /\ (FitsS64(x) => S64(x) = x)
<1>1. U64 \in Nat /\ U64 > 0
  BY ParameterAssumption
<1>2. S64(x) \in Int
  BY <1>1, Z3 DEF S64
<1>3. ASSUME FitsS64(x), x >= 0
      PROVE  S64(x) = x
  <2>1. x % U64 = x
    BY <1>1, <1>3, Z3 DEF FitsS64
  <2> QED
    BY <1>1, <1>3, <2>1 DEF S64, FitsS64
<1>4. ASSUME FitsS64(x), x < 0
      PROVE  S64(x) = x
  <2>1. x % U64 = x + U64
    BY <1>1, <1>4, Z3 DEF FitsS64
  <2> QED
    BY <1>1, <1>4, <2>1 DEF S64, FitsS64
<1> QED
  BY <1>2, <1>3, <1>4

\* The position is a percentage, whatever the module parameters and whether or not
\* the product overflows.
LEMMA PositionRange ==
  ASSUME NEW v \in Int, NEW lo \in Int, NEW hi \in Int, lo # hi
  PROVE  Position(v, lo, hi) \in 0 .. 100 /\ Percent(v, lo, hi) \in 0 .. 100
<1>1. (v - lo) * 100 \in Int /\ hi - lo \in Int /\ hi - lo # 0
  OBVIOUS
<1>2. S64((v - lo) * 100) \in Int
  BY <1>1, S64Fits
<1>3. /\ Quotient(S64((v - lo) * 100), hi - lo) \in Int
      /\ Quotient((v - lo) * 100, hi - lo) \in Int
  BY <1>1, <1>2, QuotientInt
<1> QED
  BY <1>3 DEF Position, Percent, clamp

\* It is the exact one, rounded, when the product does not overflow.
LEMMA PositionFits ==
  ASSUME NEW v \in Int, NEW lo \in Int, NEW hi \in Int, FitsS64((v - lo) * 100)
  PROVE  Position(v, lo, hi) = Percent(v, lo, hi)
<1>1. (v - lo) * 100 \in Int
  OBVIOUS
<1>2. S64((v - lo) * 100) = (v - lo) * 100
  BY <1>1, S64Fits
<1> QED
  BY <1>2 DEF Position, Percent

\* A larger value lies further up between properly ordered bounds.
LEMMA PercentMonotone ==
  ASSUME NEW v \in Int, NEW w \in Int, v <= w, NEW lo \in Int, NEW hi \in Int, lo < hi
  PROVE  Percent(v, lo, hi) <= Percent(w, lo, hi)
<1>1. Quotient((v - lo) * 100, hi - lo) <= Quotient((w - lo) * 100, hi - lo)
  BY QuotientMonotone
<1>2. Quotient((v - lo) * 100, hi - lo) \in Int /\ Quotient((w - lo) * 100, hi - lo) \in Int
  BY QuotientInt
<1>3. QED
  BY <1>1, <1>2 DEF Percent, clamp

\* The last line of both heuristics stays within the limits of the policy.
LEMMA InterpolateRange ==
  ASSUME NEW f \in 0 .. 100, NEW max_freq \in Nat, NEW min_freq \in Nat, min_freq <= max_freq
  PROVE  Interpolate(f, max_freq, min_freq) \in min_freq .. max_freq
<1>1. max_freq - min_freq \in Nat
  OBVIOUS
<1>2. /\ (f * (max_freq - min_freq)) \div 100 \in 0 .. (max_freq - min_freq)
      /\ f * (max_freq - min_freq) \in Nat
  BY <1>1, PartOfRange
<1>3. Quotient(f * (max_freq - min_freq), 100) = (f * (max_freq - min_freq)) \div 100
  BY <1>2 DEF Quotient, Magnitude
<1>4. QED
  BY <1>2, <1>3 DEF Interpolate

\* A larger factor never yields a smaller frequency.
LEMMA InterpolateMonotone ==
  ASSUME NEW f \in 0 .. 100, NEW g \in 0 .. 100, f <= g,
         NEW max_freq \in Nat, NEW min_freq \in Nat, min_freq <= max_freq
  PROVE  Interpolate(f, max_freq, min_freq) <= Interpolate(g, max_freq, min_freq)
<1> DEFINE d == max_freq - min_freq
<1>1. d \in Nat
  OBVIOUS
<1> HIDE DEF d
<1>2. f * d \in Int /\ g * d \in Int /\ f * d <= g * d
  BY <1>1, Z3
<1>3. /\ Quotient(f * d, 100) <= Quotient(g * d, 100)
      /\ Quotient(f * d, 100) \in Int /\ Quotient(g * d, 100) \in Int
  BY <1>2, QuotientMonotone, QuotientInt
<1>4. QED
  BY <1>3 DEF Interpolate, d

-----------------------------------------------------------------------------
\* Whatever the perf events say - also a wrapped difference, which is negative
\* or overflows - the stalls heuristic requests a frequency within the limits.
THEOREM StallsWithinLimits ==
  ASSUME NEW stalls \in Int, NEW cycles \in Int, cycles # 0,
         NEW max_freq \in Nat, NEW min_freq \in Nat, min_freq <= max_freq
  PROVE  calculate_frequency_heuristic_stalls(stalls, cycles, max_freq, min_freq)
           \in min_freq .. max_freq
<1> DEFINE p == Position(Quotient(S64(stalls * 100), cycles),
                          min_stalls_per_cycle, max_stalls_per_cycle)
<1>1. S64(stalls * 100) \in Int
  BY ParameterAssumption DEF S64
<1>2. p \in 0 .. 100
  BY <1>1, QuotientInt, PositionRange, ParameterAssumption
<1> HIDE DEF p
<1>3. 100 - p \in 0 .. 100
  BY <1>2
<1>4. Interpolate(100 - p, max_freq, min_freq) \in min_freq .. max_freq
  BY <1>3, InterpolateRange
<1>5. QED
  BY <1>4 DEF calculate_frequency_heuristic_stalls, p

\* The same of the IPC heuristic.
THEOREM IpcWithinLimits ==
  ASSUME NEW instructions \in Int, NEW cycles \in Int, cycles # 0,
         NEW max_freq \in Nat, NEW min_freq \in Nat, min_freq <= max_freq
  PROVE  calculate_frequency_heuristic_ipc(instructions, cycles, max_freq, min_freq)
           \in min_freq .. max_freq
<1> DEFINE p == Position(Quotient(S64(instructions * 100), cycles), min_ipc, max_ipc)
<1>1. S64(instructions * 100) \in Int
  BY ParameterAssumption DEF S64
<1>2. p \in 0 .. 100
  BY <1>1, QuotientInt, PositionRange, ParameterAssumption
<1> HIDE DEF p
<1>3. Interpolate(p, max_freq, min_freq) \in min_freq .. max_freq
  BY <1>2, InterpolateRange
<1>4. QED
  BY <1>3 DEF calculate_frequency_heuristic_ipc, p

\* A larger share of events never yields a lower frequency of the IPC heuristic
\* and never a higher one of the stalls heuristic, which inverts the factor.
LEMMA FrequencyOfShare ==
  ASSUME NEW q1 \in Int, NEW q2 \in Int, q1 <= q2,
         NEW lo \in Int, NEW hi \in Int, lo < hi,
         NEW max_freq \in Nat, NEW min_freq \in Nat, min_freq <= max_freq
  PROVE  /\ Interpolate(Percent(q1, lo, hi), max_freq, min_freq)
              <= Interpolate(Percent(q2, lo, hi), max_freq, min_freq)
         /\ Interpolate(100 - Percent(q2, lo, hi), max_freq, min_freq)
              <= Interpolate(100 - Percent(q1, lo, hi), max_freq, min_freq)
<1> DEFINE p1 == Percent(q1, lo, hi)
           p2 == Percent(q2, lo, hi)
<1>1. p1 \in 0 .. 100 /\ p2 \in 0 .. 100 /\ p1 <= p2
  <2>1. lo # hi
    OBVIOUS
  <2> QED
    BY <2>1, PositionRange, PercentMonotone
<1> HIDE DEF p1, p2
<1>2. 100 - p2 \in 0 .. 100 /\ 100 - p1 \in 0 .. 100 /\ 100 - p2 <= 100 - p1
  BY <1>1
<1>3. /\ Interpolate(p1, max_freq, min_freq) <= Interpolate(p2, max_freq, min_freq)
      /\ Interpolate(100 - p2, max_freq, min_freq)
           <= Interpolate(100 - p1, max_freq, min_freq)
  BY <1>1, <1>2, InterpolateMonotone
<1> QED
  BY <1>3 DEF p1, p2

\* The heuristics as functions of the share of events, when neither product
\* overflows.
LEMMA FrequencyFits ==
  ASSUME NEW n \in Nat, NEW c \in Nat, c > 0, NEW max_freq, NEW min_freq
  PROVE  /\ ProductsFit(n, c, min_stalls_per_cycle) =>
              calculate_frequency_heuristic_stalls(n, c, max_freq, min_freq)
                = Interpolate(100 - Percent(Quotient(100 * n, c), min_stalls_per_cycle,
                                            max_stalls_per_cycle),
                              max_freq, min_freq)
         /\ ProductsFit(n, c, min_ipc) =>
              calculate_frequency_heuristic_ipc(n, c, max_freq, min_freq)
                = Interpolate(Percent(Quotient(100 * n, c), min_ipc, max_ipc),
                              max_freq, min_freq)
<1>1. /\ n * 100 \in Int /\ n * 100 = 100 * n /\ c \in Int /\ c # 0
      /\ min_stalls_per_cycle \in Int /\ max_stalls_per_cycle \in Int
      /\ min_ipc \in Int /\ max_ipc \in Int
  BY ParameterAssumption
<1>2. Quotient(100 * n, c) \in Int
  BY <1>1, QuotientInt
<1>3. ASSUME NEW lo \in Int, NEW hi \in Int, ProductsFit(n, c, lo)
      PROVE  /\ S64(n * 100) = 100 * n
             /\ Position(Quotient(100 * n, c), lo, hi) = Percent(Quotient(100 * n, c), lo, hi)
  <2>1. FitsS64(n * 100) /\ FitsS64((Quotient(100 * n, c) - lo) * 100)
    BY <1>1, <1>3 DEF ProductsFit
  <2> QED
    BY <1>1, <1>2, <2>1, S64Fits, PositionFits
<1> QED
  BY <1>1, <1>3, Zenon DEF calculate_frequency_heuristic_stalls,
                           calculate_frequency_heuristic_ipc

\* More stalls in an interval of the same number of cycles never yield a higher
\* frequency, as long as neither product of the heuristic overflows for either
\* number.
THEOREM StallsLowerFrequency ==
  ASSUME NEW s1 \in Nat, NEW s2 \in Nat, s1 <= s2, NEW cycles \in Nat, cycles > 0,
         ProductsFit(s1, cycles, min_stalls_per_cycle),
         ProductsFit(s2, cycles, min_stalls_per_cycle),
         min_stalls_per_cycle < max_stalls_per_cycle,
         NEW max_freq \in Nat, NEW min_freq \in Nat, min_freq <= max_freq
  PROVE  calculate_frequency_heuristic_stalls(s2, cycles, max_freq, min_freq)
           <= calculate_frequency_heuristic_stalls(s1, cycles, max_freq, min_freq)
<1> DEFINE q1 == Quotient(100 * s1, cycles)
           q2 == Quotient(100 * s2, cycles)
<1>1. /\ calculate_frequency_heuristic_stalls(s1, cycles, max_freq, min_freq)
           = Interpolate(100 - Percent(q1, min_stalls_per_cycle, max_stalls_per_cycle),
                         max_freq, min_freq)
      /\ calculate_frequency_heuristic_stalls(s2, cycles, max_freq, min_freq)
           = Interpolate(100 - Percent(q2, min_stalls_per_cycle, max_stalls_per_cycle),
                         max_freq, min_freq)
  BY FrequencyFits
<1>2. q1 \in Int /\ q2 \in Int /\ q1 <= q2
  <2>1. /\ 100 * s1 \in Int /\ 100 * s2 \in Int /\ 100 * s1 <= 100 * s2
        /\ cycles \in Int /\ cycles # 0
    OBVIOUS
  <2> QED
    BY <2>1, QuotientInt, QuotientMonotone
<1> HIDE DEF q1, q2
<1>3. Interpolate(100 - Percent(q2, min_stalls_per_cycle, max_stalls_per_cycle),
                  max_freq, min_freq)
        <= Interpolate(100 - Percent(q1, min_stalls_per_cycle, max_stalls_per_cycle),
                       max_freq, min_freq)
  BY <1>2, FrequencyOfShare, ParameterAssumption
<1> QED
  BY <1>1, <1>3

-----------------------------------------------------------------------------
(***************************************************************************)
(* How far the percentages of the code are from the exact fractions.       *)
(***************************************************************************)

\* A quotient, times the divisor, misses the dividend by less than the divisor.
LEMMA DivBounds ==
  ASSUME NEW a \in Nat, NEW c \in Nat, c > 0
  PROVE  /\ a \div c \in Nat
         /\ (a \div c) * c <= a
         /\ a < (a \div c) * c + c
  BY Z3

\* A whole number of events per cycle is at most the number of events.
LEMMA QuotientAtMost ==
  ASSUME NEW a \in Nat, NEW c \in Nat, c > 0
  PROVE  Quotient(a, c) \in Nat /\ Quotient(a, c) <= a
<1> DEFINE q == a \div c
<1>1. q \in Nat /\ q * c <= a /\ Quotient(a, c) = q
  BY DivBounds DEF Quotient, Magnitude
<1> HIDE DEF q
<1>2. q <= q * c
  BY <1>1, Z3
<1> QED
  BY <1>1, <1>2

\* The same number of events in more cycles is a smaller share of them.
LEMMA QuotientAntitone ==
  ASSUME NEW a \in Nat, NEW c \in Nat, NEW d \in Nat, 0 < c, c <= d
  PROVE  Quotient(a, d) <= Quotient(a, c)
<1> DEFINE q == a \div c
           r == a \div d
<1>1. Quotient(a, c) = q /\ Quotient(a, d) = r
  BY DEF Quotient, Magnitude
<1>2. q \in Nat /\ r \in Nat /\ r * d <= a /\ a < q * c + c
  BY DivBounds
<1> HIDE DEF q, r
<1>3. r * c <= r * d
  BY <1>2, Z3
<1>4. r * c < (q + 1) * c
  BY <1>2, <1>3, Z3
<1>5. r < q + 1
  BY <1>2, <1>4, Z3
<1> QED
  BY <1>1, <1>2, <1>5

\* A value below the lower bound is at 0 percent: the difference is signed.
LEMMA PercentBelow ==
  ASSUME NEW v \in Int, NEW lo \in Int, NEW hi \in Int, lo < hi, v < lo
  PROVE  Percent(v, lo, hi) = 0
<1> DEFINE a == (v - lo) * 100
           d == hi - lo
           m == (-a) \div d
<1>1. a \in Int /\ a < 0 /\ d \in Nat /\ d > 0 /\ -a \in Nat
  OBVIOUS
<1> HIDE DEF a, d
<1>2. m \in Nat
  BY <1>1, DivBounds
<1>3. Quotient(a, d) = -m
  BY <1>1 DEF Quotient, Magnitude
<1> HIDE DEF m
<1>4. clamp(-m, 0, 100) = 0
  BY <1>2 DEF clamp
<1> QED
  BY <1>3, <1>4 DEF Percent, a, d

\* From the lower bound on the position is the rounded percentage, at most 100.
LEMMA PercentAbove ==
  ASSUME NEW v \in Int, NEW lo \in Int, NEW hi \in Int, lo < hi, lo <= v
  PROVE  LET r == ((v - lo) * 100) \div (hi - lo)
         IN  r \in Nat /\ Percent(v, lo, hi) = IF r > 100 THEN 100 ELSE r
<1> DEFINE a == (v - lo) * 100
           d == hi - lo
           r == a \div d
<1>1. a \in Nat /\ d \in Nat /\ d > 0
  OBVIOUS
<1> HIDE DEF a, d
<1>2. r \in Nat
  BY <1>1, DivBounds
<1>3. Quotient(a, d) = r
  BY <1>1 DEF Quotient, Magnitude
<1> HIDE DEF r
<1>4. clamp(r, 0, 100) = IF r > 100 THEN 100 ELSE r
  BY <1>2 DEF clamp
<1> QED
  BY <1>2, <1>3, <1>4 DEF Percent, a, d, r

\* The position of count / cycles between the bounds, as the code computes it
\* in two divisions, is at most the exact one and short of it by less than
\* cycles * (100 + (hi - lo)) parts of 100 * (hi - lo) * cycles.
LEMMA PercentClose ==
  ASSUME NEW n \in Nat, NEW c \in Nat, c > 0, NEW lo \in Int, NEW hi \in Int, lo < hi
  PROVE  LET p == Percent(Quotient(100 * n, c), lo, hi)
             exact == clamp(100 * (100 * n - lo * c), 0, 100 * (hi - lo) * c)
         IN  /\ p \in 0 .. 100
             /\ exact \in Int
             /\ p * ((hi - lo) * c) <= exact
             /\ exact <= p * ((hi - lo) * c) + c * (100 + (hi - lo))
<1> DEFINE q == (100 * n) \div c
           d == hi - lo
           y == 100 * n - lo * c
           t == q - lo
           p == Percent(q, lo, hi)
           exact == clamp(100 * y, 0, 100 * d * c)
<1>1. /\ q \in Nat /\ q * c <= 100 * n /\ 100 * n < q * c + c
      /\ Quotient(100 * n, c) = q
  BY DivBounds DEF Quotient, Magnitude
<1>2. p \in 0 .. 100
  <2> HIDE DEF q
  <2>1. q \in Int /\ lo # hi
    BY <1>1
  <2> QED
    BY <2>1, PositionRange
<1>3. d \in Nat /\ d > 0 /\ t \in Int /\ y \in Int /\ d * c \in Nat /\ 100 * d * c = 100 * (d * c)
  BY <1>1, Z3
<1>4. t * c <= y /\ y < t * c + c
  <2> HIDE DEF q
  <2>1. t * c = q * c - lo * c
    BY <1>1, Z3
  <2>2. q * c \in Int /\ lo * c \in Int /\ 100 * n \in Int
    BY <1>1, Z3
  <2> QED
    BY <1>1, <2>1, <2>2, Z3
<1>5. CASE t < 0
  <2>1. p = 0
    BY <1>1, <1>5, PercentBelow
  <2> HIDE DEF p, q, d, y, t
  <2>2. t * c <= -c
    BY <1>3, <1>5, Z3
  <2>3. y < 0 /\ t * c \in Int
    BY <1>3, <1>4, <2>2, Z3
  <2>4. exact = 0
    BY <1>3, <2>3 DEF clamp
  <2>5. c * (100 + d) >= 0 /\ c * (100 + d) \in Int
    BY <1>3, Z3
  <2>6. p * (d * c) = 0
    BY <1>3, <2>1
  <2> HIDE DEF exact
  <2>7. /\ exact \in Int /\ p * (d * c) <= exact
        /\ exact <= p * (d * c) + c * (100 + d)
    BY <2>4, <2>5, <2>6
  <2> QED
    BY <1>1, <1>2, <2>7 DEF p, q, d, y, exact
<1>6. CASE t >= 0
  <2> DEFINE r == (t * 100) \div d
  <2>1. r \in Nat /\ p = IF r > 100 THEN 100 ELSE r
    <3> HIDE DEF q
    <3>1. lo <= q
      BY <1>1, <1>6
    <3> QED
      BY <1>1, <3>1, PercentAbove
  <2> HIDE DEF p, q, d, y, t
  <2>2. r * d <= t * 100 /\ t * 100 < r * d + d
    BY <1>3, <1>6, DivBounds
  <2> HIDE DEF r
  <2>3. t * c \in Nat /\ y \in Nat /\ r * d \in Nat
    BY <1>3, <1>4, <1>6, <2>1, Z3
  <2>4. (r * d) * c <= (t * 100) * c /\ (t * 100) * c < (r * d + d) * c
    BY <1>3, <2>1, <2>2, <2>3, Z3
  <2>5. /\ (t * 100) * c = 100 * (t * c)
        /\ (r * d) * c = r * (d * c)
        /\ (r * d + d) * c = r * (d * c) + d * c
        /\ c * (100 + d) = 100 * c + d * c
    BY <1>3, <2>1, <2>3, Z3
  <2> DEFINE e == d * c
             rd == r * e
  <2>6. e \in Nat /\ rd \in Nat /\ rd <= 100 * (t * c) /\ 100 * (t * c) < rd + e
    BY <1>3, <2>1, <2>3, <2>4, <2>5, Z3
  <2>7. exact = IF 100 * y > 100 * e THEN 100 * e ELSE 100 * y
    BY <1>3, <2>3, <2>6 DEF clamp
  <2>8. rd <= 100 * y /\ 100 * y < rd + e + 100 * c
    <3> HIDE DEF e, rd
    <3> QED
      BY <1>3, <1>4, <2>3, <2>6
  <2>9. CASE r > 100
    <3>1. p = 100 /\ p * e = 100 * e /\ rd >= 100 * e
      BY <2>1, <2>6, <2>9, Z3
    <3> HIDE DEF e, rd, exact
    <3>2. p * e <= exact /\ exact <= p * e + (100 * c + e) /\ exact \in Int
      BY <2>3, <2>6, <2>7, <2>8, <3>1
    <3> QED
      BY <1>1, <1>2, <2>5, <3>2 DEF p, q, d, y, exact, e
  <2>10. CASE r <= 100
    <3>1. p = r /\ p * e = rd /\ rd <= 100 * e
      BY <2>1, <2>6, <2>10, Z3
    <3> HIDE DEF e, rd, exact
    <3>2. p * e <= exact /\ exact <= p * e + (100 * c + e) /\ exact \in Int
      BY <2>3, <2>6, <2>7, <2>8, <3>1
    <3> QED
      BY <1>1, <1>2, <2>5, <3>2 DEF p, q, d, y, exact, e
  <2> QED
    BY <2>1, <2>9, <2>10
<1> QED
  BY <1>3, <1>5, <1>6

\* At the lower threshold and below it, the position is 0 percent; at the upper
\* one and above it, 100: the roundings do not reach the thresholds.
LEMMA PercentAtThresholds ==
  ASSUME NEW n \in Nat, NEW c \in Nat, c > 0, NEW lo \in Int, NEW hi \in Int, lo < hi
  PROVE  LET p == Percent(Quotient(100 * n, c), lo, hi)
         IN  /\ 100 * n <= lo * c => p = 0
             /\ 100 * n >= hi * c => p = 100
<1> DEFINE q == (100 * n) \div c
           p == Percent(q, lo, hi)
           e == (hi - lo) * c
<1>1. /\ q \in Nat /\ q * c <= 100 * n /\ 100 * n < q * c + c
      /\ Quotient(100 * n, c) = q
  BY DivBounds DEF Quotient, Magnitude
<1> HIDE DEF q
<1>2. ASSUME 100 * n <= lo * c
      PROVE  p = 0
  <2>1. e > 0 /\ e \in Nat /\ 100 * (hi - lo) * c \in Nat
    BY Z3
  <2>2. 100 * (100 * n - lo * c) \in Int /\ 100 * (100 * n - lo * c) <= 0
    BY <1>2, Z3
  <2>3. clamp(100 * (100 * n - lo * c), 0, 100 * (hi - lo) * c) = 0
    BY <2>1, <2>2 DEF clamp
  <2>4. p \in 0 .. 100 /\ p * e <= 0
    <3>1. /\ Percent(Quotient(100 * n, c), lo, hi) \in 0 .. 100
          /\ Percent(Quotient(100 * n, c), lo, hi) * ((hi - lo) * c)
               <= clamp(100 * (100 * n - lo * c), 0, 100 * (hi - lo) * c)
      BY PercentClose, ZenonT(60)
    <3> QED
      BY <1>1, <2>3, <3>1
  <2> HIDE DEF p, e
  <2> QED
    BY <2>1, <2>4, Z3
<1>3. ASSUME 100 * n >= hi * c
      PROVE  p = 100
  <2>1. (q + 1) * c = q * c + c
    BY <1>1, Z3
  <2>2. hi * c < (q + 1) * c
    BY <1>1, <1>3, <2>1, Z3
  <2>3. hi < q + 1
    BY <1>1, <2>2, Z3
  <2>4. lo <= q /\ q \in Int /\ (q - lo) * 100 \in Nat /\ hi - lo \in Nat /\ hi - lo > 0
    BY <1>1, <2>3
  <2> DEFINE d == hi - lo
             r == ((q - lo) * 100) \div d
  <2>5. r \in Nat /\ p = IF r > 100 THEN 100 ELSE r
    BY <2>4, PercentAbove
  <2>6. (q - lo) * 100 < r * d + d
    BY <2>4, DivBounds
  <2>7. d * 100 <= (q - lo) * 100
    BY <1>1, <2>3
  <2> HIDE DEF d, r, p
  <2>8. d * 100 < (r + 1) * d
    <3>1. (r + 1) * d = r * d + d /\ d \in Nat /\ r * d \in Int
      BY <2>4, <2>5, Z3 DEF d
    <3> DEFINE t == (q - lo) * 100
    <3>2. t \in Nat /\ d * 100 <= t /\ t < r * d + d
      BY <2>4, <2>6, <2>7
    <3> HIDE DEF t
    <3> QED
      BY <3>1, <3>2
  <2>9. 100 < r + 1
    BY <2>4, <2>5, <2>8, Z3 DEF d
  <2> QED
    BY <2>5, <2>9
<1> QED
  BY <1>1, <1>2, <1>3

\* What the last line of both heuristics adds to min_freq is a whole number,
\* less than one below the exact percentage.
LEMMA InterpolateBounds ==
  ASSUME NEW f \in 0 .. 100, NEW max_freq \in Nat, NEW min_freq \in Nat, min_freq <= max_freq
  PROVE  \E g \in Nat :
           /\ Interpolate(f, max_freq, min_freq) = min_freq + g
           /\ 100 * g <= f * (max_freq - min_freq)
           /\ f * (max_freq - min_freq) < 100 * g + 100
<1> DEFINE d == max_freq - min_freq
           g == (f * d) \div 100
<1>1. d \in Nat
  OBVIOUS
<1>2. f * d \in Nat
  BY <1>1, PartOfRange
<1> HIDE DEF d
<1>3. g \in Nat /\ g * 100 <= f * d /\ f * d < g * 100 + 100
  BY <1>2, DivBounds
<1>4. Quotient(f * d, 100) = g
  BY <1>2 DEF Quotient, Magnitude
<1> HIDE DEF g
<1>5. Quotient(f * d, 100) + min_freq = min_freq + g
  BY <1>3, <1>4
<1>6. 100 * g <= f * d /\ f * d < 100 * g + 100
  BY <1>2, <1>3
<1> QED
  BY <1>3, <1>5, <1>6 DEF Interpolate, d

\* Factors 0 and 100 are exact.
LEMMA InterpolateEnds ==
  ASSUME NEW max_freq \in Nat, NEW min_freq \in Nat, min_freq <= max_freq
  PROVE  /\ Interpolate(0, max_freq, min_freq) = min_freq
         /\ Interpolate(100, max_freq, min_freq) = max_freq
<1> USE 0 \in 0 .. 100, 100 \in 0 .. 100
<1>1. PICK g \in Nat :
        /\ Interpolate(0, max_freq, min_freq) = min_freq + g
        /\ 100 * g <= 0 * (max_freq - min_freq)
  BY InterpolateBounds, ZenonT(60)
<1>2. PICK h \in Nat :
        /\ Interpolate(100, max_freq, min_freq) = min_freq + h
        /\ 100 * h <= 100 * (max_freq - min_freq)
        /\ 100 * (max_freq - min_freq) < 100 * h + 100
  BY InterpolateBounds, ZenonT(60)
<1>3. g = 0 /\ h = max_freq - min_freq
  BY <1>1, <1>2
<1> QED
  BY <1>1, <1>2, <1>3

\* A factor f of at most y parts of 100 * e adds at most that share of the
\* range d ...
LEMMA ShareAtMost ==
  ASSUME NEW f \in Nat, NEW d \in Nat, NEW g \in Nat, NEW e \in Nat, NEW y \in Int,
         100 * g <= f * d, f * e <= y
  PROVE  g * (100 * e) <= y * d
<1>1. (100 * g) * e <= (f * d) * e
  BY Z3
<1>2. (f * e) * d <= y * d
  BY Z3
<1>3. (100 * g) * e = g * (100 * e) /\ (f * d) * e = (f * e) * d
  BY Z3
<1> QED
  BY <1>1, <1>2, <1>3, Z3

\* ... and a factor of at least y parts adds it but for less than one unit.
LEMMA ShareAtLeast ==
  ASSUME NEW f \in Nat, NEW d \in Nat, NEW g \in Nat, NEW e \in Nat, e > 0, NEW y \in Int,
         f * d < 100 * g + 100, f * e >= y
  PROVE  g * (100 * e) > y * d - 100 * e
<1>1. (f * d) * e < (100 * g + 100) * e
  BY Z3
<1>2. (f * e) * d >= y * d
  BY Z3
<1>3. (100 * g + 100) * e = g * (100 * e) + 100 * e /\ (f * d) * e = (f * e) * d
  BY Z3
<1>4. g * (100 * e) \in Int /\ y * d \in Int /\ (f * e) * d \in Int
  BY Z3
<1> QED
  BY <1>1, <1>2, <1>3, <1>4, Z3

\* Percentage and interpolation together, as the stalls heuristic has them: the
\* frequency is the exact one, rounded up by at most the error of two percentages
\* and down by less than one unit.
LEMMA InvertedClose ==
  ASSUME NEW n \in Nat, NEW c \in Nat, c > 0, NEW lo \in Int, NEW hi \in Int, lo < hi,
         NEW max_freq \in Nat, NEW min_freq \in Nat, min_freq <= max_freq
  PROVE  LET freq == Interpolate(100 - Percent(Quotient(100 * n, c), lo, hi),
                                 max_freq, min_freq)
             whole == 100 * (hi - lo) * c
             exact == min_freq * whole
                        + (whole - clamp(100 * (100 * n - lo * c), 0, whole))
                            * (max_freq - min_freq)
         IN  /\ freq * whole > exact - whole
             /\ freq * whole <= exact + (c * (100 + (hi - lo))) * (max_freq - min_freq)
<1> DEFINE p == Percent(Quotient(100 * n, c), lo, hi)
           e == (hi - lo) * c
           w == 100 * (hi - lo) * c
           x == clamp(100 * (100 * n - lo * c), 0, w)
           r == c * (100 + (hi - lo))
           d == max_freq - min_freq
           freq == Interpolate(100 - p, max_freq, min_freq)
<1>1. p \in 0 .. 100 /\ x \in Int /\ p * e <= x /\ x <= p * e + r
  BY PercentClose, SMTT(60)
<1>2. e \in Nat /\ e > 0 /\ w = 100 * e /\ r \in Nat
  BY Z3
<1>3. d \in Nat
  OBVIOUS
<1> HIDE DEF p, e, x, r, w
<1>4. 100 - p \in 0 .. 100 /\ (100 - p) * e = w - p * e
  BY <1>1, <1>2, Z3
<1>5. PICK g \in Nat :
        /\ freq = min_freq + g
        /\ 100 * g <= (100 - p) * d
        /\ (100 - p) * d < 100 * g + 100
  BY <1>4, InterpolateBounds, ZenonT(60)
<1> HIDE DEF d, freq
<1> DEFINE q == 100 - p
           y == w - x
<1>6. q \in Nat /\ y \in Int /\ w \in Nat /\ y + r \in Int /\ p * e \in Int
  BY <1>1, <1>2, <1>4
<1>7. q * e >= y /\ q * e <= y + r
  BY <1>1, <1>2, <1>4, <1>6
<1>8. g * w > y * d - w
  BY <1>2, <1>3, <1>5, <1>6, <1>7, ShareAtLeast
<1>9. g * w <= (y + r) * d
  BY <1>2, <1>3, <1>5, <1>6, <1>7, ShareAtMost
<1> HIDE DEF q, y
<1>10. /\ (y + r) * d = y * d + r * d
       /\ (min_freq + g) * w = min_freq * w + g * w
       /\ y * d \in Int /\ r * d \in Int /\ min_freq * w \in Int /\ g * w \in Int
  BY <1>2, <1>3, <1>5, <1>6, Z3
<1>11. /\ freq * w > (min_freq * w + y * d) - w
       /\ freq * w <= (min_freq * w + y * d) + r * d
  BY <1>5, <1>6, <1>8, <1>9, <1>10
<1> QED
  BY <1>11, Zenon DEF freq, p, x, r, w, y, d
=============================================================================
