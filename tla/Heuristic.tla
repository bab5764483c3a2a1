----------------------------- MODULE Heuristic ------------------------------
(***************************************************************************)
(* The two heuristics of memutil_main.c, which turn the perf event values  *)
(* of an interval into a frequency, with C's integer arithmetic.  A build  *)
(* has one of them (the macro HEURISTIC); stalls is the default.           *)
(***************************************************************************)
EXTENDS Integers

CONSTANTS
  U64,                    \* 2^64, the number of values of a u64
  max_stalls_per_cycle,   \* module parameters, in percent
  min_stalls_per_cycle,
  max_ipc,
  min_ipc

(***************************************************************************)
(* The parameters are not validated when the module is loaded; the code    *)
(* divides by these differences.                                           *)
(***************************************************************************)
ASSUME ParameterAssumption ==
  /\ U64 \in Nat /\ U64 > 0
  /\ max_stalls_per_cycle \in Int /\ min_stalls_per_cycle \in Int
  /\ max_stalls_per_cycle # min_stalls_per_cycle
  /\ max_ipc \in Int /\ min_ipc \in Int
  /\ max_ipc # min_ipc

\* x is the value of an s64.
FitsS64(x) == -U64 <= 2 * x /\ 2 * x < U64

\* The value of an s64 after the conversion of, or an overflow to, x.
S64(x) == LET u == x % U64 IN IF 2 * u < U64 THEN u ELSE u - U64

Magnitude(x) == IF x < 0 THEN -x ELSE x

\* a / b in C: truncation towards zero.
Quotient(a, b) ==
  LET q == Magnitude(a) \div Magnitude(b) IN IF (a < 0) = (b < 0) THEN q ELSE -q

\* Faulty: only the upper bound is applied.
clampAbove(x, lo, hi) == IF x > hi THEN hi ELSE x

clamp(x, lo, hi) == IF x < lo THEN lo ELSE IF x > hi THEN hi ELSE x

\* frequency_factor * (max_freq - min_freq) / 100 + min_freq
Interpolate(frequency_factor, max_freq, min_freq) ==
  Quotient(frequency_factor * (max_freq - min_freq), 100) + min_freq

\* Faulty: in unsigned arithmetic a value below the lower bound becomes huge.
PositionUnsigned(value, lowest, highest) ==
  IF value < lowest THEN 100
  ELSE clamp(Quotient(S64((value - lowest) * 100), highest - lowest), 0, 100)

\* Faulty: division by the upper bound instead of the range.
PositionOfHighest(value, lowest, highest) ==
  clamp(Quotient(S64((value - lowest) * 100), highest), 0, 100)

\* Where value lies between the two bounds, in percent.  The product is an s64 and
\* wraps around for a value that is far away from the lower bound.
Position(value, lowest, highest) ==
  clamp(Quotient(S64((value - lowest) * 100), highest - lowest), 0, 100)

\* Faulty: the division comes before the multiplication and loses the fraction.
heuristic_ipc_divides_first(instructions, cycles, max_freq, min_freq) ==
  LET instructions_per_cycle == Quotient(instructions, cycles) * 100
  IN  Interpolate(Position(instructions_per_cycle, min_ipc, max_ipc),
                  max_freq, min_freq)

calculate_frequency_heuristic_ipc(instructions, cycles, max_freq, min_freq) ==
  LET instructions_per_cycle == Quotient(S64(instructions * 100), cycles)
  IN  Interpolate(Position(instructions_per_cycle, min_ipc, max_ipc),
                  max_freq, min_freq)

\* Faulty: the factor is not inverted.
heuristic_stalls_not_inverted(stalls, cycles, max_freq, min_freq) ==
  LET stalls_per_cycle == Quotient(S64(stalls * 100), cycles)
  IN  Interpolate(Position(stalls_per_cycle, min_stalls_per_cycle, max_stalls_per_cycle),
                  max_freq, min_freq)

calculate_frequency_heuristic_stalls(stalls, cycles, max_freq, min_freq) ==
  LET stalls_per_cycle == Quotient(S64(stalls * 100), cycles)
  IN  Interpolate(100 - Position(stalls_per_cycle, min_stalls_per_cycle,
                                 max_stalls_per_cycle),
                  max_freq, min_freq)
\* Neither of a heuristic's two products overflows for a number of events in a
\* number of cycles, with the lower threshold lowest.
ProductsFit(events, cycles, lowest) ==
  /\ FitsS64(events * 100)
  /\ FitsS64((Quotient(events * 100, cycles) - lowest) * 100)
=============================================================================
