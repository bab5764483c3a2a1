---------------------------- MODULE MCFreqUpdate ----------------------------
(***************************************************************************)
(* FreqUpdate with a small clock: an idle tick, busy ticks with no, some   *)
(* and many stalls, and a tick in which the events were multiplexed and    *)
(* counted more stalls than cycles.                                        *)
(***************************************************************************)
EXTENDS FreqUpdate, TLC

Counted(clk1, clk2, stalls) == (0 :> clk1) @@ (1 :> clk2) @@ (2 :> stalls)

MCIncrements ==
  {Counted(0, 0, 0), Counted(2, 2, 0), Counted(3, 3, 1), Counted(1, 1, 2)}

MCLimits == {[min |-> 800, max |-> 3500], [min |-> 1200, max |-> 1800]}
=============================================================================
