---------------------------- MODULE MCPerfEvents ----------------------------
(***************************************************************************)
(* PerfEvents with two maps and three CPUs: one for each map, and one for  *)
(* which there is none.  The first table has the cases: an event described *)
(* by one pair, by as many as the parser takes and by one more; an unknown *)
(* key; a code of 12 bits; an entry of a metric, without a name; a second  *)
(* entry of a name.                                                        *)
(***************************************************************************)
EXTENDS PerfEvents

MCCpuIds == {<<"GenuineIntel", "-", "6", "-", "5E", "-", "3">>,
             <<"GenuineIntel", "-", "6", "-", "56", "-", "1">>,
             <<"AuthenticAMD", "-", "25", "-", "50", "-", "0">>}

MCPortable == [n \in {"cycles"} |-> [type |-> 0, config |-> {}]]
              @@ [n \in {"ll-write-miss"} |-> [type |-> 3, config |-> {1, 8, 16}]]

MCNumber ==
  (<<"1">> :> {0}) @@ (<<"0x", "3c">> :> {2, 3, 4, 5}) @@
  (<<"0x", "1", "cf">> :> {0, 1, 2, 3, 6, 7, 8}) @@ (<<"20">> :> {2, 4})

Event(n, s) == [name |-> n, event |-> s, desc |-> TRUE]
End == [name |-> NULL, event |-> <<>>, desc |-> FALSE]

Single == <<"event", Eq, "0x", "3c">>
Full == Single \o <<Comma, "c", "mask", Eq, "20", Comma, "inv", Eq, "1">>
TooLong == Full \o <<Comma, "u", "mask", Eq, "1">>
Unknown == <<"u", "mask", Eq, "1", Comma, "ld", "lat", Eq, "0x", "3c">>
Wide == <<"event", Eq, "0x", "1", "cf", Comma, "period", Eq, "20">>

MCTable ==
  << Event("single", Single), Event(NULL, <<>>), Event("full", Full),
     Event("long", TooLong), Event("unknown", Unknown), Event("wide", Wide),
     Event("single", Wide), End >>

MCEventsMap ==
  << [cpuid |-> <<"GenuineIntel", "-", "6", "-", "56">>, table |-> MCTable],
     [cpuid |-> <<"GenuineIntel", "-", "6", "-", "5E">>,
      table |-> <<Event("full", Wide), End>>],
     [cpuid |-> <<>>, table |-> NoTable] >>
=============================================================================
