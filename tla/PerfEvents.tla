----------------------------- MODULE PerfEvents -----------------------------
(***************************************************************************)
(* From the name of a perf event to the attributes of a kernel counter     *)
(* (memutil_perf_counter.c, memutil_cpuid_helper.c): the choice of the     *)
(* events map, the search for the event, and the parser of its description *)
(* "key=value,key=value,...".  Module Governor has the concurrent calls of *)
(* these functions; here they are called one after the other.              *)
(*                                                                         *)
(* A string is a sequence of cells, each a character or several that no    *)
(* branch tells apart; indices start at 1.  A number is the set of its     *)
(* one bits.                                                               *)
(***************************************************************************)
EXTENDS Integers, Sequences, SequencesExt, FiniteSetsExt

CONSTANTS
  Names,       \* event names that a module parameter may hold
  CpuIds,      \* CPUs, as memutil_get_cpuid_str writes them
  EventsMap,   \* memutil_pmu_events_map
  Portable,    \* portable_events: a function from names to types and configs
  Number,      \* what kstrtoull accepts, and the bits of the value
  MaxPairs,    \* PARSE_EVENT_MAX_PAIRS
  NULL,        \* a pointer and a character
  NoTable      \* the table of the entry at the end of the map

IsSequence(s) == s \in Seq({s[k] : k \in DOMAIN s})

\* The characters = and ,
Eq == "equals"
Comma == "comma"
Sep(c) == c \in {Eq, Comma}

\* Behind position k of a description stand a key, "=" and a value, neither of
\* them empty.
PairFollows(s, k) ==
  \E e \in k + 2 .. Len(s) - 1 :
    /\ s[e] = Eq
    /\ ~Sep(s[e + 1])
    /\ \A j \in k + 1 .. e - 1 : ~Sep(s[j])

\* The descriptions in pmu_events.c: pairs, separated by ",".
WellFormed(s) ==
  /\ IsSequence(s)
  /\ \A k \in 1 .. Len(s) : s[k] # NULL
  /\ PairFollows(s, 0)
  /\ \A k \in 1 .. Len(s) : s[k] = Comma => PairFollows(s, k)
  /\ \A a, b \in 1 .. Len(s) :
       a < b /\ s[a] = Eq /\ s[b] = Eq => \E k \in a .. b : s[k] = Comma

\* The end of a table, and no other entry, has neither name, event (<<>> stands
\* for NULL) nor description.  The entry of a metric has a description and no
\* name.
EndMarker(e) == e.name = NULL /\ e.event = <<>> /\ ~e.desc

WellFormedTable(t) ==
  /\ IsSequence(t)
  /\ Len(t) > 0 /\ EndMarker(t[Len(t)])
  /\ \A k \in 1 .. Len(t) - 1 : ~EndMarker(t[k])
  /\ \A k \in 1 .. Len(t) : t[k].name # NULL => WellFormed(t[k].event)

Bits == 0 .. 31

ASSUME PerfEventsAssumption ==
  /\ MaxPairs \in Nat \ {0}
  /\ NULL \notin Names /\ ~Sep(NULL)
  /\ \A n \in DOMAIN Portable :
       Portable[n].type \in Nat /\ Portable[n].config \in SUBSET Bits
  /\ \A v \in DOMAIN Number : Number[v] \in SUBSET (0 .. 63)
  /\ IsSequence(EventsMap)
  /\ Len(EventsMap) > 0 /\ EventsMap[Len(EventsMap)].table = NoTable
  /\ \A k \in 1 .. Len(EventsMap) :
       EventsMap[k].table # NoTable => WellFormedTable(EventsMap[k].table)

VARIABLES
  cpuid,           \* the CPU
  events_map,      \* an index of EventsMap, 0 for NULL
  pc, ret,         \* where the call is, and what the last one returned
  want,            \* counter_name, NULL in a call of memutil_setup_events_map
  i,               \* loop variable of the two searches, less 1
  type, config,    \* perf_event_type, perf_event_config
  event_string,    \* the copy of the description, which the parser cuts up
  keys, values,    \* pairs: where key and value start; 0 is uninitialised
  reading,         \* is_reading_key: "key" or "value"
  pair_index, pair_count, current_index

search == <<want, i, type>>
parser ==
  <<event_string, keys, values, reading, pair_index, pair_count, current_index>>
vars == <<cpuid, events_map, pc, ret, search, config, parser>>

Uninitialised == [p \in 0 .. MaxPairs - 1 |-> 0]

TypeOK ==
  /\ cpuid \in CpuIds
  /\ events_map \in 0 .. Len(EventsMap)
  /\ pc \in {"idle", "setup", "find", "copy", "split", "convert", "create"}
  /\ ret \in {"none", "ok", "EINVAL", "ENOMEM", "refused"}
  /\ want \in Names \cup {NULL}
  /\ i \in Nat
  /\ type \in Nat
  /\ config \in SUBSET Bits
  /\ keys \in [0 .. MaxPairs - 1 -> Nat]
  /\ values \in [0 .. MaxPairs - 1 -> Nat]
  /\ reading \in {"key", "value"}
  /\ pair_index \in 0 .. MaxPairs
  /\ pair_count \in 0 .. MaxPairs
  /\ current_index \in Nat

Init ==
  /\ cpuid \in CpuIds
  /\ events_map = 0
  /\ pc = "idle"
  /\ ret = "none"
  /\ want = NULL
  /\ i = 0
  /\ type = 0
  /\ config = {}
  /\ event_string = <<>>
  /\ keys = Uninitialised
  /\ values = Uninitialised
  /\ reading = "key"
  /\ pair_index = 0
  /\ pair_count = 0
  /\ current_index = 0

\* A call returns; event_string is freed.
Return(r) ==
  /\ pc' = "idle"
  /\ ret' = r
  /\ event_string' = <<>>
  /\ UNCHANGED <<keys, values, reading, pair_index, pair_count, current_index>>

-----------------------------------------------------------------------------
(***************************************************************************)
(* The events map.                                                         *)
(***************************************************************************)
IsFullCpuid(id) == Cardinality({k \in DOMAIN id : id[k] = "-"}) = 3

CpuidMatches(pattern, id) == IsFullCpuid(id) /\ IsPrefix(pattern, id)

\* memutil_setup_events_map, as far as the string of the CPU; there may be no
\* memory for it.
SetupEventsMap ==
  /\ pc = "idle"
  /\ want' = NULL
  /\ i' = 1
  /\ \/ /\ pc' = "setup" /\ ret' = "none"
        /\ UNCHANGED parser
     \/ Return("ENOMEM")
  /\ UNCHANGED <<cpuid, events_map, type, config>>

\* The condition under which the search for a map ends.
SearchEnds(m) == ~CpuidMatches(m.cpuid, cpuid)

\* One iteration of its loop.  With the maps of pmu_events.c, of which at most
\* one matches, it does not get to the end of the map.
SetupScan ==
  /\ pc = "setup"
  /\ i' = i + 1
  /\ IF EventsMap[i].table = NoTable
     THEN events_map' = 0 /\ Return("EINVAL")
     ELSE /\ events_map' = i
          /\ IF SearchEnds(EventsMap[i]) THEN Return("ok")
                                         ELSE UNCHANGED <<pc, ret, parser>>
  /\ UNCHANGED <<cpuid, want, type, config>>

TeardownEventsMap ==
  /\ pc = "idle"
  /\ events_map # 0
  /\ events_map' = 0
  /\ want' = NULL
  /\ ret' = "none"
  /\ UNCHANGED <<cpuid, pc, i, type, config, parser>>

-----------------------------------------------------------------------------
(***************************************************************************)
(* memutil_allocate_named_perf_counter: find the event.                    *)
(***************************************************************************)
Table == EventsMap[events_map].table

\* A portable event is looked up by name; otherwise the table is searched, if
\* there is one.
Allocate(n) ==
  /\ pc = "idle"
  /\ want' = n
  /\ i' = 1
  /\ \/ /\ n \in DOMAIN Portable
        /\ type' = Portable[n].type
        /\ config' = Portable[n].config
        /\ pc' = "create" /\ ret' = "none"
        /\ UNCHANGED parser
     \/ /\ n \notin DOMAIN Portable
        /\ type' = 4
        /\ config' = {}
        /\ IF events_map = 0 THEN Return("EINVAL")
           ELSE pc' = "find" /\ ret' = "none" /\ UNCHANGED parser
  /\ UNCHANGED <<cpuid, events_map>>

\* Faulty: an entry without a name ends the table.
NamelessEnds(e) == e.name = NULL

AtEnd(e) == EndMarker(e)

\* One iteration of find_platform_event; event is the entry at i.
FindPlatformEvent ==
  /\ pc = "find"
  /\ \/ /\ AtEnd(Table[i])
        /\ Return("EINVAL")
        /\ UNCHANGED i
     \/ /\ ~AtEnd(Table[i])
        /\ i' = IF Table[i].name = want THEN i ELSE i + 1
        /\ pc' = IF Table[i].name = want THEN "copy" ELSE "find"
        /\ UNCHANGED <<ret, parser>>
  /\ UNCHANGED <<cpuid, events_map, want, type, config>>

-----------------------------------------------------------------------------
(***************************************************************************)
(* parse_platform_event.                                                   *)
(***************************************************************************)

\* The description is copied; there may be no memory for the copy.
CopyEvent ==
  /\ pc = "copy"
  /\ config' = {}
  /\ \/ /\ pc' = "split"
        /\ event_string' = Append(Table[i].event, NULL)
        /\ keys' = [Uninitialised EXCEPT ![0] = 1]
        /\ values' = Uninitialised
        /\ reading' = "key"
        /\ pair_index' = 0
        /\ pair_count' = 0
        /\ current_index' = 1
        /\ UNCHANGED ret
     \/ Return("ENOMEM")
  /\ UNCHANGED <<cpuid, events_map, search>>

Current == event_string[current_index]
AtKeyEnd == reading = "key" /\ Current = Eq
AtValueEnd == reading = "value" /\ Current = Comma

\* The two branches of the loop step over the separator, and the loop over the
\* first character behind it.
KeyEnd ==
  /\ pc = "split" /\ Current # NULL /\ AtKeyEnd
  /\ event_string' = [event_string EXCEPT ![current_index] = NULL]
  /\ values' = [values EXCEPT ![pair_index] = current_index + 1]
  /\ reading' = "value"
  /\ current_index' = current_index + 2
  /\ UNCHANGED <<cpuid, events_map, pc, ret, search, config, keys, pair_index,
                 pair_count>>

\* Faulty: room for one pair more.
TooManyPairsLate(n) == n > MaxPairs

TooManyPairs(n) == n >= MaxPairs

ValueEnd ==
  /\ pc = "split" /\ Current # NULL /\ AtValueEnd
  /\ pair_index' = pair_index + 1
  /\ IF TooManyPairs(pair_index + 1)
     THEN /\ pc' = "idle" /\ ret' = "EINVAL" /\ event_string' = <<>>
          /\ UNCHANGED <<keys, reading, current_index>>
     ELSE /\ event_string' = [event_string EXCEPT ![current_index] = NULL]
          /\ keys' = [keys EXCEPT ![pair_index + 1] = current_index + 1]
          /\ reading' = "key"
          /\ current_index' = current_index + 2
          /\ UNCHANGED <<pc, ret>>
  /\ UNCHANGED <<cpuid, events_map, search, config, values, pair_count>>

InsideToken ==
  /\ pc = "split" /\ Current # NULL /\ ~AtKeyEnd /\ ~AtValueEnd
  /\ current_index' = current_index + 1
  /\ UNCHANGED <<cpuid, events_map, pc, ret, search, config, event_string, keys, values,
                 reading, pair_index, pair_count>>

\* Faulty: the last pair, behind which there is no separator, is not counted.
StringEndDropsLast ==
  /\ pc = "split" /\ Current = NULL
  /\ pc' = "convert"
  /\ pair_count' = pair_index
  /\ pair_index' = 0
  /\ UNCHANGED <<cpuid, events_map, ret, search, config, event_string, keys, values,
                 reading, current_index>>

StringEnd ==
  /\ pc = "split" /\ Current = NULL
  /\ pc' = "convert"
  /\ pair_count' = pair_index + 1
  /\ pair_index' = 0
  /\ UNCHANGED <<cpuid, events_map, ret, search, config, event_string, keys, values,
                 reading, current_index>>

\* The C string that starts at k.
CString(k) ==
  SubSeq(event_string, k,
         Min({n \in k .. Len(event_string) : event_string[n] = NULL}) - 1)

\* Shift and mask of the keys parse_event_pair knows: width bits from bit low
\* on.  A period is not a part of config.
Fields == {
  [key |-> <<"event">>,     low |-> 0,  width |-> 8],
  [key |-> <<"u", "mask">>, low |-> 8,  width |-> 8],
  [key |-> <<"c", "mask">>, low |-> 24, width |-> 8],
  [key |-> <<"edge">>,      low |-> 18, width |-> 1],
  [key |-> <<"inv">>,       low |-> 23, width |-> 1],
  [key |-> <<"any">>,       low |-> 21, width |-> 1],
  [key |-> <<"period">>,    low |-> 0,  width |-> 0] }

Known(key) == \E f \in Fields : f.key = key

FieldBits(key, value) ==
  UNION {{f.low + b : b \in value \cap (0 .. f.width - 1)} :
           f \in {g \in Fields : g.key = key}}

\* parse_event_pair, which fails for what is not a number and for unknown keys.
ConvertPair ==
  /\ pc = "convert"
  /\ pair_index < pair_count
  /\ LET key == CString(keys[pair_index])
         value == CString(values[pair_index])
     IN  IF value \in DOMAIN Number /\ Known(key)
         THEN /\ config' = config \cup FieldBits(key, Number[value])
              /\ pair_index' = pair_index + 1
              /\ UNCHANGED <<pc, ret, event_string>>
         ELSE /\ pc' = "idle" /\ ret' = "EINVAL" /\ event_string' = <<>>
              /\ UNCHANGED <<config, pair_index>>
  /\ UNCHANGED <<cpuid, events_map, search, keys, values, reading, pair_count, current_index>>

ParseEnd ==
  /\ pc = "convert"
  /\ pair_index >= pair_count
  /\ pc' = "create"
  /\ event_string' = <<>>
  /\ UNCHANGED <<cpuid, events_map, ret, search, config, keys, values, reading,
                 pair_index, pair_count, current_index>>

\* memutil_allocate_perf_counter_for; perf may refuse the counter.
CreateCounter ==
  /\ pc = "create"
  /\ Return("ok") \/ Return("refused")
  /\ UNCHANGED <<cpuid, events_map, search, config>>

-----------------------------------------------------------------------------
Step ==
  \/ SetupScan
  \/ FindPlatformEvent
  \/ CopyEvent
  \/ KeyEnd
  \/ ValueEnd
  \/ InsideToken
  \/ StringEnd
  \/ ConvertPair
  \/ ParseEnd
  \/ CreateCounter

Next ==
  \/ SetupEventsMap
  \/ TeardownEventsMap
  \/ \E n \in Names : Allocate(n)
  \/ Step

Spec == Init /\ [][Next]_vars

-----------------------------------------------------------------------------
(***************************************************************************)
(* What the functions are to compute.                                      *)
(***************************************************************************)

\* The entries of that name of the table in use, and the first of them.
Named(n) == {k \in DOMAIN Table : Table[k].name = n}

\* Key and value of the pair whose "=" is at e.
Equals(s) == {k \in DOMAIN s : s[k] = Eq}
Commas(s) == {k \in DOMAIN s : s[k] = Comma}
KeyOf(s, e) == SubSeq(s, Max({k \in Commas(s) : k < e} \cup {0}) + 1, e - 1)
ValueOf(s, e) ==
  SubSeq(s, e + 1, Min({k \in Commas(s) : k > e} \cup {Len(s) + 1}) - 1)

Parsable(s) ==
  /\ Cardinality(Equals(s)) <= MaxPairs
  /\ \A e \in Equals(s) : Known(KeyOf(s, e)) /\ ValueOf(s, e) \in DOMAIN Number

ConfigOf(s) ==
  UNION {FieldBits(KeyOf(s, e), Number[ValueOf(s, e)]) : e \in Equals(s)}

(***************************************************************************)
(* Properties.                                                             *)
(***************************************************************************)

\* A counter is created with the type and config of the portable event, or else
\* with those that all pairs of the first entry of that name add up to.
AttributesExact ==
  pc = "create" =>
    IF want \in DOMAIN Portable
    THEN type = Portable[want].type /\ config = Portable[want].config
    ELSE /\ type = 4
         /\ events_map # 0 /\ Named(want) # {}
         /\ LET s == Table[Min(Named(want))].event
            IN  Parsable(s) /\ config = ConfigOf(s)

\* An event is rejected only if it is not portable and there is no map, no entry
\* of that name, or one with more pairs than PARSE_EVENT_MAX_PAIRS, an unknown
\* key or a value that is not a number.
RejectedForCause ==
  ret = "EINVAL" /\ want # NULL =>
    /\ want \notin DOMAIN Portable
    /\ \/ events_map = 0
       \/ Named(want) = {}
       \/ ~Parsable(Table[Min(Named(want))].event)

\* The searches stay within map and table, the parser within the string and
\* within pairs, of which it uses no element that it has not set.
InBounds ==
  /\ pc = "setup" => i \in DOMAIN EventsMap
  /\ pc \in {"find", "copy"} => i \in DOMAIN Table
  /\ pc = "split" => current_index \in DOMAIN event_string /\ pair_index < MaxPairs
  /\ pc = "convert" /\ pair_index < pair_count =>
       /\ pair_index < MaxPairs
       /\ keys[pair_index] \in DOMAIN event_string
       /\ values[pair_index] \in DOMAIN event_string

\* "Setup which pmu_events_map we use depending on the cpuid" (perf_counter.h
\* 50): memutil_setup_events_map succeeds with a map for this CPU only.
MapFitsCpu ==
  pc # "setup" /\ events_map # 0 => CpuidMatches(EventsMap[events_map].cpuid, cpuid)
=============================================================================
