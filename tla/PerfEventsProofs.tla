-------------------------- MODULE PerfEventsProofs --------------------------
(***************************************************************************)
(* For every map, table and well-formed description, and every limit of    *)
(* pairs: search and parser stay within bounds, an event gets exactly the  *)
(* attributes its first entry describes, and only what cannot be parsed is *)
(* rejected.                                                               *)
(***************************************************************************)
EXTENDS PerfEvents, FiniteSetTheorems, SequenceTheorems, TLAPS

Desc == Table[i].event

\* What the searches rely on: the map in use has a table, the name that is
\* looked for is that of no portable event, and no entry before i has it.
SearchInv ==
  /\ events_map # 0 => EventsMap[events_map].table # NoTable
  /\ pc = "setup" => i \in 1 .. Len(EventsMap) /\ want = NULL
  /\ pc \in {"find", "copy", "split", "convert"} =>
       /\ events_map # 0 /\ i \in 1 .. Len(Table)
       /\ want \in Names /\ want \notin DOMAIN Portable
       /\ type = 4
       /\ \A k \in 1 .. i - 1 : Table[k].name # want
  /\ pc \in {"copy", "split", "convert"} => Table[i].name = want

\* es is the copy of s, cut at every separator before c and not changed
\* otherwise.
Cut(s, es, c) ==
  /\ es \in Seq({s[k] : k \in DOMAIN s} \cup {NULL})
  /\ Len(es) = Len(s) + 1
  /\ es[Len(s) + 1] = NULL
  /\ c \in 1 .. Len(s) + 1
  /\ \A k \in 1 .. Len(s) : es[k] = IF k < c /\ Sep(s[k]) THEN NULL ELSE s[k]

\* A key starts at k and goes on at least as far as before n.
KeyFrom(s, k, n) ==
  /\ k \in 1 .. n
  /\ k = 1 \/ s[k - 1] = Comma
  /\ \A j \in k .. n - 1 : ~Sep(s[j])

\* The first n keys and values are those of the pairs whose "=" is before c,
\* each once.
Pairs(s, ks, vs, n, c) ==
  /\ \A p \in 0 .. n - 1 : vs[p] - 1 \in Equals(s) /\ KeyFrom(s, ks[p], vs[p] - 1)
  /\ \A e \in Equals(s) : e < c => \E p \in 0 .. n - 1 : vs[p] - 1 = e
  /\ Cardinality({e \in Equals(s) : e < c}) = n

\* From c on there is the rest of a key, "=" and a value.
KeyAhead(s, c) ==
  \E e \in c .. Len(s) - 1 :
    /\ s[e] = Eq
    /\ ~Sep(s[e + 1])
    /\ \A j \in c .. e - 1 : ~Sep(s[j])

\* The loop of parse_platform_event.
SplitInv ==
  pc = "split" =>
    /\ Cut(Desc, event_string, current_index)
    /\ config = {}
    /\ pair_index < MaxPairs
    /\ reading = "key" =>
         /\ Pairs(Desc, keys, values, pair_index, current_index)
         /\ KeyFrom(Desc, keys[pair_index], current_index)
         /\ KeyAhead(Desc, current_index)
    /\ reading = "value" =>
         /\ Pairs(Desc, keys, values, pair_index + 1, current_index)
         /\ values[pair_index] \in 1 .. current_index
         /\ \A j \in values[pair_index] .. current_index - 1 : Desc[j] # Comma

\* The first n pairs are understood, and what they add up to.
Understood(s, vs, n) ==
  \A p \in 0 .. n - 1 :
    Known(KeyOf(s, vs[p] - 1)) /\ ValueOf(s, vs[p] - 1) \in DOMAIN Number
ConfigOfPairs(s, vs, n) ==
  UNION {FieldBits(KeyOf(s, vs[p] - 1), Number[ValueOf(s, vs[p] - 1)]) : p \in 0 .. n - 1}

\* The loop that converts the pairs.
ConvertInv ==
  pc = "convert" =>
    /\ Cut(Desc, event_string, Len(Desc) + 1)
    /\ Pairs(Desc, keys, values, pair_count, Len(Desc) + 1)
    /\ pair_index <= pair_count
    /\ Understood(Desc, values, pair_index)
    /\ config = ConfigOfPairs(Desc, values, pair_index)

IInv ==
  /\ TypeOK /\ SearchInv /\ SplitInv /\ ConvertInv
  /\ AttributesExact /\ RejectedForCause

-----------------------------------------------------------------------------
(***************************************************************************)
(* Sets of numbers and sequences.                                          *)
(***************************************************************************)

\* A least element is the minimum.
LEMMA MinIs ==
  ASSUME NEW S, S \subseteq Int, NEW m \in S, \A y \in S : m <= y
  PROVE  Min(S) = m
<1> DEFINE n == Min(S)
<1>1. Min(S) \in S /\ \A y \in S : Min(S) <= y
  BY Zenon DEF Min
<1>2. n \in Int /\ m \in Int /\ n <= m /\ m <= n
  BY <1>1
<1> HIDE DEF n
<1>3. n = m
  BY <1>2
<1> QED
  BY <1>3 DEF n

\* A greatest element is the maximum.
LEMMA MaxIs ==
  ASSUME NEW S, S \subseteq Int, NEW m \in S, \A y \in S : m >= y
  PROVE  Max(S) = m
<1> DEFINE n == Max(S)
<1>1. Max(S) \in S /\ \A y \in S : Max(S) >= y
  BY Zenon DEF Max
<1>2. n \in Int /\ m \in Int /\ n <= m /\ m <= n
  BY <1>1
<1> HIDE DEF n
<1>3. n = m
  BY <1>2
<1> QED
  BY <1>3 DEF n

\* A set of natural numbers that is not empty has a minimum.
LEMMA MinExists ==
  ASSUME NEW S, S \subseteq Nat, S # {}
  PROVE  Min(S) \in S /\ \A y \in S : Min(S) <= y
<1> DEFINE R == OpToRel(<, Nat)
<1>1. \A x, y \in Nat : x < y => <<x, y>> \in R
  BY DEF OpToRel
<1>2. PICK m \in S : \A y \in S : ~(<<y, m>> \in R)
  BY NatLessThanWellFounded, WFMin
<1>3. \A y \in S : ~(y < m)
  BY <1>1, <1>2, Zenon
<1>4. \A y \in S : m <= y
  BY <1>3
<1>5. Min(S) = m
  <2>1. S \subseteq Int
    OBVIOUS
  <2> QED
    BY <1>4, <2>1, MinIs
<1> QED
  BY <1>4, <1>5

\* The length of a sequence is a number, and its domain goes from 1 to it.
LEMMA SequenceLength ==
  ASSUME NEW s, IsSequence(s)
  PROVE  Len(s) \in Nat /\ DOMAIN s = 1 .. Len(s)
BY DEF IsSequence

\* The positions of "=" are finitely many.
LEMMA EqualsFinite ==
  ASSUME NEW s, IsSequence(s)
  PROVE  /\ Equals(s) = {k \in 1 .. Len(s) : s[k] = Eq}
         /\ IsFiniteSet(Equals(s))
         /\ \A S \in SUBSET Equals(s) : IsFiniteSet(S) /\ Cardinality(S) <= Cardinality(Equals(s))
<1>1. Len(s) \in Nat /\ Equals(s) = {k \in 1 .. Len(s) : s[k] = Eq}
  BY SequenceLength DEF Equals
<1>2. IsFiniteSet(1 .. Len(s)) /\ Equals(s) \in SUBSET (1 .. Len(s))
  BY <1>1, FS_Interval
<1>3. IsFiniteSet(Equals(s))
  BY <1>2, FS_Subset
<1> QED
  BY <1>1, <1>3, FS_Subset

\* The characters = and , and the end of a string are three.
LEMMA Characters == Eq # Comma /\ Sep(Eq) /\ Sep(Comma) /\ ~Sep(NULL)
BY PerfEventsAssumption DEF Eq, Comma, Sep

-----------------------------------------------------------------------------
(***************************************************************************)
(* Keys and values of a well-formed description.                           *)
(***************************************************************************)

\* The key before the "=" at e starts where the parser says.
LEMMA KeyOfIs ==
  ASSUME NEW s, WellFormed(s), NEW e \in Equals(s), NEW k, KeyFrom(s, k, e)
  PROVE  KeyOf(s, e) = SubSeq(s, k, e - 1)
<1> DEFINE S == {c \in Commas(s) : c < e} \cup {0}
<1>1. Len(s) \in Nat /\ DOMAIN s = 1 .. Len(s) /\ e \in 1 .. Len(s) /\ k \in 1 .. e
  BY SequenceLength DEF WellFormed, Equals, KeyFrom
<1>2. S \subseteq Int
  BY <1>1 DEF Commas
<1>3. k - 1 \in S
  BY <1>1 DEF Commas, KeyFrom
<1>4. \A y \in S : k - 1 >= y
  BY <1>1, Characters DEF Commas, KeyFrom
<1>5. Max(S) = k - 1
  BY <1>2, <1>3, <1>4, MaxIs
<1>6. (k - 1) + 1 = k
  BY <1>1
<1> QED
  BY <1>5, <1>6 DEF KeyOf

\* The value behind the "=" at e ends before a "," or the end of the string,
\* and has no separator.
LEMMA ValueOfIs ==
  ASSUME NEW s, WellFormed(s), NEW e \in Equals(s)
  PROVE  \E m \in e + 1 .. Len(s) + 1 :
           /\ m = Len(s) + 1 \/ s[m] = Comma
           /\ \A j \in e + 1 .. m - 1 : ~Sep(s[j])
           /\ ValueOf(s, e) = SubSeq(s, e + 1, m - 1)
<1> DEFINE S == {c \in Commas(s) : c > e} \cup {Len(s) + 1}
           m == Min(S)
<1>1. Len(s) \in Nat /\ DOMAIN s = 1 .. Len(s) /\ e \in 1 .. Len(s) /\ s[e] = Eq
  BY SequenceLength DEF WellFormed, Equals
<1>2. S \subseteq Nat /\ S # {} /\ Len(s) + 1 \in S
  BY <1>1 DEF Commas
<1>3. m \in S /\ \A y \in S : m <= y
  BY <1>2, MinExists
<1> HIDE DEF m
<1>4. m \in e + 1 .. Len(s) + 1 /\ (m = Len(s) + 1 \/ s[m] = Comma)
  BY <1>1, <1>3 DEF Commas
<1>5. ASSUME NEW j \in e + 1 .. m - 1
      PROVE  ~Sep(s[j])
  <2>1. j \in 1 .. Len(s) /\ e < j
    BY <1>1, <1>4
  <2>2. \A c \in e .. j : s[c] # Comma
    <3> SUFFICES ASSUME NEW c \in e .. j, s[c] = Comma
                 PROVE  FALSE
      OBVIOUS
    <3>1. c # e
      BY <1>1, Characters
    <3>2. c \in S /\ c < m
      BY <1>1, <1>4, <2>1, <3>1 DEF Commas
    <3> QED
      BY <1>1, <1>3, <1>4, <3>2
  <2>3. s[j] # Eq
    BY <1>1, <2>1, <2>2 DEF WellFormed
  <2>4. s[j] # Comma
    BY <1>1, <2>1, <2>2
  <2> QED
    BY <2>3, <2>4 DEF Sep
<1>6. ValueOf(s, e) = SubSeq(s, e + 1, m - 1)
  BY DEF ValueOf, m
<1> QED
  BY <1>4, <1>5, <1>6

\* The C string at k ends before the first NULL.
LEMMA CStringIs ==
  ASSUME NEW m \in 1 .. Len(event_string), Len(event_string) \in Nat, NEW k \in 1 .. m,
         event_string[m] = NULL, \A j \in k .. m - 1 : event_string[j] # NULL
  PROVE  CString(k) = SubSeq(event_string, k, m - 1)
<1> DEFINE S == {n \in k .. Len(event_string) : event_string[n] = NULL}
<1>1. S \subseteq Int /\ m \in S
  OBVIOUS
<1>2. \A y \in S : m <= y
  OBVIOUS
<1>3. Min(S) = m
  BY <1>1, <1>2, MinIs
<1> QED
  BY <1>3 DEF CString

\* Between two cuts the copy is the description.
LEMMA CutString ==
  ASSUME NEW s, WellFormed(s), Cut(s, event_string, Len(s) + 1),
         NEW m \in 1 .. Len(s) + 1, NEW k \in 1 .. m,
         m = Len(s) + 1 \/ Sep(s[m]), \A j \in k .. m - 1 : ~Sep(s[j])
  PROVE  CString(k) = SubSeq(s, k, m - 1)
<1>1. Len(s) \in Nat
  BY SequenceLength DEF WellFormed
<1>2. event_string[m] = NULL /\ Len(event_string) = Len(s) + 1
  BY <1>1 DEF Cut
<1>3. \A j \in k .. m - 1 : event_string[j] = s[j] /\ s[j] # NULL
  BY <1>1 DEF Cut, WellFormed
<1>4. CString(k) = SubSeq(event_string, k, m - 1)
  <2>1. m \in 1 .. Len(event_string) /\ Len(event_string) \in Nat
    BY <1>1, <1>2
  <2>2. \A j \in k .. m - 1 : event_string[j] # NULL
    BY <1>3, Zenon
  <2> QED
    BY <1>2, <2>1, <2>2, CStringIs
<1>5. SubSeq(event_string, k, m - 1) = SubSeq(s, k, m - 1)
  BY <1>1, <1>3
<1> QED
  BY <1>4, <1>5

-----------------------------------------------------------------------------
(***************************************************************************)
(* What the steps of the parser keep.                                      *)
(***************************************************************************)

\* A fresh copy has no cut.
LEMMA CutStart ==
  ASSUME NEW s, WellFormed(s)
  PROVE  Cut(s, Append(s, NULL), 1)
<1> DEFINE T == {s[k] : k \in DOMAIN s} \cup {NULL}
           es == Append(s, NULL)
<1>1. Len(s) \in Nat /\ s \in Seq({s[k] : k \in DOMAIN s})
  BY SequenceLength DEF WellFormed, IsSequence
<1>2. s \in Seq(T) /\ NULL \in T
  BY <1>1
<1> HIDE DEF T
<1>3. /\ es \in Seq(T) /\ Len(es) = Len(s) + 1
      /\ es[Len(s) + 1] = NULL /\ \A k \in 1 .. Len(s) : es[k] = s[k]
  BY <1>2
<1>4. \A k \in 1 .. Len(s) : ~(k < 1)
  BY <1>1
<1> HIDE DEF es
<1> QED
  BY <1>1, <1>3, <1>4 DEF Cut, T, es

\* A cut at a separator, behind which there is none.
LEMMA CutAt ==
  ASSUME NEW s, WellFormed(s), NEW es, NEW c \in 1 .. Len(s) - 1, Cut(s, es, c),
         Sep(s[c]), ~Sep(s[c + 1])
  PROVE  Cut(s, [es EXCEPT ![c] = NULL], c + 2)
<1> DEFINE T == {s[k] : k \in DOMAIN s} \cup {NULL}
           ns == [es EXCEPT ![c] = NULL]
<1>1. Len(s) \in Nat /\ NULL \in T /\ es \in Seq(T) /\ c \in 1 .. Len(es)
  BY SequenceLength DEF WellFormed, Cut
<1> HIDE DEF T
<1>2. /\ ns \in Seq(T) /\ Len(ns) = Len(es)
      /\ \A k \in 1 .. Len(es) : ns[k] = IF k = c THEN NULL ELSE es[k]
  BY <1>1, ExceptSeq
<1> HIDE DEF ns
<1>3. Len(ns) = Len(s) + 1 /\ ns[Len(s) + 1] = NULL /\ c + 2 \in 1 .. Len(s) + 1
  BY <1>1, <1>2 DEF Cut
<1>4. ASSUME NEW k \in 1 .. Len(s)
      PROVE  ns[k] = IF k < c + 2 /\ Sep(s[k]) THEN NULL ELSE s[k]
  <2>1. ns[k] = IF k = c THEN NULL ELSE es[k]
    BY <1>1, <1>2 DEF Cut
  <2>2. es[k] = IF k < c /\ Sep(s[k]) THEN NULL ELSE s[k]
    BY DEF Cut
  <2>3. k < c \/ k = c \/ k = c + 1 \/ ~(k < c + 2)
    BY <1>1
  <2>4. c < c + 2 /\ c + 1 < c + 2 /\ (k < c => k < c + 2) /\ c + 1 # c /\ ~(c + 1 < c)
        /\ (~(k < c + 2) => ~(k < c))
    BY <1>1
  <2> QED
    BY <2>1, <2>2, <2>3, <2>4
<1> QED
  BY <1>2, <1>3, <1>4 DEF Cut, T, ns

\* A step over what is not a separator.
LEMMA CutSkip ==
  ASSUME NEW s, WellFormed(s), NEW es, NEW c \in 1 .. Len(s), Cut(s, es, c), ~Sep(s[c])
  PROVE  Cut(s, es, c + 1)
<1>1. Len(s) \in Nat
  BY SequenceLength DEF WellFormed
<1>2. ASSUME NEW k \in 1 .. Len(s)
      PROVE  es[k] = IF k < c + 1 /\ Sep(s[k]) THEN NULL ELSE s[k]
  <2>1. es[k] = IF k < c /\ Sep(s[k]) THEN NULL ELSE s[k]
    BY DEF Cut
  <2>2. (k < c + 1) <=> (k < c \/ k = c)
    BY <1>1
  <2> QED
    BY <2>1, <2>2
<1>3. c + 1 \in 1 .. Len(s) + 1
  BY <1>1
<1> QED
  BY <1>2, <1>3 DEF Cut

\* Before the first step there are no pairs.
LEMMA PairsStart ==
  ASSUME NEW s, WellFormed(s), NEW ks, NEW vs
  PROVE  Pairs(s, ks, vs, 0, 1)
<1>1. \A e \in Equals(s) : ~(e < 1)
  BY SequenceLength DEF WellFormed, Equals
<1>2. {e \in Equals(s) : e < 1} = {}
  BY <1>1
<1>3. Cardinality({e \in Equals(s) : e < 1}) = 0
  BY <1>2, FS_EmptySet
<1>4. \A p : p \notin 0 .. 0 - 1
  OBVIOUS
<1> QED
  BY <1>1, <1>3, <1>4 DEF Pairs

\* A step over what is not "=" changes no pair.
LEMMA PairsSkip ==
  ASSUME NEW s, WellFormed(s), NEW ks, NEW vs, NEW n \in Nat, NEW c \in Nat, NEW d \in Nat,
         c <= d, \A k \in c .. d - 1 : s[k] # Eq, Pairs(s, ks, vs, n, c)
  PROVE  Pairs(s, ks, vs, n, d)
<1>1. Len(s) \in Nat /\ Equals(s) = {k \in 1 .. Len(s) : s[k] = Eq}
  BY EqualsFinite, SequenceLength DEF WellFormed
<1>2. \A e \in Equals(s) : e < d <=> e < c
  BY <1>1
<1>3. {e \in Equals(s) : e < d} = {e \in Equals(s) : e < c}
  BY <1>2, Zenon
<1> QED
  BY <1>2, <1>3 DEF Pairs

\* Where the next key starts is not yet a part of a pair.
LEMMA PairsNextKey ==
  ASSUME NEW s, NEW ks, NEW vs, NEW n \in Nat, NEW c, NEW x, NEW D,
         ks \in [D -> Nat], n \in D, 0 .. n - 1 \subseteq D, Pairs(s, ks, vs, n, c)
  PROVE  Pairs(s, [ks EXCEPT ![n] = x], vs, n, c)
<1>1. \A p \in 0 .. n - 1 : [ks EXCEPT ![n] = x][p] = ks[p]
  OBVIOUS
<1> QED
  BY <1>1, Zenon DEF Pairs

\* At the "=" of a key the pair of this "=" is added.
LEMMA PairsAdd ==
  ASSUME NEW s, WellFormed(s), NEW ks, NEW vs, NEW n \in Nat, NEW c \in 1 .. Len(s),
         NEW D, vs \in [D -> Nat], n \in D, 0 .. n - 1 \subseteq D,
         s[c] = Eq, s[c + 1] # Eq, KeyFrom(s, ks[n], c), Pairs(s, ks, vs, n, c)
  PROVE  Pairs(s, ks, [vs EXCEPT ![n] = c + 1], n + 1, c + 2)
<1> DEFINE ws == [vs EXCEPT ![n] = c + 1]
           S == {e \in Equals(s) : e < c}
           T == {e \in Equals(s) : e < c + 2}
<1>1. Len(s) \in Nat /\ Equals(s) = {k \in 1 .. Len(s) : s[k] = Eq}
  BY EqualsFinite, SequenceLength DEF WellFormed
<1>2. \A e \in Equals(s) : e < c + 2 <=> e < c \/ e = c
  BY <1>1
<1>3. c \in Equals(s) /\ ~(c < c)
  BY <1>1
<1>4. T = S \cup {c} /\ c \notin S /\ S \in SUBSET Equals(s)
  BY <1>2, <1>3
<1>5. IsFiniteSet(S)
  BY <1>4, EqualsFinite DEF WellFormed
<1> HIDE DEF S, T
<1>6. Cardinality(T) = n + 1
  <2>1. Cardinality(S) = n
    BY DEF Pairs, S
  <2> QED
    BY <1>4, <1>5, <2>1, FS_AddElement
<1>7. (\A p \in 0 .. n - 1 : ws[p] = vs[p]) /\ ws[n] = c + 1 /\ (c + 1) - 1 = c
  BY <1>1
<1> HIDE DEF ws
<1>8. \A p \in 0 .. (n + 1) - 1 : p \in 0 .. n - 1 \/ p = n
  OBVIOUS
<1>9. n \in 0 .. (n + 1) - 1 /\ 0 .. n - 1 \subseteq 0 .. (n + 1) - 1
  OBVIOUS
<1>10. \A p \in 0 .. (n + 1) - 1 : ws[p] - 1 \in Equals(s) /\ KeyFrom(s, ks[p], ws[p] - 1)
  BY <1>3, <1>7, <1>8 DEF Pairs
<1>11. ASSUME NEW e \in Equals(s), e < c + 2
       PROVE  \E p \in 0 .. (n + 1) - 1 : ws[p] - 1 = e
  <2>1. CASE e = c
    BY <1>7, <1>9, <2>1
  <2>2. CASE e < c
    <3>1. PICK p \in 0 .. n - 1 : vs[p] - 1 = e
      BY <2>2 DEF Pairs
    <3> QED
      BY <1>7, <1>9, <3>1
  <2> QED
    BY <1>2, <1>11, <2>1, <2>2
<1> QED
  BY <1>6, <1>10, <1>11 DEF Pairs, T, ws

\* Once every pair is understood the description is parsed, and nothing of it
\* is missing in config.
LEMMA AllUnderstood ==
  ASSUME NEW s, WellFormed(s), NEW ks, NEW vs, NEW n \in Nat, n <= MaxPairs,
         Pairs(s, ks, vs, n, Len(s) + 1), Understood(s, vs, n)
  PROVE  Parsable(s) /\ ConfigOfPairs(s, vs, n) = ConfigOf(s)
<1>1. Len(s) \in Nat /\ Equals(s) = {k \in 1 .. Len(s) : s[k] = Eq}
  BY EqualsFinite, SequenceLength DEF WellFormed
<1>2. \A e \in Equals(s) : e < Len(s) + 1
  BY <1>1
<1>3. {e \in Equals(s) : e < Len(s) + 1} = Equals(s)
  BY <1>2, Zenon
<1>4. Cardinality(Equals(s)) <= MaxPairs
  BY <1>3 DEF Pairs
<1>5. /\ \A e \in Equals(s) : \E p \in 0 .. n - 1 : vs[p] - 1 = e
      /\ \A p \in 0 .. n - 1 : vs[p] - 1 \in Equals(s)
  BY <1>2 DEF Pairs
<1>6. \A e \in Equals(s) : Known(KeyOf(s, e)) /\ ValueOf(s, e) \in DOMAIN Number
  BY <1>5, Zenon DEF Understood
<1> DEFINE F(e) == FieldBits(KeyOf(s, e), Number[ValueOf(s, e)])
<1>7. UNION {F(vs[p] - 1) : p \in 0 .. n - 1} = UNION {F(e) : e \in Equals(s)}
  <2> HIDE DEF F
  <2>1. {F(vs[p] - 1) : p \in 0 .. n - 1} = {F(e) : e \in Equals(s)}
    BY <1>5, Zenon
  <2> QED
    BY <2>1, Zenon
<1> QED
  BY <1>4, <1>6, <1>7, Zenon DEF Parsable, ConfigOfPairs, ConfigOf

\* With MaxPairs pairs before a "," there are too many of them.
LEMMA OnePairMore ==
  ASSUME NEW s, WellFormed(s), NEW ks, NEW vs, NEW n \in Nat, n >= MaxPairs,
         MaxPairs \in Nat, NEW c \in 1 .. Len(s), s[c] = Comma, Pairs(s, ks, vs, n, c)
  PROVE  ~Parsable(s)
<1> DEFINE S == {e \in Equals(s) : e < c}
<1>1. Len(s) \in Nat /\ Equals(s) = {k \in 1 .. Len(s) : s[k] = Eq}
  BY EqualsFinite, SequenceLength DEF WellFormed
<1>2. PICK f \in c + 2 .. Len(s) - 1 : s[f] = Eq
  BY <1>1 DEF WellFormed, PairFollows
<1>3. f \notin S /\ S \cup {f} \in SUBSET Equals(s) /\ S \in SUBSET Equals(s)
  BY <1>1, <1>2
<1>4. IsFiniteSet(S) /\ Cardinality(S \cup {f}) <= Cardinality(Equals(s))
      /\ Cardinality(Equals(s)) \in Nat
  BY <1>3, EqualsFinite, FS_CardinalityType DEF WellFormed
<1> HIDE DEF S
<1>5. Cardinality(S) = n
  BY DEF Pairs, S
<1>6. Cardinality(S \cup {f}) = n + 1
  BY <1>3, <1>4, <1>5, FS_AddElement
<1>7. ~(Cardinality(Equals(s)) <= MaxPairs)
  BY <1>4, <1>6
<1> QED
  BY <1>7 DEF Parsable

-----------------------------------------------------------------------------
(***************************************************************************)
(* The invariant.                                                          *)
(***************************************************************************)

\* The constants the parser uses.
LEMMA ParserConstants ==
  MaxPairs \in Nat \ {0} /\ NULL \notin Names /\ ~Sep(NULL)
BY PerfEventsAssumption

\* The map ends with the entry that has no table.
LEMMA MapShape ==
  /\ Len(EventsMap) \in Nat \ {0}
  /\ DOMAIN EventsMap = 1 .. Len(EventsMap)
  /\ EventsMap[Len(EventsMap)].table = NoTable
BY SequenceLength, PerfEventsAssumption

\* The table in use ends with its only end marker.
LEMMA TableShape ==
  ASSUME TypeOK, SearchInv, events_map # 0
  PROVE  /\ Len(Table) \in Nat \ {0}
         /\ DOMAIN Table = 1 .. Len(Table)
         /\ EndMarker(Table[Len(Table)])
         /\ \A k \in 1 .. Len(Table) - 1 : ~EndMarker(Table[k])
         /\ \A k \in 1 .. Len(Table) : Table[k].name # NULL => WellFormed(Table[k].event)
<1>1. events_map \in 1 .. Len(EventsMap)
  BY MapShape DEF TypeOK
<1>2. WellFormedTable(Table)
  BY <1>1, PerfEventsAssumption DEF SearchInv, Table
<1> QED
  BY <1>2, SequenceLength DEF WellFormedTable

\* The description that is parsed is well-formed.
LEMMA DescShape ==
  ASSUME TypeOK, SearchInv, pc \in {"copy", "split", "convert"}
  PROVE  WellFormed(Desc) /\ Len(Desc) \in Nat
<1>1. Table[i].name # NULL /\ events_map # 0 /\ i \in 1 .. Len(Table)
  BY PerfEventsAssumption DEF SearchInv
<1>2. WellFormed(Desc)
  BY <1>1, TableShape DEF Desc
<1> QED
  BY <1>2, SequenceLength DEF WellFormed

\* The bits of a field are bits of config.
LEMMA FieldBitsRange ==
  ASSUME NEW key, NEW value
  PROVE  FieldBits(key, value) \in SUBSET Bits
<1>1. \A f \in Fields : f.low \in Nat /\ f.width \in Nat /\ f.low + f.width <= 32
  BY DEF Fields
<1>2. SUFFICES ASSUME NEW f \in Fields, NEW b \in value \cap (0 .. f.width - 1)
               PROVE  f.low + b \in Bits
  BY DEF FieldBits
<1> QED
  BY <1>1 DEF Bits

\* The search ends at the first entry of the name.
LEMMA FirstNamed ==
  ASSUME TypeOK, SearchInv, pc \in {"copy", "split", "convert"}
  PROVE  /\ Named(want) # {} /\ Min(Named(want)) = i
         /\ events_map # 0 /\ want \notin DOMAIN Portable /\ type = 4
<1>1. /\ DOMAIN Table = 1 .. Len(Table) /\ Len(Table) \in Nat
      /\ i \in 1 .. Len(Table) /\ Table[i].name = want
      /\ \A k \in 1 .. i - 1 : Table[k].name # want
  BY TableShape DEF SearchInv
<1>2. i \in Named(want) /\ Named(want) \subseteq Int
  BY <1>1 DEF Named
<1>3. \A y \in Named(want) : i <= y
  BY <1>1 DEF Named
<1> QED
  BY <1>2, <1>3, MinIs DEF SearchInv

\* The strings of pair p are key and value of its "=".
LEMMA PairStrings ==
  ASSUME TypeOK, SearchInv, ConvertInv, pc = "convert", NEW p \in 0 .. pair_count - 1
  PROVE  /\ values[p] - 1 \in Equals(Desc)
         /\ CString(keys[p]) = KeyOf(Desc, values[p] - 1)
         /\ CString(values[p]) = ValueOf(Desc, values[p] - 1)
<1> DEFINE e == values[p] - 1
<1>1. WellFormed(Desc) /\ Len(Desc) \in Nat
  BY DescShape
<1>2. /\ Cut(Desc, event_string, Len(Desc) + 1)
      /\ e \in Equals(Desc) /\ KeyFrom(Desc, keys[p], e)
  BY DEF ConvertInv, Pairs
<1>3. p \in 0 .. MaxPairs - 1 /\ values[p] \in Nat /\ e + 1 = values[p]
  BY ParserConstants DEF TypeOK
<1> HIDE DEF e
<1>4. e \in 1 .. Len(Desc) /\ Sep(Desc[e])
  BY <1>1, <1>2, EqualsFinite, Characters DEF WellFormed
<1>5. /\ keys[p] \in 1 .. e /\ \A j \in keys[p] .. e - 1 : ~Sep(Desc[j])
      /\ KeyOf(Desc, e) = SubSeq(Desc, keys[p], e - 1)
  BY <1>1, <1>2, KeyOfIs DEF KeyFrom
<1>6. CString(keys[p]) = SubSeq(Desc, keys[p], e - 1)
  BY <1>1, <1>2, <1>4, <1>5, CutString
<1>7. PICK m \in e + 1 .. Len(Desc) + 1 :
        /\ m = Len(Desc) + 1 \/ Desc[m] = Comma
        /\ \A j \in e + 1 .. m - 1 : ~Sep(Desc[j])
        /\ ValueOf(Desc, e) = SubSeq(Desc, e + 1, m - 1)
  BY <1>1, <1>2, ValueOfIs
<1>8. m \in 1 .. Len(Desc) + 1 /\ e + 1 \in 1 .. m /\ (m = Len(Desc) + 1 \/ Sep(Desc[m]))
  BY <1>1, <1>4, <1>7, Characters
<1>9. CString(e + 1) = SubSeq(Desc, e + 1, m - 1)
  BY <1>1, <1>2, <1>7, <1>8, CutString
<1> QED
  BY <1>2, <1>3, <1>5, <1>6, <1>7, <1>9 DEF e

\* A step that leaves map, name and result alone keeps what a rejection means.
LEMMA RejectionKept ==
  ASSUME RejectedForCause, want' = want, events_map' = events_map,
         ret' = "EINVAL" => ret = "EINVAL"
  PROVE  RejectedForCause'
BY DEF RejectedForCause, Named, Table

\* A loop starts with the invariant.
THEOREM InitIInv == Init => IInv
BY MapShape, ParserConstants
   DEF Init, IInv, TypeOK, SearchInv, SplitInv, ConvertInv, AttributesExact,
       RejectedForCause, Uninitialised, Bits

\* Every step of a call, and every new call, keeps the invariant.
THEOREM NextIInv == IInv /\ [Next]_vars => IInv'
<1> SUFFICES ASSUME IInv, [Next]_vars
             PROVE  IInv'
  OBVIOUS
<1> USE DEF IInv
<1>1. CASE SetupEventsMap
  <2>1. TypeOK' /\ SearchInv'
    BY <1>1, MapShape DEF SetupEventsMap, Return, parser, TypeOK, SearchInv, Table
  <2>2. SplitInv' /\ ConvertInv' /\ AttributesExact' /\ RejectedForCause'
    BY <1>1 DEF SetupEventsMap, Return, SplitInv, ConvertInv, AttributesExact,
                RejectedForCause
  <2> QED
    BY <2>1, <2>2
<1>2. CASE SetupScan
  <2>1. i \in 1 .. Len(EventsMap) /\ i' = i + 1 /\ i' \in Nat /\ want = NULL /\ want' = want
    BY <1>2, MapShape DEF SetupScan, SearchInv
  <2>2. TypeOK' /\ SearchInv'
    <3>1. CASE EventsMap[i].table = NoTable
      BY <1>2, <2>1, <3>1, MapShape DEF SetupScan, Return, TypeOK, SearchInv
    <3>2. CASE EventsMap[i].table # NoTable
      <4>1. i' \in 1 .. Len(EventsMap)
        BY <2>1, <3>2, MapShape
      <4> QED
        BY <1>2, <2>1, <3>2, <4>1, MapShape
           DEF SetupScan, Return, parser, TypeOK, SearchInv
    <3> QED
      BY <3>1, <3>2
  <2>3. SplitInv' /\ ConvertInv' /\ AttributesExact'
    BY <1>2 DEF SetupScan, Return, SplitInv, ConvertInv, AttributesExact
  <2>4. RejectedForCause'
    BY <2>1 DEF RejectedForCause
  <2> QED
    BY <2>2, <2>3, <2>4
<1>3. CASE TeardownEventsMap
  <2>1. TypeOK' /\ SearchInv'
    BY <1>3, MapShape DEF TeardownEventsMap, parser, TypeOK, SearchInv
  <2>2. SplitInv' /\ ConvertInv' /\ AttributesExact' /\ RejectedForCause'
    BY <1>3 DEF TeardownEventsMap, SplitInv, ConvertInv, AttributesExact, RejectedForCause
  <2> QED
    BY <2>1, <2>2
<1>4. ASSUME NEW n \in Names, Allocate(n)
      PROVE  IInv'
  <2>1. type' \in Nat /\ config' \in SUBSET Bits
    BY <1>4, PerfEventsAssumption DEF Allocate
  <2>2. TypeOK'
    BY <1>4, <2>1 DEF Allocate, Return, parser, TypeOK
  <2>3. SearchInv'
    <3>1. pc' = "find" => events_map # 0 /\ 1 \in 1 .. Len(Table)
      BY <1>4, TableShape DEF Allocate, Return
    <3> QED
      BY <1>4, <3>1 DEF Allocate, Return, SearchInv, Table
  <2>4. SplitInv' /\ ConvertInv'
    BY <1>4 DEF Allocate, Return, SplitInv, ConvertInv
  <2>5. AttributesExact'
    BY <1>4 DEF Allocate, Return, AttributesExact
  <2>6. RejectedForCause'
    BY <1>4 DEF Allocate, Return, RejectedForCause
  <2> QED
    BY <2>2, <2>3, <2>4, <2>5, <2>6
<1>5. CASE FindPlatformEvent
  <2>1. /\ events_map # 0 /\ i \in 1 .. Len(Table) /\ want \in Names
        /\ DOMAIN Table = 1 .. Len(Table)
        /\ Len(Table) \in Nat /\ EndMarker(Table[Len(Table)])
        /\ \A k \in 1 .. Len(Table) - 1 : ~EndMarker(Table[k])
        /\ want \notin DOMAIN Portable
        /\ \A k \in 1 .. i - 1 : Table[k].name # want
        /\ want # NULL
    BY <1>5, TableShape, ParserConstants DEF FindPlatformEvent, SearchInv
  <2>2. TypeOK'
    BY <1>5, <2>1 DEF FindPlatformEvent, Return, parser, TypeOK
  <2>3. SearchInv' /\ RejectedForCause'
    <3>1. CASE AtEnd(Table[i])
      <4>1. SearchInv'
        BY <1>5, <2>1, <3>1 DEF FindPlatformEvent, Return, SearchInv, Table
      <4>2. i = Len(Table)
        <5>1. \A n \in Nat : \A k \in 1 .. n : k \in 1 .. n - 1 \/ k = n
          OBVIOUS
        <5> QED
          BY <2>1, <3>1, <5>1, Zenon DEF AtEnd
      <4>3. Named(want) = {}
        BY <2>1, <3>1, <4>2 DEF Named, AtEnd, EndMarker
      <4>4. want' = want /\ events_map' = events_map
        BY <1>5 DEF FindPlatformEvent
      <4> QED
        BY <2>1, <4>1, <4>3, <4>4 DEF RejectedForCause, Named, Table
    <3>2. CASE ~AtEnd(Table[i])
      <4>1. i # Len(Table)
        BY <2>1, <3>2 DEF AtEnd
      <4>2. SearchInv'
        BY <1>5, <2>1, <3>2, <4>1 DEF FindPlatformEvent, SearchInv, Table
      <4> QED
        BY <1>5, <3>2, <4>2, RejectionKept DEF FindPlatformEvent
    <3> QED
      BY <3>1, <3>2
  <2>4. SplitInv' /\ ConvertInv' /\ AttributesExact'
    BY <1>5 DEF FindPlatformEvent, Return, SplitInv, ConvertInv, AttributesExact
  <2> QED
    BY <2>2, <2>3, <2>4
<1>6. CASE CopyEvent
  <2>1. pc = "copy" /\ WellFormed(Desc) /\ Len(Desc) \in Nat
    BY <1>6, DescShape DEF CopyEvent
  <2>2. TypeOK'
    <3>1. /\ keys' \in [0 .. MaxPairs - 1 -> Nat]
          /\ values' \in [0 .. MaxPairs - 1 -> Nat]
      BY <1>6 DEF CopyEvent, Return, TypeOK, Uninitialised
    <3>2. config' \in SUBSET Bits
      BY <1>6 DEF CopyEvent
    <3>3. /\ pair_index' \in 0 .. MaxPairs /\ pair_count' \in 0 .. MaxPairs
          /\ current_index' \in Nat
      BY <1>6, ParserConstants DEF CopyEvent, Return, TypeOK
    <3> QED
      BY <1>6, <3>1, <3>2, <3>3 DEF CopyEvent, Return, search, TypeOK
  <2>3. SearchInv' /\ Desc' = Desc /\ ConvertInv' /\ AttributesExact'
    BY <1>6 DEF CopyEvent, Return, search, SearchInv, ConvertInv, AttributesExact, Desc, Table
  <2>4. RejectedForCause'
    BY <1>6, RejectionKept DEF CopyEvent, Return, search
  <2>5. ASSUME pc' = "split"
        PROVE  SplitInv'
    <3>1. /\ event_string' = Append(Desc, NULL)
          /\ current_index' = 1 /\ pair_index' = 0 /\ reading' = "key" /\ config' = {}
          /\ keys'[0] = 1
      BY <1>6, <2>5, ParserConstants DEF CopyEvent, Return, Uninitialised, Desc
    <3>2. Cut(Desc, event_string', 1) /\ Pairs(Desc, keys', values', 0, 1)
      BY <2>1, <3>1, CutStart, PairsStart
    <3>3. KeyFrom(Desc, 1, 1)
      BY DEF KeyFrom
    <3>4. KeyAhead(Desc, 1)
      BY <2>1 DEF KeyAhead, WellFormed, PairFollows, Sep
    <3> QED
      BY <2>3, <3>1, <3>2, <3>3, <3>4, ParserConstants DEF SplitInv
  <2> QED
    BY <2>2, <2>3, <2>4, <2>5 DEF SplitInv
<1>7. CASE KeyEnd
  <2> DEFINE c == current_index
  <2>1. pc = "split" /\ WellFormed(Desc) /\ Len(Desc) \in Nat
    BY <1>7, DescShape DEF KeyEnd
  <2>2. /\ Cut(Desc, event_string, c) /\ pair_index < MaxPairs /\ config = {}
        /\ event_string[c] = Eq /\ reading = "key" /\ event_string[c] # NULL
        /\ Pairs(Desc, keys, values, pair_index, c)
        /\ KeyFrom(Desc, keys[pair_index], c)
        /\ KeyAhead(Desc, c)
    BY <1>7, <2>1 DEF KeyEnd, SplitInv, AtKeyEnd, Current
  <2>3. c \in 1 .. Len(Desc) /\ Desc[c] = Eq
    BY <2>1, <2>2 DEF Cut
  <2>4. c \in 1 .. Len(Desc) - 1 /\ ~Sep(Desc[c + 1])
    <3>1. PICK e \in c .. Len(Desc) - 1 :
            ~Sep(Desc[e + 1]) /\ \A j \in c .. e - 1 : ~Sep(Desc[j])
      BY <2>2 DEF KeyAhead
    <3>2. e = c
      BY <2>1, <2>3, <3>1, Characters
    <3> QED
      BY <2>1, <2>3, <3>1, <3>2
  <2>5. SearchInv' /\ Desc' = Desc /\ ConvertInv' /\ AttributesExact'
    BY <1>7 DEF KeyEnd, search, SearchInv, ConvertInv, AttributesExact, Desc, Table
  <2>6. RejectedForCause'
    BY <1>7, RejectionKept DEF KeyEnd, search
  <2>7. /\ event_string' = [event_string EXCEPT ![c] = NULL]
        /\ values' = [values EXCEPT ![pair_index] = c + 1]
        /\ reading' = "value" /\ current_index' = c + 2
        /\ keys' = keys /\ pair_index' = pair_index /\ config' = config
    BY <1>7 DEF KeyEnd
  <2>8. /\ values \in [0 .. MaxPairs - 1 -> Nat] /\ pair_index \in 0 .. MaxPairs - 1
        /\ 0 .. pair_index - 1 \subseteq 0 .. MaxPairs - 1 /\ pair_index \in Nat
        /\ c + 1 \in Nat /\ c + 2 \in Nat
    BY <2>2, ParserConstants DEF TypeOK
  <2>9. TypeOK'
    <3>1. values' \in [0 .. MaxPairs - 1 -> Nat]
      BY <2>7, <2>8
    <3> QED
      BY <1>7, <2>7, <2>8, <3>1 DEF KeyEnd, search, TypeOK
  <2>10. SplitInv'
    <3>1. Cut(Desc, event_string', c + 2)
      BY <2>1, <2>2, <2>3, <2>4, <2>7, CutAt, Characters
    <3>2. Pairs(Desc, keys, values', pair_index + 1, c + 2)
      <4>1. Desc[c + 1] # Eq
        BY <2>4, Characters
      <4> QED
        BY <2>1, <2>2, <2>3, <2>7, <2>8, <4>1, PairsAdd
    <3>3. values'[pair_index] = c + 1 /\ c + 1 \in 1 .. c + 2 /\ (c + 2) - 1 = c + 1
      BY <2>3, <2>7, <2>8
    <3>4. \A j \in c + 1 .. (c + 2) - 1 : j = c + 1
      BY <2>3
    <3>5. Desc[c + 1] # Comma
      BY <2>4, Characters
    <3> QED
      BY <2>2, <2>5, <2>7, <3>1, <3>2, <3>3, <3>4, <3>5 DEF SplitInv
  <2> QED
    BY <2>5, <2>6, <2>9, <2>10
<1>8. CASE ValueEnd
  <2> DEFINE c == current_index
  <2>1. pc = "split" /\ WellFormed(Desc) /\ Len(Desc) \in Nat
    BY <1>8, DescShape DEF ValueEnd
  <2>2. /\ Cut(Desc, event_string, c) /\ pair_index < MaxPairs /\ config = {}
        /\ event_string[c] = Comma /\ reading = "value" /\ event_string[c] # NULL
        /\ Pairs(Desc, keys, values, pair_index + 1, c)
    BY <1>8, <2>1 DEF ValueEnd, SplitInv, AtValueEnd, Current
  <2>3. c \in 1 .. Len(Desc) /\ Desc[c] = Comma
    BY <2>1, <2>2 DEF Cut
  <2>4. /\ pair_index + 1 \in 0 .. MaxPairs /\ pair_index + 1 \in Nat /\ pair_index \in Nat
        /\ keys \in [0 .. MaxPairs - 1 -> Nat] /\ MaxPairs \in Nat
        /\ c + 1 \in Nat /\ c + 2 \in Nat
    BY <2>2, ParserConstants DEF TypeOK
  <2>5. SearchInv' /\ Desc' = Desc /\ ConvertInv' /\ AttributesExact'
    BY <1>8, <2>1 DEF ValueEnd, search, SearchInv, ConvertInv, AttributesExact, Desc, Table
  <2>6. TypeOK'
    <3>1. keys' \in [0 .. MaxPairs - 1 -> Nat]
      BY <1>8, <2>4 DEF ValueEnd
    <3>2. current_index' \in Nat
      BY <1>8, <2>3, <2>4 DEF ValueEnd
    <3> QED
      BY <1>8, <2>4, <3>1, <3>2 DEF ValueEnd, search, TypeOK
  <2>7. RejectedForCause'
    <3>1. CASE TooManyPairs(pair_index + 1)
      <4>1. ~Parsable(Desc)
        BY <2>1, <2>2, <2>3, <2>4, <3>1, OnePairMore DEF TooManyPairs
      <4>2. /\ Named(want) # {} /\ Min(Named(want)) = i
            /\ events_map # 0 /\ want \notin DOMAIN Portable
        BY <2>1, FirstNamed
      <4>3. want' = want /\ events_map' = events_map
        BY <1>8 DEF ValueEnd, search
      <4> QED
        BY <4>1, <4>2, <4>3 DEF RejectedForCause, Named, Table, Desc
    <3>2. CASE ~TooManyPairs(pair_index + 1)
      BY <1>8, <3>2, RejectionKept DEF ValueEnd, search
    <3> QED
      BY <3>1, <3>2
  <2>8. ASSUME pc' = "split"
        PROVE  SplitInv'
    <3>1. ~TooManyPairs(pair_index + 1) /\ pair_index + 1 < MaxPairs
      BY <1>8, <2>4, <2>8 DEF ValueEnd, TooManyPairs
    <3>2. /\ event_string' = [event_string EXCEPT ![c] = NULL]
          /\ keys' = [keys EXCEPT ![pair_index + 1] = c + 1]
          /\ values' = values /\ reading' = "key" /\ current_index' = c + 2
          /\ pair_index' = pair_index + 1 /\ config' = config
      BY <1>8, <3>1 DEF ValueEnd
    <3>3. PICK e \in c + 2 .. Len(Desc) - 1 :
            Desc[e] = Eq /\ ~Sep(Desc[e + 1]) /\ \A j \in c + 1 .. e - 1 : ~Sep(Desc[j])
      BY <2>1, <2>3 DEF WellFormed, PairFollows
    <3>4. c \in 1 .. Len(Desc) - 1 /\ ~Sep(Desc[c + 1])
      BY <2>1, <2>3, <3>3
    <3>5. Cut(Desc, event_string', c + 2)
      BY <2>1, <2>2, <2>3, <3>2, <3>4, CutAt, Characters
    <3>6. Pairs(Desc, keys', values, pair_index + 1, c + 2)
      <4>1. \A k \in c .. (c + 2) - 1 : Desc[k] # Eq
        <5>1. \A k \in c .. (c + 2) - 1 : k = c \/ k = c + 1
          BY <2>3
        <5> QED
          BY <2>3, <3>4, <5>1, Characters, Zenon
      <4>2. c \in Nat /\ c <= c + 2
        BY <2>3
      <4>3. Pairs(Desc, keys, values, pair_index + 1, c + 2)
        BY <2>1, <2>2, <2>4, <4>1, <4>2, PairsSkip
      <4>4. pair_index + 1 \in 0 .. MaxPairs - 1
            /\ 0 .. (pair_index + 1) - 1 \subseteq 0 .. MaxPairs - 1
        BY <2>4, <3>1
      <4> QED
        BY <2>4, <3>2, <4>3, <4>4, PairsNextKey
    <3>7. keys'[pair_index + 1] = c + 1
      BY <2>4, <3>1, <3>2
    <3>8. KeyFrom(Desc, c + 1, c + 2)
      <4>1. c + 1 \in 1 .. c + 2 /\ (c + 1) - 1 = c /\ \A j \in c + 1 .. (c + 2) - 1 : j = c + 1
        BY <2>3
      <4> QED
        BY <2>3, <3>4, <4>1 DEF KeyFrom
    <3>9. KeyAhead(Desc, c + 2)
      BY <2>1, <2>3, <3>3 DEF KeyAhead
    <3> QED
      BY <2>2, <2>5, <3>1, <3>2, <3>5, <3>6, <3>7, <3>8, <3>9 DEF SplitInv
  <2> QED
    BY <2>5, <2>6, <2>7, <2>8 DEF SplitInv
<1>9. CASE InsideToken
  <2> DEFINE c == current_index
  <2>1. pc = "split" /\ WellFormed(Desc) /\ Len(Desc) \in Nat
    BY <1>9, DescShape DEF InsideToken
  <2>2. /\ Cut(Desc, event_string, c) /\ pair_index < MaxPairs /\ config = {}
        /\ event_string[c] # NULL
    BY <1>9, <2>1 DEF InsideToken, SplitInv, Current
  <2>3. c \in 1 .. Len(Desc) /\ event_string[c] = Desc[c] /\ c + 1 \in Nat /\ c \in Nat
    BY <2>1, <2>2 DEF Cut
  <2>4. ~(reading = "key" /\ Desc[c] = Eq) /\ ~(reading = "value" /\ Desc[c] = Comma)
    BY <1>9, <2>3 DEF InsideToken, AtKeyEnd, AtValueEnd, Current
  <2>5. SearchInv' /\ Desc' = Desc /\ ConvertInv' /\ AttributesExact'
    BY <1>9 DEF InsideToken, search, SearchInv, ConvertInv, AttributesExact, Desc, Table
  <2>6. RejectedForCause'
    BY <1>9, RejectionKept DEF InsideToken, search
  <2>7. TypeOK'
    BY <1>9, <2>3 DEF InsideToken, search, TypeOK
  <2>8. /\ current_index' = c + 1 /\ pc' = "split"
        /\ UNCHANGED <<event_string, keys, values, reading, pair_index, config>>
    BY <1>9 DEF InsideToken
  <2>9. pair_index \in Nat /\ pair_index + 1 \in Nat /\ c <= c + 1
    BY <2>3, ParserConstants DEF TypeOK
  <2>10. \A k \in c .. (c + 1) - 1 : k = c
    BY <2>3
  <2>11. CASE reading = "key"
    <3>1. /\ Pairs(Desc, keys, values, pair_index, c)
          /\ KeyFrom(Desc, keys[pair_index], c)
          /\ KeyAhead(Desc, c)
      BY <2>1, <2>11 DEF SplitInv
    <3>2. PICK e \in c .. Len(Desc) - 1 :
            Desc[e] = Eq /\ ~Sep(Desc[e + 1]) /\ \A j \in c .. e - 1 : ~Sep(Desc[j])
      BY <3>1 DEF KeyAhead
    <3>3. e # c
      BY <2>4, <2>11, <3>2
    <3>4. ~Sep(Desc[c])
      BY <2>1, <2>3, <3>2, <3>3
    <3>5. Cut(Desc, event_string, c + 1)
      BY <2>1, <2>2, <2>3, <3>4, CutSkip
    <3>6. Pairs(Desc, keys, values, pair_index, c + 1)
      <4>1. \A k \in c .. (c + 1) - 1 : Desc[k] # Eq
        BY <2>10, <3>4, Characters, Zenon
      <4> QED
        BY <2>1, <2>3, <2>9, <3>1, <4>1, PairsSkip
    <3>7. KeyFrom(Desc, keys[pair_index], c + 1)
      <4>1. \A j \in keys[pair_index] .. (c + 1) - 1 : j \in keys[pair_index] .. c - 1 \/ j = c
        BY <2>3, <3>1 DEF KeyFrom
      <4> QED
        BY <2>3, <3>1, <3>4, <4>1 DEF KeyFrom
    <3>8. KeyAhead(Desc, c + 1)
      BY <2>1, <2>3, <3>2, <3>3 DEF KeyAhead
    <3>9. SplitInv'
      BY <2>2, <2>5, <2>8, <2>11, <3>5, <3>6, <3>7, <3>8 DEF SplitInv
    <3> QED
      BY <2>5, <2>6, <2>7, <3>9
  <2>12. CASE reading = "value"
    <3>1. /\ Pairs(Desc, keys, values, pair_index + 1, c)
          /\ values[pair_index] \in 1 .. c
          /\ \A j \in values[pair_index] .. c - 1 : Desc[j] # Comma
      BY <2>1, <2>12 DEF SplitInv
    <3> DEFINE e == values[pair_index] - 1
    <3>2. e \in Equals(Desc)
      BY <2>9, <3>1 DEF Pairs
    <3>3. e \in 1 .. Len(Desc) /\ Desc[e] = Eq /\ e < c
      BY <2>1, <2>3, <3>1, <3>2, EqualsFinite DEF WellFormed
    <3>4. \A j \in e .. c : j = e \/ j \in values[pair_index] .. c - 1 \/ j = c
      BY <2>3, <3>1
    <3> HIDE DEF e
    <3>5. \A j \in e .. c : Desc[j] # Comma
      BY <2>4, <2>12, <3>1, <3>3, <3>4, Characters
    <3>6. Desc[c] # Eq
      BY <2>1, <2>3, <3>3, <3>5 DEF WellFormed
    <3>7. ~Sep(Desc[c])
      BY <2>4, <2>12, <3>6 DEF Sep
    <3>8. Cut(Desc, event_string, c + 1)
      BY <2>1, <2>2, <2>3, <3>7, CutSkip
    <3>9. Pairs(Desc, keys, values, pair_index + 1, c + 1)
      <4>1. \A k \in c .. (c + 1) - 1 : Desc[k] # Eq
        BY <2>10, <3>6, Zenon
      <4> QED
        BY <2>1, <2>3, <2>9, <3>1, <4>1, PairsSkip
    <3>10. /\ values[pair_index] \in 1 .. c + 1
           /\ \A j \in values[pair_index] .. (c + 1) - 1 : Desc[j] # Comma
      <4>1. \A j \in values[pair_index] .. (c + 1) - 1 :
              j \in values[pair_index] .. c - 1 \/ j = c
        BY <2>3, <3>1
      <4>2. values[pair_index] \in 1 .. c + 1
        BY <2>3, <3>1
      <4> QED
        BY <2>4, <2>12, <3>1, <4>1, <4>2
    <3>11. SplitInv'
      BY <2>2, <2>5, <2>8, <2>12, <3>8, <3>9, <3>10 DEF SplitInv
    <3> QED
      BY <2>5, <2>6, <2>7, <3>11
  <2> QED
    BY <2>11, <2>12 DEF TypeOK
<1>10. CASE StringEnd
  <2> DEFINE c == current_index
  <2>1. pc = "split" /\ WellFormed(Desc) /\ Len(Desc) \in Nat
    BY <1>10, DescShape DEF StringEnd
  <2>2. /\ Cut(Desc, event_string, c) /\ pair_index < MaxPairs /\ config = {}
        /\ event_string[c] = NULL
    BY <1>10, <2>1 DEF StringEnd, SplitInv, Current
  <2>3. c = Len(Desc) + 1
    <3>1. c \in 1 .. Len(Desc) + 1
      BY <2>2 DEF Cut
    <3>2. c \in 1 .. Len(Desc) => event_string[c] = Desc[c] /\ Desc[c] # NULL
      BY <2>1, <2>2 DEF Cut, WellFormed
    <3> QED
      BY <2>1, <2>2, <3>1, <3>2
  <2>4. reading = "value"
    <3> SUFFICES ASSUME reading = "key" PROVE FALSE
      BY DEF TypeOK
    <3>1. KeyAhead(Desc, c)
      BY <2>1 DEF SplitInv
    <3> QED
      BY <2>1, <2>3, <3>1 DEF KeyAhead
  <2>5. Pairs(Desc, keys, values, pair_index + 1, Len(Desc) + 1)
    BY <2>1, <2>3, <2>4 DEF SplitInv
  <2>6. pair_index \in 0 .. MaxPairs - 1 /\ pair_count' = pair_index + 1 /\ pair_index' = 0
        /\ pair_index \in Nat
    BY <1>10, <2>2, ParserConstants DEF StringEnd, TypeOK
  <2>7. TypeOK'
    BY <1>10, <2>6, ParserConstants DEF StringEnd, search, TypeOK
  <2>8. SearchInv' /\ SplitInv' /\ Desc' = Desc /\ AttributesExact'
    BY <1>10 DEF StringEnd, search, SearchInv, SplitInv, AttributesExact, Desc, Table
  <2>9. RejectedForCause'
    BY <1>10, RejectionKept DEF StringEnd, search
  <2>10. ConvertInv'
    <3>1. \A p : p \notin 0 .. 0 - 1
      OBVIOUS
    <3>2. Understood(Desc, values, 0) /\ ConfigOfPairs(Desc, values, 0) = {}
      BY <3>1, Zenon DEF Understood, ConfigOfPairs
    <3>3. 0 <= pair_index + 1
      BY <2>6
    <3>4. UNCHANGED <<event_string, keys, values, config>>
      BY <1>10 DEF StringEnd
    <3> QED
      BY <2>2, <2>3, <2>5, <2>6, <2>8, <3>2, <3>3, <3>4 DEF ConvertInv
  <2> QED
    BY <2>7, <2>8, <2>9, <2>10
<1>11. CASE ConvertPair
  <2> DEFINE e == values[pair_index] - 1
             Succeeds == ValueOf(Desc, e) \in DOMAIN Number /\ Known(KeyOf(Desc, e))
  <2>1. /\ pc = "convert" /\ WellFormed(Desc)
        /\ pair_index \in 0 .. pair_count - 1 /\ pair_index \in Nat
        /\ pair_index + 1 <= pair_count
    BY <1>11, DescShape, ParserConstants DEF ConvertPair, TypeOK
  <2>2. /\ e \in Equals(Desc)
        /\ CString(keys[pair_index]) = KeyOf(Desc, e)
        /\ CString(values[pair_index]) = ValueOf(Desc, e)
    BY <2>1, PairStrings
  <2>3. TypeOK'
    <3>1. config' \in SUBSET Bits
      BY <1>11, FieldBitsRange DEF ConvertPair, TypeOK
    <3>2. pair_index' \in 0 .. MaxPairs
      BY <1>11, ParserConstants DEF ConvertPair, TypeOK
    <3> QED
      BY <1>11, <3>1, <3>2 DEF ConvertPair, search, TypeOK
  <2>4. SearchInv' /\ SplitInv' /\ Desc' = Desc /\ AttributesExact'
    BY <1>11 DEF ConvertPair, search, SearchInv, SplitInv, AttributesExact, Desc, Table
  <2>5. CASE Succeeds
    <3>1. /\ config' = config \cup FieldBits(KeyOf(Desc, e), Number[ValueOf(Desc, e)])
          /\ pair_index' = pair_index + 1
          /\ UNCHANGED <<pc, ret, event_string, keys, values, pair_count, want, events_map>>
      BY <1>11, <2>2, <2>5 DEF ConvertPair, search
    <3>2. RejectedForCause'
      BY <3>1, RejectionKept
    <3>3. \A p \in 0 .. (pair_index + 1) - 1 : p \in 0 .. pair_index - 1 \/ p = pair_index
      BY <2>1
    <3>4. 0 .. (pair_index + 1) - 1 = (0 .. pair_index - 1) \cup {pair_index}
      BY <2>1
    <3>5. Understood(Desc, values, pair_index + 1)
      BY <2>1, <2>5, <3>3 DEF ConvertInv, Understood
    <3>6. config' = ConfigOfPairs(Desc, values, pair_index + 1)
      <4>1. config = ConfigOfPairs(Desc, values, pair_index)
        BY <2>1 DEF ConvertInv
      <4> QED
        BY <3>1, <3>4, <4>1, Zenon DEF ConfigOfPairs
    <3>7. ConvertInv'
      BY <2>1, <2>4, <3>1, <3>5, <3>6 DEF ConvertInv
    <3> QED
      BY <2>3, <2>4, <3>2, <3>7
  <2>6. CASE ~Succeeds
    <3>1. pc' = "idle" /\ want' = want /\ events_map' = events_map
      BY <1>11, <2>2, <2>6 DEF ConvertPair, search
    <3>2. ~Parsable(Desc)
      BY <2>2, <2>6, Zenon DEF Parsable
    <3>3. /\ Named(want) # {} /\ Min(Named(want)) = i
          /\ events_map # 0 /\ want \notin DOMAIN Portable
      BY <2>1, FirstNamed
    <3>4. RejectedForCause'
      BY <3>1, <3>2, <3>3 DEF RejectedForCause, Named, Table, Desc
    <3>5. ConvertInv'
      BY <3>1 DEF ConvertInv
    <3> QED
      BY <2>3, <2>4, <3>4, <3>5
  <2> QED
    BY <2>5, <2>6
<1>12. CASE ParseEnd
  <2>1. /\ pc = "convert" /\ WellFormed(Desc) /\ pair_count \in Nat /\ pair_count <= MaxPairs
        /\ pair_index = pair_count
    BY <1>12, DescShape, ParserConstants DEF ParseEnd, TypeOK, ConvertInv
  <2>2. Parsable(Desc) /\ config = ConfigOf(Desc)
    BY <2>1, AllUnderstood DEF ConvertInv
  <2>3. TypeOK' /\ SearchInv' /\ SplitInv' /\ ConvertInv'
    BY <1>12 DEF ParseEnd, search, TypeOK, SearchInv, SplitInv, ConvertInv, Table
  <2>4. AttributesExact'
    <3>1. /\ Named(want) # {} /\ Min(Named(want)) = i
          /\ events_map # 0 /\ want \notin DOMAIN Portable /\ type = 4
      BY <2>1, FirstNamed
    <3>2. UNCHANGED <<want, events_map, type, config>>
      BY <1>12 DEF ParseEnd, search
    <3> QED
      BY <2>2, <3>1, <3>2 DEF AttributesExact, Named, Table, Desc
  <2>5. RejectedForCause'
    BY <1>12, RejectionKept DEF ParseEnd, search
  <2> QED
    BY <2>3, <2>4, <2>5
<1>13. CASE CreateCounter
  <2>1. TypeOK' /\ SearchInv' /\ SplitInv' /\ ConvertInv' /\ AttributesExact'
    BY <1>13 DEF CreateCounter, Return, search, TypeOK, SearchInv, SplitInv, ConvertInv,
                 AttributesExact, Table
  <2>2. RejectedForCause'
    BY <1>13, RejectionKept DEF CreateCounter, Return, search
  <2> QED
    BY <2>1, <2>2
<1>14. CASE UNCHANGED vars
  <2>1. Desc' = Desc /\ TypeOK' /\ SearchInv'
    BY <1>14 DEF vars, search, parser, TypeOK, SearchInv, Desc, Table
  <2>2. SplitInv' /\ ConvertInv'
    BY <1>14, <2>1 DEF vars, search, parser, SplitInv, ConvertInv
  <2>3. AttributesExact' /\ RejectedForCause'
    BY <1>14 DEF vars, search, AttributesExact, RejectedForCause, Named, Table
  <2> QED
    BY <2>1, <2>2, <2>3
<1> QED
  BY <1>1, <1>2, <1>3, <1>4, <1>5, <1>6, <1>7, <1>8, <1>9, <1>10, <1>11, <1>12,
     <1>13, <1>14 DEF Next, Step

\* The invariant holds in every state of every behaviour.
THEOREM Invariance == Spec => []IInv
BY InitIInv, NextIInv, PTL DEF Spec

\* Type correctness: config stays within its 32 bits, pair_index within pairs.
THEOREM TypeCorrect == Spec => []TypeOK
BY Invariance, PTL DEF IInv

\* A counter gets the attributes that all pairs of the first entry of its name
\* add up to, no more and no less, for every table and description.
THEOREM AttributesCorrect == Spec => []AttributesExact
BY Invariance, PTL DEF IInv

\* EINVAL is only returned for what no map has or the parser must not accept.
THEOREM RejectionJustified == Spec => []RejectedForCause
BY Invariance, PTL DEF IInv

\* Searches and parser access only what exists and has been set, for every map,
\* table and well-formed description.
THEOREM ParserInBounds == Spec => []InBounds
<1>1. ASSUME IInv
      PROVE  InBounds
  <2>1. pc \in {"find", "copy"} => i \in DOMAIN Table
    BY <1>1, TableShape DEF IInv, SearchInv
  <2>2. pc = "split" => current_index \in DOMAIN event_string /\ pair_index < MaxPairs
    BY <1>1 DEF IInv, SplitInv, Cut
  <2>3. ASSUME pc = "convert", pair_index < pair_count
        PROVE  /\ pair_index < MaxPairs
               /\ keys[pair_index] \in DOMAIN event_string
               /\ values[pair_index] \in DOMAIN event_string
    <3>1. /\ WellFormed(Desc) /\ Len(Desc) \in Nat
          /\ pair_index \in 0 .. pair_count - 1 /\ pair_index \in 0 .. MaxPairs - 1
      BY <1>1, <2>3, DescShape, ParserConstants DEF IInv, TypeOK
    <3>2. /\ values[pair_index] - 1 \in Equals(Desc)
          /\ KeyFrom(Desc, keys[pair_index], values[pair_index] - 1)
      BY <1>1, <2>3, <3>1 DEF IInv, ConvertInv, Pairs
    <3>3. values[pair_index] - 1 \in 1 .. Len(Desc) /\ values[pair_index] \in Nat
      BY <1>1, <3>1, <3>2, EqualsFinite DEF WellFormed, IInv, TypeOK
    <3>4. DOMAIN event_string = 1 .. Len(Desc) + 1
      BY <1>1, <2>3 DEF IInv, ConvertInv, Cut
    <3> QED
      BY <3>1, <3>2, <3>3, <3>4, ParserConstants DEF KeyFrom
  <2> QED
    BY <1>1, <2>1, <2>2, <2>3, MapShape DEF IInv, SearchInv, InBounds
<1> QED
  BY <1>1, Invariance, PTL
=============================================================================
