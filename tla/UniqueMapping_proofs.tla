------------------------ MODULE UniqueMapping_proofs ------------------------
(***************************************************************************)
(* UniqueMapping::create gives back what it was given, for maps of any     *)
(* size and whatever the order of the values.                              *)
(***************************************************************************)
EXTENDS UniqueMapping, TLAPS

\* The values left are the values of the keys without a number.
Split(c) ==
  /\ DOMAIN c.mapping \subseteq DOMAIN c.map
  /\ \A k \in DOMAIN c.map :
       c.map[k] \in c.reversed <=> k \notin DOMAIN c.mapping
  /\ \A v \in c.reversed : \E k \in DOMAIN c.map : c.map[k] = v

\* Every number given is a natural number below id and stands for the value of its keys; id_map
\* remembers keys that have a number.
Numbered(c) ==
  /\ c.id \in Nat
  /\ DOMAIN c.id_map \subseteq DOMAIN c.mapping
  /\ \A i \in DOMAIN c.combined : i \in Nat /\ i < c.id
  /\ \A k \in DOMAIN c.mapping :
       /\ c.mapping[k] \in DOMAIN c.combined
       /\ c.combined[c.mapping[k]] = c.map[k]

\* Two keys of one value have one number.
Shared(c) ==
  \A j, k \in DOMAIN c.mapping : c.map[j] = c.map[k] => c.mapping[j] = c.mapping[k]

IInv == Split(create) /\ Numbered(create) /\ Shared(create)

\* Insert returns a function with the keys added.
LEMMA Inserted ==
  ASSUME NEW f, NEW S, NEW v
  PROVE  /\ DOMAIN Insert(f, S, v) = DOMAIN f \cup S
         /\ \A k \in S : Insert(f, S, v)[k] = v
         /\ \A k \in DOMAIN f : k \notin S => Insert(f, S, v)[k] = f[k]
BY DEF Insert

\* The key that id_map is asked for never has a number yet: the reuse of a number
\* is dead code.
LEMMA NeverKnown ==
  ASSUME NEW c, Split(c), Numbered(c), NEW value \in c.reversed
  PROVE  /\ IdKey(Keys(c.map, value)) \in Keys(c.map, value)
         /\ IdKey(Keys(c.map, value)) \notin DOMAIN c.id_map
<1>1. \E k : k \in Keys(c.map, value)
  BY DEF Split, Keys
<1>2. IdKey(Keys(c.map, value)) \in Keys(c.map, value)
  BY <1>1 DEF IdKey
<1>3. \A k \in Keys(c.map, value) : k \notin DOMAIN c.mapping
  BY DEF Split, Keys
<1> QED BY <1>2, <1>3 DEF Numbered

\* A round therefore numbers its value with id.
LEMMA RoundIs ==
  ASSUME NEW c, Split(c), Numbered(c), NEW value \in c.reversed
  PROVE  Round(c, value) =
           [map |-> c.map, reversed |-> c.reversed \ {value}, id |-> c.id + 1,
            id_map |-> Insert(c.id_map, {IdKey(Keys(c.map, value))}, c.id),
            mapping |-> Insert(c.mapping, Keys(c.map, value), c.id),
            combined |-> Insert(c.combined, {c.id}, value)]
BY NeverKnown DEF Round

\* A round keeps the invariant.
LEMMA RoundKeeps ==
  ASSUME NEW c, Split(c), Numbered(c), Shared(c), NEW value \in c.reversed
  PROVE  LET d == Round(c, value)
         IN Split(d) /\ Numbered(d) /\ Shared(d)
<1> DEFINE keys == Keys(c.map, value)
           d == Round(c, value)
<1>1. /\ d.map = c.map /\ d.reversed = c.reversed \ {value} /\ d.id = c.id + 1
      /\ d.id_map = Insert(c.id_map, {IdKey(keys)}, c.id)
      /\ d.mapping = Insert(c.mapping, keys, c.id)
      /\ d.combined = Insert(c.combined, {c.id}, value)
  <2>1. d = [map |-> c.map, reversed |-> c.reversed \ {value}, id |-> c.id + 1,
             id_map |-> Insert(c.id_map, {IdKey(keys)}, c.id),
             mapping |-> Insert(c.mapping, keys, c.id),
             combined |-> Insert(c.combined, {c.id}, value)]
    BY RoundIs
  <2> HIDE DEF d, keys
  <2> QED BY <2>1
<1>2. \A k : k \in keys <=> k \in DOMAIN c.map /\ c.map[k] = value
  BY DEF Keys
<1>3. IdKey(keys) \in keys
  BY NeverKnown
<1>4. /\ DOMAIN d.mapping = DOMAIN c.mapping \cup keys
      /\ \A k \in keys : d.mapping[k] = c.id
      /\ \A k \in DOMAIN c.mapping : k \notin keys => d.mapping[k] = c.mapping[k]
  <2> DEFINE f == Insert(c.mapping, keys, c.id)
  <2>1. d.mapping = f
    BY <1>1
  <2>2. /\ DOMAIN f = DOMAIN c.mapping \cup keys
        /\ \A k \in keys : f[k] = c.id
        /\ \A k \in DOMAIN c.mapping : k \notin keys => f[k] = c.mapping[k]
    BY DEF Insert
  <2> HIDE DEF f, d
  <2> QED BY <2>1, <2>2
<1>5. /\ DOMAIN d.combined = DOMAIN c.combined \cup {c.id}
      /\ d.combined[c.id] = value
      /\ \A i \in DOMAIN c.combined : i # c.id => d.combined[i] = c.combined[i]
  <2> DEFINE f == Insert(c.combined, {c.id}, value)
  <2>1. d.combined = f
    BY <1>1
  <2>2. /\ DOMAIN f = DOMAIN c.combined \cup {c.id}
        /\ \A k \in {c.id} : f[k] = value
        /\ \A k \in DOMAIN c.combined : k \notin {c.id} => f[k] = c.combined[k]
    BY DEF Insert
  <2> HIDE DEF f, d
  <2> QED BY <2>1, <2>2
<1>6. \A k \in DOMAIN c.mapping : k \in DOMAIN c.map /\ k \notin keys
  BY <1>2 DEF Split
<1>7. \A i \in DOMAIN c.combined : i \in Nat /\ i < c.id /\ i # c.id
  BY DEF Numbered
<1> HIDE DEF d, keys
<1>8. Split(d)
  <2>1. DOMAIN d.mapping \subseteq DOMAIN d.map
    BY <1>1, <1>2, <1>4, <1>6
  <2>2. ASSUME NEW k \in DOMAIN d.map
        PROVE  d.map[k] \in d.reversed <=> k \notin DOMAIN d.mapping
    BY <1>1, <1>2, <1>4 DEF Split
  <2>3. \A v \in d.reversed : \E k \in DOMAIN d.map : d.map[k] = v
    BY <1>1 DEF Split
  <2> QED BY <2>1, <2>2, <2>3 DEF Split
<1>9. Numbered(d)
  <2>1. DOMAIN d.id_map \subseteq DOMAIN d.mapping
    <3>1. DOMAIN d.id_map = DOMAIN c.id_map \cup {IdKey(keys)}
      BY <1>1 DEF Insert
    <3> QED BY <3>1, <1>3, <1>4 DEF Numbered
  <2>2. d.id \in Nat /\ \A i \in DOMAIN d.combined : i \in Nat /\ i < d.id
    BY <1>1, <1>5, <1>7 DEF Numbered
  <2>3. ASSUME NEW k \in DOMAIN d.mapping
        PROVE  /\ d.mapping[k] \in DOMAIN d.combined
               /\ d.combined[d.mapping[k]] = d.map[k]
    <3>1. CASE k \in keys
      BY <3>1, <1>1, <1>2, <1>4, <1>5
    <3>2. CASE k \notin keys
      <4>1. k \in DOMAIN c.mapping /\ d.mapping[k] = c.mapping[k]
        BY <3>2, <1>4
      <4>2. c.mapping[k] \in DOMAIN c.combined /\ c.combined[c.mapping[k]] = c.map[k]
        BY <4>1 DEF Numbered
      <4> QED BY <4>1, <4>2, <1>1, <1>5, <1>7
    <3> QED BY <3>1, <3>2
  <2> QED BY <2>1, <2>2, <2>3 DEF Numbered
<1>10. Shared(d)
  <2> SUFFICES ASSUME NEW j \in DOMAIN d.mapping, NEW k \in DOMAIN d.mapping,
                      d.map[j] = d.map[k]
               PROVE  d.mapping[j] = d.mapping[k]
    BY DEF Shared
  <2>1. j \in keys <=> k \in keys
    BY <1>1, <1>2, <1>4, <1>6
  <2>2. CASE j \in keys
    BY <2>1, <2>2, <1>4
  <2>3. CASE j \notin keys
    BY <2>1, <2>3, <1>1, <1>4 DEF Shared
  <2> QED BY <2>2, <2>3
<1> QED BY <1>8, <1>9, <1>10 DEF d

\* It holds before the first round.
LEMMA BeginHolds ==
  ASSUME NEW m
  PROVE  LET c == Begin(m)
         IN Split(c) /\ Numbered(c) /\ Shared(c)
<1> DEFINE c == Begin(m)
<1>1. /\ c.map = m /\ c.reversed = {m[k] : k \in DOMAIN m} /\ c.id = 0
      /\ c.id_map = Empty /\ c.mapping = Empty /\ c.combined = Empty
  BY DEF Begin
<1>2. DOMAIN Empty = {}
  BY DEF Empty
<1> HIDE DEF c
<1>3. Split(c) /\ Numbered(c) /\ Shared(c)
  BY <1>1, <1>2 DEF Split, Numbered, Shared
<1> QED BY <1>3 DEF c

\* The invariant holds from the first round on.
LEMMA Invariance == Spec => []IInv
<1>1. Init => IInv
  BY BeginHolds DEF Init, IInv
<1>2. IInv /\ [Number]_create => IInv'
  <2> SUFFICES ASSUME IInv, [Number]_create PROVE IInv'
    OBVIOUS
  <2>1. CASE Number
    <3>1. PICK value \in create.reversed : create' = Round(create, value)
      BY <2>1 DEF Number
    <3>2. LET d == Round(create, value)
          IN Split(d) /\ Numbered(d) /\ Shared(d)
      BY RoundKeeps DEF IInv
    <3> QED BY <3>1, <3>2 DEF IInv
  <2>2. CASE UNCHANGED create
    BY <2>2 DEF IInv
  <2> QED BY <2>1, <2>2
<1> QED BY <1>1, <1>2, PTL DEF Spec

\* When create returns, every key of the map leads through its number to the
\* value the map has for it: no text and no table is lost or exchanged.
THEOREM UniqueMappingFaithful == Spec => []Faithful
<1>1. IInv => Faithful
  <2> SUFFICES ASSUME IInv, create.reversed = {} PROVE
        /\ DOMAIN create.mapping = DOMAIN create.map
        /\ \A k \in DOMAIN create.map :
             /\ create.mapping[k] \in DOMAIN create.combined
             /\ create.combined[create.mapping[k]] = create.map[k]
    BY DEF Faithful
  <2>1. DOMAIN create.mapping = DOMAIN create.map
    BY DEF IInv, Split
  <2> QED BY <2>1 DEF IInv, Numbered
<1> QED BY <1>1, Invariance, PTL

\* Keys have the same number if and only if they have the same value.
THEOREM UniqueMappingDistinct == Spec => []Distinct
<1>1. IInv => Distinct
  BY DEF IInv, Numbered, Shared, Distinct
<1> QED BY <1>1, Invariance, PTL

=============================================================================
