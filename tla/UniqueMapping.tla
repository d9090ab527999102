---------------------------- MODULE UniqueMapping ----------------------------
(***************************************************************************)
(* UniqueMapping::create of src/codegen/src/unique_mapping.rs: the values  *)
(* of a map get numbers, equal values the same one, and the keys lead to   *)
(* the numbers.  The generator makes the translations and then the tables  *)
(* of the commands and the error codes unique with it.                     *)
(*                                                                         *)
(* One step is one round of the second loop: it gives the next value, with *)
(* all of its keys, a number.  The code goes through the values in their   *)
(* order, which decides the numbers only; here it is any fixed order.      *)
(***************************************************************************)
EXTENDS Naturals

CONSTANT Maps   \* the maps that are made unique

VARIABLE create \* the locals: map, reversed (the values left in it), id,
                \* id_map, mapping, combined (translations in the result)

Keys(map, value) == {k \in DOMAIN map : map[k] = value}

\* f with the value v for each of the keys in S.
Insert(f, S, v) == [k \in DOMAIN f \cup S |-> IF k \in S THEN v ELSE f[k]]

Empty == [k \in {} |-> 0]

Begin(m) ==
  [map |-> m, reversed |-> {m[k] : k \in DOMAIN m}, id |-> 0, id_map |-> Empty,
   mapping |-> Empty, combined |-> Empty]

\* The key of which id_map remembers the number: the longest.
IdKey(keys) == CHOOSE k \in keys : TRUE

\* Mutant: the number of the next value stays the same.
RoundNoIncrement(c, value) ==
  LET keys == Keys(c.map, value)
  IN [c EXCEPT !.reversed = @ \ {value}, !.mapping = Insert(@, keys, c.id),
               !.combined = Insert(@, {c.id}, value)]

\* What the round for value does to the locals c.
Round(c, value) ==
  LET keys == Keys(c.map, value)
      known == IdKey(keys) \in DOMAIN c.id_map
      new_id == IF known THEN c.id_map[IdKey(keys)] ELSE c.id
  IN [map |-> c.map,
      reversed |-> c.reversed \ {value},
      id |-> IF known THEN c.id ELSE c.id + 1,
      id_map |-> IF known THEN c.id_map ELSE Insert(c.id_map, {IdKey(keys)}, new_id),
      mapping |-> Insert(c.mapping, keys, new_id),
      combined |-> Insert(c.combined, {new_id}, value)]

Init == \E m \in Maps : create = Begin(m)

Number ==
  /\ create.reversed # {}
  /\ create' = Round(create, CHOOSE value \in create.reversed : TRUE)

Spec == Init /\ [][Number]_create

-----------------------------------------------------------------------------

\* When the loop has ended, every key leads through its number to the value that
\* the map has for it, and no number stands for nothing.
Faithful ==
  create.reversed = {} =>
    /\ DOMAIN create.mapping = DOMAIN create.map
    /\ \A k \in DOMAIN create.map :
         /\ create.mapping[k] \in DOMAIN create.combined
         /\ create.combined[create.mapping[k]] = create.map[k]

\* Keys of different values have different numbers, at every moment.
Distinct ==
  \A j, k \in DOMAIN create.mapping :
    create.mapping[j] = create.mapping[k] <=> create.map[j] = create.map[k]

=============================================================================
