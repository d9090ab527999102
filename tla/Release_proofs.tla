--------------------------- MODULE Release_proofs ---------------------------
(***************************************************************************)
(* Facts about the way from the vendor's tables to the device, for every   *)
(* export: no text is written over, the files that are written are closed  *)
(* under their references, their commands' borders admit what those of the *)
(* value types do, the buffer of a telegram is large enough, the program   *)
(* that is built from them has the texts of each device's errors, shows    *)
(* the values of every command with texts that mean them, and the loops of *)
(* Device::detect find a device that is meant for the controller, in       *)
(* whatever order the map has them.                                        *)
(***************************************************************************)
EXTENDS Release, SequenceTheorems, FiniteSetTheorems, WellFoundedInduction, TLAPS

ReleaseVars == << vars, program, detect_vars >>

\* The English texts are there from CleanTranslations on.
EnglishLater == stage = "german" => translations_cleaned = << >>

\* A text is added only for an id that has none.
LEMMA AddedKeeps ==
  ASSUME NEW v, NEW known, NEW id \in DOMAIN known
  PROVE  id \in DOMAIN Added(v, known).known /\ Added(v, known).known[id] = known[id]
<1> DEFINE e == v.enum_replace_value
           new == Added(v, known).known
<1>1. CASE e = EmptyText \/ StripAt(e) \in DOMAIN known
  <2>1. new = known
    BY <1>1 DEF Added
  <2> QED BY <2>1
<1>2. CASE ~(e = EmptyText \/ StripAt(e) \in DOMAIN known)
  <2>1. new = known \/ \E text : new = WithText(known, e, text)
    BY <1>2 DEF Added
  <2>2. \A text : /\ id \in DOMAIN WithText(known, e, text)
                  /\ WithText(known, e, text)[id] = known[id]
    BY <1>2 DEF WithText
  <2>3. id \in DOMAIN new /\ new[id] = known[id]
    <3> HIDE DEF new
    <3> QED BY <2>1, <2>2
  <2> QED BY <2>3
<1> QED BY <1>1, <1>2

\* English texts wait for the German ones.
LEMMA EnglishLaterInv ==
  ReleaseSpec => []EnglishLater
<1>1. ReleaseInit => EnglishLater
  BY DEF ReleaseInit, Init, EnglishLater
<1>2. EnglishLater /\ [Next]_vars => EnglishLater'
  BY DEF EnglishLater, Next, vars, AddMissingGerman, CleanTranslations, AddMissingEnglish,
     CleanEventTypes, InvalidValueTypes, UnnamedValue, Unlinked, ExtendDevice, ExtendEventType,
     PassExtension, UnhandledExtension, FilterEventTypes, UnsupportedBlocks, UnknownConversion,
     FilterDataPointTypes, NumberTexts, CollectTables, UnknownText, NumberTables, Use, Unusable,
     Panic
<1>3. EnglishLater /\ [ReleaseNext]_ReleaseVars => EnglishLater'
  BY <1>2 DEF ReleaseNext, ReleaseVars, vars, Generate, Build, BuildFails, Panic, Connect, Detect,
              EnglishLater
<1> QED BY <1>1, <1>3, PTL DEF ReleaseSpec, ReleaseVars

\* Whatever the tables are, no text is written over by the one made up for another
\* value, in either language.
THEOREM GeneratorKeepsTexts == ReleaseSpec => TextsKept
<1>1. EnglishLater /\ [ReleaseNext]_ReleaseVars =>
        [/\ \A id \in DOMAIN translations :
              id \in DOMAIN translations' /\ translations'[id] = translations[id]
         /\ \A id \in DOMAIN translations_cleaned :
              id \in DOMAIN translations_cleaned'
              /\ translations_cleaned'[id] = translations_cleaned[id]]_vars
  <2> DEFINE Kept1 == \A id \in DOMAIN translations :
                        id \in DOMAIN translations' /\ translations'[id] = translations[id]
             Kept2 == \A id \in DOMAIN translations_cleaned :
                        /\ id \in DOMAIN translations_cleaned'
                        /\ translations_cleaned'[id] = translations_cleaned[id]
  <2> SUFFICES ASSUME EnglishLater, ReleaseNext, ~UNCHANGED vars
               PROVE  Kept1 /\ Kept2
    BY DEF ReleaseVars
  <2>1. CASE AddMissingGerman
    BY <2>1, AddedKeeps DEF AddMissingGerman
  <2>2. CASE CleanTranslations
    BY <2>2 DEF CleanTranslations, EnglishLater
  <2>3. CASE AddMissingEnglish
    BY <2>3, AddedKeeps DEF AddMissingEnglish
  <2>4. CASE UNCHANGED << translations, translations_cleaned >>
    BY <2>4
  <2> QED BY <2>1, <2>2, <2>3, <2>4 DEF Next,
     CleanEventTypes, InvalidValueTypes, UnnamedValue, Unlinked, ExtendDevice, ExtendEventType,
     PassExtension, UnhandledExtension, FilterEventTypes, UnsupportedBlocks, UnknownConversion,
     FilterDataPointTypes, NumberTexts, CollectTables, UnknownText, NumberTables, Use, Unusable,
     Panic, ReleaseNext, Generate, Build, BuildFails, Connect, Detect
<1> QED BY <1>1, EnglishLaterInv, PTL DEF TextsKept, ReleaseSpec, ReleaseVars

-----------------------------------------------------------------------------

\* A system command has no table.
LEMMA NoSystemTable ==
  ASSUME NEW id \in DOMAIN system_event_types_cleaned
  PROVE  from_event_type(system_event_types_cleaned[id]).mapping = << >>
<1>1. system_event_types_cleaned[id].value_list = << >>
  BY DEF system_event_types_cleaned, NoEventTypeFields
<1> HIDE DEF system_event_types_cleaned
<1> QED BY <1>1 DEF from_event_type

\* What is used of an export refers to nothing else.
LEMMA UseIsClosed ==
  ASSUME Use
  PROVE  NothingDangling'
<1> DEFINE commands == [id \in CommandIds |-> from_event_type(event_types[id])]
           numbers == TablesUsed(commands)
           system == [id \in DOMAIN system_event_types_cleaned |->
                        from_event_type(system_event_types_cleaned[id])]
<1>1. /\ used'.devices = devices_used
      /\ used'.event_types = commands
      /\ used'.system_event_types = system
      /\ used'.mappings = [k \in numbers |-> tables.combined[k]]
      /\ used'.translations = [k \in TextsUsed(numbers) |-> texts.combined[k]]
  BY DEF Use
<1> HIDE DEF commands, numbers, system
<1>2. ASSUME NEW d \in Range(devices_used)
      PROVE  d.commands \subseteq CommandIds /\ d.error_mapping \in numbers
  BY <1>2 DEF Range, CommandIds, numbers, TablesUsed
<1>3. \A c \in Range(commands) : Range(c.mapping) \subseteq numbers
  BY DEF Range, numbers, TablesUsed
<1>4. \A c \in Range(system) : Range(c.mapping) \subseteq numbers
  <2>1. \A c \in Range(system) : c.mapping = << >>
    BY NoSystemTable DEF Range, system
  <2>2. Range(<< >>) = {}
    BY DEF Range
  <2> QED BY <2>1, <2>2
<1>5. \A k \in numbers : Range(tables.combined[k]) \subseteq TextsUsed(numbers)
  BY DEF TextsUsed
<1>6. DOMAIN commands = CommandIds
  BY DEF commands
<1>7. \A t \in Range([k \in numbers |-> tables.combined[k]]) : Range(t) \subseteq TextsUsed(numbers)
  BY <1>5 DEF Range
<1> QED BY <1>1, <1>2, <1>3, <1>4, <1>6, <1>7 DEF NothingDangling

\* Whatever the tables are, the files that are written have what they refer to:
\* commands, tables and texts.
THEOREM FilesAreClosed == ReleaseSpec => []NothingDangling
<1>1. ReleaseInit => NothingDangling
  BY DEF ReleaseInit, Init, NothingDangling
<1>2. NothingDangling /\ [ReleaseNext]_ReleaseVars => NothingDangling'
  <2> SUFFICES ASSUME NothingDangling, [ReleaseNext]_ReleaseVars
               PROVE  NothingDangling'
    OBVIOUS
  <2>1. CASE Use
    BY <2>1, UseIsClosed
  <2>2. CASE stage' # "written"
    BY <2>2 DEF NothingDangling
  <2>3. CASE UNCHANGED vars
    BY <2>3 DEF vars, NothingDangling
  <2> QED BY <2>1, <2>2, <2>3
          DEF Next, AddMissingGerman, CleanTranslations, AddMissingEnglish, CleanEventTypes,
              InvalidValueTypes, UnnamedValue, Unlinked, ExtendDevice, ExtendEventType,
              PassExtension, UnhandledExtension, FilterEventTypes, UnsupportedBlocks,
              UnknownConversion, FilterDataPointTypes, NumberTexts, CollectTables, UnknownText,
              NumberTables, Unusable, Panic, ReleaseNext, ReleaseVars, Generate, Build, BuildFails,
              Connect, Detect
<1> QED BY <1>1, <1>2, PTL DEF ReleaseSpec, ReleaseVars

-----------------------------------------------------------------------------
(* Borders *)

\* Every set of numbers has a least.
LEMMA LeastNumber ==
  ASSUME NEW T \in SUBSET Nat, T # {}
  PROVE  \E n \in T : \A m \in T : n <= m
<1> DEFINE R == OpToRel(<, Nat)
<1>1. IsWellFoundedOn(R, Nat)
  BY NatLessThanWellFounded
<1>2. \A x, y \in Nat : x < y => << x, y >> \in R
  BY DEF OpToRel
<1> HIDE DEF R
<1>3. PICK n \in T : \A y \in T : << y, n >> \notin R
  BY <1>1, WFMin
<1>4. \A m \in T : ~(m < n)
  BY <1>2, <1>3
<1>5. \A m \in T : n <= m
  BY <1>4
<1> QED BY <1>5

\* Induction, for sets.
LEMMA Induction ==
  ASSUME NEW S, 0 \in S, \A n \in Nat : n \in S => n + 1 \in S
  PROVE  Nat \subseteq S
<1> SUFFICES ASSUME Nat \ S # {} PROVE FALSE
  OBVIOUS
<1>1. PICK n \in Nat \ S : \A m \in Nat \ S : n <= m
  BY LeastNumber
<1>2. n # 0 /\ n - 1 \in Nat /\ ~(n <= n - 1)
  BY <1>1
<1>3. n - 1 \in S
  BY <1>1, <1>2
<1>4. (n - 1) + 1 \in S
  BY <1>2, <1>3
<1>5. (n - 1) + 1 = n
  OBVIOUS
<1> QED BY <1>1, <1>4, <1>5

\* What the loop has after the value type i, when f is what it had before.
Round(ids, f, i) ==
  IF i = 0 THEN [kind |-> "none"]
  ELSE IF i \in ids THEN merge(f[i - 1], clean_value_type(value_types[i]))
  ELSE f[i - 1]

IsLoop(ids, f, n) == f = [i \in 0..n |-> Round(ids, f, i)]

\* The loop has something after every value type.
LEMMA LoopExists ==
  ASSUME NEW ids
  PROVE  \A n \in Nat : \E f : IsLoop(ids, f, n)
<1> DEFINE T == {n \in Nat : \E f : IsLoop(ids, f, n)}
<1>1. 0 \in T
  <2> DEFINE f == [i \in 0..0 |-> [kind |-> "none"]]
  <2>1. f = [i \in 0..0 |-> Round(ids, f, i)]
    <3>1. \A i \in 0..0 : Round(ids, f, i) = [kind |-> "none"]
      BY DEF Round
    <3> QED BY <3>1
  <2> QED BY <2>1 DEF IsLoop
<1>2. ASSUME NEW n \in Nat, n \in T
      PROVE  n + 1 \in T
  <2>1. PICK f : IsLoop(ids, f, n)
    BY <1>2
  <2> DEFINE g == [i \in 0..n + 1 |-> IF i = n + 1 THEN Round(ids, f, n + 1) ELSE f[i]]
  <2>2. \A i \in 0..n + 1 : i # 0 => g[i - 1] = f[i - 1]
    OBVIOUS
  <2>3. \A i \in 0..n + 1 : Round(ids, g, i) = Round(ids, f, i)
    <3> HIDE DEF g
    <3> QED BY <2>2 DEF Round
  <2>4. \A i \in 0..n : f[i] = Round(ids, f, i)
    <3> DEFINE h == [i \in 0..n |-> Round(ids, f, i)]
    <3>1. f = h
      BY <2>1 DEF IsLoop
    <3>2. \A i \in 0..n : h[i] = Round(ids, f, i)
      OBVIOUS
    <3> HIDE DEF h
    <3> QED BY <3>1, <3>2
  <2>5. \A i \in 0..n + 1 : g[i] = Round(ids, g, i)
    <3>1. \A i \in 0..n + 1 : g[i] = Round(ids, f, i)
      BY <2>4
    <3> HIDE DEF g
    <3> QED BY <2>3, <3>1
  <2>6. g = [i \in 0..n + 1 |-> g[i]]
    OBVIOUS
  <2>7. IsLoop(ids, g, n + 1)
    <3> HIDE DEF g
    <3> QED BY <2>5, <2>6 DEF IsLoop
  <2> QED BY <2>7
<1> HIDE DEF T
<1>3. Nat \subseteq T
  BY <1>1, <1>2, Induction
<1> QED BY <1>3 DEF T

\* Merged is what the loop has in the end.
LEMMA MergedIsLoop ==
  ASSUME NEW ids, Len(value_types) \in Nat
  PROVE  \E f : /\ \A i \in 0..Len(value_types) : f[i] = Round(ids, f, i)
                /\ Merged(ids) = f[Len(value_types)]
<1> DEFINE n == Len(value_types)
           Loop(f) == [i \in 0..n |-> IF i = 0 THEN [kind |-> "none"]
                                      ELSE IF i \in ids
                                      THEN merge(f[i - 1], clean_value_type(value_types[i]))
                                      ELSE f[i - 1]]
           acc == CHOOSE f : f = Loop(f)
<1>1. \E f : f = Loop(f)
  <2>1. \E f : IsLoop(ids, f, n)
    BY LoopExists
  <2> QED BY <2>1 DEF IsLoop, Round
<1>2. acc = Loop(acc)
  <2> HIDE DEF Loop
  <2> QED BY <1>1
<1>3. Merged(ids) = acc[n]
  BY DEF Merged
<1> HIDE DEF acc, n
<1>4. \A i \in 0..n : Loop(acc)[i] = Round(ids, acc, i)
  BY DEF Round
<1>5. \A i \in 0..n : acc[i] = Round(ids, acc, i)
  <2> HIDE DEF Loop
  <2> QED BY <1>2, <1>4
<1> QED BY <1>3, <1>5 DEF n

\* The borders of r admit what those of v admit.
Covers(r, v) ==
  /\ r.lower_border # << >> => v.lower_border # << >> /\ r.lower_border[1] <= v.lower_border[1]
  /\ r.upper_border # << >> => v.upper_border # << >> /\ r.upper_border[1] >= v.upper_border[1]

HasBorders(r) == IsBorder(r.lower_border) /\ IsBorder(r.upper_border)

IsSingle(r) ==
  /\ r = [kind |-> "single", value_type |-> r.value_type, lower_border |-> r.lower_border,
          upper_border |-> r.upper_border, unit |-> r.unit]
  /\ HasBorders(r)

\* The smaller border is not above either, the larger not below.
LEMMA SmallerLarger ==
  ASSUME NEW a, NEW b, IsBorder(a), IsBorder(b)
  PROVE  /\ IsBorder(Smaller(a, b)) /\ IsBorder(Larger(a, b))
         /\ Smaller(a, b) # << >> =>
              /\ a # << >> /\ Smaller(a, b)[1] <= a[1]
              /\ b # << >> /\ Smaller(a, b)[1] <= b[1]
         /\ Larger(a, b) # << >> =>
              /\ a # << >> /\ Larger(a, b)[1] >= a[1]
              /\ b # << >> /\ Larger(a, b)[1] >= b[1]
<1>1. CASE a = << >> \/ b = << >>
  BY <1>1 DEF Smaller, Larger, IsBorder
<1>2. CASE a # << >> /\ b # << >>
  <2> DEFINE low == Min({a[1], b[1]})
             high == Max({a[1], b[1]})
  <2>1. a[1] \in Int /\ b[1] \in Int
    BY <1>2 DEF IsBorder
  <2>2. low \in {a[1], b[1]} /\ low <= a[1] /\ low <= b[1]
    BY <2>1 DEF Min
  <2>3. high \in {a[1], b[1]} /\ high >= a[1] /\ high >= b[1]
    BY <2>1 DEF Max
  <2>4. Smaller(a, b) = << low >> /\ Larger(a, b) = << high >>
    BY <1>2 DEF Smaller, Larger
  <2> HIDE DEF low, high
  <2>5. << low >>[1] = low /\ << high >>[1] = high /\ << low >> # << >> /\ << high >> # << >>
    OBVIOUS
  <2> QED BY <1>2, <2>1, <2>2, <2>3, <2>4, <2>5 DEF IsBorder
<1> QED BY <1>1, <1>2

\* One type of two is single only if both are, and then admits what both admit.
LEMMA MergeCovers ==
  ASSUME NEW acc, NEW v, acc.kind # "none", merge(acc, v).kind = "single",
         acc.kind = "single" => IsSingle(acc), v.kind = "single" => IsSingle(v)
  PROVE  /\ acc.kind = "single" /\ v.kind = "single"
         /\ IsSingle(merge(acc, v))
         /\ Covers(merge(acc, v), v)
         /\ \A w : HasBorders(w) /\ Covers(acc, w) => Covers(merge(acc, v), w)
<1> DEFINE m == merge(acc, v)
           low == Smaller(acc.lower_border, v.lower_border)
           high == Larger(acc.upper_border, v.upper_border)
<1>1. /\ acc.kind = "single" /\ v.kind = "single"
      /\ m = [acc EXCEPT !.lower_border = low, !.upper_border = high]
  BY DEF merge, Multiple, Invalid
<1>2. IsSingle(acc) /\ IsSingle(v)
  BY <1>1
<1>3. m = [kind |-> "single", value_type |-> acc.value_type, lower_border |-> low,
           upper_border |-> high, unit |-> acc.unit]
  <2> HIDE DEF low, high
  <2> QED BY <1>1, <1>2 DEF IsSingle
<1>4. m.lower_border = low /\ m.upper_border = high
  BY <1>3
<1>5. /\ IsBorder(low) /\ IsBorder(high)
      /\ low # << >> =>
           /\ acc.lower_border # << >> /\ low[1] <= acc.lower_border[1]
           /\ v.lower_border # << >> /\ low[1] <= v.lower_border[1]
      /\ high # << >> =>
           /\ acc.upper_border # << >> /\ high[1] >= acc.upper_border[1]
           /\ v.upper_border # << >> /\ high[1] >= v.upper_border[1]
  BY <1>2, SmallerLarger DEF IsSingle, HasBorders
<1> HIDE DEF m, low, high
<1>6. IsSingle(m)
  BY <1>3, <1>4, <1>5 DEF IsSingle, HasBorders
<1>7. Covers(m, v)
  BY <1>4, <1>5 DEF Covers
<1>8. ASSUME NEW w, HasBorders(w), Covers(acc, w)
      PROVE  Covers(m, w)
  <2>1. low # << >> => w.lower_border # << >> /\ low[1] <= w.lower_border[1]
    BY <1>2, <1>5, <1>8 DEF Covers, IsSingle, HasBorders, IsBorder
  <2>2. high # << >> => w.upper_border # << >> /\ high[1] >= w.upper_border[1]
    BY <1>2, <1>5, <1>8 DEF Covers, IsSingle, HasBorders, IsBorder
  <2> QED BY <1>4, <2>1, <2>2 DEF Covers
<1> QED BY <1>1, <1>6, <1>7, <1>8 DEF m

DataTypes == {"DateTime", "Binary", "VarChar", "NText"} \cup DOMAIN NumberTypes

IsValueType(v) == v.data_type \in DataTypes /\ HasBorders(v) /\ v.name.index \in Int

\* A single type has borders, and a number has those of its value type.
LEMMA CleanBorders ==
  ASSUME NEW v, IsValueType(v)
  PROVE  LET c == clean_value_type(v)
         IN /\ c.kind # "none"
            /\ c.kind = "single" => IsSingle(c)
            /\ v.data_type \in DOMAIN NumberTypes =>
                 /\ c.kind = "single"
                 /\ c.lower_border = v.lower_border /\ c.upper_border = v.upper_border
<1> DEFINE c == clean_value_type(v)
<1>1. DOMAIN NumberTypes = {"Int", "Float", "Bit"}
  BY DEF NumberTypes
<1>2. IsBorder(<< >>) /\ IsBorder(<< v.name.index >>)
  BY DEF IsBorder, IsValueType
<1>3. \A t : Single(t) = [kind |-> "single", value_type |-> << t >>, lower_border |-> << >>,
                          upper_border |-> << >>, unit |-> << >>]
  BY DEF Single
<1>4. \A t : IsSingle(Single(t)) /\ Single(t).kind = "single"
  BY <1>2, <1>3 DEF IsSingle, HasBorders
<1>5. CASE v.data_type = "DateTime"
  <2>1. c = Single("DateTime")
    BY <1>5 DEF clean_value_type
  <2> QED BY <1>1, <1>4, <1>5, <2>1
<1>6. CASE v.data_type = "Binary"
  <2>1. \E t : c = Single(t)
    BY <1>6 DEF clean_value_type
  <2> QED BY <1>1, <1>4, <1>6, <2>1
<1>7. CASE v.data_type = "VarChar" /\ v.name.words = Ecotronic_Party
  <2>1. c = [Single("Int") EXCEPT !.lower_border = << v.name.index >>,
                                  !.upper_border = << v.name.index >>, !.unit = << "C" >>]
    BY <1>7 DEF clean_value_type
  <2>2. c = [kind |-> "single", value_type |-> << "Int" >>, lower_border |-> << v.name.index >>,
             upper_border |-> << v.name.index >>, unit |-> << "C" >>]
    BY <1>3, <2>1
  <2>3. IsSingle(c)
    BY <1>2, <2>2 DEF IsSingle, HasBorders
  <2> QED BY <1>1, <1>7, <2>2, <2>3
<1>8. CASE v.data_type = "NText" \/ (v.data_type = "VarChar" /\ v.name.words # Ecotronic_Party)
  <2>1. c = Single("String") \/ \E list : c = Multiple(list)
    BY <1>8 DEF clean_value_type
  <2>2. \A list : Multiple(list).kind = "multiple"
    BY DEF Multiple
  <2> QED BY <1>1, <1>4, <1>8, <2>1, <2>2
<1>9. CASE v.data_type \in DOMAIN NumberTypes
  <2>1. c = [Single(NumberTypes[v.data_type]) EXCEPT
               !.lower_border = v.lower_border, !.upper_border = v.upper_border, !.unit = v.unit]
    BY <1>1, <1>9 DEF clean_value_type
  <2>2. c = [kind |-> "single", value_type |-> << NumberTypes[v.data_type] >>,
             lower_border |-> v.lower_border, upper_border |-> v.upper_border, unit |-> v.unit]
    BY <1>3, <2>1
  <2>3. IsSingle(c)
    BY <2>2 DEF IsSingle, HasBorders, IsValueType
  <2> QED BY <2>2, <2>3
<1> QED BY <1>5, <1>6, <1>7, <1>8, <1>9 DEF IsValueType, DataTypes

\* The single type c is one of those that are merged in r.
IsIn(r, c) == c.kind = "single" /\ HasBorders(c) /\ Covers(r, c)

\* What the loop has after the value type n: it is single only if what was merged is,
\* and admits what any of that does.
SoFar(ids, acc, n) ==
  /\ acc.kind = "none" => \A j \in ids : ~ j <= n
  /\ acc.kind = "single" =>
       /\ IsSingle(acc)
       /\ \A j \in ids : j <= n => IsIn(acc, clean_value_type(value_types[j]))

\* One more value type.
LEMMA RoundCovers ==
  ASSUME NEW ids, ids \subseteq 1..Len(value_types), Len(value_types) \in Nat,
         \A j \in ids : IsValueType(value_types[j]),
         NEW f, NEW i \in 1..Len(value_types), SoFar(ids, f[i - 1], i - 1)
  PROVE  SoFar(ids, Round(ids, f, i), i)
<1> DEFINE acc == f[i - 1]
           c == clean_value_type(value_types[i])
           m == merge(acc, c)
           Done == {j \in ids : j <= i - 1}
<1>1. i # 0 /\ \A j \in ids : j <= i <=> j \in Done \/ j = i
  OBVIOUS
<1>2. CASE i \notin ids
  <2>1. Round(ids, f, i) = acc
    BY <1>1, <1>2 DEF Round
  <2>2. \A j \in ids : j <= i <=> j <= i - 1
    BY <1>2
  <2> HIDE DEF acc
  <2> QED BY <2>1, <2>2 DEF SoFar, acc
<1>3. CASE i \in ids
  <2>1. Round(ids, f, i) = m
    BY <1>1, <1>3 DEF Round
  <2>2. c.kind # "none" /\ (c.kind = "single" => IsSingle(c))
    BY <1>3, CleanBorders
  <2>3. CASE acc.kind = "none"
    <3>1. m = c
      BY <2>3 DEF merge
    <3>2. \A j \in ids : j <= i => j = i
      BY <1>1, <2>3 DEF SoFar
    <3> HIDE DEF m
    <3>3. ASSUME c.kind = "single"
          PROVE  IsSingle(c) /\ IsIn(c, c)
      <4> HIDE DEF c
      <4> QED BY <2>2, <3>3 DEF IsSingle, HasBorders, IsBorder, Covers, IsIn
    <3>4. \A j \in ids : j <= i => clean_value_type(value_types[j]) = c
      BY <3>2
    <3> HIDE DEF c
    <3> QED BY <2>1, <2>2, <3>1, <3>3, <3>4 DEF SoFar
  <2>4. CASE acc.kind # "none"
    <3>1. m.kind # "none"
      BY <2>4 DEF merge, Multiple, Invalid
    <3>2. ASSUME m.kind = "single"
          PROVE  /\ IsSingle(m)
                 /\ \A j \in ids : j <= i => IsIn(m, clean_value_type(value_types[j]))
      <4>1. acc.kind = "single" => IsSingle(acc)
        BY DEF SoFar
      <4> HIDE DEF acc, c
      <4>2. /\ acc.kind = "single" /\ c.kind = "single" /\ IsSingle(m)
            /\ Covers(m, c)
            /\ \A w : HasBorders(w) /\ Covers(acc, w) => Covers(m, w)
        BY <2>2, <2>4, <3>2, <4>1, MergeCovers
      <4>3. IsIn(m, c)
        BY <2>2, <4>2 DEF IsIn, IsSingle
      <4> HIDE DEF m
      <4>4. ASSUME NEW j \in Done
            PROVE  IsIn(m, clean_value_type(value_types[j]))
        BY <4>2 DEF SoFar, acc, IsIn
      <4> HIDE DEF Done
      <4> QED BY <1>1, <4>2, <4>3, <4>4 DEF c
    <3> HIDE DEF m
    <3> QED BY <2>1, <3>1, <3>2 DEF SoFar
  <2> QED BY <2>3, <2>4
<1> QED BY <1>2, <1>3

\* What Merged returns, if it is single, admits what every number of them does.
LEMMA MergedCovers ==
  ASSUME NEW ids, ids \subseteq 1..Len(value_types), Len(value_types) \in Nat,
         \A j \in ids : IsValueType(value_types[j]), Merged(ids).kind = "single"
  PROVE  /\ IsSingle(Merged(ids))
         /\ \A j \in ids : value_types[j].data_type \in DOMAIN NumberTypes =>
                            Covers(Merged(ids), value_types[j])
<1> DEFINE n == Len(value_types)
<1>1. PICK f : (\A i \in 0..n : f[i] = Round(ids, f, i)) /\ Merged(ids) = f[n]
  BY MergedIsLoop
<1> DEFINE T == {i \in Nat : i <= n => SoFar(ids, f[i], i)}
<1>2. 0 \in T
  <2>1. f[0].kind = "none"
    BY <1>1 DEF Round
  <2>2. \A j \in ids : ~ j <= 0
    OBVIOUS
  <2> QED BY <2>1, <2>2 DEF SoFar
<1>3. ASSUME NEW i \in Nat, i \in T
      PROVE  i + 1 \in T
  <2> SUFFICES ASSUME i + 1 <= n
               PROVE  SoFar(ids, f[i + 1], i + 1)
    OBVIOUS
  <2>1. i + 1 \in 1..n /\ (i + 1) - 1 = i /\ i <= n
    OBVIOUS
  <2>2. SoFar(ids, f[i], i)
    BY <1>3, <2>1
  <2>3. f[i + 1] = Round(ids, f, i + 1)
    BY <1>1, <2>1
  <2>4. SoFar(ids, Round(ids, f, i + 1), i + 1)
    BY <2>1, <2>2, RoundCovers
  <2> QED BY <2>3, <2>4
<1> HIDE DEF T
<1>4. n \in T
  BY <1>2, <1>3, Induction
<1>5. SoFar(ids, Merged(ids), n)
  BY <1>1, <1>4 DEF T
<1>6. IsSingle(Merged(ids)) /\ \A j \in ids : IsIn(Merged(ids), clean_value_type(value_types[j]))
  BY <1>5 DEF SoFar
<1>7. ASSUME NEW j \in ids, value_types[j].data_type \in DOMAIN NumberTypes
      PROVE  Covers(Merged(ids), value_types[j])
  BY <1>6, <1>7, CleanBorders DEF IsIn, Covers
<1> QED BY <1>6, <1>7

\* A finite set of numbers has a greatest.
LEMMA GreatestNumber ==
  ASSUME NEW S \in SUBSET Nat, IsFiniteSet(S), S # {}
  PROVE  Max(S) \in S /\ \A y \in S : y <= Max(S)
<1> DEFINE HasGreatest(R) == \E x \in R : \A y \in R : x >= y
           T == {n \in Nat : \A R \in SUBSET Nat :
                   IsFiniteSet(R) /\ Cardinality(R) = n => R = {} \/ HasGreatest(R)}
<1>1. 0 \in T
  BY FS_EmptySet
<1>2. ASSUME NEW n \in Nat, n \in T
      PROVE  n + 1 \in T
  <2> SUFFICES ASSUME NEW R \in SUBSET Nat, IsFiniteSet(R), Cardinality(R) = n + 1, R # {}
               PROVE  HasGreatest(R)
    OBVIOUS
  <2>1. PICK x \in R : TRUE
    OBVIOUS
  <2>2. IsFiniteSet(R \ {x}) /\ Cardinality(R \ {x}) = n
    <3>1. IsFiniteSet(R \ {x}) /\ Cardinality(R \ {x}) = Cardinality(R) - 1
      BY <2>1, FS_RemoveElement
    <3>2. (n + 1) - 1 = n
      OBVIOUS
    <3> QED BY <3>1, <3>2
  <2>3. R \ {x} = {} \/ HasGreatest(R \ {x})
    BY <1>2, <2>2
  <2>4. CASE R \ {x} = {}
    BY <2>1, <2>4
  <2>5. CASE HasGreatest(R \ {x})
    <3>1. PICK m \in R \ {x} : \A y \in R \ {x} : m >= y
      BY <2>5
    <3>2. CASE x >= m
      <4>1. \A y \in R : x >= y
        BY <2>1, <3>1, <3>2
      <4> QED BY <2>1, <4>1
    <3>3. CASE ~ x >= m
      <4>1. \A y \in R : m >= y
        BY <2>1, <3>1, <3>3
      <4> QED BY <3>1, <4>1
    <3> QED BY <3>2, <3>3
  <2> QED BY <2>3, <2>4, <2>5
<1> HIDE DEF T
<1>3. Cardinality(S) \in T
  BY <1>1, <1>2, Induction, FS_CardinalityType
<1>4. HasGreatest(S)
  BY <1>3 DEF T
<1> QED BY <1>4 DEF Max

\* CleanEventType makes its borders of those of its value types.
LEMMA CleanCovers ==
  ASSUME NEW e, e.value_types \subseteq 1..Len(value_types), Len(value_types) \in Nat,
         \A j \in e.value_types : IsValueType(value_types[j])
  PROVE  LET c == CleanEventType(e)
         IN /\ DOMAIN c = DOMAIN NoEventTypeFields
            /\ \A j \in e.value_types : value_types[j].data_type \in DOMAIN NumberTypes =>
                                          Covers(c, value_types[j])
<1> DEFINE m == Merged(e.value_types)
           c == CleanEventType(e)
           single == IF m.kind = "single" THEN m ELSE NoEventTypeFields
<1>1. /\ DOMAIN c = DOMAIN NoEventTypeFields
      /\ c.lower_border = single.lower_border /\ c.upper_border = single.upper_border
  BY DEF CleanEventType, NoEventTypeFields
<1>2. CASE m.kind = "single"
  <2>1. c.lower_border = m.lower_border /\ c.upper_border = m.upper_border
    BY <1>1, <1>2
  <2>2. \A j \in e.value_types : value_types[j].data_type \in DOMAIN NumberTypes =>
                                   Covers(m, value_types[j])
    BY <1>2, MergedCovers
  <2> HIDE DEF c, m
  <2> QED BY <1>1, <2>1, <2>2 DEF Covers, c
<1>3. CASE m.kind # "single"
  <2>1. c.lower_border = << >> /\ c.upper_border = << >>
    BY <1>1, <1>3 DEF NoEventTypeFields
  <2> HIDE DEF c
  <2> QED BY <1>1, <2>1 DEF Covers, c
<1> QED BY <1>2, <1>3

Fields == {"data_type", "name", "lower_border", "upper_border"}

\* The value types are those of the export but for the texts.
ValueTypesKept ==
  /\ export \in Exports
  /\ value_types \in Seq(Range(value_types)) /\ Len(value_types) = Len(export.value_types)
  /\ \A i \in 1..Len(value_types) :
       /\ Fields \subseteq DOMAIN value_types[i]
       /\ \A f \in Fields : value_types[i][f] = export.value_types[i][f]

\* The borders of e admit what every number does that is linked to the event type id.
CoversLinked(e, id) ==
  \A i \in export.event_types[id].value_types :
    export.value_types[i].data_type \in DOMAIN NumberTypes => Covers(e, export.value_types[i])

\* So do those of every event type, from CleanEventTypes on.
EventTypesCover ==
  stage \in {"extend", "devices", "texts", "tables"} =>
    \A id \in DOMAIN event_types :
      DOMAIN event_types[id] = DOMAIN NoEventTypeFields /\ CoversLinked(event_types[id], id)

\* The devices have event types, and only those that are kept are left to them.
DevicesLinked ==
  /\ stage \in {"extend", "devices"} =>
       \A id \in DOMAIN data_point_types : "event_types" \in DOMAIN data_point_types[id]
  /\ stage \in {"extend", "devices"} =>
       DOMAIN data_point_types = DOMAIN export.data_point_types
  /\ stage \in {"texts", "tables"} =>
       \A name \in DOMAIN data_point_types :
         data_point_types[name].event_types \subseteq DOMAIN event_types

BordersInv == ValueTypesKept /\ EventTypesCover /\ DevicesLinked /\ BordersCover

\* What the generator assumes of an export.
LEMMA ProperExport ==
  ASSUME export \in Exports
  PROVE  /\ IsFiniteSet(DOMAIN export.data_point_types)
         /\ DOMAIN export.data_point_types \subseteq Nat
         /\ export.value_types \in Seq(Range(export.value_types))
         /\ \A i \in 1..Len(export.value_types) :
              LET v == export.value_types[i]
              IN Fields \subseteq DOMAIN v /\ HasBorders(v) /\ v.name.index \in Int
<1>1. DOMAIN export.value_types = 1..Len(export.value_types)
  BY ExportAssumption, LenProperties
<1> QED BY <1>1, ExportAssumption DEF Fields, HasBorders

\* A table with the rows 1, 2, ... is a sequence.
LEMMA Table ==
  ASSUME NEW S, NEW n \in Nat, NEW s \in [1..n -> S]
  PROVE  s \in Seq(S) /\ Len(s) = n
  OBVIOUS

\* A value type keeps its type and its borders when its text is replaced.
LEMMA ReplaceText ==
  ASSUME ValueTypesKept, UNCHANGED export, NEW n, NEW id,
         value_types' = [value_types EXCEPT ![n].enum_replace_value = id]
  PROVE  ValueTypesKept'
<1> DEFINE N == Len(value_types)
           Values == Range(value_types')
<1>1. N \in Nat /\ DOMAIN value_types = 1..N /\ value_types = [i \in 1..N |-> value_types[i]]
  BY LenProperties DEF ValueTypesKept
<1>2. DOMAIN value_types' = 1..N /\ value_types' = [i \in 1..N |-> value_types'[i]]
  BY <1>1
<1>3. \A i \in 1..N : value_types'[i] \in Values
  BY <1>2 DEF Range
<1>4. value_types' \in [1..N -> Values]
  <2> HIDE DEF Values
  <2> QED BY <1>2, <1>3
<1>5. value_types' \in Seq(Values) /\ Len(value_types') = N
  <2> HIDE DEF N, Values
  <2> QED BY <1>1, <1>4, Table
<1>6. ASSUME NEW i \in 1..N
      PROVE  /\ Fields \subseteq DOMAIN value_types'[i]
             /\ \A f \in Fields : value_types'[i][f] = export.value_types[i][f]
  <2>1. /\ Fields \subseteq DOMAIN value_types[i]
        /\ \A f \in Fields : value_types[i][f] = export.value_types[i][f]
    BY <1>6 DEF ValueTypesKept
  <2>2. value_types'[i] \in {value_types[i], [value_types[i] EXCEPT !.enum_replace_value = id]}
    BY <1>1, <1>6
  <2>3. "enum_replace_value" \notin Fields
    BY DEF Fields
  <2> DEFINE w == value_types[i]
             u == export.value_types[i]
  <2>4. /\ DOMAIN value_types'[i] = DOMAIN w
        /\ \A f \in Fields : f \in DOMAIN w => value_types'[i][f] = w[f]
    <3> HIDE DEF w, u
    <3> QED BY <2>2, <2>3 DEF w
  <2>5. Fields \subseteq DOMAIN w /\ \A f \in Fields : w[f] = u[f]
    BY <2>1
  <2> HIDE DEF w, u
  <2>6. Fields \subseteq DOMAIN value_types'[i] /\ \A f \in Fields : value_types'[i][f] = u[f]
    BY <2>4, <2>5
  <2> QED BY <2>6 DEF u
<1>7. N = Len(export.value_types) /\ export \in Exports
  BY DEF ValueTypesKept
<1>8. value_types' \in Seq(Range(value_types')) /\ Len(value_types') = N
  BY <1>5
<1> HIDE DEF N, Values
<1> QED BY <1>6, <1>7, <1>8 DEF ValueTypesKept

\* The event types are made with borders that admit what their value types do.
LEMMA CleanStep ==
  ASSUME BordersInv, CleanEventTypes
  PROVE  BordersInv'
<1>1. /\ stage' = "extend" /\ UNCHANGED << export, value_types, used >>
      /\ Mergeable
      /\ event_types' = [id \in DOMAIN export.event_types |->
                           CleanEventType(export.event_types[id])]
      /\ data_point_types' = [id \in DOMAIN export.data_point_types |->
                                CleanDataPointType(export.data_point_types[id])]
  BY DEF CleanEventTypes
<1>2. ValueTypesKept /\ ValueTypesKept'
  BY <1>1 DEF BordersInv, ValueTypesKept
<1>3. Len(value_types) \in Nat /\ DOMAIN value_types = 1..Len(value_types)
  BY <1>2, LenProperties DEF ValueTypesKept
<1>4. ASSUME NEW j \in 1..Len(value_types)
      PROVE  /\ IsValueType(value_types[j])
             /\ value_types[j].data_type = export.value_types[j].data_type
             /\ value_types[j].lower_border = export.value_types[j].lower_border
             /\ value_types[j].upper_border = export.value_types[j].upper_border
  <2>1. \A f \in Fields : value_types[j][f] = export.value_types[j][f]
    BY <1>2 DEF ValueTypesKept
  <2>2. /\ value_types[j].data_type = export.value_types[j].data_type
        /\ value_types[j].name = export.value_types[j].name
        /\ value_types[j].lower_border = export.value_types[j].lower_border
        /\ value_types[j].upper_border = export.value_types[j].upper_border
    BY <2>1 DEF Fields
  <2>3. value_types[j].data_type \in DataTypes
    BY <1>1, <1>3 DEF Mergeable, DataTypes
  <2>4. HasBorders(export.value_types[j]) /\ export.value_types[j].name.index \in Int
    BY <1>2, ProperExport DEF ValueTypesKept
  <2> QED BY <2>2, <2>3, <2>4 DEF IsValueType, HasBorders
<1>5. ASSUME NEW id \in DOMAIN event_types'
      PROVE  /\ DOMAIN event_types'[id] = DOMAIN NoEventTypeFields
             /\ CoversLinked(event_types'[id], id)
  <2> DEFINE e == export.event_types[id]
  <2>1. id \in DOMAIN export.event_types /\ event_types'[id] = CleanEventType(e)
    BY <1>1
  <2>2. e.value_types \subseteq 1..Len(value_types)
    BY <1>1, <1>3, <2>1 DEF Mergeable, Range
  <2>3. /\ DOMAIN event_types'[id] = DOMAIN NoEventTypeFields
        /\ \A j \in e.value_types : value_types[j].data_type \in DOMAIN NumberTypes =>
                                      Covers(event_types'[id], value_types[j])
    <3> HIDE DEF e
    <3> QED BY <1>3, <1>4, <2>1, <2>2, CleanCovers
  <2> QED BY <1>4, <2>2, <2>3 DEF CoversLinked, Covers
<1>6. EventTypesCover'
  BY <1>1, <1>5 DEF EventTypesCover, CoversLinked
<1>7. DevicesLinked'
  <2>1. \A d : "event_types" \in DOMAIN CleanDataPointType(d)
    BY DEF CleanDataPointType
  <2>2. \A id \in DOMAIN data_point_types' : "event_types" \in DOMAIN data_point_types'[id]
    BY <1>1, <2>1
  <2>3. DOMAIN data_point_types' = DOMAIN export.data_point_types
    BY <1>1
  <2> QED BY <1>1, <2>2, <2>3 DEF DevicesLinked
<1>8. BordersCover'
  BY <1>1 DEF BordersCover
<1> QED BY <1>2, <1>6, <1>7, <1>8 DEF BordersInv

\* The table extensions change no border of an event type.
LEMMA ExtendStep ==
  ASSUME BordersInv, ExtendEventType
  PROVE  BordersInv'
<1> DEFINE e == event_types[Extension.id]
<1>1. /\ stage = "extend" /\ UNCHANGED << export, stage, value_types, data_point_types, used >>
      /\ Extension.field \in EventTypeFields
      /\ event_types' =
           [event_types EXCEPT ![Extension.id][Extension.field] = Extended(Extension, @)]
  BY DEF ExtendEventType
<1>2. "lower_border" \notin EventTypeFields /\ "upper_border" \notin EventTypeFields
  BY DEF EventTypeFields
<1>3. {"lower_border", "upper_border"} \subseteq DOMAIN NoEventTypeFields
  BY DEF NoEventTypeFields
<1>4. DOMAIN event_types' = DOMAIN event_types
  BY <1>1
<1>5. ASSUME NEW id \in DOMAIN event_types
      PROVE  /\ DOMAIN event_types'[id] = DOMAIN NoEventTypeFields
             /\ CoversLinked(event_types'[id], id)
  <2>1. DOMAIN event_types[id] = DOMAIN NoEventTypeFields /\ CoversLinked(event_types[id], id)
    BY <1>1 DEF BordersInv, EventTypesCover
  <2>2. \/ event_types'[id] = event_types[id]
        \/ \E x : event_types'[id] = [event_types[id] EXCEPT ![Extension.field] = x]
    BY <1>1
  <2>3. /\ DOMAIN event_types'[id] = DOMAIN event_types[id]
        /\ event_types'[id].lower_border = event_types[id].lower_border
        /\ event_types'[id].upper_border = event_types[id].upper_border
    <3>1. CASE event_types'[id] = event_types[id]
      BY <3>1
    <3>2. CASE \E x : event_types'[id] = [event_types[id] EXCEPT ![Extension.field] = x]
      <4>1. PICK x : event_types'[id] = [event_types[id] EXCEPT ![Extension.field] = x]
        BY <3>2
      <4> QED BY <1>1, <1>2, <1>3, <2>1, <4>1
    <3> QED BY <2>2, <3>1, <3>2
  <2> QED BY <2>1, <2>3 DEF CoversLinked, Covers
<1>6. EventTypesCover'
  BY <1>1, <1>4, <1>5 DEF EventTypesCover, CoversLinked
<1>7. ValueTypesKept' /\ DevicesLinked' /\ BordersCover'
  BY <1>1 DEF BordersInv, ValueTypesKept, DevicesLinked, BordersCover
<1> QED BY <1>6, <1>7 DEF BordersInv

\* Nor does the filter of the event types.
LEMMA FilterStep ==
  ASSUME BordersInv, FilterEventTypes
  PROVE  BordersInv'
<1>1. /\ stage = "extend" /\ stage' = "devices"
      /\ UNCHANGED << export, value_types, data_point_types, used >>
      /\ event_types' = [id \in Supported |-> Kept(event_types[id])]
  BY DEF FilterEventTypes
<1>2. {"lower_border", "upper_border"} \subseteq DOMAIN NoEventTypeFields
  BY DEF NoEventTypeFields
<1>3. ASSUME NEW id \in DOMAIN event_types'
      PROVE  /\ DOMAIN event_types'[id] = DOMAIN NoEventTypeFields
             /\ CoversLinked(event_types'[id], id)
  <2>1. id \in DOMAIN event_types /\ event_types'[id] = Kept(event_types[id])
    BY <1>1 DEF Supported
  <2>2. DOMAIN event_types[id] = DOMAIN NoEventTypeFields /\ CoversLinked(event_types[id], id)
    BY <1>1, <2>1 DEF BordersInv, EventTypesCover
  <2>3. /\ DOMAIN event_types'[id] = DOMAIN event_types[id]
        /\ event_types'[id].lower_border = event_types[id].lower_border
        /\ event_types'[id].upper_border = event_types[id].upper_border
    <3>1. \E c, b : event_types'[id] = [event_types[id] EXCEPT !.conversion = c, !.block_factor = b]
      BY <2>1 DEF Kept
    <3> QED BY <1>2, <2>2, <3>1
  <2> QED BY <2>2, <2>3 DEF CoversLinked, Covers
<1>4. EventTypesCover'
  BY <1>1, <1>3 DEF EventTypesCover, CoversLinked
<1>5. ValueTypesKept' /\ DevicesLinked' /\ BordersCover'
  BY <1>1 DEF BordersInv, ValueTypesKept, DevicesLinked, BordersCover
<1> QED BY <1>4, <1>5 DEF BordersInv

\* The filter of the devices leaves them event types that are there.
LEMMA FilterDevicesStep ==
  ASSUME BordersInv, FilterDataPointTypes
  PROVE  BordersInv'
<1> DEFINE kept == {id \in DOMAIN data_point_types :
                      is_data_point_type_supported(data_point_types[id])}
           Of(name) == {id \in kept : data_point_types[id].address = name}
<1>1. /\ stage = "devices" /\ stage' = "texts"
      /\ UNCHANGED << export, value_types, event_types, used >>
      /\ data_point_types' =
           [name \in {data_point_types[id].address : id \in kept} |->
              [data_point_types[Max(Of(name))] EXCEPT !.event_types = @ \cap DOMAIN event_types]]
  BY DEF FilterDataPointTypes
<1>2. IsFiniteSet(DOMAIN data_point_types) /\ DOMAIN data_point_types \subseteq Nat
  BY <1>1, ProperExport DEF BordersInv, DevicesLinked, ValueTypesKept
<1>3. ASSUME NEW name \in DOMAIN data_point_types'
      PROVE  data_point_types'[name].event_types \subseteq DOMAIN event_types
  <2>1. Of(name) # {} /\ Of(name) \subseteq DOMAIN data_point_types
    BY <1>1
  <2>2. Max(Of(name)) \in DOMAIN data_point_types
    <3> HIDE DEF Of
    <3>1. IsFiniteSet(Of(name)) /\ Of(name) \in SUBSET Nat
      BY <1>2, <2>1, FS_Subset
    <3> QED BY <2>1, <3>1, GreatestNumber
  <2> DEFINE d == data_point_types[Max(Of(name))]
  <2>3. "event_types" \in DOMAIN d
    BY <1>1, <2>2 DEF BordersInv, DevicesLinked
  <2>4. data_point_types'[name] = [d EXCEPT !.event_types = @ \cap DOMAIN event_types]
    BY <1>1
  <2> HIDE DEF d
  <2> QED BY <2>3, <2>4
<1>4. DevicesLinked'
  BY <1>1, <1>3 DEF DevicesLinked
<1>5. EventTypesCover'
  BY <1>1 DEF BordersInv, EventTypesCover, CoversLinked
<1>6. ValueTypesKept' /\ BordersCover'
  BY <1>1 DEF BordersInv, ValueTypesKept, BordersCover
<1> QED BY <1>4, <1>5, <1>6 DEF BordersInv

\* What is used has the borders of the event types.
LEMMA UseCovers ==
  ASSUME BordersInv, Use
  PROVE  BordersInv'
<1>1. /\ stage = "tables" /\ stage' = "written"
      /\ UNCHANGED << export, value_types, event_types, data_point_types >>
      /\ used'.event_types = [id \in CommandIds |-> from_event_type(event_types[id])]
  BY DEF Use
<1>2. CommandIds \subseteq DOMAIN event_types
  <2>1. \A name \in DOMAIN devices_used :
          /\ name \in DOMAIN data_point_types
          /\ devices_used[name].commands = data_point_types[name].event_types
    BY DEF devices_used, devices_cleaned
  <2>2. \A name \in DOMAIN data_point_types :
          data_point_types[name].event_types \subseteq DOMAIN event_types
    BY <1>1 DEF BordersInv, DevicesLinked
  <2> HIDE DEF devices_used
  <2> QED BY <2>1, <2>2 DEF CommandIds
<1>3. ASSUME NEW id \in DOMAIN used'.event_types
      PROVE  CoversLinked(used'.event_types[id], id)
  <2>1. id \in DOMAIN event_types /\ used'.event_types[id] = from_event_type(event_types[id])
    BY <1>1, <1>2
  <2>2. CoversLinked(event_types[id], id)
    BY <1>1, <2>1 DEF BordersInv, EventTypesCover
  <2>3. /\ from_event_type(event_types[id]).lower_border = event_types[id].lower_border
        /\ from_event_type(event_types[id]).upper_border = event_types[id].upper_border
    BY DEF from_event_type
  <2> QED BY <2>1, <2>2, <2>3 DEF CoversLinked, Covers
<1>4. BordersCover'
  BY <1>1, <1>3 DEF BordersCover, CoversLinked, Covers
<1>5. ValueTypesKept' /\ EventTypesCover' /\ DevicesLinked'
  BY <1>1 DEF BordersInv, ValueTypesKept, EventTypesCover, DevicesLinked
<1> QED BY <1>4, <1>5 DEF BordersInv

\* The other steps leave the event types and the devices alone.
LEMMA BordersKeep ==
  ASSUME BordersInv, UNCHANGED << export, event_types, data_point_types >>, ValueTypesKept',
         \/ stage' = stage
         \/ stage' \in {"german", "english", "built", "panic"}
         \/ (stage = "texts" /\ stage' = "tables"),
         stage' = "written" => UNCHANGED used
  PROVE  BordersInv'
<1>1. EventTypesCover'
  BY DEF BordersInv, EventTypesCover, CoversLinked
<1>2. DevicesLinked'
  BY DEF BordersInv, DevicesLinked
<1>3. BordersCover'
  BY DEF BordersInv, BordersCover
<1> QED BY <1>1, <1>2, <1>3 DEF BordersInv

\* The invariant holds in every state.
LEMMA BordersInvariance == ReleaseSpec => []BordersInv
<1>1. ReleaseInit => BordersInv
  <2> SUFFICES ASSUME ReleaseInit PROVE BordersInv
    OBVIOUS
  <2>1. export \in Exports /\ stage = "german" /\ value_types = export.value_types
    BY DEF ReleaseInit, Init
  <2>2. ValueTypesKept
    BY <2>1, ProperExport DEF ValueTypesKept
  <2> QED BY <2>1, <2>2 DEF BordersInv, EventTypesCover, DevicesLinked, BordersCover
<1>2. BordersInv /\ [ReleaseNext]_ReleaseVars => BordersInv'
  <2> SUFFICES ASSUME BordersInv, [ReleaseNext]_ReleaseVars
               PROVE  BordersInv'
    OBVIOUS
  <2>1. CASE AddMissingGerman \/ AddMissingEnglish
    <3>1. /\ UNCHANGED << export, stage, event_types, data_point_types, used >>
          /\ \E id : value_types' = [value_types EXCEPT ![next].enum_replace_value = id]
      BY <2>1 DEF AddMissingGerman, AddMissingEnglish
    <3>2. ValueTypesKept'
      BY <3>1, ReplaceText DEF BordersInv
    <3> QED BY <3>1, <3>2, BordersKeep
  <2>2. CASE CleanEventTypes
    BY <2>2, CleanStep
  <2>3. CASE ExtendDevice
    <3>1. /\ UNCHANGED << export, stage, value_types, event_types, used >>
          /\ stage = "extend"
          /\ data_point_types' = [data_point_types EXCEPT
                                    ![Extension.id][Extension.field] = Extended(Extension, @)]
      BY <2>3 DEF ExtendDevice
    <3>2. \A id \in DOMAIN data_point_types :
            DOMAIN data_point_types'[id] = DOMAIN data_point_types[id]
      BY <3>1
    <3>3. DOMAIN data_point_types' = DOMAIN data_point_types
      BY <3>1
    <3>4. DevicesLinked'
      BY <3>1, <3>2, <3>3 DEF BordersInv, DevicesLinked
    <3> QED BY <3>1, <3>4
            DEF BordersInv, ValueTypesKept, EventTypesCover, CoversLinked, BordersCover
  <2>4. CASE ExtendEventType
    BY <2>4, ExtendStep
  <2>5. CASE FilterEventTypes
    BY <2>5, FilterStep
  <2>6. CASE FilterDataPointTypes
    BY <2>6, FilterDevicesStep
  <2>7. CASE Use
    BY <2>7, UseCovers
  <2>8. CASE /\ UNCHANGED << export, value_types, event_types, data_point_types >>
             /\ \/ stage' = stage \/ stage' \in {"german", "english", "built", "panic"}
                \/ (stage = "texts" /\ stage' = "tables")
             /\ stage' = "written" => UNCHANGED used
    <3>1. ValueTypesKept'
      BY <2>8 DEF BordersInv, ValueTypesKept
    <3> QED BY <2>8, <3>1, BordersKeep
  <2> QED BY <2>1, <2>2, <2>3, <2>4, <2>5, <2>6, <2>7, <2>8
          DEF Next, CleanTranslations, InvalidValueTypes, UnnamedValue, Unlinked, PassExtension,
              UnhandledExtension, UnsupportedBlocks, UnknownConversion, NumberTexts, CollectTables,
              UnknownText, NumberTables, Unusable, Panic, ReleaseNext, ReleaseVars, vars, Generate,
              Build, BuildFails, Connect, Detect
<1> QED BY <1>1, <1>2, PTL DEF ReleaseSpec, ReleaseVars

\* Whatever the tables are, the borders of a command admit every value that one of
\* its value types admits.
THEOREM BordersAreWide == ReleaseSpec => []BordersCover
<1>1. BordersInv => BordersCover
  BY DEF BordersInv
<1> QED BY <1>1, BordersInvariance, PTL

-----------------------------------------------------------------------------
(* The buffer of a telegram *)

\* The blocks of what is there at each stage have lengths, and the program has the
\* commands of the files and the longest length of them.
LengthsInv ==
  /\ export \in Exports
  /\ stage = "extend" => next \in Nat \ {0}
  /\ stage \in {"extend", "devices", "texts", "tables"} =>
       /\ IsFiniteSet(DOMAIN event_types)
       /\ \A id \in DOMAIN event_types : IsLength(event_types[id].block_length)
  /\ stage \in {"written", "built"} =>
       /\ IsFiniteSet(DOMAIN used.event_types)
       /\ \A c \in Range(used.event_types) \cup Range(used.system_event_types) :
            IsLength(c.block_len)
  /\ stage = "built" =>
       /\ ~Refused(used)
       /\ program.commands = used.event_types
       /\ program.system_commands = used.system_event_types
       /\ program.max_payload_len = MaxPayloadLen(used)

\* What the generator assumes of the lengths in an export.
LEMMA ProperLengths ==
  ASSUME export \in Exports
  PROVE  /\ IsFiniteSet(DOMAIN export.event_types)
         /\ \A i \in Nat \ {0} :
              i <= Len(export.extension_values) /\ export.extension_values[i].field = "block_length"
                => export.extension_values[i].value \in Nat
         /\ \A id \in DOMAIN export.system_event_types :
              IsLength(export.system_event_types[id].block_length)
<1>1. /\ export.extension_values \in Seq(Range(export.extension_values))
      /\ IsFiniteSet(DOMAIN export.event_types)
      /\ \A x \in Range(export.extension_values) : x.field = "block_length" => x.value \in Nat
      /\ \A c \in Range(export.system_event_types) : IsLength(c.block_length)
  BY ExportAssumption
<1>2. /\ DOMAIN export.extension_values = 1..Len(export.extension_values)
      /\ Len(export.extension_values) \in Nat
  BY <1>1, LenProperties
<1>3. ASSUME NEW i \in Nat \ {0}, i <= Len(export.extension_values)
      PROVE  export.extension_values[i] \in Range(export.extension_values)
  BY <1>2, <1>3 DEF Range
<1> QED BY <1>1, <1>3 DEF Range

\* The event types are made without lengths.
LEMMA CleanLengths ==
  ASSUME LengthsInv, CleanEventTypes
  PROVE  LengthsInv'
<1>1. /\ stage' = "extend" /\ next' = 1 /\ UNCHANGED << export, used >>
      /\ event_types' = [id \in DOMAIN export.event_types |->
                           CleanEventType(export.event_types[id])]
  BY DEF CleanEventTypes
<1>2. \A e : CleanEventType(e).block_length = << >>
  BY DEF CleanEventType, NoEventTypeFields
<1>3. \A id \in DOMAIN event_types' : event_types'[id].block_length = << >>
  BY <1>1, <1>2
<1>4. IsFiniteSet(DOMAIN event_types')
  BY <1>1, ProperLengths DEF LengthsInv
<1> QED BY <1>1, <1>3, <1>4 DEF LengthsInv, IsLength

\* A table extension sets a length to a number.
LEMMA ExtendLengths ==
  ASSUME BordersInv, LengthsInv, ExtendEventType
  PROVE  LengthsInv'
<1>1. /\ stage = "extend" /\ UNCHANGED << export, stage, used >> /\ next' = next + 1
      /\ next <= Len(export.extension_values)
      /\ Extension.field \in EventTypeFields
      /\ event_types' =
           [event_types EXCEPT ![Extension.id][Extension.field] = Extended(Extension, @)]
  BY DEF ExtendEventType
<1>2. Extension.field = "block_length" => Extension.value \in Nat
  BY <1>1, ProperLengths DEF LengthsInv, Extension
<1>3. "block_length" \in DOMAIN NoEventTypeFields
  BY DEF NoEventTypeFields
<1>4. DOMAIN event_types' = DOMAIN event_types
  BY <1>1
<1>5. ASSUME Extension.field = "block_length", NEW old
      PROVE  Extended(Extension, old) = << Extension.value >>
  BY <1>5 DEF Extended, DeviceFields
<1>6. ASSUME NEW id \in DOMAIN event_types
      PROVE  IsLength(event_types'[id].block_length)
  <2>1. DOMAIN event_types[id] = DOMAIN NoEventTypeFields /\ IsLength(event_types[id].block_length)
    BY <1>1 DEF BordersInv, EventTypesCover, LengthsInv
  <2>2. \/ event_types'[id] = event_types[id]
        \/ event_types'[id] = [event_types[id] EXCEPT ![Extension.field] = Extended(Extension, @)]
    BY <1>1
  <2>3. \/ event_types'[id].block_length = event_types[id].block_length
        \/ /\ Extension.field = "block_length"
           /\ event_types'[id].block_length = Extended(Extension, event_types[id].block_length)
    <3> DEFINE e == event_types[id]
    <3>1. "block_length" \in DOMAIN e
      BY <1>3, <2>1
    <3> QED BY <2>2, <3>1
  <2> QED BY <1>2, <1>5, <2>1, <2>3 DEF IsLength
<1>7. next' \in Nat \ {0}
  BY <1>1 DEF LengthsInv
<1> QED BY <1>1, <1>4, <1>6, <1>7 DEF LengthsInv

\* The filter leaves the lengths alone.
LEMMA FilterLengths ==
  ASSUME BordersInv, LengthsInv, FilterEventTypes
  PROVE  LengthsInv'
<1>1. /\ stage = "extend" /\ stage' = "devices" /\ UNCHANGED << export, used >>
      /\ event_types' = [id \in Supported |-> Kept(event_types[id])]
  BY DEF FilterEventTypes
<1>2. Supported \subseteq DOMAIN event_types
  BY DEF Supported
<1>3. IsFiniteSet(DOMAIN event_types')
  <2>1. DOMAIN event_types' = Supported
    BY <1>1
  <2> QED BY <1>1, <1>2, <2>1, FS_Subset DEF LengthsInv
<1>4. ASSUME NEW id \in DOMAIN event_types'
      PROVE  IsLength(event_types'[id].block_length)
  <2>1. id \in DOMAIN event_types /\ event_types'[id] = Kept(event_types[id])
    BY <1>1, <1>2
  <2>2. IsLength(event_types[id].block_length)
    BY <1>1, <2>1 DEF LengthsInv
  <2>3. DOMAIN event_types[id] = DOMAIN NoEventTypeFields
    BY <1>1, <2>1 DEF BordersInv, EventTypesCover
  <2>4. \E c, b : event_types'[id] = [event_types[id] EXCEPT !.conversion = c, !.block_factor = b]
    BY <2>1 DEF Kept
  <2>5. event_types'[id].block_length = event_types[id].block_length
    BY <2>3, <2>4 DEF NoEventTypeFields
  <2> QED BY <2>2, <2>5
<1> QED BY <1>1, <1>3, <1>4 DEF LengthsInv

\* The commands have the lengths of the event types.
LEMMA UseLengths ==
  ASSUME BordersInv, LengthsInv, Use
  PROVE  LengthsInv'
<1> DEFINE system == system_event_types_cleaned
<1>1. /\ stage = "tables" /\ stage' = "written" /\ UNCHANGED export
      /\ used'.event_types = [id \in CommandIds |-> from_event_type(event_types[id])]
      /\ used'.system_event_types = [id \in DOMAIN system |-> from_event_type(system[id])]
  BY DEF Use
<1>2. CommandIds \subseteq DOMAIN event_types
  <2>1. \A name \in DOMAIN devices_used :
          /\ name \in DOMAIN data_point_types
          /\ devices_used[name].commands = data_point_types[name].event_types
    BY DEF devices_used, devices_cleaned
  <2>2. \A name \in DOMAIN data_point_types :
          data_point_types[name].event_types \subseteq DOMAIN event_types
    BY <1>1 DEF BordersInv, DevicesLinked
  <2> HIDE DEF devices_used
  <2> QED BY <2>1, <2>2 DEF CommandIds
<1>3. \A e : from_event_type(e).block_len = e.block_length
  BY DEF from_event_type
<1>4. IsFiniteSet(DOMAIN used'.event_types)
  <2>1. DOMAIN used'.event_types = CommandIds
    BY <1>1
  <2> QED BY <1>1, <1>2, <2>1, FS_Subset DEF LengthsInv
<1>5. \A id \in DOMAIN event_types : IsLength(event_types[id].block_length)
  BY <1>1 DEF LengthsInv
<1>6. \A c \in Range(used'.event_types) : IsLength(c.block_len)
  <2>1. \A id \in DOMAIN used'.event_types : IsLength(used'.event_types[id].block_len)
    BY <1>1, <1>2, <1>3, <1>5
  <2> QED BY <2>1 DEF Range
<1>7. ASSUME NEW id \in DOMAIN system
      PROVE  IsLength(system[id].block_length)
  <2>1. /\ id \in DOMAIN export.system_event_types
        /\ system[id].block_length = export.system_event_types[id].block_length
    BY DEF system_event_types_cleaned, SystemIds, NoEventTypeFields
  <2> QED BY <2>1, ProperLengths DEF LengthsInv
<1>8. \A c \in Range(used'.system_event_types) : IsLength(c.block_len)
  <2> HIDE DEF system
  <2> QED BY <1>1, <1>3, <1>7 DEF Range
<1> QED BY <1>1, <1>4, <1>6, <1>8 DEF LengthsInv

\* The other steps leave the event types alone.
LEMMA LengthsKeep ==
  ASSUME LengthsInv, UNCHANGED << export, event_types >>,
         \/ stage' = stage /\ UNCHANGED << used, program >> /\ next' \in {next, next + 1}
         \/ stage' \in {"german", "english", "panic"}
         \/ (stage = "devices" /\ stage' = "texts")
         \/ (stage = "texts" /\ stage' = "tables")
  PROVE  LengthsInv'
  BY DEF LengthsInv

\* The invariant holds in every state.
LEMMA LengthsInvariance == ReleaseSpec => []LengthsInv
<1>1. ReleaseInit => LengthsInv
  BY DEF ReleaseInit, Init, LengthsInv
<1>2. BordersInv /\ LengthsInv /\ [ReleaseNext]_ReleaseVars => LengthsInv'
  <2> SUFFICES ASSUME BordersInv, LengthsInv, [ReleaseNext]_ReleaseVars
               PROVE  LengthsInv'
    OBVIOUS
  <2>1. CASE CleanEventTypes
    BY <2>1, CleanLengths
  <2>2. CASE ExtendEventType
    BY <2>2, ExtendLengths
  <2>3. CASE FilterEventTypes
    BY <2>3, FilterLengths
  <2>4. CASE Use
    BY <2>4, UseLengths
  <2>5. CASE Build
    <3>1. /\ stage = "written" /\ stage' = "built" /\ ~Refused(used)
          /\ UNCHANGED << export, used >>
          /\ program'.commands = used.event_types
          /\ program'.system_commands = used.system_event_types
          /\ program'.max_payload_len = MaxPayloadLen(used)
      BY <2>5 DEF Build
    <3> QED BY <3>1 DEF LengthsInv
  <2>6. CASE /\ UNCHANGED << export, event_types >>
             /\ \/ stage' = stage /\ UNCHANGED << used, program >> /\ next' \in {next, next + 1}
                \/ stage' \in {"german", "english", "panic"}
                \/ (stage = "devices" /\ stage' = "texts")
                \/ (stage = "texts" /\ stage' = "tables")
    BY <2>6, LengthsKeep
  <2> QED BY <2>1, <2>2, <2>3, <2>4, <2>5, <2>6
          DEF Next, AddMissingGerman, CleanTranslations, AddMissingEnglish, InvalidValueTypes,
              UnnamedValue, Unlinked, ExtendDevice, PassExtension, UnhandledExtension,
              UnsupportedBlocks, UnknownConversion, FilterDataPointTypes, NumberTexts, CollectTables,
              UnknownText, NumberTables, Unusable, Panic, ReleaseNext, ReleaseVars, vars, Generate,
              BuildFails, Connect, Detect
<1> QED BY <1>1, <1>2, BordersInvariance, PTL DEF ReleaseSpec, ReleaseVars

\* The longest of the commands is one of them, and there is none if it is zero.
LEMMA LongestCommand ==
  ASSUME LengthsInv, stage = "built"
  PROVE  LET max == MaxPayloadLen(used)
             lens == {c.block_len[1] : c \in Range(used.event_types)} \cup {0}
         IN /\ lens \in SUBSET Nat /\ max \in lens /\ \A n \in lens : n <= max
<1> DEFINE commands == used.event_types
           lens == {c.block_len[1] : c \in Range(commands)} \cup {0}
<1>1. \A c \in Range(commands) : c.block_len[1] \in Nat
  BY DEF LengthsInv, Refused, IsLength
<1>2. lens \in SUBSET Nat /\ lens # {}
  BY <1>1
<1>3. IsFiniteSet(lens)
  <2> DEFINE lengths == {commands[id].block_len[1] : id \in DOMAIN commands}
             f == [id \in DOMAIN commands |-> commands[id].block_len[1]]
  <2>1. IsFiniteSet(lengths)
    <3>1. IsFiniteSet(DOMAIN commands)
      BY DEF LengthsInv
    <3>2. f \in Surjection(DOMAIN commands, lengths)
      BY DEF Surjection
    <3> HIDE DEF commands, lengths, f
    <3> QED BY <3>1, <3>2, FS_Surjection
  <2>2. lens = lengths \cup {0}
    BY DEF Range
  <2> HIDE DEF lens, lengths
  <2> QED BY <2>1, <2>2, FS_AddElement
<1>4. MaxPayloadLen(used) = Max(lens)
  BY DEF MaxPayloadLen
<1> HIDE DEF lens
<1> QED BY <1>2, <1>3, <1>4, GreatestNumber DEF lens

\* What any command asks for fits into the buffer of a telegram, whatever the tables
\* are, if and only if no system command asks for more than all of the devices do.
THEOREM BufferSuffices ==
  ReleaseSpec => [](PayloadFits <=> (stage = "built" => SystemCommandsFit))
<1>1. LengthsInv => (PayloadFits <=> (stage = "built" => SystemCommandsFit))
  <2> SUFFICES ASSUME LengthsInv, stage = "built"
               PROVE  PayloadFits <=> SystemCommandsFit
    BY DEF PayloadFits
  <2> DEFINE max == MaxPayloadLen(used)
             lens == {c.block_len[1] : c \in Range(used.event_types)} \cup {0}
  <2>1. lens \in SUBSET Nat /\ max \in lens /\ \A n \in lens : n <= max
    BY LongestCommand
  <2>2. \A s \in Range(used.event_types) \cup Range(used.system_event_types) :
          s.block_len # << >> /\ s.block_len[1] \in Nat
    BY DEF LengthsInv, Refused, IsLength
  <2>3. PayloadFits <=> \A s \in Range(used.event_types) \cup Range(used.system_event_types) :
                          s.block_len[1] <= max
    BY <2>2 DEF PayloadFits, LengthsInv
  <2>4. \A c \in Range(used.event_types) : c.block_len[1] \in lens
    OBVIOUS
  <2>5. max = 0 \/ \E c \in Range(used.event_types) : max = c.block_len[1]
    BY <2>1
  <2> HIDE DEF max, lens
  <2>6. PayloadFits <=> \A s \in Range(used.system_event_types) : s.block_len[1] <= max
    BY <2>1, <2>3, <2>4
  <2>7. ASSUME NEW s \in Range(used.system_event_types)
        PROVE  s.block_len[1] <= max <=>
                 \/ s.block_len[1] = 0
                 \/ \E c \in Range(used.event_types) : s.block_len[1] <= c.block_len[1]
    BY <2>1, <2>2, <2>4, <2>5
  <2> QED BY <2>6, <2>7 DEF SystemCommandsFit
<1> QED BY <1>1, LengthsInvariance, PTL

-----------------------------------------------------------------------------
(* Error texts *)

\* The proofs of UniqueMapping, whatever the locals of create are.
Numbers == INSTANCE UniqueMapping_proofs WITH Maps <- {}, create <- texts

Labels == DOMAIN export.texts
IsError(l) == l.words \in ErrorGroups(export)

\* A value type without an error in its texts.
NoError(v) ==
  /\ IsString(v.enum_replace_value) /\ ~IsError(v.enum_replace_value)
  /\ IsString(v.description) /\ ~IsError(v.description)

\* What the generator assumes of the errors of an export.
LEMMA ProperErrors ==
  ASSUME export \in Exports
  PROVE  /\ DOMAIN export.labels = 1..Len(export.labels) /\ Len(export.labels) \in Nat
         /\ Labels = {export.labels[i] : i \in 1..Len(export.labels)}
         /\ \A l \in Labels :
              /\ IsString(l) /\ l.at = FALSE
              /\ IsError(l) => l.index # NoIndex /\ l \notin DOMAIN TranslationFixes
         /\ \A l \in DOMAIN TranslationFixes : ~IsError(TranslationFixes[l])
         /\ DOMAIN export.value_types = 1..Len(export.value_types)
         /\ \A i \in 1..Len(export.value_types) :
              /\ {"enum_replace_value", "description"} \subseteq DOMAIN export.value_types[i]
              /\ NoError(export.value_types[i])
         /\ \A id \in DOMAIN export.event_types :
              clean_event_type_name(export.event_types[id].name) \notin ErrorGroups(export)
<1>1. /\ export.value_types \in Seq(Range(export.value_types))
      /\ export.labels \in Seq(Range(export.labels)) /\ Labels = Range(export.labels)
      /\ \A l \in Labels : IsString(l) /\ l.at = FALSE
  BY ExportAssumption DEF Labels
<1>2. \A i \in DOMAIN export.value_types :
        /\ {"enum_replace_value", "description"} \subseteq DOMAIN export.value_types[i]
        /\ IsString(export.value_types[i].enum_replace_value)
        /\ IsString(export.value_types[i].description)
  BY ExportAssumption
<1>3. /\ \A l \in Labels :
           IsError(l) => l.index # NoIndex /\ l \notin DOMAIN TranslationFixes
      /\ \A l \in DOMAIN TranslationFixes : ~IsError(TranslationFixes[l])
      /\ \A i \in DOMAIN export.value_types :
           /\ ~IsError(export.value_types[i].enum_replace_value)
           /\ ~IsError(export.value_types[i].description)
      /\ \A id \in DOMAIN export.event_types :
           clean_event_type_name(export.event_types[id].name) \notin ErrorGroups(export)
  BY ErrorLabelAssumption DEF Labels, IsError
<1>4. /\ DOMAIN export.labels = 1..Len(export.labels) /\ Len(export.labels) \in Nat
      /\ DOMAIN export.value_types = 1..Len(export.value_types)
  BY <1>1, LenProperties
<1>5. Labels = {export.labels[i] : i \in 1..Len(export.labels)}
  BY <1>1, <1>4 DEF Range
<1> QED BY <1>1, <1>2, <1>3, <1>4, <1>5 DEF NoError

\* What a string with another beginning is.
LEMMA OtherAt ==
  ASSUME NEW s, IsString(s), NEW at
  PROVE  [s EXCEPT !.at = at] = [at |-> at, words |-> s.words, index |-> s.index]
<1>1. ASSUME NEW a, NEW w, NEW i
      PROVE  [[at |-> a, words |-> w, index |-> i] EXCEPT !.at = at]
               = [at |-> at, words |-> w, index |-> i]
  OBVIOUS
<1>2. PICK a, w, i : s = [at |-> a, words |-> w, index |-> i]
  BY DEF IsString
<1> QED BY <1>1, <1>2

\* The text of an id without its @@ is a label with the same words.
LEMMA Stripped ==
  ASSUME NEW s, IsString(s)
  PROVE  /\ StripAt(s) = Str(s.words, s.index) /\ StripAt(s).words = s.words
         /\ IsString(WithAt(s)) /\ WithAt(s).words = s.words
         /\ StripAt(WithAt(s)) = Str(s.words, s.index)
<1>1. StripAt(s) = [at |-> FALSE, words |-> s.words, index |-> s.index]
  BY OtherAt, Zenon DEF StripAt
<1>2. WithAt(s) = [at |-> TRUE, words |-> s.words, index |-> s.index]
  BY OtherAt, Zenon DEF WithAt
<1>3. StripAt(s) = Str(s.words, s.index)
  BY <1>1, Zenon DEF Str
<1>4. ASSUME NEW a \in BOOLEAN
      PROVE  LET r == [at |-> a, words |-> s.words, index |-> s.index]
             IN IsString(r) /\ r.words = s.words /\ r.index = s.index
  BY DEF IsString
<1>5. StripAt(s).words = s.words /\ IsString(WithAt(s))
      /\ WithAt(s).words = s.words /\ WithAt(s).index = s.index
  BY <1>1, <1>2, <1>4, Zenon
<1>6. StripAt(WithAt(s)) = [at |-> FALSE, words |-> WithAt(s).words, index |-> WithAt(s).index]
  BY <1>5, OtherAt, Zenon DEF StripAt
<1>7. StripAt(WithAt(s)) = Str(s.words, s.index)
  BY <1>5, <1>6, Zenon DEF Str
<1> QED BY <1>3, <1>5, <1>7

\* A label is what its words and its index make.
LEMMA LabelIs ==
  ASSUME export \in Exports, NEW l \in Labels
  PROVE  l = Str(l.words, l.index)
<1>1. IsString(l) /\ l.at = FALSE
  BY ProperErrors
<1> QED BY <1>1 DEF IsString, Str

\* An id whose label, if it is that of an error, is the vendor's.
NoNewError(id) == IsString(id) /\ (IsError(id) => StripAt(id) \in Labels)

\* The error texts that are known are the vendor's.
ErrorsKnown(known) == \A l \in DOMAIN known : IsError(l) => l \in Labels

\* A description leads to no new error.
LEMMA DescribedNoError ==
  ASSUME export \in Exports, NEW known, ErrorsKnown(known), NEW id,
         NEW description, IsString(description), ~IsError(description),
         parse_description(clean_enum_text(id, description), known) # << >>
  PROVE  NoNewError(parse_description(clean_enum_text(id, description), known)[1])
<1> DEFINE text == clean_enum_text(id, description)
           described == [text EXCEPT !.words = "viessmann.eventtype." \o @ \o ".description"]
           same == {i \in DOMAIN export.labels :
                      translations_raw[export.labels[i]].de = text}
           result == parse_description(text, known)
<1>1. text = EmptyText \/ (IsString(text) /\ ~IsError(text))
  <2> DEFINE bare == IF description.index = id.index /\ ~description.at
                     THEN [description EXCEPT !.index = NoIndex] ELSE description
  <2>1. IsString(bare) /\ bare.words = description.words
    BY DEF IsString
  <2>2. text \in {description, bare, EmptyText}
    <3> HIDE DEF bare
    <3> QED BY DEF clean_enum_text, bare
  <2> HIDE DEF bare, text
  <2> QED BY <2>1, <2>2 DEF IsError
<1>2. /\ text # EmptyText
      /\ \/ result = << text >>
         \/ same # {} /\ result = << WithAt(export.labels[Max(same)]) >>
         \/ result = << WithAt(text) >>
         \/ described \in DOMAIN known /\ result = << WithAt(described) >>
  <2> HIDE DEF text, described
  <2> QED BY DEF parse_description, reverse_translations_raw, text, described
<1> HIDE DEF text, result
<1>3. IsString(text) /\ ~IsError(text)
  BY <1>1, <1>2
<1>4. CASE result = << text >>
  BY <1>3, <1>4 DEF NoNewError, text, result
<1>5. CASE same # {} /\ result = << WithAt(export.labels[Max(same)]) >>
  <2>1. same \in SUBSET Nat /\ IsFiniteSet(same) /\ same \subseteq 1..Len(export.labels)
    <3>1. DOMAIN export.labels = 1..Len(export.labels) /\ Len(export.labels) \in Nat
      BY ProperErrors
    <3>2. same \subseteq 1..Len(export.labels)
      BY <3>1
    <3>3. IsFiniteSet(1..Len(export.labels))
      BY <3>1, FS_Interval
    <3> HIDE DEF same
    <3>4. IsFiniteSet(same)
      BY <3>2, <3>3, FS_Subset
    <3>5. same \in SUBSET Nat
      BY <3>1, <3>2
    <3> QED BY <3>2, <3>4, <3>5
  <2> HIDE DEF same
  <2>2. Max(same) \in same
    BY <1>5, <2>1, GreatestNumber
  <2>3. export.labels[Max(same)] \in Labels
    BY <2>1, <2>2, ProperErrors
  <2> DEFINE l == export.labels[Max(same)]
  <2>4. IsString(l) /\ l = Str(l.words, l.index) /\ l \in Labels
    BY <2>3, LabelIs, ProperErrors
  <2> HIDE DEF l
  <2>5. NoNewError(WithAt(l))
    BY <2>4, Stripped DEF NoNewError
  <2> QED BY <1>5, <2>5 DEF l, text, result
<1>6. CASE result = << WithAt(text) >>
  <2>1. IsString(WithAt(text)) /\ WithAt(text).words = text.words
    BY <1>3, Stripped
  <2>2. NoNewError(WithAt(text))
    BY <1>3, <2>1 DEF NoNewError, IsError
  <2> QED BY <1>6, <2>2 DEF text, result
<1>7. CASE described \in DOMAIN known /\ result = << WithAt(described) >>
  <2>1. IsString(described)
    <3>1. ASSUME NEW a, NEW w, NEW i, NEW u
          PROVE  [[at |-> a, words |-> w, index |-> i] EXCEPT !.words = u]
                   = [at |-> a, words |-> u, index |-> i]
      OBVIOUS
    <3>2. PICK a, w, i : text = [at |-> a, words |-> w, index |-> i] /\ a \in BOOLEAN
      BY <1>3 DEF IsString
    <3>3. \E u : described = [text EXCEPT !.words = u]
      OBVIOUS
    <3> HIDE DEF described
    <3>4. \E u : described = [at |-> a, words |-> u, index |-> i]
      BY <3>1, <3>2, <3>3
    <3> QED BY <3>2, <3>4 DEF IsString
  <2> HIDE DEF described
  <2>2. IsString(WithAt(described)) /\ WithAt(described).words = described.words
        /\ StripAt(WithAt(described)) = Str(described.words, described.index)
    BY <2>1, Stripped
  <2>3. IsError(described) =>
          described \in Labels /\ described = Str(described.words, described.index)
    BY <1>7, LabelIs DEF ErrorsKnown
  <2>4. NoNewError(WithAt(described))
    BY <2>2, <2>3 DEF NoNewError, IsError
  <2> QED BY <1>7, <2>4 DEF text, result
<1> QED BY <1>2, <1>4, <1>5, <1>6, <1>7

\* Nor does what is added for a value.
LEMMA AddedNoError ==
  ASSUME export \in Exports, NEW known, ErrorsKnown(known),
         NEW v, NoNewError(v.enum_replace_value), IsString(v.description), ~IsError(v.description)
  PROVE  /\ ErrorsKnown(Added(v, known).known)
         /\ NoNewError(Added(v, known).id)
<1> DEFINE id == v.enum_replace_value
           described == parse_description(clean_enum_text(id, v.description), known)
           new == Added(v, known)
<1>1. \/ new.known = known
      \/ \E text : new.known = WithText(known, id, text)
  BY DEF Added
<1>2. new.id = id \/ (described # << >> /\ new.id = described[1])
  <2> HIDE DEF described, id
  <2> QED BY DEF Added, described, id
<1>3. described # << >> => NoNewError(described[1])
  BY DescribedNoError
<1>4. \A text : ErrorsKnown(WithText(known, id, text))
  <2>1. StripAt(id).words = id.words
    BY Stripped DEF NoNewError
  <2>2. IsError(StripAt(id)) => StripAt(id) \in Labels
    BY <2>1 DEF NoNewError, IsError
  <2> QED BY <2>2 DEF WithText, ErrorsKnown
<1> HIDE DEF new, described
<1> QED BY <1>1, <1>2, <1>3, <1>4 DEF new

\* The ids of the values and their descriptions, while there are texts to be added.
ValuesInv ==
  stage \in {"german", "english"} =>
    /\ next \in Nat \ {0}
    /\ \A i \in 1..Len(value_types) :
         LET v == value_types[i]
         IN /\ {"enum_replace_value", "description"} \subseteq DOMAIN v
            /\ NoNewError(v.enum_replace_value)
            /\ IsString(v.description) /\ ~IsError(v.description)

\* The English text of an error.
ErrorText(l) == canonicalize_translation_text(translations_raw[l].en)

\* The translations have the vendor's errors only, and from CleanTranslations on all
\* of them, with his texts.
TextsInv ==
  /\ stage = "german" => ErrorsKnown(translations)
  /\ stage # "german" => ErrorsKnown(translations_cleaned)
  /\ stage # "german" =>
       \A l \in Labels : IsError(l) =>
         l \in DOMAIN translations_cleaned /\ translations_cleaned[l] = ErrorText(l)

\* The names that the groups of errors are made of, and those that are none.
NamesInv ==
  /\ stage \in {"extend", "devices", "texts", "tables"} =>
       \A id \in DOMAIN event_types : event_types[id].type_id \notin ErrorGroups(export)
  /\ stage \in {"extend", "devices"} =>
       \A id \in DOMAIN data_point_types :
         /\ "address" \in DOMAIN data_point_types[id]
         /\ DeviceErrorCode(data_point_types[id].address) \in ErrorGroups(export)
  /\ stage \in {"texts", "tables"} =>
       \A name \in DOMAIN data_point_types : DeviceErrorCode(name) \in ErrorGroups(export)

\* The texts and the tables get their numbers.
Numbering(c) == Numbers!Split(c) /\ Numbers!Numbered(c) /\ Numbers!Shared(c)

NumbersInv ==
  /\ stage \in {"texts", "tables"} => Numbering(texts) /\ texts.map = translations_cleaned
  /\ stage = "tables" => texts.reversed = {} /\ Numbering(tables) /\ tables.map = all_mappings

\* The labels of the errors of the device, see ErrorsMeanDevice.
ErrorLabels(name) ==
  LET own == {l \in Labels : l.words = DeviceErrorCode(name)}
  IN IF own # {} THEN own ELSE {l \in Labels : l.words = ErrorCode}

\* The files have the errors of each device.
UsedErrors ==
  stage = "written" =>
    \A name \in DOMAIN used.devices :
      LET k == used.devices[name].error_mapping
      IN /\ k \in DOMAIN used.mappings
         /\ DOMAIN used.mappings[k] = {l.index : l \in ErrorLabels(name)}
         /\ \A l \in ErrorLabels(name) :
              used.translations[used.mappings[k][l.index]] = ErrorText(l)

ErrorsInv ==
  ValuesInv /\ TextsInv /\ NamesInv /\ NumbersInv /\ UsedErrors /\ ErrorsMeanDevice

\* A round of create keeps what it was given, and its invariant.
LEMMA NumberKeeps ==
  ASSUME NEW c, Numbering(c), NEW value \in c.reversed
  PROVE  Numbering(Numbers!Round(c, value)) /\ Numbers!Round(c, value).map = c.map
BY Numbers!RoundKeeps DEF Numbering, Numbers!Round

\* Every key leads to its value, when create has ended.
LEMMA NumbersLead ==
  ASSUME NEW c, Numbering(c), c.reversed = {}
  PROVE  /\ DOMAIN c.mapping = DOMAIN c.map
         /\ \A k \in DOMAIN c.map : c.combined[c.mapping[k]] = c.map[k]
BY DEF Numbering, Numbers!Split, Numbers!Numbered

\* One more text is added.
LEMMA AddStep ==
  ASSUME BordersInv, ErrorsInv, AddMissingGerman \/ AddMissingEnglish
  PROVE  ErrorsInv'
<1> DEFINE v == value_types[next]
<1>1. PICK known : LET added == Added(v, known)
                   IN /\ stage \in {"german", "english"} /\ stage' = stage
                      /\ next <= Len(value_types) /\ next' = next + 1
                      /\ UNCHANGED export
                      /\ value_types' = [value_types EXCEPT ![next].enum_replace_value = added.id]
                      /\ \/ /\ stage = "german" /\ known = translations
                            /\ translations' = added.known
                         \/ /\ stage = "english" /\ known = translations_cleaned
                            /\ translations_cleaned' = added.known
  <2>1. CASE AddMissingGerman
    BY <2>1 DEF AddMissingGerman
  <2>2. CASE AddMissingEnglish
    BY <2>2 DEF AddMissingEnglish
  <2> QED BY <2>1, <2>2
<1> DEFINE added == Added(v, known)
<1>2. export \in Exports /\ ErrorsKnown(known)
  BY <1>1 DEF BordersInv, ValueTypesKept, ErrorsInv, TextsInv
<1>3. /\ Len(value_types) \in Nat /\ DOMAIN value_types = 1..Len(value_types)
      /\ Len(value_types') = Len(value_types)
  BY <1>1, LenProperties, ReplaceText DEF BordersInv, ValueTypesKept
<1>4. next \in 1..Len(value_types) /\ next' \in Nat \ {0}
  BY <1>1, <1>3 DEF ErrorsInv, ValuesInv
<1>5. /\ {"enum_replace_value", "description"} \subseteq DOMAIN v
      /\ NoNewError(v.enum_replace_value) /\ IsString(v.description) /\ ~IsError(v.description)
  BY <1>1, <1>4 DEF ErrorsInv, ValuesInv
<1>6. ErrorsKnown(added.known) /\ NoNewError(added.id)
  BY <1>2, <1>5, AddedNoError
<1>7. \A l \in DOMAIN known : l \in DOMAIN added.known /\ added.known[l] = known[l]
  BY AddedKeeps
<1>8. value_types' = [value_types EXCEPT ![next].enum_replace_value = added.id]
  BY <1>1
<1> HIDE DEF added, v
<1>9. ASSUME NEW i \in 1..Len(value_types)
      PROVE  LET w == value_types'[i]
             IN /\ {"enum_replace_value", "description"} \subseteq DOMAIN w
                /\ NoNewError(w.enum_replace_value)
                /\ IsString(w.description) /\ ~IsError(w.description)
  <2>1. CASE i = next
    <3>1. value_types'[i] = [v EXCEPT !.enum_replace_value = added.id]
      BY <1>3, <1>8, <2>1 DEF v
    <3>2. /\ DOMAIN value_types'[i] = DOMAIN v /\ value_types'[i].enum_replace_value = added.id
          /\ value_types'[i].description = v.description
      BY <1>5, <3>1
    <3> QED BY <1>5, <1>6, <3>2
  <2>2. CASE i # next
    <3>1. value_types'[i] = value_types[i]
      BY <1>3, <1>8, <2>2
    <3> QED BY <1>1, <3>1 DEF ErrorsInv, ValuesInv
  <2> QED BY <2>1, <2>2
<1>10. ValuesInv'
  BY <1>1, <1>3, <1>4, <1>9 DEF ValuesInv, NoNewError, IsError, Labels
<1>11. TextsInv'
  <2>1. CASE stage = "german" /\ known = translations /\ translations' = added.known
    BY <1>1, <1>6, <2>1 DEF TextsInv, ErrorsKnown, IsError, Labels, added
  <2>2. CASE /\ stage = "english" /\ known = translations_cleaned
             /\ translations_cleaned' = added.known
    <3>1. ErrorsKnown(translations_cleaned)'
      BY <1>1, <1>6, <2>2 DEF ErrorsKnown, IsError, Labels
    <3>2. \A l \in Labels : IsError(l) =>
            l \in DOMAIN translations_cleaned /\ translations_cleaned[l] = ErrorText(l)
      BY <2>2 DEF ErrorsInv, TextsInv
    <3>3. \A l \in Labels : IsError(l) =>
            l \in DOMAIN translations_cleaned' /\ translations_cleaned'[l] = ErrorText(l)
      BY <1>7, <2>2, <3>2
    <3>4. Labels' = Labels /\ \A l : IsError(l)' <=> IsError(l)
      BY <1>1 DEF Labels, IsError
    <3>5. \A l : ErrorText(l)' = ErrorText(l)
      BY <1>1 DEF ErrorText, translations_raw
    <3> QED BY <1>1, <2>2, <3>1, <3>3, <3>4, <3>5 DEF TextsInv
  <2> QED BY <1>1, <2>1, <2>2 DEF added
<1>12. NamesInv' /\ NumbersInv' /\ UsedErrors' /\ ErrorsMeanDevice'
  BY <1>1 DEF NamesInv, NumbersInv, UsedErrors, ErrorsMeanDevice
<1> QED BY <1>10, <1>11, <1>12 DEF ErrorsInv

\* An error keeps its label and its text when the translations are cleaned, and none is new.
LEMMA CleanedErrors ==
  ASSUME BordersInv, CleanTranslations
  PROVE  TextsInv'
<1> DEFINE Same(id) == {i \in DOMAIN export.labels : translation_fixes(export.labels[i]) = id}
           LastOf(id) == export.labels[Max(Same(id))]
<1>1. /\ stage' = "english" /\ UNCHANGED export
      /\ translations_cleaned' = [id \in {translation_fixes(l) : l \in ToSet(export.labels)} |->
                                    ErrorText(LastOf(id))]
  BY DEF CleanTranslations, ErrorText
<1>2. /\ export \in Exports
      /\ DOMAIN export.labels = 1..Len(export.labels) /\ Len(export.labels) \in Nat
      /\ Labels = {export.labels[i] : i \in 1..Len(export.labels)}
  BY ProperErrors DEF BordersInv, ValueTypesKept
<1>3. ToSet(export.labels) = Labels
  BY <1>2 DEF ToSet
<1>4. \A l : IsError(translation_fixes(l)) => translation_fixes(l) = l
  BY <1>2, ProperErrors DEF translation_fixes, Lookup
<1>5. \A l \in Labels : IsError(l) => translation_fixes(l) = l
  BY <1>2, ProperErrors DEF translation_fixes, Lookup
<1>6. DOMAIN translations_cleaned' = {translation_fixes(l) : l \in Labels}
  BY <1>1, <1>3
<1>7. ASSUME NEW l \in Labels, IsError(l)
      PROVE  l \in DOMAIN translations_cleaned' /\ translations_cleaned'[l] = ErrorText(l)
  <2>1. l \in DOMAIN translations_cleaned'
    BY <1>5, <1>6, <1>7
  <2>2. Same(l) # {} /\ Same(l) \subseteq 1..Len(export.labels)
    BY <1>2, <1>5, <1>7
  <2>3. Max(Same(l)) \in Same(l)
    <3>1. Same(l) \in SUBSET Nat /\ IsFiniteSet(Same(l))
      <4>1. IsFiniteSet(1..Len(export.labels))
        BY <1>2, FS_Interval
      <4> HIDE DEF Same
      <4> QED BY <1>2, <2>2, <4>1, FS_Subset
    <3> HIDE DEF Same
    <3> QED BY <2>2, <3>1, GreatestNumber
  <2>4. translation_fixes(LastOf(l)) = l
    BY <2>3
  <2> HIDE DEF LastOf
  <2>5. LastOf(l) = l
    BY <1>4, <1>7, <2>4
  <2> QED BY <1>1, <1>3, <1>6, <2>1, <2>5
<1>8. \A l \in DOMAIN translations_cleaned' : IsError(l) => l \in Labels
  BY <1>4, <1>6
<1>9. Labels' = Labels /\ (\A l : IsError(l)' <=> IsError(l)) /\ \A l : ErrorText(l)' = ErrorText(l)
  BY <1>1 DEF Labels, IsError, ErrorText, translations_raw
<1> QED BY <1>1, <1>7, <1>8, <1>9 DEF TextsInv, ErrorsKnown

\* The event types are named after themselves.
LEMMA CleanedName ==
  ASSUME NEW e
  PROVE  CleanEventType(e).type_id = clean_event_type_name(e.name)
BY DEF CleanEventType, NoEventTypeFields

\* Event types are not named like errors, and devices have groups of errors.
LEMMA NamedStep ==
  ASSUME BordersInv, ErrorsInv, CleanEventTypes
  PROVE  NamesInv'
<1>1. /\ stage' = "extend" /\ UNCHANGED export
      /\ event_types' = [id \in DOMAIN export.event_types |->
                           CleanEventType(export.event_types[id])]
      /\ data_point_types' = [id \in DOMAIN export.data_point_types |->
                                CleanDataPointType(export.data_point_types[id])]
  BY DEF CleanEventTypes
<1>2. export \in Exports
  BY DEF BordersInv, ValueTypesKept
<1>3. ASSUME NEW id \in DOMAIN event_types'
      PROVE  event_types'[id].type_id \notin ErrorGroups(export)
  BY <1>1, <1>2, CleanedName, ProperErrors
<1>4. ASSUME NEW id \in DOMAIN data_point_types'
      PROVE  /\ "address" \in DOMAIN data_point_types'[id]
             /\ DeviceErrorCode(data_point_types'[id].address) \in ErrorGroups(export)
  BY <1>1 DEF CleanDataPointType, ErrorGroups
<1> QED BY <1>1, <1>3, <1>4 DEF NamesInv

\* A table extension changes no name.
LEMMA ExtendNames ==
  ASSUME BordersInv, ErrorsInv, ExtendDevice \/ ExtendEventType
  PROVE  NamesInv'
<1>1. stage = "extend" /\ stage' = stage /\ UNCHANGED export
  BY DEF ExtendDevice, ExtendEventType
<1>2. CASE ExtendDevice
  <2>1. /\ UNCHANGED event_types
        /\ data_point_types' =
             [data_point_types EXCEPT ![Extension.id][Extension.field] = Extended(Extension, @)]
        /\ Extension.field \in DeviceFields
    BY <1>2 DEF ExtendDevice
  <2>2. "address" \notin DeviceFields
    BY DEF DeviceFields
  <2>3. ASSUME NEW id \in DOMAIN data_point_types'
        PROVE  /\ "address" \in DOMAIN data_point_types'[id]
               /\ DeviceErrorCode(data_point_types'[id].address) \in ErrorGroups(export)
    <3>1. /\ id \in DOMAIN data_point_types
          /\ "address" \in DOMAIN data_point_types[id]
          /\ DeviceErrorCode(data_point_types[id].address) \in ErrorGroups(export)
      BY <1>1, <2>1 DEF ErrorsInv, NamesInv
    <3>2. \/ data_point_types'[id] = data_point_types[id]
          \/ \E x : data_point_types'[id] = [data_point_types[id] EXCEPT ![Extension.field] = x]
      BY <2>1, <3>1
    <3>3. /\ "address" \in DOMAIN data_point_types'[id]
          /\ data_point_types'[id].address = data_point_types[id].address
      BY <2>1, <2>2, <3>1, <3>2
    <3> QED BY <3>1, <3>3
  <2> QED BY <1>1, <2>1, <2>3 DEF ErrorsInv, NamesInv
<1>3. CASE ExtendEventType
  <2>1. /\ UNCHANGED data_point_types
        /\ event_types' =
             [event_types EXCEPT ![Extension.id][Extension.field] = Extended(Extension, @)]
        /\ Extension.field \in EventTypeFields
    BY <1>3 DEF ExtendEventType
  <2>2. "type_id" \notin EventTypeFields /\ "type_id" \in DOMAIN NoEventTypeFields
    BY DEF EventTypeFields, NoEventTypeFields
  <2>3. ASSUME NEW id \in DOMAIN event_types'
        PROVE  event_types'[id].type_id \notin ErrorGroups(export)
    <3>1. /\ id \in DOMAIN event_types /\ DOMAIN event_types[id] = DOMAIN NoEventTypeFields
          /\ event_types[id].type_id \notin ErrorGroups(export)
      BY <1>1, <2>1 DEF BordersInv, EventTypesCover, ErrorsInv, NamesInv
    <3>2. \/ event_types'[id] = event_types[id]
          \/ \E x : event_types'[id] = [event_types[id] EXCEPT ![Extension.field] = x]
      BY <2>1, <3>1
    <3>3. event_types'[id].type_id = event_types[id].type_id
      BY <2>1, <2>2, <3>1, <3>2
    <3> QED BY <3>1, <3>3
  <2> QED BY <1>1, <2>1, <2>3 DEF ErrorsInv, NamesInv
<1> QED BY <1>2, <1>3

\* Neither does a filter, and the devices go by their addresses.
LEMMA FilterNames ==
  ASSUME BordersInv, ErrorsInv, FilterEventTypes \/ FilterDataPointTypes
  PROVE  NamesInv'
<1>1. CASE FilterEventTypes
  <2>1. /\ stage = "extend" /\ stage' = "devices" /\ UNCHANGED << export, data_point_types >>
        /\ event_types' = [id \in Supported |-> Kept(event_types[id])]
    BY <1>1 DEF FilterEventTypes
  <2>2. ASSUME NEW id \in DOMAIN event_types'
        PROVE  event_types'[id].type_id \notin ErrorGroups(export)
    <3>1. /\ id \in DOMAIN event_types /\ DOMAIN event_types[id] = DOMAIN NoEventTypeFields
          /\ event_types[id].type_id \notin ErrorGroups(export)
      BY <2>1 DEF Supported, BordersInv, EventTypesCover, ErrorsInv, NamesInv
    <3>2. \E c, b : event_types'[id] = [event_types[id] EXCEPT !.conversion = c, !.block_factor = b]
      BY <2>1 DEF Kept
    <3>3. "type_id" \in DOMAIN NoEventTypeFields
      BY DEF NoEventTypeFields
    <3> QED BY <3>1, <3>2, <3>3
  <2> QED BY <2>1, <2>2 DEF ErrorsInv, NamesInv
<1>2. CASE FilterDataPointTypes
  <2>1. /\ stage = "devices" /\ stage' = "texts" /\ UNCHANGED << export, event_types >>
        /\ \A name \in DOMAIN data_point_types' :
             \E id \in DOMAIN data_point_types : name = data_point_types[id].address
    BY <1>2 DEF FilterDataPointTypes
  <2> QED BY <2>1 DEF ErrorsInv, NamesInv
<1> QED BY <1>1, <1>2

\* The rounds for texts and for tables are those of the proofs.
LEMMA SameRound ==
  ASSUME NEW c, NEW value
  PROVE  /\ UniqueTexts!Round(c, value) = Numbers!Round(c, value)
         /\ UniqueTables!Round(c, value) = Numbers!Round(c, value)
<1>1. UniqueTexts!Round(c, value) = Numbers!Round(c, value)
  BY DEF UniqueTexts!Round, Numbers!Round, UniqueTexts!Keys, Numbers!Keys, UniqueTexts!IdKey,
         Numbers!IdKey, UniqueTexts!Insert, Numbers!Insert
<1>2. UniqueTables!Round(c, value) = Numbers!Round(c, value)
  BY DEF UniqueTables!Round, Numbers!Round, UniqueTables!Keys, Numbers!Keys, UniqueTables!IdKey,
         Numbers!IdKey, UniqueTables!Insert, Numbers!Insert
<1> QED BY <1>1, <1>2

\* The tables are what the export, the event types and the texts make them.
LEMMA SameTables ==
  ASSUME UNCHANGED << export, event_types, texts >>
  PROVE  all_mappings' = all_mappings
<1>1. error_mappings' = error_mappings
  BY DEF error_mappings
<1>2. mappings' = mappings
  BY DEF mappings, Listed
<1> QED BY <1>1, <1>2 DEF all_mappings

\* The numbers are kept while they are given.
LEMMA NumberStep ==
  ASSUME BordersInv, ErrorsInv, NumberTexts \/ NumberTables
  PROVE  NumbersInv'
<1>1. CASE NumberTexts
  <2>1. /\ stage = "texts" /\ stage' = "texts" /\ UNCHANGED translations_cleaned
        /\ \E value \in texts.reversed : texts' = Numbers!Round(texts, value)
    BY <1>1, SameRound DEF NumberTexts, UniqueTexts!Number
  <2> QED BY <2>1, NumberKeeps DEF ErrorsInv, NumbersInv
<1>2. CASE NumberTables
  <2>1. /\ stage = "tables" /\ stage' = "tables"
        /\ UNCHANGED << export, translations_cleaned, event_types, texts >>
        /\ \E value \in tables.reversed : tables' = Numbers!Round(tables, value)
    BY <1>2, SameRound DEF NumberTables, UniqueTables!Number
  <2>2. Numbering(tables)' /\ tables'.map = tables.map
    BY <2>1, NumberKeeps DEF ErrorsInv, NumbersInv, Numbering
  <2>3. all_mappings' = all_mappings
    BY <2>1, SameTables
  <2> QED BY <2>1, <2>2, <2>3 DEF ErrorsInv, NumbersInv, Numbering
<1> QED BY <1>1, <1>2

\* They are given to the translations and to the tables.
LEMMA BeginStep ==
  ASSUME BordersInv, ErrorsInv, FilterDataPointTypes \/ CollectTables
  PROVE  NumbersInv'
<1>1. CASE FilterDataPointTypes
  <2>1. /\ stage' = "texts" /\ UNCHANGED translations_cleaned
        /\ texts' = Numbers!Begin(translations_cleaned)
    BY <1>1 DEF FilterDataPointTypes, UniqueTexts!Begin, Numbers!Begin, UniqueTexts!Empty,
                Numbers!Empty
  <2>2. Numbers!Begin(translations_cleaned).map = translations_cleaned
    BY DEF Numbers!Begin
  <2> QED BY <2>1, <2>2, Numbers!BeginHolds DEF NumbersInv, Numbering
<1>2. CASE CollectTables
  <2>1. /\ stage = "texts" /\ stage' = "tables" /\ texts.reversed = {}
        /\ UNCHANGED << export, translations_cleaned, event_types, texts >>
        /\ tables' = Numbers!Begin(all_mappings)
    BY <1>2 DEF CollectTables, UniqueTables!Begin, Numbers!Begin, UniqueTables!Empty,
                Numbers!Empty
  <2>2. Numbers!Begin(all_mappings).map = all_mappings
    BY DEF Numbers!Begin
  <2>3. all_mappings' = all_mappings
    BY <2>1, SameTables
  <2> QED BY <2>1, <2>2, <2>3, Numbers!BeginHolds DEF ErrorsInv, NumbersInv, Numbering
<1> QED BY <1>1, <1>2

\* The tables of the errors, when the texts have their numbers.
LEMMA ErrorTables ==
  ASSUME BordersInv, ErrorsInv, stage = "tables"
  PROVE  /\ DOMAIN error_mappings = {l.words : l \in {m \in Labels : IsError(m)}}
         /\ \A g \in DOMAIN error_mappings :
              DOMAIN error_mappings[g] = {l.index : l \in {m \in Labels : m.words = g}}
         /\ \A l \in Labels : IsError(l) =>
              texts.combined[error_mappings[l.words][l.index]] = ErrorText(l)
<1> DEFINE errors == {l \in DOMAIN texts.mapping :
                       ~l.at /\ l.words \in ErrorGroups(export) /\ l.index # NoIndex}
<1>1. export \in Exports /\ Numbering(texts) /\ texts.reversed = {}
      /\ texts.map = translations_cleaned
  BY DEF BordersInv, ValueTypesKept, ErrorsInv, NumbersInv
<1>2. /\ DOMAIN texts.mapping = DOMAIN translations_cleaned
      /\ \A l \in DOMAIN translations_cleaned :
           texts.combined[texts.mapping[l]] = translations_cleaned[l]
  BY <1>1, NumbersLead
<1>3. /\ \A l \in DOMAIN translations_cleaned : IsError(l) => l \in Labels
      /\ \A l \in Labels : IsError(l) =>
           l \in DOMAIN translations_cleaned /\ translations_cleaned[l] = ErrorText(l)
  BY DEF ErrorsInv, TextsInv, ErrorsKnown
<1>4. \A l \in Labels : /\ ~l.at /\ l = Str(l.words, l.index)
                        /\ IsError(l) => l.index # NoIndex
  BY <1>1, LabelIs, ProperErrors
<1>5. errors = {m \in Labels : IsError(m)}
  BY <1>2, <1>3, <1>4 DEF IsError
<1>6. error_mappings =
        [group \in {l.words : l \in errors} |->
           [n \in {l.index : l \in {m \in errors : m.words = group}} |->
              texts.mapping[Str(group, n)]]]
  BY DEF error_mappings
<1> HIDE DEF errors
<1>7. DOMAIN error_mappings = {l.words : l \in errors}
  BY <1>6
<1>8. \A g \in DOMAIN error_mappings :
        error_mappings[g] = [n \in {l.index : l \in {m \in errors : m.words = g}} |->
                               texts.mapping[Str(g, n)]]
  BY <1>6
<1>9. ASSUME NEW g \in DOMAIN error_mappings
      PROVE  {m \in errors : m.words = g} = {m \in Labels : m.words = g}
  BY <1>5, <1>7 DEF IsError
<1>10. ASSUME NEW l \in Labels, IsError(l)
       PROVE  texts.combined[error_mappings[l.words][l.index]] = ErrorText(l)
  <2>1. l \in errors /\ l.words \in DOMAIN error_mappings
    BY <1>5, <1>7, <1>10
  <2>2. error_mappings[l.words][l.index] = texts.mapping[Str(l.words, l.index)]
    <3> DEFINE S == {m.index : m \in {o \in errors : o.words = l.words}}
               table == [n \in S |-> texts.mapping[Str(l.words, n)]]
    <3>1. error_mappings[l.words] = table
      BY <1>8, <2>1
    <3>2. l.index \in S
      BY <2>1
    <3>3. \A n \in S : table[n] = texts.mapping[Str(l.words, n)]
      OBVIOUS
    <3> HIDE DEF S, table
    <3> QED BY <3>1, <3>2, <3>3
  <2>3. texts.mapping[Str(l.words, l.index)] = texts.mapping[l]
    BY <1>4
  <2> QED BY <1>2, <1>3, <1>10, <2>2, <2>3
<1> QED BY <1>5, <1>7, <1>8, <1>9, <1>10

\* The group whose table a device gets.
LEMMA DeviceGroup ==
  ASSUME BordersInv, ErrorsInv, stage = "tables", tables.reversed = {},
         ErrorCode \in DOMAIN tables.mapping, NEW name \in DOMAIN data_point_types
  PROVE  \E g \in DOMAIN error_mappings :
           /\ ErrorTable(name) = tables.mapping[g] /\ g \in DOMAIN tables.mapping
           /\ tables.combined[tables.mapping[g]] = error_mappings[g]
           /\ ErrorLabels(name) = {l \in Labels : l.words = g}
<1>1. Numbering(tables) /\ tables.map = all_mappings
  BY DEF ErrorsInv, NumbersInv
<1>2. /\ DOMAIN tables.mapping = DOMAIN all_mappings
      /\ \A g \in DOMAIN all_mappings : tables.combined[tables.mapping[g]] = all_mappings[g]
  BY <1>1, NumbersLead
<1>3. \A g \in ErrorGroups(export) : g \notin DOMAIN mappings
  BY DEF ErrorsInv, NamesInv, mappings, Listed
<1>4. \A g \in ErrorGroups(export) :
        /\ g \in DOMAIN all_mappings <=> g \in DOMAIN error_mappings
        /\ g \in DOMAIN error_mappings => all_mappings[g] = error_mappings[g]
  BY <1>3 DEF all_mappings
<1>5. \A g \in ErrorGroups(export) :
        g \in DOMAIN error_mappings <=> {l \in Labels : l.words = g} # {}
  BY ErrorTables DEF IsError
<1> DEFINE device == DeviceErrorCode(name)
           g == IF device \in DOMAIN tables.mapping THEN device ELSE ErrorCode
<1>6. device \in ErrorGroups(export) /\ ErrorCode \in ErrorGroups(export)
  BY DEF ErrorsInv, NamesInv, ErrorGroups
<1>7. ErrorTable(name) = tables.mapping[g]
  BY DEF ErrorTable
<1>8. ErrorLabels(name) = IF {l \in Labels : l.words = device} # {}
                          THEN {l \in Labels : l.words = device}
                          ELSE {l \in Labels : l.words = ErrorCode}
  BY DEF ErrorLabels
<1> HIDE DEF device
<1>9. g \in ErrorGroups(export) /\ g \in DOMAIN tables.mapping
  BY <1>6
<1>10. ErrorLabels(name) = {l \in Labels : l.words = g}
  <2>1. device \in DOMAIN tables.mapping <=> {l \in Labels : l.words = device} # {}
    BY <1>2, <1>4, <1>5, <1>6
  <2> QED BY <1>8, <2>1
<1> HIDE DEF g
<1> QED BY <1>2, <1>4, <1>7, <1>9, <1>10

\* The files have the tables and the texts of the errors.
LEMMA UseErrors ==
  ASSUME BordersInv, ErrorsInv, Use
  PROVE  UsedErrors'
<1> DEFINE commands == [id \in CommandIds |-> from_event_type(event_types[id])]
           numbers == TablesUsed(commands)
<1>1. /\ stage = "tables" /\ tables.reversed = {} /\ ErrorCode \in DOMAIN tables.mapping
      /\ UNCHANGED export
      /\ used'.devices = devices_used
      /\ used'.mappings = [k \in numbers |-> tables.combined[k]]
      /\ used'.translations = [k \in TextsUsed(numbers) |-> texts.combined[k]]
  BY DEF Use
<1> HIDE DEF commands, numbers
<1>2. ASSUME NEW name \in DOMAIN used'.devices
      PROVE  LET k == used'.devices[name].error_mapping
             IN /\ k \in DOMAIN used'.mappings
                /\ DOMAIN used'.mappings[k] = {l.index : l \in ErrorLabels(name)}
                /\ \A l \in ErrorLabels(name) :
                     used'.translations[used'.mappings[k][l.index]] = ErrorText(l)
  <2> DEFINE k == used'.devices[name].error_mapping
  <2>1. /\ name \in DOMAIN devices_used /\ name \in DOMAIN data_point_types
        /\ k = devices_used[name].error_mapping /\ k = ErrorTable(name)
    BY <1>1 DEF devices_used, devices_cleaned
  <2>2. k \in numbers
    BY <2>1 DEF numbers, TablesUsed
  <2>3. PICK g \in DOMAIN error_mappings :
          /\ k = tables.mapping[g] /\ tables.combined[tables.mapping[g]] = error_mappings[g]
          /\ ErrorLabels(name) = {l \in Labels : l.words = g}
    BY <1>1, <2>1, DeviceGroup
  <2> HIDE DEF k
  <2>4. k \in DOMAIN used'.mappings /\ used'.mappings[k] = error_mappings[g]
    BY <1>1, <2>2, <2>3
  <2>5. DOMAIN error_mappings[g] = {l.index : l \in ErrorLabels(name)}
    BY <1>1, <2>3, ErrorTables
  <2>6. ASSUME NEW l \in ErrorLabels(name)
        PROVE  used'.translations[used'.mappings[k][l.index]] = ErrorText(l)
    <3>1. l \in Labels /\ l.words = g /\ IsError(l)
      BY <1>1, <2>3, ErrorTables DEF IsError
    <3>2. texts.combined[error_mappings[g][l.index]] = ErrorText(l)
      BY <1>1, <3>1, ErrorTables
    <3>3. error_mappings[g][l.index] \in Range(tables.combined[k])
      <4>1. l.index \in DOMAIN error_mappings[g]
        BY <2>5
      <4> QED BY <2>3, <4>1 DEF Range
    <3>4. error_mappings[g][l.index] \in TextsUsed(numbers)
      BY <2>2, <3>3 DEF TextsUsed
    <3> QED BY <1>1, <2>4, <3>2, <3>4
  <2> QED BY <2>4, <2>5, <2>6 DEF k
<1>3. \A name : ErrorLabels(name)' = ErrorLabels(name)
  BY <1>1 DEF ErrorLabels, Labels
<1>4. \A l : ErrorText(l)' = ErrorText(l)
  BY <1>1 DEF ErrorText, translations_raw
<1> QED BY <1>2, <1>3, <1>4 DEF UsedErrors

\* The program has what the files have.
LEMMA BuildErrors ==
  ASSUME ErrorsInv, Build
  PROVE  ErrorsMeanDevice'
<1>1. /\ stage = "written" /\ UNCHANGED << export, used >>
      /\ program'.mappings = [k \in DOMAIN used.mappings |-> MappingTexts(used, k)]
      /\ program'.devices = [name \in DOMAIN used.devices |->
                               [commands |-> CommandsOf(used, name),
                                errors |-> used.devices[name].error_mapping]]
  BY DEF Build
<1>2. ASSUME NEW name \in DOMAIN program'.devices
      PROVE  LET errors == program'.mappings[program'.devices[name].errors]
             IN /\ DOMAIN errors = {l.index : l \in ErrorLabels(name)}
                /\ \A l \in ErrorLabels(name) : errors[l.index] = ErrorText(l)
  <2> DEFINE k == used.devices[name].error_mapping
  <2>1. name \in DOMAIN used.devices /\ program'.devices[name].errors = k
    BY <1>1
  <2>2. /\ k \in DOMAIN used.mappings
        /\ DOMAIN used.mappings[k] = {l.index : l \in ErrorLabels(name)}
        /\ \A l \in ErrorLabels(name) :
             used.translations[used.mappings[k][l.index]] = ErrorText(l)
    BY <1>1, <2>1 DEF ErrorsInv, UsedErrors
  <2> HIDE DEF k
  <2>3. program'.mappings[k] =
          [n \in DOMAIN used.mappings[k] |-> used.translations[used.mappings[k][n]]]
    BY <1>1, <2>2 DEF MappingTexts
  <2>4. ASSUME NEW l \in ErrorLabels(name)
        PROVE  program'.mappings[k][l.index] = ErrorText(l)
    <3>1. l.index \in DOMAIN used.mappings[k]
      BY <2>2
    <3> QED BY <2>2, <2>3, <3>1
  <2> QED BY <2>1, <2>2, <2>3, <2>4
<1>3. \A name : ErrorLabels(name)' = ErrorLabels(name)
  BY <1>1 DEF ErrorLabels, Labels
<1>4. \A l : ErrorText(l)' = ErrorText(l)
  BY <1>1 DEF ErrorText, translations_raw
<1> QED BY <1>2, <1>3, <1>4 DEF ErrorsMeanDevice, ErrorLabels, Labels, ErrorText

\* The other steps leave alone what the errors are made of.
LEMMA ErrorsKeep ==
  ASSUME BordersInv, ErrorsInv,
         UNCHANGED << export, value_types, translations, translations_cleaned, event_types,
                      data_point_types, texts, tables, used >>,
         \/ stage' = stage /\ next' \in {next, next + 1} /\ UNCHANGED program
         \/ stage' = "panic" /\ stage # "german"
  PROVE  ErrorsInv'
<1>1. /\ export' = export /\ Labels' = Labels
      /\ \A l : (IsError(l)' <=> IsError(l)) /\ ErrorText(l)' = ErrorText(l)
      /\ \A name : ErrorLabels(name)' = ErrorLabels(name)
  <2>1. \A l : (IsError(l)' <=> IsError(l)) /\ ErrorText(l)' = ErrorText(l)
    BY DEF IsError, ErrorText, translations_raw
  <2>2. \A name : ErrorLabels(name)' = ErrorLabels(name)
    BY DEF ErrorLabels, Labels
  <2> QED BY <2>1, <2>2 DEF Labels
<1>2. ValuesInv'
  BY <1>1 DEF ErrorsInv, ValuesInv, NoNewError
<1>3. TextsInv'
  BY <1>1 DEF ErrorsInv, TextsInv, ErrorsKnown
<1>4. NamesInv'
  BY <1>1 DEF ErrorsInv, NamesInv
<1>5. NumbersInv'
  BY <1>1, SameTables DEF ErrorsInv, NumbersInv
<1>6. UsedErrors'
  BY <1>1 DEF ErrorsInv, UsedErrors
<1>7. ErrorsMeanDevice'
  <2>1. translations_raw' = translations_raw
    BY <1>1 DEF translations_raw
  <2>2. CASE stage' = stage /\ UNCHANGED program
    BY <1>1, <2>1, <2>2 DEF ErrorsInv, ErrorsMeanDevice
  <2>3. CASE stage' = "panic"
    BY <2>3 DEF ErrorsMeanDevice
  <2> QED BY <2>2, <2>3
<1> QED BY <1>2, <1>3, <1>4, <1>5, <1>6, <1>7 DEF ErrorsInv

\* The invariant holds in every state.
LEMMA ErrorsInvariance == ReleaseSpec => []ErrorsInv
<1>1. ReleaseInit => ErrorsInv
  <2> SUFFICES ASSUME ReleaseInit PROVE ErrorsInv
    OBVIOUS
  <2>1. /\ export \in Exports /\ stage = "german" /\ next = 1
        /\ value_types = export.value_types
        /\ translations = [l \in ToSet(export.labels) |-> translations_raw[l].de]
    BY DEF ReleaseInit, Init
  <2>2. ValuesInv
    BY <2>1, ProperErrors DEF ValuesInv, NoNewError, NoError
  <2>3. ErrorsKnown(translations)
    <3>1. DOMAIN translations = Labels
      BY <2>1, ProperErrors DEF ToSet
    <3> QED BY <3>1 DEF ErrorsKnown
  <2> QED BY <2>1, <2>2, <2>3
          DEF ErrorsInv, TextsInv, NamesInv, NumbersInv, UsedErrors, ErrorsMeanDevice
<1>2. BordersInv /\ ErrorsInv /\ [ReleaseNext]_ReleaseVars => ErrorsInv'
  <2> SUFFICES ASSUME BordersInv, ErrorsInv, [ReleaseNext]_ReleaseVars
               PROVE  ErrorsInv'
    OBVIOUS
  <2>1. CASE AddMissingGerman \/ AddMissingEnglish
    BY <2>1, AddStep
  <2>2. CASE CleanTranslations
    <3>1. /\ stage' = "english" /\ next' = 1 /\ UNCHANGED << export, value_types >>
          /\ stage = "german"
      BY <2>2 DEF CleanTranslations
    <3>2. ValuesInv'
      BY <3>1 DEF ErrorsInv, ValuesInv, NoNewError, IsError, Labels
    <3> QED BY <2>2, <3>1, <3>2, CleanedErrors
            DEF ErrorsInv, NamesInv, NumbersInv, UsedErrors, ErrorsMeanDevice
  <2>3. CASE CleanEventTypes \/ ExtendDevice \/ ExtendEventType \/ FilterEventTypes
             \/ FilterDataPointTypes \/ NumberTexts \/ CollectTables \/ NumberTables
    <3>1. /\ stage # "german" /\ UNCHANGED << export, translations_cleaned >>
          /\ stage' \in {"extend", "devices", "texts", "tables"}
      BY <2>3 DEF CleanEventTypes, ExtendDevice, ExtendEventType, FilterEventTypes,
                  FilterDataPointTypes, NumberTexts, CollectTables, NumberTables
    <3>2. TextsInv'
      <4>1. Labels' = Labels /\ \A l : (IsError(l)' <=> IsError(l)) /\ ErrorText(l)' = ErrorText(l)
        BY <3>1 DEF Labels, IsError, ErrorText, translations_raw
      <4> QED BY <3>1, <4>1 DEF ErrorsInv, TextsInv, ErrorsKnown
    <3>3. NamesInv'
      <4>1. CASE NumberTexts \/ CollectTables \/ NumberTables
        BY <4>1 DEF NumberTexts, CollectTables, NumberTables, ErrorsInv, NamesInv
      <4> QED BY <2>3, <4>1, NamedStep, ExtendNames, FilterNames
    <3>4. NumbersInv'
      <4>1. CASE CleanEventTypes \/ ExtendDevice \/ ExtendEventType \/ FilterEventTypes
        BY <4>1 DEF CleanEventTypes, ExtendDevice, ExtendEventType, FilterEventTypes, NumbersInv
      <4> QED BY <2>3, <4>1, NumberStep, BeginStep
    <3> QED BY <3>1, <3>2, <3>3, <3>4 DEF ErrorsInv, ValuesInv, UsedErrors, ErrorsMeanDevice
  <2>4. CASE Use
    <3>1. /\ stage = "tables" /\ stage' = "written"
          /\ UNCHANGED << export, translations_cleaned >>
      BY <2>4 DEF Use
    <3>2. TextsInv'
      <4>1. Labels' = Labels /\ \A l : (IsError(l)' <=> IsError(l)) /\ ErrorText(l)' = ErrorText(l)
        BY <3>1 DEF Labels, IsError, ErrorText, translations_raw
      <4> QED BY <3>1, <4>1 DEF ErrorsInv, TextsInv, ErrorsKnown
    <3> QED BY <2>4, <3>1, <3>2, UseErrors
            DEF ErrorsInv, ValuesInv, NamesInv, NumbersInv, ErrorsMeanDevice
  <2>5. CASE Build
    <3>1. /\ stage = "written" /\ stage' = "built"
          /\ UNCHANGED << export, translations_cleaned >>
      BY <2>5 DEF Build
    <3>2. TextsInv'
      <4>1. Labels' = Labels /\ \A l : (IsError(l)' <=> IsError(l)) /\ ErrorText(l)' = ErrorText(l)
        BY <3>1 DEF Labels, IsError, ErrorText, translations_raw
      <4> QED BY <3>1, <4>1 DEF ErrorsInv, TextsInv, ErrorsKnown
    <3> QED BY <2>5, <3>1, <3>2, BuildErrors
            DEF ErrorsInv, ValuesInv, NamesInv, NumbersInv, UsedErrors
  <2>6. CASE /\ UNCHANGED << export, value_types, translations, translations_cleaned, event_types,
                             data_point_types, texts, tables, used >>
             /\ \/ stage' = stage /\ next' \in {next, next + 1} /\ UNCHANGED program
                \/ stage' = "panic" /\ stage # "german"
    BY <2>6, ErrorsKeep
  <2> QED BY <2>1, <2>2, <2>3, <2>4, <2>5, <2>6
          DEF Next, InvalidValueTypes, UnnamedValue, Unlinked, PassExtension,
              UnhandledExtension, UnsupportedBlocks, UnknownConversion,
              UnknownText, Unusable, Panic, ReleaseNext, ReleaseVars, vars, Generate,
              BuildFails, Connect, Detect
<1> QED BY <1>1, <1>2, BordersInvariance, PTL DEF ReleaseSpec, ReleaseVars

\* Whatever the tables are, the program shows the errors of a device with the vendor's
\* texts for this device, and with those for all devices if it has none.
THEOREM ErrorsAreRight == ReleaseSpec => []ErrorsMeanDevice
<1>1. ErrorsInv => ErrorsMeanDevice
  BY DEF ErrorsInv
<1> QED BY <1>1, ErrorsInvariance, PTL

-----------------------------------------------------------------------------
(* Texts of values *)

FixedIds == {translation_fixes(l) : l \in Labels}
Values == Range(export.value_types)
ValueIds == {StripAt(v.enum_replace_value) : v \in Values}

\* The id that the value type v has in the program: its own or, if there is no text for
\* that, one that its description leads to.
Replaced(v, id) ==
  \/ id = v.enum_replace_value
  \/ /\ ~HasText(v)
     /\ \/ StripAt(id) \in LedTo(v) \cap FixedIds
        \/ v.description.at /\ id = v.description

\* What the generator assumes of the texts of an export.
LEMMA ProperTexts ==
  ASSUME export \in Exports
  PROVE  /\ DOMAIN export.value_types = 1..Len(export.value_types)
         /\ Values = {export.value_types[i] : i \in 1..Len(export.value_types)}
         /\ \A v \in Values :
              /\ {"enum_address_value", "enum_replace_value", "description"} \subseteq DOMAIN v
              /\ IsString(v.enum_replace_value) /\ IsString(v.description)
              /\ IsOption(v.enum_address_value)
         /\ IsFiniteSet(DOMAIN export.event_types) /\ DOMAIN export.event_types \subseteq Nat
<1>1. /\ export.value_types \in Seq(Range(export.value_types))
      /\ \A i \in DOMAIN export.value_types :
           LET v == export.value_types[i]
           IN /\ {"enum_address_value", "enum_replace_value", "description"} \subseteq DOMAIN v
              /\ IsString(v.enum_replace_value) /\ IsString(v.description)
              /\ IsOption(v.enum_address_value)
      /\ IsFiniteSet(DOMAIN export.event_types) /\ DOMAIN export.event_types \subseteq Nat
  BY ExportAssumption
<1>2. DOMAIN export.value_types = 1..Len(export.value_types)
  BY <1>1, LenProperties
<1> QED BY <1>1, <1>2 DEF Values, Range

\* The ids with a text are the fixed ones.
LEMMA HasTexts ==
  ASSUME NEW id
  PROVE  TextsOf(id) # {} <=> id \in FixedIds
BY DEF TextsOf, FixedIds, Labels

\* A string that does not begin with @@ has none to be taken off.
LEMMA PlainString ==
  ASSUME NEW s, IsString(s), ~s.at
  PROVE  s = Str(s.words, s.index) /\ StripAt(s) = s /\ StripAt(WithAt(s)) = s
<1>1. s = Str(s.words, s.index)
  BY DEF IsString, Str
<1> QED BY <1>1, Stripped

\* What is made of a text is a text, and an id in its place is left alone.
LEMMA CleanText ==
  ASSUME NEW id, NEW text, IsString(text)
  PROVE  /\ IsString(clean_enum_text(id, text))
         /\ clean_enum_text(id, text).at => text.at
         /\ text.at => clean_enum_text(id, text) = text
<1> DEFINE bare == IF text.index = id.index /\ ~text.at
                   THEN [text EXCEPT !.index = NoIndex] ELSE text
           clean == clean_enum_text(id, text)
<1>1. IsString(EmptyText) /\ ~EmptyText.at
  BY DEF IsString, EmptyText, Str
<1>2. IsString(bare) /\ (bare.at <=> text.at)
  BY DEF IsString
<1>3. text.at => bare = text
  OBVIOUS
<1>4. text.at => text # Str("--", NoIndex)
  BY DEF Str
<1>5. clean \in {text, bare, EmptyText} /\ (bare # Str("--", NoIndex) => clean \in {text, bare})
  <2> HIDE DEF bare
  <2> QED BY DEF clean_enum_text, bare
<1> HIDE DEF bare, clean
<1>6. IsString(clean) /\ (clean.at => text.at)
  BY <1>1, <1>2, <1>5
<1>7. text.at => clean = text
  BY <1>3, <1>4, <1>5
<1> QED BY <1>6, <1>7 DEF clean

\* A description that is an id leads to this id.
LEMMA AtIsLed ==
  ASSUME export \in Exports, NEW v \in Values, v.description.at
  PROVE  StripAt(v.description) \in LedTo(v)
<1> DEFINE text == clean_enum_text(v.enum_replace_value, v.description)
           described == [text EXCEPT !.words = "viessmann.eventtype." \o @ \o ".description"]
<1>1. text = v.description
  BY ProperTexts, CleanText
<1>2. EmptyText.at = FALSE
  BY DEF EmptyText, Str
<1>3. LedTo(v) = IF text = EmptyText THEN {}
                 ELSE IF text.at THEN {StripAt(text)}
                 ELSE Range(reverse_translations_raw(text)) \cup {text, described}
  BY DEF LedTo
<1> HIDE DEF text, described
<1> QED BY <1>1, <1>2, <1>3

\* A description is followed to one of the ids that it leads to, to a label or to an id
\* with a text, unless it is an id itself.
LEMMA Followed ==
  ASSUME export \in Exports, NEW v \in Values, NEW known,
         parse_description(clean_enum_text(v.enum_replace_value, v.description), known) # << >>
  PROVE  LET id == parse_description(clean_enum_text(v.enum_replace_value, v.description), known)[1]
         IN \/ v.description.at /\ id = v.description
            \/ StripAt(id) \in LedTo(v) /\ StripAt(id) \in Labels \cup DOMAIN known
<1> DEFINE text == clean_enum_text(v.enum_replace_value, v.description)
           described == [text EXCEPT !.words = "viessmann.eventtype." \o @ \o ".description"]
           same == {i \in DOMAIN export.labels :
                      translations_raw[export.labels[i]].de = text}
           result == parse_description(text, known)
<1>1. IsString(v.description)
  BY ProperTexts
<1>2. /\ IsString(text) /\ (text.at => v.description.at)
      /\ v.description.at => text = v.description
  BY <1>1, CleanText
<1>3. LedTo(v) = IF text = EmptyText THEN {}
                 ELSE IF text.at THEN {StripAt(text)}
                 ELSE Range(reverse_translations_raw(text)) \cup {text, described}
  BY DEF LedTo
<1>4. reverse_translations_raw(text) = IF text = EmptyText \/ same = {} THEN << >>
                                       ELSE << export.labels[Max(same)] >>
  <2> HIDE DEF text
  <2> QED BY DEF reverse_translations_raw
<1>10. result # << >>
  OBVIOUS
<1>5. /\ text # EmptyText
      /\ \/ text.at /\ result = << text >>
         \/ ~text.at /\ same # {} /\ result = << WithAt(export.labels[Max(same)]) >>
         \/ ~text.at /\ text \in DOMAIN known /\ result = << WithAt(text) >>
         \/ ~text.at /\ described \in DOMAIN known /\ result = << WithAt(described) >>
  <2> DEFINE ids == reverse_translations_raw(text)
  <2>1. result = IF text = EmptyText THEN << >>
                 ELSE IF text.at THEN << text >>
                 ELSE IF ids # << >> THEN << WithAt(ids[1]) >>
                 ELSE IF text \in DOMAIN known THEN << WithAt(text) >>
                 ELSE IF described \in DOMAIN known THEN << WithAt(described) >> ELSE << >>
    <3> HIDE DEF text
    <3> QED BY DEF parse_description
  <2> HIDE DEF text, described, same, result
  <2>2. ids = IF text = EmptyText \/ same = {} THEN << >> ELSE << export.labels[Max(same)] >>
    BY <1>4
  <2>3. ids # << >> => same # {} /\ ids[1] = export.labels[Max(same)]
    BY <2>2
  <2> HIDE DEF ids
  <2> QED BY <1>10, <2>1, <2>3
<1> HIDE DEF text, result, described
<1>6. CASE text.at /\ result = << text >>
  BY <1>2, <1>6 DEF text, result
<1>7. CASE ~text.at /\ same # {} /\ result = << WithAt(export.labels[Max(same)]) >>
  <2>1. same \in SUBSET Nat /\ IsFiniteSet(same) /\ same \subseteq 1..Len(export.labels)
    <3>1. DOMAIN export.labels = 1..Len(export.labels) /\ Len(export.labels) \in Nat
      BY ProperErrors
    <3>2. same \subseteq 1..Len(export.labels)
      BY <3>1
    <3>3. IsFiniteSet(1..Len(export.labels))
      BY <3>1, FS_Interval
    <3> HIDE DEF same
    <3>4. IsFiniteSet(same)
      BY <3>2, <3>3, FS_Subset
    <3>5. same \in SUBSET Nat
      BY <3>1, <3>2
    <3> QED BY <3>2, <3>4, <3>5
  <2> HIDE DEF same
  <2>2. Max(same) \in same
    BY <1>7, <2>1, GreatestNumber
  <2> DEFINE l == export.labels[Max(same)]
  <2>3. l \in Labels
    BY <2>1, <2>2, ProperErrors
  <2> HIDE DEF l
  <2>4. IsString(l) /\ ~l.at
    BY <2>3, ProperErrors
  <2>5. StripAt(WithAt(l)) = l
    BY <2>4, PlainString
  <2>6. reverse_translations_raw(text) = << l >>
    BY <1>4, <1>5, <1>7 DEF l
  <2>7. l \in LedTo(v)
    <3>1. l \in Range(<< l >>)
      BY DEF Range
    <3> QED BY <1>3, <1>5, <1>7, <2>6, <3>1
  <2>8. result[1] = WithAt(l)
    BY <1>7 DEF l
  <2> QED BY <2>3, <2>5, <2>7, <2>8 DEF text, result
<1>8. CASE ~text.at /\ text \in DOMAIN known /\ result = << WithAt(text) >>
  <2>1. StripAt(WithAt(text)) = text
    BY <1>2, <1>8, PlainString
  <2>2. text \in LedTo(v)
    BY <1>3, <1>5, <1>8
  <2> QED BY <1>8, <2>1, <2>2 DEF text, result
<1>9. CASE ~text.at /\ described \in DOMAIN known /\ result = << WithAt(described) >>
  <2>1. IsString(described) /\ ~described.at
    <3>1. ASSUME NEW a, NEW w, NEW i, NEW u
          PROVE  [[at |-> a, words |-> w, index |-> i] EXCEPT !.words = u]
                   = [at |-> a, words |-> u, index |-> i]
      OBVIOUS
    <3>2. text = [at |-> text.at, words |-> text.words, index |-> text.index] /\ text.at = FALSE
      BY <1>2, <1>9 DEF IsString
    <3>3. \E u : described = [text EXCEPT !.words = u]
      BY DEF described
    <3>4. \E u : described = [at |-> FALSE, words |-> u, index |-> text.index]
      BY <3>1, <3>2, <3>3
    <3> QED BY <3>4 DEF IsString
  <2>2. StripAt(WithAt(described)) = described
    BY <2>1, PlainString
  <2>3. described \in LedTo(v)
    BY <1>3, <1>5, <1>9
  <2> QED BY <1>9, <2>2, <2>3 DEF text, result
<1> QED BY <1>5, <1>6, <1>7, <1>8, <1>9

\* Of the ids that the description of a value without a text leads to, those that are
\* labels are fixed ids, and the others are not the ids of values.
LEMMA LedToTexts ==
  ASSUME OrderlyTexts, NEW v \in Values, ~HasText(v), NEW id \in LedTo(v)
  PROVE  IF id \in Labels THEN id \in FixedIds ELSE id \notin ValueIds
<1>1. IF id \in Labels THEN id \notin DOMAIN TranslationFixes ELSE id \notin ValueIds
  BY DEF OrderlyTexts, Values, Labels, ValueIds
<1>2. id \notin DOMAIN TranslationFixes => translation_fixes(id) = id
  BY DEF translation_fixes, Lookup
<1> QED BY <1>1, <1>2 DEF FixedIds

\* What is added for a value, with the labels or with the fixed ids: its id or its
\* description as the text of an id that has none, or another id in its place.
LEMMA AddMeans ==
  ASSUME export \in Exports, OrderlyTexts, NEW v0 \in Values,
         NEW v, v.description = v0.description, Replaced(v0, v.enum_replace_value),
         NEW base,
         \/ base = Labels /\ v.enum_replace_value = v0.enum_replace_value
         \/ base = FixedIds,
         NEW known, base \subseteq DOMAIN known, DOMAIN known \subseteq base \cup ValueIds
  PROVE  /\ Replaced(v0, Added(v, known).id)
         /\ \/ Added(v, known).known = known
            \/ /\ StripAt(v0.enum_replace_value) \notin DOMAIN known
               /\ \E text \in {v0.description, v0.enum_replace_value} :
                    Added(v, known).known = WithText(known, v0.enum_replace_value, text)
<1> DEFINE e == v.enum_replace_value
           d == v0.description
           description == parse_description(clean_enum_text(e, d), known)
           new == Added(v, known)
<1>1. \/ (e = EmptyText \/ StripAt(e) \in DOMAIN known) /\ new = [id |-> e, known |-> known]
      \/ /\ e # EmptyText /\ StripAt(e) \notin DOMAIN known
         /\ \/ /\ e = Str("ecnStatusEventType", e.index)
               /\ new = [id |-> e, known |-> WithText(known, e, d)]
            \/ /\ d # EmptyText /\ description # << >>
               /\ new = [id |-> description[1], known |-> known]
            \/ /\ d = EmptyText \/ description = << >>
               /\ new = [id |-> e, known |-> WithText(known, e, e)]
  <2> HIDE DEF description
  <2> QED BY DEF Added, description
<1> HIDE DEF new
<1>2. CASE e = EmptyText \/ StripAt(e) \in DOMAIN known
  BY <1>1, <1>2 DEF new
<1>3. CASE ~(e = EmptyText \/ StripAt(e) \in DOMAIN known) /\ e # v0.enum_replace_value
  <2>1. base = FixedIds /\ StripAt(e) \notin FixedIds
    BY <1>3
  <2>2. d.at /\ e = d
    BY <1>3, <2>1 DEF Replaced
  <2>3. IsString(d)
    BY ProperTexts
  <2>4. clean_enum_text(e, d) = d
    BY <2>2, <2>3, CleanText
  <2>5. ~EmptyText.at /\ ~Str("ecnStatusEventType", e.index).at
    BY DEF EmptyText, Str
  <2>6. description = << d >>
    BY <2>2, <2>4, <2>5 DEF parse_description
  <2> HIDE DEF description
  <2>7. new = [id |-> e, known |-> known]
    BY <1>1, <1>3, <2>2, <2>5, <2>6
  <2> QED BY <2>7 DEF new
<1>4. CASE ~(e = EmptyText \/ StripAt(e) \in DOMAIN known) /\ e = v0.enum_replace_value
  <2>1. ~HasText(v0)
    BY <1>4, HasTexts DEF HasText, Labels
  <2>2. CASE description # << >> /\ new = [id |-> description[1], known |-> known]
    <3> DEFINE m == StripAt(description[1])
    <3>1. \/ d.at /\ description[1] = d
          \/ m \in LedTo(v0) /\ m \in Labels \cup DOMAIN known
      BY <1>4, <2>2, Followed
    <3> HIDE DEF description
    <3>2. CASE d.at /\ description[1] = d
      BY <2>1, <2>2, <3>2 DEF Replaced, new
    <3>3. CASE m \in LedTo(v0) /\ m \in Labels \cup DOMAIN known
      <4>1. IF m \in Labels THEN m \in FixedIds ELSE m \notin ValueIds
        BY <2>1, <3>3, LedToTexts
      <4>2. m \in FixedIds
        BY <3>3, <4>1
      <4> QED BY <2>1, <2>2, <3>3, <4>2 DEF Replaced, new
    <3> QED BY <3>1, <3>2, <3>3
  <2>3. CASE new = [id |-> e, known |-> WithText(known, e, d)]
    BY <1>4, <2>3 DEF new
  <2>4. CASE new = [id |-> e, known |-> WithText(known, e, e)]
    BY <1>4, <2>4 DEF new
  <2> HIDE DEF description
  <2> QED BY <1>1, <1>4, <2>2, <2>3, <2>4
<1> QED BY <1>2, <1>3, <1>4

\* The text of an id: one of a label that has it or, for the id of a value that no label
\* has, the description or the id of the value.
TextFits(id, text) ==
  IF id \in FixedIds THEN text \in TextsOf(id)
  ELSE \E w \in Values : /\ id = StripAt(w.enum_replace_value)
                         /\ text \in {w.description, w.enum_replace_value}

\* An id that the fixes change has a text.
LEMMA FixedHasText ==
  ASSUME OrderlyTexts, NEW id, FixedId(id) \notin FixedIds
  PROVE  FixedId(id) = id
<1>1. TextsOf(FixedId(id)) = {}
  BY HasTexts
<1>2. id \notin DOMAIN TranslationFixes /\ id \notin DOMAIN ValueListFixes
  BY <1>1 DEF OrderlyTexts
<1> QED BY <1>2 DEF FixedId, translation_fixes, value_list_fixes, Lookup

\* Where the description of a value leads to is one of the ids that it names.
LEMMA LedIsDescribed ==
  ASSUME export \in Exports, NEW v \in Values, NEW id \in LedTo(v)
  PROVE  TextsOf(FixedId(id)) \subseteq DescribedTexts(v)
<1> DEFINE text == clean_enum_text(v.enum_replace_value, v.description)
           described == [text EXCEPT !.words = "viessmann.eventtype." \o @ \o ".description"]
           same == {i \in DOMAIN export.labels :
                      translations_raw[export.labels[i]].de = text}
           Named == {l \in DOMAIN export.texts : translations_raw[l].de = text}
<1>1. IsString(text)
  BY ProperTexts, CleanText
<1>2. LedTo(v) = IF text = EmptyText THEN {}
                 ELSE IF text.at THEN {StripAt(text)}
                 ELSE Range(reverse_translations_raw(text)) \cup {text, described}
  BY DEF LedTo
<1>3. reverse_translations_raw(text) = IF text = EmptyText \/ same = {} THEN << >>
                                       ELSE << export.labels[Max(same)] >>
  <2> HIDE DEF text
  <2> QED BY DEF reverse_translations_raw
<1>4. DescribedIds(v) = IF text = EmptyText THEN {} ELSE Named \cup {StripAt(text), described}
  BY DEF DescribedIds
<1>5. Range(reverse_translations_raw(text)) \subseteq Named
  <2> HIDE DEF text, Named
  <2>1. CASE reverse_translations_raw(text) = << >>
    BY <2>1 DEF Range
  <2>2. CASE same # {} /\ reverse_translations_raw(text) = << export.labels[Max(same)] >>
    <3>1. same \in SUBSET Nat /\ IsFiniteSet(same) /\ same \subseteq 1..Len(export.labels)
      <4>1. DOMAIN export.labels = 1..Len(export.labels) /\ Len(export.labels) \in Nat
        BY ProperErrors
      <4>2. same \subseteq 1..Len(export.labels)
        BY <4>1
      <4>3. IsFiniteSet(1..Len(export.labels))
        BY <4>1, FS_Interval
      <4> HIDE DEF same
      <4>4. IsFiniteSet(same)
        BY <4>2, <4>3, FS_Subset
      <4>5. same \in SUBSET Nat
        BY <4>1, <4>2
      <4> QED BY <4>2, <4>4, <4>5
    <3>2. Max(same) \in same
      <4> HIDE DEF same
      <4> QED BY <2>2, <3>1, GreatestNumber
    <3> DEFINE l == export.labels[Max(same)]
    <3>3. translations_raw[l].de = text
      BY <3>2
    <3>4. l \in DOMAIN export.texts
      <4> HIDE DEF same
      <4> QED BY <3>1, <3>2, ProperErrors DEF Labels
    <3> HIDE DEF l, same
    <3>5. Range(<< l >>) = {l}
      BY DEF Range
    <3> QED BY <2>2, <3>3, <3>4, <3>5 DEF l, Named
  <2> QED BY <1>3, <2>1, <2>2
<1>6. ~text.at => StripAt(text) = text
  BY <1>1, PlainString
<1> HIDE DEF text, described, Named
<1>7. id \in DescribedIds(v)
  BY <1>2, <1>4, <1>5, <1>6
<1> QED BY <1>7 DEF DescribedTexts

\* Whatever id the value type v has in the program, a text of this id, when it is fixed,
\* is one that may stand for v.
LEMMA TextMeans ==
  ASSUME export \in Exports, OrderlyTexts, NEW v \in Values, NEW id, Replaced(v, id),
         NEW text, TextFits(FixedId(StripAt(id)), text)
  PROVE  text \in TextsFor(v)
<1> DEFINE m == StripAt(id)
           same == {w \in Values : StripAt(w.enum_replace_value) = StripAt(v.enum_replace_value)}
<1>1. TextsFor(v) = NamedTexts(v) \cup DescribedTexts(v)
                    \cup (IF NamedTexts(v) # {} THEN {}
                          ELSE {w.description : w \in same}
                               \cup {w.enum_replace_value : w \in same})
  BY DEF TextsFor, Values
<1>2. CASE FixedId(m) \in FixedIds
  <2>1. text \in TextsOf(FixedId(m))
    BY <1>2 DEF TextFits
  <2>2. CASE id = v.enum_replace_value
    BY <1>1, <2>1, <2>2 DEF NamedTexts
  <2>3. CASE m \in LedTo(v)
    BY <1>1, <2>1, <2>3, LedIsDescribed
  <2>4. CASE v.description.at /\ id = v.description
    <3>1. m \in LedTo(v)
      BY <2>4, AtIsLed
    <3> QED BY <1>1, <2>1, <3>1, LedIsDescribed
  <2> QED BY <2>2, <2>3, <2>4 DEF Replaced
<1>3. CASE FixedId(m) \notin FixedIds
  <2>1. FixedId(m) = m /\ m \notin FixedIds
    BY <1>3, FixedHasText
  <2>2. PICK w \in Values : /\ m = StripAt(w.enum_replace_value)
                            /\ text \in {w.description, w.enum_replace_value}
    BY <2>1 DEF TextFits
  <2>3. CASE id = v.enum_replace_value
    <3>1. NamedTexts(v) = {}
      BY <1>3, <2>3, HasTexts DEF NamedTexts
    <3>2. w \in same
      BY <2>2, <2>3
    <3> HIDE DEF same
    <3> QED BY <1>1, <2>2, <3>1, <3>2
  <2>4. CASE ~HasText(v) /\ v.description.at /\ id = v.description
    <3>1. m \in LedTo(v)
      BY <2>4, AtIsLed
    <3>2. IF m \in Labels THEN m \in FixedIds ELSE m \notin ValueIds
      BY <2>4, <3>1, LedToTexts
    <3> QED BY <2>1, <2>2, <3>2 DEF ValueIds
  <2> QED BY <2>1, <2>3, <2>4 DEF Replaced
<1> QED BY <1>2, <1>3

\* What a value type is in the loop that merges them.
ListId(v) == FixedId(StripAt(v.enum_replace_value))
IsEntry(v) ==
  /\ v.data_type \in DataTypes /\ IsOption(v.enum_address_value)
  /\ v.enum_address_value # << >> =>
       v.data_type \in {"NText", "VarChar"} /\ v.name.words # Ecotronic_Party

\* A value type with a value is a list of one, and any other is no list.
LEMMA CleanEntry ==
  ASSUME NEW v, IsEntry(v)
  PROVE  IF v.enum_address_value = << >> THEN clean_value_type(v).kind = "single"
         ELSE clean_value_type(v) = Multiple([k \in {v.enum_address_value[1]} |-> ListId(v)])
<1>1. CASE v.enum_address_value # << >>
  BY <1>1 DEF IsEntry, clean_value_type, ListId, FixedId
<1>2. CASE v.enum_address_value = << >>
  <2>1. \A type : Single(type) = [kind |-> "single", value_type |-> << type >>,
                                  lower_border |-> << >>, upper_border |-> << >>, unit |-> << >>]
    BY DEF Single
  <2>2. \A type, l, u, n :
          [Single(type) EXCEPT !.lower_border = l, !.upper_border = u, !.unit = n].kind = "single"
    BY <2>1
  <2>3. \A type : Single(type).kind = "single"
    BY <2>1
  <2> QED BY <1>2, <2>2, <2>3 DEF IsEntry, clean_value_type, DataTypes
<1> QED BY <1>1, <1>2

\* The list has the values of the value types in S, each with the id of one of them.
Lists(list, S) ==
  /\ DOMAIN list = UNION {Range(value_types[i].enum_address_value) : i \in S}
  /\ \A n \in DOMAIN list :
       \E i \in S : value_types[i].enum_address_value = << n >> /\ list[n] = ListId(value_types[i])

\* What the loop has after the value type n: a list of those that were merged if all of
\* them have a value, and none if none has one.
ListsSoFar(ids, acc, n) ==
  LET S == {j \in ids : j <= n}
  IN /\ acc.kind = "none" => S = {}
     /\ acc.kind = "single" => \A j \in S : value_types[j].enum_address_value = << >>
     /\ acc.kind = "multiple" => /\ S # {} /\ \A j \in S : value_types[j].enum_address_value # << >>
                                 /\ Lists(acc.value_list, S)
     /\ acc.kind \notin {"none", "single", "multiple"} => acc = Invalid

\* A list of one, and a list with one more entry.
LEMMA OneMore ==
  ASSUME NEW i, NEW S, NEW n, value_types[i].enum_address_value = << n >>
  PROVE  LET one == [k \in {n} |-> ListId(value_types[i])]
         IN /\ Lists(one, {i})
            /\ \A list : Lists(list, S) => Lists(Joined(one, list), S \cup {i})
<1> DEFINE one == [k \in {n} |-> ListId(value_types[i])]
<1>1. DOMAIN one = {n} /\ one[n] = ListId(value_types[i])
  OBVIOUS
<1>2. Range(value_types[i].enum_address_value) = {n}
  BY DEF Range
<1>3. \A list : /\ DOMAIN Joined(one, list) = {n} \cup DOMAIN list
                /\ Joined(one, list)[n] = ListId(value_types[i])
                /\ \A k \in DOMAIN list \ {n} : Joined(one, list)[k] = list[k]
  <2> HIDE DEF one
  <2> QED BY <1>1 DEF Joined
<1> HIDE DEF one
<1>4. Lists(one, {i})
  BY <1>1, <1>2 DEF Lists
<1>5. ASSUME NEW list, Lists(list, S)
      PROVE  Lists(Joined(one, list), S \cup {i})
  <2>1. DOMAIN Joined(one, list) = {n} \cup DOMAIN list
    BY <1>3
  <2>2. DOMAIN Joined(one, list) =
          UNION {Range(value_types[j].enum_address_value) : j \in S \cup {i}}
    BY <1>2, <1>5, <2>1 DEF Lists
  <2>3. ASSUME NEW k \in DOMAIN Joined(one, list)
        PROVE  \E j \in S \cup {i} : /\ value_types[j].enum_address_value = << k >>
                                     /\ Joined(one, list)[k] = ListId(value_types[j])
    <3>1. CASE k = n
      BY <1>3, <3>1
    <3>2. CASE k # n
      <4>1. k \in DOMAIN list /\ Joined(one, list)[k] = list[k]
        BY <1>3, <2>1, <3>2
      <4> QED BY <1>5, <4>1 DEF Lists
    <3> QED BY <3>1, <3>2
  <2> QED BY <2>2, <2>3 DEF Lists
<1> QED BY <1>4, <1>5 DEF one

\* One more value type.
LEMMA RoundLists ==
  ASSUME NEW ids, ids \subseteq 1..Len(value_types), Len(value_types) \in Nat,
         \A j \in ids : IsEntry(value_types[j]),
         NEW f, NEW i \in 1..Len(value_types), ListsSoFar(ids, f[i - 1], i - 1)
  PROVE  ListsSoFar(ids, Round(ids, f, i), i)
<1> DEFINE acc == f[i - 1]
           v == value_types[i]
           c == clean_value_type(v)
           m == merge(acc, c)
           Done == {j \in ids : j <= i - 1}
           Now == {j \in ids : j <= i}
<1>1. i # 0
  OBVIOUS
<1>2. /\ acc.kind = "none" => Done = {}
      /\ acc.kind = "single" => \A j \in Done : value_types[j].enum_address_value = << >>
      /\ acc.kind = "multiple" => /\ Done # {}
                                  /\ \A j \in Done : value_types[j].enum_address_value # << >>
                                  /\ Lists(acc.value_list, Done)
      /\ acc.kind \notin {"none", "single", "multiple"} => acc = Invalid
  BY DEF ListsSoFar
<1>3. CASE i \notin ids
  <2>1. Round(ids, f, i) = acc
    BY <1>1, <1>3 DEF Round
  <2>2. \A j \in ids : j <= i <=> j <= i - 1
    BY <1>3
  <2>3. Now = Done
    BY <2>2, Zenon
  <2> HIDE DEF acc, Done, Now
  <2> QED BY <1>2, <2>1, <2>3 DEF ListsSoFar, Now
<1>4. CASE i \in ids
  <2>1. Round(ids, f, i) = m
    BY <1>1, <1>4 DEF Round
  <2>2. Now = Done \cup {i}
    <3>1. \A j \in ids : j <= i <=> j <= i - 1 \/ j = i
      OBVIOUS
    <3> QED BY <1>4, <3>1
  <2>3. IsEntry(v)
    BY <1>4
  <2>4. IF v.enum_address_value = << >> THEN c.kind = "single"
        ELSE c = Multiple([k \in {v.enum_address_value[1]} |-> ListId(v)])
    BY <2>3, CleanEntry
  <2> DEFINE n == v.enum_address_value[1]
             one == [k \in {n} |-> ListId(v)]
  <2>5. v.enum_address_value # << >> =>
          /\ v.enum_address_value = << n >> /\ Lists(one, {i})
          /\ \A list : Lists(list, Done) => Lists(Joined(one, list), Now)
    <3> SUFFICES ASSUME v.enum_address_value # << >>
                 PROVE  /\ v.enum_address_value = << n >> /\ Lists(one, {i})
                        /\ \A list : Lists(list, Done) => Lists(Joined(one, list), Now)
      OBVIOUS
    <3>1. v.enum_address_value = << n >>
      BY <2>3 DEF IsEntry, IsOption
    <3> HIDE DEF n, Done, Now
    <3> QED BY <2>2, <3>1, OneMore
  <2>6. \A list : Multiple(list).kind = "multiple" /\ Multiple(list).value_list = list
    BY DEF Multiple
  <2> HIDE DEF acc, c, one, n, v, Now, Done
  <2>7. CASE v.enum_address_value = << >>
    <3>1. c.kind = "single"
      BY <2>4, <2>7
    <3>2. \/ acc.kind = "none" /\ m = c
          \/ acc.kind = "single" /\ m.kind = "single"
          \/ m = Invalid
      BY <3>1 DEF merge, Multiple
    <3>3. m.kind = "single" \/ m = Invalid
      BY <3>1, <3>2
    <3>4. m.kind = "single" => \A j \in Now : value_types[j].enum_address_value = << >>
      BY <1>2, <2>2, <2>7, <3>2 DEF Invalid, v
    <3>5. Invalid.kind = "invalid"
      BY DEF Invalid
    <3> HIDE DEF m
    <3> QED BY <2>1, <3>3, <3>4, <3>5 DEF ListsSoFar, Now
  <2>8. CASE v.enum_address_value # << >>
    <3>1. c = Multiple(one)
      BY <2>4, <2>8 DEF one, n
    <3>2. \/ acc.kind = "none" /\ m = c
          \/ acc.kind = "multiple" /\ m = Multiple(Joined(one, acc.value_list))
          \/ m = Invalid
      BY <2>6, <3>1 DEF merge
    <3>3. m = Invalid \/ (m.kind = "multiple" /\ Lists(m.value_list, Now))
      <4>1. CASE acc.kind = "none" /\ m = c
        <5>1. Now = {i}
          BY <1>2, <2>2, <4>1
        <5> HIDE DEF m
        <5> QED BY <2>5, <2>6, <2>8, <3>1, <4>1, <5>1
      <4>2. CASE acc.kind = "multiple" /\ m = Multiple(Joined(one, acc.value_list))
        <5> HIDE DEF m
        <5> QED BY <1>2, <2>5, <2>6, <2>8, <4>2
      <4> QED BY <3>2, <4>1, <4>2
    <3>4. m.kind = "multiple" => \A j \in Now : value_types[j].enum_address_value # << >>
      <4>1. acc.kind \in {"none", "multiple"} \/ m = Invalid
        BY <3>2
      <4> QED BY <1>2, <2>2, <2>8, <4>1 DEF Invalid, v
    <3>5. Invalid.kind = "invalid" /\ Now # {}
      BY <2>2 DEF Invalid
    <3> HIDE DEF m
    <3> QED BY <2>1, <3>3, <3>4, <3>5 DEF ListsSoFar, Now
  <2> QED BY <2>7, <2>8
<1> QED BY <1>3, <1>4

\* What Merged returns, if it can be used, is a list if the value types have values.
LEMMA MergedLists ==
  ASSUME NEW ids, ids \subseteq 1..Len(value_types), Len(value_types) \in Nat,
         \A j \in ids : IsEntry(value_types[j]), Merged(ids) # Invalid
  PROVE  LET list == IF Merged(ids).kind = "multiple" THEN Merged(ids).value_list ELSE << >>
         IN Lists(list, ids) /\ (DOMAIN list = {} => list = << >>)
<1> DEFINE n == Len(value_types)
<1>1. PICK f : (\A i \in 0..n : f[i] = Round(ids, f, i)) /\ Merged(ids) = f[n]
  BY MergedIsLoop
<1> DEFINE T == {i \in Nat : i <= n => ListsSoFar(ids, f[i], i)}
<1>2. 0 \in T
  <2>1. f[0].kind = "none"
    BY <1>1 DEF Round
  <2>2. \A j \in ids : ~ j <= 0
    OBVIOUS
  <2> QED BY <2>1, <2>2 DEF ListsSoFar
<1>3. ASSUME NEW i \in Nat, i \in T
      PROVE  i + 1 \in T
  <2> SUFFICES ASSUME i + 1 <= n
               PROVE  ListsSoFar(ids, f[i + 1], i + 1)
    OBVIOUS
  <2>1. i + 1 \in 1..n /\ (i + 1) - 1 = i /\ i <= n
    OBVIOUS
  <2>2. ListsSoFar(ids, f[i], i)
    BY <1>3, <2>1
  <2>3. f[i + 1] = Round(ids, f, i + 1)
    BY <1>1, <2>1
  <2>4. ListsSoFar(ids, Round(ids, f, i + 1), i + 1)
    BY <2>1, <2>2, RoundLists
  <2> QED BY <2>3, <2>4
<1> HIDE DEF T
<1>4. n \in T
  BY <1>2, <1>3, Induction
<1>5. ListsSoFar(ids, Merged(ids), n)
  BY <1>1, <1>4 DEF T
<1>6. {j \in ids : j <= n} = ids
  <2>1. \A j \in ids : j <= n
    OBVIOUS
  <2> QED BY <2>1, Zenon
<1> DEFINE m == Merged(ids)
<1> HIDE DEF m
<1>7. /\ m.kind \in {"none", "single", "multiple"}
      /\ m.kind = "none" => ids = {}
      /\ m.kind = "single" => \A j \in ids : value_types[j].enum_address_value = << >>
      /\ m.kind = "multiple" => /\ ids # {}
                                /\ \A j \in ids : value_types[j].enum_address_value # << >>
                                /\ Lists(m.value_list, ids)
  BY <1>5, <1>6 DEF ListsSoFar, m
<1>8. CASE m.kind # "multiple"
  <2>1. \A j \in ids : value_types[j].enum_address_value = << >>
    BY <1>7, <1>8
  <2>2. Range(<< >>) = {} /\ DOMAIN << >> = {}
    BY DEF Range
  <2>3. Lists(<< >>, ids)
    BY <2>1, <2>2 DEF Lists
  <2> QED BY <1>8, <2>3 DEF m
<1>9. CASE m.kind = "multiple"
  <2>1. PICK j \in ids : value_types[j].enum_address_value # << >>
    BY <1>7, <1>9
  <2>2. value_types[j].enum_address_value = << value_types[j].enum_address_value[1] >>
    BY <2>1 DEF IsEntry, IsOption
  <2>3. Range(value_types[j].enum_address_value) # {}
    BY <2>2 DEF Range
  <2>4. DOMAIN m.value_list # {}
    BY <1>7, <1>9, <2>3 DEF Lists
  <2> QED BY <1>7, <1>9, <2>4 DEF m
<1> QED BY <1>8, <1>9

\* The value types have the vendor's values and descriptions, and an id that they may have;
\* the first loop has replaced no id that it has not come to.
IdsInv ==
  stage \in {"german", "english"} =>
    \A i \in 1..Len(value_types) :
      LET v == export.value_types[i]
          w == value_types[i]
      IN /\ {"enum_address_value", "enum_replace_value", "description"} \subseteq DOMAIN w
         /\ w.enum_address_value = v.enum_address_value /\ w.description = v.description
         /\ Replaced(v, w.enum_replace_value)
         /\ stage = "german" /\ i >= next => w.enum_replace_value = v.enum_replace_value

\* There are texts for the labels and, once they are fixed, for the fixed ids; the others
\* are those of values.
KnownInv ==
  /\ stage = "german" =>
       Labels \subseteq DOMAIN translations /\ DOMAIN translations \subseteq Labels \cup ValueIds
  /\ stage # "german" =>
       /\ FixedIds \subseteq DOMAIN translations_cleaned
       /\ \A id \in DOMAIN translations_cleaned : TextFits(id, translations_cleaned[id])

\* The event type e has the vendor's values, and what is a text of them may stand for them.
ListFits(e, id) ==
  /\ e.type_id = clean_event_type_name(export.event_types[id].name)
  /\ DOMAIN e.value_list = ListedValues(id) /\ (ListedValues(id) = {} => e.value_list = << >>)
  /\ \A n \in ListedValues(id) :
       e.value_list[n] \in DOMAIN translations_cleaned =>
         translations_cleaned[e.value_list[n]] \in Meanings(id, n)

ListsInv ==
  stage \in {"extend", "devices", "texts", "tables"} =>
    /\ DOMAIN event_types \subseteq DOMAIN export.event_types
    /\ \A id \in DOMAIN event_types :
         DOMAIN event_types[id] = DOMAIN NoEventTypeFields /\ ListFits(event_types[id], id)

\* The tables are made of texts that are there.
TextsThere == stage = "tables" => TextsKnown

\* The command of the event type id has the vendor's values, with texts that may stand for them.
CommandFits(mapping, id) ==
  IF ListedValues(id) = {} THEN mapping = << >>
  ELSE \E k \in DOMAIN used.mappings :
         /\ mapping = << k >> /\ DOMAIN used.mappings[k] = ListedValues(id)
         /\ \A n \in ListedValues(id) :
              used.translations[used.mappings[k][n]] \in Meanings(id, n)

UsedLists ==
  stage = "written" =>
    \A id \in DOMAIN used.event_types : CommandFits(used.event_types[id].mapping, id)

MeaningsInv ==
  OrderlyTexts => IdsInv /\ KnownInv /\ ListsInv /\ TextsThere /\ UsedLists /\ TextsMeanValues

\* What is read off the export is the same as long as that is.
LEMMA SameExport ==
  ASSUME UNCHANGED export
  PROVE  /\ Labels' = Labels /\ FixedIds' = FixedIds /\ Values' = Values /\ ValueIds' = ValueIds
         /\ OrderlyTexts' = OrderlyTexts
         /\ \A id : ListedValues(id)' = ListedValues(id)
         /\ \A id, text : TextFits(id, text)' = TextFits(id, text)
         /\ \A id, n : Meanings(id, n)' = Meanings(id, n)
         /\ \A v, id : Replaced(v, id)' = Replaced(v, id)
<1>1. Labels' = Labels /\ FixedIds' = FixedIds /\ Values' = Values /\ ValueIds' = ValueIds
  BY DEF Labels, FixedIds, Values, ValueIds
<1>2. translations_raw' = translations_raw
  BY DEF translations_raw
<1>3. \A id : TextsOf(id)' = TextsOf(id)
  BY <1>2 DEF TextsOf
<1>4. \A text : reverse_translations_raw(text)' = reverse_translations_raw(text)
  BY <1>2 DEF reverse_translations_raw
<1>5. \A v : (HasText(v)' <=> HasText(v)) /\ LedTo(v)' = LedTo(v)
  BY <1>3, <1>4 DEF HasText, LedTo
<1>6. OrderlyTexts' = OrderlyTexts
  BY <1>3, <1>5 DEF OrderlyTexts
<1>7. \A id : ListedValues(id)' = ListedValues(id)
  BY DEF ListedValues
<1>8. \A id, text : TextFits(id, text)' = TextFits(id, text)
  BY <1>1, <1>3 DEF TextFits
<1>9. \A v : TextsFor(v)' = TextsFor(v)
  <2>1. \A v : NamedTexts(v)' = NamedTexts(v) /\ DescribedTexts(v)' = DescribedTexts(v)
    BY <1>2, <1>3 DEF NamedTexts, DescribedTexts, DescribedIds
  <2> QED BY <2>1 DEF TextsFor
<1>10. \A id, n : Meanings(id, n)' = Meanings(id, n)
  BY <1>9 DEF Meanings
<1>11. \A v, id : Replaced(v, id)' = Replaced(v, id)
  BY <1>1, <1>5 DEF Replaced
<1> QED BY <1>1, <1>6, <1>7, <1>8, <1>10, <1>11

\* One more text is added.
LEMMA AddMeaning ==
  ASSUME BordersInv, ErrorsInv, OrderlyTexts, IdsInv, KnownInv,
         AddMissingGerman \/ AddMissingEnglish
  PROVE  IdsInv' /\ KnownInv'
<1> DEFINE v == value_types[next]
           v0 == export.value_types[next]
<1>1. PICK known : LET added == Added(v, known)
                   IN /\ stage \in {"german", "english"} /\ stage' = stage
                      /\ next <= Len(value_types) /\ next' = next + 1
                      /\ UNCHANGED export
                      /\ value_types' = [value_types EXCEPT ![next].enum_replace_value = added.id]
                      /\ \/ /\ stage = "german" /\ known = translations
                            /\ translations' = added.known
                         \/ /\ stage = "english" /\ known = translations_cleaned
                            /\ translations_cleaned' = added.known
  <2>1. CASE AddMissingGerman
    BY <2>1 DEF AddMissingGerman
  <2>2. CASE AddMissingEnglish
    BY <2>2 DEF AddMissingEnglish
  <2> QED BY <2>1, <2>2
<1> DEFINE added == Added(v, known)
           base == IF stage = "german" THEN Labels ELSE FixedIds
<1>2. export \in Exports /\ Len(value_types) = Len(export.value_types)
  BY DEF BordersInv, ValueTypesKept
<1>3. /\ Len(value_types) \in Nat /\ DOMAIN value_types = 1..Len(value_types)
      /\ Len(value_types') = Len(value_types)
  BY <1>1, LenProperties, ReplaceText DEF BordersInv, ValueTypesKept
<1>4. next \in 1..Len(value_types) /\ next \in Nat
  BY <1>1, <1>3 DEF ErrorsInv, ValuesInv
<1>5. v0 \in Values /\ IsString(v0.enum_replace_value)
  BY <1>2, <1>4, ProperTexts
<1>6. /\ {"enum_address_value", "enum_replace_value", "description"} \subseteq DOMAIN v
      /\ v.enum_address_value = v0.enum_address_value /\ v.description = v0.description
      /\ Replaced(v0, v.enum_replace_value)
      /\ stage = "german" => v.enum_replace_value = v0.enum_replace_value
  BY <1>1, <1>4 DEF IdsInv
<1>7. base \subseteq DOMAIN known /\ DOMAIN known \subseteq base \cup ValueIds
  <2>1. CASE stage = "german"
    BY <1>1, <2>1 DEF KnownInv
  <2>2. CASE stage = "english"
    <3>1. /\ known = translations_cleaned /\ FixedIds \subseteq DOMAIN known
          /\ \A id \in DOMAIN known : TextFits(id, known[id])
      BY <1>1, <2>2 DEF KnownInv
    <3>2. \A id \in DOMAIN known : id \in FixedIds \cup ValueIds
      BY <3>1 DEF TextFits, ValueIds
    <3> QED BY <2>2, <3>1, <3>2
  <2> QED BY <1>1, <2>1, <2>2
<1>8. /\ Replaced(v0, added.id)
      /\ \/ added.known = known
         \/ /\ StripAt(v0.enum_replace_value) \notin DOMAIN known
            /\ \E text \in {v0.description, v0.enum_replace_value} :
                 added.known = WithText(known, v0.enum_replace_value, text)
  <2>1. (base = Labels /\ v.enum_replace_value = v0.enum_replace_value) \/ base = FixedIds
    BY <1>6
  <2> HIDE DEF base, v, v0
  <2> QED BY <1>2, <1>5, <1>6, <1>7, <2>1, AddMeans
<1>9. value_types' = [value_types EXCEPT ![next].enum_replace_value = added.id]
  BY <1>1
<1> HIDE DEF added, v, base
<1>10. ASSUME NEW i \in 1..Len(value_types)
       PROVE  LET w == value_types'[i]
                  u == export.value_types[i]
              IN /\ {"enum_address_value", "enum_replace_value", "description"} \subseteq DOMAIN w
                 /\ w.enum_address_value = u.enum_address_value /\ w.description = u.description
                 /\ Replaced(u, w.enum_replace_value)
                 /\ stage = "german" /\ i >= next + 1 =>
                      w.enum_replace_value = u.enum_replace_value
  <2>1. CASE i = next
    <3>1. value_types'[i] = [v EXCEPT !.enum_replace_value = added.id]
      BY <1>3, <1>9, <2>1 DEF v
    <3>2. /\ DOMAIN value_types'[i] = DOMAIN v /\ value_types'[i].enum_replace_value = added.id
          /\ value_types'[i].description = v.description
          /\ value_types'[i].enum_address_value = v.enum_address_value
      BY <1>6, <3>1
    <3>3. ~(i >= next + 1)
      BY <1>4, <2>1
    <3> QED BY <1>6, <1>8, <2>1, <3>2, <3>3
  <2>2. CASE i # next
    <3>1. value_types'[i] = value_types[i]
      BY <1>3, <1>9, <2>2
    <3>2. i >= next + 1 => i >= next
      BY <1>4
    <3> QED BY <1>1, <3>1, <3>2 DEF IdsInv
  <2> QED BY <2>1, <2>2
<1>11. IdsInv'
  BY <1>1, <1>3, <1>10, SameExport DEF IdsInv
<1>12. ASSUME stage = "german"
       PROVE  /\ Labels \subseteq DOMAIN added.known
              /\ DOMAIN added.known \subseteq Labels \cup ValueIds
  <2>1. StripAt(v0.enum_replace_value) \in ValueIds
    BY <1>5 DEF ValueIds
  <2>2. \A text : DOMAIN WithText(known, v0.enum_replace_value, text)
                    = DOMAIN known \cup {StripAt(v0.enum_replace_value)}
    BY DEF WithText
  <2>3. base = Labels
    BY <1>12 DEF base
  <2>4. \/ DOMAIN added.known = DOMAIN known
        \/ DOMAIN added.known = DOMAIN known \cup {StripAt(v0.enum_replace_value)}
    BY <1>8, <2>2
  <2> HIDE DEF v0
  <2> QED BY <1>7, <2>1, <2>3, <2>4
<1>13. ASSUME stage = "english"
       PROVE  /\ FixedIds \subseteq DOMAIN added.known
              /\ \A id \in DOMAIN added.known : TextFits(id, added.known[id])
  <2> DEFINE id0 == StripAt(v0.enum_replace_value)
  <2>1. /\ FixedIds \subseteq DOMAIN known
        /\ \A id \in DOMAIN known : TextFits(id, known[id])
    BY <1>1, <1>13 DEF KnownInv
  <2>2. CASE added.known = known
    BY <2>1, <2>2
  <2>3. CASE /\ id0 \notin DOMAIN known
             /\ \E text \in {v0.description, v0.enum_replace_value} :
                  added.known = WithText(known, v0.enum_replace_value, text)
    <3>1. PICK text \in {v0.description, v0.enum_replace_value} :
            added.known = WithText(known, v0.enum_replace_value, text)
      BY <2>3
    <3>2. /\ DOMAIN added.known = DOMAIN known \cup {id0} /\ added.known[id0] = text
          /\ \A id \in DOMAIN known : added.known[id] = known[id]
      BY <2>3, <3>1 DEF WithText
    <3>3. id0 \notin FixedIds
      BY <2>1, <2>3
    <3>4. TextFits(id0, text)
      BY <1>5, <3>3 DEF TextFits
    <3> HIDE DEF id0
    <3> QED BY <2>1, <3>2, <3>4
  <2> QED BY <1>8, <2>2, <2>3
<1>14. KnownInv'
  BY <1>1, <1>12, <1>13, SameExport DEF KnownInv, added
<1> QED BY <1>11, <1>14

\* The fixed ids get the texts of their labels.
LEMMA CleanedTexts ==
  ASSUME BordersInv, IdsInv, CleanTranslations
  PROVE  IdsInv' /\ KnownInv'
<1> DEFINE Same(id) == {i \in DOMAIN export.labels : translation_fixes(export.labels[i]) = id}
           LastOf(id) == export.labels[Max(Same(id))]
<1>1. /\ stage = "german" /\ stage' = "english" /\ UNCHANGED << export, value_types >>
      /\ translations_cleaned' = [id \in {translation_fixes(l) : l \in ToSet(export.labels)} |->
                                    ErrorText(LastOf(id))]
  BY DEF CleanTranslations, ErrorText
<1>2. /\ export \in Exports
      /\ DOMAIN export.labels = 1..Len(export.labels) /\ Len(export.labels) \in Nat
      /\ Labels = {export.labels[i] : i \in 1..Len(export.labels)}
  BY ProperErrors DEF BordersInv, ValueTypesKept
<1>3. ToSet(export.labels) = Labels
  BY <1>2 DEF ToSet
<1>4. DOMAIN translations_cleaned' = FixedIds
  BY <1>1, <1>3 DEF FixedIds
<1>5. ASSUME NEW id \in FixedIds
      PROVE  TextFits(id, translations_cleaned'[id])
  <2>1. Same(id) # {} /\ Same(id) \subseteq 1..Len(export.labels)
    BY <1>2 DEF FixedIds
  <2>2. Max(Same(id)) \in Same(id)
    <3>1. Same(id) \in SUBSET Nat /\ IsFiniteSet(Same(id))
      <4>1. IsFiniteSet(1..Len(export.labels))
        BY <1>2, FS_Interval
      <4> HIDE DEF Same
      <4> QED BY <1>2, <2>1, <4>1, FS_Subset
    <3> HIDE DEF Same
    <3> QED BY <2>1, <3>1, GreatestNumber
  <2>3. LastOf(id) \in Labels /\ translation_fixes(LastOf(id)) = id
    BY <1>2, <2>2
  <2> HIDE DEF LastOf
  <2>4. translations_cleaned'[id] = ErrorText(LastOf(id))
    BY <1>1, <1>4
  <2>5. ErrorText(LastOf(id)) \in TextsOf(id)
    BY <2>3 DEF TextsOf, ErrorText, Labels
  <2> QED BY <2>4, <2>5 DEF TextFits
<1>6. stage' = "english" /\ UNCHANGED export
  BY <1>1
<1>7. KnownInv'
  BY <1>4, <1>5, <1>6, SameExport DEF KnownInv
<1>8. IdsInv'
  BY <1>1, SameExport DEF IdsInv
<1> QED BY <1>7, <1>8

\* The event types are made with the vendor's values.
LEMMA CleanLists ==
  ASSUME BordersInv, OrderlyTexts, IdsInv, KnownInv, CleanEventTypes
  PROVE  ListsInv'
<1>1. /\ stage = "english" /\ stage' = "extend"
      /\ UNCHANGED << export, value_types, translations_cleaned >>
      /\ Mergeable
      /\ event_types' = [id \in DOMAIN export.event_types |->
                           CleanEventType(export.event_types[id])]
  BY DEF CleanEventTypes
<1>2. export \in Exports /\ Len(value_types) = Len(export.value_types)
  BY DEF BordersInv, ValueTypesKept
<1>3. Len(value_types) \in Nat /\ DOMAIN value_types = 1..Len(value_types)
  BY LenProperties DEF BordersInv, ValueTypesKept
<1>4. ASSUME NEW i \in 1..Len(value_types)
      PROVE  /\ IsEntry(value_types[i])
             /\ value_types[i].enum_address_value = export.value_types[i].enum_address_value
             /\ Replaced(export.value_types[i], value_types[i].enum_replace_value)
  <2> DEFINE v == export.value_types[i]
             w == value_types[i]
  <2>1. /\ w.enum_address_value = v.enum_address_value
        /\ Replaced(v, w.enum_replace_value)
    BY <1>1 DEF IdsInv
  <2>2. v \in Values
    BY <1>2, ProperTexts
  <2>3. IsOption(v.enum_address_value)
    BY <1>2, <2>2, ProperTexts
  <2>4. w.data_type = v.data_type /\ w.name = v.name
    BY DEF BordersInv, ValueTypesKept, Fields
  <2>5. w.data_type \in DataTypes
    BY <1>1, <1>3 DEF Mergeable, DataTypes
  <2>6. v.enum_address_value # << >> =>
          v.data_type \in {"NText", "VarChar"} /\ v.name.words # Ecotronic_Party
    BY <2>2 DEF OrderlyTexts, Values
  <2> HIDE DEF v, w
  <2>7. IsEntry(w)
    BY <2>1, <2>3, <2>4, <2>5, <2>6 DEF IsEntry
  <2> QED BY <2>1, <2>7 DEF v, w
<1>5. ASSUME NEW id \in DOMAIN event_types'
      PROVE  /\ DOMAIN event_types'[id] = DOMAIN NoEventTypeFields
             /\ id \in DOMAIN export.event_types
             /\ ListFits(event_types'[id], id)
  <2> DEFINE e == export.event_types[id]
             c == event_types'[id]
             m == Merged(e.value_types)
  <2>1. id \in DOMAIN export.event_types /\ c = CleanEventType(e)
    BY <1>1
  <2>2. e.value_types \subseteq 1..Len(value_types) /\ m # Invalid
    <3>1. e \in Range(export.event_types)
      BY <2>1 DEF Range
    <3>2. e.value_types \subseteq DOMAIN value_types /\ m # Invalid
      <4> HIDE DEF e
      <4> QED BY <1>1, <3>1 DEF Mergeable
    <3> HIDE DEF e, m
    <3> QED BY <1>3, <3>2
  <2>3. /\ DOMAIN c = DOMAIN NoEventTypeFields /\ c.type_id = clean_event_type_name(e.name)
        /\ c.value_list = IF m.kind = "multiple" THEN m.value_list ELSE << >>
    <3> HIDE DEF e, c
    <3>1. DOMAIN c = DOMAIN NoEventTypeFields
      BY <2>1 DEF CleanEventType
    <3>2. c.type_id = clean_event_type_name(e.name)
      BY <2>1 DEF CleanEventType, NoEventTypeFields
    <3>3. c.value_list = IF m.kind = "multiple" THEN m.value_list ELSE << >>
      BY <2>1 DEF CleanEventType, NoEventTypeFields
    <3> QED BY <3>1, <3>2, <3>3
  <2> HIDE DEF c
  <2>4. Lists(c.value_list, e.value_types) /\ (DOMAIN c.value_list = {} => c.value_list = << >>)
    <3> DEFINE ids == e.value_types
    <3>1. ids \subseteq 1..Len(value_types) /\ Merged(ids) # Invalid
      BY <2>2
    <3>2. \A j \in ids : IsEntry(value_types[j])
      BY <1>4, <3>1
    <3>3. c.value_list = IF Merged(ids).kind = "multiple" THEN Merged(ids).value_list ELSE << >>
      BY <2>3
    <3> HIDE DEF ids
    <3>4. Lists(c.value_list, ids) /\ (DOMAIN c.value_list = {} => c.value_list = << >>)
      BY <1>3, <3>1, <3>2, <3>3, MergedLists
    <3> QED BY <3>4 DEF ids
  <2>5. DOMAIN c.value_list = ListedValues(id)
    BY <1>4, <2>2, <2>4 DEF Lists, ListedValues
  <2>6. ASSUME NEW n \in ListedValues(id), c.value_list[n] \in DOMAIN translations_cleaned
        PROVE  translations_cleaned[c.value_list[n]] \in Meanings(id, n)
    <3>1. PICK i \in e.value_types : /\ value_types[i].enum_address_value = << n >>
                                     /\ c.value_list[n] = ListId(value_types[i])
      BY <2>4, <2>5 DEF Lists
    <3> DEFINE v == export.value_types[i]
               text == translations_cleaned[c.value_list[n]]
    <3>2. /\ v.enum_address_value = << n >> /\ Replaced(v, value_types[i].enum_replace_value)
          /\ v \in Values
      BY <1>2, <1>4, <2>2, <3>1, ProperTexts
    <3>3. TextFits(FixedId(StripAt(value_types[i].enum_replace_value)), text)
      BY <1>1, <2>6, <3>1 DEF KnownInv, ListId
    <3>4. text \in TextsFor(v)
      <4> HIDE DEF v, text
      <4> QED BY <1>2, <3>2, <3>3, TextMeans
    <3> QED BY <3>2, <3>4 DEF Meanings
  <2> QED BY <2>1, <2>3, <2>4, <2>5, <2>6 DEF ListFits, c
<1>6. \A e, id : ListFits(e, id)' = ListFits(e, id)
  BY <1>1, SameExport DEF ListFits
<1> QED BY <1>1, <1>5, <1>6 DEF ListsInv

\* A table extension changes no list, and a filter leaves what it keeps alone.
LEMMA ExtendLists ==
  ASSUME ListsInv, ExtendEventType \/ FilterEventTypes
  PROVE  ListsInv'
<1>1. /\ stage = "extend" /\ stage' \in {"extend", "devices"}
      /\ UNCHANGED << export, translations_cleaned >>
      /\ DOMAIN event_types' \subseteq DOMAIN event_types
  BY DEF ExtendEventType, FilterEventTypes, Supported
<1>2. ASSUME NEW id \in DOMAIN event_types'
      PROVE  /\ DOMAIN event_types'[id] = DOMAIN event_types[id]
             /\ event_types'[id].type_id = event_types[id].type_id
             /\ event_types'[id].value_list = event_types[id].value_list
  <2>1. {"type_id", "value_list"} \subseteq DOMAIN event_types[id]
    BY <1>1 DEF ListsInv, NoEventTypeFields
  <2>2. CASE ExtendEventType
    <3>1. /\ event_types' =
               [event_types EXCEPT ![Extension.id][Extension.field] = Extended(Extension, @)]
          /\ Extension.field \notin {"type_id", "value_list"}
      BY <2>2 DEF ExtendEventType, EventTypeFields
    <3>2. \/ event_types'[id] = event_types[id]
          \/ \E x : event_types'[id] = [event_types[id] EXCEPT ![Extension.field] = x]
      BY <1>1, <3>1
    <3> QED BY <2>1, <3>1, <3>2
  <2>3. CASE FilterEventTypes
    <3>1. event_types'[id] = Kept(event_types[id])
      BY <2>3 DEF FilterEventTypes
    <3>2. \E c, b : event_types'[id] = [event_types[id] EXCEPT !.conversion = c, !.block_factor = b]
      BY <3>1 DEF Kept
    <3> QED BY <2>1, <3>2
  <2> QED BY <2>2, <2>3
<1>3. \A e, id : ListFits(e, id)' = ListFits(e, id)
  BY <1>1, SameExport DEF ListFits
<1>4. ASSUME NEW id \in DOMAIN event_types'
      PROVE  ListFits(event_types'[id], id)
  BY <1>1, <1>2 DEF ListsInv, ListFits
<1> QED BY <1>1, <1>2, <1>3, <1>4 DEF ListsInv

\* The table of an event type is there, by its name, and leads to the texts.
LEMMA ListTables ==
  ASSUME BordersInv, ErrorsInv, OrderlyTexts, ListsInv, TextsThere,
         stage = "tables", tables.reversed = {},
         NEW id \in DOMAIN event_types, ListedValues(id) # {}
  PROVE  LET k == tables.mapping[event_types[id].type_id]
         IN /\ event_types[id].value_list # << >>
            /\ DOMAIN tables.combined[k] = ListedValues(id)
            /\ \A n \in ListedValues(id) :
                 texts.combined[tables.combined[k][n]] \in Meanings(id, n)
<1> DEFINE e == event_types[id]
           list == e.value_list
           Of(name) == {i \in Listed : event_types[i].type_id = name}
<1>1. export \in Exports /\ Numbering(texts) /\ texts.reversed = {}
      /\ texts.map = translations_cleaned
      /\ Numbering(tables) /\ tables.map = all_mappings
  BY DEF BordersInv, ValueTypesKept, ErrorsInv, NumbersInv
<1>2. ListFits(e, id) /\ DOMAIN event_types \subseteq DOMAIN export.event_types
      /\ \A i \in DOMAIN event_types :
           event_types[i].type_id = clean_event_type_name(export.event_types[i].name)
  BY DEF ListsInv, ListFits
<1>3. DOMAIN list = ListedValues(id) /\ list # << >>
  <2>1. DOMAIN << >> = {}
    OBVIOUS
  <2> QED BY <1>2, <2>1 DEF ListFits
<1>4. id \in Listed /\ Listed \subseteq DOMAIN event_types
  BY <1>3 DEF Listed
<1>5. Of(e.type_id) = {id}
  BY <1>2, <1>4 DEF OrderlyTexts
<1>6. Max({id}) = id
  <2>1. id \in Nat
    BY <1>1, <1>2, ProperTexts
  <2>2. IsFiniteSet({id})
    BY FS_Singleton
  <2>3. Max({id}) \in {id}
    BY <2>1, <2>2, GreatestNumber
  <2> QED BY <2>3
<1>7. /\ e.type_id \in DOMAIN mappings
      /\ mappings[e.type_id] = [n \in DOMAIN list |-> texts.mapping[list[n]]]
  <2>1. mappings = [type_id \in {event_types[i].type_id : i \in Listed} |->
                      [n \in DOMAIN event_types[Max(Of(type_id))].value_list |->
                         texts.mapping[event_types[Max(Of(type_id))].value_list[n]]]]
    BY DEF mappings
  <2>2. e.type_id \in {event_types[i].type_id : i \in Listed}
    BY <1>4
  <2> HIDE DEF Of
  <2>3. Max(Of(e.type_id)) = id
    BY <1>5, <1>6
  <2> QED BY <2>1, <2>2, <2>3
<1>8. e.type_id \in DOMAIN all_mappings /\ all_mappings[e.type_id] = mappings[e.type_id]
  BY <1>7 DEF all_mappings
<1>9. tables.combined[tables.mapping[e.type_id]] = [n \in DOMAIN list |-> texts.mapping[list[n]]]
  BY <1>1, <1>7, <1>8, NumbersLead
<1>10. ASSUME NEW n \in ListedValues(id)
       PROVE  texts.combined[texts.mapping[list[n]]] \in Meanings(id, n)
  <2>1. list[n] \in DOMAIN texts.mapping
    BY <1>3, <1>4 DEF TextsThere, TextsKnown
  <2>2. list[n] \in DOMAIN translations_cleaned
        /\ texts.combined[texts.mapping[list[n]]] = translations_cleaned[list[n]]
    BY <1>1, <2>1, NumbersLead
  <2> QED BY <1>2, <2>2 DEF ListFits
<1> HIDE DEF list, e
<1> QED BY <1>3, <1>9, <1>10 DEF list, e

\* The files have the tables and the texts of the commands.
LEMMA UseLists ==
  ASSUME BordersInv, ErrorsInv, OrderlyTexts, ListsInv, TextsThere, Use
  PROVE  UsedLists'
<1> DEFINE commands == [id \in CommandIds |-> from_event_type(event_types[id])]
           numbers == TablesUsed(commands)
<1>1. /\ stage = "tables" /\ tables.reversed = {}
      /\ UNCHANGED export
      /\ used'.event_types = commands
      /\ used'.mappings = [k \in numbers |-> tables.combined[k]]
      /\ used'.translations = [k \in TextsUsed(numbers) |-> texts.combined[k]]
  BY DEF Use
<1>2. CommandIds \subseteq DOMAIN event_types
  <2>1. \A name \in DOMAIN devices_used :
          /\ name \in DOMAIN data_point_types
          /\ devices_used[name].commands = data_point_types[name].event_types
    BY DEF devices_used, devices_cleaned
  <2>2. \A name \in DOMAIN data_point_types :
          data_point_types[name].event_types \subseteq DOMAIN event_types
    BY <1>1 DEF BordersInv, DevicesLinked
  <2> HIDE DEF devices_used
  <2> QED BY <2>1, <2>2 DEF CommandIds
<1>3. DOMAIN commands = CommandIds
      /\ \A id \in CommandIds : commands[id] = from_event_type(event_types[id])
  OBVIOUS
<1> HIDE DEF commands
<1>4. ASSUME NEW id \in DOMAIN used'.event_types
      PROVE  LET mapping == used'.event_types[id].mapping
             IN IF ListedValues(id) = {} THEN mapping = << >>
                ELSE \E k \in DOMAIN used'.mappings :
                       /\ mapping = << k >> /\ DOMAIN used'.mappings[k] = ListedValues(id)
                       /\ \A n \in ListedValues(id) :
                            used'.translations[used'.mappings[k][n]] \in Meanings(id, n)
  <2> DEFINE e == event_types[id]
             k == tables.mapping[e.type_id]
  <2>1. id \in CommandIds /\ id \in DOMAIN event_types
    BY <1>1, <1>2, <1>3
  <2>2. used'.event_types[id].mapping = IF e.value_list = << >> THEN << >> ELSE << k >>
    BY <1>1, <1>3, <2>1 DEF from_event_type
  <2>3. CASE ListedValues(id) = {}
    <3>1. e.value_list = << >>
      BY <1>1, <2>1, <2>3 DEF ListsInv, ListFits
    <3> QED BY <2>2, <2>3, <3>1
  <2>4. CASE ListedValues(id) # {}
    <3>1. /\ e.value_list # << >> /\ DOMAIN tables.combined[k] = ListedValues(id)
          /\ \A n \in ListedValues(id) :
               texts.combined[tables.combined[k][n]] \in Meanings(id, n)
      BY <1>1, <2>1, <2>4, ListTables
    <3>2. commands[id].mapping = << k >>
      BY <1>1, <2>2, <3>1
    <3> HIDE DEF k, e
    <3>3. k \in numbers
      <4>1. k \in Range(commands[id].mapping)
        <5>1. k \in Range(<< k >>)
          BY DEF Range
        <5> QED BY <3>2, <5>1
      <4> QED BY <1>3, <2>1, <4>1 DEF TablesUsed
    <3> HIDE DEF numbers
    <3>4. k \in DOMAIN used'.mappings /\ used'.mappings[k] = tables.combined[k]
      BY <1>1, <3>3
    <3>5. ASSUME NEW n \in ListedValues(id)
          PROVE  used'.translations[used'.mappings[k][n]] \in Meanings(id, n)
      <4>1. tables.combined[k][n] \in Range(tables.combined[k])
        BY <3>1 DEF Range
      <4>2. tables.combined[k][n] \in TextsUsed(numbers)
        BY <3>3, <4>1 DEF TextsUsed
      <4> QED BY <1>1, <3>1, <3>4, <4>2
    <3> QED BY <1>1, <2>4, <3>1, <3>2, <3>4, <3>5
  <2> QED BY <2>3, <2>4
<1>5. /\ \A id : ListedValues(id)' = ListedValues(id)
      /\ \A id, n : Meanings(id, n)' = Meanings(id, n)
  BY <1>1, SameExport
<1> QED BY <1>4, <1>5 DEF UsedLists, CommandFits

\* The program has what the files have.
LEMMA BuildLists ==
  ASSUME NothingDangling, UsedLists, Build
  PROVE  TextsMeanValues'
<1>1. /\ stage = "written" /\ UNCHANGED << export, used >>
      /\ program'.commands = used.event_types
      /\ program'.mappings = [k \in DOMAIN used.mappings |-> MappingTexts(used, k)]
      /\ program'.devices = [name \in DOMAIN used.devices |->
                               [commands |-> CommandsOf(used, name),
                                errors |-> used.devices[name].error_mapping]]
  BY DEF Build
<1>2. ASSUME NEW name \in DOMAIN program'.devices,
             NEW id \in Range(program'.devices[name].commands),
             program'.commands[id].data_type # "Error"
      PROVE  LET shown == Shown(name, program.commands[id])'
             IN /\ DOMAIN shown = ListedValues(id)
                /\ \A n \in ListedValues(id) : shown[n] \in Meanings(id, n)
  <2> DEFINE mapping == used.event_types[id].mapping
             shown == Shown(name, program.commands[id])'
             ids == used.devices[name].commands
  <2>1. name \in DOMAIN used.devices /\ id \in Range(CommandsOf(used, name))
    BY <1>1
  <2>2. id \in ids
    <3>1. PICK n \in {used.event_types[i].name : i \in ids} :
            id = CHOOSE i \in ids : used.event_types[i].name = n
      BY <2>1 DEF CommandsOf, Range
    <3> QED BY <3>1
  <2>3. id \in DOMAIN used.event_types
    BY <1>1, <2>1, <2>2 DEF NothingDangling, Range
  <2>4. CommandFits(mapping, id)
    BY <1>1, <2>3 DEF UsedLists
  <2>5. shown = IF mapping = << >> THEN << >> ELSE program'.mappings[mapping[1]]
    BY <1>1, <1>2 DEF Shown, TableFor
  <2> HIDE DEF mapping, shown, ids
  <2>6. CASE ListedValues(id) = {}
    <3>1. shown = << >>
      BY <2>4, <2>5, <2>6 DEF CommandFits
    <3>2. DOMAIN << >> = {}
      OBVIOUS
    <3> QED BY <2>6, <3>1, <3>2 DEF shown
  <2>7. CASE ListedValues(id) # {}
    <3>1. PICK k \in DOMAIN used.mappings :
            /\ mapping = << k >> /\ DOMAIN used.mappings[k] = ListedValues(id)
            /\ \A n \in ListedValues(id) :
                 used.translations[used.mappings[k][n]] \in Meanings(id, n)
      BY <2>4, <2>7 DEF CommandFits
    <3>2. mapping # << >> /\ mapping[1] = k
      BY <3>1
    <3>3. shown = [n \in DOMAIN used.mappings[k] |-> used.translations[used.mappings[k][n]]]
      BY <1>1, <2>5, <3>1, <3>2 DEF MappingTexts
    <3> QED BY <3>1, <3>3 DEF shown
  <2> QED BY <2>6, <2>7
<1>3. /\ \A id : ListedValues(id)' = ListedValues(id)
      /\ \A id, n : Meanings(id, n)' = Meanings(id, n)
  BY <1>1, SameExport
<1> QED BY <1>2, <1>3 DEF TextsMeanValues

\* The other steps leave alone what the texts of the values are made of.
LEMMA MeaningsKeep ==
  ASSUME MeaningsInv,
         UNCHANGED << export, value_types, translations, translations_cleaned, event_types, used >>,
         \/ /\ stage \notin {"german", "english"} /\ stage' = stage
            /\ next' \in {next, next + 1} /\ UNCHANGED program
         \/ stage' = stage /\ UNCHANGED << next, program >>
         \/ stage = "devices" /\ stage' = "texts"
         \/ stage' = "panic" /\ stage # "german",
         stage = "tables" => UNCHANGED texts
  PROVE  MeaningsInv'
<1> SUFFICES ASSUME OrderlyTexts'
             PROVE  MeaningsInv'
  BY DEF MeaningsInv
<1>1. OrderlyTexts
  BY SameExport
<1>2. IdsInv'
  BY <1>1, SameExport DEF MeaningsInv, IdsInv
<1>3. KnownInv'
  BY <1>1, SameExport DEF MeaningsInv, KnownInv
<1>4. ListsInv'
  BY <1>1, SameExport DEF MeaningsInv, ListsInv, ListFits
<1>5. TextsThere'
  BY <1>1 DEF MeaningsInv, TextsThere, TextsKnown, Listed
<1>6. UsedLists'
  BY <1>1, SameExport DEF MeaningsInv, UsedLists, CommandFits
<1>7. TextsMeanValues'
  <2>1. CASE stage' = "built"
    <3>1. stage = "built" /\ UNCHANGED program
      BY <2>1
    <3> QED BY <1>1, <3>1, SameExport DEF MeaningsInv, TextsMeanValues, Shown, TableFor
  <2> QED BY <2>1 DEF TextsMeanValues
<1> QED BY <1>2, <1>3, <1>4, <1>5, <1>6, <1>7 DEF MeaningsInv

\* Whatever the tables are, if the vendor's texts are not confused by the fixes, a number is
\* shown with a text if and only if the vendor lists it for the command, and then with one
\* that may stand for it.
THEOREM ValuesAreRight == ReleaseSpec => [](OrderlyTexts => TextsMeanValues)
<1>1. ReleaseInit => MeaningsInv
  <2> SUFFICES ASSUME ReleaseInit, OrderlyTexts PROVE MeaningsInv
    BY DEF MeaningsInv
  <2>1. /\ export \in Exports /\ stage = "german" /\ next = 1
        /\ value_types = export.value_types
        /\ translations = [l \in ToSet(export.labels) |-> translations_raw[l].de]
    BY DEF ReleaseInit, Init
  <2>2. IdsInv
    <3>1. ASSUME NEW i \in 1..Len(value_types)
          PROVE  /\ {"enum_address_value", "enum_replace_value", "description"}
                      \subseteq DOMAIN value_types[i]
                 /\ Replaced(export.value_types[i], value_types[i].enum_replace_value)
      <4>1. export.value_types[i] \in Values
        BY <2>1, ProperTexts
      <4> QED BY <2>1, <4>1, ProperTexts DEF Replaced
    <3> QED BY <2>1, <3>1 DEF IdsInv
  <2>3. KnownInv
    <3>1. DOMAIN translations = Labels
      BY <2>1, ProperErrors DEF ToSet
    <3> QED BY <2>1, <3>1 DEF KnownInv
  <2> QED BY <2>1, <2>2, <2>3
          DEF MeaningsInv, ListsInv, TextsThere, UsedLists, TextsMeanValues
<1>2. BordersInv /\ ErrorsInv /\ NothingDangling /\ MeaningsInv /\ [ReleaseNext]_ReleaseVars
        => MeaningsInv'
  <2> SUFFICES ASSUME BordersInv, ErrorsInv, NothingDangling, MeaningsInv,
                      [ReleaseNext]_ReleaseVars
               PROVE  MeaningsInv'
    OBVIOUS
  <2>1. CASE AddMissingGerman \/ AddMissingEnglish
    <3>1. stage \in {"german", "english"} /\ stage' = stage /\ UNCHANGED export
      BY <2>1 DEF AddMissingGerman, AddMissingEnglish
    <3> SUFFICES ASSUME OrderlyTexts'
                 PROVE  MeaningsInv'
      BY DEF MeaningsInv
    <3>2. OrderlyTexts
      BY <3>1, SameExport
    <3>3. IdsInv' /\ KnownInv'
      BY <2>1, <3>2, AddMeaning DEF MeaningsInv
    <3> QED BY <3>1, <3>3 DEF MeaningsInv, ListsInv, TextsThere, UsedLists, TextsMeanValues
  <2>2. CASE CleanTranslations
    <3>1. stage' = "english" /\ UNCHANGED export
      BY <2>2 DEF CleanTranslations
    <3> SUFFICES ASSUME OrderlyTexts'
                 PROVE  MeaningsInv'
      BY DEF MeaningsInv
    <3>2. OrderlyTexts
      BY <3>1, SameExport
    <3>3. IdsInv' /\ KnownInv'
      BY <2>2, <3>2, CleanedTexts DEF MeaningsInv
    <3> QED BY <3>1, <3>3 DEF MeaningsInv, ListsInv, TextsThere, UsedLists, TextsMeanValues
  <2>3. CASE CleanEventTypes \/ ExtendEventType \/ FilterEventTypes \/ CollectTables \/ Use \/ Build
    <3>1. /\ stage # "german" /\ UNCHANGED << export, translations_cleaned >>
          /\ stage' \in {"extend", "devices", "tables", "written", "built"}
      BY <2>3 DEF CleanEventTypes, ExtendEventType, FilterEventTypes, CollectTables, Use, Build
    <3> SUFFICES ASSUME OrderlyTexts'
                 PROVE  MeaningsInv'
      BY DEF MeaningsInv
    <3>2. OrderlyTexts
      BY <3>1, SameExport
    <3>3. IdsInv /\ KnownInv /\ ListsInv /\ TextsThere /\ UsedLists
      BY <3>2 DEF MeaningsInv
    <3>4. IdsInv' /\ KnownInv'
      BY <3>1, <3>3, SameExport DEF IdsInv, KnownInv
    <3>5. ListsInv' /\ TextsThere' /\ UsedLists' /\ TextsMeanValues'
      <4>1. CASE CleanEventTypes
        <5>1. stage' = "extend"
          BY <4>1 DEF CleanEventTypes
        <5> QED BY <3>2, <3>3, <4>1, <5>1, CleanLists
                DEF TextsThere, UsedLists, TextsMeanValues
      <4>2. CASE ExtendEventType \/ FilterEventTypes
        <5>1. stage' \in {"extend", "devices"}
          BY <4>2 DEF ExtendEventType, FilterEventTypes
        <5> QED BY <3>3, <4>2, <5>1, ExtendLists
                DEF TextsThere, UsedLists, TextsMeanValues
      <4>3. CASE CollectTables
        <5>1. /\ stage = "texts" /\ stage' = "tables" /\ UNCHANGED << event_types, texts >>
              /\ TextsKnown
          BY <4>3 DEF CollectTables
        <5>2. ListsInv'
          BY <3>1, <3>3, <5>1, SameExport DEF ListsInv, ListFits
        <5>3. TextsThere'
          BY <5>1 DEF TextsThere, TextsKnown, Listed
        <5> QED BY <5>1, <5>2, <5>3 DEF UsedLists, TextsMeanValues
      <4>4. CASE Use
        <5>1. stage' = "written"
          BY <4>4 DEF Use
        <5> QED BY <3>2, <3>3, <4>4, <5>1, UseLists DEF ListsInv, TextsThere, TextsMeanValues
      <4>5. CASE Build
        <5>1. stage' = "built"
          BY <4>5 DEF Build
        <5> QED BY <3>3, <4>5, <5>1, BuildLists DEF ListsInv, TextsThere, UsedLists
      <4> QED BY <2>3, <4>1, <4>2, <4>3, <4>4, <4>5
    <3> QED BY <3>4, <3>5 DEF MeaningsInv
  <2>4. CASE /\ UNCHANGED << export, value_types, translations, translations_cleaned, event_types,
                             used >>
             /\ \/ /\ stage \notin {"german", "english"} /\ stage' = stage
                   /\ next' \in {next, next + 1} /\ UNCHANGED program
                \/ stage' = stage /\ UNCHANGED << next, program >>
                \/ stage = "devices" /\ stage' = "texts"
                \/ stage' = "panic" /\ stage # "german"
             /\ stage = "tables" => UNCHANGED texts
    BY <2>4, MeaningsKeep
  <2> QED BY <2>1, <2>2, <2>3, <2>4
          DEF Next, InvalidValueTypes, UnnamedValue, Unlinked, ExtendDevice, PassExtension,
              UnhandledExtension, UnsupportedBlocks, UnknownConversion, FilterDataPointTypes,
              NumberTexts, UnknownText, NumberTables, Unusable, Panic, ReleaseNext, ReleaseVars,
              vars, Generate, BuildFails, Connect, Detect
<1>3. MeaningsInv => (OrderlyTexts => TextsMeanValues)
  BY DEF MeaningsInv
<1> QED BY <1>1, <1>2, <1>3, BordersInvariance, ErrorsInvariance, FilesAreClosed, PTL
        DEF ReleaseSpec, ReleaseVars

-----------------------------------------------------------------------------
(* Detection *)

\* The tables are such that every id has its devices apart: all or none of them have
\* an index; an F0 identifier is only with the indices that it is read for; and of
\* the devices for one index, all or none have one.
OrderlyRanges ==
  \A d, e \in Detection!Devices : d.id = e.id =>
    /\ d.software_index = << >> <=> e.software_index = << >>
    /\ d.id \in 192..203 => \A n \in 200..255 :
         /\ d.f0 \notin {<< >>, << Detection!Unset >>} => Detection!IsForIndex(d, n)
         /\ Detection!IsForIndex(d, n) /\ Detection!IsForIndex(e, n) =>
              (d.f0 = << >> <=> e.f0 = << >>)

\* The numbers of a controller, a byte and two.
ProperController == device_id.software_index \in 0..255 /\ device_id.f0 \in 0..Detection!Unset

\* Are d's index and F0 identifier what the loops look for?
HitsF0(d) == Detection!SameF0(d) \/ Detection!F0InRange(d)
HitsIndex(d) == Detection!SameIndex(d) \/ Detection!IndexInRange(d)
Known == f0 # << >> /\ Detection!UsesF0(device_id)
IsCandidate(d) == d \in Detection!Devices /\ d.id = device_id.id

\* The F0 identifier is the controller's, and not the pattern for none.
ReadInv == f0 # << >> => f0 = << device_id.f0 >> /\ device_id.f0 # Detection!Unset

\* What the loops before this one have ruled out.
LoopInv ==
  /\ pc \in {"start", "read"} => f0 = << >>
  /\ pc \in {"start", "read", "f0", "f0_range", "index"} => fallback = << >>
  /\ pc \in {"f0", "f0_range"} => Known
  /\ pc = "f0_range" => \A d : IsCandidate(d) => ~Detection!SameF0(d)
  /\ pc \in {"index", "index_range", "fallback"} =>
       (Known => \A d : IsCandidate(d) => ~HitsF0(d))
  /\ pc \in {"index_range", "fallback"} =>
       /\ \A d : IsCandidate(d) => ~Detection!SameIndex(d)
       /\ fallback # << >> => IsCandidate(fallback[1])
       /\ (\E d : IsCandidate(d)) => fallback # << >>
  /\ pc = "fallback" => \A d : IsCandidate(d) => ~Detection!IndexInRange(d)

\* A result that is as good as it can be.
Best(result) ==
  /\ (\E d \in Detection!Devices : Detection!MeantFor(d)) =>
       result # << >> /\ Detection!MeantFor(result[1])
  /\ (\E d \in Detection!Devices : d.id = device_id.id) => result # << >>

\* The hypothesis of the theorems about detection.
Proper == OrderlyRanges /\ ProperController

DetectInv == ReadInv /\ LoopInv /\ (Proper => BestEffort)

\* The controllers whose F0 identifier is looked at.
LEMMA WhenKnown ==
  ASSUME Proper, Known
  PROVE  device_id.id \in 192..203 /\ device_id.software_index \in 200..255
<1>1. device_id.software_index \in 0..255
  BY DEF Proper, ProperController
<1>2. device_id.id \in 192..203 /\ device_id.software_index >= 200
  BY DEF Known, Detection!UsesF0
<1> QED BY <1>1, <1>2

\* What the good order of the ranges says of its candidates.
LEMMA OrderlyCandidates ==
  ASSUME Proper, Known, NEW d, IsCandidate(d), NEW e, IsCandidate(e)
  PROVE  /\ d.f0 \notin {<< >>, << Detection!Unset >>} =>
              Detection!IsForIndex(d, device_id.software_index)
         /\ /\ Detection!IsForIndex(d, device_id.software_index)
            /\ Detection!IsForIndex(e, device_id.software_index)
            => (d.f0 = << >> <=> e.f0 = << >>)
<1>1. d \in Detection!Devices /\ e \in Detection!Devices /\ d.id = e.id
  BY DEF IsCandidate
<1>2. d.id \in 192..203 /\ device_id.software_index \in 200..255
  BY WhenKnown DEF IsCandidate
<1>3. d.id \in 192..203 => \A n \in 200..255 :
        /\ d.f0 \notin {<< >>, << Detection!Unset >>} => Detection!IsForIndex(d, n)
        /\ Detection!IsForIndex(d, n) /\ Detection!IsForIndex(e, n) =>
             (d.f0 = << >> <=> e.f0 = << >>)
  BY <1>1, ZenonT(40) DEF Proper, OrderlyRanges
<1> QED BY <1>2, <1>3, Zenon

\* A candidate with the F0 identifier of the controller is meant for it: its index
\* is among those that have one.
LEMMA F0HitIsMeant ==
  ASSUME Proper, ReadInv, Known, NEW d, IsCandidate(d), HitsF0(d)
  PROVE  Detection!MeantFor(d)
<1>1. f0 = << device_id.f0 >> /\ f0[1] = device_id.f0 /\ device_id.f0 # Detection!Unset
  BY DEF ReadInv, Known
<1>3. d.f0 \notin {<< >>, << Detection!Unset >>}
  <2>1. CASE Detection!SameF0(d)
    BY <1>1, <2>1 DEF Detection!SameF0
  <2>2. CASE Detection!F0InRange(d)
    <3>1. d.f0 # << >> /\ d.f0[1] <= f0[1] /\ f0[1] <= Detection!Unset
      BY <1>1, <2>2 DEF Detection!F0InRange, Detection!Within, Proper, ProperController
    <3>2. f0[1] \in Int /\ Detection!Unset \in Int
      <4>1. Detection!Unset \in Int
        BY DEF Detection!Unset
      <4>2. device_id.f0 \in 0..Detection!Unset
        BY DEF Proper, ProperController
      <4> QED BY <1>1, <4>1, <4>2
    <3>3. d.f0[1] # Detection!Unset
      BY <1>1, <3>1, <3>2
    <3>4. d.f0 # << Detection!Unset >>
      BY <3>3
    <3> QED BY <3>1, <3>4
  <2> QED BY <2>1, <2>2 DEF HitsF0
<1>4. Detection!IsForIndex(d, device_id.software_index)
  BY <1>3, OrderlyCandidates
<1>5. Detection!IsForF0(d, f0[1])
  BY <1>1 DEF HitsF0, Detection!SameF0, Detection!F0InRange, Detection!IsForF0
<1> QED BY <1>4, <1>5 DEF Detection!MeantFor, IsCandidate

\* When no candidate has the F0 identifier, one with the index is meant for the
\* controller if any device is: neither has an F0 identifier.
LEMMA IndexHitIsMeant ==
  ASSUME Proper, ReadInv, Known => \A c : IsCandidate(c) => ~HitsF0(c),
         NEW e \in Detection!Devices, Detection!MeantFor(e),
         NEW d, IsCandidate(d), Detection!IsForIndex(d, device_id.software_index)
  PROVE  Detection!MeantFor(d)
<1>1. IsCandidate(e) /\ Detection!IsForIndex(e, device_id.software_index)
  BY DEF IsCandidate, Detection!MeantFor
<1>2. ASSUME Known
      PROVE  d.f0 = << >>
  <2>2. ~HitsF0(e) /\ Detection!IsForF0(e, f0[1])
    BY <1>1, <1>2 DEF Known, Detection!MeantFor
  <2>3. f0 = << f0[1] >>
    BY <1>2 DEF Known, ReadInv
  <2>4. e.f0 = << >>
    BY <2>2, <2>3 DEF HitsF0, Detection!SameF0, Detection!F0InRange, Detection!IsForF0
  <2> QED BY <1>1, <1>2, <2>4, OrderlyCandidates
<1>3. Known => Detection!IsForF0(d, f0[1])
  BY <1>2 DEF Detection!IsForF0
<1> QED BY <1>3 DEF Detection!MeantFor, IsCandidate, Known

\* The same of any candidate, when no index hits.
LEMMA FallbackIsMeant ==
  ASSUME Proper, ReadInv, Known => \A c : IsCandidate(c) => ~HitsF0(c),
         \A c : IsCandidate(c) => ~HitsIndex(c),
         NEW e \in Detection!Devices, Detection!MeantFor(e),
         NEW d, IsCandidate(d)
  PROVE  Detection!MeantFor(d)
<1>1. IsCandidate(e) /\ Detection!IsForIndex(e, device_id.software_index)
  BY DEF IsCandidate, Detection!MeantFor
<1>2. e.software_index = << >>
  BY <1>1 DEF HitsIndex, Detection!IsForIndex, Detection!SameIndex, Detection!IndexInRange
<1>3. d.software_index = << >>
  BY <1>1, <1>2 DEF Proper, OrderlyRanges, IsCandidate
<1> QED BY <1>3, IndexHitIsMeant DEF Detection!IsForIndex

\* Only entries, the controller and its F0 identifier are what the result is judged by.
LEMMA JudgedByOnly ==
  ASSUME UNCHANGED << entries, device_id, f0 >>
  PROVE  /\ Detection!Devices' = Detection!Devices
         /\ Proper' <=> Proper
         /\ ReadInv' <=> ReadInv
         /\ Known' <=> Known
         /\ \A d : /\ Detection!MeantFor(d)' <=> Detection!MeantFor(d)
                   /\ IsCandidate(d)' <=> IsCandidate(d)
                   /\ HitsF0(d)' <=> HitsF0(d)
                   /\ Detection!SameF0(d)' <=> Detection!SameF0(d)
                   /\ Detection!SameIndex(d)' <=> Detection!SameIndex(d)
                   /\ Detection!IndexInRange(d)' <=> Detection!IndexInRange(d)
<1>1. Detection!Devices' = Detection!Devices
  BY DEF Detection!Devices
<1>2. Proper' <=> Proper
  BY <1>1 DEF Proper, OrderlyRanges, ProperController
<1>3. (ReadInv' <=> ReadInv) /\ (Known' <=> Known)
  BY DEF ReadInv, Known
<1>4. \A d : Detection!MeantFor(d)' <=> Detection!MeantFor(d)
  BY DEF Detection!MeantFor
<1>5. \A d : IsCandidate(d)' <=> IsCandidate(d)
  BY <1>1 DEF IsCandidate
<1>6. \A d : /\ Detection!SameF0(d)' <=> Detection!SameF0(d)
             /\ Detection!F0InRange(d)' <=> Detection!F0InRange(d)
             /\ Detection!SameIndex(d)' <=> Detection!SameIndex(d)
             /\ Detection!IndexInRange(d)' <=> Detection!IndexInRange(d)
  BY DEF Detection!SameF0, Detection!F0InRange, Detection!SameIndex, Detection!IndexInRange
<1>7. \A d : HitsF0(d)' <=> HitsF0(d)
  BY <1>6 DEF HitsF0
<1> QED BY <1>1, <1>2, <1>3, <1>4, <1>5, <1>6, <1>7

\* A hit that is meant for the controller, if any device is, is a best result.
LEMMA HitIsBest ==
  ASSUME NEW d, IsCandidate(d), NEW result, result = << d >>,
         \A e \in Detection!Devices : Detection!MeantFor(e) => Detection!MeantFor(d)
  PROVE  Best(result)
<1>1. result # << >> /\ result[1] = d
  OBVIOUS
<1> QED BY <1>1 DEF Best

\* The places of the candidates are those of the devices that are candidates.
LEMMA PlacesOfCandidates ==
  /\ \A i \in Detection!Candidates : IsCandidate(entries[i])
  /\ \A d : IsCandidate(d) => \E i \in Detection!Candidates : entries[i] = d
BY DEF Detection!Candidates, IsCandidate, Detection!Devices

\* A loop that finds something ends with a best result if all it looks for are such.
LEMMA LookStep ==
  ASSUME NEW loop, NEW hits, NEW following, Detection!Look(loop, hits, following),
         following # "done", hits \subseteq Detection!Candidates,
         Proper => \A i \in hits : \A e \in Detection!Devices :
                     Detection!MeantFor(e) => Detection!MeantFor(entries[i])
  PROVE  /\ UNCHANGED << entries, device_id, f0 >>
         /\ \/ pc' = "done" /\ (Proper => Best(found'))
            \/ pc' = following /\ hits = {}
<1>1. CASE hits = {} /\ pc' = following
  BY <1>1 DEF Detection!Look
<1>2. CASE pc' = "done" /\ \E i \in hits : found' = << entries[i] >>
  <2>1. PICK i \in hits : found' = << entries[i] >>
    BY <1>2
  <2>2. IsCandidate(entries[i])
    BY PlacesOfCandidates
  <2>3. Proper => Best(found')
    BY <2>1, <2>2, HitIsBest
  <2> QED BY <1>2, <2>3 DEF Detection!Look
<1> QED BY <1>1, <1>2 DEF Detection!Look

\* The end of the detection keeps the invariant, if the result is a best one.
LEMMA DoneKeeps ==
  ASSUME ReadInv, UNCHANGED << entries, device_id, f0 >>, pc' = "done",
         Proper => Best(found')
  PROVE  DetectInv'
<1>1. ReadInv' /\ LoopInv'
  BY JudgedByOnly DEF LoopInv
<1>2. Proper' => BestEffort'
  <2> SUFFICES ASSUME Proper PROVE BestEffort'
    BY JudgedByOnly
  <2>1. device_id' = device_id
    OBVIOUS
  <2>2. /\ Detection!Devices' = Detection!Devices
        /\ \A d : Detection!MeantFor(d)' <=> Detection!MeantFor(d)
    BY JudgedByOnly
  <2>3. Best(found')
    OBVIOUS
  <2> QED BY <2>1, <2>2, <2>3 DEF Best, BestEffort, Detection!BestEffort
<1> QED BY <1>1, <1>2 DEF DetectInv

\* The loops over the F0 identifiers.
LEMMA F0Loops ==
  ASSUME DetectInv, Detection!ExactF0 \/ Detection!F0Range
  PROVE  DetectInv'
<1>1. Known /\ pc \in {"f0", "f0_range"}
  BY DEF DetectInv, LoopInv, Detection!ExactF0, Detection!F0Range, Detection!Look
<1>2. ASSUME NEW hits, hits \subseteq Detection!Candidates,
             \A i \in hits : HitsF0(entries[i]), NEW following, following # "done",
             Detection!Look(pc, hits, following)
      PROVE  /\ UNCHANGED << entries, device_id, f0 >>
             /\ \/ pc' = "done" /\ (Proper => Best(found'))
                \/ pc' = following /\ hits = {}
  <2>1. Proper => \A i \in hits : Detection!MeantFor(entries[i])
    BY <1>1, <1>2, F0HitIsMeant, PlacesOfCandidates DEF DetectInv
  <2> QED BY <1>2, <2>1, LookStep
<1>3. CASE Detection!ExactF0
  <2> DEFINE hits == {i \in Detection!Candidates : Detection!SameF0(entries[i])}
  <2>1. pc = "f0" /\ Detection!Look(pc, hits, "f0_range") /\ fallback' = << >>
    BY <1>3 DEF Detection!ExactF0, Detection!Look, DetectInv, LoopInv
  <2>2. hits \subseteq Detection!Candidates /\ \A i \in hits : HitsF0(entries[i])
    BY DEF HitsF0
  <2>3. hits = {} => \A d : IsCandidate(d) => ~Detection!SameF0(d)
    BY PlacesOfCandidates
  <2> HIDE DEF hits
  <2>4. /\ UNCHANGED << entries, device_id, f0 >>
        /\ \/ pc' = "done" /\ (Proper => Best(found'))
           \/ pc' = "f0_range" /\ hits = {}
    BY <1>2, <2>1, <2>2
  <2>5. CASE pc' = "done"
    BY <2>4, <2>5, DoneKeeps DEF DetectInv
  <2>6. CASE pc' = "f0_range" /\ hits = {}
    <3>1. LoopInv'
      BY <1>1, <2>1, <2>3, <2>4, <2>6, JudgedByOnly DEF LoopInv
    <3>2. ReadInv' /\ BestEffort'
      BY <2>4, <2>6, JudgedByOnly DEF DetectInv, BestEffort, Detection!BestEffort
    <3> QED BY <3>1, <3>2 DEF DetectInv
  <2> QED BY <2>4, <2>5, <2>6
<1>4. CASE Detection!F0Range
  <2> DEFINE hits == {i \in Detection!Candidates : Detection!F0InRange(entries[i])}
  <2>1. pc = "f0_range" /\ Detection!Look(pc, hits, "index") /\ fallback' = << >>
    BY <1>4 DEF Detection!F0Range, Detection!Look, DetectInv, LoopInv
  <2>2. hits \subseteq Detection!Candidates /\ \A i \in hits : HitsF0(entries[i])
    BY DEF HitsF0
  <2>3. hits = {} => \A d : IsCandidate(d) => ~HitsF0(d)
    BY <2>1, PlacesOfCandidates DEF HitsF0, DetectInv, LoopInv
  <2> HIDE DEF hits
  <2>4. /\ UNCHANGED << entries, device_id, f0 >>
        /\ \/ pc' = "done" /\ (Proper => Best(found'))
           \/ pc' = "index" /\ hits = {}
    BY <1>2, <2>1, <2>2
  <2>5. CASE pc' = "done"
    BY <2>4, <2>5, DoneKeeps DEF DetectInv
  <2>6. CASE pc' = "index" /\ hits = {}
    <3>1. LoopInv'
      BY <2>1, <2>3, <2>4, <2>6, JudgedByOnly DEF LoopInv
    <3>2. ReadInv' /\ BestEffort'
      BY <2>4, <2>6, JudgedByOnly DEF DetectInv, BestEffort, Detection!BestEffort
    <3> QED BY <3>1, <3>2 DEF DetectInv
  <2> QED BY <2>4, <2>5, <2>6
<1> QED BY <1>3, <1>4

\* The loops over the indices.
LEMMA IndexLoops ==
  ASSUME DetectInv, Detection!ExactIndex \/ Detection!IndexRange
  PROVE  DetectInv'
<1>1. /\ Known => \A d : IsCandidate(d) => ~HitsF0(d)
      /\ pc \in {"index", "index_range"}
  BY DEF DetectInv, LoopInv, Detection!ExactIndex, Detection!IndexRange, Detection!Look
<1>2. ASSUME NEW hits, hits \subseteq Detection!Candidates,
             \A i \in hits : HitsIndex(entries[i]), NEW following, following # "done",
             Detection!Look(pc, hits, following)
      PROVE  /\ UNCHANGED << entries, device_id, f0 >>
             /\ \/ pc' = "done" /\ (Proper => Best(found'))
                \/ pc' = following /\ hits = {}
  <2>1. \A i \in hits : /\ IsCandidate(entries[i])
                        /\ Detection!IsForIndex(entries[i], device_id.software_index)
    BY <1>2, PlacesOfCandidates
       DEF HitsIndex, Detection!IsForIndex, Detection!SameIndex, Detection!IndexInRange
  <2>2. Proper => \A i \in hits : \A e \in Detection!Devices :
                    Detection!MeantFor(e) => Detection!MeantFor(entries[i])
    BY <1>1, <2>1, IndexHitIsMeant DEF DetectInv
  <2> QED BY <1>2, <2>2, LookStep
<1>3. CASE Detection!ExactIndex
  <2> DEFINE hits == {i \in Detection!Candidates : Detection!SameIndex(entries[i])}
  <2>1. pc = "index" /\ Detection!Look(pc, hits, "index_range")
    BY <1>3 DEF Detection!ExactIndex, Detection!Look
  <2>2. hits \subseteq Detection!Candidates /\ \A i \in hits : HitsIndex(entries[i])
    BY DEF HitsIndex
  <2>3. hits = {} => \A d : IsCandidate(d) => ~Detection!SameIndex(d)
    BY PlacesOfCandidates
  <2> HIDE DEF hits
  <2>4. /\ UNCHANGED << entries, device_id, f0 >>
        /\ \/ pc' = "done" /\ (Proper => Best(found'))
           \/ pc' = "index_range" /\ hits = {}
    BY <1>2, <2>1, <2>2
  <2>5. CASE pc' = "done"
    BY <2>4, <2>5, DoneKeeps DEF DetectInv
  <2>6. CASE pc' = "index_range" /\ hits = {}
    <3>1. Detection!SetFallback
      BY <1>3, <2>6 DEF Detection!ExactIndex
    <3>2. ASSUME \E i \in Detection!Candidates : fallback' = << entries[i] >>
          PROVE  LoopInv'
      <4>1. PICK i \in Detection!Candidates : fallback' = << entries[i] >>
        BY <3>2
      <4>2. fallback' # << >> /\ IsCandidate(fallback'[1])
        BY <4>1, PlacesOfCandidates
      <4>3. LoopInv'
        BY <1>1, <2>3, <2>4, <2>6, <4>2, JudgedByOnly DEF LoopInv
      <4> QED BY <4>3
    <3>3. ASSUME Detection!Candidates = {}, UNCHANGED fallback
          PROVE  LoopInv'
      <4>1. \A d : ~IsCandidate(d)
        BY <3>3, PlacesOfCandidates
      <4>2. fallback' = << >>
        BY <2>1, <3>3 DEF DetectInv, LoopInv
      <4>3. LoopInv'
        BY <2>3, <2>4, <2>6, <4>1, <4>2, JudgedByOnly DEF LoopInv
      <4> QED BY <4>3
    <3>4. LoopInv'
      BY <3>1, <3>2, <3>3 DEF Detection!SetFallback
    <3>5. ReadInv' /\ BestEffort'
      BY <2>4, <2>6, JudgedByOnly DEF DetectInv, BestEffort, Detection!BestEffort
    <3> QED BY <3>4, <3>5 DEF DetectInv
  <2> QED BY <2>4, <2>5, <2>6
<1>4. CASE Detection!IndexRange
  <2> DEFINE hits == {i \in Detection!Candidates : Detection!IndexInRange(entries[i])}
  <2>1. pc = "index_range" /\ Detection!Look(pc, hits, "fallback") /\ UNCHANGED fallback
    BY <1>4 DEF Detection!IndexRange, Detection!Look
  <2>2. hits \subseteq Detection!Candidates /\ \A i \in hits : HitsIndex(entries[i])
    BY DEF HitsIndex
  <2>3. hits = {} => \A d : IsCandidate(d) => ~Detection!IndexInRange(d)
    BY PlacesOfCandidates
  <2> HIDE DEF hits
  <2>4. /\ UNCHANGED << entries, device_id, f0 >>
        /\ \/ pc' = "done" /\ (Proper => Best(found'))
           \/ pc' = "fallback" /\ hits = {}
    BY <1>2, <2>1, <2>2
  <2>5. CASE pc' = "done"
    BY <2>4, <2>5, DoneKeeps DEF DetectInv
  <2>6. CASE pc' = "fallback" /\ hits = {}
    <3>1. LoopInv'
      BY <2>1, <2>3, <2>4, <2>6, JudgedByOnly DEF LoopInv, DetectInv
    <3>2. ReadInv' /\ BestEffort'
      BY <2>4, <2>6, JudgedByOnly DEF DetectInv, BestEffort, Detection!BestEffort
    <3> QED BY <3>1, <3>2 DEF DetectInv
  <2> QED BY <2>4, <2>5, <2>6
<1> QED BY <1>3, <1>4

\* When no loop finds anything, the fallback is best.
LEMMA FallbackStep ==
  ASSUME DetectInv, Detection!Fallback
  PROVE  DetectInv'
<1>1. /\ pc = "fallback" /\ pc' = "done" /\ found' = fallback
      /\ UNCHANGED << entries, device_id, f0 >>
  BY DEF Detection!Fallback
<1>2. /\ Known => \A d : IsCandidate(d) => ~HitsF0(d)
      /\ \A d : IsCandidate(d) => ~HitsIndex(d)
      /\ fallback # << >> => IsCandidate(fallback[1])
      /\ (\E d : IsCandidate(d)) => fallback # << >>
  BY <1>1 DEF DetectInv, LoopInv, HitsIndex
<1>3. Proper => Best(fallback)
  <2> SUFFICES ASSUME Proper PROVE Best(fallback)
    OBVIOUS
  <2>1. \A d \in Detection!Devices : d.id = device_id.id => fallback # << >>
    BY <1>2 DEF IsCandidate
  <2>2. ASSUME NEW e \in Detection!Devices, Detection!MeantFor(e)
        PROVE  fallback # << >> /\ Detection!MeantFor(fallback[1])
    <3>1. fallback # << >> /\ IsCandidate(fallback[1])
      BY <1>2, <2>1, <2>2 DEF Detection!MeantFor
    <3> QED BY <1>2, <2>2, <3>1, FallbackIsMeant DEF DetectInv
  <2> QED BY <2>1, <2>2 DEF Best
<1> QED BY <1>1, <1>3, DoneKeeps DEF DetectInv

-----------------------------------------------------------------------------
(* The release *)

\* A step of the detection.
LEMMA DetectStep ==
  ASSUME DetectInv, Detection!Next
  PROVE  DetectInv'
<1>1. CASE Detection!ReadF0 \/ Detection!ReadF0Fails
  <2>1. /\ UNCHANGED << entries, device_id, fallback, found >>
        /\ pc = "read" /\ fallback = << >>
        /\ f0' \in {<< >>, << device_id.f0 >>} /\ (f0' # << >> => device_id.f0 # Detection!Unset)
        /\ pc' = IF f0' # << >> /\ Detection!UsesF0(device_id) THEN "f0" ELSE "index"
    BY <1>1 DEF Detection!ReadF0, Detection!ReadF0Fails, Detection!Read, DetectInv, LoopInv
  <2>2. Known' <=> f0' # << >> /\ Detection!UsesF0(device_id)
    BY <2>1 DEF Known, Detection!UsesF0
  <2>3. ReadInv'
    BY <2>1 DEF ReadInv, Detection!Unset
  <2>4. LoopInv'
    BY <2>1, <2>2 DEF LoopInv
  <2>5. BestEffort'
    BY <2>1 DEF BestEffort, Detection!BestEffort
  <2> QED BY <2>3, <2>4, <2>5 DEF DetectInv
<1>2. CASE Detection!ExactF0 \/ Detection!F0Range
  BY <1>2, F0Loops
<1>3. CASE Detection!ExactIndex \/ Detection!IndexRange
  BY <1>3, IndexLoops
<1>4. CASE Detection!Fallback
  BY <1>4, FallbackStep
<1> QED BY <1>1, <1>2, <1>3, <1>4 DEF Detection!Next

\* The invariant of the detection holds in every release.
LEMMA DetectInvariance ==
  ReleaseSpec => []DetectInv
<1>1. ReleaseInit => DetectInv
  BY DEF ReleaseInit, Detection!Init, DetectInv, ReadInv, LoopInv, BestEffort,
         Detection!BestEffort
<1>2. DetectInv /\ [ReleaseNext]_ReleaseVars => DetectInv'
  <2> SUFFICES ASSUME DetectInv, [ReleaseNext]_ReleaseVars
               PROVE  DetectInv'
    OBVIOUS
  <2>1. CASE UNCHANGED detect_vars
    <3>1. ReadInv' /\ LoopInv'
      BY <2>1, JudgedByOnly DEF detect_vars, DetectInv, LoopInv
    <3>2. (Proper => BestEffort)'
      <4>1. BestEffort' <=> BestEffort
        BY <2>1, JudgedByOnly DEF detect_vars, BestEffort, Detection!BestEffort
      <4> QED BY <2>1, <4>1, JudgedByOnly DEF detect_vars, DetectInv
    <3> QED BY <3>1, <3>2 DEF DetectInv
  <2>2. CASE Connect
    <3>1. /\ pc = "start" /\ pc' = "read" /\ UNCHANGED << f0, fallback, found >>
      BY <2>2 DEF Connect, Detection!Connect
    <3>2. f0' = << >> /\ fallback' = << >>
      BY <3>1 DEF DetectInv, LoopInv
    <3> QED BY <3>1, <3>2 DEF DetectInv, ReadInv, LoopInv, BestEffort, Detection!BestEffort
  <2>3. CASE Detect
    BY <2>3, DetectStep DEF Detect
  <2> QED BY <2>1, <2>2, <2>3
          DEF ReleaseNext, ReleaseVars, Generate, Build, BuildFails
<1> QED BY <1>1, <1>2, PTL DEF ReleaseSpec, ReleaseVars

\* Whatever devices the vendor's tables make, if they are orderly, and in whatever order
\* the map has them: the device found is meant for the controller, if any is, and one of
\* its id, if there is one.
THEOREM DetectionIsBest == ReleaseSpec => [](Proper => BestEffort)
BY DetectInvariance, PTL DEF DetectInv

-----------------------------------------------------------------------------
(* Types *)

\* There is a result in the end only, and a fallback for the last two loops.
ResultInv ==
  /\ Detection!TypeOK
  /\ pc # "done" => found = << >>
  /\ pc \in {"start", "read", "f0", "f0_range", "index"} => fallback = << >>

\* A loop goes to the next or ends with a device of the map.
LEMMA LookTypes ==
  ASSUME ResultInv, NEW loop, NEW hits, NEW following, hits \subseteq Detection!Candidates,
         Detection!Look(loop, hits, following)
  PROVE  /\ pc = loop /\ pc' \in {following, "done"} /\ Detection!Results' = Detection!Results
         /\ pc' = "done" \/ found' = found
         /\ found' \in Detection!Results
<1>1. pc = loop /\ UNCHANGED entries
  BY DEF Detection!Look
<1>2. Detection!Results' = Detection!Results
  BY <1>1 DEF Detection!Results, Detection!Devices
<1>3. CASE UNCHANGED found /\ pc' = following
  BY <1>1, <1>2, <1>3 DEF ResultInv, Detection!TypeOK
<1>4. CASE pc' = "done" /\ \E i \in hits : found' = << entries[i] >>
  <2>1. PICK i \in hits : found' = << entries[i] >>
    BY <1>4
  <2>2. entries[i] \in Detection!Devices
    BY DEF Detection!Candidates, Detection!Devices
  <2> QED BY <1>1, <1>2, <1>4, <2>1, <2>2 DEF Detection!Results
<1> QED BY <1>1, <1>3, <1>4 DEF Detection!Look

\* A fallback is a device of the map.
LEMMA FallbackTypes ==
  ASSUME ResultInv, Detection!SetFallback
  PROVE  fallback' \in Detection!Results
<1>1. CASE UNCHANGED fallback
  BY <1>1 DEF ResultInv, Detection!TypeOK
<1>2. CASE \E i \in Detection!Candidates : fallback' = << entries[i] >>
  <2>1. PICK i \in Detection!Candidates : fallback' = << entries[i] >>
    BY <1>2
  <2>2. entries[i] \in Detection!Devices
    BY DEF Detection!Candidates, Detection!Devices
  <2> QED BY <2>1, <2>2 DEF Detection!Results
<1> QED BY <1>1, <1>2 DEF Detection!SetFallback

\* The steps of the detection keep the types.
LEMMA DetectTypes ==
  ASSUME ResultInv, Detection!Next
  PROVE  ResultInv'
<1>1. CASE Detection!ReadF0 \/ Detection!ReadF0Fails
  <2>1. /\ UNCHANGED << entries, fallback, found >>
        /\ pc = "read" /\ pc' \in {"f0", "index"}
    BY <1>1 DEF Detection!ReadF0, Detection!ReadF0Fails, Detection!Read
  <2> QED BY <2>1 DEF ResultInv, Detection!TypeOK, Detection!Results, Detection!Devices
<1>2. CASE Detection!ExactF0
  <2>1. /\ pc = "f0" /\ pc' \in {"f0_range", "done"} /\ Detection!Results' = Detection!Results
        /\ pc' = "done" \/ found' = found
        /\ found' \in Detection!Results
        /\ UNCHANGED fallback
    BY <1>2, LookTypes DEF Detection!ExactF0
  <2> QED BY <2>1 DEF ResultInv, Detection!TypeOK
<1>3. CASE Detection!F0Range
  <2>1. /\ pc = "f0_range" /\ pc' \in {"index", "done"} /\ Detection!Results' = Detection!Results
        /\ pc' = "done" \/ found' = found
        /\ found' \in Detection!Results
        /\ UNCHANGED fallback
    BY <1>3, LookTypes DEF Detection!F0Range
  <2> QED BY <2>1 DEF ResultInv, Detection!TypeOK
<1>4. CASE Detection!ExactIndex
  <2>1. /\ pc = "index" /\ pc' \in {"index_range", "done"}
        /\ Detection!Results' = Detection!Results
        /\ pc' = "done" \/ found' = found
        /\ found' \in Detection!Results
        /\ UNCHANGED fallback \/ Detection!SetFallback
    BY <1>4, LookTypes DEF Detection!ExactIndex
  <2>2. fallback' \in Detection!Results
    BY <2>1, FallbackTypes DEF ResultInv, Detection!TypeOK
  <2> QED BY <2>1, <2>2 DEF ResultInv, Detection!TypeOK
<1>5. CASE Detection!IndexRange
  <2>1. /\ pc = "index_range" /\ pc' \in {"fallback", "done"}
        /\ Detection!Results' = Detection!Results
        /\ pc' = "done" \/ found' = found
        /\ found' \in Detection!Results
        /\ UNCHANGED fallback
    BY <1>5, LookTypes DEF Detection!IndexRange
  <2> QED BY <2>1 DEF ResultInv, Detection!TypeOK
<1>6. CASE Detection!Fallback
  BY <1>6 DEF Detection!Fallback, ResultInv, Detection!TypeOK, Detection!Results,
              Detection!Devices
<1> QED BY <1>1, <1>2, <1>3, <1>4, <1>5, <1>6 DEF Detection!Next

\* The invariant of the results.
LEMMA ResultInvariance ==
  ReleaseSpec => []ResultInv
<1>1. ReleaseInit => ResultInv
  BY DEF ReleaseInit, Detection!Init, ResultInv, Detection!TypeOK, Detection!Results
<1>2. ResultInv /\ [ReleaseNext]_ReleaseVars => ResultInv'
  <2> SUFFICES ASSUME ResultInv, [ReleaseNext]_ReleaseVars
               PROVE  ResultInv'
    OBVIOUS
  <2>1. CASE UNCHANGED detect_vars
    BY <2>1 DEF detect_vars, ResultInv, Detection!TypeOK, Detection!Results, Detection!Devices
  <2>2. CASE Connect
    <3>1. /\ pc = "start" /\ pc' = "read" /\ UNCHANGED << f0, fallback, found >>
      BY <2>2 DEF Connect, Detection!Connect
    <3>2. fallback' = << >> /\ found' = << >>
      BY <3>1 DEF ResultInv
    <3> QED BY <3>1, <3>2 DEF ResultInv, Detection!TypeOK, Detection!Results
  <2>3. CASE Detect
    BY <2>3, DetectTypes DEF Detect
  <2> QED BY <2>1, <2>2, <2>3
          DEF ReleaseNext, ReleaseVars, Generate, Build, BuildFails
<1> QED BY <1>1, <1>2, PTL DEF ReleaseSpec, ReleaseVars

\* What is there at which stage.
StageInv ==
  /\ stage \in {"german", "english", "extend", "devices", "texts", "tables", "written", "built",
                "panic"}
  /\ stage \in {"written", "built"} => used # << >>
  /\ stage = "built" <=> program # << >>

\* A step of the generator leaves the program to the build script, and writes the files
\* when it is through.
LEMMA GenerateStages ==
  ASSUME StageInv, Next
  PROVE  /\ stage # "built"
         /\ stage' \in {"german", "english", "extend", "devices", "texts", "tables", "written", "panic"}
         /\ stage' = "written" => used' # << >>
<1>1. CASE Use
  BY <1>1 DEF Use
<1>2. CASE ~Use
  BY <1>2 DEF Next, StageInv, AddMissingGerman, CleanTranslations, AddMissingEnglish,
     CleanEventTypes, InvalidValueTypes, UnnamedValue, Unlinked, ExtendDevice, ExtendEventType,
     PassExtension, UnhandledExtension, FilterEventTypes, UnsupportedBlocks, UnknownConversion,
     FilterDataPointTypes, NumberTexts, CollectTables, UnknownText, NumberTables, Unusable, Panic
<1> QED BY <1>1, <1>2

\* The stages, the program and what the detection returned have their types in every
\* release.
THEOREM TypeCorrect == ReleaseSpec => []TypeOK
<1>1. ReleaseInit => StageInv
  BY DEF ReleaseInit, Init, StageInv
<1>2. StageInv /\ [ReleaseNext]_ReleaseVars => StageInv'
  <2> SUFFICES ASSUME StageInv, [ReleaseNext]_ReleaseVars
               PROVE  StageInv'
    OBVIOUS
  <2>1. CASE Generate
    BY <2>1, GenerateStages DEF Generate, StageInv
  <2>2. CASE Build
    BY <2>2 DEF Build, StageInv
  <2>3. CASE BuildFails
    BY <2>3 DEF BuildFails, Panic, StageInv
  <2>4. CASE UNCHANGED << vars, program >>
    BY <2>4 DEF vars, StageInv
  <2> QED BY <2>1, <2>2, <2>3, <2>4 DEF ReleaseNext, ReleaseVars, Connect, Detect
<1>3. StageInv /\ ResultInv => TypeOK
  BY DEF StageInv, ResultInv, TypeOK
<1> QED BY <1>1, <1>2, <1>3, ResultInvariance, PTL DEF ReleaseSpec, ReleaseVars

\* When one device is meant for the controller, it is found, in every orderly table and
\* whatever the order of the map.
THEOREM UniqueDeviceIsFound == ReleaseSpec => [](Proper => UniqueMatch)
<1>1. ResultInv /\ (Proper => BestEffort) => (Proper => UniqueMatch)
  <2> SUFFICES ASSUME ResultInv, BestEffort, pc = "done", NEW d \in Detection!Devices,
                      \A e \in Detection!Devices : Detection!MeantFor(e) <=> e = d
               PROVE  found = << d >>
    BY DEF UniqueMatch, Detection!UniqueMatch
  <2>1. found # << >> /\ Detection!MeantFor(found[1])
    BY DEF BestEffort, Detection!BestEffort
  <2>2. PICK e \in Detection!Devices : found = << e >>
    BY <2>1 DEF ResultInv, Detection!TypeOK, Detection!Results
  <2>3. e = d
    BY <2>1, <2>2
  <2> QED BY <2>2, <2>3
<1> QED BY <1>1, ResultInvariance, DetectionIsBest, PTL

=============================================================================
