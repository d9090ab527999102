------------------------------ MODULE Generator ------------------------------
(***************************************************************************)
(* The data generator, src/codegen/src/bin/generate.rs: from the vendor's  *)
(* export to the devices, commands, mappings and translations that the     *)
(* build script compiles into the library.                                 *)
(*                                                                         *)
(* One action is one statement of main, or one round of a loop that        *)
(* changes what its later rounds see.  An unwrap of None, an unreachable!  *)
(* and a panic! end the run without output: stage is "panic".              *)
(*                                                                         *)
(* A string is its words and the index it carries: an id ends in ~3, the   *)
(* text of an enumeration may begin with 3; `at` says that it begins with  *)
(* @@.  White space and the spelling of names are left out, and so are the *)
(* fields of an event type that go through like those here.  An optional   *)
(* value is << v >>, or << >> for None.                                    *)
(***************************************************************************)
EXTENDS Integers, Sequences, FiniteSets, SequencesExt, FiniteSetsExt, Functions, TLC

CONSTANTS
  Exports,             \* the vendor's tables, see MCRelease
  TranslationFixes,    \* the table in translation_fixes, id |-> id
  ValueListFixes,      \* the table in value_list_fixes, id |-> id
  CleanNames,          \* names with a vendor's prefix |-> without
  UnsupportedDevices,  \* the names that begin with a prefix in the lists
  UnsupportedCommands,
  KnownConversions,    \* the vendor's names that parse_conversion knows
  Unmarked             \* the ids without ~ in front of their index, which is an error's code

IsBorder(b) == b # << >> => b[1] \in Int
IsLength(b) == b # << >> => b[1] \in Nat
IsOption(o) == o # << >> => o = << o[1] >>
IsString(s) == s = [at |-> s.at, words |-> s.words, index |-> s.index] /\ s.at \in BOOLEAN

\* The value types of an export are a table of records; borders are numbers, and so
\* is the temperature in the name of an Ecotronic_Party.  The ids of devices and event
\* types are numbers, too, and so is the length of a block.  The labels are the keys of the texts,
\* in their order, without @@.
ASSUME ExportAssumption ==
  \A e \in Exports :
    /\ IsFiniteSet(DOMAIN e.data_point_types) /\ DOMAIN e.data_point_types \subseteq Nat
    /\ IsFiniteSet(DOMAIN e.event_types) /\ DOMAIN e.event_types \subseteq Nat
    /\ e.extension_values \in Seq(Range(e.extension_values))
    /\ \A x \in Range(e.extension_values) : x.field = "block_length" => x.value \in Nat
    /\ \A c \in Range(e.system_event_types) : IsLength(c.block_length)
    /\ e.value_types \in Seq(Range(e.value_types))
    /\ \A i \in DOMAIN e.value_types :
         LET v == e.value_types[i]
         IN /\ {"data_type", "name", "lower_border", "upper_border", "enum_address_value",
                "enum_replace_value", "description"} \subseteq DOMAIN v
            /\ IsBorder(v.lower_border) /\ IsBorder(v.upper_border) /\ v.name.index \in Int
            /\ IsOption(v.enum_address_value)
            /\ IsString(v.enum_replace_value) /\ IsString(v.description)
    /\ e.labels \in Seq(Range(e.labels)) /\ Range(e.labels) = DOMAIN e.texts
    /\ \A l \in DOMAIN e.texts : IsString(l) /\ l.at = FALSE

VARIABLES
  export,                \* the tables, as read
  stage,                 \* the statement that is next
  next,                  \* the element its loop has come to
  value_types,           \* event_value_types_raw, whose ids are 1, 2, ...
  translations,          \* ids and German texts
  translations_cleaned,  \* ids and English texts
  event_types,           \* event_types_cleaned
  data_point_types,      \* data_point_types_cleaned
  texts, tables,         \* the locals of UniqueMapping::create, both times
  used                   \* the files *.used.json, once they are written

vars == << export, stage, next, value_types, translations, translations_cleaned,
           event_types, data_point_types, texts, tables, used >>

UniqueTexts == INSTANCE UniqueMapping WITH Maps <- {}, create <- texts
UniqueTables == INSTANCE UniqueMapping WITH Maps <- {}, create <- tables

-----------------------------------------------------------------------------
(* Strings *)

NoIndex == -1
Str(words, index) == [at |-> FALSE, words |-> words, index |-> index]
EmptyText == Str("", NoIndex)
StripAt(s) == [s EXCEPT !.at = FALSE]
WithAt(s) == [s EXCEPT !.at = TRUE]

Lookup(table, id) == IF id \in DOMAIN table THEN table[id] ELSE id

translation_fixes(id) == Lookup(TranslationFixes, id)
value_list_fixes(id) == Lookup(ValueListFixes, id)
clean_event_type_name(name) == Lookup(CleanNames, name)

\* Errors are labels like viessmann.errorcode.F1, for all devices, and
\* viessmann.errorcode.VScotHO1.F1.
ErrorCode == "viessmann.errorcode"
DeviceErrorCode(name) == ErrorCode \o "." \o name
ErrorGroups(e) ==
  {ErrorCode} \cup {DeviceErrorCode(e.data_point_types[id].address) :
                      id \in DOMAIN e.data_point_types}

ASSUME UnmarkedAssumption ==
  \A e \in Exports : \A l \in DOMAIN e.texts : l.words \in ErrorGroups(e) => l.words \in Unmarked

\* The errors are apart from what else has a text: a label of one carries its code,
\* is not renamed and not what another is renamed to, is not the id or the
\* description of a value, and its group is not the name of an event type.
ASSUME ErrorLabelAssumption ==
  \A e \in Exports :
    /\ \A l \in DOMAIN e.texts :
         l.words \in ErrorGroups(e) => l.index # NoIndex /\ l \notin DOMAIN TranslationFixes
    /\ \A l \in DOMAIN TranslationFixes : TranslationFixes[l].words \notin ErrorGroups(e)
    /\ \A i \in DOMAIN e.value_types :
         /\ e.value_types[i].enum_replace_value.words \notin ErrorGroups(e)
         /\ e.value_types[i].description.words \notin ErrorGroups(e)
    /\ \A id \in DOMAIN e.event_types :
         clean_event_type_name(e.event_types[id].name) \notin ErrorGroups(e)

\* Each of them in any case.
Canonical == [OFF |-> "off", On |-> "on", No |-> "false", False |-> "false",
              Yes |-> "true", True |-> "true", Automatic |-> "auto", Auto |-> "auto"]

canonicalize_translation_text(text) ==
  IF text.index = NoIndex THEN [text EXCEPT !.words = Lookup(Canonical, @)] ELSE text

\* In the texts of this id a number is a number.
FalsePositive == "viessmann.eventvaluetype.K73_KonfiZpumpeIntervallFreigabe"

\* The index of the id is taken off the text, but not off one that is an id itself;
\* what is only dashes is empty.  An error's code is not such an index.
clean_enum_text(id, text) ==
  LET bare == IF text.index = id.index /\ ~text.at THEN [text EXCEPT !.index = NoIndex] ELSE text
  IN IF id.index = NoIndex \/ id = Str(FalsePositive, id.index) \/ id.words \in Unmarked THEN text
     ELSE IF bare = Str("--", NoIndex) THEN EmptyText ELSE bare

\* The labels of the translations, in the order of the map, and their texts.
translations_raw ==
  [l \in ToSet(export.labels) |->
     [culture \in {"de", "en"} |-> clean_enum_text(l, export.texts[l][culture])]]

\* The last of the labels with this German text.
reverse_translations_raw(text) ==
  LET same == {i \in DOMAIN export.labels : translations_raw[export.labels[i]].de = text}
  IN IF text = EmptyText \/ same = {} THEN << >> ELSE << export.labels[Max(same)] >>

\* The id whose text the description is, or which it names.
parse_description(text, known) ==
  LET described == [text EXCEPT !.words = "viessmann.eventtype." \o @ \o ".description"]
      ids == reverse_translations_raw(text)
  IN IF text = EmptyText THEN << >>
     ELSE IF text.at THEN << text >>
     ELSE IF ids # << >> THEN << WithAt(ids[1]) >>
     ELSE IF text \in DOMAIN known THEN << WithAt(text) >>
     ELSE IF described \in DOMAIN known THEN << WithAt(described) >> ELSE << >>

-----------------------------------------------------------------------------
(* Values that the vendor has no text for *)

\* The translations with this text under the id, without its @@.
WithText(known, id, text) ==
  [k \in DOMAIN known \cup {StripAt(id)} |-> IF k = StripAt(id) THEN text ELSE known[k]]

\* Mutant: a text is added although there is one.
AddedAgain(v, known) ==
  LET id == v.enum_replace_value
  IN [id |-> id, known |-> IF id = EmptyText THEN known ELSE WithText(known, id, id)]

\* What add_missing_enum_replace_value_translations makes of the value type v
\* and the translations.
Added(v, known) ==
  LET id == v.enum_replace_value
      description ==
        IF v.description = EmptyText THEN << >>
        ELSE parse_description(clean_enum_text(id, v.description), known)
  IN IF id = EmptyText \/ StripAt(id) \in DOMAIN known
     THEN [id |-> id, known |-> known]
     ELSE IF v.description # EmptyText /\ id = Str("ecnStatusEventType", id.index)
     THEN [id |-> id, known |-> WithText(known, id, v.description)]
     ELSE IF description # << >>
     THEN [id |-> description[1], known |-> known]
     ELSE [id |-> id, known |-> WithText(known, id, id)]

Init ==
  /\ export \in Exports
  /\ stage = "german" /\ next = 1
  /\ value_types = export.value_types
  /\ translations = [l \in ToSet(export.labels) |-> translations_raw[l].de]
  /\ translations_cleaned = << >> /\ event_types = << >> /\ data_point_types = << >>
  /\ texts = UniqueTexts!Begin(<< >>) /\ tables = UniqueTexts!Begin(<< >>)
  /\ used = << >>

Panic ==
  /\ stage' = "panic"
  /\ UNCHANGED << export, next, value_types, translations, translations_cleaned, event_types,
                  data_point_types, texts, tables, used >>

\* The loop over the value types, with the German texts.
AddMissingGerman ==
  /\ stage = "german" /\ next <= Len(value_types)
  /\ LET added == Added(value_types[next], translations)
     IN /\ translations' = added.known
        /\ value_types' = [value_types EXCEPT ![next].enum_replace_value = added.id]
  /\ next' = next + 1
  /\ UNCHANGED << export, stage, translations_cleaned, event_types, data_point_types,
                  texts, tables, used >>

\* Two labels may be fixed to the same id, and the last of them counts.
CleanTranslations ==
  /\ stage = "german" /\ next > Len(value_types)
  /\ translations_cleaned' =
       [id \in {translation_fixes(l) : l \in ToSet(export.labels)} |->
          LET same == {i \in DOMAIN export.labels : translation_fixes(export.labels[i]) = id}
          IN canonicalize_translation_text(translations_raw[export.labels[Max(same)]].en)]
  /\ stage' = "english" /\ next' = 1
  /\ UNCHANGED << export, value_types, translations, event_types, data_point_types,
                  texts, tables, used >>

\* The same loop once more, with the English texts and what the first replaced.
AddMissingEnglish ==
  /\ stage = "english" /\ next <= Len(value_types)
  /\ LET added == Added(value_types[next], translations_cleaned)
     IN /\ translations_cleaned' = added.known
        /\ value_types' = [value_types EXCEPT ![next].enum_replace_value = added.id]
  /\ next' = next + 1
  /\ UNCHANGED << export, stage, translations, event_types, data_point_types,
                  texts, tables, used >>

-----------------------------------------------------------------------------
(* Value types and event types *)

NoEventTypeFields ==
  [f \in {"type_id", "address", "conversion", "value_list", "value_type", "lower_border",
          "upper_border", "unit", "bit_length", "block_factor", "block_length",
          "conversion_factor", "conversion_offset", "fc_read", "fc_write", "mapping_type",
          "sdk_data_type"} |-> << >>]

BinaryTypes == [ErrorIndex |-> "ErrorIndex", Error |-> "Error", FehlerHisFA |-> "Error",
                Schaltzeiten |-> "CircuitTimes"]
NumberTypes == [Int |-> "Int", Float |-> "Double", Bit |-> "Bit"]
Ecotronic_Party == "Ecotronic_Party"

Single(type) ==
  [kind |-> "single", value_type |-> << type >>, lower_border |-> << >>, upper_border |-> << >>,
   unit |-> << >>]
Multiple(value_list) == [kind |-> "multiple", value_list |-> value_list]
Invalid == [kind |-> "invalid"]

\* The entry of event_value_types_cleaned for v.  The name of an Ecotronic_Party
\* is Str(Ecotronic_Party, temperature).
clean_value_type(v) ==
  IF v.data_type = "DateTime" THEN Single("DateTime")
  ELSE IF v.data_type = "Binary"
  THEN Single(IF v.name.words \in DOMAIN BinaryTypes THEN BinaryTypes[v.name.words]
                                                     ELSE "ByteArray")
  ELSE IF v.data_type = "VarChar" /\ v.name.words = Ecotronic_Party
  THEN [Single("Int") EXCEPT !.lower_border = << v.name.index >>,
                             !.upper_border = << v.name.index >>, !.unit = << "C" >>]
  ELSE IF v.data_type \in {"NText", "VarChar"}
  THEN IF v.enum_address_value = << >> THEN Single("String")
       ELSE Multiple([n \in {v.enum_address_value[1]} |->
                        value_list_fixes(translation_fixes(StripAt(v.enum_replace_value)))])
  ELSE [Single(NumberTypes[v.data_type]) EXCEPT
          !.lower_border = v.lower_border, !.upper_border = v.upper_border, !.unit = v.unit]

\* Mutant: the border there is counts.
SmallerOrOnly(a, b) ==
  IF a = << >> THEN b ELSE IF b = << >> THEN a ELSE << Min({a[1], b[1]}) >>

\* Two borders are one only if there are both.
Smaller(a, b) == IF a = << >> \/ b = << >> THEN << >> ELSE << Min({a[1], b[1]}) >>
Larger(a, b) == IF a = << >> \/ b = << >> THEN << >> ELSE << Max({a[1], b[1]}) >>

\* The entries of both lists; if they have one for the same value, that of later counts.
Joined(later, list) ==
  [n \in DOMAIN later \cup DOMAIN list |-> IF n \in DOMAIN later THEN later[n] ELSE list[n]]

\* Lists are joined; single types are one
\* if they differ in their borders only (unit stands for the stepping as well).
merge(acc, v) ==
  IF acc.kind = "none" THEN v
  ELSE IF acc.kind = "multiple" /\ v.kind = "multiple"
  THEN Multiple(Joined(v.value_list, acc.value_list))
  ELSE IF /\ acc.kind = "single" /\ v.kind = "single"
          /\ acc.value_type = v.value_type /\ acc.unit = v.unit
  THEN [acc EXCEPT !.lower_border = Smaller(@, v.lower_border),
                   !.upper_border = Larger(@, v.upper_border)]
  ELSE Invalid

\* The value types of an event type, in the order of their ids.
Merged(ids) ==
  LET acc[i \in 0..Len(value_types)] ==
        IF i = 0 THEN [kind |-> "none"]
        ELSE IF i \in ids THEN merge(acc[i - 1], clean_value_type(value_types[i]))
        ELSE acc[i - 1]
  IN acc[Len(value_types)]

CleanEventType(e) ==
  LET v == Merged(e.value_types)
      single == IF v.kind = "single" THEN v ELSE NoEventTypeFields
  IN [NoEventTypeFields EXCEPT
        !.type_id = clean_event_type_name(e.name), !.address = << e.address >>,
        !.conversion = << e.conversion >>,
        !.value_list = IF v.kind = "multiple" THEN v.value_list ELSE << >>,
        !.value_type = single.value_type, !.lower_border = single.lower_border,
        !.upper_border = single.upper_border, !.unit = single.unit]

CleanDataPointType(d) ==
  [address |-> d.address, event_types |-> d.event_types, identification |-> << >>,
   identification_extension |-> << >>, identification_extension_till |-> << >>,
   f0 |-> << >>, f0_till |-> << >>]

\* Every value type has a type, and those of an event type fit together.
Mergeable ==
  /\ \A i \in DOMAIN value_types :
       value_types[i].data_type \in {"DateTime", "Binary", "VarChar", "NText"} \cup DOMAIN NumberTypes
  /\ \A e \in Range(export.event_types) :
       e.value_types \subseteq DOMAIN value_types /\ Merged(e.value_types) # Invalid

\* Every text in the list of a system event type is a description that is known.
ValuesNamed ==
  \A e \in Range(export.system_event_types) : \A n \in DOMAIN e.value_list :
    parse_description(clean_enum_text(Str("", n), e.value_list[n]), translations) # << >>

\* Every device is linked to an event type.
Linked == \A d \in Range(export.data_point_types) : d.event_types # {}

CleanEventTypes ==
  /\ stage = "english" /\ next > Len(value_types)
  /\ Mergeable /\ ValuesNamed /\ Linked
  /\ event_types' = [id \in DOMAIN export.event_types |-> CleanEventType(export.event_types[id])]
  /\ data_point_types' =
       [id \in DOMAIN export.data_point_types |-> CleanDataPointType(export.data_point_types[id])]
  /\ stage' = "extend" /\ next' = 1
  /\ UNCHANGED << export, value_types, translations, translations_cleaned, texts, tables, used >>

InvalidValueTypes == stage = "english" /\ next > Len(value_types) /\ ~Mergeable /\ Panic
UnnamedValue == stage = "english" /\ next > Len(value_types) /\ ~ValuesNamed /\ Panic
Unlinked == stage = "english" /\ next > Len(value_types) /\ ~Linked /\ Panic

-----------------------------------------------------------------------------
(* The values of the table extensions *)

DeviceFields ==
  {"identification", "identification_extension", "identification_extension_till", "f0", "f0_till"}
EventTypeFields ==
  DOMAIN NoEventTypeFields
  \ {"type_id", "conversion", "value_list", "value_type", "lower_border", "upper_border", "unit"}
UnusedFields == {"vsko", "product_name", "rpc_handler", "trigger_mode"}

\* The field with the value of x, when it was old.  Zero is no length and no
\* factor, NoMap no mapping, an F0 is cut to its 16 bits, and an identification,
\* a number here, is none if it is empty.
Extended(x, old) ==
  CASE x.field \in {"bit_length", "block_factor"} -> IF x.value = 0 THEN old ELSE << x.value >>
    [] x.field = "mapping_type" -> IF x.value = "NoMap" THEN old ELSE << x.value >>
    [] x.field \in {"fc_read", "fc_write"} ->
         IF x.value \in {"", "undefined"} THEN << >> ELSE << x.value >>
    [] x.field \in {"f0", "f0_till"} -> << x.value % 65536 >>
    [] x.field \in DeviceFields \ {"f0", "f0_till"} -> x.value
    [] OTHER -> << x.value >>

Extension == export.extension_values[next]

\* ecnEventTypeGroup is passed over, and so are a value for what is not there and a
\* field that is not used.
Passed(x) ==
  \/ x.table = "ecnEventTypeGroup"
  \/ x.table = "ecnDatapointType" /\ x.id \notin DOMAIN data_point_types
  \/ x.table = "ecnEventType" /\ x.id \notin DOMAIN event_types
  \/ x.table \in {"ecnDatapointType", "ecnEventType"} /\ x.field \in UnusedFields

\* These are stored in a byte.
TooLarge(x) == x.field \in {"bit_length", "block_factor"} /\ x.value > 255

ExtendDevice ==
  /\ stage = "extend" /\ next <= Len(export.extension_values)
  /\ Extension.table = "ecnDatapointType" /\ ~Passed(Extension)
  /\ Extension.field \in DeviceFields
  /\ data_point_types' =
       [data_point_types EXCEPT ![Extension.id][Extension.field] = Extended(Extension, @)]
  /\ next' = next + 1
  /\ UNCHANGED << export, stage, value_types, translations, translations_cleaned, event_types,
                  texts, tables, used >>

ExtendEventType ==
  /\ stage = "extend" /\ next <= Len(export.extension_values)
  /\ Extension.table = "ecnEventType" /\ ~Passed(Extension)
  /\ Extension.field \in EventTypeFields /\ ~TooLarge(Extension)
  /\ event_types' = [event_types EXCEPT ![Extension.id][Extension.field] = Extended(Extension, @)]
  /\ next' = next + 1
  /\ UNCHANGED << export, stage, value_types, translations, translations_cleaned,
                  data_point_types, texts, tables, used >>

PassExtension ==
  /\ stage = "extend" /\ next <= Len(export.extension_values) /\ Passed(Extension)
  /\ next' = next + 1
  /\ UNCHANGED << export, stage, value_types, translations, translations_cleaned, event_types,
                  data_point_types, texts, tables, used >>

UnhandledExtension ==
  /\ stage = "extend" /\ next <= Len(export.extension_values) /\ ~Passed(Extension)
  /\ \/ Extension.table = "ecnDatapointType" /\ Extension.field \notin DeviceFields
     \/ Extension.table = "ecnEventType"
          /\ (Extension.field \notin EventTypeFields \/ TooLarge(Extension))
     \/ Extension.table \notin {"ecnDatapointType", "ecnEventType"}
  /\ Panic

-----------------------------------------------------------------------------
(* What is kept *)

is_event_type_supported(e) ==
  /\ e.type_id \notin UnsupportedCommands
  /\ e.address # << >>
  /\ e.fc_read = << "virtual_read" >> \/ e.fc_write = << "virtual_write" >>

is_data_point_type_supported(d) ==
  d.identification # << >> /\ d.address \notin UnsupportedDevices

\* The vendor's name stands for the program's here.
parse_conversion(conversion) ==
  IF conversion \in {"NoConversion", "", "GWG_2010_Kennung~0x00F9"} THEN << >> ELSE << conversion >>

Conversion(name, factor, offset) == << [name |-> name, factor |-> factor, offset |-> offset] >>

\* A factor or an offset of zero is none, and one that is there makes an own
\* conversion where the vendor has none.
map_conversion(conversion, factor, offset) ==
  LET name == parse_conversion(conversion)
      f == SelectSeq(factor, LAMBDA n : n # 0)
      o == SelectSeq(offset, LAMBDA n : n # 0)
  IN IF name = << >> /\ f = << >> /\ o = << >> THEN << >>
     ELSE Conversion(IF name = << >> THEN "MultOffset" ELSE name[1], f, o)

ConversionKnown(conversion) == Range(parse_conversion(conversion)) \subseteq KnownConversions

\* The system event types that are commands of their own.
SystemValueTypes == [ecnsysDeviceIdent |-> << "DeviceId" >>, ecnsysDeviceIdentF0 |-> << "DeviceIdF0" >>]
NotReleased == {"ecnsysErrorBuffer", "ecnsysFehlerhistorie", "ecnsysControllerSerialNumber",
                "ecnsysDeviceBoilerSerialNumber"}

SystemIds ==
  DOMAIN export.system_event_types
  \ (NotReleased \cup {event_types[id].type_id : id \in DOMAIN event_types})

SystemConversionsKnown ==
  \A id \in SystemIds : ConversionKnown(export.system_event_types[id].conversion)

system_event_types_cleaned ==
  LET Clean(id) ==
        LET e == export.system_event_types[id]
        IN [NoEventTypeFields EXCEPT
              !.type_id = id, !.address = e.address, !.block_length = e.block_length,
              !.conversion = map_conversion(e.conversion, e.conversion_factor, e.conversion_offset),
              !.value_type = Lookup(SystemValueTypes @@ id :> << >>, id),
              !.fc_read = e.fc_read, !.sdk_data_type = e.sdk_data_type]
  IN [id \in {i \in SystemIds : is_event_type_supported(Clean(i))} |-> Clean(id)]

\* CircuitTimes may be in 7 blocks, which are then one, or in 56.
BlocksFit(e) ==
  e.block_factor # << >> =>
    IF e.value_type = << "CircuitTimes" >> THEN e.block_factor[1] \in {7, 56}
    ELSE e.block_length # << >> /\ e.block_length[1] % e.block_factor[1] = 0

Kept(e) ==
  [e EXCEPT !.conversion = map_conversion(e.conversion[1], e.conversion_factor, e.conversion_offset),
            !.block_factor = IF e.value_type = << "CircuitTimes" >> /\ @ = << 7 >> THEN << >> ELSE @]

Supported == {id \in DOMAIN event_types : is_event_type_supported(event_types[id])}

FilterEventTypes ==
  /\ stage = "extend" /\ next > Len(export.extension_values)
  /\ \A id \in Supported :
       ConversionKnown(event_types[id].conversion[1]) /\ BlocksFit(event_types[id])
  /\ event_types' = [id \in Supported |-> Kept(event_types[id])]
  /\ stage' = "devices"
  /\ UNCHANGED << export, next, value_types, translations, translations_cleaned,
                  data_point_types, texts, tables, used >>

UnsupportedBlocks ==
  /\ stage = "extend" /\ next > Len(export.extension_values)
  /\ \E id \in Supported : ~BlocksFit(event_types[id])
  /\ Panic

UnknownConversion ==
  /\ \/ /\ stage = "extend" /\ next > Len(export.extension_values)
        /\ \E id \in Supported : ~ConversionKnown(event_types[id].conversion[1])
     \/ stage = "devices" /\ ~SystemConversionsKnown
  /\ Panic

\* The devices have their addresses, which are their names, as keys from here on.
FilterDataPointTypes ==
  LET kept == {id \in DOMAIN data_point_types : is_data_point_type_supported(data_point_types[id])}
  IN /\ stage = "devices" /\ SystemConversionsKnown
     /\ data_point_types' =
          [name \in {data_point_types[id].address : id \in kept} |->
             LET d == data_point_types[Max({id \in kept : data_point_types[id].address = name})]
             IN [d EXCEPT !.event_types = @ \cap DOMAIN event_types]]
     /\ texts' = UniqueTexts!Begin(translations_cleaned)
     /\ stage' = "texts"
     /\ UNCHANGED << export, next, value_types, translations, translations_cleaned, event_types,
                     tables, used >>

-----------------------------------------------------------------------------
(* Texts, tables and what is used of them *)

NumberTexts == stage = "texts" /\ UniqueTexts!Number /\
  UNCHANGED << export, stage, next, value_types, translations, translations_cleaned, event_types,
               data_point_types, tables, used >>

error_mappings ==
  LET labels == {l \in DOMAIN texts.mapping :
                   ~l.at /\ l.words \in ErrorGroups(export) /\ l.index # NoIndex}
  IN [group \in {l.words : l \in labels} |->
        [n \in {l.index : l \in {m \in labels : m.words = group}} |-> texts.mapping[Str(group, n)]]]

\* The tables of the event types that have a list, by their names.
Listed == {id \in DOMAIN event_types : event_types[id].value_list # << >>}

mappings ==
  [type_id \in {event_types[id].type_id : id \in Listed} |->
     LET list == event_types[Max({id \in Listed : event_types[id].type_id = type_id})].value_list
     IN [n \in DOMAIN list |-> texts.mapping[list[n]]]]

\* All of them; a table of an event type counts.
all_mappings ==
  [name \in DOMAIN error_mappings \cup DOMAIN mappings |->
     IF name \in DOMAIN mappings THEN mappings[name] ELSE error_mappings[name]]

\* Every text of a list is there.
TextsKnown ==
  \A id \in Listed : \A n \in DOMAIN event_types[id].value_list :
    event_types[id].value_list[n] \in DOMAIN texts.mapping

CollectTables ==
  /\ stage = "texts" /\ texts.reversed = {} /\ TextsKnown
  /\ tables' = UniqueTables!Begin(all_mappings)
  /\ stage' = "tables"
  /\ UNCHANGED << export, next, value_types, translations, translations_cleaned, event_types,
                  data_point_types, texts, used >>

UnknownText ==
  /\ stage = "texts" /\ texts.reversed = {} /\ ~TextsKnown
  /\ Panic

NumberTables == stage = "tables" /\ UniqueTables!Number /\
  UNCHANGED << export, stage, next, value_types, translations, translations_cleaned, event_types,
               data_point_types, texts, used >>

\* Devices have more than the error memory.
devices_cleaned ==
  {name \in DOMAIN data_point_types :
     \E id \in data_point_types[name].event_types :
       event_types[id].type_id \notin {"ecnsysEventType~Error", "ecnsysEventType~ErrorIndex"}}

\* Mutant: the error texts are those for all devices.
ErrorTableOfAll(name) == tables.mapping[ErrorCode]

\* The error table of a device, or that for all devices if it has none.
ErrorTable(name) ==
  tables.mapping[IF DeviceErrorCode(name) \in DOMAIN tables.mapping THEN DeviceErrorCode(name)
                                                                    ELSE ErrorCode]

devices_used ==
  [name \in devices_cleaned |->
     LET d == data_point_types[name]
     IN [commands |-> d.event_types, error_mapping |-> ErrorTable(name),
         f0 |-> d.f0, f0_till |-> d.f0_till, id |-> d.identification[1],
         id_ext |-> d.identification_extension, id_ext_till |-> d.identification_extension_till]]

CommandIds == UNION {devices_used[name].commands : name \in DOMAIN devices_used}

\* The conversions that are data types.
DateConversions == {"DateTimeBCD", "DateBCD"}
DataTypeOf(e) == Head(e.value_type \o e.sdk_data_type)
HasDate(e) == e.conversion # << >> /\ e.conversion[1].name \in DateConversions
                /\ e.conversion[1].factor = << >> /\ e.conversion[1].offset = << >>

\* Command::from_event_type has a result for e.
Convertible(e) ==
  /\ e.value_type # << >> \/ e.sdk_data_type # << >>
  /\ HasDate(e) => DataTypeOf(e) = "DateTime"

from_event_type(e) ==
  [name |-> e.type_id, addr |-> e.address[1],
   data_type |-> IF HasDate(e) /\ e.conversion[1].name = "DateBCD" THEN "Date" ELSE DataTypeOf(e),
   conversion |-> IF HasDate(e) THEN << >> ELSE e.conversion,
   mapping |-> IF e.value_list = << >> THEN << >> ELSE << tables.mapping[e.type_id] >>,
   block_len |-> e.block_length, block_count |-> e.block_factor, unit |-> e.unit,
   lower_border |-> e.lower_border, upper_border |-> e.upper_border]

AllConvertible ==
  /\ \A id \in CommandIds : Convertible(event_types[id])
  /\ \A id \in DOMAIN system_event_types_cleaned : Convertible(system_event_types_cleaned[id])

\* Mutant: the error tables are not written.
TablesOfCommands(commands) == UNION {Range(commands[id].mapping) : id \in DOMAIN commands}

\* The tables that devices and commands have, and their texts.
TablesUsed(commands) ==
  {devices_used[name].error_mapping : name \in DOMAIN devices_used}
  \cup UNION {Range(commands[id].mapping) : id \in DOMAIN commands}
TextsUsed(numbers) == UNION {Range(tables.combined[k]) : k \in numbers}

Use ==
  /\ stage = "tables" /\ tables.reversed = {}
  /\ ErrorCode \in DOMAIN tables.mapping /\ AllConvertible
  /\ LET commands == [id \in CommandIds |-> from_event_type(event_types[id])]
         numbers == TablesUsed(commands)
     IN used' = [devices |-> devices_used, event_types |-> commands,
                 system_event_types |-> [id \in DOMAIN system_event_types_cleaned |->
                                           from_event_type(system_event_types_cleaned[id])],
                 mappings |-> [k \in numbers |-> tables.combined[k]],
                 translations |-> [k \in TextsUsed(numbers) |-> texts.combined[k]]]
  /\ stage' = "written"
  /\ UNCHANGED << export, next, value_types, translations, translations_cleaned, event_types,
                  data_point_types, texts, tables >>

Unusable ==
  /\ stage = "tables" /\ tables.reversed = {}
  /\ ErrorCode \notin DOMAIN tables.mapping \/ ~AllConvertible
  /\ Panic

Next ==
  \/ AddMissingGerman \/ CleanTranslations \/ AddMissingEnglish
  \/ CleanEventTypes \/ InvalidValueTypes \/ UnnamedValue \/ Unlinked
  \/ ExtendDevice \/ ExtendEventType \/ PassExtension \/ UnhandledExtension
  \/ FilterEventTypes \/ UnsupportedBlocks \/ UnknownConversion \/ FilterDataPointTypes
  \/ NumberTexts \/ CollectTables \/ UnknownText \/ NumberTables \/ Use \/ Unusable

-----------------------------------------------------------------------------

\* No text that the vendor has, or that was added for a value before, is written
\* over by the one made up for another value.
TextsKept ==
  [][/\ \A id \in DOMAIN translations :
          id \in DOMAIN translations' /\ translations'[id] = translations[id]
     /\ \A id \in DOMAIN translations_cleaned :
          id \in DOMAIN translations_cleaned' /\ translations_cleaned'[id] = translations_cleaned[id]]_vars

\* The borders of a command admit every value that one of its value types admits,
\* in whatever order, and with whatever of them open, they are merged.
BordersCover ==
  stage = "written" =>
    \A id \in DOMAIN used.event_types :
      LET command == used.event_types[id]
          types == {export.value_types[i] : i \in export.event_types[id].value_types}
      IN \A v \in {t \in types : t.data_type \in DOMAIN NumberTypes} :
           /\ command.lower_border # << >> =>
                v.lower_border # << >> /\ command.lower_border[1] <= v.lower_border[1]
           /\ command.upper_border # << >> =>
                v.upper_border # << >> /\ command.upper_border[1] >= v.upper_border[1]

\* What the files refer to is in the files: the commands of the devices, the
\* tables of devices and of commands, also of the system commands, and the texts.
NothingDangling ==
  stage = "written" =>
    /\ \A d \in Range(used.devices) :
         d.commands \subseteq DOMAIN used.event_types /\ d.error_mapping \in DOMAIN used.mappings
    /\ \A command \in Range(used.event_types) \cup Range(used.system_event_types) :
         Range(command.mapping) \subseteq DOMAIN used.mappings
    /\ \A table \in Range(used.mappings) : Range(table) \subseteq DOMAIN used.translations

=============================================================================
