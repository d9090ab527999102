------------------------------- MODULE Release -------------------------------
(***************************************************************************)
(* From the vendor's export to the text that a user sees: the generator    *)
(* (Generator) and the build script (BuildScript) make the devices, and    *)
(* connect looks for the controller among them (Detect).                   *)
(***************************************************************************)
EXTENDS Generator, BuildScript

VARIABLES
  program,                                     \* what was compiled
  entries, device_id, f0, pc, fallback, found  \* of Detect

detect_vars == << entries, device_id, f0, pc, fallback, found >>

Detection == INSTANCE Detect

ReleaseInit == Init /\ Detection!Init /\ program = << >>

Generate == Next /\ UNCHANGED << program, detect_vars >>

\* The build script, as far as its results depend on the files.
Build ==
  /\ stage = "written" /\ ~Refused(used)
  /\ program' =
       [commands |-> used.event_types, max_payload_len |-> MaxPayloadLen(used),
        system_commands |-> used.system_event_types,
        mappings |-> [k \in DOMAIN used.mappings |-> MappingTexts(used, k)],
        devices |-> [name \in DOMAIN used.devices |->
                       [commands |-> CommandsOf(used, name),
                        errors |-> used.devices[name].error_mapping]],
        entries |-> Devices(used)]
  /\ stage' = "built"
  /\ UNCHANGED << export, next, value_types, translations, translations_cleaned, event_types,
                  data_point_types, texts, tables, used, detect_vars >>

BuildFails == stage = "written" /\ Refused(used) /\ Panic /\ UNCHANGED << program, detect_vars >>

\* A program that has been built is connected to one of the controllers.
Connect ==
  /\ stage = "built"
  /\ Detection!Connect(program.entries, export.controllers)
  /\ UNCHANGED << vars, program >>

Detect == Detection!Next /\ UNCHANGED << vars, program >>

ReleaseNext == Generate \/ Build \/ BuildFails \/ Connect \/ Detect

ReleaseSpec == ReleaseInit /\ [][ReleaseNext]_<< vars, program, detect_vars >>

-----------------------------------------------------------------------------
(* What a value looks like *)

\* The table of VControl::get: that of the device for an error, that of the command
\* for all else.
TableFor(name, command) ==
  IF command.data_type = "Error" THEN << program.devices[name].errors >> ELSE command.mapping

\* The texts of OutputValue for numbers; any other number is shown as one.
Shown(name, command) ==
  LET table == TableFor(name, command)
  IN IF table = << >> THEN << >> ELSE program.mappings[table[1]]

-----------------------------------------------------------------------------
(* What the texts mean: the vendor's tables, read without the program *)

\* The id that the fixes make of id, and the texts of the labels that have it.
FixedId(id) == value_list_fixes(translation_fixes(id))
TextsOf(id) ==
  {canonicalize_translation_text(translations_raw[l].en) :
     l \in {l \in DOMAIN export.texts : translation_fixes(l) = id}}

\* The value type v has a label with a translation.
NamedTexts(v) == TextsOf(FixedId(StripAt(v.enum_replace_value)))

\* Its description is the German text of some label, or names one.
DescribedIds(v) ==
  LET text == clean_enum_text(v.enum_replace_value, v.description)
  IN IF text = EmptyText THEN {}
     ELSE {l \in DOMAIN export.texts : translations_raw[l].de = text}
          \cup {StripAt(text),
                [text EXCEPT !.words = "viessmann.eventtype." \o @ \o ".description"]}
DescribedTexts(v) == UNION {TextsOf(FixedId(id)) : id \in DescribedIds(v)}

\* What may stand for v: one of these texts, and only if there is none under its id,
\* the description or the id of a value that has the id.
TextsFor(v) ==
  LET same == {w \in Range(export.value_types) :
                 StripAt(w.enum_replace_value) = StripAt(v.enum_replace_value)}
  IN NamedTexts(v) \cup DescribedTexts(v)
     \cup (IF NamedTexts(v) # {} THEN {}
           ELSE {w.description : w \in same} \cup {w.enum_replace_value : w \in same})

\* What may stand for the value n of the event type id, and the values that it has.
Meanings(id, n) ==
  UNION {TextsFor(v) : v \in {v \in {export.value_types[i] : i \in export.event_types[id].value_types} :
                                v.enum_address_value = << n >>}}
ListedValues(id) ==
  UNION {Range(export.value_types[i].enum_address_value) : i \in export.event_types[id].value_types}

\* A number is shown with a text if and only if the vendor lists it for the command,
\* and the text means this number of this command: whatever texts are equal, share a
\* number, are renamed, replaced or made up on the way, and whatever tables are.
TextsMeanValues ==
  stage = "built" =>
    \A name \in DOMAIN program.devices :
      \A id \in Range(program.devices[name].commands) :
        LET command == program.commands[id]
        IN command.data_type # "Error" =>
             /\ DOMAIN Shown(name, command) = ListedValues(id)
             /\ \A n \in ListedValues(id) : Shown(name, command)[n] \in Meanings(id, n)

\* The ids that the description leads to, of which the program follows the first it knows.
LedTo(v) ==
  LET text == clean_enum_text(v.enum_replace_value, v.description)
  IN IF text = EmptyText THEN {}
     ELSE IF text.at THEN {StripAt(text)}
     ELSE Range(reverse_translations_raw(text))
          \cup {text, [text EXCEPT !.words = "viessmann.eventtype." \o @ \o ".description"]}

\* The description of v is of no interest: its id is a label, by this and by its fixed name.
HasText(v) ==
  LET id == StripAt(v.enum_replace_value)
  IN id \in DOMAIN export.texts /\ TextsOf(id) # {}

\* Texts that the fixes, tables and descriptions of the vendor do not confuse: event types
\* have different names, only lists have values, a fixed id has a text, and a description
\* that is followed leads neither to a label that is renamed nor to the id of a value
\* without a text.
OrderlyTexts ==
  LET ids == {StripAt(v.enum_replace_value) : v \in Range(export.value_types)}
      name(id) == clean_event_type_name(export.event_types[id].name)
  IN /\ \A i, j \in DOMAIN export.event_types : name(i) = name(j) => i = j
     /\ \A id \in DOMAIN TranslationFixes \cup DOMAIN ValueListFixes : TextsOf(FixedId(id)) # {}
     /\ \A v \in Range(export.value_types) :
          /\ v.enum_address_value # << >> =>
               v.data_type \in {"NText", "VarChar"} /\ v.name.words # Ecotronic_Party
          /\ ~HasText(v) =>
               \A id \in LedTo(v) :
                 IF id \in DOMAIN export.texts THEN id \notin DOMAIN TranslationFixes
                                               ELSE id \notin ids

\* The errors of a device have the vendor's texts for this device, if there are any,
\* and the texts for all devices only otherwise.
ErrorsMeanDevice ==
  stage = "built" =>
    \A name \in DOMAIN program.devices :
      LET own == {l \in DOMAIN export.texts : l.words = DeviceErrorCode(name)}
          labels == IF own # {} THEN own ELSE {l \in DOMAIN export.texts : l.words = ErrorCode}
          errors == program.mappings[program.devices[name].errors]
      IN /\ DOMAIN errors = {l.index : l \in labels}
         /\ \A l \in labels : errors[l.index] = canonicalize_translation_text(translations_raw[l].en)

\* What any command of any device asks for fits into the buffer of a telegram.
PayloadFits ==
  stage = "built" =>
    \A command \in Range(program.commands) \cup Range(program.system_commands) :
      command.block_len # << >> => command.block_len[1] <= program.max_payload_len

\* For each system command that asks for anything there is a command of a device that
\* asks for as much.
SystemCommandsFit ==
  \A s \in Range(used.system_event_types) :
    \/ s.block_len[1] = 0
    \/ \E c \in Range(used.event_types) : s.block_len[1] <= c.block_len[1]

TypeOK ==
  /\ Detection!TypeOK
  /\ stage \in {"german", "english", "extend", "devices", "texts", "tables", "written", "built", "panic"}
  /\ stage \in {"written", "built"} => used # << >>
  /\ stage = "built" <=> program # << >>

\* The controllers find what the vendor made for them, see Detect.
UniqueMatch == Detection!UniqueMatch
BestEffort == Detection!BestEffort

\* The device found is the vendor's for the identifier of the controller, which is
\* group and id together.
SameGroup ==
  pc = "done" /\ found # << >> =>
    used.devices[found[1].name].id = device_id.group_id * 256 + device_id.id

=============================================================================
