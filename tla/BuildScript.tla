----------------------------- MODULE BuildScript -----------------------------
(***************************************************************************)
(* The build script, src/build.rs: what it makes of the generator's files, *)
(* as the constants that the library is compiled with.  used is the record *)
(* of the files, as Generator writes it.                                   *)
(***************************************************************************)
EXTENDS Integers, FiniteSets, FiniteSetsExt, Functions, TLC

\* The two bytes of a number that may be missing.
HighByte(n) == [i \in DOMAIN n |-> n[i] \div 256]
LowByte(n) == [i \in DOMAIN n |-> n[i] % 256]

\* The group is shifted by two bits where it should be by eight.
DeviceIdRange(d) ==
  [group_id |-> (((d.id \div 256) * 256) \div 4) % 256, id |-> d.id % 256,
   hardware_index |-> HighByte(d.id_ext), hardware_index_till |-> HighByte(d.id_ext_till),
   software_index |-> LowByte(d.id_ext), software_index_till |-> LowByte(d.id_ext_till),
   f0 |-> d.f0, f0_till |-> d.f0_till]

\* A file is refused if a command has no block_len, and phf_codegen panics if the
\* keys of a map are not different.
Refused(used) ==
  \/ \E c \in Range(used.event_types) \cup Range(used.system_event_types) : c.block_len = << >>
  \/ \E c, d \in DOMAIN used.devices :
       c # d /\ DeviceIdRange(used.devices[c]) = DeviceIdRange(used.devices[d])
  \/ \E d \in Range(used.devices) : \E i, j \in d.commands :
       i # j /\ used.event_types[i].name = used.event_types[j].name

\* DEVICES, with the name of the device in each entry.
Devices(used) ==
  {[name |-> name] @@ DeviceIdRange(used.devices[name]) : name \in DOMAIN used.devices}

\* The commands of a device, by their names.
CommandsOf(used, name) ==
  LET ids == used.devices[name].commands
  IN [n \in {used.event_types[i].name : i \in ids} |->
        CHOOSE i \in ids : used.event_types[i].name = n]

\* Mutant: the longest of the commands that the last device has.
MaxPayloadOfOne(used) ==
  LET d == CHOOSE d \in Range(used.devices) : TRUE
  IN Max({used.event_types[i].block_len[1] : i \in d.commands} \cup {0})

\* The system commands are not counted.
MaxPayloadLen(used) == Max({c.block_len[1] : c \in Range(used.event_types)} \cup {0})

\* The texts that a table leads to.
MappingTexts(used, k) ==
  [n \in DOMAIN used.mappings[k] |-> used.translations[used.mappings[k][n]]]

=============================================================================
