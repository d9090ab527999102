------------------------------ MODULE MCRelease ------------------------------
(***************************************************************************)
(* Release for TLC: small exports in the form of the vendor's.  Each has   *)
(* two to six devices, which have ranges of devices.used.json, and a few   *)
(* event types; each family of exports varies one part of the tables.      *)
(***************************************************************************)
EXTENDS Release

At(words, index) == WithAt(Str(words, index))

\* The labels in the order of their ids, each with its German and English text.
TextTable ==
  << << Str("Mode", 0), Str("Aus", NoIndex), Str("OFF", NoIndex) >>,
     << Str("Mode", 1), Str("Heizen", 1), Str("Heating", NoIndex) >>,
     << Str("Old", 1), Str("Kuehlen", NoIndex), Str("Cooling", 1) >>,
     << Str("Other", 1), Str("Heizen", NoIndex), Str("Heat", NoIndex) >>,
     << Str(ErrorCode, 15), Str("Stoerung", 15), Str("Fault", 15) >>,
     << Str(ErrorCode, 16), Str("Fuehler", NoIndex), Str("Heat", NoIndex) >>,
     << Str(DeviceErrorCode("VScotHO1"), 16), Str("Brenner", NoIndex), Str("Burner", NoIndex) >>,
     << Str("viessmann.eventtype.Pumpe.description", NoIndex), Str("Pumpe an", NoIndex),
        Str("Pump on", NoIndex) >> >>

MCTranslationFixes == Str("Old", 1) :> Str("New", 1)
MCValueListFixes == Str("Wrong", 0) :> Str("Mode", 0)
MCCleanNames == [x_Betriebsart |-> "Betriebsart"]
MCUnsupportedDevices == {"Vitocom"}
MCUnsupportedCommands == {"Node_Status"}
MCUnmarked == {"viessmann.errorcode", "viessmann.errorcode.VScotHO1"}
MCKnownConversions == {"Div10", "DateBCD", "DateTimeBCD", "MultOffset"}

ValueType(data_type, name) ==
  [data_type |-> data_type, name |-> name, enum_address_value |-> << >>,
   enum_replace_value |-> EmptyText, description |-> EmptyText,
   lower_border |-> << >>, upper_border |-> << >>, unit |-> << >>]
Entry(n, id, description) ==
  [ValueType("VarChar", EmptyText) EXCEPT !.enum_address_value = << n >>,
     !.enum_replace_value = id, !.description = description]
Range_(lower, upper) ==
  [ValueType("Int", EmptyText) EXCEPT !.lower_border = lower, !.upper_border = upper]

EventType(name, types) ==
  [name |-> name, address |-> 8192, conversion |-> "NoConversion", value_types |-> types]

Ext(table, id, field, value) == [table |-> table, id |-> id, field |-> field, value |-> value]
DeviceExt(id, field, value) == Ext("ecnDatapointType", id, field, value)
EventExt(id, field, value) == Ext("ecnEventType", id, field, value)

\* Event types 1 and 2 are lists, 3 is a number and 4 the error memory; 5 is not
\* supported and 6 has times.
EventTypes ==
  1 :> EventType("x_Betriebsart", {1, 2}) @@ 2 :> EventType("Pumpe", {2})
  @@ 3 :> EventType("Sollwert", {3, 4}) @@ 4 :> EventType("ecnsysEventType~Error", {5})
  @@ 5 :> EventType("Node_Status", {3}) @@ 6 :> EventType("Zeiten", {6})
ValueTypes ==
  << Entry(0, Str("Mode", 0), EmptyText), Entry(1, At("Mode", 1), EmptyText),
     Range_(<< 0 >>, << 10 >>), Range_(<< 0 >>, << 10 >>),
     ValueType("Binary", Str("Error", NoIndex)), ValueType("Binary", Str("Schaltzeiten", NoIndex)) >>

\* Every event type can be read; its block is as long as its id times 9.
EventExts == FlattenSeq([id \in 1..6 |-> << EventExt(id, "fc_read", "virtual_read"),
                                            EventExt(id, "sdk_data_type", "Int"),
                                            EventExt(id, "block_length", 9 * id) >>])
SystemEventTypes ==
  LET system(address, length) ==
        [address |-> << address >>, block_length |-> << length >>, fc_read |-> << "virtual_read" >>,
         sdk_data_type |-> << "ByteArray" >>, conversion |-> "NoConversion",
         conversion_factor |-> << >>, conversion_offset |-> << >>,
         value_list |-> 0 :> Str("Heizen", 0)]
  IN [ecnsysDeviceIdent |-> system(248, 8), ecnsysErrorBuffer |-> system(250, 9),
      Pumpe |-> system(249, 8)]

DataPoint(name, ids) == [address |-> name, event_types |-> ids]
TwoDevices == 1 :> DataPoint("VScotHO1", {1, 2, 3, 4}) @@ 2 :> DataPoint("Ecotronic", {1, 3, 6})
              @@ 3 :> DataPoint("Vitocom", {1}) @@ 4 :> DataPoint("ErrorsOnly", {4, 5})
TwoIds == << DeviceExt(1, "identification", << 8395 >>), DeviceExt(2, "identification", << 8244 >>),
             DeviceExt(3, "identification", << 1 >>), DeviceExt(4, "identification", << 2 >>),
             DeviceExt(2, "f0", -1), DeviceExt(2, "product_name", "Ecotronic"),
             DeviceExt(9, "f0", 1), Ext("ecnEventTypeGroup", 1, "address", "0x1") >>

Id(group, id, index, f) == [group_id |-> group, id |-> id, software_index |-> index, f0 |-> f]

Base ==
  [labels |-> [i \in DOMAIN TextTable |-> TextTable[i][1]],
   texts |-> [l \in {t[1] : t \in Range(TextTable)} |->
                LET t == CHOOSE t \in Range(TextTable) : t[1] = l IN [de |-> t[2], en |-> t[3]]],
   value_types |-> ValueTypes, event_types |-> EventTypes, data_point_types |-> TwoDevices,
   extension_values |-> EventExts \o TwoIds, system_event_types |-> SystemEventTypes,
   controllers |-> {Id(32, 203, 0, 65535)}]

\* A value may have a known label, one that is fixed, or none, with a description
\* that is a German text, an unknown one, dashes, the id of a text or wrong.
Ids == {Str("Mode", 0), At("Mode", 1), At("Missing", 1), Str("Old", 1), Str("New", 1),
        Str("Wrong", 0), Str("ecnStatusEventType", 1), EmptyText}
Descriptions == {EmptyText, Str("Heizen", 1), Str("Pumpe", NoIndex), Str("Sonst", NoIndex),
                 Str("--", 1), At("Mode", 0), At("Nowhere", 1)}
TextExports ==
  {[Base EXCEPT !.value_types[1] = Entry(n, id1, d1), !.value_types[2] = Entry(1, id2, d2)] :
     n \in {0, 1}, id1 \in Ids, d1 \in Descriptions,
     id2 \in {At("Mode", 1), Str("Missing", 1), Str("Old", 1)},
     d2 \in {EmptyText, Str("Heizen", NoIndex)}}

BorderExports ==
  {[Base EXCEPT !.value_types[3] = Range_(l3, u3), !.value_types[4] = Range_(l4, u4)] :
     l3 \in {<< >>, << 0 >>, << 5 >>}, u3 \in {<< >>, << 10 >>},
     l4 \in {<< >>, << 2 >>}, u4 \in {<< >>, << 7 >>, << 20 >>}}

\* One more value of a table extension, among them some that the program refuses.
MoreExts ==
  {EventExt(6, "block_factor", n) : n \in {0, 7, 8, 56, 256}}
  \cup {EventExt(3, "block_factor", n) : n \in {4, 9}}
  \cup {EventExt(3, "block_length", 12), EventExt(3, "fc_read", "undefined"),
        EventExt(3, "mapping_type", "NoMap"), EventExt(3, "conversion_factor", 2),
        EventExt(3, "conversion_offset", 0), EventExt(3, "colour", 1),
        DeviceExt(1, "colour", 1), DeviceExt(1, "identification", << 8244 >>),
        DeviceExt(2, "f0", 3), DeviceExt(1, "identification", << >>)}
ExtExports ==
  {[Base EXCEPT !.extension_values = @ \o << x, y >>] : x, y \in MoreExts}
  \cup {[Base EXCEPT !.value_types[3] = ValueType(type, EmptyText),
                     !.value_types[4] = ValueType(type, EmptyText),
                     !.event_types[3].conversion = conversion] :
          type \in {"DateTime", "Float", "VarChar"}, conversion \in {"DateBCD", "DateTimeBCD", "Div10"}}
  \cup {[Base EXCEPT !.value_types[4] = ValueType("Float", EmptyText)],
        [Base EXCEPT !.extension_values = TwoIds \o EventExts \o << Ext("ecnEventType", 6, "fc_read", "") >>],
        [Base EXCEPT !.extension_values = SelectSeq(@, LAMBDA x : x.field # "block_length")]}

\* Tables that the generator refuses, and some like them that it does not.
OddExports ==
  {[Base EXCEPT !.value_types[3] = ValueType("Blob", EmptyText)],
   [Base EXCEPT !.event_types[3].value_types = {3, 9}],
   [Base EXCEPT !.data_point_types[3].event_types = {}],
   [Base EXCEPT !.extension_values = Append(@, Ext("ecnVersion", 1, "vsko", 0))]}
  \cup {[Base EXCEPT !.event_types[3].conversion = "Unheard"],
        [Base EXCEPT !.event_types[5].conversion = "Unheard"]}
  \cup {[Base EXCEPT !.system_event_types.ecnsysDeviceIdent.conversion = conversion] :
          conversion \in {"Unheard", "DateBCD", "Div10"}}
  \cup {[Base EXCEPT !.system_event_types[id].value_list = n :> text] :
          id \in {"ecnsysErrorBuffer", "Pumpe"}, n \in {0, 1},
          text \in {Str("Heizen", 1), Str("Pumpe", NoIndex), Str("--", 1), Str("Sonst", NoIndex)}}

\* Five of the VScotHO1 family, and a device that has no ranges: the ranges of the
\* identification extension and of the F0 identifier.
Family ==
  << << "VScotHO1", 8395, << 0 >>, << 3 >>, -2, -2 >>,
     << "VScotHO1_72", 8395, << 72 >>, << 89 >>, -1, -1 >>,
     << "VScotHO1_200", 8395, << 200 >>, << 255 >>, 0, 0 >>,
     << "VScotHO1_200_01", 8395, << 200 >>, << 255 >>, 1, 9 >>,
     << "VScotHO1_200_10", 8395, << 200 >>, << 255 >>, 10, 10 >>,
     << "Ecotronic", 8244, << >>, << >>, -1, -1 >> >>

\* Two devices whose identifiers differ in the group only.
Groups ==
  << << "VBlockEM20-39", 12304, << >>, << >>, -2, -2 >>,
     << "VitotwinGW_BATI", 2064, << 0 >>, << 1 >>, -1, -1 >> >>

\* Base with other devices; -2 stands for no value of the F0 identifier.
WithDevices(devices, controllers) ==
  [Base EXCEPT
     !.data_point_types = [i \in DOMAIN devices |-> DataPoint(devices[i][1], {3})],
     !.event_types = 3 :> EventType("Sollwert", {3, 4}),
     !.extension_values =
       << EventExt(3, "fc_read", "virtual_read"), EventExt(3, "block_length", 12) >>
       \o FlattenSeq([i \in DOMAIN devices |->
            LET d == devices[i]
            IN << DeviceExt(i, "identification", << d[2] >>),
                  DeviceExt(i, "identification_extension", d[3]),
                  DeviceExt(i, "identification_extension_till", d[4]) >>
               \o (IF d[5] = -2 THEN << >>
                   ELSE << DeviceExt(i, "f0", d[5]), DeviceExt(i, "f0_till", d[6]) >>)]),
     !.controllers = controllers]

Controllers ==
  {Id(32, id, index, f) : id \in {203, 52, 1}, index \in {3, 150, 200, 255}, f \in {0, 5, 11, 65535}}

MCExports == TextExports \cup BorderExports \cup ExtExports \cup OddExports \cup {WithDevices(Family, Controllers)}
MCGroups == {WithDevices(Groups, {Id(48, 16, 1, 65535), Id(8, 16, 1, 65535)})}

=============================================================================
