------------------------------- MODULE Detect -------------------------------
(***************************************************************************)
(* How VControl::connect finds the device: it reads the identifier and, if *)
(* it can, the F0 identifier of the controller, and Device::detect of      *)
(* src/src/device/mod.rs looks for them among the devices, four times over *)
(* with weaker and weaker conditions.                                      *)
(*                                                                         *)
(* The devices are the entries of a perfect hash map, whose order is that  *)
(* of their hashes: here it is any order.  Group, id, indices and F0       *)
(* identifier are as in DeviceIdRange; an optional number is << n >>, or   *)
(* << >> for None.  The hardware index is there if and only if the software*)
(* index is and is not compared (USE_HARDWARE_INDEX), so it is left out.   *)
(***************************************************************************)
EXTENDS Integers, Sequences, FiniteSets, SequencesExt

VARIABLES
  entries,   \* DEVICES.entries(): the devices in some order, each a record with
             \* name, group_id, id, software_index(_till), f0(_till)
  device_id, \* the identifier of the controller: group_id, id, software_index, f0
  f0,        \* device_id_f0, once it is read
  pc,        \* "start", "read" or the loop that is next, "done" in the end
  fallback,  \* device_fallback: << d >> or << >>
  found      \* what detect returned: << d >> or << >>

vars == << entries, device_id, f0, pc, fallback, found >>

Unset == 65535

\* The places of the devices with this id, in the order of the map.
Candidates == {i \in DOMAIN entries : entries[i].id = device_id.id}

\* Are the F0 identifiers of these controllers compared?
UsesF0(id) == id.id \in 192..203 /\ id.software_index >= 200

Within(n, from, till) == from # << >> /\ till # << >> /\ from[1] <= n /\ n <= till[1]

SameF0(d) == d.f0 = f0
F0InRange(d) == Within(f0[1], d.f0, d.f0_till)
SameIndex(d) == d.software_index = << device_id.software_index >>
IndexInRange(d) == Within(device_id.software_index, d.software_index, d.software_index_till)

Init ==
  /\ entries = << >> /\ device_id = << >>
  /\ f0 = << >> /\ fallback = << >> /\ found = << >>
  /\ pc = "start"

\* A program with these devices, in any order, is connected to a controller.
Connect(devices, controllers) ==
  /\ pc = "start"
  /\ entries' \in SetToSeqs(devices)
  /\ device_id' \in controllers
  /\ pc' = "read"
  /\ UNCHANGED << f0, fallback, found >>

Read(value) ==
  /\ pc = "read"
  /\ f0' = value
  /\ pc' = IF value # << >> /\ UsesF0(device_id) THEN "f0" ELSE "index"
  /\ UNCHANGED << entries, device_id, fallback, found >>

\* The all-ones F0 identifier reads as Value::Empty, and so as None.
ReadF0 == Read(IF device_id.f0 = Unset THEN << >> ELSE << device_id.f0 >>)

\* Any error reading it is taken for a controller that has none.
ReadF0Fails == Read(<< >>)

\* The first of hits, the candidates that satisfy the condition of the loop,
\* is the result, otherwise loop next is tried.
Look(loop, hits, next) ==
  /\ pc = loop
  /\ \/ /\ \E i \in hits : (\A j \in hits : i <= j) /\ found' = << entries[i] >>
        /\ pc' = "done"
     \/ /\ hits = {}
        /\ pc' = next
        /\ UNCHANGED found
  /\ UNCHANGED << entries, device_id, f0 >>

ExactF0 ==
  /\ Look("f0", {i \in Candidates : SameF0(entries[i])}, "f0_range")
  /\ UNCHANGED fallback

\* Mutant: the end of the range is not looked at.
F0RangeOpen ==
  /\ Look("f0_range",
          {i \in Candidates : entries[i].f0 # << >> /\ entries[i].f0[1] <= f0[1]}, "index")
  /\ UNCHANGED fallback

F0Range ==
  /\ Look("f0_range", {i \in Candidates : F0InRange(entries[i])}, "index")
  /\ UNCHANGED fallback

\* The fallback is the last candidate, if there is any.
SetFallback ==
  \/ \E i \in Candidates : (\A j \in Candidates : j <= i) /\ fallback' = << entries[i] >>
  \/ Candidates = {} /\ UNCHANGED fallback

\* Mutant: the fallback is returned before the ranges are tried.
ExactIndexOrAny ==
  /\ Look("index", {i \in Candidates : SameIndex(entries[i])}, "fallback")
  /\ IF pc' = "done" THEN UNCHANGED fallback ELSE SetFallback

\* Mutant: every candidate is a fallback.
ExactIndexAll ==
  /\ Look("index", {i \in Candidates : SameIndex(entries[i])}, "index_range")
  /\ fallback' = SelectSeq(entries, LAMBDA d : d.id = device_id.id)

\* It matters only when no software index is the same.
ExactIndex ==
  /\ Look("index", {i \in Candidates : SameIndex(entries[i])}, "index_range")
  /\ IF pc' = "done" THEN UNCHANGED fallback ELSE SetFallback

IndexRange ==
  /\ Look("index_range", {i \in Candidates : IndexInRange(entries[i])}, "fallback")
  /\ UNCHANGED fallback

Fallback ==
  /\ pc = "fallback"
  /\ found' = fallback
  /\ pc' = "done"
  /\ UNCHANGED << entries, device_id, f0, fallback >>

Next == ReadF0 \/ ReadF0Fails \/ ExactF0 \/ F0Range \/ ExactIndex \/ IndexRange \/ Fallback

-----------------------------------------------------------------------------
(* What the device is for *)

Devices == {entries[i] : i \in DOMAIN entries}

Results == {<< >>} \cup {<< d >> : d \in Devices}

TypeOK ==
  /\ pc \in {"start", "read", "f0", "f0_range", "index", "index_range", "fallback", "done"}
  /\ fallback \in Results /\ found \in Results

\* Is the device for controllers with the software index n, or the F0 identifier n?
\* One without an index is for all of its id, one without an end of the range for
\* that index only.
IsForIndex(d, n) ==
  \/ d.software_index \in {<< >>, << n >>}
  \/ Within(n, d.software_index, d.software_index_till)
IsForF0(d, n) == d.f0 \in {<< >>, << n >>} \/ Within(n, d.f0, d.f0_till)

\* Is d meant for the controller, as far as is known of it?
MeantFor(d) ==
  /\ d.id = device_id.id
  /\ IsForIndex(d, device_id.software_index)
  /\ f0 # << >> /\ UsesF0(device_id) => IsForF0(d, f0[1])

\* When one device is meant for the controller, it is found, whatever the order
\* of the map: neither the fallback nor an entry that a stricter loop prefers
\* gets before it.
UniqueMatch ==
  pc = "done" => \A d \in Devices : (\A e \in Devices : MeantFor(e) <=> e = d) => found = << d >>

\* A device that is not meant for the controller is the result only if none is,
\* and there is a result as long as any device has the id.
BestEffort ==
  pc = "done" =>
    /\ (\E d \in Devices : MeantFor(d)) => found # << >> /\ MeantFor(found[1])
    /\ (\E d \in Devices : d.id = device_id.id) => found # << >>

=============================================================================
