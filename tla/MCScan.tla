------------------------------- MODULE MCScan -------------------------------
(* Scan for TLC: five addresses in chunks of two, with several commands at  *)
(* one address and one that overlaps another and goes on behind it.  In the *)
(* memories a command has all, some or none of its bytes set, and a byte    *)
(* that belongs to none is not set, 0x00 or something else.                 *)
EXTENDS Scan

Command(a, len) == [addr |-> a, block_len |-> len]

MCSystem == {Command(1, 1), Command(3, 2)}
MCDevice == {Command(1, 2), Command(1, 3)}

Bytes == << << 0, 255, 255, 0, 255 >>,
            << 7, 255, 9, 255, 0 >>,
            << 255, 255, 255, 255, 5 >> >>

MCMemory == [v \in 0..MaxVersion |-> [a \in Addrs |-> Bytes[v + 1][a + 1]]]

=============================================================================
