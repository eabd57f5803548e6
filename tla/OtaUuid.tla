-------------------------------- MODULE OtaUuid --------------------------------
(***************************************************************************)
(* The identifier under which a message goes over the air: 16 bytes with a  *)
(* time, random bytes and four small fields that share bytes with marker    *)
(* bits.  An index is stored one higher, so that 0 is "none"; the largest   *)
(* that fits is therefore one less than the field could hold.               *)
(***************************************************************************)
EXTENDS Integers

CONSTANTS Timestamps,  \* Unix times
          Indexes,     \* integers that callers may pass as an index...
          Reserveds,   \* ...and as a reserved value
          Randoms      \* eight random bytes

\* What the model takes for granted of the constants.
OtaAssumption ==
    /\ Timestamps \cup Indexes \cup Reserveds \subseteq Int
    /\ Randoms \subseteq [1..8 -> 0..255]

VARIABLES
    asked, \* the options of the call
    bytes  \* the identifier it made: bytes 0 to 15, NoBytes if it failed

otaVars == <<asked, bytes>>

-------------------------------------------------------------------------------

Byte    == 0..255
NoBytes == << >>

\* The options of a call; an index may be left out, the rest have defaults.
Optional(S) == {{}} \cup {{x} : x \in S}

Options == [timestamp : Timestamps, groupIndex : Optional(Indexes),
            fragmentIndex : Optional(Indexes), reserved1 : Reserveds,
            reserved2 : Reserveds, random : Randoms]

InRange(o) ==
    /\ \A gi \in o.groupIndex : 0 <= gi /\ gi < 15
    /\ \A fi \in o.fragmentIndex : 0 <= fi /\ fi < 31
    /\ o.reserved1 \in {0, 1}
    /\ 0 <= o.reserved2 /\ o.reserved2 < 16384

\* An index as it is stored in a field of the width that holds 0..width - 1.
Stored(index, width) == IF index = {} THEN 0 ELSE ((CHOOSE x \in index : TRUE) + 1) % width

\* Wrong variant: reserved1 goes into the bits of the fragment index.
LayoutOverlapping(o) ==
    [i \in 0..15 |->
        CASE i = 0 -> (o.timestamp \div 16777216) % 256
          [] i = 1 -> (o.timestamp \div 65536) % 256
          [] i = 2 -> (o.timestamp \div 256) % 256
          [] i = 3 -> o.timestamp % 256
          [] i \in {4, 5} -> o.random[i - 3]
          [] i = 6 -> 128 + Stored(o.groupIndex, 16)
          [] i = 7 -> o.random[3]
          [] i = 8 -> 128 + (Stored(o.fragmentIndex, 32) + 16 * o.reserved1)
          [] i \in 9..13 -> o.random[i - 5]
          [] i = 14 -> 128 + ((o.reserved2 \div 256) % 64)
          [] i = 15 -> o.reserved2 % 256]

\* The layout.  The fields of a byte do not overlap: adding is or-ing.
Layout(o) ==
    [i \in 0..15 |->
        CASE i = 0 -> (o.timestamp \div 16777216) % 256
          [] i = 1 -> (o.timestamp \div 65536) % 256
          [] i = 2 -> (o.timestamp \div 256) % 256
          [] i = 3 -> o.timestamp % 256
          [] i \in {4, 5} -> o.random[i - 3]
          [] i = 6 -> 128 + Stored(o.groupIndex, 16)
          [] i = 7 -> o.random[3]
          [] i = 8 -> 128 + (Stored(o.fragmentIndex, 32) + 32 * o.reserved1)
          [] i \in 9..13 -> o.random[i - 5]
          [] i = 14 -> 128 + ((o.reserved2 \div 256) % 64)
          [] i = 15 -> o.reserved2 % 256]

\* GenerateOTAUUID with the options asked for: out of range, it fails.
GenerateOTAUUID ==
    /\ bytes = NoBytes
    /\ bytes' = IF InRange(asked) THEN Layout(asked) ELSE NoBytes
    /\ UNCHANGED asked

\* One call, of any caller: SendMessage passes no options.
Init == asked \in Options /\ bytes = NoBytes

Next == GenerateOTAUUID

Spec == Init /\ [][Next]_otaVars

-------------------------------------------------------------------------------
\* Properties

TypeOK ==
    /\ asked \in Options
    /\ bytes = NoBytes \/ bytes \in [0..15 -> Byte]

\* What is read from a field, by the reference definition of its bits.
Bits(byte, low, width) == (byte \div low) % width

\* From every identifier the fields that were asked for can be read back, none
\* having spilled into another or into a marker bit, at the ends of their
\* ranges too: an index that was left out is not the same as any index.
FieldsReadBack ==
    bytes # NoBytes =>
        /\ \A i \in {6, 8, 14} : Bits(bytes[i], 128, 2) = 1
        /\ Bits(bytes[6], 1, 16) = IF asked.groupIndex = {} THEN 0
                                   ELSE (CHOOSE x \in asked.groupIndex : TRUE) + 1
        /\ Bits(bytes[8], 1, 32) = IF asked.fragmentIndex = {} THEN 0
                                   ELSE (CHOOSE x \in asked.fragmentIndex : TRUE) + 1
        /\ Bits(bytes[8], 32, 4) = asked.reserved1
        /\ Bits(bytes[14], 1, 128) * 256 + bytes[15] = asked.reserved2

===============================================================================
