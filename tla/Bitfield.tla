------------------------------- MODULE Bitfield -------------------------------
(***************************************************************************)
(* The bitfields of src/bitfield.rs: bytes, a length in bits and a count   *)
(* of marked bits that is kept beside them.  BitfieldOwned is what a       *)
(* tracker keeps, BitfieldRef a view of bytes that were received; both are *)
(* records of the same shape here.                                         *)
(*                                                                         *)
(* A byte is the set of the offsets of its one bits, 0 being the lowest.   *)
(* Bytes are counted from 1, bits of the bitfield from 0.                  *)
(***************************************************************************)
EXTENDS Integers, Sequences, FiniteSets

CONSTANT ByteBits    \* bits of a byte, 8 in the code

ASSUME BitfieldAssumption == ByteBits \in Nat \ {0}

Offsets == 0 .. ByteBits - 1

Bitfields ==
    [bytes : Seq(SUBSET Offsets), cnt_marked : Nat, length : Nat]

\* bit_index
ByteOf(index) == index \div ByteBits + 1

OffsetOf(index) == index % ByteBits

\* bytes.get(byte_index).unwrap() finds a byte.
Holds(bytes, index) == ByteOf(index) \in DOMAIN bytes

\* get, of an index below the length
Get(bf, index) == OffsetOf(index) \in bf.bytes[ByteOf(index)]

\* The bits for which get returns Some(true).
MarkedIn(bytes, length) == {i \in 0 .. length - 1 : OffsetOf(i) \in bytes[ByteOf(i)]}

Marked(bf) == MarkedIn(bf.bytes, bf.length)

\* BitfieldRef::new finds a byte for every bit it counts.
Readable(bytes, length) == \A i \in 0 .. length - 1 : Holds(bytes, i)

\* BitfieldRef::new, and the BitfieldOwned that from() makes of it.
RefNew(bytes, length) ==
    [bytes |-> bytes, length |-> length, cnt_marked |-> Cardinality(MarkedIn(bytes, length))]

\* BitfieldOwned::new: one byte more than needed when the length fills its bytes.
OwnedNew(length) ==
    [bytes |-> [k \in 1 .. ByteOf(length) |-> {}], length |-> length, cnt_marked |-> 0]

SetPanics(bf, index) == index \notin 0 .. bf.length - 1 \/ ~Holds(bf.bytes, index)

\* *byte ^= 1 << offset
Flip(bf, index) ==
    [bf.bytes EXCEPT ![ByteOf(index)] =
        IF OffsetOf(index) \in @ THEN @ \ {OffsetOf(index)} ELSE @ \cup {OffsetOf(index)}]

\* Mutant: the bit is counted whatever it was.
Set_CountsAgain(bf, index, target) ==
    IF Get(bf, index) = target
    THEN [bf EXCEPT !.cnt_marked = @ + 1]
    ELSE [bf EXCEPT !.bytes = Flip(bf, index), !.cnt_marked = @ + 1]

\* set, when it does not panic
Set(bf, index, target) ==
    IF Get(bf, index) = target THEN bf
    ELSE [bf EXCEPT !.bytes = Flip(bf, index),
                    !.cnt_marked = IF target THEN @ + 1 ELSE @ - 1]

=============================================================================
