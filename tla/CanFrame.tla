------------------------------ MODULE CanFrame ------------------------------
(***************************************************************************)
(* The bit fields of a CAN frame: canvalue2host, host2canvalue, and the    *)
(* masks and shifts of canframe2property and property2canframe             *)
(* (canid_info.c).                                                         *)
(*                                                                         *)
(* A word (uint64_t) or a byte is the set of the positions of its 1 bits,  *)
(* 0 being the lowest.  A field is a record of POS, the byte of its lowest *)
(* bit counted from 1, OFFS, the bit in that byte, and LEN.                *)
(***************************************************************************)
EXTENDS Integers

CONSTANTS BITS_OF_BYTE, BYTE_OF_FRAME

ASSUME FrameAssumption ==
  BITS_OF_BYTE \in Nat \ {0} /\ BYTE_OF_FRAME \in Nat \ {0}

Width == BITS_OF_BYTE * BYTE_OF_FRAME

Bits == 0..(Width - 1)

(* The contents of a frame: data[0] is sent first. *)
Data == [0..(BYTE_OF_FRAME - 1) -> SUBSET (0..(BITS_OF_BYTE - 1))]

(* Mutant: the bytes are taken in the order of the frame. *)
HostOrder(data) ==
  {b \in Bits : b % BITS_OF_BYTE \in data[b \div BITS_OF_BYTE]}

(* The last byte of the frame is the lowest of the word. *)
canvalue2host(data) ==
  {b \in Bits : b % BITS_OF_BYTE \in data[BYTE_OF_FRAME - 1 - (b \div BITS_OF_BYTE)]}

host2canvalue(word) ==
  [k \in 0..(BYTE_OF_FRAME - 1) |->
     {j \in 0..(BITS_OF_BYTE - 1) : (BYTE_OF_FRAME - 1 - k) * BITS_OF_BYTE + j \in word}]

(* The fields the loader lets through: POS 0 is an invalid or missing POS, *)
(* OFFS may be one too many, and LEN is at most that of a uint32_t.        *)
Fields == [pos : 0..BYTE_OF_FRAME, offs : 0..BITS_OF_BYTE, len : 0..(Width \div 2)]

(* A shift by the width of a word or more is undefined in C; the processors *)
(* the binder is built for (x86-64, AArch64) take the count modulo the      *)
(* width.                                                                   *)
bit_shift(f) == ((BYTE_OF_FRAME - f.pos) * BITS_OF_BYTE + f.offs) % Width

ShiftLeft(word, n) == {b \in Bits : b - n \in word}

ShiftRight(word, n) == {b \in Bits : b + n \in word}

can_mask64(f) == 0..(f.len - 1)

(* canframe2property: the raw number of f in a word. *)
ReadField(word, f) == ShiftRight(word, bit_shift(f)) \cap can_mask64(f)

(* Mutant: the field is not cleared before the new number is put in. *)
WriteOver(word, f, number) ==
  word \cup ShiftLeft(number \cap can_mask64(f), bit_shift(f))

(* property2canframe: word with number in f. *)
WriteField(word, f, number) ==
  (word \ ShiftLeft(can_mask64(f), bit_shift(f)))
    \cup ShiftLeft(number \cap can_mask64(f), bit_shift(f))

(* f lies in the frame. *)
Inside(f) == bit_shift(f) + f.len <= Width

(* f lies in one byte. *)
Narrow(f) == f.pos > 0 /\ f.offs + f.len <= BITS_OF_BYTE

Place(f) == bit_shift(f)..(bit_shift(f) + f.len - 1)

=============================================================================
