-------------------------------- MODULE Word --------------------------------
(***************************************************************************)
(* Machine words.  The core's word is 32 bits in four bytes of 8; here it  *)
(* has WORD_BITS bits, still in four bytes, and every width derived from   *)
(* the word (shift amounts, halves, immediates) shrinks with it.           *)
(***************************************************************************)
EXTENDS Integers

CONSTANTS WORD_BITS,   \* 32 in the code
          UPPER        \* the weight of a U-type immediate, 2^12 in the code

ASSUME WordAssumption == WORD_BITS \in {4, 8, 16, 32} /\ UPPER \in Nat

WORD == 2 ^ WORD_BITS
HALF == 2 ^ (WORD_BITS \div 2)
BYTE == 2 ^ (WORD_BITS \div 4)

Words == 0 .. WORD - 1

\* 0xFFFFFFFF & val
word(val) == val % WORD

to_signed(val) == IF word(val) >= WORD \div 2 THEN word(val) - WORD ELSE word(val)

\* The low part of val, sign extended to a word.
signExtend(val, size) ==
  word(IF val % size >= size \div 2 THEN (val % size) - size ELSE val % size)

\* Shift amounts use the low five bits: 0 .. 31 in the code.
shamt(val) == val % WORD_BITS

\* The word whose bit i is set exactly when Op holds of bit i of x and of y.
bitwise(Op(_, _), x, y) ==
  LET bit(z, i) == (z \div 2 ^ i) % 2 = 1
      at(i)     == IF i < WORD_BITS /\ Op(bit(x, i), bit(y, i)) THEN 2 ^ i ELSE 0
      nibble(i) == at(i) + at(i + 1) + at(i + 2) + at(i + 3)
      octet(i)  == nibble(i) + nibble(i + 4)
  IN  octet(0) + octet(8) + octet(16) + octet(24)

x & y  == bitwise(LAMBDA a, b : a /\ b, x, y)
x | y  == bitwise(LAMBDA a, b : a \/ b, x, y)
x ^^ y == bitwise(LAMBDA a, b : a # b, x, y)

\* Byte i of a word, and the word of four bytes, little endian.
byteOf(val, i) == (val \div (BYTE ^ i)) % BYTE
=============================================================================
