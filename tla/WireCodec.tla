----------------------------- MODULE WireCodec ------------------------------
(***************************************************************************)
(* Integer wire storage: the byte order and the width of the length        *)
(* prefixes and 16-bit units of bounded strings.  A byte has Radix values  *)
(* (256 in the code); widths are 1, 2 and 4 bytes.                         *)
(***************************************************************************)
EXTENDS Integers

CONSTANTS
    Radix,        \* values of a byte
    NativeOrder   \* byte order of the target: "little" or "big"

ASSUME RadixAssumption == Radix \in Nat /\ Radix > 1
ASSUME OrderAssumption == NativeOrder \in {"little", "big"}

Byte == 0 .. Radix - 1
Width == {1, 2, 4}
Order == {"native", "little", "big"}

\* The number of values a width encodes.
Values(w) ==
    CASE w = 1 -> Radix
      [] w = 2 -> Radix * Radix
      [] w = 4 -> Radix * (Radix * (Radix * Radix))

\* LengthWire::represents.
Represents(n, w) == n < Values(w)

\* The significance of the byte at offset j.
Place(j, w, order) ==
    IF order = "big" \/ (order = "native" /\ NativeOrder = "big") THEN w - 1 - j ELSE j

Quotient(n, p) ==
    CASE p = 0 -> n
      [] p = 1 -> n \div Radix
      [] p = 2 -> (n \div Radix) \div Radix
      [] p = 3 -> ((n \div Radix) \div Radix) \div Radix

\* Mutant: the value is not cut to its byte.
DigitUncut(n, p) == Quotient(n, p)

Digit(n, p) == Quotient(n, p) % Radix

\* to_ne_bytes, to_le_bytes, to_be_bytes; a value that does not fit wraps.
ToBytes(n, w, order) == [j \in 0 .. w - 1 |-> Digit(n, Place(j, w, order))]

\* from_ne_bytes, from_le_bytes, from_be_bytes.
FromBytes(b, w, order) ==
    LET d(p) == b[Place(p, w, order)]
    IN CASE w = 1 -> d(0)
         [] w = 2 -> d(0) + Radix * d(1)
         [] w = 4 -> d(0) + Radix * (d(1) + Radix * (d(2) + Radix * d(3)))
=============================================================================
