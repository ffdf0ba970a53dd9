--------------------------- MODULE MCCheckedInput ---------------------------
(***************************************************************************)
(* A machine word of twelve values; slices at an aligned and a misaligned  *)
(* address near the top of the address space; a byte, a two-byte aligned   *)
(* leaf and a record of four bytes.                                        *)
(***************************************************************************)
EXTENDS CheckedInput

MCWire == {"byte", "leaf", "record"}
MCSize == [w \in MCWire |-> CASE w = "byte" -> 1 [] w = "leaf" -> 2 [] w = "record" -> 4]
MCAlign == [w \in MCWire |-> IF w = "byte" THEN 1 ELSE 2]
MCSlices == {[addr |-> 4, len |-> 3], [addr |-> 4, len |-> 5], [addr |-> 5, len |-> 5]}
=============================================================================
