---------------------------- MODULE MCWireLayout ----------------------------
(***************************************************************************)
(* Programs of three declarations over a byte and a six-byte leaf aligned  *)
(* to two; records of one or two fields.  An alignment of three must be    *)
(* refused, one of four raises both leaves and what is built from them.    *)
(***************************************************************************)
EXTENDS WireLayout

MCLeaf == {[size |-> 1, align |-> 1], [size |-> 6, align |-> 2]}
=============================================================================
