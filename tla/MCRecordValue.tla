--------------------------- MODULE MCRecordValue ----------------------------
(***************************************************************************)
(* The record of MCRecordHandle, read.  The value of a child is the value  *)
(* of its leaves.                                                          *)
(***************************************************************************)
EXTENDS RecordValue, MCRecordHandle

MCRead(s, b) == b
MCPatchFrom(s, v) == v
MCPatched(s, v, c) == [a \in DOMAIN v |-> IF c[a] \in MCByte THEN c[a] ELSE v[a]]
MCInitial(s, c) == c
=============================================================================
