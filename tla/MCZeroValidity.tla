--------------------------- MODULE MCZeroValidity ---------------------------
(***************************************************************************)
(* Programs of up to six distinct types: enums over two raw values with    *)
(* and without a zero, records of one to three fields, payloads over any   *)
(* enum, lengths zero (which must be refused) and two.                     *)
(***************************************************************************)
EXTENDS ZeroValidity
=============================================================================
