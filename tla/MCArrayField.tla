---------------------------- MODULE MCArrayField ----------------------------
(***************************************************************************)
(* Arrays of one, two and three levels with at most four leaves of two     *)
(* bytes; MaxIndex is the last flat position.  A leaf is invalid when both *)
(* its bytes are 1, which is what the value that is too long would leave.  *)
(* The short value keeps the second byte.                                  *)
(***************************************************************************)
EXTENDS ArrayField

MCShape == {<<3>>, <<2, 2>>, <<1, 3>>, <<2, 1, 2>>}
MCValue == {"short", "long", "tooLong"}
MCValid(b) == b[0] = 0 \/ b[1] = 0
MCPreflight(f, b, v) == v # "tooLong" /\ (f # "init" => MCValid(b))
MCCommit(f, b, v) ==
    CASE v = "short" -> [b EXCEPT ![0] = 0]
      [] v = "long" -> [j \in 0 .. 1 |-> IF j = 0 THEN 1 ELSE 0]
      [] v = "tooLong" -> [j \in 0 .. 1 |-> 1]
=============================================================================
