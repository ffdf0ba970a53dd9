--------------------------- MODULE MCRecordHandle ---------------------------
(***************************************************************************)
(* A record of three visited fields over seven bytes of two values each:   *)
(*   1  a plain leaf at byte 1;                                            *)
(*   2  an aligned optional record: value at bytes 2 and 3, padding 4;     *)
(*   3  a tagged payload at byte 6 whose enum sibling is bytes 5 and 7.    *)
(* A child is a record of one-byte leaves: a leaf accepts the byte values  *)
(* of GoodByte, and its patch keeps it, sets it or offers a value that     *)
(* preflight rejects.                                                      *)
(***************************************************************************)
EXTENDS RecordHandle

MCAddr == 1 .. 7
MCByte == 0 .. 1
MCN == 3
MCKind == <<"plain", "option", "tagged">>
MCTag == {"A", "B", "C"}
MCNoTag == "NoTag"
\* C is an enum value that no variant claims.
MCVariant == <<{}, {}, {"A", "B"}>>
MCStorage == <<{1}, {2, 3, 4}, {6}>>
MCTagWire == <<{}, {}, {5, 7}>>

\* Variant A is a unit variant.
MCWire ==
    [s \in Slot |->
        CASE s[1] = 1 -> {1}
          [] s[1] = 2 -> {2, 3}
          [] s[1] = 3 -> IF s[2] = "B" THEN {6} ELSE {}]

\* Bytes 2 and 6 are enums without a zero value.
GoodByte(a) == IF a \in {2, 6} THEN {1} ELSE {0, 1}

Kept == 90
TooLong == 91

LeafPatch(a) ==
    CASE a = 1 -> {0, 1, TooLong}
      [] a = 2 -> {Kept, 1}
      [] a = 3 -> {Kept, 0, 1, TooLong}
      [] a = 6 -> {Kept, 1, TooLong}

MCChildPatch ==
    [s \in Slot |->
        {c \in [MCWire[s] -> {0, 1, Kept, TooLong}] :
            \A a \in MCWire[s] : c[a] \in LeafPatch(a)}]

MCValid(s, b) == \A a \in DOMAIN b : b[a] \in GoodByte(a)
MCIsComplete(s, c) == \A a \in DOMAIN c : c[a] # Kept

\* Only the init form may be asked about bytes that hold no valid value.
MCPreflight(k, s, b, c) ==
    /\ \A a \in DOMAIN c : c[a] # TooLong
    /\ k # "init" => MCValid(s, b)

MCCommit(k, s, b, c) == [a \in DOMAIN b |-> IF c[a] \in MCByte THEN c[a] ELSE b[a]]

\* The enum's raw values; the fourth combination of bytes is unknown.
RawOfTag == [A |-> [a \in {5, 7} |-> 0],
             B |-> [a \in {5, 7} |-> IF a = 5 THEN 1 ELSE 0],
             C |-> [a \in {5, 7} |-> 1]]
MCToRaw(f, t) == RawOfTag[t]
MCFromRaw(f, b) ==
    IF \E t \in MCTag : RawOfTag[t] = b
    THEN CHOOSE t \in MCTag : RawOfTag[t] = b
    ELSE MCNoTag
=============================================================================
