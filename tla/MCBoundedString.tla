-------------------------- MODULE MCBoundedString ---------------------------
(***************************************************************************)
(* Bytes of two values, so a prefix of one byte counts to 1 and one of two *)
(* bytes to 3.  In a str, byte 0 is a one-byte character and two bytes 1   *)
(* are a two-byte character: cutting it in half leaves invalid UTF-8.      *)
(***************************************************************************)
EXTENDS BoundedString

D(f, c, w, o) == [form |-> f, cap |-> c, width |-> w, order |-> o]

\* Capacities on both sides of what the prefix counts to; wires with
\* padding before the units and behind the data.  The macro rejects the C
\* strings without capacity and with a length type.
MCDeclaration ==
    {D("str", c, 1, "little") : c \in {0, 2, 3}}
    \cup {D("str", 3, 2, o) : o \in {"native", "big"}} \cup {D("str", 4, 2, "little")}
    \cup {D("str", 2, 4, "big"), D("u16str", 2, 1, "little"), D("u16str", 2, 2, "big")}
    \cup {D("cstr", c, 0, "native") : c \in {0, 1, 3}}
    \cup {D("u16cstr", 2, 0, "native"), D("cstr", 2, 1, "native")}

\* lead holds the positions of the lead bytes.
MCUtf8(s) ==
    \E lead \in SUBSET (DOMAIN s) :
        \A k \in DOMAIN s :
            /\ s[k] = 1 <=> k \in lead \/ k - 1 \in lead
            /\ k \in lead => k + 1 \in DOMAIN s \ lead
=============================================================================
