---------------------------- MODULE BoundedText -----------------------------
(***************************************************************************)
(* What a bounded string field promises: it holds one logical text of its  *)
(* declaration's type, a write replaces the whole text when it is not      *)
(* longer than the declaration allows and changes nothing otherwise.       *)
(***************************************************************************)
EXTENDS Integers, Sequences

CONSTANTS
    Limit(_),   \* longest text of a declaration
    Texts(_),   \* logical values of the declared type offered to a write
    NoText      \* the storage is not vouched for

VARIABLES
    kind,       \* the declaration
    text,       \* the logical text, or NoText
    source,     \* the text offered by the last write
    outcome     \* "Ok" or "Error"

Init == text = NoText /\ source = <<>> /\ outcome = "Ok"

Open ==
    /\ text = NoText
    /\ \/ /\ text' \in Texts(kind) /\ Len(text') <= Limit(kind)
          /\ outcome' = "Ok"
       \/ text' = NoText /\ outcome' = "Error"
    /\ source' = source

Write ==
    /\ source' \in Texts(kind)
    /\ IF Len(source') <= Limit(kind)
         THEN text' = source' /\ outcome' = "Ok"
         ELSE text' = text /\ outcome' = "Error"

Erase ==
    /\ text # NoText
    /\ text' = <<>>
    /\ outcome' = "Ok"
    /\ source' = source

Next ==
    /\ kind' = kind
    /\ Open \/ Write \/ Erase

Spec == Init /\ [][Next]_<<kind, text, source, outcome>>
=============================================================================
