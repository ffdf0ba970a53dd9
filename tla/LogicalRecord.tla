--------------------------- MODULE LogicalRecord ----------------------------
(***************************************************************************)
(* What a record handle promises its user: a capability stands for one     *)
(* logical value, a function from fields to field values.  A call offers   *)
(* an update; the answer replaces the value as the update says, or leaves  *)
(* it.  What an update is and does is left to the parameters.              *)
(***************************************************************************)
CONSTANTS
    Field,
    Values,               \* the logical values of the schema
    Calls,                \* the updates of a whole record
    Updates(_),           \* the updates of one field
    UpdatedField(_, _, _),\* field, its value, update
    FreshField(_, _),     \* field, update: its first value
    Cleared,              \* the value after clear()
    Nothing               \* no capability; no call

VARIABLES value, offer

Init == value = Nothing /\ offer = Nothing

\* access_mut accepts the bytes.
Acquire == value = Nothing /\ value' \in Values /\ UNCHANGED offer

Release == value # Nothing /\ value' = Nothing /\ UNCHANGED offer

Offer == offer = Nothing /\ offer' \in Calls /\ UNCHANGED value

\* A value is updated; storage that holds none gets its first one.
Accept ==
    /\ offer # Nothing
    /\ value' = [f \in Field |-> IF value = Nothing THEN FreshField(f, offer[f])
                                 ELSE UpdatedField(f, value[f], offer[f])]
    /\ offer' = Nothing

Reject == offer # Nothing /\ offer' = Nothing /\ UNCHANGED value

\* A field's own mutator.
Change(f, u) ==
    /\ value # Nothing
    /\ value' = [value EXCEPT ![f] = UpdatedField(f, value[f], u)]
    /\ UNCHANGED offer

Clear == value # Nothing /\ value' = Cleared /\ UNCHANGED offer

Next ==
    \/ offer = Nothing /\ (Acquire \/ Release \/ Clear)
    \/ Offer
    \/ Accept \/ Reject
    \/ offer = Nothing /\ \E f \in Field : \E u \in Updates(f) : Change(f, u)

Spec == Init /\ [][Next]_<<value, offer>>
=============================================================================
