---------------------------- MODULE ElementTable ----------------------------
(***************************************************************************)
(* What an array field promises: a table of elements.  A request offers    *)
(* values for some of them and is applied to all of these or to none.      *)
(***************************************************************************)
CONSTANTS
    Preflight(_, _, _),   \* form, element, value
    Commit(_, _, _),
    Value

VARIABLES
    elems,     \* index path -> element bytes
    asked,     \* a request is being considered
    form,      \* how its values are written
    request    \* index path -> value

Init == ~asked

Ask ==
    /\ ~asked
    /\ asked'
    /\ DOMAIN request' \subseteq DOMAIN elems
    /\ UNCHANGED elems

Approved == \A p \in DOMAIN request : Preflight(form, elems[p], request[p])

Apply ==
    /\ asked
    /\ Approved
    /\ elems' = [p \in DOMAIN elems |->
                    IF p \in DOMAIN request THEN Commit(form, elems[p], request[p])
                    ELSE elems[p]]
    /\ ~asked'

Reject ==
    /\ asked
    /\ ~Approved
    /\ ~asked'
    /\ UNCHANGED elems

\* One element through its own handle.
Assign ==
    /\ ~asked /\ ~asked'
    /\ \E p \in DOMAIN elems, v \in Value :
          /\ Preflight("logical", elems[p], v)
          /\ elems' = [elems EXCEPT ![p] = Commit("logical", elems[p], v)]

Next == Ask \/ Apply \/ Reject \/ Assign

Spec == Init /\ [][Next]_<<elems, asked>>
=============================================================================
