---------------------------- MODULE RecordValue -----------------------------
(***************************************************************************)
(* The reading side of a record: its getters, copy_into, the patch made    *)
(* from a logical value, and what the writes of RecordHandle mean for the  *)
(* value read.  Reading does not change the record, so this module adds    *)
(* operators and no actions.                                               *)
(*                                                                         *)
(* A child is known by four more operators: the value its reader returns,  *)
(* the patch made from a value, and the two values its commit leads to.    *)
(***************************************************************************)
EXTENDS RecordHandle

CONSTANTS
    Read(_, _),         \* read or materialize: slot, bytes
    PatchFrom(_, _),    \* From<Logical>: slot, value
    Patched(_, _, _),   \* slot, value before a patch, patch
    Initial(_, _),      \* slot, patch: the value of a complete patch
    Absent, Nothing     \* None of an optional field; no capability

\* What a child's commit makes its reader return.
ASSUME ReadAssumption ==
    \A s \in Slot : \A b \in Bytes(Wire[s]) :
        /\ Valid(s, b) => Read(s, b) # Absent
        /\ \A c \in ChildPatch[s], k \in Form :
              /\ Preflight(k, s, b, c)
              /\ k = "init" => IsComplete(s, c)
              /\ k # "init" => Valid(s, b)
              => /\ Read(s, Commit(k, s, b, c)) =
                       IF k = "init" THEN Initial(s, c) ELSE Patched(s, Read(s, b), c)
                 /\ IsComplete(s, c) => Patched(s, Read(s, b), c) = Initial(s, c)

\* A value that was read makes a complete patch, accepted over any bytes
\* the form may meet.
ASSUME TransferAssumption ==
    \A s \in Slot : \A b \in Bytes(Wire[s]) : Valid(s, b) =>
        LET c == PatchFrom(s, Read(s, b))
        IN /\ c \in ChildPatch[s]
           /\ IsComplete(s, c)
           /\ Initial(s, c) = Read(s, b)
           /\ \A k \in Form, d \in Bytes(Wire[s]) :
                 (k # "init" => Valid(s, d)) => Preflight(k, s, d, c)

\* A child that took a patch takes it again, in every form the patch may be
\* given in, and stays as it is; a tag has one raw value.
ASSUME RepeatAssumption ==
    /\ \A s \in Slot : \A b \in Bytes(Wire[s]), c \in ChildPatch[s], k, l \in Form :
          /\ Preflight(k, s, b, c)
          /\ k = "init" => IsComplete(s, c)
          /\ k # "init" => Valid(s, b)
          /\ l # "patch" => IsComplete(s, c)
          => LET d == Commit(k, s, b, c)
             IN Preflight(l, s, d, c) /\ Commit(l, s, d, c) = d
    /\ \A f \in Field : Kind[f] = "tagged" =>
          \A b \in Bytes(TagWire[f]) :
              FromRaw(f, b) # NoTag => ToRaw(f, FromRaw(f, b)) = b

-----------------------------------------------------------------------------
(* Reading *)

NoValue == [tag |-> NoTag, data |-> Absent]

ReadSlot(s, m) == [tag |-> s[2], data |-> Read(s, Slice(m, Wire[s]))]

\* field_read_expr: what the getter of a field returns.
FieldValue(f, m) ==
    CASE Kind[f] = "plain" -> ReadSlot(<<f, NoTag>>, m)
      [] Kind[f] = "option" ->
            IF IsAllZero(m, Storage[f]) THEN NoValue ELSE ReadSlot(<<f, NoTag>>, m)
      [] Kind[f] = "tagged" -> ReadSlot(<<f, CurrentTag(f, m)>>, m)

\* copy_into: every field, materialized.
CopyInto(m) == [f \in Field |-> FieldValue(f, m)]

Values == {CopyInto(m) : m \in {b \in Bytes(Addr) : RecordValid(b)}}

\* The marker of a missing value is none of the values and patches.
ASSUME NothingAssumption == Nothing \notin Values /\ Nothing \notin Patches

\* Mutant: None becomes a patch that leaves the field alone.
UpdateFromSkipsNone(f, v) ==
    IF v = NoValue THEN Keep
    ELSE [op |-> "set", tag |-> IF Kind[f] = "tagged" THEN v.tag ELSE NoTag,
          to |-> v.tag, child |-> PatchFrom(<<f, v.tag>>, v.data)]

\* From<Logical> of the generated patch: one field, with its tag sibling.
UpdateFrom(f, v) ==
    IF v = NoValue THEN [Keep EXCEPT !.op = "none"]
    ELSE [op |-> "set", tag |-> IF Kind[f] = "tagged" THEN v.tag ELSE NoTag,
          to |-> v.tag, child |-> PatchFrom(<<f, v.tag>>, v.data)]

FromLogical(v) == [f \in Field |-> UpdateFrom(f, v[f])]

-----------------------------------------------------------------------------
(* The meaning of an update *)

\* The child holds a value that the update changes, rather than replaces.
Continues(f, v, u) ==
    CASE Kind[f] = "plain" -> TRUE
      [] Kind[f] = "option" -> v # NoValue
      [] Kind[f] = "tagged" -> v.tag = u.to

UpdatedField(f, v, u) ==
    CASE u.op = "keep" -> v
      [] u.op = "none" -> NoValue
      [] u.op = "set" ->
            [tag |-> u.to,
             data |-> IF Continues(f, v, u)
                      THEN Patched(<<f, u.to>>, v.data, u.child)
                      ELSE Initial(<<f, u.to>>, u.child)]

FreshField(f, u) ==
    IF u.op = "set" THEN [tag |-> u.to, data |-> Initial(<<f, u.to>>, u.child)] ELSE NoValue

-----------------------------------------------------------------------------
(* Properties *)

\* What the user of the handle sees: during a call, the value at entry.
Running == pc \in {"preflight", "commit", "tag"}

Seen ==
    IF ~proved THEN Nothing ELSE CopyInto(IF Running THEN entry ELSE mem)

Logical == INSTANCE LogicalRecord WITH
    Calls <- Patches, Cleared <- CopyInto(Zeroes(Addr)),
    value <- Seen, offer <- IF Running THEN patch ELSE Nothing

\* A handle is a cell holding one logical value.  However many fields, stores
\* and stale bytes a call passes over, what copy_into returns afterwards is
\* the old value updated exactly as the patch says, or the old value.
ImplementsLogicalRecord == Logical!Spec

\* What was read from one record is accepted by every other record of the
\* schema and read back from it: the patch made from a logical value is
\* complete, no call with it is rejected, and no byte of the target's old
\* value (another variant, another presence) shows through.
TransferReadsBack ==
    pc = "returned" =>
        \A v \in Values : patch = FromLogical(v) => result = "Ok" /\ CopyInto(mem) = v

\* Both stores of a field's commit.
CommitWhole(k, f, u, m) ==
    IF StoresTag(k, f, u, m)
    THEN StoreTag(f, u, CommitField(k, f, u, m))
    ELSE CommitField(k, f, u, m)

\* An accepted call can be repeated.  The second time a switch has become a
\* patch of the current variant and an initialization a patch of a present
\* value: these other branches, and the ones of the other forms if the patch
\* is complete, approve every field again and write what is already there.
AcceptedPatchRepeats ==
    pc = "returned" /\ result = "Ok" =>
        \A k \in Form, f \in Field : (k = "patch" \/ PatchComplete(patch)) =>
            /\ Verdict(k, f, patch[f], mem) = "Ok"
            /\ CommitWhole(k, f, patch[f], mem) = mem
=============================================================================
