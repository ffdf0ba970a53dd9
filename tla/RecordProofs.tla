---------------------------- MODULE RecordProofs ----------------------------
(***************************************************************************)
(* Proofs about RecordHandle and RecordValue for every layout, every       *)
(* number of fields and every child that meets the contracts of their      *)
(* assumptions: first what the two passes over the bytes keep, then that   *)
(* the bytes implement a cell holding the logical value of the record.     *)
(***************************************************************************)
EXTENDS RecordValue, TLAPS

-----------------------------------------------------------------------------
(* Bytes *)

\* m1 and m2 hold the same bytes for everything field f owns.
Agree(f, m1, m2) == \A a \in Region(f) : m1[a] = m2[a]

\* Store writes the exact span of b and nothing else.
LEMMA StoreWrites ==
    ASSUME NEW m \in Bytes(Addr), NEW S \in SUBSET Addr, NEW b \in Bytes(S)
    PROVE  /\ Store(m, b) \in Bytes(Addr)
           /\ \A a \in S : Store(m, b)[a] = b[a]
           /\ \A a \in Addr : a \notin S => Store(m, b)[a] = m[a]
           /\ Slice(Store(m, b), S) = b
  <1>1. DOMAIN b = S
    BY DEF Bytes
  <1>2. Store(m, b) \in Bytes(Addr)
    BY <1>1 DEF Store, Bytes
  <1>3. Slice(Store(m, b), S) = b
    BY <1>1 DEF Slice, Store, Bytes
  <1> QED
    BY <1>1, <1>2, <1>3 DEF Store

\* A slice of the record's bytes is a byte function over the slice's span.
LEMMA SliceType ==
    ASSUME NEW m \in Bytes(Addr), NEW S, S \subseteq Addr
    PROVE  Slice(m, S) \in Bytes(S)
  BY DEF Slice, Bytes

\* Zero bytes are bytes.
LEMMA ZeroesType == ASSUME NEW S PROVE Zeroes(S) \in Bytes(S)
  BY ShapeAssumption DEF Zeroes, Bytes

-----------------------------------------------------------------------------
(* Updates *)

\* What the generated patch type guarantees of one field's update.
LEMMA UpdateShape ==
    ASSUME NEW f \in Field, NEW u \in Updates(f)
    PROVE  /\ u.op \in {"keep", "none", "set"}
           /\ u.op = "none" => Kind[f] = "option"
           /\ u.tag \in Tag \cup {NoTag}
           /\ u.op = "set" => /\ <<f, u.to>> \in Slot
                              /\ u.child \in ChildPatch[<<f, u.to>>]
                              /\ Kind[f] = "tagged" => u.to \in Variant[f]
                              /\ Kind[f] # "tagged" => u.to = NoTag
  <1>1. Kind[f] \in {"plain", "option", "tagged"} /\ Variant[f] \subseteq Tag
    BY ShapeAssumption
  <1>2. CASE Kind[f] = "plain"
    BY <1>2 DEF Updates, SetUpdates, Keep, Slot
  <1>3. CASE Kind[f] = "option"
    BY <1>3 DEF Updates, SetUpdates, Keep, Slot
  <1>4. CASE Kind[f] = "tagged"
    <2>1. Updates(f) = {[Keep EXCEPT !.tag = g] : g \in Tag \cup {NoTag}}
                       \cup UNION {SetUpdates(f, Tag \cup {NoTag}, t) : t \in Variant[f]}
      BY <1>4 DEF Updates
    <2>2. CASE u \in {[Keep EXCEPT !.tag = g] : g \in Tag \cup {NoTag}}
      BY <2>2 DEF Keep
    <2>3. CASE u \in UNION {SetUpdates(f, Tag \cup {NoTag}, t) : t \in Variant[f]}
      <3>1. PICK t \in Variant[f] : u \in SetUpdates(f, Tag \cup {NoTag}, t)
        BY <2>3
      <3>2. PICK g \in Tag \cup {NoTag}, c \in ChildPatch[<<f, t>>] :
                u = [op |-> "set", tag |-> g, to |-> t, child |-> c]
        BY <3>1 DEF SetUpdates
      <3> QED
        BY <1>1, <1>4, <3>2 DEF Slot
    <2> QED
      BY <2>1, <2>2, <2>3
  <1> QED
    BY <1>1, <1>2, <1>3, <1>4

-----------------------------------------------------------------------------
(* Locality: a field is judged and committed within the bytes it owns *)

\* The spans a field's checks read lie in its region.
LEMMA RegionShape ==
    ASSUME NEW f \in Field
    PROVE  /\ Storage[f] \subseteq Addr /\ TagWire[f] \subseteq Addr
           /\ Storage[f] \subseteq Region(f) /\ TagWire[f] \subseteq Region(f)
           /\ \A t \in Tag \cup {NoTag} :
                 /\ <<f, t>> \in Slot
                 /\ Wire[<<f, t>>] \subseteq Storage[f]
                 /\ Wire[<<f, t>>] \subseteq Addr
  <1>1. Storage[f] \subseteq Addr /\ TagWire[f] \subseteq Addr
    BY ShapeAssumption
  <1>2. \A t \in Tag \cup {NoTag} : <<f, t>> \in Slot
    BY DEF Slot
  <1>3. \A t \in Tag \cup {NoTag} : Wire[<<f, t>>] \subseteq Storage[f]
    <2>1. \A t : <<f, t>>[1] = f
      OBVIOUS
    <2> QED
      BY <1>2, <2>1, LayoutAssumption
  <1> QED
    BY <1>1, <1>2, <1>3 DEF Region

\* Bytes that agree on a field's region give equal slices of its spans.
LEMMA AgreeSlices ==
    ASSUME NEW f \in Field, NEW m1 \in Bytes(Addr), NEW m2 \in Bytes(Addr),
           Agree(f, m1, m2), NEW S, S \subseteq Region(f)
    PROVE  Slice(m1, S) = Slice(m2, S) /\ IsAllZero(m1, S) = IsAllZero(m2, S)
  BY DEF Agree, Slice, IsAllZero

\* A field's current tag is a tag or unknown.
LEMMA CurrentTagType ==
    ASSUME NEW f \in Field, NEW m \in Bytes(Addr)
    PROVE  CurrentTag(f, m) \in Tag \cup {NoTag}
  BY RegionShape, SliceType, TagAssumption DEF CurrentTag

\* Validity of a field depends on its region only.
LEMMA ValidLocal ==
    ASSUME NEW f \in Field, NEW m1 \in Bytes(Addr), NEW m2 \in Bytes(Addr),
           Agree(f, m1, m2)
    PROVE  /\ CurrentTag(f, m1) = CurrentTag(f, m2)
           /\ IsAllZero(m1, Storage[f]) = IsAllZero(m2, Storage[f])
           /\ \A t \in Tag \cup {NoTag} :
                 Slice(m1, Wire[<<f, t>>]) = Slice(m2, Wire[<<f, t>>])
           /\ FieldValid(f, m1) = FieldValid(f, m2)
  <1>1. CurrentTag(f, m1) = CurrentTag(f, m2)
    BY RegionShape, AgreeSlices DEF CurrentTag
  <1>2. IsAllZero(m1, Storage[f]) = IsAllZero(m2, Storage[f])
    BY RegionShape, AgreeSlices
  <1>3. ASSUME NEW t \in Tag \cup {NoTag}
        PROVE  Slice(m1, Wire[<<f, t>>]) = Slice(m2, Wire[<<f, t>>])
    <2>1. Wire[<<f, t>>] \subseteq Region(f)
      BY RegionShape
    <2> QED
      BY <2>1, AgreeSlices
  <1>4. FieldValid(f, m1) = FieldValid(f, m2)
    BY <1>1, <1>2, <1>3, CurrentTagType DEF FieldValid, ChildValid
  <1> QED
    BY <1>1, <1>2, <1>3, <1>4

\* The verdict on a field's update depends on its region only.
LEMMA VerdictLocal ==
    ASSUME NEW f \in Field, NEW u \in Updates(f), NEW k \in Form,
           NEW m1 \in Bytes(Addr), NEW m2 \in Bytes(Addr), Agree(f, m1, m2)
    PROVE  Verdict(k, f, u, m1) = Verdict(k, f, u, m2)
  <1>1. CASE u.op = "set"
    <2>1. u.to \in Tag \cup {NoTag}
      BY <1>1, UpdateShape DEF Slot
    <2>2. ChildForm(k, f, u, m1) = ChildForm(k, f, u, m2)
      BY ValidLocal DEF ChildForm
    <2>3. ChildPreflight(k, f, u, m1) = ChildPreflight(k, f, u, m2)
      BY <2>1, <2>2, ValidLocal DEF ChildPreflight
    <2>4. ChildIncomplete(k, f, u, m1) = ChildIncomplete(k, f, u, m2)
      BY <2>2 DEF ChildIncomplete
    <2> QED
      BY <2>3, <2>4, ValidLocal
      DEF Verdict, PlainVerdict, OptionVerdict, TaggedVerdict
  <1>2. CASE u.op # "set"
    <2>1. u.op \in {"keep", "none"} /\ (u.op = "none" => Kind[f] = "option")
      BY <1>2, UpdateShape
    <2> QED
      BY <2>1 DEF Verdict, PlainVerdict, OptionVerdict, TaggedVerdict
  <1> QED
    BY <1>1, <1>2

-----------------------------------------------------------------------------
(* The commit pass *)

\* The span and the value a commit of one field stores.
LEMMA ChildCommitType ==
    ASSUME NEW f \in Field, NEW u \in Updates(f), NEW k \in Form, u.op = "set",
           NEW m \in Bytes(Addr)
    PROVE  LET s == <<f, u.to>>
               b == Slice(m, Wire[s])
           IN  /\ s \in Slot /\ Wire[s] \subseteq Addr /\ Wire[s] \subseteq Storage[f]
               /\ b \in Bytes(Wire[s])
               /\ ChildForm(k, f, u, m) \in Form
               /\ Commit(ChildForm(k, f, u, m), s, b, u.child) \in Bytes(Wire[s])
  <1> DEFINE s == <<f, u.to>>
             b == Slice(m, Wire[s])
  <1>1. u.to \in Tag \cup {NoTag} /\ u.child \in ChildPatch[s]
    BY UpdateShape DEF Slot
  <1>2. s \in Slot /\ Wire[s] \subseteq Addr /\ Wire[s] \subseteq Storage[f]
    BY <1>1, RegionShape
  <1>3. b \in Bytes(Wire[s])
    BY <1>2, SliceType
  <1>4. ChildForm(k, f, u, m) \in Form
    BY ShapeAssumption DEF ChildForm, Form
  <1>5. Commit(ChildForm(k, f, u, m), s, b, u.child) \in Bytes(Wire[s])
    BY <1>1, <1>2, <1>3, <1>4, ChildAssumption
  <1> QED
    BY <1>2, <1>3, <1>4, <1>5

\* Committing one field writes bytes of its storage only.
LEMMA CommitFieldFrame ==
    ASSUME NEW f \in Field, NEW u \in Updates(f), NEW k \in Form, NEW m \in Bytes(Addr)
    PROVE  /\ CommitField(k, f, u, m) \in Bytes(Addr)
           /\ \A a \in Addr : a \notin Footprint(f, u) => CommitField(k, f, u, m)[a] = m[a]
           /\ \A a \in Addr : a \notin Storage[f] => CommitField(k, f, u, m)[a] = m[a]
  <1>1. CASE u.op = "set"
    <2> DEFINE c == Commit(ChildForm(k, f, u, m), <<f, u.to>>,
                           Slice(m, Wire[<<f, u.to>>]), u.child)
    <2>1. CommitField(k, f, u, m) = Store(m, c)
      BY <1>1 DEF CommitField, CommitChild
    <2>2. /\ c \in Bytes(Wire[<<f, u.to>>])
          /\ Wire[<<f, u.to>>] \subseteq Addr
          /\ Wire[<<f, u.to>>] \subseteq Storage[f]
      BY <1>1, ChildCommitType
    <2> HIDE DEF c
    <2>3. /\ Store(m, c) \in Bytes(Addr)
          /\ \A a \in Addr : a \notin Wire[<<f, u.to>>] => Store(m, c)[a] = m[a]
      BY <2>2, StoreWrites
    <2>4. Wire[<<f, u.to>>] \subseteq Footprint(f, u)
      BY <1>1 DEF Footprint
    <2> QED
      BY <2>1, <2>2, <2>3, <2>4
  <1>2. CASE u.op = "none"
    <2>1. CommitField(k, f, u, m) = Store(m, Zeroes(Storage[f]))
      BY <1>2 DEF CommitField, ClearStorage
    <2>2. Storage[f] \subseteq Addr /\ Zeroes(Storage[f]) \in Bytes(Storage[f])
      BY RegionShape, ZeroesType
    <2>3. /\ Store(m, Zeroes(Storage[f])) \in Bytes(Addr)
          /\ \A a \in Addr : a \notin Storage[f] => Store(m, Zeroes(Storage[f]))[a] = m[a]
      BY <2>2, StoreWrites
    <2>4. Storage[f] = Footprint(f, u)
      BY <1>2 DEF Footprint
    <2> QED
      BY <2>1, <2>3, <2>4
  <1>3. CASE u.op = "keep"
    BY <1>3 DEF CommitField
  <1> QED
    BY <1>1, <1>2, <1>3, UpdateShape

\* The tag store writes the tag sibling's bytes only.
LEMMA StoreTagFrame ==
    ASSUME NEW f \in Field, NEW u \in Updates(f), NEW m \in Bytes(Addr),
           Kind[f] = "tagged", u.op = "set"
    PROVE  /\ StoreTag(f, u, m) \in Bytes(Addr)
           /\ \A a \in Addr : a \notin TagWire[f] => StoreTag(f, u, m)[a] = m[a]
           /\ CurrentTag(f, StoreTag(f, u, m)) = u.to
           /\ Slice(StoreTag(f, u, m), Wire[<<f, u.to>>]) = Slice(m, Wire[<<f, u.to>>])
  <1>1. u.to \in Tag
    BY UpdateShape, ShapeAssumption
  <1>2. ToRaw(f, u.to) \in Bytes(TagWire[f]) /\ FromRaw(f, ToRaw(f, u.to)) = u.to
    BY <1>1, TagAssumption
  <1>3. TagWire[f] \subseteq Addr
    BY RegionShape
  <1>4. /\ StoreTag(f, u, m) \in Bytes(Addr)
        /\ \A a \in Addr : a \notin TagWire[f] => StoreTag(f, u, m)[a] = m[a]
        /\ Slice(StoreTag(f, u, m), TagWire[f]) = ToRaw(f, u.to)
    BY <1>2, <1>3, StoreWrites DEF StoreTag
  <1>5. /\ Wire[<<f, u.to>>] \subseteq Addr
        /\ Wire[<<f, u.to>>] \cap TagWire[f] = {}
    BY <1>1, RegionShape, LayoutAssumption
  <1>6. Slice(StoreTag(f, u, m), Wire[<<f, u.to>>]) = Slice(m, Wire[<<f, u.to>>])
    BY <1>4, <1>5 DEF Slice
  <1> QED
    BY <1>2, <1>4, <1>6 DEF CurrentTag

\* Neither store reaches another field.
LEMMA OtherFieldsAgree ==
    ASSUME NEW f \in Field, NEW g \in Field, f # g,
           NEW m1 \in Bytes(Addr), NEW m2 \in Bytes(Addr),
           \A a \in Addr : a \notin Region(g) => m2[a] = m1[a]
    PROVE  Agree(f, m2, m1)
  BY LayoutAssumption, RegionShape DEF Agree, Region

\* An approved child commit leaves a valid child in the slot.
LEMMA ChildCommitValid ==
    ASSUME NEW f \in Field, NEW u \in Updates(f), NEW k \in Form, NEW m \in Bytes(Addr),
           u.op = "set",
           ChildPreflight(k, f, u, m),
           ChildForm(k, f, u, m) = "init" => IsComplete(<<f, u.to>>, u.child),
           ChildForm(k, f, u, m) # "init" => ChildValid(<<f, u.to>>, m)
    PROVE  ChildValid(<<f, u.to>>, CommitField(k, f, u, m))
  <1> DEFINE s == <<f, u.to>>
             b == Slice(m, Wire[s])
             c == Commit(ChildForm(k, f, u, m), s, b, u.child)
  <1>1. u.child \in ChildPatch[s]
    BY UpdateShape
  <1>2. /\ s \in Slot /\ Wire[s] \subseteq Addr /\ b \in Bytes(Wire[s])
        /\ ChildForm(k, f, u, m) \in Form
        /\ c \in Bytes(Wire[s])
    BY ChildCommitType
  <1>3. Valid(s, c)
    BY <1>1, <1>2, ChildAssumption DEF ChildPreflight, ChildValid
  <1>4. CommitField(k, f, u, m) = Store(m, c)
    BY DEF CommitField, CommitChild
  <1>5. Slice(Store(m, c), Wire[s]) = c
    <2>1. Wire[s] \in SUBSET Addr /\ c \in Bytes(Wire[s])
      BY <1>2
    <2> HIDE DEF s, b, c
    <2> QED
      BY <2>1, StoreWrites
  <1> QED
    BY <1>3, <1>4, <1>5 DEF ChildValid

\* The storage commit of a field leaves its tag sibling alone.
LEMMA CommitKeepsTag ==
    ASSUME NEW f \in Field, NEW u \in Updates(f), NEW k \in Form, NEW m \in Bytes(Addr)
    PROVE  CurrentTag(f, CommitField(k, f, u, m)) = CurrentTag(f, m)
  <1>1. TagWire[f] \subseteq Addr /\ Storage[f] \cap TagWire[f] = {}
    BY RegionShape, LayoutAssumption
  <1>2. \A a \in Addr : a \notin Storage[f] => CommitField(k, f, u, m)[a] = m[a]
    BY CommitFieldFrame
  <1>3. \A a \in TagWire[f] : CommitField(k, f, u, m)[a] = m[a]
    BY <1>1, <1>2
  <1>4. Slice(CommitField(k, f, u, m), TagWire[f]) = Slice(m, TagWire[f])
    BY <1>3 DEF Slice
  <1> QED
    BY <1>4 DEF CurrentTag

\* An approved update commits to a valid field; one that switches the union
\* (or initializes it) leaves a valid payload for the tag store to select.
LEMMA ApprovedCommit ==
    ASSUME NEW f \in Field, NEW u \in Updates(f), NEW k \in Form, NEW m \in Bytes(Addr),
           Verdict(k, f, u, m) = "Ok",
           k # "init" => FieldValid(f, m),
           k = "init" => UpdateComplete(f, u)
    PROVE  /\ ~StoresTag(k, f, u, m) => FieldValid(f, CommitField(k, f, u, m))
           /\ StoresTag(k, f, u, m) =>
                 ChildValid(<<f, u.to>>, CommitField(k, f, u, m))
  <1>1. CASE u.op = "keep"
    <2>1. CommitField(k, f, u, m) = m /\ ~StoresTag(k, f, u, m)
      BY <1>1 DEF CommitField, StoresTag
    <2>2. k # "init"
      BY <1>1 DEF UpdateComplete
    <2> QED
      BY <2>1, <2>2
  <1>2. CASE u.op = "none"
    <2>1. Kind[f] = "option"
      BY <1>2, UpdateShape
    <2>2. CommitField(k, f, u, m) = Store(m, Zeroes(Storage[f])) /\ ~StoresTag(k, f, u, m)
      BY <1>2 DEF CommitField, ClearStorage, StoresTag
    <2>3. Storage[f] \in SUBSET Addr /\ Zeroes(Storage[f]) \in Bytes(Storage[f])
      BY RegionShape, ZeroesType
    <2>4. \A a \in Storage[f] : Store(m, Zeroes(Storage[f]))[a] = Zeroes(Storage[f])[a]
      BY <2>3, StoreWrites
    <2>5. IsAllZero(Store(m, Zeroes(Storage[f])), Storage[f])
      BY <2>4 DEF IsAllZero, Zeroes
    <2> QED
      BY <2>1, <2>2, <2>5 DEF FieldValid
  <1>3. CASE u.op = "set"
    <2>1. CASE Kind[f] = "plain"
      <3>1. u.to = NoTag /\ ChildForm(k, f, u, m) = k /\ ~StoresTag(k, f, u, m)
        BY <1>3, <2>1, UpdateShape DEF ChildForm, StoresTag
      <3>2. ChildPreflight(k, f, u, m)
        BY <1>3, <2>1 DEF Verdict, PlainVerdict
      <3>3. k = "init" => IsComplete(<<f, u.to>>, u.child)
        BY <1>3, <2>1 DEF UpdateComplete
      <3>4. k # "init" => ChildValid(<<f, u.to>>, m)
        BY <2>1, <3>1 DEF FieldValid
      <3>5. ChildValid(<<f, u.to>>, CommitField(k, f, u, m))
        BY <1>3, <3>1, <3>2, <3>3, <3>4, ChildCommitValid
      <3> QED
        BY <2>1, <3>1, <3>5 DEF FieldValid
    <2>2. CASE Kind[f] = "option"
      <3>1. u.to = NoTag /\ ~StoresTag(k, f, u, m)
        BY <1>3, <2>2, UpdateShape DEF StoresTag
      <3>2. ChildPreflight(k, f, u, m) /\ ~ChildIncomplete(k, f, u, m)
        BY <1>3, <2>2 DEF Verdict, OptionVerdict
      <3>3. ChildForm(k, f, u, m) # "init" => ChildValid(<<f, u.to>>, m)
        BY <2>2, <3>1 DEF ChildForm, FieldValid
      <3>4. ChildValid(<<f, u.to>>, CommitField(k, f, u, m))
        BY <1>3, <3>2, <3>3, ChildCommitValid DEF ChildIncomplete
      <3> QED
        BY <2>2, <3>1, <3>4 DEF FieldValid
    <2>3. CASE Kind[f] = "tagged"
      <3>1. ChildPreflight(k, f, u, m) /\ ~ChildIncomplete(k, f, u, m)
        BY <1>3, <2>3 DEF Verdict, TaggedVerdict
      <3>2. ChildForm(k, f, u, m) # "init" => CurrentTag(f, m) = u.to /\ FieldValid(f, m)
        BY <2>3 DEF ChildForm
      <3>3. ChildForm(k, f, u, m) # "init" => ChildValid(<<f, u.to>>, m)
        BY <2>3, <3>2 DEF FieldValid
      <3>4. ChildValid(<<f, u.to>>, CommitField(k, f, u, m))
        BY <1>3, <3>1, <3>3, ChildCommitValid DEF ChildIncomplete
      <3>5. CurrentTag(f, CommitField(k, f, u, m)) = CurrentTag(f, m)
        BY CommitKeepsTag
      <3>6. u.to \in Variant[f]
        BY <1>3, <2>3, UpdateShape
      <3> QED
        BY <1>3, <2>3, <3>2, <3>4, <3>5, <3>6 DEF StoresTag, FieldValid
    <2> QED
      BY <2>1, <2>2, <2>3, ShapeAssumption
  <1> QED
    BY <1>1, <1>2, <1>3, UpdateShape

\* The tag store selects the payload that was committed before it.
LEMMA TagStoreValid ==
    ASSUME NEW f \in Field, NEW u \in Updates(f), NEW m \in Bytes(Addr),
           Kind[f] = "tagged", u.op = "set", ChildValid(<<f, u.to>>, m)
    PROVE  FieldValid(f, StoreTag(f, u, m))
  BY StoreTagFrame, UpdateShape DEF FieldValid, ChildValid

-----------------------------------------------------------------------------
(* Type correctness *)

\* A field's update in a well-typed patch has the field's update type.
LEMMA PatchField == ASSUME NEW p \in Patches, NEW f \in Field PROVE p[f] \in Updates(f)
  BY DEF Patches

\* The empty patch is well typed.
LEMMA NoCallType == NoCall \in Patches
  <1>1. \A f \in Field : Keep \in Updates(f)
    <2> SUFFICES ASSUME NEW f \in Field PROVE Keep \in Updates(f)
      OBVIOUS
    <2>1. CASE Kind[f] = "tagged"
      <3>1. Keep = [Keep EXCEPT !.tag = NoTag]
        BY DEF Keep
      <3> QED
        BY <2>1, <3>1 DEF Updates
    <2> QED
      BY <2>1, ShapeAssumption DEF Updates
  <1> QED
    BY <1>1 DEF NoCall, Patches

\* A verdict is a result.
LEMMA VerdictType ==
    ASSUME NEW f \in Field, NEW u \in Updates(f), NEW k, NEW m
    PROVE  Verdict(k, f, u, m) \in ResultKind
  BY ShapeAssumption DEF Verdict, PlainVerdict, OptionVerdict, TaggedVerdict, ResultKind

\* A child commit through a field-level mutator keeps the record's type.
LEMMA CommitChildType ==
    ASSUME NEW f \in Field, NEW u \in Updates(f), NEW k \in Form, NEW m \in Bytes(Addr),
           u.op = "set"
    PROVE  CommitChild(k, f, u, m) \in Bytes(Addr) /\ CommitChild(k, f, u, m) = CommitField(k, f, u, m)
  BY CommitFieldFrame DEF CommitField

\* So does clearing an optional field.
LEMMA ClearStorageType ==
    ASSUME NEW f \in Field, NEW u \in Updates(f), NEW k \in Form, NEW m \in Bytes(Addr),
           u.op = "none"
    PROVE  ClearStorage(f, m) \in Bytes(Addr) /\ ClearStorage(f, m) = CommitField(k, f, u, m)
  BY CommitFieldFrame DEF CommitField

\* The state machine keeps its types.
LEMMA TypeStep == TypeOK /\ PassInvariant /\ [Next]_vars => TypeOK'
  <1> SUFFICES ASSUME TypeOK, PassInvariant, [Next]_vars PROVE TypeOK'
    OBVIOUS
  <1> USE DEF TypeOK
  <1>0. N \in Nat /\ {"patch", "logical", "init"} = Form /\ NoCall \in Patches
    BY ShapeAssumption, NoCallType DEF Form
  <1>1. CASE Produce
    BY <1>1, ShapeAssumption DEF Produce, Bytes, ResultKind
  <1>2. CASE AccessMut
    <2>1. RecordValid(mem) \in BOOLEAN
      BY DEF RecordValid
    <2> QED
      BY <1>2, <2>1 DEF AccessMut, call, ResultKind
  <1>3. CASE Release
    BY <1>3 DEF Release, call, ResultKind
  <1>4. ASSUME NEW p \in Patches, CopyFrom(p) \/ SetLogical(p) \/ InitializeStale(p)
        PROVE  TypeOK'
    BY <1>0, <1>4 DEF CopyFrom, SetLogical, InitializeStale, BeginCall, call, ResultKind
  <1>5. CASE PreflightStep
    <2>1. CASE i \in Field
      <3>1. Verdict(form, i, patch[i], mem) \in ResultKind
        BY <2>1, PatchField, VerdictType
      <3> QED
        BY <1>0, <1>5, <2>1, <3>1 DEF PreflightStep, Field
    <2>2. CASE i \notin Field
      BY <1>0, <1>5, <2>2 DEF PreflightStep, Field
    <2> QED
      BY <2>1, <2>2
  <1>6. CASE CommitStep
    <2>1. mem' \in Bytes(Addr)
      BY <1>6, PatchField, CommitFieldFrame DEF CommitStep
    <2> QED
      BY <1>0, <1>6, <2>1 DEF CommitStep, Field
  <1>7. CASE TagStep
    <2>1. i \in Field /\ Kind[i] = "tagged" /\ patch[i].op = "set" /\ patch[i] \in Updates(i)
      BY <1>7, PatchField DEF TagStep, PassInvariant, CommitInvariant
    <2>2. mem' \in Bytes(Addr)
      BY <1>7, <2>1, StoreTagFrame DEF TagStep
    <2> QED
      BY <1>0, <1>7, <2>1, <2>2 DEF TagStep, Field
  <1>8. CASE CommitDone
    BY <1>8 DEF CommitDone, call, ResultKind
  <1>9. CASE Return
    BY <1>0, <1>9 DEF Return
  <1>10. ASSUME NEW f \in Field, NEW u \in Updates(f),
                \/ FieldSet(f, u) \/ OptionSet(f, u) \/ OptionGetMut(f, u)
                \/ PayloadCopyFrom(f, u) \/ VariantMut(f, u)
         PROVE  TypeOK'
    <2>1. CASE FieldSet(f, u)
      BY <1>0, <2>1, CommitChildType DEF FieldSet, Mutate, ResultKind
    <2>2. CASE OptionSet(f, u)
      BY <1>0, <2>2, CommitChildType, ClearStorageType DEF OptionSet, Mutate, ResultKind
    <2>3. CASE OptionGetMut(f, u)
      BY <1>0, <2>3, CommitChildType DEF OptionGetMut, Mutate, ResultKind
    <2>4. CASE PayloadCopyFrom(f, u)
      BY <1>0, <2>4, CommitChildType DEF PayloadCopyFrom, Mutate, ResultKind
    <2>5. CASE VariantMut(f, u)
      BY <1>0, <2>5, CommitChildType DEF VariantMut, Mutate, ResultKind
    <2> QED
      BY <1>10, <2>1, <2>2, <2>3, <2>4, <2>5
  <1>11. CASE Clear
    BY <1>11, ZeroesType DEF Clear, Mutate, ResultKind
  <1>12. CASE UNCHANGED vars
    BY <1>12 DEF vars
  <1> QED
    BY <1>1, <1>2, <1>3, <1>4, <1>5, <1>6, <1>7, <1>8, <1>9, <1>10, <1>11, <1>12 DEF Next

-----------------------------------------------------------------------------
(* The inductive invariant *)

\* Committing one field leaves the checks on every other field as they were.
LEMMA OthersKept ==
    ASSUME NEW g \in Field, NEW u \in Updates(g), NEW k \in Form, NEW m \in Bytes(Addr),
           NEW f \in Field, f # g
    PROVE  Agree(f, CommitField(k, g, u, m), m) /\ CommitField(k, g, u, m) \in Bytes(Addr)
  <1>1. /\ CommitField(k, g, u, m) \in Bytes(Addr)
        /\ \A a \in Addr : a \notin Storage[g] => CommitField(k, g, u, m)[a] = m[a]
    BY CommitFieldFrame
  <1>2. \A a \in Addr : a \notin Region(g) => CommitField(k, g, u, m)[a] = m[a]
    BY <1>1 DEF Region
  <1> QED
    BY <1>1, <1>2, OtherFieldsAgree

\* The same for the tag store.
LEMMA OthersKeptByTag ==
    ASSUME NEW g \in Field, NEW u \in Updates(g), NEW m \in Bytes(Addr),
           Kind[g] = "tagged", u.op = "set", NEW f \in Field, f # g
    PROVE  Agree(f, StoreTag(g, u, m), m) /\ StoreTag(g, u, m) \in Bytes(Addr)
  <1>1. /\ StoreTag(g, u, m) \in Bytes(Addr)
        /\ \A a \in Addr : a \notin TagWire[g] => StoreTag(g, u, m)[a] = m[a]
    BY StoreTagFrame
  <1>2. \A a \in Addr : a \notin Region(g) => StoreTag(g, u, m)[a] = m[a]
    BY <1>1 DEF Region
  <1> QED
    BY <1>1, <1>2, OtherFieldsAgree

\* A record stays valid when one field is replaced by a valid one.
LEMMA OneFieldReplaced ==
    ASSUME NEW f \in Field, NEW u \in Updates(f), NEW k \in Form, NEW m \in Bytes(Addr),
           RecordValid(m), FieldValid(f, CommitField(k, f, u, m))
    PROVE  RecordValid(CommitField(k, f, u, m))
  <1> SUFFICES ASSUME NEW g \in Field, g # f PROVE FieldValid(g, CommitField(k, f, u, m))
    BY DEF RecordValid
  <1>1. Agree(g, CommitField(k, f, u, m), m) /\ CommitField(k, f, u, m) \in Bytes(Addr)
    BY OthersKept
  <1>2. FieldValid(g, CommitField(k, f, u, m)) = FieldValid(g, m)
    BY <1>1, ValidLocal
  <1> QED
    BY <1>2 DEF RecordValid

\* Each field-level mutator leaves a valid record.
LEMMA MutatorValid ==
    ASSUME TypeOK, PassInvariant, NEW f \in Field, NEW u \in Updates(f),
           \/ FieldSet(f, u) \/ OptionSet(f, u) \/ OptionGetMut(f, u)
           \/ PayloadCopyFrom(f, u) \/ VariantMut(f, u)
    PROVE  RecordValid(mem')
  <1>1. mem \in Bytes(Addr) /\ RecordValid(mem) /\ FieldValid(f, mem)
    BY DEF TypeOK, PassInvariant, IdleInvariant, FieldSet, OptionSet, OptionGetMut,
           PayloadCopyFrom, VariantMut, Mutate, RecordValid
  <1>2. "patch" \in Form /\ "init" \in Form
    BY DEF Form
  <1>3. CASE FieldSet(f, u)
    <2>1. CASE ChildPreflight("patch", f, u, mem)
      <3>1. Verdict("patch", f, u, mem) = "Ok" /\ ~StoresTag("patch", f, u, mem)
        BY <1>3, <2>1 DEF FieldSet, Verdict, PlainVerdict, StoresTag
      <3>2. FieldValid(f, CommitField("patch", f, u, mem))
        BY <1>1, <1>2, <3>1, ApprovedCommit
      <3>3. mem' = CommitField("patch", f, u, mem)
        BY <1>1, <1>2, <1>3, <2>1, CommitChildType DEF FieldSet, Mutate
      <3> QED
        BY <1>1, <1>2, <3>2, <3>3, OneFieldReplaced
    <2>2. CASE ~ChildPreflight("patch", f, u, mem)
      BY <1>1, <1>3, <2>2 DEF FieldSet, Mutate
    <2> QED
      BY <2>1, <2>2
  <1>4. CASE OptionSet(f, u)
    <2>1. CASE u.op = "none"
      <3>1. Verdict("patch", f, u, mem) = "Ok" /\ ~StoresTag("patch", f, u, mem)
        BY <1>4, <2>1 DEF OptionSet, Verdict, OptionVerdict, StoresTag
      <3>2. FieldValid(f, CommitField("patch", f, u, mem))
        BY <1>1, <1>2, <3>1, ApprovedCommit
      <3>3. mem' = CommitField("patch", f, u, mem)
        BY <1>1, <1>2, <1>4, <2>1, ClearStorageType DEF OptionSet, Mutate
      <3> QED
        BY <1>1, <1>2, <3>2, <3>3, OneFieldReplaced
    <2>2. CASE u.op = "set" /\ ChildPreflight("init", f, u, mem)
      <3>0. Kind[f] = "option" /\ u.to = NoTag /\ IsComplete(<<f, u.to>>, u.child)
        BY <1>4, <2>2, UpdateShape DEF OptionSet
      <3>1. Verdict("init", f, u, mem) = "Ok" /\ ~StoresTag("init", f, u, mem)
        BY <2>2, <3>0 DEF Verdict, OptionVerdict, ChildIncomplete, StoresTag
      <3>2. UpdateComplete(f, u)
        BY <2>2, <3>0 DEF UpdateComplete
      <3>3. FieldValid(f, CommitField("init", f, u, mem))
        BY <1>1, <1>2, <3>1, <3>2, ApprovedCommit
      <3>4. mem' = CommitField("init", f, u, mem)
        BY <1>1, <1>2, <1>4, <2>2, CommitChildType DEF OptionSet, Mutate
      <3> QED
        BY <1>1, <1>2, <3>3, <3>4, OneFieldReplaced
    <2>3. CASE u.op = "set" /\ ~ChildPreflight("init", f, u, mem)
      BY <1>1, <1>4, <2>3 DEF OptionSet, Mutate
    <2> QED
      BY <1>4, <2>1, <2>2, <2>3 DEF OptionSet
  <1>5. CASE OptionGetMut(f, u)
    <2>1. CASE ChildPreflight("patch", f, u, mem)
      <3>0. ChildForm("patch", f, u, mem) = "patch"
        BY <1>5 DEF OptionGetMut, ChildForm
      <3>1. Verdict("patch", f, u, mem) = "Ok" /\ ~StoresTag("patch", f, u, mem)
        BY <1>5, <2>1, <3>0 DEF OptionGetMut, Verdict, OptionVerdict, ChildIncomplete, StoresTag
      <3>2. FieldValid(f, CommitField("patch", f, u, mem))
        BY <1>1, <1>2, <3>1, ApprovedCommit
      <3>3. mem' = CommitField("patch", f, u, mem)
        BY <1>1, <1>2, <1>5, <2>1, CommitChildType DEF OptionGetMut, Mutate
      <3> QED
        BY <1>1, <1>2, <3>2, <3>3, OneFieldReplaced
    <2>2. CASE ~ChildPreflight("patch", f, u, mem)
      BY <1>1, <1>5, <2>2 DEF OptionGetMut, Mutate
    <2> QED
      BY <2>1, <2>2
  <1>6. ASSUME Kind[f] = "tagged", u.op = "set", u.to = CurrentTag(f, mem),
               ChildPreflight("patch", f, u, mem), mem' = CommitChild("patch", f, u, mem)
        PROVE  RecordValid(mem')
    <2>0. u.to \in Variant[f]
      BY <1>6, UpdateShape
    <2>1. ChildForm("patch", f, u, mem) = "patch" /\ ChildValid(<<f, u.to>>, mem)
      BY <1>1, <1>6 DEF ChildForm, FieldValid
    <2>2. ChildValid(<<f, u.to>>, CommitField("patch", f, u, mem))
      BY <1>1, <1>2, <1>6, <2>0, <2>1, ChildCommitValid
    <2>3. CurrentTag(f, CommitField("patch", f, u, mem)) = u.to
      BY <1>1, <1>2, <1>6, CommitKeepsTag
    <2>4. FieldValid(f, CommitField("patch", f, u, mem))
      BY <1>6, <2>0, <2>2, <2>3 DEF FieldValid
    <2>5. mem' = CommitField("patch", f, u, mem)
      BY <1>1, <1>2, <1>6, <2>1, CommitChildType
    <2> QED
      BY <1>1, <1>2, <2>4, <2>5, OneFieldReplaced
  <1>7. CASE PayloadCopyFrom(f, u)
    BY <1>1, <1>6, <1>7 DEF PayloadCopyFrom, Mutate
  <1>8. CASE VariantMut(f, u)
    BY <1>1, <1>6, <1>8 DEF VariantMut, Mutate
  <1> QED
    BY <1>3, <1>4, <1>5, <1>7, <1>8

\* One field of the commit pass: it becomes valid, or its payload does and
\* the tag store is next; the fields behind and ahead are untouched.
LEMMA CommitStepInvariant ==
    ASSUME TypeOK, PassInvariant, CommitStep PROVE PassInvariant'
  <1> DEFINE u == patch[i]
  <1>1. /\ i \in Field /\ u \in Updates(i) /\ form \in Form /\ mem \in Bytes(Addr)
        /\ N \in Nat /\ i \in Nat
    BY PatchField, ShapeAssumption DEF TypeOK, CommitStep, Field
  <1>2. /\ mem' = CommitField(form, i, u, mem)
        /\ mem' \in Bytes(Addr)
        /\ form' = form /\ patch' = patch /\ proved' = proved /\ pc = "commit"
    BY <1>1, CommitFieldFrame DEF CommitStep
  <1>3. /\ \A f \in Field : f < i => FieldValid(f, mem)
        /\ \A f \in Field : f >= i => /\ Verdict(form, f, patch[f], mem) = "Ok"
                                      /\ form # "init" => FieldValid(f, mem)
    BY <1>1, <1>2 DEF PassInvariant, CommitInvariant, Field
  <1>4. CallInvariant
    BY DEF PassInvariant
  <1>5. ASSUME NEW f \in Field, f # i
        PROVE  /\ FieldValid(f, mem') = FieldValid(f, mem)
               /\ Verdict(form, f, patch[f], mem') = Verdict(form, f, patch[f], mem)
    <2>1. Agree(f, mem', mem) /\ patch[f] \in Updates(f)
      BY <1>1, <1>2, <1>5, OthersKept, PatchField DEF TypeOK
    <2> QED
      BY <1>1, <1>2, <2>1, ValidLocal, VerdictLocal
  <1>6. /\ ~StoresTag(form, i, u, mem) => FieldValid(i, mem')
        /\ StoresTag(form, i, u, mem) => ChildValid(<<i, u.to>>, mem')
    <2>1. form # "init" => FieldValid(i, mem)
      BY <1>1, <1>3
    <2>2. form = "init" => UpdateComplete(i, u)
      BY <1>1, <1>2, <1>4 DEF CallInvariant, PatchComplete
    <2>3. Verdict(form, i, u, mem) = "Ok"
      BY <1>1, <1>3
    <2> QED
      BY <1>1, <1>2, <2>1, <2>2, <2>3, ApprovedCommit
  <1>7. CallInvariant' /\ pc' \in {"commit", "tag"}
    BY <1>2, <1>4 DEF CommitStep, CallInvariant, PatchComplete
  <1>8. CASE StoresTag(form, i, u, mem)
    <2>1. pc' = "tag" /\ i' = i /\ Kind[i] = "tagged" /\ u.op = "set"
      BY <1>8 DEF CommitStep, StoresTag
    <2>2. \A f \in Field : f < i => FieldValid(f, mem')
      BY <1>1, <1>3, <1>5 DEF Field
    <2>3. \A f \in Field : f > i => /\ Verdict(form, f, patch[f], mem') = "Ok"
                                    /\ form # "init" => FieldValid(f, mem')
      BY <1>1, <1>3, <1>5 DEF Field
    <2>4. ChildValid(<<i, u.to>>, mem')
      BY <1>6, <1>8
    <2>5. CommitInvariant'
      BY <1>2, <2>1, <2>2, <2>3, <2>4 DEF CommitInvariant
    <2> QED
      BY <1>7, <2>1, <2>5
      DEF PassInvariant, IdleInvariant, PreflightInvariant, ReturnInvariant
  <1>9. CASE ~StoresTag(form, i, u, mem)
    <2>1. pc' = "commit" /\ i' = i + 1
      BY <1>2, <1>9 DEF CommitStep
    <2>2. \A f \in Field : f < i + 1 => FieldValid(f, mem')
      BY <1>1, <1>3, <1>5, <1>6, <1>9 DEF Field
    <2>3. \A f \in Field : f >= i + 1 => /\ Verdict(form, f, patch[f], mem') = "Ok"
                                         /\ form # "init" => FieldValid(f, mem')
      BY <1>1, <1>3, <1>5 DEF Field
    <2>4. \A f \in Field : f > i + 1 \/ f = i + 1 => f >= i + 1
      BY <1>1 DEF Field
    <2>5. CommitInvariant'
      BY <1>2, <2>1, <2>2, <2>3, <2>4 DEF CommitInvariant
    <2> QED
      BY <1>7, <2>1, <2>5
      DEF PassInvariant, IdleInvariant, PreflightInvariant, ReturnInvariant
  <1> QED
    BY <1>8, <1>9

\* The tag store completes the field it belongs to.
LEMMA TagStepInvariant ==
    ASSUME TypeOK, PassInvariant, TagStep PROVE PassInvariant'
  <1> DEFINE u == patch[i]
  <1>1. /\ i \in Field /\ u \in Updates(i) /\ form \in Form /\ mem \in Bytes(Addr)
        /\ N \in Nat /\ i \in Nat
    BY PatchField, ShapeAssumption DEF TypeOK, TagStep, Field
  <1>2. /\ Kind[i] = "tagged" /\ u.op = "set" /\ ChildValid(<<i, u.to>>, mem)
        /\ \A f \in Field : f < i => FieldValid(f, mem)
        /\ \A f \in Field : f > i => /\ Verdict(form, f, patch[f], mem) = "Ok"
                                     /\ form # "init" => FieldValid(f, mem)
        /\ CallInvariant
    BY DEF PassInvariant, CommitInvariant, TagStep
  <1>3. /\ mem' = StoreTag(i, u, mem) /\ mem' \in Bytes(Addr)
        /\ form' = form /\ patch' = patch /\ proved' = proved
        /\ pc = "tag" /\ pc' = "commit" /\ i' = i + 1
    BY <1>1, <1>2, StoreTagFrame DEF TagStep
  <1>4. FieldValid(i, mem')
    BY <1>1, <1>2, <1>3, TagStoreValid
  <1>5. ASSUME NEW f \in Field, f # i
        PROVE  /\ FieldValid(f, mem') = FieldValid(f, mem)
               /\ Verdict(form, f, patch[f], mem') = Verdict(form, f, patch[f], mem)
    <2>1. Agree(f, mem', mem) /\ patch[f] \in Updates(f)
      BY <1>1, <1>2, <1>3, <1>5, OthersKeptByTag, PatchField DEF TypeOK
    <2> QED
      BY <1>1, <1>3, <2>1, ValidLocal, VerdictLocal
  <1>6. \A f \in Field : f < i + 1 => FieldValid(f, mem')
    BY <1>1, <1>2, <1>4, <1>5 DEF Field
  <1>7. \A f \in Field : f > i + 1 \/ f = i + 1 =>
            /\ Verdict(form, f, patch[f], mem') = "Ok"
            /\ form # "init" => FieldValid(f, mem')
    BY <1>1, <1>2, <1>5 DEF Field
  <1>8. CommitInvariant'
    BY <1>3, <1>6, <1>7 DEF CommitInvariant
  <1>9. CallInvariant'
    BY <1>2, <1>3 DEF CallInvariant, PatchComplete
  <1> QED
    BY <1>3, <1>8, <1>9
    DEF PassInvariant, IdleInvariant, PreflightInvariant, ReturnInvariant

\* The invariant is inductive.
LEMMA PassStep == TypeOK /\ PassInvariant /\ [Next]_vars => PassInvariant'
  <1> SUFFICES ASSUME TypeOK, PassInvariant, [Next]_vars PROVE PassInvariant'
    OBVIOUS
  <1> USE DEF PassInvariant, IdleInvariant, CallInvariant, PreflightInvariant,
              CommitInvariant, ReturnInvariant
  <1>0. N \in Nat /\ i \in 1 .. N + 1
    BY ShapeAssumption DEF TypeOK
  <1>1. CASE Produce
    BY <1>1 DEF Produce
  <1>2. CASE AccessMut
    BY <1>2 DEF AccessMut, call
  <1>3. CASE Release
    BY <1>3 DEF Release, call
  <1>4. ASSUME NEW p \in Patches, CopyFrom(p) \/ SetLogical(p) \/ InitializeStale(p)
        PROVE  PassInvariant'
    <2>1. \A f \in Field : ~(f < 1)
      BY <1>0 DEF Field
    <2> QED
      BY <1>4, <2>1 DEF CopyFrom, SetLogical, InitializeStale, BeginCall, call
  <1>5. CASE PreflightStep
    <2>1. CASE i \in Field /\ Verdict(form, i, patch[i], mem) = "Ok"
      <3>1. \A f \in Field : f < i + 1 => f < i \/ f = i
        BY <1>0, <2>1 DEF Field
      <3>2. i' = i + 1 /\ UNCHANGED <<pc, result, mem, proved, form, patch, entry>>
        BY <1>0, <1>5, <2>1 DEF PreflightStep, Field
      <3> QED
        BY <1>5, <2>1, <3>1, <3>2 DEF PreflightStep, PatchComplete
    <2>2. CASE i \in Field /\ Verdict(form, i, patch[i], mem) # "Ok"
      <3>1. /\ pc' = "returned" /\ result' # "Ok"
            /\ UNCHANGED <<mem, proved, form, patch, entry>>
        BY <1>0, <1>5, <2>2 DEF PreflightStep, Field
      <3>2. mem = entry /\ (form # "init" => RecordValid(mem) /\ proved)
        BY <1>5 DEF PreflightStep
      <3>3. form = "init" => PatchComplete(patch)
        BY <1>5 DEF PreflightStep
      <3>4. proved => RecordValid(mem)
        BY <1>5, <3>2 DEF PreflightStep
      <3> QED
        BY <3>1, <3>2, <3>3, <3>4 DEF PatchComplete, RecordValid
    <2>3. CASE i = N + 1
      <3>1. /\ pc' = "commit" /\ i' = 1
            /\ UNCHANGED <<mem, proved, form, patch, entry, result>>
        BY <1>0, <1>5, <2>3 DEF PreflightStep, Field
      <3>2. \A f \in Field : f < i /\ ~(f < 1)
        BY <1>0, <2>3 DEF Field
      <3> QED
        BY <1>5, <3>1, <3>2 DEF PreflightStep, PatchComplete, RecordValid
    <2> QED
      BY <1>0, <1>5, <2>1, <2>2, <2>3 DEF PreflightStep
  <1>6. CASE CommitStep
    BY <1>6, CommitStepInvariant
  <1>7. CASE TagStep
    BY <1>7, TagStepInvariant
  <1>8. CASE CommitDone
    <2>1. \A f \in Field : f < i
      BY <1>0, <1>8 DEF CommitDone, Field
    <2> QED
      BY <1>8, <2>1 DEF CommitDone, call, RecordValid, PatchComplete
  <1>9. CASE Return
    BY <1>9 DEF Return
  <1>10. ASSUME NEW f \in Field, NEW u \in Updates(f),
                \/ FieldSet(f, u) \/ OptionSet(f, u) \/ OptionGetMut(f, u)
                \/ PayloadCopyFrom(f, u) \/ VariantMut(f, u)
         PROVE  PassInvariant'
    <2>1. RecordValid(mem')
      BY <1>10, MutatorValid
    <2>2. pc' = "idle" /\ patch' = NoCall /\ entry' = mem'
      BY <1>10 DEF FieldSet, OptionSet, OptionGetMut, PayloadCopyFrom, VariantMut, Mutate
    <2> QED
      BY <2>1, <2>2 DEF RecordValid
  <1>11. CASE Clear
    BY <1>11, ClearAssumption DEF Clear, Mutate
  <1>12. CASE UNCHANGED vars
    BY <1>12 DEF vars, RecordValid, PatchComplete
  <1> QED
    BY <1>1, <1>2, <1>3, <1>4, <1>5, <1>6, <1>7, <1>8, <1>9, <1>10, <1>11, <1>12 DEF Next

-----------------------------------------------------------------------------
(* Theorems *)

\* The types and the inductive invariant hold in every reachable state.
THEOREM Safety == Spec => [](TypeOK /\ PassInvariant)
  <1>1. Init => TypeOK /\ PassInvariant
    <2> SUFFICES ASSUME Init PROVE TypeOK /\ PassInvariant
      OBVIOUS
    <2>1. 1 \in 1 .. N + 1
      BY ShapeAssumption
    <2>2. /\ mem \in Bytes(Addr) /\ entry \in Bytes(Addr)
          /\ form \in Form /\ result \in ResultKind
      BY DEF Init, Form, ResultKind
    <2>3. TypeOK
      BY <2>1, <2>2, NoCallType DEF Init, TypeOK
    <2> QED
      BY <2>3 DEF Init, PassInvariant, IdleInvariant, CallInvariant, PreflightInvariant,
                  CommitInvariant, ReturnInvariant
  <1>2. TypeOK /\ PassInvariant /\ [Next]_vars => (TypeOK /\ PassInvariant)'
    BY TypeStep, PassStep
  <1> QED
    BY <1>1, <1>2, PTL DEF Spec

\* Type correctness.
THEOREM TypeCorrect == Spec => []TypeOK
  BY Safety, PTL

\* A capability is only ever outstanding over a valid record (the parent-proof
\* unreachable! arms are dead), in every sequence of calls.
THEOREM CapabilitySound == Spec => []CapabilityHoldsValidRecord
  <1>1. PassInvariant => CapabilityHoldsValidRecord
    BY DEF PassInvariant, IdleInvariant, CapabilityHoldsValidRecord
  <1> QED
    BY <1>1, Safety, PTL

\* A rejected call has changed no byte.
THEOREM RejectionAtomic == Spec => []RejectLeavesBytes
  <1>1. PassInvariant => RejectLeavesBytes
    BY DEF PassInvariant, ReturnInvariant, RejectLeavesBytes
  <1> QED
    BY <1>1, Safety, PTL

\* The commit pass never meets bytes its preflight did not approve.
THEOREM VerdictStable == Spec => []VerdictStillHolds
  <1>1. TypeOK /\ PassInvariant => VerdictStillHolds
    <2> SUFFICES ASSUME TypeOK, PassInvariant, pc = "commit", NEW f \in i .. N
                 PROVE  Verdict(form, f, patch[f], mem) = "Ok"
      BY DEF VerdictStillHolds
    <2>1. N \in Nat /\ i \in 1 .. N + 1
      BY ShapeAssumption DEF TypeOK
    <2>2. f \in Field /\ (f > i \/ f = i)
      BY <2>1 DEF Field
    <2> QED
      BY <2>2 DEF PassInvariant, CommitInvariant
  <1> QED
    BY <1>1, Safety, PTL

\* Bytes outside the footprint of the patch keep their value.
THEOREM FrameSound == Spec => []OnlyFootprintWritten
  <1>1. Init => OnlyFootprintWritten
    BY DEF Init, OnlyFootprintWritten
  <1>2. TypeOK /\ PassInvariant /\ OnlyFootprintWritten /\ [Next]_vars => OnlyFootprintWritten'
    <2> SUFFICES ASSUME TypeOK, PassInvariant, OnlyFootprintWritten, [Next]_vars
                 PROVE  OnlyFootprintWritten'
      OBVIOUS
    <2>1. CASE UNCHANGED <<mem, entry, patch>>
      BY <2>1 DEF OnlyFootprintWritten
    <2>2. CASE entry' = mem'
      <3>1. \A a \in Addr : mem'[a] = entry'[a]
        BY <2>2
      <3> QED
        BY <3>1 DEF OnlyFootprintWritten
    <2>3. CASE CommitStep
      <3>1. i \in Field /\ patch[i] \in Updates(i) /\ form \in Form /\ mem \in Bytes(Addr)
        BY <2>3, PatchField DEF TypeOK, CommitStep
      <3>2. \A a \in Addr : a \notin Footprint(i, patch[i]) => mem'[a] = mem[a]
        BY <2>3, <3>1, CommitFieldFrame DEF CommitStep
      <3> QED
        BY <2>3, <3>1, <3>2 DEF OnlyFootprintWritten, CommitStep
    <2>4. CASE TagStep
      <3>1. /\ i \in Field /\ patch[i] \in Updates(i) /\ mem \in Bytes(Addr)
            /\ Kind[i] = "tagged" /\ patch[i].op = "set"
        BY <2>4, PatchField DEF TypeOK, TagStep, PassInvariant, CommitInvariant
      <3>2. TagWire[i] \subseteq Footprint(i, patch[i])
        BY <3>1 DEF Footprint
      <3>3. \A a \in Addr : a \notin TagWire[i] => mem'[a] = mem[a]
        BY <2>4, <3>1, StoreTagFrame DEF TagStep
      <3> QED
        BY <2>4, <3>1, <3>2, <3>3 DEF OnlyFootprintWritten, TagStep
    <2>5. ASSUME Next
          PROVE  \/ UNCHANGED <<mem, entry, patch>> \/ entry' = mem'
                 \/ CommitStep \/ TagStep
      <3>1. CASE Produce \/ AccessMut \/ Release \/ PreflightStep \/ CommitDone \/ Return \/ Clear
        BY <3>1 DEF Produce, AccessMut, Release, PreflightStep, CommitDone, Return, Clear,
                    Mutate, call
      <3>2. ASSUME NEW p \in Patches, CopyFrom(p) \/ SetLogical(p) \/ InitializeStale(p)
            PROVE  UNCHANGED <<mem, entry, patch>> \/ entry' = mem'
        BY <3>2 DEF CopyFrom, SetLogical, InitializeStale, BeginCall, call
      <3>3. ASSUME NEW f \in Field, NEW u \in Updates(f),
                   \/ FieldSet(f, u) \/ OptionSet(f, u) \/ OptionGetMut(f, u)
                   \/ PayloadCopyFrom(f, u) \/ VariantMut(f, u)
            PROVE  entry' = mem'
        BY <3>3 DEF FieldSet, OptionSet, OptionGetMut, PayloadCopyFrom, VariantMut, Mutate
      <3> QED
        BY <2>5, <3>1, <3>2, <3>3 DEF Next
    <2>6. CASE UNCHANGED vars
      BY <2>1, <2>6 DEF vars
    <2> QED
      BY <2>1, <2>2, <2>3, <2>4, <2>5, <2>6
  <1> QED
    BY <1>1, <1>2, Safety, PTL DEF Spec

\* At a step of the commit pass, fields other than the one at i agree.
LEMMA CommitPassAgrees ==
    ASSUME TypeOK, PassInvariant, CommitStep \/ TagStep, NEW f \in Field, f # i
    PROVE  Agree(f, mem', mem) /\ mem' \in Bytes(Addr) /\ mem \in Bytes(Addr)
  <1>1. mem \in Bytes(Addr) /\ form \in Form
    BY DEF TypeOK
  <1>2. CASE CommitStep
    <2>1. i \in Field /\ patch[i] \in Updates(i)
      BY <1>2, PatchField DEF TypeOK, CommitStep
    <2> QED
      BY <1>1, <1>2, <2>1, OthersKept DEF CommitStep
  <1>3. CASE TagStep
    <2>1. i \in Field /\ patch[i] \in Updates(i) /\ Kind[i] = "tagged" /\ patch[i].op = "set"
      BY <1>3, PatchField DEF TypeOK, TagStep, PassInvariant, CommitInvariant
    <2> QED
      BY <1>1, <1>3, <2>1, OthersKeptByTag DEF TagStep
  <1> QED
    BY <1>2, <1>3

\* While the commit pass runs, only its own steps are possible.
LEMMA CommitPassSteps ==
    ASSUME [Next]_vars, pc \in {"commit", "tag"}
    PROVE  CommitStep \/ TagStep \/ CommitDone \/ UNCHANGED vars
  BY DEF Next, Produce, AccessMut, Release, CopyFrom, SetLogical, InitializeStale,
         PreflightStep, Return, FieldSet, OptionSet, OptionGetMut, PayloadCopyFrom,
         VariantMut, Clear, Mutate

\* The tag is stored last: a step of the commit pass that changes a decoded
\* tag leaves the field valid.
THEOREM TagOrder == Spec => TagStoredLast
  <1>1. TypeOK /\ PassInvariant /\ [Next]_vars =>
            [\A f \in Field :
                /\ pc \in {"commit", "tag"}
                /\ Kind[f] = "tagged"
                /\ CurrentTag(f, mem') # CurrentTag(f, mem)
                => FieldValid(f, mem')]_vars
    <2> SUFFICES ASSUME TypeOK, PassInvariant, [Next]_vars, NEW f \in Field,
                        pc \in {"commit", "tag"}, Kind[f] = "tagged",
                        CurrentTag(f, mem') # CurrentTag(f, mem)
                 PROVE  FieldValid(f, mem')
      OBVIOUS
    <2>1. CASE CommitDone \/ UNCHANGED vars
      BY <2>1 DEF CommitDone, vars
    <2>2. CASE (CommitStep \/ TagStep) /\ f # i
      BY <2>2, CommitPassAgrees, ValidLocal
    <2>3. CASE CommitStep /\ f = i
      <3>1. patch[f] \in Updates(f) /\ form \in Form /\ mem \in Bytes(Addr)
        BY PatchField DEF TypeOK
      <3> QED
        BY <2>3, <3>1, CommitKeepsTag DEF CommitStep
    <2>4. CASE TagStep /\ f = i
      <3>1. /\ patch[f] \in Updates(f) /\ mem \in Bytes(Addr) /\ patch[f].op = "set"
            /\ ChildValid(<<f, patch[f].to>>, mem)
        BY <2>4, PatchField DEF TypeOK, PassInvariant, CommitInvariant, TagStep
      <3> QED
        BY <2>4, <3>1, TagStoreValid DEF TagStep
    <2> QED
      BY <2>1, <2>2, <2>3, <2>4, CommitPassSteps
  <1> QED
    BY <1>1, Safety, PTL DEF Spec, TagStoredLast

\* Committed fields show the effect of their update.
EffectInvariant ==
    /\ pc \in {"commit", "tag"} =>
          \A f \in Field : f < i => TakesEffect(f, patch[f], mem)
    /\ AcceptedPatchTakesEffect

\* What an update means is visible within the field's own bytes.
LEMMA EffectLocal ==
    ASSUME NEW f \in Field, NEW u, NEW m1 \in Bytes(Addr), NEW m2 \in Bytes(Addr),
           Agree(f, m1, m2)
    PROVE  TakesEffect(f, u, m1) = TakesEffect(f, u, m2)
  BY ValidLocal DEF TakesEffect

\* A present optional value never collides with the all-zero sentinel.
LEMMA PresentIsNonzero ==
    ASSUME NEW f \in Field, Kind[f] = "option", NEW m \in Bytes(Addr),
           ChildValid(<<f, NoTag>>, m)
    PROVE  ~IsAllZero(m, Storage[f])
  <1>1. Wire[<<f, NoTag>>] \subseteq Addr /\ Wire[<<f, NoTag>>] \subseteq Storage[f]
    BY RegionShape
  <1>2. Slice(m, Wire[<<f, NoTag>>]) \in Bytes(Wire[<<f, NoTag>>])
    BY <1>1, SliceType
  <1>3. SUFFICES ASSUME IsAllZero(m, Storage[f]) PROVE FALSE
    OBVIOUS
  <1>4. \A a \in Wire[<<f, NoTag>>] : Slice(m, Wire[<<f, NoTag>>])[a] = 0
    BY <1>1, <1>3 DEF IsAllZero, Slice
  <1> QED
    BY <1>2, <1>4, SentinelAssumption DEF ChildValid

\* An approved commit that needs no tag store shows the update's effect.
LEMMA CommitEffect ==
    ASSUME NEW f \in Field, NEW u \in Updates(f), NEW k \in Form, NEW m \in Bytes(Addr),
           Verdict(k, f, u, m) = "Ok",
           k # "init" => FieldValid(f, m),
           k = "init" => UpdateComplete(f, u),
           ~StoresTag(k, f, u, m)
    PROVE  TakesEffect(f, u, CommitField(k, f, u, m))
  <1>1. CommitField(k, f, u, m) \in Bytes(Addr)
    BY CommitFieldFrame
  <1>2. ASSUME Kind[f] = "option", u.op = "none"
        PROVE  IsAllZero(CommitField(k, f, u, m), Storage[f])
    <2>1. CommitField(k, f, u, m) = Store(m, Zeroes(Storage[f]))
      BY <1>2 DEF CommitField, ClearStorage
    <2>2. Storage[f] \in SUBSET Addr /\ Zeroes(Storage[f]) \in Bytes(Storage[f])
      BY RegionShape, ZeroesType
    <2>3. \A a \in Storage[f] : Store(m, Zeroes(Storage[f]))[a] = Zeroes(Storage[f])[a]
      BY <2>2, StoreWrites
    <2> QED
      BY <2>1, <2>3 DEF IsAllZero, Zeroes
  <1>3. ASSUME Kind[f] = "option", u.op = "set"
        PROVE  ~IsAllZero(CommitField(k, f, u, m), Storage[f])
    <2>1. u.to = NoTag
      BY <1>3, UpdateShape
    <2>2. ChildPreflight(k, f, u, m) /\ ~ChildIncomplete(k, f, u, m)
      BY <1>3 DEF Verdict, OptionVerdict
    <2>3. ChildForm(k, f, u, m) # "init" => ChildValid(<<f, u.to>>, m)
      BY <1>3, <2>1 DEF ChildForm, FieldValid
    <2>4. ChildValid(<<f, u.to>>, CommitField(k, f, u, m))
      BY <1>3, <2>2, <2>3, ChildCommitValid DEF ChildIncomplete
    <2> QED
      BY <1>1, <1>3, <2>1, <2>4, PresentIsNonzero
  <1>4. ASSUME Kind[f] = "tagged", u.op = "set"
        PROVE  CurrentTag(f, CommitField(k, f, u, m)) = u.to
    <2>1. CurrentTag(f, m) = u.to
      BY <1>4 DEF StoresTag, ChildForm
    <2> QED
      BY <2>1, CommitKeepsTag
  <1> QED
    BY <1>2, <1>3, <1>4 DEF TakesEffect

\* Each committed field shows its effect and keeps it.
LEMMA EffectStep ==
    TypeOK /\ PassInvariant /\ EffectInvariant /\ [Next]_vars => EffectInvariant'
  <1> SUFFICES ASSUME TypeOK, PassInvariant, EffectInvariant, [Next]_vars PROVE EffectInvariant'
    OBVIOUS
  <1>0. N \in Nat /\ i \in 1 .. N + 1 /\ i \in Nat
    BY ShapeAssumption DEF TypeOK
  <1>1. CASE pc \in {"commit", "tag"}
    <2>1. \A f \in Field : f < i => TakesEffect(f, patch[f], mem)
      BY <1>1 DEF EffectInvariant
    <2>2. CASE CommitDone
      <3>1. \A f \in Field : f < i
        BY <1>0, <2>2 DEF CommitDone, Field
      <3> QED
        BY <2>1, <2>2, <3>1 DEF EffectInvariant, AcceptedPatchTakesEffect, CommitDone, call
    <2>3. CASE CommitStep \/ TagStep
      <3>1. ASSUME NEW f \in Field, f < i PROVE TakesEffect(f, patch[f], mem')
        <4>1. f # i
          BY <1>0, <3>1 DEF Field
        <4> QED
          BY <2>1, <2>3, <3>1, <4>1, CommitPassAgrees, EffectLocal
      <3>2. /\ i \in Field /\ patch[i] \in Updates(i) /\ form \in Form /\ mem \in Bytes(Addr)
            /\ patch' = patch /\ pc' \in {"commit", "tag"}
        BY <2>3, PatchField DEF TypeOK, CommitStep, TagStep
      <3>3. CASE CommitStep /\ StoresTag(form, i, patch[i], mem)
        <4>1. i' = i
          BY <3>3 DEF CommitStep
        <4> QED
          BY <3>1, <3>2, <4>1 DEF EffectInvariant, AcceptedPatchTakesEffect
      <3>4. ASSUME TakesEffect(i, patch[i], mem'), i' = i + 1 PROVE EffectInvariant'
        <4>1. \A f \in Field : f < i + 1 => f < i \/ f = i
          BY <1>0 DEF Field
        <4> QED
          BY <3>1, <3>2, <3>4, <4>1 DEF EffectInvariant, AcceptedPatchTakesEffect
      <3>5. CASE CommitStep /\ ~StoresTag(form, i, patch[i], mem)
        <4>1. /\ Verdict(form, i, patch[i], mem) = "Ok"
              /\ form # "init" => FieldValid(i, mem)
              /\ form = "init" => UpdateComplete(i, patch[i])
          BY <3>2, <3>5 DEF CommitStep, PassInvariant, CommitInvariant, CallInvariant, PatchComplete
        <4>2. TakesEffect(i, patch[i], mem')
          BY <3>2, <3>5, <4>1, CommitEffect DEF CommitStep
        <4> QED
          BY <3>4, <3>5, <4>2 DEF CommitStep
      <3>6. CASE TagStep
        <4>1. Kind[i] = "tagged" /\ patch[i].op = "set"
          BY <3>6 DEF TagStep, PassInvariant, CommitInvariant
        <4>2. CurrentTag(i, mem') = patch[i].to
          BY <3>2, <3>6, <4>1, StoreTagFrame DEF TagStep
        <4>3. TakesEffect(i, patch[i], mem')
          BY <4>1, <4>2 DEF TakesEffect
        <4> QED
          BY <3>4, <3>6, <4>3 DEF TagStep
      <3> QED
        BY <2>3, <3>3, <3>5, <3>6
    <2>4. CASE UNCHANGED vars
      BY <1>1, <2>1, <2>4 DEF vars, EffectInvariant, AcceptedPatchTakesEffect
    <2> QED
      BY <1>1, <2>2, <2>3, <2>4, CommitPassSteps
  <1>2. CASE pc \notin {"commit", "tag"}
    <2>1. CASE UNCHANGED vars
      BY <1>2, <2>1 DEF vars, EffectInvariant, AcceptedPatchTakesEffect
    <2>2. CASE PreflightStep
      <3>1. \A f \in Field : ~(f < 1)
        BY <1>0 DEF Field
      <3>2. \/ pc' = pc \/ (pc' = "returned" /\ result' # "Ok")
            \/ (pc' = "commit" /\ i' = 1)
        BY <2>2 DEF PreflightStep
      <3> QED
        BY <1>2, <2>2, <3>1, <3>2 DEF EffectInvariant, AcceptedPatchTakesEffect, PreflightStep
    <2>3. ASSUME pc' \in {"idle", "preflight"} PROVE EffectInvariant'
      BY <2>3 DEF EffectInvariant, AcceptedPatchTakesEffect
    <2>4. ASSUME Next PROVE PreflightStep \/ pc' \in {"idle", "preflight"}
      BY <1>2, <2>4
      DEF Next, Produce, AccessMut, Release, CopyFrom, SetLogical, InitializeStale, BeginCall,
          CommitStep, TagStep, CommitDone, Return, call, FieldSet, OptionSet, OptionGetMut,
          PayloadCopyFrom, VariantMut, Clear, Mutate
    <2> QED
      BY <2>1, <2>2, <2>3, <2>4
  <1> QED
    BY <1>1, <1>2

\* An accepted patch means what it says: absent, present, on the named variant.
THEOREM EffectSound == Spec => []AcceptedPatchTakesEffect
  <1>1. Init => EffectInvariant
    BY DEF Init, EffectInvariant, AcceptedPatchTakesEffect
  <1>2. EffectInvariant => AcceptedPatchTakesEffect
    BY DEF EffectInvariant
  <1> QED
    BY <1>1, <1>2, EffectStep, Safety, PTL DEF Spec

-----------------------------------------------------------------------------
(* Repetition *)

\* The slot that the update names holds what its child's patch leads to.
SlotSettled(f, u, m) ==
    u.op = "set" =>
        \A l \in Form : l = "patch" \/ IsComplete(<<f, u.to>>, u.child) =>
            /\ Preflight(l, <<f, u.to>>, Slice(m, Wire[<<f, u.to>>]), u.child)
            /\ Commit(l, <<f, u.to>>, Slice(m, Wire[<<f, u.to>>]), u.child)
                 = Slice(m, Wire[<<f, u.to>>])

\* The tag patch, if there is one, belongs to the payload patch.
TagAgrees(f, u) ==
    Kind[f] = "tagged" => /\ u.op = "keep" => u.tag = NoTag
                          /\ u.op = "set" => u.tag = NoTag \/ u.tag = u.to

Settled(f, u, m) == SlotSettled(f, u, m) /\ TagAgrees(f, u) /\ TakesEffect(f, u, m)

\* Committed fields hold what their update asks for.
RepeatInvariant ==
    /\ pc \in {"commit", "tag"} =>
          \A f \in Field : f < i => Settled(f, patch[f], mem)
    /\ pc = "tag" => SlotSettled(i, patch[i], mem) /\ TagAgrees(i, patch[i])
    /\ pc = "returned" /\ result = "Ok" =>
          \A f \in Field : Settled(f, patch[f], mem)

\* Storing what is there changes nothing.
LEMMA StoreSame ==
    ASSUME NEW m \in Bytes(Addr), NEW S, S \subseteq Addr
    PROVE  Store(m, Slice(m, S)) = m
  BY DEF Store, Slice, Bytes

\* Whether a field is settled depends on its region only.
LEMMA SettledLocal ==
    ASSUME NEW f \in Field, NEW u \in Updates(f), NEW m1 \in Bytes(Addr),
           NEW m2 \in Bytes(Addr), Agree(f, m1, m2), Settled(f, u, m2)
    PROVE  Settled(f, u, m1)
  <1>1. TakesEffect(f, u, m1)
    BY EffectLocal DEF Settled
  <1>2. ASSUME u.op = "set"
        PROVE  Slice(m1, Wire[<<f, u.to>>]) = Slice(m2, Wire[<<f, u.to>>])
    <2>1. u.to \in Tag \cup {NoTag}
      BY <1>2, UpdateShape DEF Slot
    <2> QED
      BY <2>1, ValidLocal
  <1>3. SlotSettled(f, u, m1)
    BY <1>2 DEF Settled, SlotSettled
  <1> QED
    BY <1>1, <1>3 DEF Settled

\* An approved commit settles the slot its update names.
LEMMA CommitSettles ==
    ASSUME NEW f \in Field, NEW u \in Updates(f), NEW k \in Form, NEW m \in Bytes(Addr),
           Verdict(k, f, u, m) = "Ok",
           k # "init" => FieldValid(f, m),
           k = "init" => UpdateComplete(f, u)
    PROVE  SlotSettled(f, u, CommitField(k, f, u, m)) /\ TagAgrees(f, u)
  <1>1. TagAgrees(f, u)
    BY UpdateShape DEF TagAgrees, Verdict, TaggedVerdict
  <1>2. ASSUME u.op = "set" PROVE SlotSettled(f, u, CommitField(k, f, u, m))
    <2> DEFINE s == <<f, u.to>>
               b == Slice(m, Wire[s])
               g == ChildForm(k, f, u, m)
               d == Commit(g, s, b, u.child)
    <2>1. /\ s \in Slot /\ Wire[s] \in SUBSET Addr /\ b \in Bytes(Wire[s])
          /\ g \in Form /\ d \in Bytes(Wire[s]) /\ u.child \in ChildPatch[s]
      BY <1>2, ChildCommitType, UpdateShape
    <2>2. /\ Preflight(g, s, b, u.child)
          /\ g = "init" => IsComplete(s, u.child)
          /\ g # "init" => Valid(s, b)
      <3>1. CASE Kind[f] = "plain"
        <4>1. u.to = NoTag /\ g = k
          BY <1>2, <3>1, UpdateShape DEF ChildForm
        <4>2. Preflight(g, s, b, u.child)
          BY <1>2, <3>1 DEF Verdict, PlainVerdict, ChildPreflight
        <4>3. k = "init" => IsComplete(s, u.child)
          BY <1>2, <3>1 DEF UpdateComplete
        <4>4. k # "init" => Valid(s, b)
          BY <3>1, <4>1 DEF FieldValid, ChildValid
        <4> QED
          BY <4>1, <4>2, <4>3, <4>4
      <3>2. CASE Kind[f] = "option"
        <4>1. u.to = NoTag
          BY <1>2, <3>2, UpdateShape
        <4>2. Preflight(g, s, b, u.child) /\ (g = "init" => IsComplete(s, u.child))
          BY <1>2, <3>2 DEF Verdict, OptionVerdict, ChildPreflight, ChildIncomplete
        <4>3. g # "init" => Valid(s, b)
          BY <3>2, <4>1 DEF ChildForm, FieldValid, ChildValid
        <4> QED
          BY <4>2, <4>3
      <3>3. CASE Kind[f] = "tagged"
        <4>1. Preflight(g, s, b, u.child) /\ (g = "init" => IsComplete(s, u.child))
          BY <1>2, <3>3 DEF Verdict, TaggedVerdict, ChildPreflight, ChildIncomplete
        <4>2. g # "init" => CurrentTag(f, m) = u.to /\ FieldValid(f, m)
          BY <3>3 DEF ChildForm
        <4>3. g # "init" => Valid(s, b)
          BY <3>3, <4>2 DEF FieldValid, ChildValid
        <4> QED
          BY <4>1, <4>3
      <3> QED
        BY <3>1, <3>2, <3>3, ShapeAssumption
    <2>3. CommitField(k, f, u, m) = Store(m, d)
      BY <1>2 DEF CommitField, CommitChild
    <2>4. Slice(Store(m, d), Wire[s]) = d
      <3> HIDE DEF s, d
      <3> QED
        BY <2>1, StoreWrites
    <2>5. ASSUME NEW l \in Form, l = "patch" \/ IsComplete(s, u.child)
          PROVE  Preflight(l, s, d, u.child) /\ Commit(l, s, d, u.child) = d
      <3> HIDE DEF s, b, g
      <3> QED
        BY <2>1, <2>2, <2>5, RepeatAssumption
    <2> QED
      BY <2>3, <2>4, <2>5 DEF SlotSettled
  <1> QED
    BY <1>1, <1>2 DEF SlotSettled

\* The tag store settles a field whose payload is settled.
LEMMA TagSettles ==
    ASSUME NEW f \in Field, NEW u \in Updates(f), NEW m \in Bytes(Addr),
           Kind[f] = "tagged", u.op = "set", SlotSettled(f, u, m), TagAgrees(f, u)
    PROVE  Settled(f, u, StoreTag(f, u, m))
  <1>1. /\ CurrentTag(f, StoreTag(f, u, m)) = u.to
        /\ Slice(StoreTag(f, u, m), Wire[<<f, u.to>>]) = Slice(m, Wire[<<f, u.to>>])
    BY StoreTagFrame
  <1>2. SlotSettled(f, u, StoreTag(f, u, m))
    BY <1>1 DEF SlotSettled
  <1>3. TakesEffect(f, u, StoreTag(f, u, m))
    BY <1>1 DEF TakesEffect
  <1> QED
    BY <1>2, <1>3 DEF Settled

\* A settled field approves its update again, by whichever branch now applies,
\* and both stores of the commit write the bytes that are there.
LEMMA SettledRepeats ==
    ASSUME NEW f \in Field, NEW u \in Updates(f), NEW k \in Form, NEW m \in Bytes(Addr),
           Settled(f, u, m), k = "patch" \/ UpdateComplete(f, u)
    PROVE  Verdict(k, f, u, m) = "Ok" /\ CommitWhole(k, f, u, m) = m
  <1>1. CASE u.op = "keep"
    <2>1. Verdict(k, f, u, m) = "Ok"
      BY <1>1, ShapeAssumption
      DEF Settled, TagAgrees, Verdict, PlainVerdict, OptionVerdict, TaggedVerdict
    <2> QED
      BY <1>1, <2>1 DEF CommitWhole, StoresTag, CommitField
  <1>2. CASE u.op = "none"
    <2>1. Kind[f] = "option" /\ IsAllZero(m, Storage[f]) /\ Storage[f] \subseteq Addr
      BY <1>2, UpdateShape, RegionShape DEF Settled, TakesEffect
    <2>2. Verdict(k, f, u, m) = "Ok"
      BY <1>2, <2>1 DEF Verdict, OptionVerdict
    <2>3. Zeroes(Storage[f]) = Slice(m, Storage[f])
      BY <2>1 DEF IsAllZero, Zeroes, Slice
    <2>4. CommitWhole(k, f, u, m) = Store(m, Slice(m, Storage[f]))
      BY <1>2, <2>3 DEF CommitWhole, StoresTag, CommitField, ClearStorage
    <2> QED
      BY <2>1, <2>2, <2>4, StoreSame
  <1>3. CASE u.op = "set"
    <2> DEFINE s == <<f, u.to>>
               b == Slice(m, Wire[s])
               g == ChildForm(k, f, u, m)
    <2>1. s \in Slot /\ Wire[s] \subseteq Addr /\ g \in Form
      BY <1>3, ChildCommitType
    <2>2. k = "patch" \/ IsComplete(s, u.child)
      BY <1>3 DEF UpdateComplete
    <2>3. g = "patch" \/ IsComplete(s, u.child)
      <3>1. Kind[f] = "option" => ~IsAllZero(m, Storage[f])
        BY <1>3 DEF Settled, TakesEffect
      <3>2. Kind[f] = "tagged" => CurrentTag(f, m) = u.to
        BY <1>3 DEF Settled, TakesEffect
      <3> QED
        BY <2>2, <3>1, <3>2, ShapeAssumption DEF ChildForm
    <2>4. Preflight(g, s, b, u.child) /\ Commit(g, s, b, u.child) = b
      BY <1>3, <2>1, <2>3 DEF Settled, SlotSettled
    <2>5. ChildPreflight(k, f, u, m) /\ ~ChildIncomplete(k, f, u, m)
      BY <2>3, <2>4 DEF ChildPreflight, ChildIncomplete
    <2>6. CommitField(k, f, u, m) = m
      <3>1. CommitField(k, f, u, m) = Store(m, b)
        BY <1>3, <2>4 DEF CommitField, CommitChild
      <3> QED
        BY <2>1, <3>1, StoreSame
    <2>7. CASE Kind[f] # "tagged"
      <3>1. Verdict(k, f, u, m) = "Ok"
        BY <1>3, <2>5, <2>7, ShapeAssumption DEF Verdict, PlainVerdict, OptionVerdict
      <3> QED
        BY <2>6, <2>7, <3>1 DEF CommitWhole, StoresTag
    <2>8. CASE Kind[f] = "tagged"
      <3>1. /\ CurrentTag(f, m) = u.to /\ u.to \in Tag /\ u.to # NoTag
            /\ u.tag = NoTag \/ u.tag = u.to
        BY <1>3, <2>8, UpdateShape, ShapeAssumption DEF Settled, TakesEffect, TagAgrees
      <3>2. Verdict(k, f, u, m) = "Ok"
        BY <1>3, <2>5, <2>8, <3>1 DEF Verdict, TaggedVerdict
      <3>3. TagWire[f] \subseteq Addr /\ Slice(m, TagWire[f]) \in Bytes(TagWire[f])
        BY RegionShape, SliceType
      <3>4. ToRaw(f, u.to) = Slice(m, TagWire[f])
        BY <2>8, <3>1, <3>3, RepeatAssumption DEF CurrentTag
      <3>5. StoreTag(f, u, m) = m
        BY <3>3, <3>4, StoreSame DEF StoreTag
      <3> QED
        BY <2>6, <3>2, <3>5 DEF CommitWhole
    <2> QED
      BY <2>7, <2>8
  <1> QED
    BY <1>1, <1>2, <1>3, UpdateShape

\* Each committed field is settled and stays so.
LEMMA RepeatStep ==
    TypeOK /\ PassInvariant /\ RepeatInvariant /\ [Next]_vars => RepeatInvariant'
  <1> SUFFICES ASSUME TypeOK, PassInvariant, RepeatInvariant, [Next]_vars PROVE RepeatInvariant'
    OBVIOUS
  <1>0. N \in Nat /\ i \in 1 .. N + 1 /\ i \in Nat
    BY ShapeAssumption DEF TypeOK
  <1>1. CASE pc \in {"commit", "tag"}
    <2>1. \A f \in Field : f < i => Settled(f, patch[f], mem)
      BY <1>1 DEF RepeatInvariant
    <2>2. CASE CommitDone
      <3>1. \A f \in Field : f < i
        BY <1>0, <2>2 DEF CommitDone, Field
      <3> QED
        BY <2>1, <2>2, <3>1 DEF RepeatInvariant, CommitDone, call
    <2>3. CASE CommitStep \/ TagStep
      <3>1. ASSUME NEW f \in Field, f < i PROVE Settled(f, patch[f], mem')
        <4>1. f # i /\ patch[f] \in Updates(f)
          BY <1>0, <3>1, PatchField DEF Field, TypeOK
        <4> QED
          BY <2>1, <2>3, <3>1, <4>1, CommitPassAgrees, SettledLocal
      <3>2. /\ i \in Field /\ patch[i] \in Updates(i) /\ form \in Form /\ mem \in Bytes(Addr)
            /\ patch' = patch /\ pc' \in {"commit", "tag"}
        BY <2>3, PatchField DEF TypeOK, CommitStep, TagStep
      <3>3. ASSUME Settled(i, patch[i], mem'), i' = i + 1, pc' = "commit"
            PROVE  RepeatInvariant'
        <4>1. \A f \in Field : f < i + 1 => f < i \/ f = i
          BY <1>0 DEF Field
        <4> QED
          BY <3>1, <3>2, <3>3, <4>1 DEF RepeatInvariant
      <3>4. CASE CommitStep
        <4>1. /\ pc = "commit" /\ Verdict(form, i, patch[i], mem) = "Ok"
              /\ form # "init" => FieldValid(i, mem)
              /\ form = "init" => UpdateComplete(i, patch[i])
          BY <3>2, <3>4 DEF CommitStep, PassInvariant, CommitInvariant, CallInvariant, PatchComplete
        <4>2. SlotSettled(i, patch[i], mem') /\ TagAgrees(i, patch[i])
          BY <3>2, <3>4, <4>1, CommitSettles DEF CommitStep
        <4>3. CASE StoresTag(form, i, patch[i], mem)
          <5>1. i' = i /\ pc' = "tag"
            BY <3>4, <4>3 DEF CommitStep
          <5> QED
            BY <3>1, <3>2, <4>2, <5>1 DEF RepeatInvariant
        <4>4. CASE ~StoresTag(form, i, patch[i], mem)
          <5>1. TakesEffect(i, patch[i], mem')
            BY <3>2, <3>4, <4>1, <4>4, CommitEffect DEF CommitStep
          <5> QED
            BY <3>3, <3>4, <4>1, <4>2, <4>4, <5>1 DEF CommitStep, Settled
        <4> QED
          BY <4>3, <4>4
      <3>5. CASE TagStep
        <4>1. /\ Kind[i] = "tagged" /\ patch[i].op = "set"
              /\ SlotSettled(i, patch[i], mem) /\ TagAgrees(i, patch[i])
          BY <3>5 DEF TagStep, PassInvariant, CommitInvariant, RepeatInvariant
        <4>2. Settled(i, patch[i], mem')
          BY <3>2, <3>5, <4>1, TagSettles DEF TagStep
        <4> QED
          BY <3>3, <3>5, <4>2 DEF TagStep
      <3> QED
        BY <2>3, <3>4, <3>5
    <2>4. CASE UNCHANGED vars
      BY <1>1, <2>1, <2>4 DEF vars, RepeatInvariant
    <2> QED
      BY <1>1, <2>2, <2>3, <2>4, CommitPassSteps
  <1>2. CASE pc \notin {"commit", "tag"}
    <2>1. CASE UNCHANGED vars
      BY <1>2, <2>1 DEF vars, RepeatInvariant
    <2>2. CASE PreflightStep
      <3>1. \A f \in Field : ~(f < 1)
        BY <1>0 DEF Field
      <3>2. \/ pc' = "preflight" \/ (pc' = "returned" /\ result' # "Ok")
            \/ (pc' = "commit" /\ i' = 1)
        BY <2>2 DEF PreflightStep
      <3> QED
        BY <3>1, <3>2 DEF RepeatInvariant
    <2>3. ASSUME pc' \in {"idle", "preflight"} PROVE RepeatInvariant'
      BY <2>3 DEF RepeatInvariant
    <2>4. ASSUME Next PROVE PreflightStep \/ pc' \in {"idle", "preflight"}
      BY <1>2, <2>4
      DEF Next, Produce, AccessMut, Release, CopyFrom, SetLogical, InitializeStale, BeginCall,
          CommitStep, TagStep, CommitDone, Return, call, FieldSet, OptionSet, OptionGetMut,
          PayloadCopyFrom, VariantMut, Clear, Mutate
    <2> QED
      BY <2>1, <2>2, <2>3, <2>4
  <1> QED
    BY <1>1, <1>2

\* An accepted call is idempotent: repeated in its own form, or in any form
\* that takes a complete patch, it is accepted and changes no byte.  This is
\* RepeatAssumption again, for the record.
THEOREM RepeatSound == Spec => []AcceptedPatchRepeats
  <1>1. Init => RepeatInvariant
    BY DEF Init, RepeatInvariant
  <1>2. TypeOK /\ RepeatInvariant => AcceptedPatchRepeats
    <2> SUFFICES ASSUME TypeOK, RepeatInvariant, pc = "returned", result = "Ok",
                        NEW k \in Form, NEW f \in Field, k = "patch" \/ PatchComplete(patch)
                 PROVE  /\ Verdict(k, f, patch[f], mem) = "Ok"
                        /\ CommitWhole(k, f, patch[f], mem) = mem
      BY DEF AcceptedPatchRepeats
    <2>1. patch[f] \in Updates(f) /\ mem \in Bytes(Addr) /\ Settled(f, patch[f], mem)
      BY PatchField DEF TypeOK, RepeatInvariant
    <2>2. k = "patch" \/ UpdateComplete(f, patch[f])
      BY DEF PatchComplete
    <2> QED
      BY <2>1, <2>2, SettledRepeats
  <1> QED
    BY <1>1, <1>2, RepeatStep, Safety, PTL DEF Spec

-----------------------------------------------------------------------------
(* One field *)

\* The value of a field depends on its region only.
LEMMA ValueLocal ==
    ASSUME NEW f \in Field, NEW m1 \in Bytes(Addr), NEW m2 \in Bytes(Addr),
           Agree(f, m1, m2)
    PROVE  FieldValue(f, m1) = FieldValue(f, m2)
  <1>1. CurrentTag(f, m1) = CurrentTag(f, m2) /\ CurrentTag(f, m1) \in Tag \cup {NoTag}
    BY ValidLocal, CurrentTagType
  <1>2. IsAllZero(m1, Storage[f]) = IsAllZero(m2, Storage[f])
    BY ValidLocal
  <1>3. \A t \in Tag \cup {NoTag} : ReadSlot(<<f, t>>, m1) = ReadSlot(<<f, t>>, m2)
    BY ValidLocal DEF ReadSlot
  <1> QED
    BY <1>1, <1>2, <1>3 DEF FieldValue

\* What the reader of a slot returns after an approved commit into it.
LEMMA CommittedSlot ==
    ASSUME NEW f \in Field, NEW u \in Updates(f), NEW k \in Form, NEW m \in Bytes(Addr),
           u.op = "set",
           ChildPreflight(k, f, u, m),
           ChildForm(k, f, u, m) = "init" => IsComplete(<<f, u.to>>, u.child),
           ChildForm(k, f, u, m) # "init" => ChildValid(<<f, u.to>>, m)
    PROVE  LET s == <<f, u.to>>
               old == Read(s, Slice(m, Wire[s]))
           IN  /\ ReadSlot(s, CommitField(k, f, u, m)) =
                     [tag |-> u.to,
                      data |-> IF ChildForm(k, f, u, m) = "init"
                               THEN Initial(s, u.child) ELSE Patched(s, old, u.child)]
               /\ IsComplete(s, u.child) => Patched(s, old, u.child) = Initial(s, u.child)
  <1> DEFINE s == <<f, u.to>>
             b == Slice(m, Wire[s])
             c == Commit(ChildForm(k, f, u, m), s, b, u.child)
  <1>1. u.child \in ChildPatch[s]
    BY UpdateShape
  <1>2. /\ s \in Slot /\ Wire[s] \subseteq Addr /\ b \in Bytes(Wire[s])
        /\ ChildForm(k, f, u, m) \in Form
        /\ c \in Bytes(Wire[s])
    BY ChildCommitType
  <1>3. /\ Read(s, c) = IF ChildForm(k, f, u, m) = "init"
                        THEN Initial(s, u.child) ELSE Patched(s, Read(s, b), u.child)
        /\ IsComplete(s, u.child) => Patched(s, Read(s, b), u.child) = Initial(s, u.child)
    BY <1>1, <1>2, ReadAssumption DEF ChildPreflight, ChildValid
  <1>4. CommitField(k, f, u, m) = Store(m, c)
    BY DEF CommitField, CommitChild
  <1>5. Slice(Store(m, c), Wire[s]) = c
    <2>1. Wire[s] \in SUBSET Addr /\ c \in Bytes(Wire[s])
      BY <1>2
    <2> HIDE DEF s, b, c
    <2> QED
      BY <2>1, StoreWrites
  <1>6. s[2] = u.to
    OBVIOUS
  <1>7. ReadSlot(s, CommitField(k, f, u, m)) = [tag |-> u.to, data |-> Read(s, c)]
    <2> HIDE DEF s, c
    <2> QED
      BY <1>4, <1>5, <1>6 DEF ReadSlot
  <1> QED
    BY <1>3, <1>7

\* A present optional value is not the absent one.
LEMMA PresentIsAValue ==
    ASSUME NEW f \in Field, Kind[f] = "option", NEW m \in Bytes(Addr), FieldValid(f, m)
    PROVE  /\ IsAllZero(m, Storage[f]) => FieldValue(f, m) = NoValue
           /\ ~IsAllZero(m, Storage[f]) =>
                 /\ FieldValue(f, m) = ReadSlot(<<f, NoTag>>, m)
                 /\ FieldValue(f, m) # NoValue
  <1>1. <<f, NoTag>> \in Slot /\ Wire[<<f, NoTag>>] \subseteq Addr
    BY RegionShape
  <1>2. Slice(m, Wire[<<f, NoTag>>]) \in Bytes(Wire[<<f, NoTag>>])
    BY <1>1, SliceType
  <1>3. CASE ~IsAllZero(m, Storage[f])
    <2>1. Valid(<<f, NoTag>>, Slice(m, Wire[<<f, NoTag>>]))
      BY <1>3 DEF FieldValid, ChildValid
    <2>2. Read(<<f, NoTag>>, Slice(m, Wire[<<f, NoTag>>])) # Absent
      BY <1>1, <1>2, <2>1, ReadAssumption
    <2> QED
      BY <1>3, <2>2 DEF FieldValue, ReadSlot, NoValue
  <1>4. CASE IsAllZero(m, Storage[f])
    BY <1>4 DEF FieldValue
  <1> QED
    BY <1>3, <1>4

\* The value a call leads to, field by field.
Target(k, f, v, u) == IF k = "init" THEN FreshField(f, u) ELSE UpdatedField(f, v, u)

\* An approved update commits to the field's target; one that ends with a tag
\* store leaves the target in the slot that store will select.
LEMMA CommitReaches ==
    ASSUME NEW f \in Field, NEW u \in Updates(f), NEW k \in Form, NEW m \in Bytes(Addr),
           Verdict(k, f, u, m) = "Ok",
           k # "init" => FieldValid(f, m),
           k = "init" => UpdateComplete(f, u)
    PROVE  LET target == Target(k, f, FieldValue(f, m), u)
           IN  /\ ~StoresTag(k, f, u, m) => FieldValue(f, CommitField(k, f, u, m)) = target
               /\ StoresTag(k, f, u, m) =>
                     ReadSlot(<<f, u.to>>, CommitField(k, f, u, m)) = target
  <1> DEFINE new == CommitField(k, f, u, m)
             s == <<f, u.to>>
             old == Read(s, Slice(m, Wire[s]))
             v == FieldValue(f, m)
             initial == [tag |-> u.to, data |-> Initial(s, u.child)]
             patched == [tag |-> u.to, data |-> Patched(s, old, u.child)]
  <1>0. new \in Bytes(Addr)
    BY CommitFieldFrame
  <1>1. CASE u.op = "keep"
    <2>1. new = m /\ ~StoresTag(k, f, u, m)
      BY <1>1 DEF CommitField, StoresTag
    <2>2. k # "init"
      BY <1>1 DEF UpdateComplete
    <2> QED
      BY <1>1, <2>1, <2>2 DEF Target, UpdatedField
  <1>2. CASE u.op = "none"
    <2>1. Kind[f] = "option" /\ ~StoresTag(k, f, u, m)
      BY <1>2, UpdateShape DEF StoresTag
    <2>2. TakesEffect(f, u, new)
      BY <2>1, CommitEffect
    <2>3. FieldValue(f, new) = NoValue
      BY <1>2, <2>1, <2>2 DEF TakesEffect, FieldValue
    <2>4. Target(k, f, v, u) = NoValue
      BY <1>2 DEF Target, UpdatedField, FreshField
    <2> QED
      BY <2>1, <2>3, <2>4
  <1>3. CASE u.op = "set"
    <2>0. FreshField(f, u) = initial
      BY <1>3 DEF FreshField
    <2>1. UpdatedField(f, v, u) = IF Continues(f, v, u)
                                  THEN [tag |-> u.to, data |-> Patched(s, v.data, u.child)]
                                  ELSE initial
      BY <1>3 DEF UpdatedField
    <2>2. CASE Kind[f] = "plain"
      <3>1. u.to = NoTag /\ ChildForm(k, f, u, m) = k /\ ~StoresTag(k, f, u, m)
        BY <1>3, <2>2, UpdateShape DEF ChildForm, StoresTag
      <3>2. ChildPreflight(k, f, u, m)
        BY <1>3, <2>2 DEF Verdict, PlainVerdict
      <3>3. /\ k = "init" => IsComplete(s, u.child)
            /\ k # "init" => ChildValid(s, m)
        BY <1>3, <2>2, <3>1 DEF UpdateComplete, FieldValid
      <3>4. ReadSlot(s, new) = IF k = "init" THEN initial ELSE patched
        BY <1>3, <3>1, <3>2, <3>3, CommittedSlot
      <3>5. FieldValue(f, new) = ReadSlot(s, new) /\ v.data = old
        BY <2>2, <3>1 DEF FieldValue, ReadSlot
      <3>6. Continues(f, v, u)
        BY <2>2 DEF Continues
      <3>7. UpdatedField(f, v, u) = patched
        BY <2>1, <3>5, <3>6
      <3>8. FieldValue(f, new) = Target(k, f, v, u)
        <4> HIDE DEF new, s, old, v, initial, patched
        <4> QED
          BY <2>0, <3>4, <3>5, <3>7 DEF Target
      <3> QED
        BY <3>1, <3>8
    <2>3. CASE Kind[f] = "option"
      <3>1. u.to = NoTag /\ ~StoresTag(k, f, u, m)
        BY <1>3, <2>3, UpdateShape DEF StoresTag
      <3>2. ChildPreflight(k, f, u, m) /\ ~ChildIncomplete(k, f, u, m)
        BY <1>3, <2>3 DEF Verdict, OptionVerdict
      <3>3. ChildForm(k, f, u, m) # "init" => ChildValid(s, m)
        BY <2>3, <3>1 DEF ChildForm, FieldValid
      <3>4. /\ ReadSlot(s, new) = IF ChildForm(k, f, u, m) = "init" THEN initial ELSE patched
            /\ IsComplete(s, u.child) => patched = initial
        BY <1>3, <3>2, <3>3, CommittedSlot DEF ChildIncomplete
      <3>5. ~IsAllZero(new, Storage[f])
        BY <1>3, <2>3, <3>1, CommitEffect DEF TakesEffect
      <3>6. FieldValue(f, new) = ReadSlot(s, new)
        BY <2>3, <3>1, <3>5 DEF FieldValue
      <3>7. ChildForm(k, f, u, m) = "init" => IsComplete(s, u.child)
        BY <3>2 DEF ChildIncomplete
      <3>8. CASE k = "init"
        <4>1. ChildForm(k, f, u, m) = "init"
          BY <2>3, <3>8 DEF ChildForm
        <4> QED
          BY <2>0, <3>1, <3>4, <3>6, <3>8, <4>1 DEF Target
      <3>9. CASE k # "init" /\ IsAllZero(m, Storage[f])
        <4>1. v = NoValue /\ ChildForm(k, f, u, m) = "init"
          BY <2>3, <3>9, PresentIsAValue DEF ChildForm
        <4>2. ~Continues(f, v, u)
          BY <2>3, <4>1 DEF Continues
        <4> QED
          BY <2>1, <3>1, <3>4, <3>6, <3>9, <4>1, <4>2 DEF Target
      <3>10. CASE k # "init" /\ ~IsAllZero(m, Storage[f])
        <4>1. v # NoValue /\ v.data = old
          BY <2>3, <3>1, <3>10, PresentIsAValue DEF ReadSlot
        <4>2. Continues(f, v, u)
          BY <2>3, <4>1 DEF Continues
        <4>3. UpdatedField(f, v, u) = patched
          BY <2>1, <4>1, <4>2
        <4>4. FieldValue(f, new) = Target(k, f, v, u)
          <5> HIDE DEF new, s, old, v, initial, patched
          <5> QED
            BY <3>4, <3>6, <3>7, <3>10, <4>3 DEF Target
        <4> QED
          BY <3>1, <4>4
      <3> QED
        BY <3>8, <3>9, <3>10
    <2>4. CASE Kind[f] = "tagged"
      <3>1. ChildPreflight(k, f, u, m) /\ ~ChildIncomplete(k, f, u, m)
        BY <1>3, <2>4 DEF Verdict, TaggedVerdict
      <3>2. ChildForm(k, f, u, m) # "init" => k # "init" /\ CurrentTag(f, m) = u.to
        BY <2>4 DEF ChildForm
      <3>3. ChildForm(k, f, u, m) # "init" => ChildValid(s, m)
        BY <2>4, <3>2 DEF FieldValid
      <3>4. ReadSlot(s, new) = IF ChildForm(k, f, u, m) = "init" THEN initial ELSE patched
        BY <1>3, <3>1, <3>3, CommittedSlot DEF ChildIncomplete
      <3>5. v.tag = CurrentTag(f, m) /\ (CurrentTag(f, m) = u.to => v.data = old)
        BY <2>4 DEF FieldValue, ReadSlot
      <3>6. Continues(f, v, u) <=> CurrentTag(f, m) = u.to
        BY <2>4, <3>5 DEF Continues
      <3>7. CASE StoresTag(k, f, u, m)
        <4>1. ChildForm(k, f, u, m) = "init"
          BY <3>7 DEF StoresTag
        <4>2. k # "init" => CurrentTag(f, m) # u.to
          BY <2>4, <4>1 DEF ChildForm
        <4>3. ReadSlot(s, new) = Target(k, f, v, u)
          <5> HIDE DEF new, s, old, v, initial, patched
          <5> QED
            BY <2>0, <2>1, <3>4, <3>6, <4>1, <4>2 DEF Target
        <4> QED
          BY <3>7, <4>3
      <3>8. CASE ~StoresTag(k, f, u, m)
        <4>1. ChildForm(k, f, u, m) # "init"
          BY <1>3, <2>4, <3>8 DEF StoresTag
        <4>2. CurrentTag(f, new) = u.to
          BY <3>2, <4>1, CommitKeepsTag
        <4>3. FieldValue(f, new) = ReadSlot(s, new)
          BY <2>4, <4>2 DEF FieldValue
        <4>4. UpdatedField(f, v, u) = patched
          BY <2>1, <3>2, <3>5, <3>6, <4>1
        <4>5. FieldValue(f, new) = Target(k, f, v, u)
          <5> HIDE DEF new, s, old, v, initial, patched
          <5> QED
            BY <3>2, <3>4, <4>1, <4>3, <4>4 DEF Target
        <4> QED
          BY <3>8, <4>5
      <3> QED
        BY <3>7, <3>8
    <2> QED
      BY <2>2, <2>3, <2>4, ShapeAssumption
  <1> QED
    BY <1>1, <1>2, <1>3, UpdateShape

-----------------------------------------------------------------------------
(* The commit pass *)

\* The value the running call leads field f to.
Goal(f) == Target(form, f, FieldValue(f, entry), patch[f])

\* Committed fields have reached their goal, the others are as at entry, and
\* a payload waiting for its tag has the goal in the slot the tag selects.
ValueInvariant ==
    pc \in {"commit", "tag"} =>
        /\ form # "init" => RecordValid(entry)
        /\ \A f \in Field : f < i => FieldValue(f, mem) = Goal(f)
        /\ \A f \in Field : f > i \/ (f = i /\ pc = "commit") => Agree(f, mem, entry)
        /\ pc = "tag" => ReadSlot(<<i, patch[i].to>>, mem) = Goal(i)

\* The commit of the field at i reaches its goal.
LEMMA CommitStepValue ==
    ASSUME TypeOK, PassInvariant, ValueInvariant, CommitStep
    PROVE  /\ ~StoresTag(form, i, patch[i], mem) => FieldValue(i, mem') = Goal(i)
           /\ StoresTag(form, i, patch[i], mem) =>
                 ReadSlot(<<i, patch[i].to>>, mem') = Goal(i)
  <1>1. /\ i \in Field /\ patch[i] \in Updates(i) /\ form \in Form
        /\ mem \in Bytes(Addr) /\ entry \in Bytes(Addr)
        /\ mem' = CommitField(form, i, patch[i], mem)
    BY PatchField DEF TypeOK, CommitStep
  <1>2. /\ Verdict(form, i, patch[i], mem) = "Ok"
        /\ form # "init" => FieldValid(i, mem)
        /\ form = "init" => UpdateComplete(i, patch[i])
    BY <1>1 DEF CommitStep, PassInvariant, CommitInvariant, CallInvariant, PatchComplete
  <1>3. Agree(i, mem, entry)
    BY <1>1 DEF CommitStep, ValueInvariant
  <1>4. FieldValue(i, mem) = FieldValue(i, entry)
    BY <1>1, <1>3, ValueLocal
  <1>5. /\ ~StoresTag(form, i, patch[i], mem) =>
              FieldValue(i, CommitField(form, i, patch[i], mem))
                = Target(form, i, FieldValue(i, mem), patch[i])
        /\ StoresTag(form, i, patch[i], mem) =>
              ReadSlot(<<i, patch[i].to>>, CommitField(form, i, patch[i], mem))
                = Target(form, i, FieldValue(i, mem), patch[i])
    BY <1>1, <1>2, CommitReaches
  <1> QED
    BY <1>1, <1>4, <1>5 DEF Goal

\* The tag store makes the getter read the slot that was committed.
LEMMA TagStepValue ==
    ASSUME TypeOK, PassInvariant, ValueInvariant, TagStep
    PROVE  FieldValue(i, mem') = Goal(i)
  <1>1. /\ i \in Field /\ patch[i] \in Updates(i) /\ mem \in Bytes(Addr)
        /\ Kind[i] = "tagged" /\ patch[i].op = "set"
        /\ mem' = StoreTag(i, patch[i], mem)
    BY PatchField DEF TypeOK, TagStep, PassInvariant, CommitInvariant
  <1>2. /\ CurrentTag(i, mem') = patch[i].to
        /\ Slice(mem', Wire[<<i, patch[i].to>>]) = Slice(mem, Wire[<<i, patch[i].to>>])
    BY <1>1, StoreTagFrame
  <1>3. FieldValue(i, mem') = ReadSlot(<<i, patch[i].to>>, mem')
    BY <1>1, <1>2 DEF FieldValue
  <1>4. ReadSlot(<<i, patch[i].to>>, mem') = ReadSlot(<<i, patch[i].to>>, mem)
    BY <1>2 DEF ReadSlot
  <1> QED
    BY <1>3, <1>4 DEF ValueInvariant, TagStep

\* One field after the other reaches its goal and stays there.
LEMMA ValueStep ==
    TypeOK /\ PassInvariant /\ ValueInvariant /\ [Next]_vars => ValueInvariant'
  <1> SUFFICES ASSUME TypeOK, PassInvariant, ValueInvariant, [Next]_vars PROVE ValueInvariant'
    OBVIOUS
  <1>0. N \in Nat /\ i \in 1 .. N + 1 /\ i \in Nat
    BY ShapeAssumption DEF TypeOK
  <1>1. CASE CommitStep \/ TagStep
    <2>1. /\ i \in Field /\ pc \in {"commit", "tag"} /\ pc' \in {"commit", "tag"}
          /\ form' = form /\ patch' = patch /\ entry' = entry
      BY <1>1 DEF TypeOK, CommitStep, TagStep
    <2>2. \A f \in Field : Goal(f)' = Goal(f)
      BY <2>1 DEF Goal
    <2>3. ASSUME NEW f \in Field, f < i PROVE FieldValue(f, mem') = Goal(f)'
      <3>1. f # i
        BY <1>0, <2>3 DEF Field
      <3>2. FieldValue(f, mem') = FieldValue(f, mem)
        BY <1>1, <3>1, CommitPassAgrees, ValueLocal
      <3> QED
        BY <2>1, <2>2, <2>3, <3>2 DEF ValueInvariant
    <2>4. ASSUME NEW f \in Field, f > i PROVE Agree(f, mem', entry')
      <3>1. f # i
        BY <1>0, <2>4 DEF Field
      <3>2. Agree(f, mem', mem) /\ Agree(f, mem, entry)
        BY <1>1, <2>1, <2>4, <3>1, CommitPassAgrees DEF ValueInvariant
      <3> QED
        BY <2>1, <3>2 DEF Agree
    <2>5. form' # "init" => RecordValid(entry')
      BY <2>1 DEF ValueInvariant
    <2>6. ASSUME i' = i + 1, pc' = "commit", FieldValue(i, mem') = Goal(i) PROVE ValueInvariant'
      <3>1. \A f \in Field : f < i + 1 => f < i \/ f = i
        BY <1>0 DEF Field
      <3>2. \A f \in Field : f > i + 1 \/ f = i + 1 => f > i
        BY <1>0 DEF Field
      <3>3. \A f \in Field : f < i' => FieldValue(f, mem') = Goal(f)'
        BY <2>1, <2>2, <2>3, <2>6, <3>1
      <3>4. \A f \in Field : f > i' \/ f = i' => Agree(f, mem', entry')
        BY <2>4, <2>6, <3>2
      <3> QED
        BY <2>5, <2>6, <3>3, <3>4 DEF ValueInvariant
    <2>7. CASE CommitStep /\ StoresTag(form, i, patch[i], mem)
      <3>1. i' = i /\ pc' = "tag"
        BY <2>7 DEF CommitStep
      <3>2. ReadSlot(<<i, patch[i].to>>, mem') = Goal(i)
        BY <2>7, CommitStepValue
      <3>3. (ReadSlot(<<i, patch[i].to>>, mem) = Goal(i))'
        BY <2>1, <3>1, <3>2 DEF Goal, ReadSlot
      <3>4. /\ \A f \in Field : f < i' => FieldValue(f, mem') = Goal(f)'
            /\ \A f \in Field : f > i' => Agree(f, mem', entry')
        BY <2>3, <2>4, <3>1
      <3> QED
        BY <2>5, <3>1, <3>3, <3>4 DEF ValueInvariant
    <2>8. CASE CommitStep /\ ~StoresTag(form, i, patch[i], mem)
      <3>1. i' = i + 1 /\ pc' = "commit"
        BY <2>8 DEF CommitStep
      <3> QED
        BY <2>6, <2>8, <3>1, CommitStepValue
    <2>9. CASE TagStep
      <3>1. i' = i + 1 /\ pc' = "commit"
        BY <2>9 DEF TagStep
      <3> QED
        BY <2>6, <2>9, <3>1, TagStepValue
    <2> QED
      BY <1>1, <2>7, <2>8, <2>9
  <1>2. CASE UNCHANGED vars
    BY <1>2 DEF vars, ValueInvariant, Goal
  <1>3. CASE PreflightStep
    <2>1. CASE pc' = "commit"
      <3>1. mem' = mem /\ entry' = entry /\ form' = form /\ i' = 1 /\ pc = "preflight"
        BY <1>3, <2>1 DEF PreflightStep
      <3>2. mem = entry /\ (form # "init" => RecordValid(mem))
        BY <3>1 DEF PassInvariant, PreflightInvariant
      <3>3. \A f \in Field : ~(f < 1)
        BY <1>0 DEF Field
      <3>4. \A f \in Field : Agree(f, mem', entry')
        BY <3>1, <3>2 DEF Agree
      <3>5. form' # "init" => RecordValid(entry')
        BY <3>1, <3>2
      <3> QED
        BY <2>1, <3>1, <3>3, <3>4, <3>5 DEF ValueInvariant
    <2>2. CASE pc' # "commit"
      <3>1. pc' \notin {"commit", "tag"}
        BY <1>3, <2>2 DEF PreflightStep
      <3> QED
        BY <3>1 DEF ValueInvariant
    <2> QED
      BY <2>1, <2>2
  <1>4. ASSUME Next, ~PreflightStep, ~CommitStep, ~TagStep PROVE pc' \notin {"commit", "tag"}
    BY <1>4
    DEF Next, Produce, AccessMut, Release, CopyFrom, SetLogical, InitializeStale, BeginCall,
        CommitDone, Return, call, FieldSet, OptionSet, OptionGetMut,
        PayloadCopyFrom, VariantMut, Clear, Mutate
  <1> QED
    BY <1>1, <1>2, <1>3, <1>4 DEF ValueInvariant

-----------------------------------------------------------------------------
(* The refinement *)

Pending == IF Running THEN patch ELSE Nothing

\* A capability shows a value of the schema, a call is something.
LEMMA SeenIsAValue ==
    ASSUME TypeOK, PassInvariant, ValueInvariant
    PROVE  /\ proved => Seen # Nothing
           /\ ~proved => Seen = Nothing
           /\ Running => patch # Nothing
  <1>1. \A m \in Bytes(Addr) : RecordValid(m) => CopyInto(m) # Nothing
    BY NothingAssumption DEF Values
  <1>2. patch # Nothing
    BY NothingAssumption DEF TypeOK
  <1>3. mem \in Bytes(Addr) /\ entry \in Bytes(Addr)
    BY DEF TypeOK
  <1>4. ASSUME proved, Running PROVE RecordValid(entry)
    BY <1>4 DEF Running, PassInvariant, PreflightInvariant, CallInvariant, ValueInvariant
  <1>5. ASSUME proved, ~Running PROVE RecordValid(mem)
    BY <1>5 DEF Running, TypeOK, PassInvariant, IdleInvariant, ReturnInvariant
  <1>6. proved => Seen # Nothing
    BY <1>1, <1>3, <1>4, <1>5 DEF Seen
  <1> QED
    BY <1>2, <1>6 DEF Seen

\* A field that commits to its updated value changes the record's value there
\* and nowhere else.
LEMMA OneFieldChanged ==
    ASSUME NEW f \in Field, NEW u \in Updates(f), NEW k \in Form, NEW m \in Bytes(Addr),
           FieldValue(f, CommitField(k, f, u, m)) = UpdatedField(f, FieldValue(f, m), u)
    PROVE  CopyInto(CommitField(k, f, u, m))
             = [CopyInto(m) EXCEPT ![f] = UpdatedField(f, CopyInto(m)[f], u)]
  <1>1. ASSUME NEW g \in Field, g # f
        PROVE  FieldValue(g, CommitField(k, f, u, m)) = FieldValue(g, m)
    BY <1>1, OthersKept, ValueLocal
  <1> QED
    BY <1>1 DEF CopyInto

\* An approved commit without a tag store, in a form other than init.
LEMMA ApprovedChange ==
    ASSUME NEW f \in Field, NEW u \in Updates(f), NEW k \in Form, NEW m \in Bytes(Addr),
           k # "init", Verdict(k, f, u, m) = "Ok", FieldValid(f, m), ~StoresTag(k, f, u, m)
    PROVE  CopyInto(CommitField(k, f, u, m))
             = [CopyInto(m) EXCEPT ![f] = UpdatedField(f, CopyInto(m)[f], u)]
  <1>1. FieldValue(f, CommitField(k, f, u, m)) = Target(k, f, FieldValue(f, m), u)
    BY CommitReaches
  <1>2. FieldValue(f, CommitField(k, f, u, m)) = UpdatedField(f, FieldValue(f, m), u)
    BY <1>1 DEF Target
  <1> QED
    BY <1>2, OneFieldChanged

\* The commit of a payload handle, which writes the current variant.
LEMMA PayloadChange ==
    ASSUME NEW f \in Field, NEW u \in Updates(f), NEW m \in Bytes(Addr),
           Kind[f] = "tagged", u.op = "set", u.to = CurrentTag(f, m), FieldValid(f, m),
           ChildPreflight("patch", f, u, m)
    PROVE  CopyInto(CommitField("patch", f, u, m))
             = [CopyInto(m) EXCEPT ![f] = UpdatedField(f, CopyInto(m)[f], u)]
  <1> DEFINE s == <<f, u.to>>
             old == Read(s, Slice(m, Wire[s]))
             new == CommitField("patch", f, u, m)
  <1>1. "patch" \in Form /\ ChildForm("patch", f, u, m) = "patch"
    BY DEF Form, ChildForm
  <1>2. ChildValid(s, m)
    BY DEF FieldValid
  <1>3. ReadSlot(s, new) = [tag |-> u.to, data |-> Patched(s, old, u.child)]
    BY <1>1, <1>2, CommittedSlot
  <1>4. FieldValue(f, new) = ReadSlot(s, new)
    BY <1>1, CommitKeepsTag DEF FieldValue
  <1>5. FieldValue(f, m).tag = u.to /\ FieldValue(f, m).data = old
    BY DEF FieldValue, ReadSlot
  <1>6. UpdatedField(f, FieldValue(f, m), u) = [tag |-> u.to, data |-> Patched(s, old, u.child)]
    BY <1>5 DEF UpdatedField, Continues
  <1>7. FieldValue(f, new) = UpdatedField(f, FieldValue(f, m), u)
    BY <1>3, <1>4, <1>6
  <1> QED
    BY <1>1, <1>7, OneFieldChanged

\* Every field-level mutator changes its field as its argument says, or nothing.
LEMMA MutatorIsChange ==
    ASSUME TypeOK, PassInvariant, NEW f \in Field, NEW u \in Updates(f),
           \/ FieldSet(f, u) \/ OptionSet(f, u) \/ OptionGetMut(f, u)
           \/ PayloadCopyFrom(f, u) \/ VariantMut(f, u)
    PROVE  \/ mem' = mem
           \/ CopyInto(mem') = [CopyInto(mem) EXCEPT ![f] = UpdatedField(f, CopyInto(mem)[f], u)]
  <1>1. mem \in Bytes(Addr) /\ FieldValid(f, mem)
    BY DEF TypeOK, PassInvariant, IdleInvariant, FieldSet, OptionSet, OptionGetMut,
           PayloadCopyFrom, VariantMut, Mutate, RecordValid
  <1>2. "patch" \in Form /\ "logical" \in Form /\ "init" \in Form
    BY DEF Form
  <1>3. CASE FieldSet(f, u) /\ ChildPreflight("patch", f, u, mem)
    <2>1. Verdict("patch", f, u, mem) = "Ok" /\ ~StoresTag("patch", f, u, mem)
      BY <1>3 DEF FieldSet, Verdict, PlainVerdict, StoresTag
    <2>2. mem' = CommitField("patch", f, u, mem)
      BY <1>1, <1>2, <1>3, CommitChildType DEF FieldSet, Mutate
    <2> QED
      BY <1>1, <1>2, <2>1, <2>2, ApprovedChange
  <1>4. CASE OptionSet(f, u) /\ u.op = "none"
    <2>1. Verdict("patch", f, u, mem) = "Ok" /\ ~StoresTag("patch", f, u, mem)
      BY <1>4 DEF OptionSet, Verdict, OptionVerdict, StoresTag
    <2>2. mem' = CommitField("patch", f, u, mem)
      BY <1>1, <1>2, <1>4, ClearStorageType DEF OptionSet, Mutate
    <2> QED
      BY <1>1, <1>2, <2>1, <2>2, ApprovedChange
  <1>5. CASE OptionSet(f, u) /\ u.op = "set" /\ ChildPreflight("init", f, u, mem)
    <2>1. /\ Kind[f] = "option" /\ u.to = NoTag /\ IsComplete(<<f, u.to>>, u.child)
          /\ mem' = CommitChild("init", f, u, mem)
      BY <1>5, UpdateShape DEF OptionSet, Mutate
    <2>2. ChildForm("init", f, u, mem) = "init" /\ ChildForm("logical", f, u, mem) = "init"
      BY <2>1 DEF ChildForm
    <2>3. Verdict("logical", f, u, mem) = "Ok" /\ ~StoresTag("logical", f, u, mem)
      BY <1>5, <2>1, <2>2
      DEF Verdict, OptionVerdict, ChildIncomplete, ChildPreflight, StoresTag
    <2>4. mem' = CommitField("logical", f, u, mem)
      BY <1>5, <2>1, <2>2 DEF CommitField, CommitChild
    <2> QED
      BY <1>1, <1>2, <2>3, <2>4, ApprovedChange
  <1>6. CASE OptionGetMut(f, u) /\ ChildPreflight("patch", f, u, mem)
    <2>1. ChildForm("patch", f, u, mem) = "patch"
      BY <1>6 DEF OptionGetMut, ChildForm
    <2>2. Verdict("patch", f, u, mem) = "Ok" /\ ~StoresTag("patch", f, u, mem)
      BY <1>6, <2>1 DEF OptionGetMut, Verdict, OptionVerdict, ChildIncomplete, StoresTag
    <2>3. mem' = CommitField("patch", f, u, mem)
      BY <1>1, <1>2, <1>6, CommitChildType DEF OptionGetMut, Mutate
    <2> QED
      BY <1>1, <1>2, <2>2, <2>3, ApprovedChange
  <1>7. ASSUME Kind[f] = "tagged", u.op = "set", u.to = CurrentTag(f, mem),
               ChildPreflight("patch", f, u, mem), mem' = CommitChild("patch", f, u, mem)
        PROVE  CopyInto(mem') = [CopyInto(mem) EXCEPT ![f] = UpdatedField(f, CopyInto(mem)[f], u)]
    <2>1. mem' = CommitField("patch", f, u, mem)
      BY <1>1, <1>2, <1>7, CommitChildType
    <2> QED
      BY <1>1, <1>7, <2>1, PayloadChange
  <1>8. CASE PayloadCopyFrom(f, u) \/ VariantMut(f, u)
    <2>1. CASE mem' = mem
      BY <2>1
    <2>2. CASE mem' # mem
      <3>1. /\ Kind[f] = "tagged" /\ u.op = "set" /\ u.to = CurrentTag(f, mem)
            /\ ChildPreflight("patch", f, u, mem) /\ mem' = CommitChild("patch", f, u, mem)
        BY <1>8, <2>2 DEF PayloadCopyFrom, VariantMut, Mutate
      <3> QED
        BY <1>7, <3>1
    <2> QED
      BY <2>1, <2>2
  <1>9. CASE FieldSet(f, u) /\ ~ChildPreflight("patch", f, u, mem)
    BY <1>9 DEF FieldSet, Mutate
  <1>10. CASE OptionSet(f, u) /\ u.op = "set" /\ ~ChildPreflight("init", f, u, mem)
    BY <1>10 DEF OptionSet, Mutate
  <1>11. CASE OptionGetMut(f, u) /\ ~ChildPreflight("patch", f, u, mem)
    BY <1>11 DEF OptionGetMut, Mutate
  <1>12. OptionSet(f, u) => u.op \in {"none", "set"}
    BY DEF OptionSet
  <1> QED
    BY <1>3, <1>4, <1>5, <1>6, <1>8, <1>9, <1>10, <1>11, <1>12

\* The last step of a call: every field has reached its goal.
LEMMA DoneIsAccept ==
    ASSUME TypeOK, PassInvariant, ValueInvariant, CommitDone
    PROVE  Logical!Accept
  <1>1. /\ pc = "commit" /\ i = N + 1 /\ mem' = mem /\ proved' = TRUE /\ pc' = "returned"
    BY DEF CommitDone
  <1>2. Running /\ ~Running'
    BY <1>1 DEF Running
  <1>3. \A f \in Field : FieldValue(f, mem) = Goal(f)
    <2>1. N \in Nat /\ \A f \in Field : f < N + 1
      BY ShapeAssumption DEF Field
    <2> QED
      BY <1>1, <2>1 DEF ValueInvariant
  <1>4. Pending = patch /\ patch # Nothing /\ Pending' = Nothing
    BY <1>2, SeenIsAValue DEF Pending
  <1>5. Seen' = CopyInto(mem)
    BY <1>1, <1>2 DEF Seen
  <1>6. CASE form = "init"
    <2>1. Seen = Nothing
      BY <1>1, <1>6, SeenIsAValue DEF PassInvariant, CallInvariant
    <2>2. \A f \in Field : FieldValue(f, mem) = FreshField(f, patch[f])
      BY <1>3, <1>6 DEF Goal, Target
    <2>3. CopyInto(mem) = [f \in Field |-> IF Seen = Nothing THEN FreshField(f, patch[f])
                                           ELSE UpdatedField(f, Seen[f], patch[f])]
      BY <2>1, <2>2 DEF CopyInto
    <2> QED
      BY <1>4, <1>5, <2>3 DEF Logical!Accept, Pending
  <1>7. CASE form # "init"
    <2>1. proved
      BY <1>1, <1>7 DEF PassInvariant, CallInvariant
    <2>2. Seen = CopyInto(entry) /\ Seen # Nothing
      BY <1>2, <2>1, SeenIsAValue DEF Seen
    <2>3. \A f \in Field : Seen[f] = FieldValue(f, entry)
      BY <2>2 DEF CopyInto
    <2>4. \A f \in Field : FieldValue(f, mem) = UpdatedField(f, Seen[f], patch[f])
      BY <1>3, <1>7, <2>3 DEF Goal, Target
    <2>5. CopyInto(mem) = [f \in Field |-> IF Seen = Nothing THEN FreshField(f, patch[f])
                                           ELSE UpdatedField(f, Seen[f], patch[f])]
      BY <2>2, <2>4 DEF CopyInto
    <2> QED
      BY <1>4, <1>5, <2>5 DEF Logical!Accept, Pending
  <1> QED
    BY <1>6, <1>7

\* The beginning of a call.
LEMMA BeginIsOffer ==
    ASSUME TypeOK, NEW k, NEW p \in Patches, pc = "idle", BeginCall(k, p)
    PROVE  Logical!Offer
  <1>1. ~Running /\ Running' /\ patch' = p /\ mem' = mem /\ proved' = proved /\ entry' = mem
    BY DEF BeginCall, Running
  <1>2. Pending = Nothing /\ Pending' = p /\ Seen' = Seen
    BY <1>1 DEF Pending, Seen
  <1> QED
    BY <1>2 DEF Logical!Offer, Pending

\* Every step of the handle is a step of the logical cell or leaves it alone.
LEMMA LogicalStep ==
    TypeOK /\ PassInvariant /\ ValueInvariant /\ [Next]_vars =>
        [Logical!Next]_<<Seen, Pending>>
  <1> SUFFICES ASSUME TypeOK, PassInvariant, ValueInvariant, [Next]_vars
               PROVE  Logical!Next \/ UNCHANGED <<Seen, Pending>>
    OBVIOUS
  <1>1. CASE Produce
    BY <1>1 DEF Produce, Seen, Pending, Running
  <1>2. CASE AccessMut
    <2>1. ~Running /\ ~Running' /\ mem' = mem /\ ~proved /\ proved' = RecordValid(mem)
      BY <1>2 DEF AccessMut, Running
    <2>2. Seen = Nothing /\ Pending = Nothing /\ Pending' = Nothing
      BY <2>1 DEF Seen, Pending
    <2>3. CASE RecordValid(mem)
      <3>1. Seen' = CopyInto(mem)
        BY <2>1, <2>3 DEF Seen
      <3>2. CopyInto(mem) \in Values
        BY <2>3 DEF Values, TypeOK
      <3> QED
        BY <2>2, <3>1, <3>2 DEF Logical!Next, Logical!Acquire, Pending
    <2>4. CASE ~RecordValid(mem)
      BY <2>1, <2>2, <2>4 DEF Seen
    <2> QED
      BY <2>3, <2>4
  <1>3. CASE Release
    <2>1. ~Running /\ ~Running' /\ proved /\ proved' = FALSE
      BY <1>3 DEF Release, Running
    <2>2. Seen # Nothing /\ Seen' = Nothing /\ Pending = Nothing /\ Pending' = Nothing
      BY <2>1, SeenIsAValue DEF Seen, Pending
    <2> QED
      BY <2>2 DEF Logical!Next, Logical!Release, Pending
  <1>4. CASE \E p \in Patches : CopyFrom(p) \/ SetLogical(p) \/ InitializeStale(p)
    <2>1. PICK p \in Patches : CopyFrom(p) \/ SetLogical(p) \/ InitializeStale(p)
      BY <1>4
    <2>2. CASE \E k \in Form : pc = "idle" /\ BeginCall(k, p)
      BY <2>2, BeginIsOffer DEF Logical!Next
    <2>3. CASE UNCHANGED <<mem, proved, pc, call>>
      BY <2>3 DEF call, Seen, Pending, Running
    <2> QED
      BY <2>1, <2>2, <2>3 DEF CopyFrom, SetLogical, InitializeStale, Form
  <1>5. CASE PreflightStep
    <2>1. /\ Running /\ mem' = mem /\ entry' = entry /\ proved' = proved /\ patch' = patch
          /\ mem = entry
      BY <1>5 DEF PreflightStep, Running, PassInvariant, PreflightInvariant
    <2>2. Seen' = Seen
      BY <2>1 DEF Seen
    <2>3. CASE Running'
      BY <2>1, <2>2, <2>3 DEF Pending
    <2>4. CASE ~Running'
      <3>1. Pending = patch /\ patch # Nothing /\ Pending' = Nothing
        BY <2>1, <2>4, SeenIsAValue DEF Pending
      <3> QED
        BY <2>2, <3>1 DEF Logical!Next, Logical!Reject, Pending
    <2> QED
      BY <2>3, <2>4
  <1>6. CASE CommitStep \/ TagStep
    BY <1>6 DEF CommitStep, TagStep, Seen, Pending, Running
  <1>7. CASE CommitDone
    BY <1>7, DoneIsAccept DEF Logical!Next
  <1>8. CASE Return
    BY <1>8 DEF Return, Seen, Pending, Running
  <1>9. ASSUME NEW f \in Field, NEW u \in Updates(f),
               \/ FieldSet(f, u) \/ OptionSet(f, u) \/ OptionGetMut(f, u)
               \/ PayloadCopyFrom(f, u) \/ VariantMut(f, u)
        PROVE  Logical!Next \/ UNCHANGED <<Seen, Pending>>
    <2>1. pc = "idle" /\ pc' = pc /\ proved /\ proved' = proved
      BY <1>9 DEF FieldSet, OptionSet, OptionGetMut, PayloadCopyFrom, VariantMut, Mutate
    <2>2. ~Running /\ ~Running'
      BY <2>1 DEF Running
    <2>3. /\ Seen = CopyInto(mem) /\ Seen' = CopyInto(mem') /\ Seen # Nothing
          /\ Pending = Nothing /\ Pending' = Nothing
      BY <2>1, <2>2, SeenIsAValue DEF Seen, Pending
    <2>4. CASE mem' = mem
      BY <2>3, <2>4
    <2>5. CASE CopyInto(mem') =
                 [CopyInto(mem) EXCEPT ![f] = UpdatedField(f, CopyInto(mem)[f], u)]
      <3>1. Logical!Change(f, u)
        BY <2>3, <2>5 DEF Logical!Change, Pending
      <3> QED
        BY <2>3, <3>1 DEF Logical!Next, Pending
    <2> QED
      BY <1>9, <2>4, <2>5, MutatorIsChange
  <1>10. CASE Clear
    <2>1. /\ ~Running /\ ~Running' /\ proved /\ proved' = proved /\ mem' = Zeroes(Addr)
      BY <1>10 DEF Clear, Mutate, Running
    <2>2. /\ Seen' = CopyInto(Zeroes(Addr)) /\ Seen # Nothing
          /\ Pending = Nothing /\ Pending' = Nothing
      BY <2>1, SeenIsAValue DEF Seen, Pending
    <2> QED
      BY <2>2 DEF Logical!Next, Logical!Clear, Pending
  <1>11. CASE UNCHANGED vars
    BY <1>11 DEF vars, Seen, Pending, Running
  <1> QED
    BY <1>1, <1>2, <1>3, <1>4, <1>5, <1>6, <1>7, <1>8, <1>9, <1>10, <1>11 DEF Next

\* A handle implements a cell holding one logical value: the bytes written by
\* any sequence of calls read back as the value those calls denote.
THEOREM Implementation == Spec => ImplementsLogicalRecord
  <1>1. Init => Logical!Init
    BY DEF Init, Logical!Init, Seen, Running
  <1>2. Init => ValueInvariant
    BY DEF Init, ValueInvariant
  <1>3. Spec => []ValueInvariant
    BY <1>2, ValueStep, Safety, PTL DEF Spec
  <1> QED
    BY <1>1, <1>3, LogicalStep, Safety, PTL
    DEF Spec, ImplementsLogicalRecord, Logical!Spec, Pending

-----------------------------------------------------------------------------
(* Transfer of a value from one record to another *)

\* A child's value, read from valid bytes, makes a patch that every child of
\* the slot accepts and that replaces whatever value it held.
LEMMA TransferSlot ==
    ASSUME NEW s \in Slot, NEW b \in Bytes(Wire[s]), Valid(s, b),
           NEW d \in Bytes(Wire[s]), NEW k \in Form, k # "init" => Valid(s, d)
    PROVE  LET c == PatchFrom(s, Read(s, b))
           IN  /\ IsComplete(s, c)
               /\ Preflight(k, s, d, c)
               /\ Initial(s, c) = Read(s, b)
               /\ k # "init" => Patched(s, Read(s, d), c) = Read(s, b)
  <1> DEFINE c == PatchFrom(s, Read(s, b))
  <1>1. /\ c \in ChildPatch[s] /\ IsComplete(s, c) /\ Initial(s, c) = Read(s, b)
        /\ Preflight(k, s, d, c)
    BY TransferAssumption
  <1>2. ASSUME k # "init" PROVE Patched(s, Read(s, d), c) = Initial(s, c)
    <2> HIDE DEF c
    <2> QED
      BY <1>1, <1>2, ReadAssumption
  <1> QED
    BY <1>1, <1>2

\* The update made from a field's value is accepted by every record and leads
\* to that value.
LEMMA TransferField ==
    ASSUME NEW f \in Field, NEW m \in Bytes(Addr), FieldValid(f, m),
           NEW k \in Form, NEW d \in Bytes(Addr), k # "init" => FieldValid(f, d)
    PROVE  LET u == UpdateFrom(f, FieldValue(f, m))
           IN  /\ Verdict(k, f, u, d) = "Ok"
               /\ Target(k, f, FieldValue(f, d), u) = FieldValue(f, m)
  <1> DEFINE v == FieldValue(f, m)
             u == UpdateFrom(f, v)
             w == FieldValue(f, d)
             s == <<f, v.tag>>
             b == Slice(m, Wire[s])
             e == Slice(d, Wire[s])
  <1>1. CASE Kind[f] = "option" /\ IsAllZero(m, Storage[f])
    <2>1. v = NoValue
      BY <1>1 DEF FieldValue
    <2>2. u.op = "none"
      BY <2>1 DEF UpdateFrom, Keep
    <2>3. Verdict(k, f, u, d) = "Ok"
      BY <1>1, <2>2 DEF Verdict, OptionVerdict
    <2>4. Target(k, f, w, u) = NoValue
      BY <2>2 DEF Target, UpdatedField, FreshField
    <2> QED
      BY <2>1, <2>3, <2>4
  <1>2. CASE ~(Kind[f] = "option" /\ IsAllZero(m, Storage[f]))
    <2>1. /\ v = ReadSlot(s, m) /\ ChildValid(s, m)
          /\ Kind[f] = "tagged" => v.tag \in Variant[f] /\ v.tag = CurrentTag(f, m)
          /\ Kind[f] # "tagged" => v.tag = NoTag
      <3>1. CASE Kind[f] = "plain"
        BY <3>1 DEF FieldValue, ReadSlot, FieldValid
      <3>2. CASE Kind[f] = "option"
        BY <1>2, <3>2 DEF FieldValue, ReadSlot, FieldValid
      <3>3. CASE Kind[f] = "tagged"
        BY <3>3 DEF FieldValue, ReadSlot, FieldValid
      <3> QED
        BY <3>1, <3>2, <3>3, ShapeAssumption
    <2>2. v.tag \in Tag \cup {NoTag}
      BY <2>1, ShapeAssumption
    <2>3. s \in Slot /\ Wire[s] \in SUBSET Addr
      BY <2>2, ShapeAssumption DEF Slot
    <2>4. b \in Bytes(Wire[s]) /\ e \in Bytes(Wire[s])
      BY <2>3, SliceType
    <2>5. v.data = Read(s, b) /\ Valid(s, b)
      <3>1. v.data = Read(s, b)
        BY <2>1 DEF ReadSlot
      <3> QED
        BY <2>1, <3>1 DEF ChildValid
    <2>6. v # NoValue
      BY <2>3, <2>4, <2>5, ReadAssumption DEF NoValue
    <2>7. /\ u.op = "set" /\ u.to = v.tag /\ u.child = PatchFrom(s, Read(s, b))
          /\ Kind[f] = "tagged" => u.tag = u.to
      BY <2>5, <2>6 DEF UpdateFrom
    <2>8. v = [tag |-> u.to, data |-> Read(s, b)]
      BY <2>1, <2>7 DEF ReadSlot
    <2>9. ASSUME NEW j \in Form, j # "init" => Valid(s, e)
          PROVE  /\ IsComplete(s, u.child) /\ Preflight(j, s, e, u.child)
                 /\ Initial(s, u.child) = Read(s, b)
                 /\ j # "init" => Patched(s, Read(s, e), u.child) = Read(s, b)
      BY <2>3, <2>4, <2>5, <2>7, <2>9, TransferSlot
    <2>10. "init" \in Form /\ ChildForm(k, f, u, d) \in Form
      BY ShapeAssumption DEF Form, ChildForm
    <2>11. ChildForm(k, f, u, d) # "init" => Valid(s, e)
      <3>1. CASE Kind[f] = "plain"
        BY <2>1, <3>1 DEF ChildForm, FieldValid, ChildValid
      <3>2. CASE Kind[f] = "option"
        BY <2>1, <3>2 DEF ChildForm, FieldValid, ChildValid
      <3>3. CASE Kind[f] = "tagged"
        BY <2>7, <3>3 DEF ChildForm, FieldValid, ChildValid
      <3> QED
        BY <3>1, <3>2, <3>3, ShapeAssumption
    <2>12. ChildPreflight(k, f, u, d) /\ ~ChildIncomplete(k, f, u, d)
      <3>1. s = <<f, u.to>> /\ e = Slice(d, Wire[<<f, u.to>>])
        BY <2>7
      <3>2. IsComplete(s, u.child) /\ Preflight(ChildForm(k, f, u, d), s, e, u.child)
        BY <2>9, <2>10, <2>11
      <3> HIDE DEF s, e, u
      <3> QED
        BY <3>1, <3>2 DEF ChildPreflight, ChildIncomplete
    <2>13. Verdict(k, f, u, d) = "Ok"
      <3>1. CASE Kind[f] = "plain"
        BY <2>12, <3>1 DEF Verdict, PlainVerdict
      <3>2. CASE Kind[f] = "option"
        BY <2>12, <3>2 DEF Verdict, OptionVerdict
      <3>3. CASE Kind[f] = "tagged"
        <4>1. k # "init" => CurrentTag(f, d) # NoTag
          BY <3>3, ShapeAssumption DEF FieldValid
        <4>2. u.op # "keep" /\ u.tag = u.to
          BY <2>7, <3>3
        <4> HIDE DEF u
        <4> QED
          BY <2>12, <3>3, <4>1, <4>2 DEF Verdict, TaggedVerdict
      <3> QED
        BY <3>1, <3>2, <3>3, ShapeAssumption
    <2>14. Initial(s, u.child) = Read(s, b)
      BY <2>9, <2>10
    <2>15. ASSUME k # "init", Continues(f, w, u) PROVE Patched(s, w.data, u.child) = Read(s, b)
      <3>1. w.data = Read(s, e) /\ Valid(s, e)
        <4>1. CASE Kind[f] = "plain"
          BY <2>1, <2>15, <4>1 DEF FieldValue, ReadSlot, FieldValid, ChildValid
        <4>2. CASE Kind[f] = "option"
          <5>1. ~IsAllZero(d, Storage[f])
            BY <2>15, <4>2, PresentIsAValue DEF Continues
          <5> QED
            BY <2>1, <2>15, <4>2, <5>1 DEF FieldValue, ReadSlot, FieldValid, ChildValid
        <4>3. CASE Kind[f] = "tagged"
          <5>1. w = ReadSlot(<<f, CurrentTag(f, d)>>, d) /\ w.tag = u.to
            BY <2>15, <4>3 DEF Continues, FieldValue
          <5>2. CurrentTag(f, d) = v.tag
            BY <2>7, <5>1 DEF ReadSlot
          <5>3. ChildValid(<<f, CurrentTag(f, d)>>, d)
            BY <2>15, <4>3 DEF FieldValid
          <5> HIDE DEF w, v
          <5> QED
            BY <5>1, <5>2, <5>3 DEF ReadSlot, ChildValid
        <4> QED
          BY <4>1, <4>2, <4>3, ShapeAssumption
      <3> QED
        BY <2>9, <2>15, <3>1
    <2>16. FreshField(f, u) = v
      <3>1. FreshField(f, u) = [tag |-> u.to, data |-> Initial(s, u.child)]
        BY <2>7 DEF FreshField
      <3> QED
        BY <2>8, <2>14, <3>1
    <2>17. k # "init" => UpdatedField(f, w, u) = v
      <3>1. UpdatedField(f, w, u) = [tag |-> u.to, data |-> IF Continues(f, w, u)
                                                            THEN Patched(s, w.data, u.child)
                                                            ELSE Initial(s, u.child)]
        BY <2>7 DEF UpdatedField
      <3> QED
        BY <2>8, <2>14, <2>15, <3>1
    <2> QED
      BY <2>13, <2>16, <2>17 DEF Target
  <1> QED
    BY <1>1, <1>2

\* The property holds step by step.
LEMMA TransferStep ==
    TypeOK /\ PassInvariant /\ ValueInvariant /\ TransferReadsBack /\ [Next]_vars =>
        TransferReadsBack'
  <1> SUFFICES ASSUME TypeOK, PassInvariant, ValueInvariant, TransferReadsBack, [Next]_vars,
                      NEW v \in Values, pc' = "returned", patch' = FromLogical(v)
               PROVE  result' = "Ok" /\ CopyInto(mem') = v
    BY DEF TransferReadsBack
  <1>1. PICK m \in Bytes(Addr) : RecordValid(m) /\ v = CopyInto(m)
    BY DEF Values
  <1>2. \A f \in Field : FieldValid(f, m) /\ v[f] = FieldValue(f, m)
    BY <1>1 DEF RecordValid, CopyInto
  <1>3. mem \in Bytes(Addr) /\ entry \in Bytes(Addr) /\ form \in Form /\ i \in 1 .. N + 1
    BY DEF TypeOK
  <1>4. CASE PreflightStep
    <2>1. patch' = patch /\ pc = "preflight"
      BY <1>4 DEF PreflightStep
    <2>2. i \in Field /\ Verdict(form, i, patch[i], mem) # "Ok"
      BY <1>4 DEF PreflightStep
    <2>3. form # "init" => FieldValid(i, mem)
      BY <2>1, <2>2 DEF PassInvariant, PreflightInvariant, RecordValid
    <2>4. patch[i] = UpdateFrom(i, FieldValue(i, m))
      BY <1>2, <2>1, <2>2 DEF FromLogical
    <2> QED
      BY <1>2, <1>3, <2>2, <2>3, <2>4, TransferField
  <1>5. CASE CommitDone
    <2>1. /\ patch' = patch /\ mem' = mem /\ result' = "Ok" /\ pc = "commit" /\ i = N + 1
      BY <1>5 DEF CommitDone, call
    <2>2. ASSUME NEW f \in Field PROVE FieldValue(f, mem) = FieldValue(f, m)
      <3>1. f < i
        BY <2>1, ShapeAssumption DEF Field
      <3>2. FieldValue(f, mem) = Target(form, f, FieldValue(f, entry), patch[f])
        BY <2>1, <3>1 DEF ValueInvariant, Goal
      <3>3. form # "init" => FieldValid(f, entry)
        BY <2>1 DEF ValueInvariant, RecordValid
      <3>4. patch[f] = UpdateFrom(f, FieldValue(f, m))
        BY <1>2, <2>1 DEF FromLogical
      <3> QED
        BY <1>2, <1>3, <3>2, <3>3, <3>4, TransferField
    <2> QED
      BY <1>1, <2>1, <2>2 DEF CopyInto
  <1>6. CASE UNCHANGED vars
    BY <1>6 DEF vars, TransferReadsBack
  <1>7. ASSUME Next, ~PreflightStep, ~CommitDone PROVE FALSE
    BY <1>7
    DEF Next, Produce, AccessMut, Release, CopyFrom, SetLogical, InitializeStale, BeginCall,
        CommitStep, TagStep, Return, call, FieldSet, OptionSet, OptionGetMut,
        PayloadCopyFrom, VariantMut, Clear, Mutate
  <1> QED
    BY <1>4, <1>5, <1>6, <1>7

\* A value read from any record of the schema is accepted by every other and
\* read back from it, whatever that one held.
THEOREM TransferSound == Spec => []TransferReadsBack
  <1>1. Init => ValueInvariant /\ TransferReadsBack
    BY DEF Init, ValueInvariant, TransferReadsBack
  <1> QED
    BY <1>1, ValueStep, TransferStep, Safety, PTL DEF Spec
=============================================================================
