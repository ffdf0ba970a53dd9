----------------------------- MODULE ArrayField -----------------------------
(***************************************************************************)
(* A fixed, possibly nested array field: ArrayMut handles on the array and *)
(* its rows, the element-by-element proof, the two-pass set and copy_from  *)
(* through NestedArrayAdapter, the same passes over stale bytes, and the   *)
(* index path an error reports.  An index path lists one index per level,  *)
(* outermost first; the code carries a flat position instead and turns it  *)
(* back into a path when an element fails.                                 *)
(*                                                                         *)
(* The leaf element (scalar, string, record) is known by its adapter's     *)
(* prove, preflight and commit.                                            *)
(***************************************************************************)
EXTENDS Integers, Sequences

CONSTANTS
    Shape,                \* dimension lists, outermost first
    LeafSize,             \* size_of the leaf wire
    Byte,
    MaxIndex,             \* usize::MAX
    Value,                \* values of one leaf
    Valid(_),             \* leaf bytes
    Preflight(_, _, _),   \* form ("logical", "init"), leaf bytes, value
    Commit(_, _, _)

\* Zero-length dimensions are rejected by the macro, and a leaf has a size.
ASSUME ShapeAssumption ==
    /\ LeafSize \in Nat \ {0} /\ MaxIndex \in Nat
    /\ Shape \subseteq Seq(Nat \ {0})
    /\ \A d \in Shape : Len(d) > 0

\* What the element loops rely on in a leaf adapter.
ASSUME LeafAssumption ==
    \A b \in [0 .. LeafSize - 1 -> Byte], v \in Value, f \in {"logical", "init"} :
        /\ Commit(f, b, v) \in [0 .. LeafSize - 1 -> Byte]
        /\ Preflight(f, b, v) /\ (f # "init" => Valid(b)) => Valid(Commit(f, b, v))

-----------------------------------------------------------------------------
(* Paths and places *)

Paths(d) ==
    {p \in [DOMAIN d -> UNION {0 .. d[k] - 1 : k \in DOMAIN d}] :
        \A k \in DOMAIN d : p[k] < d[k]}

Block(d, prefix) == {p \in Paths(d) : \A k \in DOMAIN prefix : p[k] = prefix[k]}

Before(p, q) ==
    \E k \in DOMAIN p : p[k] < q[k] /\ \A j \in 1 .. k - 1 : p[j] = q[j]

\* The leaf that increasing loops visit first.
First(S) == CHOOSE p \in S : \A q \in S \ {p} : Before(p, q)

\* STRIDE of each level: the complete wire size of what an index selects.
Stride(d) ==
    LET s[k \in DOMAIN d] == IF k = Len(d) THEN LeafSize ELSE d[k + 1] * s[k + 1]
    IN s

Size(d) == d[1] * Stride(d)[1]

\* Rust's limit on the size of a type, which is below usize::MAX, bounds the
\* number of leaves: every leaf has a flat position.
ASSUME SizeAssumption == \A d \in Shape : Size(d) <= LeafSize * (MaxIndex + 1)

\* checked_element_offset, level by level.
Offset(d, p) ==
    LET o[k \in 0 .. Len(d)] == IF k = 0 THEN 0 ELSE o[k - 1] + p[k] * Stride(d)[k]
    IN o[Len(d)]

Leaf(d, m, p) == [j \in 0 .. LeafSize - 1 |-> m[Offset(d, p) + j]]

StoreLeaf(d, m, p, b) ==
    [a \in DOMAIN m |->
        IF a - Offset(d, p) \in 0 .. LeafSize - 1 THEN b[a - Offset(d, p)] ELSE m[a]]

-----------------------------------------------------------------------------
(* Flat positions *)

SatAdd(a, b) == IF a + b > MaxIndex THEN MaxIndex ELSE a + b
SatMul(a, b) == IF a * b > MaxIndex THEN MaxIndex ELSE a * b

\* Mutant: the row's own level is multiplied in, not the level below.
RowBaseOuter(d, b, n, i) == SatMul(SatAdd(b, i), d[n + 1])

\* make_mut of a row: the flat position of its first element, for row i of a
\* handle of base b below n indices.
RowBase(d, b, n, i) == SatMul(SatAdd(b, i), d[n + 2])

\* The position a leaf adapter is given: ArrayMut::flat, then
\* NestedArrayAdapter::position once per level below.
Position(d, b, n, p) ==
    LET pos[k \in n + 1 .. Len(d)] ==
            IF k = n + 1 THEN SatAdd(b, p[k]) ELSE SatAdd(SatMul(pos[k - 1], d[k]), p[k])
    IN pos[Len(d)]

\* Mutant: the quotient is taken by the dimension of the level above.
IndexPathShifted(d, flat) ==
    LET rest[k \in DOMAIN d] == IF k = Len(d) THEN flat ELSE rest[k + 1] \div d[k]
    IN [k \in DOMAIN d |-> IF k = 1 THEN rest[k] ELSE rest[k] % d[k]]

\* index_path_error, index_path_array.
IndexPath(d, flat) ==
    LET rest[k \in DOMAIN d] == IF k = Len(d) THEN flat ELSE rest[k + 1] \div d[k + 1]
    IN [k \in DOMAIN d |-> IF k = 1 THEN rest[k] ELSE rest[k] % d[k]]

-----------------------------------------------------------------------------
VARIABLES
    dims,      \* the field's shape
    mem,       \* its bytes
    open,      \* an ArrayMut is outstanding
    row,       \* indices get_mut has descended by
    base,      \* ArrayMut::base of the handle in use
    pc,        \* idle, preflight, commit, returned
    form,      \* form of the running call
    source,    \* index path -> offered value
    pending,   \* leaves the running pass has not visited
    entry,     \* bytes when the call began
    result     \* kind of the last result, index path it reports

handle == <<open, row, base>>
vars == <<dims, mem, open, row, base, pc, form, source, pending, entry, result>>

Ok == [kind |-> "Ok", at |-> <<>>]
Error(kind, at) == [kind |-> kind, at |-> at]

\* An element's failure, at the path its flat position stands for.
ElementError(kind, p) == Error(kind, IndexPath(dims, Position(dims, base, Len(row), p)))

Init ==
    /\ dims \in Shape
    /\ mem \in [0 .. Size(dims) - 1 -> Byte]
    /\ open = FALSE /\ row = <<>> /\ base = 0
    /\ pc = "idle" /\ form = "logical"
    /\ source = <<>> /\ pending = {} /\ entry = mem
    /\ result = Ok

InvalidLeaves(d, m) == {p \in Paths(d) : ~Valid(Leaf(d, m, p))}

\* ArrayMut::prove: every element in increasing order.
Prove ==
    /\ pc = "idle" /\ ~open
    /\ open' = (InvalidLeaves(dims, mem) = {})
    /\ result' = IF InvalidLeaves(dims, mem) = {} THEN Ok
                 ELSE ElementError("Access", First(InvalidLeaves(dims, mem)))
    /\ UNCHANGED <<dims, mem, row, base, pc, form, source, pending, entry>>

\* get_mut of a row; the row's elements are proved again.
GetMut(i) ==
    /\ pc = "idle" /\ open /\ Len(row) + 1 < Len(dims)
    /\ row' = Append(row, i)
    /\ base' = RowBase(dims, base, Len(row), i)
    /\ result' = Ok
    /\ UNCHANGED <<dims, mem, open, pc, form, source, pending, entry>>

\* The borrows of the row handles end, or all of them.
Drop ==
    /\ pc = "idle" /\ open
    /\ row' = <<>> /\ base' = 0
    /\ open' \in BOOLEAN
    /\ result' = Ok
    /\ UNCHANGED <<dims, mem, pc, form, source, pending, entry>>

\* Mutant: the call begins with the commit pass.
BeginCallUnchecked(f, src) ==
    /\ pc' = "commit"
    /\ form' = f
    /\ source' = src
    /\ pending' = DOMAIN src
    /\ entry' = mem
    /\ result' = Ok
    /\ UNCHANGED <<dims, mem, handle>>

BeginCall(f, src) ==
    /\ pc' = "preflight"
    /\ form' = f
    /\ source' = src
    /\ pending' = DOMAIN src
    /\ entry' = mem
    /\ result' = Ok
    /\ UNCHANGED <<dims, mem, handle>>

Refuse(error) ==
    /\ result' = error
    /\ UNCHANGED <<dims, mem, handle, pc, form, source, pending, entry>>

\* ArrayMut::set of element i, a whole row unless the handle is innermost.
SetAt(i) ==
    /\ pc = "idle" /\ open
    /\ IF i >= dims[Len(row) + 1]
         THEN Refuse(Error("ArrayIndexOutOfBounds", <<i>>))
         ELSE \E src \in [Block(dims, Append(row, i)) -> Value] : BeginCall("logical", src)

\* ArrayMut::copy_from with a slice of n elements.
CopyFrom(n) ==
    /\ pc = "idle" /\ open
    /\ IF n # dims[Len(row) + 1]
         THEN Refuse(Error("ArrayLengthMismatch", <<>>))
         ELSE \E src \in [Block(dims, row) -> Value] : BeginCall("logical", src)

\* A parent initializes the array over stale bytes.
Initialize ==
    /\ pc = "idle" /\ ~open
    /\ \E src \in [Paths(dims) -> Value] : BeginCall("init", src)

\* Mutant: approved elements are committed at once.
PreflightStepEager ==
    /\ pc = "preflight"
    /\ UNCHANGED <<dims, handle, form, source, entry>>
    /\ IF pending = {}
         THEN pc' = "commit" /\ pending' = DOMAIN source /\ UNCHANGED <<mem, result>>
         ELSE LET p == First(pending)
                  b == Leaf(dims, mem, p)
              IN IF Preflight(form, b, source[p])
                   THEN /\ pending' = pending \ {p}
                        /\ mem' = StoreLeaf(dims, mem, p, Commit(form, b, source[p]))
                        /\ UNCHANGED <<pc, result>>
                   ELSE /\ pc' = "returned"
                        /\ result' = ElementError("CapacityExceeded", p)
                        /\ UNCHANGED <<mem, pending>>

PreflightStep ==
    /\ pc = "preflight"
    /\ UNCHANGED <<dims, mem, handle, form, source, entry>>
    /\ IF pending = {}
         THEN pc' = "commit" /\ pending' = DOMAIN source /\ UNCHANGED result
         ELSE LET p == First(pending)
              IN IF Preflight(form, Leaf(dims, mem, p), source[p])
                   THEN pending' = pending \ {p} /\ UNCHANGED <<pc, result>>
                   ELSE /\ pc' = "returned"
                        /\ result' = ElementError("CapacityExceeded", p)
                        /\ UNCHANGED pending

CommitStep ==
    /\ pc = "commit"
    /\ UNCHANGED <<dims, row, base, form, source, entry, result>>
    /\ IF pending = {}
         THEN pc' = "returned" /\ open' = TRUE /\ UNCHANGED <<mem, pending>>
         ELSE LET p == First(pending)
              IN /\ mem' = StoreLeaf(dims, mem, p,
                                     Commit(form, Leaf(dims, mem, p), source[p]))
                 /\ pending' = pending \ {p}
                 /\ UNCHANGED <<open, pc>>

Return ==
    /\ pc = "returned"
    /\ pc' = "idle" /\ form' = "logical"
    /\ source' = <<>> /\ pending' = {} /\ entry' = mem
    /\ UNCHANGED <<dims, mem, handle, result>>

\* get_mut of a leaf, then the leaf handle's own set: its failures name the
\* field only.
ElementSet(i, v) ==
    /\ pc = "idle" /\ open /\ Len(row) + 1 = Len(dims)
    /\ LET p == Append(row, i)
           b == Leaf(dims, mem, p)
       IN IF Preflight("logical", b, v)
            THEN /\ mem' = StoreLeaf(dims, mem, p, Commit("logical", b, v))
                 /\ entry' = mem'
                 /\ result' = Ok
                 /\ UNCHANGED <<dims, handle, pc, form, source, pending>>
            ELSE Refuse(Error("CapacityExceeded", <<>>))

Next ==
    \/ Prove \/ Drop \/ Initialize \/ PreflightStep \/ CommitStep \/ Return
    \/ \E i \in 0 .. dims[Len(row) + 1] - 1 :
          GetMut(i) \/ \E v \in Value : ElementSet(i, v)
    \/ \E i \in 0 .. dims[Len(row) + 1] : SetAt(i)
    \/ \E n \in {dims[Len(row) + 1], dims[Len(row) + 1] + 1} : CopyFrom(n)

Spec == Init /\ [][Next]_vars

-----------------------------------------------------------------------------
(* Properties *)

\* The bytes keep their extent, and a pass only ever visits leaves that a
\* value was offered for.
TypeOK ==
    /\ dims \in Shape
    /\ mem \in [0 .. Size(dims) - 1 -> Byte]
    /\ open \in BOOLEAN
    /\ row \in Seq(Nat) /\ Len(row) < Len(dims)
    /\ base \in 0 .. MaxIndex
    /\ pc \in {"idle", "preflight", "commit", "returned"}
    /\ form \in {"logical", "init"}
    /\ DOMAIN source \subseteq Paths(dims) /\ pending \subseteq DOMAIN source
    /\ \A p \in DOMAIN source : source[p] \in Value
    /\ entry \in [0 .. Size(dims) - 1 -> Byte]

\* Every element under a handle is valid, after any sequence of writes to the
\* array, its rows and its elements: the unreachable! arms of get, get_mut
\* and the iterators stay dead.
ElementsStayValid == pc = "idle" /\ open => InvalidLeaves(dims, mem) = {}

\* A rejected array, row or element write reports the complete index path of
\* the first value that is rejected, from whichever handle it was made, and
\* has written nothing.
RejectionNamesFirstElement ==
    pc = "returned" /\ result # Ok =>
        /\ mem = entry
        /\ result.at \in DOMAIN source
        /\ ~Preflight(form, Leaf(dims, mem, result.at), source[result.at])
        /\ \A q \in DOMAIN source :
              Before(q, result.at) => Preflight(form, Leaf(dims, mem, q), source[q])

\* A failed proof reports the path of the first invalid element.
AccessNamesFirstElement ==
    result.kind = "Access" =>
        /\ result.at \in InvalidLeaves(dims, mem)
        /\ \A q \in InvalidLeaves(dims, mem) : ~Before(q, result.at)

\* The table of elements the bytes stand for; while a commit runs, what it
\* has not written yet counts as written.
Elements ==
    [p \in Paths(dims) |->
        IF pc = "commit" /\ p \in pending
        THEN Commit(form, Leaf(dims, mem, p), source[p])
        ELSE Leaf(dims, mem, p)]

Table == INSTANCE ElementTable
    WITH elems <- Elements, asked <- (pc = "preflight"), request <- source

\* The array implements the table: a call replaces exactly the elements it
\* names, each with its own value, or none of them.
ImplementsElementTable == Table!Spec
=============================================================================
