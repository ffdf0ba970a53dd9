---------------------------- MODULE CheckedInput ----------------------------
(***************************************************************************)
(* Byte spans: the caller's slice, the root inputs that exact and prefix   *)
(* access cut from it, and the field inputs selected below one root.  A    *)
(* slice that holds a stream of records is consumed record by record, each *)
(* access taking the remainder of the one before; the handles made on the  *)
(* way are live together.  Addresses and lengths are machine words.        *)
(*                                                                         *)
(* The logical proof that follows a successful cut either holds or not     *)
(* (RecordHandle says when): if it fails, the caller keeps its slice, as   *)
(* it does after a layout error.                                           *)
(***************************************************************************)
EXTENDS Integers, Sequences

CONSTANTS
    Word,       \* usize::MAX + 1
    Byte,
    Wire,       \* wire types
    Size,       \* mem::size_of, mem::align_of
    Align,
    Slices,     \* slices a caller may pass: addr, len
    MaxDepth    \* nesting of field inputs (bound)

\* A Rust slice does not wrap around the address space.
ASSUME SpanAssumption ==
    /\ Word \in Nat \ {0} /\ MaxDepth \in Nat /\ 0 \in Byte
    /\ Size \in [Wire -> 0 .. Word - 1] /\ Align \in [Wire -> 1 .. Word]
    /\ Slices \subseteq [addr : 0 .. Word - 1, len : 0 .. Word - 1]
    /\ \A s \in Slices : s.addr + s.len < Word

Usize == 0 .. Word - 1
Result ==
    {"Ok", "IncorrectSize", "Misaligned", "InsufficientBytes", "OffsetOverflow", "Invalid",
     "unreachable"}

-----------------------------------------------------------------------------
(* Checks *)

\* Mutant: the end of the range wraps.
CheckedRangeWraps(available, offset, length) ==
    IF (offset + length) % Word > available THEN "InsufficientBytes" ELSE "Ok"

CheckedRange(available, offset, length) ==
    IF offset + length >= Word THEN "OffsetOverflow"
    ELSE IF offset + length > available THEN "InsufficientBytes"
    ELSE "Ok"

\* Mutant: alignment is trusted.
FromCheckedSizeOnly(w, addr, len) == IF len # Size[w] THEN "IncorrectSize" ELSE "Ok"

\* from_checked of SharedInput and ExclusiveInput.
FromChecked(w, addr, len) ==
    IF len # Size[w] THEN "IncorrectSize"
    ELSE IF addr % Align[w] # 0 THEN "Misaligned"
    ELSE "Ok"

\* subrange, subrange_mut: the range, then the exact input over it.
Select(w, input, offset) ==
    IF CheckedRange(input.len, offset, Size[w]) # "Ok"
    THEN CheckedRange(input.len, offset, Size[w])
    ELSE FromChecked(w, input.addr + offset, Size[w])

-----------------------------------------------------------------------------
VARIABLES
    slice,   \* what the caller passed first
    rest,    \* the bytes after the last root
    roots,   \* root inputs, in the order they were cut
    path,    \* a root and the field inputs selected below it
    mem,     \* address -> byte, over slice
    result   \* of the last call

vars == <<slice, rest, roots, path, mem, result>>

Span(s) == s.addr .. s.addr + s.len - 1
Top == path[Len(path)]
Input(w, addr) == [wire |-> w, addr |-> addr, len |-> Size[w]]

Init ==
    /\ slice \in Slices
    /\ rest = slice
    /\ roots = <<>> /\ path = <<>>
    /\ mem \in [Span(slice) -> {0}]
    /\ result = "Ok"

\* access, access_mut: the whole slice, then the proof.
FromExact(w, proves) ==
    /\ path = <<>>
    /\ result' = LET checked == FromChecked(w, rest.addr, rest.len)
                 IN IF checked = "Ok" /\ ~proves THEN "Invalid" ELSE checked
    /\ IF result' = "Ok"
         THEN /\ roots' = Append(roots, Input(w, rest.addr))
              /\ rest' = [addr |-> rest.addr + rest.len, len |-> 0]
         ELSE UNCHANGED <<roots, rest>>
    /\ UNCHANGED <<slice, path, mem>>

\* split_at_checked, from_checked, the proof: the length is tested before
\* the alignment.
Prefix(w, proves) ==
    IF rest.len < Size[w] THEN "InsufficientBytes"
    ELSE LET checked == FromChecked(w, rest.addr, Size[w])
         IN IF checked = "Ok" /\ ~proves THEN "Invalid" ELSE checked

\* Mutant: the remainder still holds the proved bytes.
FromPrefixWhole(w, proves) ==
    /\ path = <<>>
    /\ result' = Prefix(w, proves)
    /\ roots' = IF result' = "Ok" THEN Append(roots, Input(w, rest.addr)) ELSE roots
    /\ UNCHANGED <<slice, rest, path, mem>>

\* access_prefix, access_mut_prefix.
FromPrefix(w, proves) ==
    /\ path = <<>>
    /\ result' = Prefix(w, proves)
    /\ IF result' = "Ok"
         THEN /\ roots' = Append(roots, Input(w, rest.addr))
              /\ rest' = [addr |-> rest.addr + Size[w], len |-> rest.len - Size[w]]
         ELSE UNCHANGED <<roots, rest>>
    /\ UNCHANGED <<slice, path, mem>>

\* A handle on one of the records is used: reborrow re-forms its input.
Reborrow(i) ==
    /\ path = <<>>
    /\ LET r == roots[i]
       IN /\ path' = <<r>>
          /\ result' = IF FromChecked(r.wire, r.addr, r.len) = "Ok" THEN "Ok" ELSE "unreachable"
    /\ UNCHANGED <<slice, rest, roots, mem>>

\* The input over a selected range becomes the innermost one.
Descend(w, offset, outcome) ==
    /\ result' = outcome
    /\ path' = IF outcome = "Ok" THEN Append(path, Input(w, Top.addr + offset)) ELSE path
    /\ UNCHANGED <<slice, rest, roots, mem>>

\* subrange of an exclusive input: shared() re-forms it first.
Subrange(w, offset) ==
    /\ path # <<>> /\ Len(path) < MaxDepth
    /\ Descend(w, offset,
               IF FromChecked(Top.wire, Top.addr, Top.len) # "Ok" THEN "unreachable"
               ELSE Select(w, Top, offset))

SubrangeMut(w, offset) ==
    /\ path # <<>> /\ Len(path) < MaxDepth
    /\ Descend(w, offset, Select(w, Top, offset))

\* checked_element_offset, then subrange_mut.
ElementInputMut(w, index) ==
    /\ path # <<>> /\ Len(path) < MaxDepth
    /\ Descend(w, index * Size[w],
               IF index * Size[w] >= Word THEN "OffsetOverflow"
               ELSE Select(w, Top, index * Size[w]))

\* subrange_bytes_mut (and copy_bytes_at): length bytes are overwritten.
SubrangeBytesMut(offset, length, b) ==
    /\ path # <<>>
    /\ result' = CheckedRange(Top.len, offset, length)
    /\ mem' = [a \in DOMAIN mem |->
                  IF result' = "Ok" /\ a \in Top.addr + offset .. Top.addr + offset + length - 1
                  THEN b ELSE mem[a]]
    /\ UNCHANGED <<slice, rest, roots, path>>

ClearAll ==
    /\ path # <<>>
    /\ mem' = [a \in DOMAIN mem |-> IF a \in Span(Top) THEN 0 ELSE mem[a]]
    /\ result' = "Ok"
    /\ UNCHANGED <<slice, rest, roots, path>>

\* The borrow of the innermost input ends.
Release ==
    /\ path # <<>>
    /\ path' = SubSeq(path, 1, Len(path) - 1)
    /\ result' = "Ok"
    /\ UNCHANGED <<slice, rest, roots, mem>>

Next ==
    \/ \E w \in Wire, proves \in BOOLEAN : FromExact(w, proves) \/ FromPrefix(w, proves)
    \/ \E i \in 1 .. Len(roots) : Reborrow(i)
    \/ \E w \in Wire, n \in Usize : Subrange(w, n) \/ SubrangeMut(w, n) \/ ElementInputMut(w, n)
    \/ \E offset, length \in Usize, b \in Byte : SubrangeBytesMut(offset, length, b)
    \/ ClearAll \/ Release

Spec == Init /\ [][Next]_vars

-----------------------------------------------------------------------------
(* Properties *)

Inputs == [wire : Wire, addr : Usize, len : Usize]

\* Addresses and lengths stay machine words.
TypeOK ==
    /\ slice \in Slices
    /\ rest \in [addr : Usize, len : Usize]
    /\ roots \in Seq(Inputs) /\ path \in Seq(Inputs)
    /\ mem \in [Span(slice) -> Byte]
    /\ result \in Result

\* Every live input has the size and the alignment of its type, so re-forming
\* one never meets the unreachable! arms of shared_exact and exclusive_exact.
InputsStayChecked ==
    /\ \A i \in DOMAIN roots : FromChecked(roots[i].wire, roots[i].addr, roots[i].len) = "Ok"
    /\ \A k \in DOMAIN path : path[k].addr % Align[path[k].wire] = 0 /\ path[k].len = Size[path[k].wire]
    /\ result # "unreachable"

\* A field input never leaves the input it was selected from, however deep,
\* nor the root it belongs to.
PathNested ==
    path # <<>> =>
        /\ \E i \in DOMAIN roots : path[1] = roots[i]
        /\ \A k \in 1 .. Len(path) - 1 :
              /\ path[k].addr <= path[k + 1].addr
              /\ path[k + 1].addr + path[k + 1].len <= path[k].addr + path[k].len

\* The records cut from a slice follow each other without a gap or an overlap,
\* and the remainder is exactly what they leave.
StreamPartitioned ==
    /\ \A i \in DOMAIN roots :
          roots[i].addr = IF i = 1 THEN slice.addr ELSE roots[i - 1].addr + roots[i - 1].len
    /\ rest.addr = IF roots = <<>> THEN slice.addr
                   ELSE roots[Len(roots)].addr + roots[Len(roots)].len
    /\ rest.addr + rest.len = slice.addr + slice.len

\* A write through one record, at any depth, changes no byte of another
\* record of the stream and none of the remainder.
WritesStayInOneRecord ==
    [][\A a \in Span(slice) : mem'[a] # mem[a] =>
          /\ a \in Span(path[1])
          /\ a \notin Span(rest)
          /\ \A i \in DOMAIN roots : roots[i] # path[1] => a \notin Span(roots[i])]_vars
=============================================================================
