------------------------------ MODULE ErrorPath ------------------------------
(***************************************************************************)
(* How a refused access or mutation names its cause.  The generated checks *)
(* walk the schema tree, the first fault unwinds through its parents, each *)
(* of which wraps or replaces the error of its child, and the formatter    *)
(* walks the chain of errors from the outermost inwards.                   *)
(*                                                                         *)
(* A node is one value of the tree: a leaf (string, bool, plain), an enum, *)
(* a record, an array, an option or a union (external payload).  An input  *)
(* says which nodes are faulty, and how, and what each option and union    *)
(* selects: bytes in an access, a patch in a preflight.                    *)
(***************************************************************************)
EXTENDS Integers, Sequences, FiniteSetsExt

CONSTANTS
    Node,       \* numbers, a parent's before its children's, in declaration order
    Root,       \* a record
    Shape,      \* string, bool, plain, enum, record, array, option or union
    Kids,       \* fields, elements, the value inside, or one payload per variant
    Name,       \* of a field, or of a payload's variant
    TagOf,      \* the tag field of each union
    MaxFaults   \* bound on the faulty nodes of an input

KidsOf(n) == {Kids[n][j] : j \in DOMAIN Kids[n]}

ParentOf(c) == CHOOSE n \in Node : c \in KidsOf(n)

\* What a schema is: a finite tree of numbered values.
ASSUME TreeAssumption ==
    /\ Node \subseteq Nat /\ \E last \in Node : \A n \in Node : n <= last
    /\ Kids \in [Node -> Seq(Node)]
    /\ \A n \in Node : KidsOf(n) # {} => Shape[n] \in {"record", "array", "option", "union"}
    /\ Root \in Node /\ Shape[Root] = "record"
    /\ \A c \in Node : (c # Root) <=> \E n \in Node : c \in KidsOf(n)
    /\ \A n, m \in Node : KidsOf(n) \cap KidsOf(m) # {} => n = m

\* A parent comes before its kids, a kid with all it holds before the next.
ASSUME OrderAssumption ==
    \A n \in Node :
        /\ \A j, k \in DOMAIN Kids[n] : j < k => Kids[n][j] < Kids[n][k]
        /\ \A c \in KidsOf(n) :
              n < c /\ \A m \in Node : n < m /\ m < c => n <= ParentOf(m)

\* A payload and its tag are fields of one record.
ASSUME TagAssumption ==
    \A u \in Node : Shape[u] = "union" =>
        \E r \in Node :
            /\ Shape[r] = "record" /\ {u, TagOf[u]} \subseteq KidsOf(r)
            /\ Shape[TagOf[u]] = "enum"

Of(shape) == {n \in Node : Shape[n] = shape}

Tags == {TagOf[u] : u \in Of("union")}

Leaf == {n \in Node : Kids[n] = <<>>}

VARIABLES
    pc,      \* idle, walk, wrap, format or done
    mode,    \* access or preflight
    fault,   \* the kind of error of each faulty node
    taken,   \* what an option (0 or 1) or a union (its variant) selects
    stack,   \* the nodes being checked, outermost first, each with the kids done
    failed,  \* the node whose error is being wrapped
    error,   \* its kind and its chain of segments, outermost first
    text     \* the path the formatter has written

vars == <<pc, mode, fault, taken, stack, failed, error, text>>

NoError == [kind |-> "none", chain |-> <<>>]
NoSegment == [is |-> "none", of |-> "none"]
Field(n) == [is |-> "Field", of |-> Name[n]]
Variant(n) == [is |-> "Variant", of |-> Name[n]]
Index(i) == [is |-> "Index", of |-> i]

\* The kinds of error a node itself can meet.
Faults(m, n) ==
    CASE m = "access" /\ Shape[n] = "bool" -> {"InvalidBool"}
      [] m = "access" /\ Shape[n] = "string" -> {"LengthOutOfBounds", "MissingNul"}
      [] m = "access" /\ Shape[n] = "enum" -> {"UnknownEnumValue"}
      [] m = "access" /\ Shape[n] = "union" -> {"UnknownUnionTag"}
      [] m = "preflight" /\ Shape[n] = "string" -> {"CapacityExceeded", "LengthUnrepresentable"}
      [] m = "preflight" /\ Shape[n] = "option" /\ Shape[Kids[n][1]] = "record" ->
            {"IncompleteOptionalInitialization"}
      [] m = "preflight" /\ Shape[n] = "union" -> {"TagOnlyPatch", "TagMismatch"}
      [] OTHER -> {}

Init ==
    /\ pc = "idle" /\ mode = "none"
    /\ fault = <<>> /\ taken = <<>> /\ stack = <<>> /\ failed = Root
    /\ error = NoError /\ text = <<>>

Begin(m, f, t) ==
    /\ pc = "idle"
    /\ pc' = "walk" /\ mode' = m /\ fault' = f /\ taken' = t
    /\ stack' = <<[node |-> Root, done |-> 0]>>
    /\ UNCHANGED <<failed, error, text>>

-----------------------------------------------------------------------------
(* The walk: record_proof and record_preflight with what they call *)

\* The kids a node's check comes to, in order.
Visits(n) ==
    CASE Shape[n] = "option" -> IF taken[n] = 1 THEN Kids[n] ELSE <<>>
      [] Shape[n] = "union" -> <<Kids[n][taken[n]]>>
      [] OTHER -> Kids[n]

Top == stack[Len(stack)]
Below == SubSeq(stack, 1, Len(stack) - 1)
Advanced(s) == [s EXCEPT ![Len(s)].done = @ + 1]

\* A scalar enum and an unclaimed tag are errors of the child, without a
\* segment; a leaf's error is its parent's.
OwnChain(n) ==
    IF mode = "access" /\ Shape[n] \in {"enum", "union"} THEN <<NoSegment>> ELSE <<>>

Fail(n) ==
    /\ pc' = "wrap" /\ failed' = n
    /\ error' = [kind |-> fault[n], chain |-> OwnChain(n)]
    /\ UNCHANGED <<mode, fault, taken, stack, text>>

\* A payload is proved by the tag its record holds, which is proved first.
Check(n) ==
    LET first == IF mode = "access" /\ Shape[n] = "union" /\ TagOf[n] \in DOMAIN fault
                 THEN TagOf[n] ELSE n
    IN IF first \in DOMAIN fault THEN Fail(first)
       ELSE /\ stack' = IF n \in Leaf THEN Advanced(stack)
                        ELSE Append(stack, [node |-> n, done |-> 0])
            /\ UNCHANGED <<pc, mode, fault, taken, failed, error, text>>

Kid == Visits(Top.node)[Top.done + 1]

\* A patch has no tag of its own.
Skipped(n) == mode = "preflight" /\ n \in Tags

WalkStep ==
    /\ pc = "walk" /\ stack # <<>>
    /\ Top.done < Len(Visits(Top.node))
    /\ ~Skipped(Kid)
    /\ Check(Kid)

SkipStep ==
    /\ pc = "walk" /\ stack # <<>>
    /\ Top.done < Len(Visits(Top.node))
    /\ Skipped(Kid)
    /\ stack' = Advanced(stack)
    /\ UNCHANGED <<pc, mode, fault, taken, failed, error, text>>

LeaveStep ==
    /\ pc = "walk" /\ stack # <<>>
    /\ Top.done = Len(Visits(Top.node))
    /\ stack' = IF Below = <<>> THEN <<>> ELSE Advanced(Below)
    /\ UNCHANGED <<pc, mode, fault, taken, failed, error, text>>

Succeed ==
    /\ pc = "walk" /\ stack = <<>>
    /\ pc' = "done"
    /\ UNCHANGED <<mode, fault, taken, stack, failed, error, text>>

-----------------------------------------------------------------------------
(* Unwinding *)

\* Mutant: elements are counted from one.
SegmentsCounted(n) ==
    CASE Shape[n] = "record" -> <<Field(failed)>>
      [] Shape[n] = "array" -> <<Index(Top.done + 1)>>
      [] Shape[n] = "union" -> <<Variant(failed)>>
      [] Shape[n] = "option" -> <<>>

\* What a node's error adds to the error of its failed kid.
Segments(n) ==
    CASE Shape[n] = "record" -> <<Field(failed)>>
      [] Shape[n] = "array" -> <<Index(Top.done)>>
      [] Shape[n] = "union" -> <<Variant(failed)>>
      [] Shape[n] = "option" -> <<>>

\* An access error wraps its child.
AccessError(n) == [error EXCEPT !.chain = Segments(n) \o @]

\* A mutation error keeps the error of a string or an array below it, and
\* replaces the one of a nested schema; the payload's preflight reports an
\* offset overflow that its record replaces once more.
MutationError(n) ==
    CASE Shape[n] = "union" -> [kind |-> "IncompleteUnionSwitch", chain |-> <<>>]
      [] Shape[n] # "union" /\ Shape[failed] = "record" ->
            [kind |-> "CapacityExceeded", chain |-> Segments(n)]
      [] OTHER -> AccessError(n)

WrapStep ==
    /\ pc = "wrap" /\ stack # <<>>
    /\ error' = IF mode = "access" THEN AccessError(Top.node) ELSE MutationError(Top.node)
    /\ failed' = Top.node
    /\ stack' = Below
    /\ UNCHANGED <<pc, mode, fault, taken, text>>

WrapDone ==
    /\ pc = "wrap" /\ stack = <<>>
    /\ pc' = "format"
    /\ UNCHANGED <<mode, fault, taken, stack, failed, error, text>>

-----------------------------------------------------------------------------
(* __fmt_schema_error and error_path_string *)

\* One turn of the loop: an error without a segment writes nothing.
FormatStep ==
    /\ pc = "format" /\ error.chain # <<>>
    /\ text' = IF Head(error.chain) = NoSegment THEN text ELSE Append(text, Head(error.chain))
    /\ error' = [error EXCEPT !.chain = Tail(@)]
    /\ UNCHANGED <<pc, mode, fault, taken, stack, failed>>

FormatDone ==
    /\ pc = "format" /\ error.chain = <<>>
    /\ pc' = "done"
    /\ UNCHANGED <<mode, fault, taken, stack, failed, error, text>>

Finish ==
    /\ pc = "done"
    /\ pc' = "idle" /\ mode' = "none"
    /\ fault' = <<>> /\ taken' = <<>> /\ stack' = <<>> /\ failed' = Root
    /\ error' = NoError /\ text' = <<>>

-----------------------------------------------------------------------------
(* Inputs *)

Selectable(n) == IF Shape[n] = "option" THEN 0 .. 1 ELSE DOMAIN Kids[n]

Takens ==
    LET chooser == Of("option") \cup Of("union")
    IN {t \in [chooser -> 0 .. Max({Len(Kids[n]) : n \in Node})] :
            \A n \in chooser : t[n] \in Selectable(n)}

FaultMaps(m) ==
    UNION {{f \in [bad -> UNION {Faults(m, n) : n \in bad}] :
                \A n \in bad : f[n] \in Faults(m, n)} :
           bad \in UNION {kSubset(k, {n \in Node : Faults(m, n) # {}}) : k \in 0 .. MaxFaults}}

\* Only a value is incomplete, and only a known tag is unclaimed.
Consistent(f, t) ==
    /\ \A n \in DOMAIN f : Shape[n] = "option" => t[n] = 1
    /\ \A n \in DOMAIN f : Shape[n] = "union" => TagOf[n] \notin DOMAIN f

Next ==
    \/ /\ pc = "idle"
       /\ \E m \in {"access", "preflight"} : \E f \in FaultMaps(m), t \in Takens :
             Consistent(f, t) /\ Begin(m, f, t)
    \/ WalkStep \/ SkipStep \/ LeaveStep \/ Succeed
    \/ WrapStep \/ WrapDone \/ FormatStep \/ FormatDone \/ Finish

Spec == Init /\ [][Next]_vars

-----------------------------------------------------------------------------
(* Properties *)

\* The kid its parent's check comes to.
Chosen(n) ==
    LET p == ParentOf(n)
    IN /\ Shape[p] = "option" => taken[p] = 1
       /\ Shape[p] = "union" => Kids[p][taken[p]] = n

\* A node is looked at when every option above it holds a value, every union
\* selects the variant above it and, in a patch, it is not a tag.
Reached(c) ==
    LET reached[n \in Node] == n = Root \/ (reached[ParentOf(n)] /\ Chosen(n))
    IN reached[c]

Live(c) == Reached(c) /\ ~Skipped(c)

\* The place a fault is met: declaration order, a tag no later than the
\* payload it selects.
Rank(c) == Min({c} \cup {u \in Of("union") : mode = "access" /\ TagOf[u] = c})

Culprits == {c \in DOMAIN fault : Live(c)}

Culprit == CHOOSE c \in Culprits : \A d \in Culprits : Rank(c) <= Rank(d)

\* How a parent names its kid.
Step(n) ==
    LET p == ParentOf(n)
    IN CASE Shape[p] = "record" -> <<Field(n)>>
         [] Shape[p] = "array" -> <<Index(Cardinality({k \in KidsOf(p) : k < n}))>>
         [] Shape[p] = "union" -> <<Variant(n)>>
         [] Shape[p] = "option" -> <<>>

PathTo(c) ==
    LET path[n \in Node] == IF n = Root THEN <<>> ELSE path[ParentOf(n)] \o Step(n)
    IN path[c]

IsPrefixOf(s, t) == Len(s) <= Len(t) /\ s = SubSeq(t, 1, Len(s))

\* An operation fails exactly when something it looks at is faulty, and the
\* formatted error leads to the first such place: all the way, with its kind,
\* in an access; at least to the field, and to the element of an array, in a
\* mutation.
ErrorNamesCulprit ==
    pc = "done" =>
        /\ error.kind = "none" <=> Culprits = {}
        /\ error.kind # "none" =>
              /\ mode = "access" => text = PathTo(Culprit) /\ error.kind = fault[Culprit]
              /\ mode = "preflight" =>
                    /\ text # <<>>
                    /\ IsPrefixOf(text, PathTo(Culprit))
                    /\ Len(PathTo(Culprit)) >= 2 /\ PathTo(Culprit)[2].is = "Index"
                          => Len(text) >= 2

\* Parents wrap the errors of their children rather than erasing them.
ChildErrorsAreKept ==
    pc = "done" /\ error.kind # "none" => error.kind = fault[Culprit]
=============================================================================
