------------------------------ MODULE Redaction ------------------------------
(***************************************************************************)
(* redactValue() of src/logger.ts and of src/audit.ts: what a log or an    *)
(* audit record shows of the metadata it is given.  Metadata is a graph:   *)
(* objects are nodes of a heap that may share or contain each other, and   *)
(* one set of the objects visited goes through the whole traversal.        *)
(*                                                                         *)
(* A node is the sequence of its entries, a key with a leaf or with a      *)
(* node; the keys of an array's entries are not Covered.  The call stack   *)
(* has a frame for each object that is being gone through.                 *)
(***************************************************************************)
EXTENDS Naturals, Sequences, FiniteSets

CONSTANTS Nodes, Root,  \* the objects, and the one that is logged
          Leaves,       \* values that are no objects
          Keys,
          Covered,      \* keys whose values are redacted, hashed or masked
          Heaps,        \* what the objects may be
          DepthLimit    \* 6 in the code

Leaf(x) == [kind |-> "leaf", leaf |-> x]
Node(n) == [kind |-> "node", node |-> n]
Entries == [key : Keys, value : {Leaf(x) : x \in Leaves} \cup {Node(n) : n \in Nodes}]

ASSUME RedactionAssumption ==
  /\ Root \in Nodes
  /\ Heaps \subseteq [Nodes -> Seq(Entries)]
  /\ DepthLimit \in Nat

VARIABLES heap,
          stack,  \* activations of redactValue(): the object, its next entry
          level,  \* the objects visited, with the depth at which they were
          shown   \* the leaves that show

vars == <<heap, stack, level, shown>>

Frame(n) == [node |-> n, next |-> 1]
Depth == Len(stack)
Top == stack[Depth]
Entry == heap[Top.node][Top.next]
Onward == [stack EXCEPT ![Depth].next = @ + 1]

\* redactMeta() and redactAuditContext().
Init ==
  /\ heap \in Heaps
  /\ stack = <<Frame(Root)>>
  /\ level = [n \in {Root} |-> 0]
  /\ shown = {}

CoveredAtTheTop(key) == key \in Covered /\ Depth = 1   \* mutant
Covers(key) == key \in Covered
AtTheLimit == Depth >= DepthLimit                \* mutant: off by one
\* The depth is passed on with each call, for leaves as for objects.
TooDeep == Depth > DepthLimit

\* There is an entry to be gone through.
More == Depth > 0 /\ Top.next <= Len(heap[Top.node])

\* A covered key, a value too deep, or an object seen before, which shows as
\* "[circular]" whether it is or not.
Replaces ==
  /\ More
  /\ \/ Covers(Entry.key) \/ TooDeep
     \/ Entry.value.kind = "node" /\ Entry.value.node \in DOMAIN level
  /\ stack' = Onward
  /\ UNCHANGED <<heap, level, shown>>

Shows ==
  /\ More /\ ~Covers(Entry.key) /\ ~TooDeep
  /\ Entry.value.kind = "leaf"
  /\ shown' = shown \cup {Entry.value.leaf}
  /\ stack' = Onward
  /\ UNCHANGED <<heap, level>>

Enters ==
  /\ More /\ ~Covers(Entry.key) /\ ~TooDeep
  /\ Entry.value.kind = "node" /\ Entry.value.node \notin DOMAIN level
  /\ level' = [n \in DOMAIN level \cup {Entry.value.node} |->
                 IF n = Entry.value.node THEN Depth ELSE level[n]]
  /\ stack' = Append(Onward, Frame(Entry.value.node))
  /\ UNCHANGED <<heap, shown>>

Returns ==
  /\ Depth > 0 /\ ~More
  /\ stack' = SubSeq(stack, 1, Depth - 1)
  /\ UNCHANGED <<heap, level, shown>>

Next == Replaces \/ Shows \/ Enters \/ Returns
Spec == Init /\ [][Next]_vars

-----------------------------------------------------------------------------
(* Properties.                                                             *)

Frames == [node : Nodes, next : Nat \ {0}]
TypeOK ==
  /\ heap \in [Nodes -> Seq(Entries)]
  /\ stack \in Seq(Frames)
  /\ level \in [DOMAIN level -> Nat] /\ DOMAIN level \subseteq Nodes
  /\ shown \subseteq Leaves

\* The values in an object that no key covers.
Open(n) == {heap[n][i].value : i \in {i \in DOMAIN heap[n] : heap[n][i].key \notin Covered}}

\* A way from the root to an object, along entries that no key covers.
IsWay(p) ==
  /\ p[1] = Root
  /\ \A i \in 1 .. Len(p) - 1 : Node(p[i + 1]) \in Open(p[i])
Ways == {p \in UNION {[1 .. d -> Nodes] : d \in 1 .. DepthLimit} : IsWay(p)}

\* The leaves that may show: those that such a way leads to.
Visible == {x \in Leaves : \E p \in Ways : Leaf(x) \in Open(p[Len(p)])}

\* No leaf shows that only covered keys lead to, or only ways too long,
\* however objects share or contain each other.
NothingLeaks == shown \subseteq Visible

\* No object is reached in two ways.
IsTree ==
  \A m, n \in Nodes : \A i \in 1 .. Len(heap[m]), j \in 1 .. Len(heap[n]) :
    LET v == heap[n][j].value
    IN  /\ v # Node(Root)
        /\ v.kind = "node" /\ heap[m][i].value = v => m = n /\ i = j

\* Of metadata without shared objects everything else shows: the set of the
\* objects visited and the depth limit cut off no more than they must.
TreesShow == stack = <<>> /\ IsTree => Visible \subseteq shown
=============================================================================
