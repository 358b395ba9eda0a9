--------------------------- MODULE FunctionProofs ----------------------------
(* Proofs about Redaction, Criteria, FieldNames, Parsing and Algorithms, for *)
(* every value of their constants.                                          *)
EXTENDS Algorithms, SequenceTheorems, WellFoundedInduction, TLAPS

(***************************************************************************)
(* The stack.                                                              *)
(***************************************************************************)

LEMMA OnwardStack ==
  ASSUME TypeOK, Depth > 0
  PROVE  /\ Depth \in Nat /\ Depth \in 1 .. Depth /\ Top \in Frames
         /\ Onward \in Seq(Frames) /\ Len(Onward) = Depth
         /\ \A i \in 1 .. Depth :
              /\ Onward[i].node = stack[i].node
              /\ Onward[i].next = IF i = Depth THEN stack[i].next + 1 ELSE stack[i].next
<1>1. /\ stack \in Seq(Frames) /\ Depth \in Nat /\ Depth \in 1 .. Depth
      /\ stack \in [1 .. Depth -> Frames]
  BY DEF TypeOK, Depth
<1>2. Top \in Frames BY <1>1 DEF Top
<1>3. \A f \in Frames : f.next + 1 \in Nat \ {0} BY DEF Frames
<1>4. [Top EXCEPT !.next = @ + 1] \in Frames BY <1>2, <1>3 DEF Frames
<1>5. Onward = [stack EXCEPT ![Depth] = [Top EXCEPT !.next = @ + 1]] BY DEF Onward, Top
<1>6. Onward \in Seq(Frames) /\ Len(Onward) = Depth BY <1>1, <1>4, <1>5
<1>7. \A i \in 1 .. Depth : Onward[i] = IF i = Depth THEN [Top EXCEPT !.next = @ + 1] ELSE stack[i]
  BY <1>1, <1>5
<1>8. /\ [Top EXCEPT !.next = @ + 1].node = Top.node
      /\ [Top EXCEPT !.next = @ + 1].next = Top.next + 1
  BY <1>2 DEF Frames
<1>9. QED BY <1>1, <1>2, <1>6, <1>7, <1>8 DEF Top

LEMMA PushedStack ==
  ASSUME TypeOK, Depth > 0, NEW n \in Nodes, stack' = Append(Onward, Frame(n))
  PROVE  /\ stack' \in Seq(Frames) /\ Depth' = Depth + 1
         /\ \A i \in 1 .. Depth : stack'[i] = Onward[i]
         /\ stack'[Depth + 1] = [node |-> n, next |-> 1]
<1>1. Onward \in Seq(Frames) /\ Len(Onward) = Depth /\ Depth \in Nat BY OnwardStack
<1>2. Frame(n) \in Frames BY DEF Frame, Frames
<1>3. QED BY <1>1, <1>2, AppendProperties DEF Frame, Depth

LEMMA Prefix ==
  ASSUME NEW S, NEW s \in Seq(S), NEW n \in Nat, n <= Len(s)
  PROVE  /\ SubSeq(s, 1, n) \in Seq(S) /\ Len(SubSeq(s, 1, n)) = n
         /\ \A i \in 1 .. n : SubSeq(s, 1, n)[i] = s[i]
<1>1. \A i \in 1 .. n : s[i] \in S OBVIOUS
<1>2. /\ SubSeq(s, 1, n) \in Seq(S)
      /\ Len(SubSeq(s, 1, n)) = IF 1 <= n THEN n - 1 + 1 ELSE 0
      /\ \A i \in 1 .. n - 1 + 1 : SubSeq(s, 1, n)[i] = s[1 + i - 1]
  <2>1. 1 \in Int /\ n \in Int OBVIOUS
  <2>2. QED BY <1>1, <2>1, SubSeqProperties
<1>3. QED BY <1>2

LEMMA PoppedStack ==
  ASSUME TypeOK, Depth > 0, stack' = SubSeq(stack, 1, Depth - 1)
  PROVE  /\ stack' \in Seq(Frames) /\ Depth' = Depth - 1
         /\ \A i \in 1 .. Depth - 1 : stack'[i] = stack[i]
<1>1. stack \in Seq(Frames) /\ Depth - 1 \in Nat /\ Depth - 1 <= Len(stack)
  BY DEF TypeOK, Depth
<1>2. QED BY <1>1, Prefix DEF Depth

\* The entry that is to be gone through.
LEMMA EntryIs ==
  ASSUME TypeOK, More
  PROVE  /\ Top.node \in Nodes /\ Top.next \in 1 .. Len(heap[Top.node])
         /\ Len(heap[Top.node]) \in Nat
         /\ Entry \in Entries
         /\ \/ \E x \in Leaves : Entry.value = Leaf(x)
            \/ \E n \in Nodes : Entry.value = Node(n)
         /\ Entry.key \notin Covered => Entry.value \in Open(Top.node)
<1>1. Top \in Frames BY OnwardStack DEF More
<1>2. /\ Top.node \in Nodes /\ Top.next \in Nat \ {0}
      /\ heap[Top.node] \in Seq(Entries)
  BY <1>1 DEF Frames, TypeOK
<1>3. Top.next \in 1 .. Len(heap[Top.node]) /\ Len(heap[Top.node]) \in Nat BY <1>2 DEF More
<1>4. Entry \in Entries BY <1>2, <1>3 DEF Entry
<1>5. Entry.key \notin Covered => Entry.value \in Open(Top.node)
  BY <1>2, <1>3 DEF Open, Entry
<1>6. QED BY <1>2, <1>3, <1>4, <1>5 DEF Entries

LEMMA LeafOrNode ==
  ASSUME TypeOK, More
  PROVE  /\ Entry.value.kind = "leaf" =>
              Entry.value.leaf \in Leaves /\ Entry.value = Leaf(Entry.value.leaf)
         /\ Entry.value.kind = "node" =>
              Entry.value.node \in Nodes /\ Entry.value = Node(Entry.value.node)
         /\ Entry.value.kind \in {"leaf", "node"}
<1>1. CASE \E x \in Leaves : Entry.value = Leaf(x) BY <1>1 DEF Leaf
<1>2. CASE \E n \in Nodes : Entry.value = Node(n) BY <1>2 DEF Node
<1>3. QED BY <1>1, <1>2, EntryIs

(***************************************************************************)
(* Types.                                                                  *)
(***************************************************************************)
LEMMA InitType == Init => TypeOK
<1> SUFFICES ASSUME Init PROVE TypeOK
  OBVIOUS
<1>1. heap \in [Nodes -> Seq(Entries)] /\ Root \in Nodes BY RedactionAssumption DEF Init
<1>2. stack \in Seq(Frames) BY <1>1 DEF Init, Frame, Frames
<1>3. QED BY <1>1, <1>2 DEF Init, TypeOK

LEMMA NextType == TypeOK /\ [Next]_vars => TypeOK'
<1> SUFFICES ASSUME TypeOK, [Next]_vars PROVE TypeOK'
  OBVIOUS
<1>1. CASE Replaces
  <2>1. stack' \in Seq(Frames) BY <1>1, OnwardStack DEF Replaces, More
  <2>2. QED BY <1>1, <2>1 DEF Replaces, TypeOK
<1>2. CASE Shows
  <2>1. stack' \in Seq(Frames) BY <1>2, OnwardStack DEF Shows, More
  <2>2. Entry.value.leaf \in Leaves BY <1>2, LeafOrNode DEF Shows
  <2>3. QED BY <1>2, <2>1, <2>2 DEF Shows, TypeOK
<1>3. CASE Enters
  <2>1. Entry.value.node \in Nodes /\ Depth \in Nat /\ Depth > 0
    BY <1>3, LeafOrNode, OnwardStack DEF Enters, More
  <2>2. stack' \in Seq(Frames) BY <1>3, <2>1, PushedStack DEF Enters
  <2>3. level' \in [DOMAIN level' -> Nat] /\ DOMAIN level' \subseteq Nodes
    BY <1>3, <2>1 DEF Enters, TypeOK
  <2>4. QED BY <1>3, <2>2, <2>3 DEF Enters, TypeOK
<1>4. CASE Returns
  <2>1. stack' \in Seq(Frames) BY <1>4, PoppedStack DEF Returns
  <2>2. QED BY <1>4, <2>1 DEF Returns, TypeOK
<1>5. CASE UNCHANGED vars BY <1>5 DEF vars, TypeOK
<1>6. QED BY <1>1, <1>2, <1>3, <1>4, <1>5 DEF Next

\* Type correctness, for any heaps, keys and limit.
THEOREM TypeCorrect == Spec => []TypeOK
BY InitType, NextType, PTL DEF Spec

(***************************************************************************)
(* Nothing leaks.  The stack is a way from the root, and short.            *)
(***************************************************************************)
StackInv ==
  /\ Depth <= DepthLimit + 1
  /\ Depth > 0 => stack[1].node = Root
  /\ \A i \in 1 .. Depth - 1 : Node(stack[i + 1].node) \in Open(stack[i].node)

\* The stack goes on, and stays where it is.
LEMMA OnwardKeepsStack ==
  ASSUME TypeOK, StackInv, Depth > 0, stack' = Onward, UNCHANGED heap
  PROVE  StackInv'
<1>1. /\ Depth' = Depth /\ Depth \in Nat
      /\ \A i \in 1 .. Depth : stack'[i].node = stack[i].node
  BY OnwardStack DEF Depth
<1>2. \A n : Open(n)' = Open(n) BY DEF Open
<1>3. QED BY <1>1, <1>2 DEF StackInv

\* What is shown lies at the end of the way that the stack is.
LEMMA ShownIsVisible ==
  ASSUME TypeOK, StackInv, Shows
  PROVE  Entry.value.leaf \in Visible
<1> DEFINE p == [i \in 1 .. Depth |-> stack[i].node]
           x == Entry.value.leaf
<1>1. /\ Depth \in Nat /\ Depth > 0 /\ More /\ stack \in Seq(Frames) /\ Len(stack) = Depth
      /\ Entry.key \notin Covered /\ Depth <= DepthLimit
  BY RedactionAssumption, OnwardStack DEF Shows, More, Covers, TooDeep, TypeOK, Depth
<1>2. \A i \in 1 .. Depth : stack[i].node \in Nodes
  <2>1. stack \in [1 .. Depth -> Frames] BY <1>1
  <2>2. QED BY <2>1 DEF Frames
<1>3. p \in [1 .. Depth -> Nodes] /\ Depth \in 1 .. DepthLimit /\ Len(p) = Depth
  BY <1>1, <1>2, RedactionAssumption
<1>4. IsWay(p)
  <2>1. p[1] = Root BY <1>1 DEF StackInv
  <2>2. \A i \in 1 .. Depth - 1 : Node(p[i + 1]) \in Open(p[i]) BY <1>1 DEF StackInv
  <2>3. QED BY <1>3, <2>1, <2>2 DEF IsWay
<1>5. p \in Ways BY <1>3, <1>4 DEF Ways
<1>6. x \in Leaves /\ Leaf(x) \in Open(p[Len(p)])
  <2>1. x \in Leaves /\ Entry.value = Leaf(x) BY <1>1, LeafOrNode DEF Shows
  <2>2. Entry.value \in Open(Top.node) BY <1>1, EntryIs
  <2>3. p[Len(p)] = Top.node BY <1>1, <1>3 DEF Top
  <2>4. QED BY <2>1, <2>2, <2>3
<1> HIDE DEF p
<1>7. QED BY <1>5, <1>6 DEF Visible

\* Nothing that only covered keys lead to shows in a log or an audit record,
\* for objects of any number that share or contain each other in any way.
THEOREM NothingShowsThatIsCovered == Spec => []NothingLeaks
<1> DEFINE Inv == StackInv /\ NothingLeaks
<1>1. Init => Inv
  <2> SUFFICES ASSUME Init PROVE Inv
    OBVIOUS
  <2>1. Depth = 1 /\ stack[1].node = Root BY DEF Init, Depth, Frame
  <2>2. QED BY <2>1, RedactionAssumption DEF Init, StackInv, NothingLeaks
<1>2. TypeOK /\ Inv /\ [Next]_vars => Inv'
  <2> SUFFICES ASSUME TypeOK, Inv, [Next]_vars PROVE Inv'
    OBVIOUS
  <2>1. heap' = heap /\ Visible' = Visible
    <3>1. heap' = heap BY DEF Next, Replaces, Shows, Enters, Returns, vars
    <3>2. \A n : Open(n)' = Open(n) BY <3>1 DEF Open
    <3>3. \A p : IsWay(p)' = IsWay(p) BY <3>2 DEF IsWay
    <3>4. Ways' = Ways BY <3>3 DEF Ways
    <3>5. QED BY <3>1, <3>2, <3>4 DEF Visible
  <2>2. CASE Replaces
    <3>1. StackInv' BY <2>2, OnwardKeepsStack DEF Replaces, More
    <3>2. QED BY <2>1, <2>2, <3>1 DEF Replaces, NothingLeaks
  <2>3. CASE Shows
    <3>1. StackInv' BY <2>3, OnwardKeepsStack DEF Shows, More
    <3>2. shown' = shown \cup {Entry.value.leaf} /\ Entry.value.leaf \in Visible
      BY <2>3, ShownIsVisible DEF Shows
    <3>3. QED BY <2>1, <3>1, <3>2 DEF NothingLeaks
  <2>4. CASE Enters
    <3>1. /\ Depth > 0 /\ Depth \in Nat /\ Depth <= DepthLimit /\ More
          /\ stack' = Append(Onward, Frame(Entry.value.node))
          /\ Entry.value.node \in Nodes /\ Entry.value = Node(Entry.value.node)
          /\ Entry.value \in Open(Top.node)
      BY <2>4, RedactionAssumption, OnwardStack, LeafOrNode, EntryIs
      DEF Enters, More, Covers, TooDeep
    <3>2. /\ Depth' = Depth + 1 /\ stack'[Depth + 1].node = Entry.value.node
          /\ \A i \in 1 .. Depth : stack'[i].node = stack[i].node
      <4>1. PICK n \in Nodes : n = Entry.value.node BY <3>1
      <4>2. stack' = Append(Onward, Frame(n)) BY <3>1, <4>1
      <4>3. /\ Depth' = Depth + 1 /\ stack'[Depth + 1] = [node |-> n, next |-> 1]
            /\ \A i \in 1 .. Depth : stack'[i] = Onward[i]
        BY <3>1, <4>2, PushedStack
      <4>4. \A i \in 1 .. Depth : Onward[i].node = stack[i].node BY <3>1, OnwardStack
      <4>5. QED BY <4>1, <4>3, <4>4
    <3>3. \A n : Open(n)' = Open(n) BY <2>1 DEF Open
    <3>4. ASSUME NEW i \in 1 .. Depth
          PROVE  Node(stack'[i + 1].node) \in Open(stack'[i].node)
      <4>1. CASE i = Depth BY <3>1, <3>2, <4>1 DEF Top
      <4>2. CASE i < Depth
        <5>1. i \in 1 .. Depth - 1 /\ i + 1 \in 1 .. Depth BY <3>1, <4>2
        <5>2. QED BY <3>2, <5>1 DEF StackInv
      <4>3. i = Depth \/ i < Depth BY <3>1
      <4>4. QED BY <4>1, <4>2, <4>3, Zenon
    <3>5. stack'[1].node = Root BY <3>1, <3>2 DEF StackInv
    <3>6. StackInv'
      <4>1. Depth' - 1 = Depth /\ Depth' <= DepthLimit + 1 BY <3>1, <3>2, RedactionAssumption
      <4>2. QED BY <3>3, <3>4, <3>5, <4>1 DEF StackInv
    <3>7. QED BY <2>1, <2>4, <3>6 DEF Enters, NothingLeaks
  <2>5. CASE Returns
    <3>1. /\ Depth \in Nat /\ Depth > 0 /\ Depth' = Depth - 1
          /\ \A i \in 1 .. Depth - 1 : stack'[i] = stack[i]
      BY <2>5, PoppedStack, OnwardStack DEF Returns
    <3>2. \A n : Open(n)' = Open(n) BY <2>1 DEF Open
    <3>3. StackInv' BY <3>1, <3>2, RedactionAssumption DEF StackInv
    <3>4. QED BY <2>1, <2>5, <3>3 DEF Returns, NothingLeaks
  <2>6. CASE UNCHANGED vars
    <3>1. \A n : Open(n)' = Open(n) BY <2>1 DEF Open
    <3>2. QED BY <2>1, <2>6, <3>1 DEF vars, StackInv, Depth, NothingLeaks
  <2>7. QED BY <2>2, <2>3, <2>4, <2>5, <2>6 DEF Next
<1>3. QED BY TypeCorrect, <1>1, <1>2, PTL DEF Spec
(***************************************************************************)
(* Trees show whole.  Objects are visited at the depth the stack has, from *)
(* an object that holds them, and what an object has gone past is settled. *)
(***************************************************************************)
LevelInv ==
  /\ Root \in DOMAIN level /\ level[Root] = 0
  /\ \A n \in DOMAIN level \ {Root} :
       \E m \in DOMAIN level : Node(n) \in Open(m) /\ level[n] = level[m] + 1
  /\ \A i \in 1 .. Depth :
       stack[i].node \in DOMAIN level /\ level[stack[i].node] = i - 1

Passed(n, j) == \A i \in 1 .. Depth : stack[i].node = n => j < stack[i].next
Settled(v) ==
  /\ \A x \in Leaves : v = Leaf(x) => x \in shown
  /\ \A n \in Nodes : v = Node(n) => n \in DOMAIN level

Done(n) ==
  level[n] < DepthLimit =>
    \A j \in 1 .. Len(heap[n]) :
      Passed(n, j) /\ heap[n][j].key \notin Covered => Settled(heap[n][j].value)
DoneInv == \A n \in DOMAIN level : Done(n)

\* What holds of the entries that were passed, of the others of the objects
\* visited before, and of the top one, holds when the stack goes on.
LEMMA OnwardKeepsDone ==
  ASSUME TypeOK, LevelInv, DoneInv, More, UNCHANGED heap,
         \A v : Settled(v) => Settled(v)',
         \A i \in 1 .. Depth : stack'[i] = Onward[i], Depth' \in Nat, Depth' >= Depth,
         \A n \in DOMAIN level : n \in DOMAIN level' /\ level'[n] = level[n],
         NEW e, e = Entry.value,
         Depth <= DepthLimit /\ Entry.key \notin Covered => Settled(e)'
  PROVE  \A n \in DOMAIN level : Done(n)'
<1> SUFFICES ASSUME NEW n \in DOMAIN level, level[n] < DepthLimit,
                    NEW j \in 1 .. Len(heap[n]), NEW v, v = heap[n][j].value,
                    Passed(n, j)', heap[n][j].key \notin Covered
             PROVE  Settled(v)'
  <2>1. ASSUME NEW n \in DOMAIN level PROVE Done(n)'
    <3>1. \A j \in 1 .. Len(heap[n]) : Passed(n, j)' /\ heap[n][j].key \notin Covered
            => (level[n] < DepthLimit => \A v : v = heap[n][j].value => Settled(v)')
      OBVIOUS
    <3>2. heap' = heap /\ level'[n] = level[n] OBVIOUS
    <3>3. QED BY <3>1, <3>2 DEF Done, Settled
  <2>2. QED BY <2>1
<1>1. Depth > 0 /\ Depth \in Nat /\ Depth \in 1 .. Depth /\ stack \in [1 .. Depth -> Frames]
  BY OnwardStack DEF More, TypeOK, Depth
<1>2. \A i \in 1 .. Depth : stack'[i].node = stack[i].node BY <1>1, OnwardStack
<1>3. j \in Nat
  <2>1. n \in Nodes /\ heap \in [Nodes -> Seq(Entries)] BY DEF TypeOK
  <2>2. QED BY <2>1
<1>4. CASE stack[Depth].node = n /\ j = stack[Depth].next
  <2>1. heap[n][j] = Entry BY <1>4 DEF Entry, Top
  <2>2. Depth <= DepthLimit
    <3>1. level[n] = Depth - 1 BY <1>1, <1>4 DEF LevelInv
    <3>2. QED BY <1>1, <3>1, RedactionAssumption
  <2>3. QED BY <2>1, <2>2
<1>5. CASE ~(stack[Depth].node = n /\ j = stack[Depth].next)
  <2>1. ASSUME NEW i \in 1 .. Depth, stack[i].node = n
        PROVE  j < stack[i].next
    <3>1. stack[i].next \in Nat BY <1>1 DEF Frames
    <3>2. stack'[i].next = IF i = Depth THEN stack[i].next + 1 ELSE stack[i].next
      BY <1>1, OnwardStack
    <3>3. i \in 1 .. Depth' BY <1>1
    <3>4. j < stack'[i].next BY <1>2, <2>1, <3>3 DEF Passed
    <3>5. i = Depth => j # stack[i].next BY <1>5, <2>1
    <3>6. QED BY <1>3, <3>1, <3>2, <3>4, <3>5
  <2>2. Passed(n, j) BY <2>1 DEF Passed
  <2>3. Settled(v) BY <2>2 DEF DoneInv, Done
  <2>4. QED BY <2>3
<1>6. QED BY <1>4, <1>5

LEMMA OnwardKeepsLevels ==
  ASSUME TypeOK, LevelInv, More, stack' = Onward, UNCHANGED <<heap, level>>
  PROVE  LevelInv'
<1>1. \A n : Open(n)' = Open(n) BY DEF Open
<1>2. Depth' = Depth /\ \A i \in 1 .. Depth : stack'[i].node = stack[i].node
  BY OnwardStack DEF More, Depth
<1>3. QED BY <1>1, <1>2 DEF LevelInv

LEMMA LevelsAreKept == TypeOK /\ LevelInv /\ [Next]_vars => LevelInv'
<1> SUFFICES ASSUME TypeOK, LevelInv, [Next]_vars PROVE LevelInv'
  OBVIOUS
<1>1. CASE Replaces BY <1>1, OnwardKeepsLevels DEF Replaces
<1>2. CASE Shows BY <1>2, OnwardKeepsLevels DEF Shows
<1>3. CASE Enters
  <2>1. /\ More /\ Depth > 0 /\ Depth \in Nat /\ Depth \in 1 .. Depth /\ UNCHANGED heap
        /\ stack' = Append(Onward, Frame(Entry.value.node))
        /\ Entry.value.node \in Nodes /\ Entry.value \in Open(Top.node)
        /\ Entry.value = Node(Entry.value.node) /\ Entry.value.node \notin DOMAIN level
    BY <1>3, OnwardStack, LeafOrNode, EntryIs DEF Enters, More, Covers
  <2>2. PICK n \in Nodes : n = Entry.value.node BY <2>1
  <2>3. /\ n \notin DOMAIN level /\ Node(n) \in Open(Top.node)
        /\ stack' = Append(Onward, Frame(n))
        /\ level' = [m \in DOMAIN level \cup {n} |-> IF m = n THEN Depth ELSE level[m]]
    BY <1>3, <2>1, <2>2 DEF Enters
  <2>4. /\ Depth' = Depth + 1 /\ stack'[Depth + 1].node = n
        /\ \A i \in 1 .. Depth : stack'[i].node = stack[i].node
    <3>1. /\ Depth' = Depth + 1 /\ stack'[Depth + 1] = [node |-> n, next |-> 1]
          /\ \A i \in 1 .. Depth : stack'[i] = Onward[i]
      BY <2>1, <2>3, PushedStack
    <3>2. QED BY <2>1, <3>1, OnwardStack
  <2>5. \A m : Open(m)' = Open(m) BY <2>1 DEF Open
  <2>6. /\ DOMAIN level' = DOMAIN level \cup {n} /\ level'[n] = Depth
        /\ \A m \in DOMAIN level : m # n /\ level'[m] = level[m]
    BY <2>3
  <2>7. /\ Root \in DOMAIN level' /\ level'[Root] = 0
    BY <2>6 DEF LevelInv
  <2>8. ASSUME NEW h \in DOMAIN level' \ {Root}
        PROVE  \E m \in DOMAIN level' : Node(h) \in Open(m)' /\ level'[h] = level'[m] + 1
    <3>1. CASE h = n
      <4>1. PICK m \in DOMAIN level : m = Top.node /\ level[m] = Depth - 1
        BY <2>1 DEF LevelInv, Top
      <4>2. Node(n) \in Open(m)' BY <2>3, <2>5, <4>1
      <4>3. m \in DOMAIN level' /\ level'[n] = level'[m] + 1 BY <2>1, <2>6, <4>1
      <4>4. QED BY <3>1, <4>2, <4>3
    <3>2. CASE h # n
      <4>1. PICK m \in DOMAIN level : Node(h) \in Open(m) /\ level[h] = level[m] + 1
        BY <2>6, <3>2 DEF LevelInv
      <4>2. QED BY <2>5, <2>6, <3>2, <4>1
    <3>3. QED BY <3>1, <3>2
  <2>9. ASSUME NEW i \in 1 .. Depth + 1
        PROVE  stack'[i].node \in DOMAIN level' /\ level'[stack'[i].node] = i - 1
    <3>1. CASE i = Depth + 1
      <4>1. i - 1 = Depth BY <2>1, <3>1
      <4>2. QED BY <2>4, <2>6, <3>1, <4>1
    <3>2. CASE i \in 1 .. Depth BY <2>4, <2>6, <3>2 DEF LevelInv
    <3>3. i = Depth + 1 \/ i \in 1 .. Depth BY <2>1
    <3>4. QED BY <3>1, <3>2, <3>3
  <2>10. QED BY <2>4, <2>7, <2>8, <2>9 DEF LevelInv
<1>4. CASE Returns
  <2>1. /\ Depth \in Nat /\ Depth' = Depth - 1 /\ UNCHANGED <<heap, level>>
        /\ \A i \in 1 .. Depth - 1 : stack'[i] = stack[i]
    BY <1>4, PoppedStack, OnwardStack DEF Returns
  <2>2. \A n : Open(n)' = Open(n) BY <2>1 DEF Open
  <2>3. QED BY <2>1, <2>2 DEF LevelInv
<1>5. CASE UNCHANGED vars
  <2>1. \A n : Open(n)' = Open(n) BY <1>5 DEF vars, Open
  <2>2. QED BY <1>5, <2>1 DEF vars, LevelInv, Depth
<1>6. QED BY <1>1, <1>2, <1>3, <1>4, <1>5 DEF Next

LEMMA DoneIsKept == TypeOK /\ LevelInv /\ DoneInv /\ [Next]_vars => DoneInv'
<1> SUFFICES ASSUME TypeOK, LevelInv, DoneInv, [Next]_vars PROVE DoneInv'
  OBVIOUS
<1>1. CASE Replaces
  <2>1. /\ More /\ stack' = Onward /\ UNCHANGED <<heap, level, shown>> /\ Depth \in Nat
        /\ Depth' = Depth
    BY <1>1, OnwardStack DEF Replaces, More, Depth
  <2>2. \A v : Settled(v)' = Settled(v) BY <2>1 DEF Settled
  <2>3. ASSUME NEW v, v = Entry.value, Depth <= DepthLimit, Entry.key \notin Covered
        PROVE  Settled(v)'
    <3>1. Entry.value.kind = "node" /\ Entry.value.node \in DOMAIN level
      BY <1>1, <2>1, <2>3, RedactionAssumption DEF Replaces, Covers, TooDeep
    <3>2. Settled(v) BY <2>3, <3>1 DEF Settled, Leaf, Node
    <3>3. QED BY <2>2, <3>2
  <2>4. PICK e : e = Entry.value OBVIOUS
  <2>5. \A n \in DOMAIN level : Done(n)'
    BY <2>1, <2>2, <2>3, <2>4, OnwardKeepsDone
  <2>6. QED BY <2>1, <2>5 DEF DoneInv
<1>2. CASE Shows
  <2>1. /\ More /\ stack' = Onward /\ UNCHANGED <<heap, level>> /\ Depth \in Nat
        /\ Depth' = Depth /\ shown' = shown \cup {Entry.value.leaf}
        /\ Entry.value = Leaf(Entry.value.leaf)
    BY <1>2, OnwardStack, LeafOrNode DEF Shows, More, Depth
  <2>2. \A v : Settled(v) => Settled(v)' BY <2>1 DEF Settled
  <2>3. PICK e : e = Entry.value OBVIOUS
  <2>4. Settled(e)' BY <2>1, <2>3 DEF Settled, Leaf, Node
  <2>5. \A n \in DOMAIN level : Done(n)'
    BY <2>1, <2>2, <2>3, <2>4, OnwardKeepsDone
  <2>6. QED BY <2>1, <2>5 DEF DoneInv
<1>3. CASE Enters
  <2>1. /\ More /\ Depth > 0 /\ Depth \in Nat /\ UNCHANGED <<heap, shown>>
        /\ stack' = Append(Onward, Frame(Entry.value.node))
        /\ Entry.value.node \in Nodes
        /\ Entry.value = Node(Entry.value.node) /\ Entry.value.node \notin DOMAIN level
    BY <1>3, OnwardStack, LeafOrNode DEF Enters, More
  <2>2. PICK n \in Nodes : n = Entry.value.node BY <2>1
  <2>3. /\ n \notin DOMAIN level /\ stack' = Append(Onward, Frame(n))
        /\ level' = [m \in DOMAIN level \cup {n} |-> IF m = n THEN Depth ELSE level[m]]
    BY <1>3, <2>1, <2>2 DEF Enters
  <2>4. /\ Depth' = Depth + 1 /\ stack'[Depth + 1] = [node |-> n, next |-> 1]
        /\ \A i \in 1 .. Depth : stack'[i] = Onward[i]
    BY <2>1, <2>3, PushedStack
  <2>5. /\ DOMAIN level' = DOMAIN level \cup {n}
        /\ \A m \in DOMAIN level : m # n /\ level'[m] = level[m]
    BY <2>3
  <2>6. \A v : Settled(v) => Settled(v)' BY <2>1, <2>5 DEF Settled
  <2>7. PICK e : e = Entry.value OBVIOUS
  <2>8. \A m \in DOMAIN level : Done(m)'
    <3>1. Depth' \in Nat /\ Depth' >= Depth BY <2>1, <2>4
    <3>2. Settled(e)' BY <2>1, <2>2, <2>5, <2>7 DEF Settled, Leaf, Node
    <3>3. QED BY <2>1, <2>4, <2>5, <2>6, <2>7, <3>1, <3>2, OnwardKeepsDone
  <2>9. \A j \in 1 .. Len(heap'[n]) : ~Passed(n, j)'
    <3>1. Len(heap'[n]) \in Nat BY <2>1 DEF TypeOK
    <3>2. stack'[Depth'].node = n /\ stack'[Depth'].next = 1 /\ Depth' \in 1 .. Depth'
      BY <2>1, <2>4
    <3>3. QED BY <3>1, <3>2 DEF Passed
  <2>10. Done(n)' BY <2>9 DEF Done
  <2>11. QED BY <2>5, <2>8, <2>10 DEF DoneInv
<1>4. CASE Returns
  <2>1. /\ Depth \in Nat /\ Depth > 0 /\ Depth' = Depth - 1 /\ UNCHANGED <<heap, level, shown>>
        /\ \A i \in 1 .. Depth - 1 : stack'[i] = stack[i]
    BY <1>4, PoppedStack, OnwardStack DEF Returns
  <2>2. \A v : Settled(v)' = Settled(v) BY <2>1 DEF Settled
  <2>3. ASSUME NEW n \in DOMAIN level, NEW j \in 1 .. Len(heap[n]), Passed(n, j)'
        PROVE  Passed(n, j)
    <3>1. Top \in Frames /\ n \in Nodes /\ heap \in [Nodes -> Seq(Entries)]
      BY <2>1, OnwardStack DEF TypeOK
    <3>2. Top.next > Len(heap[Top.node])
      <4>1. Top.next \in Nat /\ Len(heap[Top.node]) \in Nat BY <3>1 DEF Frames
      <4>2. QED BY <1>4, <2>1, <4>1 DEF Returns, More
    <3>3. Top.node = n => j < Top.next BY <3>1, <3>2 DEF Frames
    <3>4. ASSUME NEW i \in 1 .. Depth, stack[i].node = n PROVE j < stack[i].next
      <4>1. CASE i = Depth BY <3>3, <3>4, <4>1 DEF Top
      <4>2. CASE i \in 1 .. Depth - 1 BY <2>1, <2>3, <3>4, <4>2 DEF Passed
      <4>3. i = Depth \/ i \in 1 .. Depth - 1 BY <2>1
      <4>4. QED BY <4>1, <4>2, <4>3
    <3>5. QED BY <3>4 DEF Passed
  <2>4. QED BY <2>1, <2>2, <2>3 DEF DoneInv, Done
<1>5. CASE UNCHANGED vars
  <2>1. \A v : Settled(v)' = Settled(v) BY <1>5 DEF vars, Settled
  <2>2. \A n, j : Passed(n, j)' = Passed(n, j) BY <1>5 DEF vars, Passed, Depth
  <2>3. QED BY <1>5, <2>1, <2>2 DEF vars, DoneInv, Done
<1>6. QED BY <1>1, <1>2, <1>3, <1>4, <1>5 DEF Next

LEMMA InitDone == Init => LevelInv /\ DoneInv
<1> SUFFICES ASSUME Init PROVE LevelInv /\ DoneInv
  OBVIOUS
<1>1. /\ Depth = 1 /\ stack[1] = [node |-> Root, next |-> 1]
      /\ DOMAIN level = {Root} /\ level[Root] = 0
  BY DEF Init, Depth, Frame
<1>2. LevelInv BY <1>1 DEF LevelInv
<1>3. \A j \in 1 .. Len(heap[Root]) : ~Passed(Root, j)
  <2>1. Len(heap[Root]) \in Nat BY RedactionAssumption DEF Init
  <2>2. QED BY <1>1, <2>1 DEF Passed
<1>4. QED BY <1>1, <1>2, <1>3 DEF DoneInv, Done

\* There is a least place at which something fails.
LEMMA Least ==
  ASSUME NEW I \in SUBSET Nat, I # {}
  PROVE  \E least \in I : \A i \in I : least <= i
<1>1. PICK x \in I : \A y \in I : ~(<<y, x>> \in OpToRel(<, Nat))
  BY WFMin, NatLessThanWellFounded, Zenon
<1>2. \A y \in I : <<y, x>> \in Nat \X Nat /\ (<<y, x>> \in OpToRel(<, Nat) <=> y < x)
  BY DEF OpToRel
<1>3. \A y \in I : ~(y < x) BY <1>1, <1>2, Zenon
<1>4. QED BY <1>3

\* Along a way in a tree each object was visited, at its place in the way.
LEMMA WaysAreVisited ==
  ASSUME TypeOK, LevelInv, DoneInv, stack = <<>>, IsTree,
         NEW d \in 1 .. DepthLimit, NEW p \in [1 .. d -> Nodes], IsWay(p)
  PROVE  \A i \in 1 .. d : p[i] \in DOMAIN level /\ level[p[i]] = i - 1
<1>1. d \in Nat /\ Len(p) = d /\ Depth = 0 BY RedactionAssumption DEF Depth
<1>2. \A n, j : Passed(n, j) BY <1>1 DEF Passed
<1>3. ASSUME NEW i \in 1 .. d - 1, p[i] \in DOMAIN level, level[p[i]] = i - 1
      PROVE  p[i + 1] \in DOMAIN level /\ level[p[i + 1]] = i
  <2> DEFINE n == p[i + 1]
             m == p[i]
  <2>1. n \in Nodes /\ m \in Nodes /\ heap[m] \in Seq(Entries) /\ Node(n) \in Open(m)
    BY <1>1 DEF IsWay, TypeOK
  <2>2. PICK j \in 1 .. Len(heap[m]) : heap[m][j].key \notin Covered /\ heap[m][j].value = Node(n)
    BY <2>1 DEF Open
  <2>3. i - 1 < DepthLimit BY <1>1, RedactionAssumption
  <2>4. Settled(Node(n)) BY <1>2, <1>3, <2>2, <2>3 DEF DoneInv, Done
  <2>5. n \in DOMAIN level BY <2>1, <2>4 DEF Settled
  <2>6. n # Root BY <2>1, <2>2 DEF IsTree
  <2>7. PICK h \in DOMAIN level : Node(n) \in Open(h) /\ level[n] = level[h] + 1
    BY <2>5, <2>6 DEF LevelInv
  <2>8. h \in Nodes /\ heap[h] \in Seq(Entries) BY DEF TypeOK
  <2>9. PICK k \in 1 .. Len(heap[h]) : heap[h][k].value = Node(n)
    <3>1. PICK v : v = Node(n) OBVIOUS
    <3>2. v \in Open(h) /\ DOMAIN heap[h] = 1 .. Len(heap[h]) BY <2>7, <2>8, <3>1
    <3>3. \E k \in DOMAIN heap[h] : heap[h][k].value = v BY <3>2 DEF Open
    <3>4. QED BY <3>1, <3>2, <3>3
  <2>10. h = m
    <3>1. Node(n).kind = "node" BY DEF Node
    <3>2. QED BY <2>1, <2>2, <2>8, <2>9, <3>1 DEF IsTree
  <2>11. QED BY <1>1, <1>3, <2>5, <2>7, <2>10
<1> DEFINE Visited(i) == p[i] \in DOMAIN level /\ level[p[i]] = i - 1
           I == {i \in 1 .. d : ~Visited(i)}
<1>4. Visited(1) BY <1>1 DEF IsWay, LevelInv
<1>5. \A i \in 1 .. d - 1 : Visited(i) => Visited(i + 1) BY <1>1, <1>3
<1> HIDE DEF Visited
<1>6. CASE I # {}
  <2>1. I \in SUBSET Nat BY <1>1
  <2>2. PICK x \in I : \A i \in I : x <= i BY <1>6, <2>1, Least
  <2>3. x \in 1 .. d /\ ~Visited(x) /\ x # 1 BY <1>4, <2>2
  <2>4. x - 1 \in 1 .. d - 1 /\ x - 1 \in 1 .. d /\ (x - 1) + 1 = x /\ ~(x <= x - 1)
    BY <1>1, <2>3
  <2>5. Visited(x - 1) BY <2>2, <2>4
  <2>6. QED BY <1>5, <2>3, <2>4, <2>5
<1>7. QED BY <1>6 DEF Visited

\* Of objects that share none everything that no key covers shows, down to the
\* depth limit: the visited objects and the limit cut off no more than they must.
THEOREM TreesShowWhole == Spec => []TreesShow
<1>1. ASSUME TypeOK, LevelInv, DoneInv PROVE TreesShow
  <2> SUFFICES ASSUME stack = <<>>, IsTree, NEW x \in Visible PROVE x \in shown
    BY DEF TreesShow
  <2>1. x \in Leaves /\ \E p \in Ways : Leaf(x) \in Open(p[Len(p)]) BY DEF Visible
  <2>2. PICK p \in Ways : Leaf(x) \in Open(p[Len(p)]) BY <2>1
  <2>3. PICK d \in 1 .. DepthLimit : p \in [1 .. d -> Nodes] BY DEF Ways
  <2>4. IsWay(p) /\ d \in Nat /\ Len(p) = d /\ d \in 1 .. d
    BY <2>3, RedactionAssumption DEF Ways
  <2>5. p[d] \in DOMAIN level /\ level[p[d]] = d - 1 BY <1>1, <2>3, <2>4, WaysAreVisited
  <2>6. d - 1 < DepthLimit BY <2>4, RedactionAssumption
  <2>7. p[d] \in Nodes /\ heap[p[d]] \in Seq(Entries) BY <1>1, <2>3, <2>4 DEF TypeOK
  <2>8. PICK j \in 1 .. Len(heap[p[d]]) :
          heap[p[d]][j].key \notin Covered /\ heap[p[d]][j].value = Leaf(x)
    BY <2>2, <2>4, <2>7 DEF Open
  <2>9. Passed(p[d], j) BY DEF Passed, Depth
  <2>10. Settled(Leaf(x)) BY <1>1, <2>5, <2>6, <2>8, <2>9 DEF DoneInv, Done
  <2>11. QED BY <2>1, <2>10 DEF Settled
<1>2. QED BY TypeCorrect, InitDone, LevelsAreKept, DoneIsKept, <1>1, PTL DEF Spec
(***************************************************************************)
(* Criteria.  What one character does to the reader.                       *)
(***************************************************************************)

LEMMA NextColonIs ==
  ASSUME NEW r \in Reader, r.colons < 2
  PROVE  /\ NextColon(r) \in Reader /\ NextColon(r).colons = r.colons + 1
         /\ NextColon(r).escaped = r.escaped /\ NextColon(r).value = r.value
         /\ NextColon(r).values = r.values
<1>1. r.colons + 1 \in 0 .. 2 BY DEF Reader
<1>2. QED BY <1>1 DEF NextColon, Reader

LEMMA QuotesIs ==
  ASSUME NEW r \in Reader
  PROVE  /\ Quotes(r) \in Reader /\ Quotes(r).colons = r.colons
         /\ Quotes(r).escaped = TRUE /\ Quotes(r).value = r.value
         /\ Quotes(r).values = r.values
BY DEF Quotes, Reader

LEMMA TakesCharIs ==
  ASSUME NEW r \in Reader, NEW ch
  PROVE  /\ ch \in Text => TakesChar(r, ch) \in Reader
         /\ TakesChar(r, ch).colons = r.colons /\ TakesChar(r, ch).escaped = FALSE
         /\ TakesChar(r, ch).value = Append(r.value, ch) /\ TakesChar(r, ch).values = r.values
<1>1. ch \in Text => Append(r.value, ch) \in Seq(Text) BY DEF Reader
<1>2. QED BY <1>1 DEF TakesChar, Reader

LEMMA EndsIs ==
  ASSUME NEW r \in Reader
  PROVE  /\ Ends(r) \in Reader /\ Ends(r).colons = 0 /\ Ends(r).escaped = r.escaped
         /\ Ends(r).value = <<>> /\ Ends(r).values = Append(r.values, r.value)
<1>1. 0 \in 0 .. 2 /\ <<>> \in Seq(Text) /\ Append(r.values, r.value) \in Seq(Seq(Text))
  BY DEF Reader
<1>2. QED BY <1>1 DEF Ends, Reader

LEMMA ReadCharType ==
  ASSUME NEW r \in Reader, NEW ch \in Text
  PROVE  ReadChar(r, ch) \in Reader
BY NextColonIs, QuotesIs, TakesCharIs, EndsIs DEF ReadChar

LEMMA HeaderType ==
  ASSUME NEW r \in Reader
  PROVE  ReadHeader(r) \in Reader
<1>1. {"(", "Email", ":", "equals"} \subseteq Text BY DEF Text
<1>2. QED BY <1>1, ReadCharType DEF ReadHeader

\* Between clauses nothing but a colon matters, and a header has two.
LEMMA HeaderRead ==
  ASSUME NEW r \in Reader, r.colons = 0
  PROVE  /\ ReadHeader(r) \in Reader /\ ReadHeader(r).colons = 2
         /\ ReadHeader(r).escaped = r.escaped /\ ReadHeader(r).value = r.value
         /\ ReadHeader(r).values = r.values /\ ReadChar(r, "and") = r
<1>1. ASSUME NEW s \in Reader, s.colons < 2
      PROVE  /\ \A ch : ch # ":" => ReadChar(s, ch) = s
             /\ ReadChar(s, ":") = NextColon(s)
  BY <1>1 DEF ReadChar
<1>2. ReadChar(r, "(") = r /\ ReadChar(r, "Email") = r /\ ReadChar(r, "and") = r BY <1>1
<1>3. PICK s \in Reader : /\ s = ReadChar(r, ":") /\ s.colons = 1
                         /\ s.escaped = r.escaped /\ s.value = r.value /\ s.values = r.values
  BY <1>1, NextColonIs
<1>4. ReadChar(s, "equals") = s /\ ReadChar(s, ":") = NextColon(s) BY <1>1, <1>3
<1>5. ReadHeader(r) = NextColon(s) BY <1>2, <1>3, <1>4 DEF ReadHeader
<1>6. QED BY <1>2, <1>3, <1>5, NextColonIs

\* In a value the reader gets the character that was meant, escaped or not.
LEMMA ValueRead ==
  ASSUME NEW r \in Reader, r.colons = 2, r.escaped = FALSE, NEW ch, ch # "\\"
  PROVE  \A q : q = ReadChar(ReadChar(r, "\\"), ch) \/ (ch # ")" /\ q = ReadChar(r, ch))
           => /\ q.colons = 2 /\ q.escaped = FALSE
              /\ q.value = Append(r.value, ch) /\ q.values = r.values
<1>1. PICK s \in Reader : /\ s = Quotes(r) /\ s.colons = 2 /\ s.escaped = TRUE
                         /\ s.value = r.value /\ s.values = r.values
  BY QuotesIs
<1>2. ~(r.colons < 2) /\ ~(s.colons < 2) BY <1>1
<1>3. ASSUME ch # ")"
      PROVE  ReadChar(r, ch) = TakesChar(r, ch)
  BY <1>2, <1>3 DEF ReadChar
<1>4. ReadChar(ReadChar(r, "\\"), ch) = TakesChar(s, ch)
  <2>1. ReadChar(r, "\\") = s BY <1>1, <1>2 DEF ReadChar
  <2>2. ReadChar(s, ch) = TakesChar(s, ch) BY <1>1, <1>2 DEF ReadChar
  <2>3. QED BY <2>1, <2>2
<1>5. /\ TakesChar(r, ch).colons = 2 /\ TakesChar(r, ch).escaped = FALSE
      /\ TakesChar(r, ch).value = Append(r.value, ch) /\ TakesChar(r, ch).values = r.values
  BY TakesCharIs
<1>6. /\ TakesChar(s, ch).colons = 2 /\ TakesChar(s, ch).escaped = FALSE
      /\ TakesChar(s, ch).value = Append(s.value, ch) /\ TakesChar(s, ch).values = s.values
  BY <1>1, TakesCharIs
<1>7. QED BY <1>1, <1>3, <1>4, <1>5, <1>6

LEMMA EndRead ==
  ASSUME NEW r \in Reader, r.colons = 2, r.escaped = FALSE
  PROVE  ReadChar(r, ")") = Ends(r)
<1>1. ~(r.colons < 2) OBVIOUS
<1>2. QED BY <1>1 DEF ReadChar

LEMMA CriteriaInitType == CriteriaInit => CriteriaTypeOK
BY CriteriaAssumption DEF CriteriaInit, CriteriaTypeOK, Reader

\* What is being written.
LEMMA WritingType ==
  ASSUME CriteriaTypeOK, done < Len(values)
  PROVE  /\ done + 1 \in 1 .. Len(values) /\ Writing \in Values
         /\ Writing.text \in Seq(Chars) /\ Len(Writing.text) \in Nat
         /\ AllPlain => Plain(Writing)
<1>1. done + 1 \in 1 .. Len(values) /\ values \in [1 .. Len(values) -> Values]
  BY DEF CriteriaTypeOK
<1>2. Writing \in Values BY <1>1 DEF Writing
<1>3. Writing.text \in Seq(Chars) BY <1>2 DEF Values
<1>4. QED BY <1>1, <1>2, <1>3 DEF AllPlain, Writing

LEMMA CriteriaNextType == CriteriaTypeOK /\ [CriteriaNext]_criteriaVars => CriteriaTypeOK'
<1> SUFFICES ASSUME CriteriaTypeOK, [CriteriaNext]_criteriaVars PROVE CriteriaTypeOK'
  OBVIOUS
<1>1. /\ values \in Seq(Values) /\ Len(values) \in Nat /\ done \in 0 .. Len(values)
      /\ at \in Nat /\ reader \in Reader
  BY DEF CriteriaTypeOK
<1>2. CASE OpenClause
  <2>1. Len(Writing.text) \in Nat BY <1>2, WritingType DEF OpenClause
  <2>2. reader' \in Reader
    <3>1. ReadChar(reader, "and") \in Reader BY <1>1, ReadCharType DEF Text
    <3>2. QED BY <1>1, <1>2, <3>1, HeaderType DEF OpenClause
  <2>3. Writing' = Writing BY <1>2 DEF OpenClause, Writing
  <2>4. QED BY <1>1, <1>2, <2>1, <2>2, <2>3 DEF OpenClause, CriteriaTypeOK
<1>3. CASE WriteChar
  <2>1. /\ done < Len(values) /\ at \in 1 .. Len(Writing.text)
        /\ Writing.text \in Seq(Chars) /\ Len(Writing.text) \in Nat
    BY <1>1, <1>3, WritingType DEF WriteChar, CriteriaTypeOK
  <2>2. reader' \in Reader
    <3>1. Writing.text[at] \in Text /\ "\\" \in Text BY <2>1 DEF Text
    <3>2. ReadChar(reader, "\\") \in Reader BY <1>1, <3>1, ReadCharType
    <3>3. QED BY <1>1, <1>3, <3>1, <3>2, ReadCharType DEF WriteChar
  <2>3. Writing' = Writing BY <1>3 DEF WriteChar, Writing
  <2>4. QED BY <1>1, <1>3, <2>1, <2>2, <2>3 DEF WriteChar, CriteriaTypeOK
<1>4. CASE CloseClause
  <2>1. reader' \in Reader BY <1>1, <1>4, ReadCharType DEF CloseClause, Text
  <2>2. done < Len(values) BY <1>4 DEF CloseClause, CriteriaTypeOK
  <2>3. QED BY <1>1, <1>4, <2>1, <2>2 DEF CloseClause, CriteriaTypeOK
<1>5. CASE UNCHANGED criteriaVars BY <1>5 DEF criteriaVars, CriteriaTypeOK, Writing
<1>6. QED BY <1>2, <1>3, <1>4, <1>5 DEF CriteriaNext

\* Type correctness, for any characters and searches.
THEOREM CriteriaTypeCorrect == CriteriaSpec => []CriteriaTypeOK
BY CriteriaInitType, CriteriaNextType, PTL DEF CriteriaSpec

\* Between clauses the reader waits for one; in a clause it has read of the
\* value what was written of it.
ReaderInv ==
  AllPlain =>
    /\ reader.values = [i \in 1 .. done |-> values[i].text]
    /\ reader.escaped = FALSE
    /\ at = 0 => reader.colons = 0 /\ reader.value = <<>>
    /\ at > 0 => reader.colons = 2 /\ reader.value = SubSeq(Writing.text, 1, at - 1)

LEMMA ReaderFollows == CriteriaTypeOK /\ ReaderInv /\ [CriteriaNext]_criteriaVars => ReaderInv'
<1> SUFFICES ASSUME CriteriaTypeOK, ReaderInv, [CriteriaNext]_criteriaVars, AllPlain'
             PROVE  ReaderInv'
  BY DEF ReaderInv
<1>1. /\ values' = values /\ AllPlain
      /\ Len(values) \in Nat /\ done \in 0 .. Len(values) /\ at \in Nat /\ reader \in Reader
  <2>1. values' = values BY DEF CriteriaNext, OpenClause, WriteChar, CloseClause, criteriaVars
  <2>2. QED BY <2>1 DEF AllPlain, CriteriaTypeOK
<1>2. /\ reader.values = [i \in 1 .. done |-> values[i].text] /\ reader.escaped = FALSE
      /\ at = 0 => reader.colons = 0 /\ reader.value = <<>>
      /\ at > 0 => reader.colons = 2 /\ reader.value = SubSeq(Writing.text, 1, at - 1)
  BY <1>1 DEF ReaderInv
<1>3. CASE OpenClause
  <2>1. reader' = ReadHeader(reader)
    BY <1>1, <1>2, <1>3, HeaderRead DEF OpenClause
  <2>2. /\ reader'.values = reader.values /\ reader'.escaped = reader.escaped
        /\ reader'.colons = 2 /\ reader'.value = <<>>
    <3>1. PICK r \in Reader : r = reader BY <1>1
    <3>2. r.colons = 0 /\ r.value = <<>> BY <1>2, <1>3, <3>1 DEF OpenClause
    <3>3. QED BY <2>1, <3>1, <3>2, HeaderRead
  <2>3. SubSeq(Writing'.text, 1, 0) = <<>> BY SubSeqEmpty
  <2>4. at' = 1 /\ done' = done BY <1>3 DEF OpenClause
  <2>5. QED BY <1>1, <1>2, <2>2, <2>3, <2>4 DEF ReaderInv
<1>4. CASE WriteChar
  <2> DEFINE t == Writing.text
             ch == t[at]
  <2>1. /\ at > 0 /\ at \in 1 .. Len(t) /\ t \in Seq(Chars) /\ Len(t) \in Nat /\ Plain(Writing)
    BY <1>1, <1>4, WritingType DEF WriteChar, CriteriaTypeOK
  <2>2. ch # "\\" /\ (ch = ")" => Writing.string) BY <2>1 DEF Plain
  <2>3. \/ ch # ")" /\ reader' = ReadChar(reader, ch)
        \/ reader' = ReadChar(ReadChar(reader, "\\"), ch)
    BY <1>4, <2>2 DEF WriteChar, Escaped
  <2> HIDE DEF ch
  <2>4. /\ reader'.values = reader.values /\ reader'.escaped = reader.escaped
        /\ reader'.colons = 2 /\ reader'.value = Append(reader.value, ch)
    <3>1. PICK r \in Reader : r = reader BY <1>1
    <3>2. PICK q : q = reader' OBVIOUS
    <3>3. PICK c : c = ch OBVIOUS
    <3>4. c # "\\" /\ r.colons = 2 /\ r.escaped = FALSE BY <1>2, <2>1, <2>2, <3>1, <3>3
    <3>5. q = ReadChar(ReadChar(r, "\\"), c) \/ (c # ")" /\ q = ReadChar(r, c))
      BY <2>3, <3>1, <3>2, <3>3
    <3>6. /\ q.colons = 2 /\ q.escaped = FALSE
          /\ q.value = Append(r.value, c) /\ q.values = r.values
      <4>1. \A z : z = ReadChar(ReadChar(r, "\\"), c) \/ (c # ")" /\ z = ReadChar(r, c))
              => /\ z.colons = 2 /\ z.escaped = FALSE
                 /\ z.value = Append(r.value, c) /\ z.values = r.values
        BY <3>4, ValueRead
      <4>2. QED BY <3>5, <4>1, Zenon
    <3>7. QED BY <3>1, <3>2, <3>3, <3>4, <3>6
  <2> USE DEF ch
  <2>5. Append(SubSeq(t, 1, at - 1), t[at]) = SubSeq(t, 1, at)
    <3>1. 1 \in 1 .. Len(t) /\ at \in 1 .. Len(t) BY <2>1
    <3>2. SubSeq(t, 1, at) = SubSeq(t, 1, at - 1) \o <<t[at]>>
      BY <2>1, <3>1, SubSeqRecursiveSecond
    <3>3. SubSeq(t, 1, at - 1) \in Seq(Chars)
      <4>1. at - 1 \in Nat /\ at - 1 <= Len(t) BY <2>1
      <4>2. QED BY <2>1, <4>1, Prefix
    <3>4. t[at] \in Chars BY <2>1
    <3>5. \A s \in Seq(Chars), x \in Chars : Append(s, x) = s \o <<x>> OBVIOUS
    <3>6. QED BY <3>2, <3>3, <3>4, <3>5
  <2>6. Writing' = Writing /\ at' = at + 1 /\ done' = done /\ at' - 1 = at
    BY <1>1, <1>4 DEF WriteChar, Writing
  <2>7. reader'.value = SubSeq(Writing'.text, 1, at' - 1) BY <1>2, <2>1, <2>4, <2>5, <2>6
  <2>8. QED BY <1>1, <1>2, <2>1, <2>4, <2>6, <2>7 DEF ReaderInv
<1>5. CASE CloseClause
  <2> DEFINE t == Writing.text
  <2>1. /\ at > 0 /\ at - 1 = Len(t) /\ done < Len(values) /\ t \in Seq(Chars)
        /\ t = values[done + 1].text
    BY <1>1, <1>5, WritingType DEF CloseClause, CriteriaTypeOK, Writing
  <2>2. reader.value = t
    <3>1. SubSeq(t, 1, Len(t)) = t BY <2>1, SubSeqFull
    <3>2. QED BY <1>2, <2>1, <3>1
  <2>3. reader' = Ends(reader) BY <1>1, <1>2, <1>5, <2>1, EndRead DEF CloseClause
  <2>4. /\ reader'.values = Append(reader.values, t) /\ reader'.escaped = reader.escaped
        /\ reader'.colons = 0 /\ reader'.value = <<>>
    BY <1>1, <2>2, <2>3, EndsIs
  <2>5. Append([i \in 1 .. done |-> values[i].text], values[done + 1].text)
          = [i \in 1 .. done + 1 |-> values[i].text]
    BY <1>1
  <2>6. at' = 0 /\ done' = done + 1 BY <1>5 DEF CloseClause
  <2>7. QED BY <1>1, <1>2, <2>1, <2>4, <2>5, <2>6 DEF ReaderInv
<1>6. CASE UNCHANGED criteriaVars
  BY <1>1, <1>2, <1>6 DEF criteriaVars, ReaderInv, Writing
<1>7. QED BY <1>3, <1>4, <1>5, <1>6 DEF CriteriaNext

\* Criteria of any number of clauses, with values of any length, read back as
\* the values they were written from.
THEOREM CriteriaKeepTheirValues == CriteriaSpec => []CriteriaReadBack
<1>1. CriteriaInit => ReaderInv
  <2> SUFFICES ASSUME CriteriaInit PROVE ReaderInv
    OBVIOUS
  <2>1. [i \in 1 .. 0 |-> values[i].text] = <<>> OBVIOUS
  <2>2. QED BY <2>1 DEF CriteriaInit, ReaderInv
<1>2. ReaderInv => CriteriaReadBack BY DEF ReaderInv, CriteriaReadBack
<1>3. QED BY CriteriaTypeCorrect, ReaderFollows, <1>1, <1>2, PTL DEF CriteriaSpec

(***************************************************************************)
(* Field names.                                                            *)
(***************************************************************************)
OneToOne(map) == \A c, d \in DOMAIN map : map[c] = map[d] => c = d

\* Inverting a map of names that is one to one gives its inverse.
LEMMA InverseOfMap ==
  ASSUME NEW map, OneToOne(map)
  PROVE  /\ DOMAIN InvertFieldMap(map) = {map[c] : c \in DOMAIN map}
         /\ \A c \in DOMAIN map : InvertFieldMap(map)[map[c]] = c
<1>1. \A c \in DOMAIN map : (CHOOSE d \in DOMAIN map : map[d] = map[c]) = c
  BY DEF OneToOne
<1>2. QED BY <1>1 DEF InvertFieldMap

\* Whatever the map, renaming invents no value, and loses none whose new name
\* no other field of the record takes.
THEOREM RenamingKeepsValues ==
  ASSUME NEW record, NEW map
  PROVE  LET after == MapRecord(record, map)
             New(k) == NewName(InvertFieldMap(map), k)
         IN  /\ DOMAIN after = {New(k) : k \in DOMAIN record}
             /\ \A name \in DOMAIN after :
                  \E k \in DOMAIN record : New(k) = name /\ after[name] = record[k]
             /\ \A k \in DOMAIN record : Unrivalled(record, map, k) => after[New(k)] = record[k]
<1> DEFINE after == MapRecord(record, map)
           New(k) == NewName(InvertFieldMap(map), k)
           Source(name) == CHOOSE k \in DOMAIN record : New(k) = name
<1>1. after = [name \in {New(k) : k \in DOMAIN record} |-> record[Source(name)]]
  BY DEF MapRecord
<1>2. \A k \in DOMAIN record : Source(New(k)) \in DOMAIN record /\ New(Source(New(k))) = New(k)
  OBVIOUS
<1>3. \A k \in DOMAIN record : Unrivalled(record, map, k) => Source(New(k)) = k
  BY <1>2 DEF Unrivalled
<1> HIDE DEF Source
<1>4. QED BY <1>1, <1>2, <1>3

\* Of a record that has only names Zoho has for the fields of a map that is
\* one to one, or names the map does not know, every value is found under its
\* camel-case name, unless the map has a name that is the text of a function.
THEOREM RenamedFieldsAreFound ==
  ASSUME NEW record, NEW map, OneToOne(map), NEW c \in DOMAIN map, map[c] \in DOMAIN record,
         \A k \in DOMAIN record : k \in {map[d] : d \in DOMAIN map} \/ k \notin DOMAIN map,
         c \notin SourceTexts
  PROVE  MapRecord(record, map)[c] = record[map[c]]
<1> DEFINE inverse == InvertFieldMap(map)
<1>1. /\ DOMAIN inverse = {map[d] : d \in DOMAIN map}
      /\ \A d \in DOMAIN map : inverse[map[d]] = d
  BY InverseOfMap
<1> HIDE DEF inverse
<1>2. NewName(inverse, map[c]) = c BY <1>1 DEF NewName
<1>3. ASSUME NEW k \in DOMAIN record, NewName(inverse, k) = c PROVE k = map[c]
  <2>1. CASE k \in DOMAIN inverse
    <3>1. PICK d \in DOMAIN map : k = map[d] BY <1>1, <2>1
    <3>2. QED BY <1>1, <1>3, <3>1 DEF NewName
  <2>2. CASE k \in Inherited \ DOMAIN inverse BY <1>3, <2>2 DEF NewName, SourceTexts
  <2>3. CASE k \notin DOMAIN inverse \cup Inherited BY <1>1, <1>3, <2>3 DEF NewName
  <2>4. QED BY <2>1, <2>2, <2>3
<1>4. Unrivalled(record, map, map[c]) BY <1>2, <1>3 DEF Unrivalled, inverse
<1>5. \A k \in DOMAIN record : Unrivalled(record, map, k) =>
        MapRecord(record, map)[NewName(inverse, k)] = record[k]
  BY RenamingKeepsValues, Zenon DEF inverse
<1>6. QED BY <1>2, <1>4, <1>5

(***************************************************************************)
(* What a schema means: Conforms() and UnknownKeys() are defined by        *)
(* recursion over pairs of a schema and a value, and nothing says that the *)
(* recursion ends.  They are solutions all the same: what each asks of the *)
(* parts is monotone, so the largest set of pairs, or of pairs and keys,   *)
(* that is consistent in itself is one (Knaster and Tarski), and CHOOSE    *)
(* has something to choose.                                                *)
(***************************************************************************)
Held == Schemas \X Data

\* What a schema of Schemas is made of is in Schemas, and what is in a value of
\* Data is in Data.
LEMMA PartsAreHeld ==
  ASSUME NEW s \in Schemas, NEW v \in Data
  PROVE  /\ s.kind = "union" => \A i \in DOMAIN s.of : s.of[i] \in Schemas
         /\ s.kind \in {"array", "record"} => s.item \in Schemas
         /\ s.kind = "object" => \A k \in DOMAIN s.shape : s.shape[k] \in Schemas
         /\ v.type = "array" => \A i \in DOMAIN v.items : v.items[i] \in Data
         /\ v.type = "object" => \A k \in DOMAIN v.fields : v.fields[k] \in Data
<1>1. ASSUME NEW S, NEW q \in Seq(S), NEW i \in DOMAIN q PROVE q[i] \in S
  OBVIOUS
<1>2. s.kind = "union" => \A i \in DOMAIN s.of : s.of[i] \in Schemas
  BY <1>1, SchemaAssumption
<1>3. v.type = "array" => \A i \in DOMAIN v.items : v.items[i] \in Data
  BY <1>1, SchemaAssumption
<1>4. QED BY <1>2, <1>3, SchemaAssumption

\* The more the parts conform to, the more the whole.
LEMMA JudgesGrows ==
  ASSUME NEW s \in Schemas, NEW v \in Data, NEW strict, NEW c, NEW d,
         \A p \in Held : c[p] => d[p],
         Judges(c, s, v, strict)
  PROVE  Judges(d, s, v, strict)
<1>1. ASSUME NEW t \in Schemas, NEW w \in Data, c[<<t, w>>] PROVE d[<<t, w>>]
  BY <1>1 DEF Held
<1>2. CASE s.kind = "union" /\ \E i \in DOMAIN s.of : c[<<s.of[i], v>>]
  BY <1>1, <1>2, PartsAreHeld DEF Judges
<1>3. CASE s.kind = "array" /\ v.type = "array" /\ \A i \in DOMAIN v.items : c[<<s.item, v.items[i]>>]
  BY <1>1, <1>3, PartsAreHeld DEF Judges
<1>4. CASE s.kind = "record" /\ v.type = "object" /\ \A k \in DOMAIN v.fields : c[<<s.item, v.fields[k]>>]
  BY <1>1, <1>4, PartsAreHeld DEF Judges
<1>5. CASE /\ s.kind = "object" /\ v.type = "object"
           /\ \A k \in DOMAIN s.shape :
                IF k \in DOMAIN v.fields THEN c[<<s.shape[k], v.fields[k]>>] ELSE s.shape[k].optional
           /\ Rejects(s, strict) => Extra(s, v) = {}
  <2>1. \A k \in DOMAIN s.shape :
          IF k \in DOMAIN v.fields THEN d[<<s.shape[k], v.fields[k]>>] ELSE s.shape[k].optional
    BY <1>1, <1>5, PartsAreHeld
  <2>2. QED BY <1>5, <2>1 DEF Judges
<1>6. QED BY <1>2, <1>3, <1>4, <1>5 DEF Judges

\* A set of pairs is sound if each of them is judged to conform by the others.
Of(R) == [p \in Held |-> p \in R]
Sound(R, strict) == \A p \in R : Judges(Of(R), p[1], p[2], strict)
AllSound(strict) == UNION {R \in SUBSET Held : Sound(R, strict)}

\* The union of all sound sets is sound, and holds every pair that it judges to
\* conform.
LEMMA LargestIsSound ==
  ASSUME NEW strict, NEW p \in Held
  PROVE  p \in AllSound(strict) <=> Judges(Of(AllSound(strict)), p[1], p[2], strict)
<1> DEFINE G == AllSound(strict)
<1>1. p[1] \in Schemas /\ p[2] \in Data /\ \A q \in Held : q[1] \in Schemas /\ q[2] \in Data
  BY DEF Held
<1>2. ASSUME NEW R \in SUBSET Held, Sound(R, strict), NEW q \in R
      PROVE  Judges(Of(G), q[1], q[2], strict)
  <2>1. \A r \in Held : Of(R)[r] => Of(G)[r] BY <1>2 DEF Of, AllSound
  <2>2. Judges(Of(R), q[1], q[2], strict) BY <1>2 DEF Sound
  <2>3. QED BY <1>1, <2>1, <2>2, JudgesGrows
<1>3. p \in G => Judges(Of(G), p[1], p[2], strict) BY <1>2 DEF AllSound
<1>4. ASSUME Judges(Of(G), p[1], p[2], strict) PROVE p \in G
  <2> DEFINE R == G \cup {p}
  <2>1. R \in SUBSET Held BY DEF AllSound
  <2>2. \A r \in Held : Of(G)[r] => Of(R)[r] BY DEF Of
  <2>3. ASSUME NEW q \in R PROVE Judges(Of(R), q[1], q[2], strict)
    <3>1. Judges(Of(G), q[1], q[2], strict)
      <4>1. CASE q = p BY <1>4, <4>1
      <4>2. CASE q \in G BY <1>2, <4>2 DEF AllSound
      <4>3. QED BY <2>3, <4>1, <4>2
    <3>2. q[1] \in Schemas /\ q[2] \in Data BY <1>1, <2>1, <2>3
    <3> HIDE DEF G, R
    <3>3. QED BY <2>2, <3>1, <3>2, JudgesGrows
  <2>4. Sound(R, strict) BY <2>3 DEF Sound
  <2>5. QED BY <2>1, <2>4 DEF AllSound
<1>5. QED BY <1>3, <1>4

\* Conforms() is what its definition says: for every schema and every value
\* the recursion has a solution.
LEMMA ConformsIs ==
  ASSUME NEW strict
  PROVE  \A s \in Schemas, v \in Data :
           Conforms(s, v, strict) =
             Judges([p \in Held |-> Conforms(p[1], p[2], strict)], s, v, strict)
<1> DEFINE c == CHOOSE c : c = [p \in Schemas \X Data |-> Judges(c, p[1], p[2], strict)]
<1>1. Of(AllSound(strict)) = [p \in Held |-> Judges(Of(AllSound(strict)), p[1], p[2], strict)]
  <2>1. ASSUME NEW p \in Held PROVE (p \in AllSound(strict)) = Judges(Of(AllSound(strict)), p[1], p[2], strict)
    <3>1. Judges(Of(AllSound(strict)), p[1], p[2], strict) \in BOOLEAN BY DEF Judges
    <3>2. QED BY <3>1, LargestIsSound
  <2>2. QED BY <2>1, Zenon DEF Of
<1>2. \E d : d = [p \in Schemas \X Data |-> Judges(d, p[1], p[2], strict)]
  BY <1>1 DEF Held
<1>3. c = [p \in Held |-> Judges(c, p[1], p[2], strict)]
  BY <1>2, Zenon DEF Held
<1>4. \A s, v : Conforms(s, v, strict) = c[<<s, v>>]
  BY DEF Conforms
<1> HIDE DEF c
<1>5. \A p \in Held : p = <<p[1], p[2]>> BY DEF Held
<1>6. c = [p \in Held |-> Conforms(p[1], p[2], strict)]
  BY <1>3, <1>4, <1>5
<1>7. ASSUME NEW s \in Schemas, NEW v \in Data
      PROVE  Conforms(s, v, strict) = Judges(c, s, v, strict)
  <2>1. <<s, v>> \in Held /\ <<s, v>>[1] = s /\ <<s, v>>[2] = v BY DEF Held
  <2>2. c[<<s, v>>] = Judges(c, <<s, v>>[1], <<s, v>>[2], strict) BY <1>3, <2>1
  <2>3. QED BY <1>4, <2>1, <2>2
<1>8. QED BY <1>6, <1>7

\* Membership in Unknowns(), kind by kind.
LEMMA UnknownsHas ==
  ASSUME NEW u, NEW s, NEW v, NEW x
  PROVE  x \in Unknowns(u, s, v) <=>
           \/ s.kind = "array" /\ v.type = "array" /\ \E i \in DOMAIN v.items : x \in u[<<s.item, v.items[i]>>]
           \/ s.kind = "record" /\ v.type = "object" /\ \E k \in DOMAIN v.fields : x \in u[<<s.item, v.fields[k]>>]
           \/ /\ s.kind = "object" /\ v.type = "object"
              /\ \/ s.unknownKeys # "error" /\ x \in Extra(s, v)
                 \/ \E k \in DOMAIN s.shape \cap DOMAIN v.fields : x \in u[<<s.shape[k], v.fields[k]>>]
<1>1. CASE s.kind = "array" /\ v.type = "array"
  <2>1. Unknowns(u, s, v) = UNION {u[<<s.item, v.items[i]>>] : i \in DOMAIN v.items}
    BY <1>1 DEF Unknowns
  <2>2. QED BY <1>1, <2>1
<1>2. CASE s.kind = "record" /\ v.type = "object"
  <2>1. Unknowns(u, s, v) = UNION {u[<<s.item, v.fields[k]>>] : k \in DOMAIN v.fields}
    BY <1>2 DEF Unknowns
  <2>2. QED BY <1>2, <2>1
<1>3. CASE s.kind = "object" /\ v.type = "object"
  <2>1. Unknowns(u, s, v) =
          (IF s.unknownKeys = "error" THEN {} ELSE Extra(s, v))
          \cup UNION {u[<<s.shape[k], v.fields[k]>>] : k \in DOMAIN s.shape \cap DOMAIN v.fields}
    BY <1>3 DEF Unknowns
  <2>2. QED BY <1>3, <2>1
<1>4. CASE /\ ~(s.kind = "array" /\ v.type = "array") /\ ~(s.kind = "record" /\ v.type = "object")
           /\ ~(s.kind = "object" /\ v.type = "object")
  <2>1. Unknowns(u, s, v) = {} BY <1>4 DEF Unknowns
  <2>2. QED BY <1>4, <2>1
<1>5. QED BY <1>1, <1>2, <1>3, <1>4

Names == UNION {DOMAIN v.fields : v \in {v \in Data : v.type = "object"}}

\* The more is unknown of the parts, the more of the whole.
LEMMA UnknownsGrow ==
  ASSUME NEW s \in Schemas, NEW v \in Data, NEW u, NEW w,
         \A p \in Held : u[p] \subseteq w[p] /\ w[p] \subseteq Names
  PROVE  Unknowns(u, s, v) \subseteq Unknowns(w, s, v) /\ Unknowns(w, s, v) \subseteq Names
<1>1. \A t \in Schemas, y \in Data : u[<<t, y>>] \subseteq w[<<t, y>>] /\ w[<<t, y>>] \subseteq Names
  BY DEF Held
<1>2. v.type = "object" => Extra(s, v) \subseteq Names BY DEF Extra, Names
<1>3. ASSUME NEW x, x \in Unknowns(u, s, v) PROVE x \in Unknowns(w, s, v)
  BY <1>1, <1>3, UnknownsHas, PartsAreHeld
<1>4. ASSUME NEW x, x \in Unknowns(w, s, v) PROVE x \in Names
  <2>1. CASE s.kind = "array" /\ v.type = "array" /\ \E i \in DOMAIN v.items : x \in w[<<s.item, v.items[i]>>]
    BY <1>1, <2>1, PartsAreHeld
  <2>2. CASE s.kind = "record" /\ v.type = "object" /\ \E k \in DOMAIN v.fields : x \in w[<<s.item, v.fields[k]>>]
    BY <1>1, <2>2, PartsAreHeld
  <2>3. CASE s.kind = "object" /\ v.type = "object" /\ s.unknownKeys # "error" /\ x \in Extra(s, v)
    BY <1>2, <2>3
  <2>4. CASE /\ s.kind = "object" /\ v.type = "object"
             /\ \E k \in DOMAIN s.shape \cap DOMAIN v.fields : x \in w[<<s.shape[k], v.fields[k]>>]
    BY <1>1, <2>4, PartsAreHeld
  <2>5. QED BY <1>4, <2>1, <2>2, <2>3, <2>4, UnknownsHas
<1>5. QED BY <1>3, <1>4

\* The same for keys: a set of pairs of a pair and a key.
KeysIn(R) == [p \in Held |-> {x \in Names : <<p, x>> \in R}]
Founded(R) == \A r \in R : r[2] \in Unknowns(KeysIn(R), r[1][1], r[1][2])
AllFounded == UNION {R \in SUBSET (Held \X Names) : Founded(R)}

\* The union of all founded sets is founded, and holds every key it founds.
LEMMA LargestIsFounded ==
  ASSUME NEW p \in Held, NEW x \in Names
  PROVE  <<p, x>> \in AllFounded <=> x \in Unknowns(KeysIn(AllFounded), p[1], p[2])
<1> DEFINE G == AllFounded
<1>1. p[1] \in Schemas /\ p[2] \in Data /\ \A q \in Held : q[1] \in Schemas /\ q[2] \in Data
  BY DEF Held
<1>2. ASSUME NEW Q, NEW R, Q \subseteq R, NEW q \in Held, NEW y, y \in Unknowns(KeysIn(Q), q[1], q[2])
      PROVE  y \in Unknowns(KeysIn(R), q[1], q[2])
  <2>1. \A r \in Held : KeysIn(Q)[r] \subseteq KeysIn(R)[r] /\ KeysIn(R)[r] \subseteq Names
    BY <1>2 DEF KeysIn
  <2>2. Unknowns(KeysIn(Q), q[1], q[2]) \subseteq Unknowns(KeysIn(R), q[1], q[2])
    BY <1>1, <2>1, UnknownsGrow
  <2>3. QED BY <1>2, <2>2
<1>3. ASSUME NEW r \in G PROVE r[1] \in Held /\ r[2] \in Names /\ r[2] \in Unknowns(KeysIn(G), r[1][1], r[1][2])
  <2>1. PICK R \in SUBSET (Held \X Names) : Founded(R) /\ r \in R BY <1>3 DEF AllFounded
  <2>2. R \subseteq G BY <2>1 DEF AllFounded
  <2>3. r[1] \in Held /\ r[2] \in Names /\ r[2] \in Unknowns(KeysIn(R), r[1][1], r[1][2])
    BY <2>1 DEF Founded
  <2> HIDE DEF G
  <2>4. QED BY <1>2, <2>2, <2>3
<1>4. <<p, x>> \in G => x \in Unknowns(KeysIn(G), p[1], p[2])
  <2> HIDE DEF G
  <2>1. <<p, x>>[1] = p /\ <<p, x>>[2] = x OBVIOUS
  <2>2. QED BY <1>3, <2>1
<1>5. ASSUME x \in Unknowns(KeysIn(G), p[1], p[2]) PROVE <<p, x>> \in G
  <2> DEFINE R == G \cup {<<p, x>>}
  <2>1. R \in SUBSET (Held \X Names) BY DEF AllFounded
  <2>2. G \subseteq R OBVIOUS
  <2>3. ASSUME NEW r \in R PROVE r[2] \in Unknowns(KeysIn(R), r[1][1], r[1][2])
    <3>1. CASE r = <<p, x>>
      <4>1. r[1] = p /\ r[2] = x BY <3>1
      <4> HIDE DEF G, R
      <4>2. QED BY <1>2, <1>5, <2>2, <4>1
    <3>2. CASE r \in G
      <4> HIDE DEF G, R
      <4>1. QED BY <1>2, <1>3, <2>2, <3>2
    <3>3. QED BY <2>3, <3>1, <3>2
  <2>4. Founded(R) BY <2>3 DEF Founded
  <2>5. QED BY <2>1, <2>4 DEF AllFounded
<1>6. QED BY <1>4, <1>5

\* UnknownKeys() is what its definition says.
LEMMA UnknownKeysIs ==
  \A s \in Schemas, v \in Data :
    UnknownKeys(s, v) = Unknowns([p \in Held |-> UnknownKeys(p[1], p[2])], s, v)
<1> DEFINE G == KeysIn(AllFounded)
           u == CHOOSE u : u = [p \in Schemas \X Data |-> Unknowns(u, p[1], p[2])]
<1>1. G = [p \in Held |-> Unknowns(G, p[1], p[2])]
  <2>1. ASSUME NEW p \in Held PROVE {x \in Names : <<p, x>> \in AllFounded} = Unknowns(G, p[1], p[2])
    <3>1. \A q \in Held : G[q] \subseteq G[q] /\ G[q] \subseteq Names BY DEF KeysIn
    <3>2. p[1] \in Schemas /\ p[2] \in Data BY DEF Held
    <3> HIDE DEF G
    <3>3. Unknowns(G, p[1], p[2]) \subseteq Names BY <3>1, <3>2, UnknownsGrow
    <3>4. \A x \in Names : <<p, x>> \in AllFounded <=> x \in Unknowns(G, p[1], p[2])
      BY LargestIsFounded DEF G
    <3>5. QED BY <3>3, <3>4
  <2>2. G = [p \in Held |-> {x \in Names : <<p, x>> \in AllFounded}] BY DEF KeysIn
  <2> HIDE DEF G
  <2>3. QED BY <2>1, <2>2
<1>2. \E d : d = [p \in Schemas \X Data |-> Unknowns(d, p[1], p[2])]
  BY <1>1, Zenon DEF Held
<1>3. u = [p \in Held |-> Unknowns(u, p[1], p[2])]
  BY <1>2, Zenon DEF Held
<1>4. \A s, v : UnknownKeys(s, v) = u[<<s, v>>]
  BY DEF UnknownKeys
<1> HIDE DEF u
<1>5. \A p \in Held : p = <<p[1], p[2]>> BY DEF Held
<1>6. u = [p \in Held |-> UnknownKeys(p[1], p[2])]
  BY <1>3, <1>4, <1>5
<1>7. ASSUME NEW s \in Schemas, NEW v \in Data
      PROVE  UnknownKeys(s, v) = Unknowns(u, s, v)
  <2>1. <<s, v>> \in Held /\ <<s, v>>[1] = s /\ <<s, v>>[2] = v BY DEF Held
  <2>2. u[<<s, v>>] = Unknowns(u, <<s, v>>[1], <<s, v>>[2]) BY <1>3, <2>1
  <2>3. QED BY <1>4, <2>1, <2>2
<1>8. QED BY <1>6, <1>7

\* A value that a schema neither lets through nor refuses, and that has parts.
Opened(s, v) == ~Excused(s, v) /\ Fits(s, v) /\ s.kind \notin Scalars
IsThere(s, v, k) == k \in Parts(s, v) /\ (s.kind = "object" => k \in DOMAIN v.fields)

\* What is right of a part, and what it has that is not known.
Right(s, v, k, strict) ==
  IF IsThere(s, v, k) THEN Conforms(PartSchema(s, k), PartValue(s, v, k), strict)
  ELSE s.shape[k].optional
Strange(s, v, k) ==
  IF IsThere(s, v, k) THEN UnknownKeys(PartSchema(s, k), PartValue(s, v, k)) ELSE {}
Surplus(s, v) == IF s.kind = "object" THEN Extra(s, v) ELSE {}
Reportable(s, v) == IF s.kind = "object" /\ s.unknownKeys = "error" THEN {} ELSE Surplus(s, v)

\* Conforms(), kind by kind.
LEMMA ConformsUnfolds ==
  ASSUME NEW s \in Schemas, NEW v \in Data, NEW strict
  PROVE  Conforms(s, v, strict) <=>
           \/ Excused(s, v)
           \/ s.kind = "unknown"
           \/ s.kind \in {"string", "boolean"} /\ v.type = s.kind
           \/ s.kind = "number" /\ IsNumber(v)
           \/ s.kind = "literal" /\ v = s.value
           \/ s.kind = "union" /\ \E i \in DOMAIN s.of : Conforms(s.of[i], v, strict)
           \/ /\ s.kind = "array" /\ v.type = "array"
              /\ \A i \in DOMAIN v.items : Conforms(s.item, v.items[i], strict)
           \/ /\ s.kind = "record" /\ v.type = "object"
              /\ \A k \in DOMAIN v.fields : Conforms(s.item, v.fields[k], strict)
           \/ /\ s.kind = "object" /\ v.type = "object"
              /\ \A k \in DOMAIN s.shape :
                   IF k \in DOMAIN v.fields THEN Conforms(s.shape[k], v.fields[k], strict)
                   ELSE s.shape[k].optional
              /\ Rejects(s, strict) => Extra(s, v) = {}
<1> DEFINE c == [p \in Held |-> Conforms(p[1], p[2], strict)]
<1>1. \A t \in Schemas, w \in Data : c[<<t, w>>] = Conforms(t, w, strict) BY DEF Held
<1>2. Conforms(s, v, strict) <=> Judges(c, s, v, strict) BY ConformsIs
<1> HIDE DEF c
<1>3. s.kind = "union" => \A i \in DOMAIN s.of : c[<<s.of[i], v>>] = Conforms(s.of[i], v, strict)
  BY <1>1, PartsAreHeld
<1>4. s.kind = "array" /\ v.type = "array" =>
        \A i \in DOMAIN v.items : c[<<s.item, v.items[i]>>] = Conforms(s.item, v.items[i], strict)
  BY <1>1, PartsAreHeld
<1>5. s.kind = "record" /\ v.type = "object" =>
        \A k \in DOMAIN v.fields : c[<<s.item, v.fields[k]>>] = Conforms(s.item, v.fields[k], strict)
  BY <1>1, PartsAreHeld
<1>6. s.kind = "object" /\ v.type = "object" =>
        \A k \in DOMAIN s.shape \cap DOMAIN v.fields :
          c[<<s.shape[k], v.fields[k]>>] = Conforms(s.shape[k], v.fields[k], strict)
  BY <1>1, PartsAreHeld
<1>7. QED BY <1>2, <1>3, <1>4, <1>5, <1>6 DEF Judges

\* UnknownKeys(), kind by kind.
LEMMA UnknownKeysUnfold ==
  ASSUME NEW s \in Schemas, NEW v \in Data, NEW x
  PROVE  x \in UnknownKeys(s, v) <=>
           \/ s.kind = "array" /\ v.type = "array" /\ \E i \in DOMAIN v.items : x \in UnknownKeys(s.item, v.items[i])
           \/ s.kind = "record" /\ v.type = "object" /\ \E k \in DOMAIN v.fields : x \in UnknownKeys(s.item, v.fields[k])
           \/ /\ s.kind = "object" /\ v.type = "object"
              /\ \/ s.unknownKeys # "error" /\ x \in Extra(s, v)
                 \/ \E k \in DOMAIN s.shape \cap DOMAIN v.fields : x \in UnknownKeys(s.shape[k], v.fields[k])
<1> DEFINE u == [p \in Held |-> UnknownKeys(p[1], p[2])]
<1>1. \A t \in Schemas, w \in Data : u[<<t, w>>] = UnknownKeys(t, w) BY DEF Held
<1>2. UnknownKeys(s, v) = Unknowns(u, s, v) BY UnknownKeysIs
<1> HIDE DEF u
<1>3. s.kind = "array" /\ v.type = "array" =>
        \A i \in DOMAIN v.items : u[<<s.item, v.items[i]>>] = UnknownKeys(s.item, v.items[i])
  BY <1>1, PartsAreHeld
<1>4. s.kind = "record" /\ v.type = "object" =>
        \A k \in DOMAIN v.fields : u[<<s.item, v.fields[k]>>] = UnknownKeys(s.item, v.fields[k])
  BY <1>1, PartsAreHeld
<1>5. s.kind = "object" /\ v.type = "object" =>
        \A k \in DOMAIN s.shape \cap DOMAIN v.fields :
          u[<<s.shape[k], v.fields[k]>>] = UnknownKeys(s.shape[k], v.fields[k])
  BY <1>1, PartsAreHeld
<1>6. x \in Unknowns(u, s, v) <=>
        \/ s.kind = "array" /\ v.type = "array" /\ \E i \in DOMAIN v.items : x \in u[<<s.item, v.items[i]>>]
        \/ s.kind = "record" /\ v.type = "object" /\ \E k \in DOMAIN v.fields : x \in u[<<s.item, v.fields[k]>>]
        \/ /\ s.kind = "object" /\ v.type = "object"
           /\ \/ s.unknownKeys # "error" /\ x \in Extra(s, v)
              \/ \E k \in DOMAIN s.shape \cap DOMAIN v.fields : x \in u[<<s.shape[k], v.fields[k]>>]
  BY UnknownsHas
<1>7. QED BY <1>2, <1>3, <1>4, <1>5, <1>6

\* The parts of a value and their schemas are in Data and in Schemas.
LEMMA PartIsHeld ==
  ASSUME NEW s \in Schemas, NEW v \in Data, Opened(s, v), NEW k, IsThere(s, v, k)
  PROVE  PartSchema(s, k) \in Schemas /\ PartValue(s, v, k) \in Data
<1>1. s.kind \in Kinds BY SchemaAssumption
<1>2. QED
  BY <1>1, PartsAreHeld DEF Kinds, Scalars, Opened, Fits, IsThere, Parts, PartSchema, PartValue

\* What becomes of a value without parts to look at.
LEMMA Outright ==
  ASSUME NEW s \in Schemas, NEW v \in Data, NEW strict, ~Opened(s, v)
  PROVE  /\ Conforms(s, v, strict) <=> Excused(s, v) \/ Fits(s, v)
         /\ UnknownKeys(s, v) = {}
<1>1. s.kind \in Kinds BY SchemaAssumption
<1>2. Excused(s, v) => Conforms(s, v, strict) BY ConformsUnfolds
<1>3. ASSUME ~Excused(s, v) PROVE Conforms(s, v, strict) <=> Fits(s, v)
  BY <1>1, <1>3, ConformsUnfolds DEF Kinds, Scalars, Opened, Fits
<1>4. ASSUME NEW x, x \in UnknownKeys(s, v) PROVE FALSE
  BY <1>4, UnknownKeysUnfold DEF Opened, Excused, Fits, Scalars
<1>5. QED BY <1>2, <1>3, <1>4

\* A value conforms to a union if it conforms to one of its alternatives.
LEMMA UnionConforms ==
  ASSUME NEW s \in Schemas, NEW v \in Data, NEW strict, Opened(s, v), s.kind = "union"
  PROVE  /\ Conforms(s, v, strict) <=> \E k \in Parts(s, v) : Right(s, v, k, strict)
         /\ UnknownKeys(s, v) = {}
<1>1. Parts(s, v) = DOMAIN s.of BY DEF Parts
<1>2. \A k \in Parts(s, v) : Right(s, v, k, strict) = Conforms(s.of[k], v, strict)
  BY DEF Right, IsThere, PartSchema, PartValue
<1>3. Conforms(s, v, strict) <=> \E i \in DOMAIN s.of : Conforms(s.of[i], v, strict)
  BY ConformsUnfolds DEF Opened
<1>4. UnknownKeys(s, v) = {} BY UnknownKeysUnfold
<1>5. QED BY <1>1, <1>2, <1>3, <1>4

\* A value conforms to any other schema with parts if all of its parts are right
\* and its surplus keys are let through.
LEMMA CompoundConforms ==
  ASSUME NEW s \in Schemas, NEW v \in Data, NEW strict, Opened(s, v), s.kind # "union"
  PROVE  /\ Conforms(s, v, strict) <=>
              /\ \A k \in Parts(s, v) : Right(s, v, k, strict)
              /\ Surplus(s, v) # {} => ~Rejects(s, strict)
         /\ \A x : x \in UnknownKeys(s, v) <=>
              x \in Reportable(s, v) \/ \E k \in Parts(s, v) : x \in Strange(s, v, k)
<1>1. s.kind \in {"array", "record", "object"}
  BY SchemaAssumption DEF Kinds, Scalars, Opened
<1>2. CASE s.kind = "array"
  <2>1. Parts(s, v) = DOMAIN v.items /\ v.type = "array" /\ ~Excused(s, v) /\ Surplus(s, v) = {} /\ Reportable(s, v) = {}
    BY <1>2 DEF Parts, Opened, Fits, Surplus, Reportable
  <2>2. \A k \in Parts(s, v) :
          /\ Right(s, v, k, strict) = Conforms(s.item, v.items[k], strict)
          /\ Strange(s, v, k) = UnknownKeys(s.item, v.items[k])
    BY <1>2 DEF Right, Strange, IsThere, PartSchema, PartValue
  <2>3. Conforms(s, v, strict) <=> \A i \in DOMAIN v.items : Conforms(s.item, v.items[i], strict)
    BY <1>2, <2>1, ConformsUnfolds
  <2>4. \A x : x \in UnknownKeys(s, v) <=> \E i \in DOMAIN v.items : x \in UnknownKeys(s.item, v.items[i])
    BY <1>2, <2>1, UnknownKeysUnfold
  <2>5. QED BY <1>2, <2>1, <2>2, <2>3, <2>4
<1>3. CASE s.kind = "record"
  <2>1. Parts(s, v) = DOMAIN v.fields /\ v.type = "object" /\ ~Excused(s, v) /\ Surplus(s, v) = {} /\ Reportable(s, v) = {}
    BY <1>3 DEF Parts, Opened, Fits, Surplus, Reportable
  <2>2. \A k \in Parts(s, v) :
          /\ Right(s, v, k, strict) = Conforms(s.item, v.fields[k], strict)
          /\ Strange(s, v, k) = UnknownKeys(s.item, v.fields[k])
    BY <1>3 DEF Right, Strange, IsThere, PartSchema, PartValue
  <2>3. Conforms(s, v, strict) <=> \A k \in DOMAIN v.fields : Conforms(s.item, v.fields[k], strict)
    BY <1>3, <2>1, ConformsUnfolds
  <2>4. \A x : x \in UnknownKeys(s, v) <=> \E k \in DOMAIN v.fields : x \in UnknownKeys(s.item, v.fields[k])
    BY <1>3, <2>1, UnknownKeysUnfold
  <2>5. QED BY <1>3, <2>1, <2>2, <2>3, <2>4
<1>4. CASE s.kind = "object"
  <2>1. Parts(s, v) = DOMAIN s.shape /\ v.type = "object" /\ ~Excused(s, v) /\ Surplus(s, v) = Extra(s, v)
    BY <1>4 DEF Parts, Opened, Fits, Surplus, Reportable
  <2>2. \A k \in Parts(s, v) :
          /\ Right(s, v, k, strict) =
               IF k \in DOMAIN v.fields THEN Conforms(s.shape[k], v.fields[k], strict) ELSE s.shape[k].optional
          /\ Strange(s, v, k) = IF k \in DOMAIN v.fields THEN UnknownKeys(s.shape[k], v.fields[k]) ELSE {}
    BY <1>4 DEF Right, Strange, IsThere, PartSchema, PartValue
  <2>3. Conforms(s, v, strict) <=>
          /\ \A k \in DOMAIN s.shape :
               IF k \in DOMAIN v.fields THEN Conforms(s.shape[k], v.fields[k], strict) ELSE s.shape[k].optional
          /\ Rejects(s, strict) => Extra(s, v) = {}
    BY <1>4, <2>1, ConformsUnfolds
  <2>4. \A x : x \in UnknownKeys(s, v) <=>
          \/ s.unknownKeys # "error" /\ x \in Extra(s, v)
          \/ \E k \in DOMAIN s.shape \cap DOMAIN v.fields : x \in UnknownKeys(s.shape[k], v.fields[k])
    BY <1>4, <2>1, UnknownKeysUnfold
  <2>5. Conforms(s, v, strict) <=>
          /\ \A k \in Parts(s, v) : Right(s, v, k, strict)
          /\ Surplus(s, v) # {} => ~Rejects(s, strict)
    BY <2>1, <2>2, <2>3
  <2>6. Reportable(s, v) = IF s.unknownKeys = "error" THEN {} ELSE Extra(s, v)
    BY <1>4, <2>1 DEF Reportable
  <2>7. ASSUME NEW x
        PROVE  x \in UnknownKeys(s, v) <=>
                 x \in Reportable(s, v) \/ \E k \in Parts(s, v) : x \in Strange(s, v, k)
    BY <2>1, <2>2, <2>4, <2>6
  <2>8. QED BY <2>5, <2>7
<1>5. QED BY <1>1, <1>2, <1>3, <1>4

(***************************************************************************)
(* A parse: its types, and the stack of its activations.                   *)
(***************************************************************************)
Places == UNION {Parts(p[1], p[2]) : p \in {p \in Held : Opened(p[1], p[2])}}
Activations ==
  [schema : Schemas, value : Data, ctx : Nat \ {0}, phase : {"called", "parts", "part"},
   todo : SUBSET Places, now : Places \cup {"none"}]
Contexts == [issues : SUBSET (Kinds \cup {"unknown key"}), unknown : SUBSET Names]

ParseTypeOK ==
  /\ response \in Responses
  /\ calls \in Seq(Activations)
  /\ contexts \in Seq(Contexts)
  /\ verdict \in BOOLEAN

\* Each activation but the innermost waits for the part that the next one
\* parses, in its own context or, for an alternative, in one more.
Waits(a) == a.phase = "part" => IsThere(a.schema, a.value, a.now) /\ a.now \notin a.todo
Goes(a) == a.phase # "called" => Opened(a.schema, a.value) /\ a.todo \subseteq Parts(a.schema, a.value)
Links(a, b) ==
  /\ a.phase = "part"
  /\ b.schema = PartSchema(a.schema, a.now) /\ b.value = PartValue(a.schema, a.value, a.now)
  /\ b.ctx = IF a.schema.kind = "union" THEN a.ctx + 1 ELSE a.ctx
CallsInv ==
  /\ \A i \in 1 .. Len(calls) : Goes(calls[i]) /\ Waits(calls[i])
  /\ \A i \in 1 .. Len(calls) - 1 : Links(calls[i], calls[i + 1])
  /\ \A i, j \in 1 .. Len(calls) : i <= j => calls[i].ctx <= calls[j].ctx
  /\ calls # <<>> =>
       /\ calls[1].schema = response.schema /\ calls[1].value = response.value
       /\ calls[1].ctx = 1 /\ ~Off
Deepest == IF In.phase = "part" /\ In.schema.kind = "union" THEN In.ctx + 1 ELSE In.ctx
ContextInv == Len(contexts) = IF calls = <<>> THEN 1 ELSE Deepest

\* Parts() of what may be opened are places.
LEMMA PartsArePlaces ==
  ASSUME NEW s \in Schemas, NEW v \in Data, Opened(s, v)
  PROVE  Parts(s, v) \subseteq Places
<1>1. <<s, v>> \in {p \in Held : Opened(p[1], p[2])} BY DEF Held
<1>2. QED BY <1>1 DEF Places

\* Putting an entry at the end of a sequence.
LEMMA LastIsPut ==
  ASSUME NEW S, NEW s \in Seq(S), s # <<>>, NEW e \in S
  PROVE  /\ Len(s) \in Nat \ {0}
         /\ [s EXCEPT ![Len(s)] = e] \in Seq(S)
         /\ Len([s EXCEPT ![Len(s)] = e]) = Len(s)
         /\ \A i \in 1 .. Len(s) : [s EXCEPT ![Len(s)] = e][i] = IF i = Len(s) THEN e ELSE s[i]
<1>1. Len(s) \in Nat /\ Len(s) # 0 BY EmptySeq
<1>2. QED BY <1>1

\* The innermost activation.
LEMMA InIs ==
  ASSUME ParseTypeOK, calls # <<>>
  PROVE  /\ Len(calls) \in Nat \ {0} /\ Len(calls) \in 1 .. Len(calls) /\ 1 \in 1 .. Len(calls)
         /\ In \in Activations
         /\ In.schema \in Schemas /\ In.value \in Data /\ In.ctx \in Nat \ {0}
         /\ \A i \in 1 .. Len(calls) : calls[i] \in Activations
<1>1. calls \in Seq(Activations) BY DEF ParseTypeOK
<1>2. Len(calls) \in Nat /\ Len(calls) # 0 BY <1>1, EmptySeq
<1>3. \A i \in 1 .. Len(calls) : calls[i] \in Activations BY <1>1
<1>4. In \in Activations BY <1>2, <1>3 DEF In
<1>5. In.schema \in Schemas /\ In.value \in Data /\ In.ctx \in Nat \ {0} BY <1>4 DEF Activations
<1>6. QED BY <1>2, <1>3, <1>4, <1>5

\* The stack with the innermost activation changed, ...
LEMMA BecomesIs ==
  ASSUME ParseTypeOK, calls # <<>>, NEW a \in Activations
  PROVE  /\ Becomes(a) \in Seq(Activations) /\ Len(Becomes(a)) = Len(calls)
         /\ \A i \in 1 .. Len(calls) : Becomes(a)[i] = IF i = Len(calls) THEN a ELSE calls[i]
<1>1. calls \in Seq(Activations) BY DEF ParseTypeOK
<1>2. QED BY <1>1, LastIsPut DEF Becomes

\* ... as the next state has it, ...
LEMMA Moved ==
  ASSUME ParseTypeOK, calls # <<>>, NEW a \in Activations, calls' = Becomes(a)
  PROVE  /\ calls' \in Seq(Activations) /\ Len(calls') = Len(calls) /\ calls' # <<>>
         /\ \A i \in 1 .. Len(calls) : calls'[i] = IF i = Len(calls) THEN a ELSE calls[i]
         /\ In' = a
<1>1. Len(calls) \in Nat \ {0} BY InIs
<1>2. /\ calls' \in Seq(Activations) /\ Len(calls') = Len(calls)
      /\ \A i \in 1 .. Len(calls) : calls'[i] = IF i = Len(calls) THEN a ELSE calls[i]
  BY BecomesIs
<1>3. calls' # <<>> BY <1>1, <1>2, EmptySeq
<1>4. In' = a BY <1>1, <1>2 DEF In
<1>5. QED BY <1>2, <1>3, <1>4

\* ... with a call pushed, ...
LEMMA Pushed ==
  ASSUME ParseTypeOK, calls # <<>>, NEW a \in Activations, NEW b \in Activations,
         calls' = Append(Becomes(a), b)
  PROVE  /\ calls' \in Seq(Activations) /\ Len(calls') = Len(calls) + 1 /\ calls' # <<>>
         /\ \A i \in 1 .. Len(calls) : calls'[i] = IF i = Len(calls) THEN a ELSE calls[i]
         /\ calls'[Len(calls) + 1] = b /\ In' = b
<1>1. Len(calls) \in Nat \ {0} BY InIs
<1>2. /\ Becomes(a) \in Seq(Activations) /\ Len(Becomes(a)) = Len(calls)
      /\ \A i \in 1 .. Len(calls) : Becomes(a)[i] = IF i = Len(calls) THEN a ELSE calls[i]
  BY BecomesIs
<1>3. /\ calls' \in Seq(Activations) /\ Len(calls') = Len(calls) + 1
      /\ \A i \in 1 .. Len(calls) : calls'[i] = Becomes(a)[i]
      /\ calls'[Len(calls) + 1] = b
  BY <1>2, AppendProperties
<1>4. calls' # <<>> BY <1>1, <1>3, EmptySeq
<1>5. In' = b BY <1>3 DEF In
<1>6. QED BY <1>2, <1>3, <1>4, <1>5

\* ... and without the innermost activation.
LEMMA Popped ==
  ASSUME ParseTypeOK, calls # <<>>, calls' = SubSeq(calls, 1, Len(calls) - 1)
  PROVE  /\ calls' \in Seq(Activations) /\ Len(calls') = Len(calls) - 1
         /\ \A i \in 1 .. Len(calls) - 1 : calls'[i] = calls[i]
         /\ calls' # <<>> <=> Len(calls) > 1
         /\ Len(calls) > 1 => In' = calls[Len(calls) - 1]
<1>1. calls \in Seq(Activations) /\ Len(calls) \in Nat \ {0} BY InIs DEF ParseTypeOK
<1>2. Len(calls) - 1 \in Nat /\ Len(calls) - 1 <= Len(calls) BY <1>1
<1>3. /\ calls' \in Seq(Activations) /\ Len(calls') = Len(calls) - 1
      /\ \A i \in 1 .. Len(calls) - 1 : calls'[i] = calls[i]
  BY <1>1, <1>2, Prefix
<1>4. calls' # <<>> <=> Len(calls) > 1
  <2>1. calls' = <<>> <=> Len(calls') = 0 BY <1>3, EmptySeq
  <2>2. QED BY <1>1, <1>3, <2>1
<1>5. Len(calls) > 1 => In' = calls[Len(calls) - 1] BY <1>1, <1>3 DEF In
<1>6. QED BY <1>3, <1>4, <1>5

\* The options are those of the response.
LEMMA SameOptions ==
  ASSUME response' = response
  PROVE  Options' = Options /\ Strict' = Strict /\ Off' = Off
BY DEF Options, Strict, Off

\* How the stack keeps its shape when the innermost activation goes on, ...
LEMMA MovedCalls ==
  ASSUME ParseTypeOK, CallsInv, calls # <<>>, response' = response,
         NEW a \in Activations, calls' = Becomes(a), Goes(a), Waits(a),
         a.schema = In.schema, a.value = In.value, a.ctx = In.ctx
  PROVE  CallsInv'
<1>1. /\ Len(calls') = Len(calls) /\ Len(calls) \in Nat \ {0}
      /\ \A i \in 1 .. Len(calls) : calls'[i] = IF i = Len(calls) THEN a ELSE calls[i]
  BY Moved, InIs
<1>2. \A i \in 1 .. Len(calls) :
        /\ calls'[i].schema = calls[i].schema /\ calls'[i].value = calls[i].value
        /\ calls'[i].ctx = calls[i].ctx
        /\ Goes(calls'[i]) /\ Waits(calls'[i])
  BY <1>1 DEF In, CallsInv
<1>3. \A i \in 1 .. Len(calls) - 1 : Links(calls'[i], calls'[i + 1])
  <2>1. TAKE i \in 1 .. Len(calls) - 1
  <2>2. Links(calls[i], calls[i + 1]) /\ calls'[i] = calls[i] /\ i + 1 \in 1 .. Len(calls)
    BY <1>1 DEF CallsInv
  <2>3. QED BY <1>2, <2>2 DEF Links
<1>4. QED BY <1>1, <1>2, <1>3, SameOptions DEF CallsInv

\* ... calls a parser, ...
LEMMA PushedCalls ==
  ASSUME ParseTypeOK, CallsInv, calls # <<>>, response' = response,
         NEW a \in Activations, NEW b \in Activations, calls' = Append(Becomes(a), b),
         Goes(a), Waits(a), Links(a, b), Goes(b), Waits(b),
         a.schema = In.schema, a.value = In.value, a.ctx = In.ctx
  PROVE  CallsInv'
<1>1. /\ Len(calls') = Len(calls) + 1 /\ Len(calls) \in Nat \ {0}
      /\ \A i \in 1 .. Len(calls) : calls'[i] = IF i = Len(calls) THEN a ELSE calls[i]
      /\ calls'[Len(calls) + 1] = b
  BY Pushed, InIs
<1>2. \A i \in 1 .. Len(calls) :
        /\ calls'[i].schema = calls[i].schema /\ calls'[i].value = calls[i].value
        /\ calls'[i].ctx = calls[i].ctx
        /\ Goes(calls'[i]) /\ Waits(calls'[i])
  BY <1>1 DEF In, CallsInv
<1>3. \A i \in 1 .. Len(calls') : Goes(calls'[i]) /\ Waits(calls'[i]) BY <1>1, <1>2
<1>4. \A i \in 1 .. Len(calls') - 1 : Links(calls'[i], calls'[i + 1])
  <2>1. TAKE i \in 1 .. Len(calls') - 1
  <2>2. CASE i = Len(calls) BY <1>1, <2>2
  <2>3. CASE i # Len(calls)
    <3>1. i \in 1 .. Len(calls) - 1 /\ i + 1 \in 1 .. Len(calls) /\ i \in 1 .. Len(calls) BY <1>1, <2>3
    <3>2. Links(calls[i], calls[i + 1]) /\ calls'[i] = calls[i] BY <1>1, <2>3, <3>1 DEF CallsInv
    <3>3. QED BY <1>2, <3>1, <3>2 DEF Links
  <2>4. QED BY <2>2, <2>3
<1>5. b.ctx \in Nat /\ a.ctx \in Nat /\ a.ctx <= b.ctx BY DEF Links, Activations
<1>6. \A i \in 1 .. Len(calls) : calls'[i].ctx \in Nat /\ calls'[i].ctx <= a.ctx
  BY <1>1, <1>2, InIs DEF CallsInv, In, Activations
<1>7. \A i, j \in 1 .. Len(calls') : i <= j => calls'[i].ctx <= calls'[j].ctx
  <2>1. TAKE i, j \in 1 .. Len(calls')
  <2>2. CASE j = Len(calls) + 1 BY <1>1, <1>5, <1>6, <2>2
  <2>3. CASE j # Len(calls) + 1 BY <1>1, <1>2, <2>3 DEF CallsInv
  <2>4. QED BY <2>2, <2>3
<1>8. QED BY <1>1, <1>2, <1>3, <1>4, <1>7, SameOptions, Pushed DEF CallsInv

\* ... and returns.
LEMMA PoppedCalls ==
  ASSUME ParseTypeOK, CallsInv, calls # <<>>, response' = response,
         calls' = SubSeq(calls, 1, Len(calls) - 1)
  PROVE  CallsInv'
<1>1. /\ Len(calls') = Len(calls) - 1 /\ Len(calls) \in Nat \ {0}
      /\ \A i \in 1 .. Len(calls) - 1 : calls'[i] = calls[i]
      /\ calls' # <<>> <=> Len(calls) > 1
  BY Popped, InIs
<1>2. \A i \in 1 .. Len(calls) - 1 : i \in 1 .. Len(calls) BY <1>1
<1>3. \A i \in 1 .. Len(calls') : Goes(calls'[i]) /\ Waits(calls'[i]) BY <1>1, <1>2 DEF CallsInv
<1>4. \A i \in 1 .. Len(calls') - 1 : Links(calls'[i], calls'[i + 1]) BY <1>1 DEF CallsInv
<1>5. \A i, j \in 1 .. Len(calls') : i <= j => calls'[i].ctx <= calls'[j].ctx
  BY <1>1, <1>2 DEF CallsInv
<1>6. calls' # <<>> => /\ calls'[1].schema = response.schema /\ calls'[1].value = response.value
                       /\ calls'[1].ctx = 1 /\ ~Off
  BY <1>1 DEF CallsInv
<1>7. QED BY <1>1, <1>3, <1>4, <1>5, <1>6, SameOptions DEF CallsInv

(***************************************************************************)
(* The invariant of a parse.                                               *)
(***************************************************************************)
\* The parts of an activation whose parse is over.
Over(i) ==
  IF calls[i].phase = "called" THEN {}
  ELSE Parts(calls[i].schema, calls[i].value)
         \ (calls[i].todo \cup IF i < Len(calls) THEN {calls[i].now} ELSE {})

AllRight(i) ==
  calls[i].schema.kind # "union" =>
    \A k \in Over(i) : Right(calls[i].schema, calls[i].value, k, Strict)
Meets(i, x) ==
  /\ calls[i].schema.kind # "union"
  /\ \E k \in Over(i) : x \in Strange(calls[i].schema, calls[i].value, k)
Reports == Options.mode = "permissive" /\ Options.warn

\* The issues of a context are those of the parts that are over of the
\* activations it is for, and so are the unknown keys of the first.
IssueInv ==
  calls # <<>> =>
    \A c \in 1 .. In.ctx :
      contexts[c].issues = {} <=> \A i \in 1 .. Len(calls) : calls[i].ctx = c => AllRight(i)
UnknownInv ==
  calls # <<>> =>
    \A x : x \in contexts[1].unknown <=>
             Reports /\ \E i \in 1 .. Len(calls) : calls[i].ctx = 1 /\ Meets(i, x)
\* An alternative that is over and did not end its union does not conform, and
\* that of which the verdict is still to be looked at conforms if it says so.
Failed(a) == Parts(a.schema, a.value) \ (a.todo \cup IF a.phase = "part" THEN {a.now} ELSE {})
UnionInv ==
  \A i \in 1 .. Len(calls) :
    calls[i].phase # "called" /\ calls[i].schema.kind = "union" =>
      \A k \in Failed(calls[i]) : ~Right(calls[i].schema, calls[i].value, k, Strict)
VerdictInv ==
  calls # <<>> /\ In.phase = "part" /\ In.schema.kind = "union" =>
    verdict = Right(In.schema, In.value, In.now, Strict)
EndInv ==
  calls = <<>> =>
    /\ verdict = (Off \/ Conforms(response.schema, response.value, Strict))
    /\ verdict = (contexts[1].issues = {})
    /\ \A x : x \in contexts[1].unknown <=>
                Reports /\ x \in UnknownKeys(response.schema, response.value)

ParseInv ==
  /\ ParseTypeOK /\ CallsInv /\ ContextInv
  /\ IssueInv /\ UnknownInv /\ UnionInv /\ VerdictInv /\ EndInv

\* Conforms() is true or false.
LEMMA ConformsIsBoolean ==
  ASSUME NEW s \in Schemas, NEW v \in Data, NEW strict
  PROVE  Conforms(s, v, strict) \in BOOLEAN
<1> DEFINE c == [p \in Held |-> Conforms(p[1], p[2], strict)]
<1>1. Conforms(s, v, strict) = Judges(c, s, v, strict) BY ConformsIs
<1>2. Judges(c, s, v, strict) \in BOOLEAN BY DEF Judges
<1>3. QED BY <1>1, <1>2

\* What is right of a part that is there is whether it conforms.
LEMMA RightIsBoolean ==
  ASSUME NEW s \in Schemas, NEW v \in Data, NEW k, Opened(s, v), IsThere(s, v, k), NEW strict
  PROVE  /\ Right(s, v, k, strict) = Conforms(PartSchema(s, k), PartValue(s, v, k), strict)
         /\ Right(s, v, k, strict) \in BOOLEAN
         /\ Strange(s, v, k) = UnknownKeys(PartSchema(s, k), PartValue(s, v, k))
<1>1. PartSchema(s, k) \in Schemas /\ PartValue(s, v, k) \in Data BY PartIsHeld
<1>2. QED BY <1>1, ConformsIsBoolean DEF Right, Strange

\* What the activations but the innermost say of its context.
Others == \A i \in 1 .. Len(calls) - 1 : calls[i].ctx = In.ctx => AllRight(i)
MeetsBefore(x) == \E i \in 1 .. Len(calls) - 1 : calls[i].ctx = 1 /\ Meets(i, x)
Whole == Conforms(In.schema, In.value, Strict)

\* A parser that returns leaves the context and the verdict right.
LEMMA Returning ==
  ASSUME ParseInv, calls # <<>>, response' = response,
         calls' = SubSeq(calls, 1, Len(calls) - 1),
         contexts' \in Seq(Contexts), Len(contexts') = In.ctx,
         \A c \in 1 .. In.ctx - 1 : contexts'[c] = contexts[c],
         contexts'[In.ctx].issues = {} <=> Others /\ Whole,
         In.ctx = 1 => \A x : x \in contexts'[1].unknown <=>
                         Reports /\ (MeetsBefore(x) \/ x \in UnknownKeys(In.schema, In.value)),
         verdict' \in BOOLEAN, Others => verdict' = Whole
  PROVE  ParseInv'
<1>0. PICK n : n = Len(calls) OBVIOUS
<1>1. /\ n = Len(calls) /\ n \in Nat \ {0} /\ n \in 1 .. n /\ In = calls[n] /\ In.ctx \in Nat \ {0}
      /\ \A i \in 1 .. n : calls[i] \in Activations
      /\ \A i \in 1 .. n : calls[i].schema \in Schemas /\ calls[i].value \in Data /\ calls[i].ctx \in Nat \ {0}
  BY <1>0, InIs DEF ParseInv, In, Activations
<1>2. /\ calls' \in Seq(Activations) /\ Len(calls') = n - 1
      /\ \A i \in 1 .. n - 1 : calls'[i] = calls[i]
      /\ calls' # <<>> <=> n > 1
      /\ n > 1 => In' = calls[n - 1]
  BY <1>0, Popped DEF ParseInv
<1>3. CallsInv' BY PoppedCalls DEF ParseInv
<1>4. ParseTypeOK' BY <1>2 DEF ParseInv, ParseTypeOK
<1>5. Strict' = Strict /\ Options' = Options /\ Off' = Off /\ Reports' = Reports
  BY SameOptions DEF Reports
<1>6. CASE n = 1
  <2>1. calls' = <<>> BY <1>2, <1>6
  <2>2. /\ In.schema = response.schema /\ In.value = response.value /\ In.ctx = 1 /\ ~Off
    BY <1>1, <1>6 DEF ParseInv, CallsInv
  <2>3. Others /\ \A x : ~MeetsBefore(x) BY <1>1, <1>6 DEF Others, MeetsBefore
  <2>4. EndInv'
    BY <1>5, <2>1, <2>2, <2>3 DEF EndInv, Whole
  <2>5. ContextInv' BY <2>1, <2>2 DEF ContextInv
  <2>6. IssueInv' /\ UnknownInv' /\ VerdictInv' BY <2>1 DEF IssueInv, UnknownInv, VerdictInv
  <2>7. UnionInv' BY <1>2, <1>6 DEF UnionInv
  <2>8. QED BY <1>3, <1>4, <2>4, <2>5, <2>6, <2>7 DEF ParseInv
<1>7. CASE n > 1
  <2>a. PICK a : a = calls[n - 1] OBVIOUS
  <2>1. /\ n - 1 \in 1 .. n - 1 /\ n - 1 \in 1 .. n /\ n - 1 + 1 = n /\ In' = a /\ calls' # <<>>
        /\ a = calls[n - 1] /\ calls'[n - 1] = a /\ a.schema \in Schemas /\ a.value \in Data
        /\ a.ctx \in Nat \ {0}
    BY <1>1, <1>2, <1>7, <2>a
  <2>0. \A i \in 1 .. n - 2 : i \in 1 .. n - 1 /\ i \in 1 .. n /\ i < n - 1 /\ i < n
    BY <1>1, <1>7
  <2>2. /\ Links(a, In) /\ Goes(a) /\ Waits(a)
        /\ \A i \in 1 .. n - 1 : calls[i].ctx <= a.ctx
    <3>1. Links(calls[n - 1], calls[n - 1 + 1]) BY <1>1, <2>1 DEF ParseInv, CallsInv
    <3>2. Goes(a) /\ Waits(a) BY <1>1, <2>1 DEF ParseInv, CallsInv
    <3>3. \A i \in 1 .. n - 1 : i \in 1 .. n /\ i <= n - 1 BY <1>1
    <3>4. \A i \in 1 .. n - 1 : calls[i].ctx <= calls[n - 1].ctx
      BY <1>1, <2>1, <3>3 DEF ParseInv, CallsInv
    <3>5. QED BY <1>1, <2>1, <3>1, <3>2, <3>4
  <2>3. /\ a.phase = "part" /\ Opened(a.schema, a.value)
        /\ IsThere(a.schema, a.value, a.now) /\ a.now \notin a.todo
        /\ a.now \in Parts(a.schema, a.value)
    BY <2>2 DEF Links, Goes, Waits, IsThere
  <2>4. /\ Right(a.schema, a.value, a.now, Strict) = Whole
        /\ Strange(a.schema, a.value, a.now) = UnknownKeys(In.schema, In.value)
    <3>1. /\ Right(a.schema, a.value, a.now, Strict) =
               Conforms(PartSchema(a.schema, a.now), PartValue(a.schema, a.value, a.now), Strict)
          /\ Strange(a.schema, a.value, a.now) =
               UnknownKeys(PartSchema(a.schema, a.now), PartValue(a.schema, a.value, a.now))
      BY <2>1, <2>3, RightIsBoolean
    <3>2. In.schema = PartSchema(a.schema, a.now) /\ In.value = PartValue(a.schema, a.value, a.now)
      BY <2>2 DEF Links
    <3>3. QED BY <3>1, <3>2 DEF Whole
  <2>5. \A i \in 1 .. n - 2 : Over(i)' = Over(i)
    BY <1>1, <1>2, <2>0 DEF Over
  <2>6. Over(n - 1)' = Over(n - 1) \cup {a.now} /\ a.now \notin Over(n - 1)
    <3>1. n - 1 < Len(calls) /\ ~(n - 1 < Len(calls')) BY <1>1, <1>2
    <3>2. Over(n - 1) = Parts(a.schema, a.value) \ (a.todo \cup {a.now})
      BY <2>1, <2>3, <3>1 DEF Over
    <3>3. Over(n - 1)' = Parts(a.schema, a.value) \ (a.todo \cup {})
      BY <2>1, <2>3, <3>1 DEF Over
    <3>4. QED BY <2>3, <3>2, <3>3
  <2>7. \A i \in 1 .. n - 2 : (AllRight(i)' <=> AllRight(i)) /\ \A x : Meets(i, x)' <=> Meets(i, x)
    <3>1. TAKE i \in 1 .. n - 2
    <3>2. calls'[i] = calls[i] /\ Over(i)' = Over(i) BY <1>2, <2>0, <2>5
    <3>3. AllRight(i)' <=> AllRight(i) BY <1>5, <3>2 DEF AllRight
    <3>4. \A x : Meets(i, x)' <=> Meets(i, x) BY <3>2 DEF Meets
    <3>5. QED BY <3>3, <3>4
  <2>8. /\ a.schema.kind = "union" => AllRight(n - 1) /\ AllRight(n - 1)'
        /\ a.schema.kind # "union" => (AllRight(n - 1)' <=> AllRight(n - 1) /\ Whole)
    <3>1. AllRight(n - 1)' <=>
            (a.schema.kind # "union" => \A k \in Over(n - 1)' : Right(a.schema, a.value, k, Strict))
      BY <1>5, <2>1 DEF AllRight
    <3>2. AllRight(n - 1) <=>
            (a.schema.kind # "union" => \A k \in Over(n - 1) : Right(a.schema, a.value, k, Strict))
      BY <2>1 DEF AllRight
    <3>3. QED BY <2>4, <2>6, <3>1, <3>2
  <2>9. \A x : /\ a.schema.kind = "union" => ~Meets(n - 1, x) /\ ~Meets(n - 1, x)'
               /\ a.schema.kind # "union" =>
                    (Meets(n - 1, x)' <=> Meets(n - 1, x) \/ x \in UnknownKeys(In.schema, In.value))
    <3>1. TAKE x
    <3>2. Meets(n - 1, x)' <=>
            a.schema.kind # "union" /\ \E k \in Over(n - 1)' : x \in Strange(a.schema, a.value, k)
      BY <2>1 DEF Meets
    <3>3. Meets(n - 1, x) <=>
            a.schema.kind # "union" /\ \E k \in Over(n - 1) : x \in Strange(a.schema, a.value, k)
      BY <2>1 DEF Meets
    <3>4. QED BY <2>4, <2>6, <3>2, <3>3
  <2>10. n - 1 = n - 2 + 1 /\ \A i \in 1 .. n - 1 : i = n - 1 \/ i \in 1 .. n - 2 BY <1>1, <1>7
  <2>11. ContextInv' BY <2>1, <2>2, <2>3 DEF ContextInv, Deepest, Links
  <2>12. IssueInv'
    <3> SUFFICES ASSUME NEW c \in 1 .. a.ctx
                 PROVE  contexts'[c].issues = {} <=>
                          \A i \in 1 .. n - 1 : calls[i].ctx = c => AllRight(i)'
      <4>1. Len(calls') = n - 1 /\ In'.ctx = a.ctx BY <1>2, <2>1
      <4>2. IssueInv' <=> \A c \in 1 .. a.ctx : contexts'[c].issues = {} <=>
                            \A i \in 1 .. n - 1 : calls'[i].ctx = c => AllRight(i)'
        BY <2>1, <4>1 DEF IssueInv
      <4>3. \A c : (\A i \in 1 .. n - 1 : calls'[i].ctx = c => AllRight(i)')
                     <=> (\A i \in 1 .. n - 1 : calls[i].ctx = c => AllRight(i)')
        BY <1>2
      <4>4. QED BY <4>2, <4>3
    <3>1. c \in 1 .. In.ctx BY <1>1, <2>1, <2>2 DEF Links
    <3>2. contexts[c].issues = {} <=> \A i \in 1 .. n : calls[i].ctx = c => AllRight(i)
      BY <1>1, <3>1 DEF ParseInv, IssueInv
    <3>3. CASE a.schema.kind = "union"
      <4>1. In.ctx = a.ctx + 1 BY <2>2, <3>3 DEF Links
      <4>2. c # In.ctx /\ c \in 1 .. In.ctx - 1 BY <2>1, <4>1
      <4>3. contexts'[c] = contexts[c] BY <4>2
      <4>4. \A i \in 1 .. n - 1 : AllRight(i)' <=> AllRight(i) BY <2>7, <2>8, <2>10, <3>3
      <4>5. \A i \in 1 .. n : i = n \/ i \in 1 .. n - 1 BY <1>1
      <4>6. QED BY <1>1, <3>2, <4>2, <4>3, <4>4, <4>5
    <3>4. CASE a.schema.kind # "union"
      <4>1. In.ctx = a.ctx BY <2>2, <3>4 DEF Links
      <4>2. CASE c = In.ctx
        <5>1. Others /\ Whole <=> \A i \in 1 .. n - 1 : calls[i].ctx = c => AllRight(i)'
          <6>1. Others <=> \A i \in 1 .. n - 1 : calls[i].ctx = c => AllRight(i)
            BY <1>1, <4>2 DEF Others
          <6>2. QED BY <2>0, <2>1, <2>7, <2>8, <2>10, <3>4, <4>1, <4>2, <6>1
        <5>2. QED BY <4>2, <5>1
      <4>3. CASE c # In.ctx
        <5>1. c \in 1 .. In.ctx - 1 BY <1>1, <3>1, <4>3
        <5>2. contexts'[c] = contexts[c] BY <5>1
        <5>3. \A i \in 1 .. n : calls[i].ctx = c => i \in 1 .. n - 2
          BY <1>1, <2>1, <2>10, <4>1, <4>3
        <5>4. \A i \in 1 .. n - 2 : i \in 1 .. n - 1 /\ i \in 1 .. n BY <1>1, <2>10
        <5>5. QED BY <2>1, <2>7, <3>2, <5>2, <5>3, <5>4
      <4>4. QED BY <4>2, <4>3
    <3>5. QED BY <3>3, <3>4
  <2>13. UnknownInv'
    <3> SUFFICES ASSUME NEW x
                 PROVE  x \in contexts'[1].unknown <=>
                          Reports /\ \E i \in 1 .. n - 1 : calls[i].ctx = 1 /\ Meets(i, x)'
      BY <1>2, <1>5, <2>1 DEF UnknownInv
    <3>1. x \in contexts[1].unknown <=> Reports /\ \E i \in 1 .. n : calls[i].ctx = 1 /\ Meets(i, x)
      BY <1>1, <2>1 DEF ParseInv, UnknownInv
    <3>2. MeetsBefore(x) <=> \E i \in 1 .. n - 1 : calls[i].ctx = 1 /\ Meets(i, x) BY <1>1 DEF MeetsBefore
    <3>3. CASE In.ctx = 1
      <4>1. a.ctx = 1 /\ a.schema.kind # "union" 
        <5>1. In.ctx = IF a.schema.kind = "union" THEN a.ctx + 1 ELSE a.ctx BY <2>2 DEF Links
        <5>2. QED BY <2>1, <3>3, <5>1
      <4>2. (\E i \in 1 .. n - 1 : calls[i].ctx = 1 /\ Meets(i, x)')
              <=> MeetsBefore(x) \/ x \in UnknownKeys(In.schema, In.value)
        BY <2>1, <2>7, <2>9, <2>10, <3>2, <4>1
      <4>3. QED BY <3>3, <4>2
    <3>4. CASE In.ctx # 1
      <4>1. contexts'[1] = contexts[1] BY <1>1, <3>4
      <4>2. \A i \in 1 .. n : calls[i].ctx = 1 => i \in 1 .. n - 1 BY <1>1, <3>4
      <4>3. \A i \in 1 .. n - 1 : i \in 1 .. n BY <1>1
      <4>4. \A i \in 1 .. n - 1 : calls[i].ctx = 1 => (Meets(i, x)' <=> Meets(i, x))
        <5>1. a.ctx = 1 => a.schema.kind = "union" BY <2>2, <3>4 DEF Links
        <5>2. QED BY <2>1, <2>7, <2>9, <2>10, <5>1
      <4>5. QED BY <3>1, <4>1, <4>2, <4>3, <4>4
    <3>5. QED BY <3>3, <3>4
  <2>14. UnionInv'
    <3>1. \A i \in 1 .. n - 1 : i \in 1 .. n BY <1>1
    <3>2. QED BY <1>2, <1>5, <3>1 DEF ParseInv, UnionInv, Failed
  <2>15. VerdictInv'
    <3>1. SUFFICES ASSUME a.schema.kind = "union" PROVE verdict' = Right(a.schema, a.value, a.now, Strict)
      BY <1>5, <2>1 DEF VerdictInv
    <3>2. In.ctx = a.ctx + 1 BY <2>2, <3>1 DEF Links
    <3>3. \A i \in 1 .. n - 1 : calls[i].ctx # In.ctx
      <4>1. TAKE i \in 1 .. n - 1
      <4>2. i \in 1 .. n /\ calls[i].ctx <= a.ctx BY <1>1, <2>2
      <4>3. QED BY <1>1, <2>1, <3>2, <4>2
    <3>4. Others BY <1>1, <3>3 DEF Others
    <3>5. QED BY <2>4, <3>4
  <2>16. EndInv' BY <2>1 DEF EndInv
  <2>17. QED BY <1>3, <1>4, <2>11, <2>12, <2>13, <2>14, <2>15, <2>16 DEF ParseInv
<1>8. QED BY <1>1, <1>6, <1>7

(***************************************************************************)
(* The steps of a parse.                                                   *)
(***************************************************************************)
\* A context that is added to.
LEMMA ContextIs ==
  ASSUME ParseTypeOK, NEW c \in 1 .. Len(contexts)
  PROVE  contexts[c] \in Contexts
BY DEF ParseTypeOK

\* Putting a context in place of another, ...
LEMMA ContextPut ==
  ASSUME ParseTypeOK, NEW c \in 1 .. Len(contexts), NEW e \in Contexts
  PROVE  /\ [contexts EXCEPT ![c] = e] \in Seq(Contexts)
         /\ Len([contexts EXCEPT ![c] = e]) = Len(contexts)
         /\ \A d \in 1 .. Len(contexts) : [contexts EXCEPT ![c] = e][d] = IF d = c THEN e ELSE contexts[d]
BY DEF ParseTypeOK

\* ... one with more issues, ...
LEMMA IssuesAre ==
  ASSUME ParseTypeOK, calls # <<>>, In.ctx \in 1 .. Len(contexts),
         NEW what \in SUBSET (Kinds \cup {"unknown key"})
  PROVE  /\ Issues(what) \in Seq(Contexts) /\ Len(Issues(what)) = Len(contexts)
         /\ \A c \in 1 .. Len(contexts) :
              /\ c # In.ctx => Issues(what)[c] = contexts[c]
              /\ Issues(what)[c].unknown = contexts[c].unknown
         /\ Issues(what)[In.ctx].issues = contexts[In.ctx].issues \cup what
<1> DEFINE e == [contexts[In.ctx] EXCEPT !.issues = @ \cup what]
<1>1. contexts[In.ctx] \in Contexts BY ContextIs
<1>2. /\ e \in Contexts /\ e.unknown = contexts[In.ctx].unknown
      /\ e.issues = contexts[In.ctx].issues \cup what
  BY <1>1 DEF Contexts
<1>3. Issues(what) = [contexts EXCEPT ![In.ctx] = e] BY DEF Issues
<1> HIDE DEF e
<1>4. /\ [contexts EXCEPT ![In.ctx] = e] \in Seq(Contexts)
      /\ Len([contexts EXCEPT ![In.ctx] = e]) = Len(contexts)
      /\ \A d \in 1 .. Len(contexts) :
           [contexts EXCEPT ![In.ctx] = e][d] = IF d = In.ctx THEN e ELSE contexts[d]
  BY <1>2, ContextPut
<1>5. QED BY <1>2, <1>3, <1>4

\* ... and one with more unknown keys.
LEMMA ReportsAre ==
  ASSUME ParseTypeOK, calls # <<>>, In.ctx \in 1 .. Len(contexts), NEW extra \in SUBSET Names
  PROVE  LET there == [contexts EXCEPT ![In.ctx].unknown = @ \cup extra]
         IN  /\ there \in Seq(Contexts) /\ Len(there) = Len(contexts)
             /\ \A c \in 1 .. Len(contexts) :
                  /\ c # In.ctx => there[c] = contexts[c]
                  /\ there[c].issues = contexts[c].issues
             /\ there[In.ctx].unknown = contexts[In.ctx].unknown \cup extra
<1> DEFINE e == [contexts[In.ctx] EXCEPT !.unknown = @ \cup extra]
           there == [contexts EXCEPT ![In.ctx].unknown = @ \cup extra]
<1>1. contexts[In.ctx] \in Contexts BY ContextIs
<1>2. /\ e \in Contexts /\ e.issues = contexts[In.ctx].issues
      /\ e.unknown = contexts[In.ctx].unknown \cup extra
  BY <1>1 DEF Contexts
<1>3. there = [contexts EXCEPT ![In.ctx] = e] OBVIOUS
<1> HIDE DEF e
<1>4. /\ [contexts EXCEPT ![In.ctx] = e] \in Seq(Contexts)
      /\ Len([contexts EXCEPT ![In.ctx] = e]) = Len(contexts)
      /\ \A d \in 1 .. Len(contexts) :
           [contexts EXCEPT ![In.ctx] = e][d] = IF d = In.ctx THEN e ELSE contexts[d]
  BY <1>2, ContextPut
<1>5. QED BY <1>2, <1>3, <1>4

\* What the innermost activation's context holds.
LEMMA InnermostSays ==
  ASSUME ParseInv, calls # <<>>
  PROVE  /\ In = calls[Len(calls)] /\ Len(calls) \in 1 .. Len(calls) /\ Len(calls) \in Nat \ {0}
         /\ In.ctx \in 1 .. Len(contexts) /\ In.ctx \in Nat \ {0} /\ 1 \in 1 .. In.ctx
         /\ In.phase # "part" \/ In.schema.kind # "union" => Len(contexts) = In.ctx
         /\ contexts[In.ctx].issues = {} <=> Others /\ AllRight(Len(calls))
         /\ \A x : x \in contexts[1].unknown <=>
                     Reports /\ (MeetsBefore(x) \/ (In.ctx = 1 /\ Meets(Len(calls), x)))
<1>1. /\ In = calls[Len(calls)] /\ Len(calls) \in 1 .. Len(calls) /\ Len(calls) \in Nat \ {0}
      /\ In.ctx \in Nat \ {0}
  BY InIs DEF In, ParseInv
<1>2. /\ In.ctx \in 1 .. Len(contexts) /\ 1 \in 1 .. In.ctx
      /\ In.phase # "part" \/ In.schema.kind # "union" => Len(contexts) = In.ctx
  BY <1>1 DEF ParseInv, ContextInv, Deepest
<1>3. \A i \in 1 .. Len(calls) : i = Len(calls) \/ i \in 1 .. Len(calls) - 1 BY <1>1
<1>4. \A i \in 1 .. Len(calls) - 1 : i \in 1 .. Len(calls) BY <1>1
<1>5. contexts[In.ctx].issues = {} <=> \A i \in 1 .. Len(calls) : calls[i].ctx = In.ctx => AllRight(i)
  BY <1>1 DEF ParseInv, IssueInv
<1>6. contexts[In.ctx].issues = {} <=> Others /\ AllRight(Len(calls))
  BY <1>1, <1>3, <1>4, <1>5 DEF Others
<1>7. \A x : x \in contexts[1].unknown <=>
               Reports /\ \E i \in 1 .. Len(calls) : calls[i].ctx = 1 /\ Meets(i, x)
  BY DEF ParseInv, UnknownInv
<1>8. \A x : x \in contexts[1].unknown <=>
               Reports /\ (MeetsBefore(x) \/ (In.ctx = 1 /\ Meets(Len(calls), x)))
  BY <1>1, <1>3, <1>4, <1>7 DEF MeetsBefore
<1>9. QED BY <1>1, <1>2, <1>6, <1>8

\* An activation just called has no parts that are over.
LEMMA CalledSaysNothing ==
  ASSUME ParseInv, calls # <<>>, In.phase = "called"
  PROVE  AllRight(Len(calls)) /\ \A x : ~Meets(Len(calls), x)
BY InnermostSays DEF AllRight, Meets, Over

\* optional() and nullable() keep the invariant, ...
LEMMA LetsThroughKeeps == ParseInv /\ LetsThrough => ParseInv'
<1> SUFFICES ASSUME ParseInv, LetsThrough PROVE ParseInv' OBVIOUS
<1>1. calls # <<>> /\ In.phase = "called" /\ Excused(In.schema, In.value) BY DEF LetsThrough
<1>2. /\ verdict' = TRUE /\ calls' = SubSeq(calls, 1, Len(calls) - 1)
      /\ response' = response /\ contexts' = contexts
  BY DEF LetsThrough, Gives
<1>3. In.schema \in Schemas /\ In.value \in Data BY <1>1, InIs DEF ParseInv
<1>4. Conforms(In.schema, In.value, Strict) = TRUE /\ UnknownKeys(In.schema, In.value) = {}
  <2>1. ~Opened(In.schema, In.value) BY <1>1 DEF Opened
  <2>2. Conforms(In.schema, In.value, Strict) <=> TRUE BY <1>1, <1>3, <2>1, Outright
  <2>3. Conforms(In.schema, In.value, Strict) \in BOOLEAN BY <1>3, ConformsIsBoolean
  <2>4. UnknownKeys(In.schema, In.value) = {} BY <1>3, <2>1, Outright
  <2>5. QED BY <2>2, <2>3, <2>4
<1>5. /\ contexts'[In.ctx].issues = {} <=> Others /\ Whole
      /\ In.ctx = 1 => \A x : x \in contexts'[1].unknown <=>
                         Reports /\ (MeetsBefore(x) \/ x \in UnknownKeys(In.schema, In.value))
      /\ contexts' \in Seq(Contexts) /\ Len(contexts') = In.ctx
  BY <1>1, <1>2, <1>4, InnermostSays, CalledSaysNothing DEF Whole, ParseInv, ParseTypeOK
<1>6. QED BY <1>1, <1>2, <1>4, <1>5, Returning DEF Whole

\* ... so does a scalar that is taken, ...
LEMMA TakesKeeps == ParseInv /\ Takes => ParseInv'
<1> SUFFICES ASSUME ParseInv, Takes PROVE ParseInv' OBVIOUS
<1>1. /\ calls # <<>> /\ In.phase = "called" /\ In.schema.kind \in Scalars
      /\ Fits(In.schema, In.value)
  BY DEF Takes
<1>2. /\ verdict' = TRUE /\ calls' = SubSeq(calls, 1, Len(calls) - 1)
      /\ response' = response /\ contexts' = contexts
  BY DEF Takes, Gives
<1>3. In.schema \in Schemas /\ In.value \in Data BY <1>1, InIs DEF ParseInv
<1>4. Conforms(In.schema, In.value, Strict) = TRUE /\ UnknownKeys(In.schema, In.value) = {}
  <2>1. ~Opened(In.schema, In.value) BY <1>1 DEF Opened
  <2>2. Conforms(In.schema, In.value, Strict) <=> TRUE BY <1>1, <1>3, <2>1, Outright
  <2>3. Conforms(In.schema, In.value, Strict) \in BOOLEAN BY <1>3, ConformsIsBoolean
  <2>4. UnknownKeys(In.schema, In.value) = {} BY <1>3, <2>1, Outright
  <2>5. QED BY <2>2, <2>3, <2>4
<1>5. /\ contexts'[In.ctx].issues = {} <=> Others /\ Whole
      /\ In.ctx = 1 => \A x : x \in contexts'[1].unknown <=>
                         Reports /\ (MeetsBefore(x) \/ x \in UnknownKeys(In.schema, In.value))
      /\ contexts' \in Seq(Contexts) /\ Len(contexts') = In.ctx
  BY <1>1, <1>2, <1>4, InnermostSays, CalledSaysNothing DEF Whole, ParseInv, ParseTypeOK
<1>6. QED BY <1>1, <1>2, <1>4, <1>5, Returning DEF Whole

\* ... and a value that is refused.
LEMMA RefusesKeeps == ParseInv /\ Refuses => ParseInv'
<1> SUFFICES ASSUME ParseInv, Refuses PROVE ParseInv' OBVIOUS
<1>1. /\ calls # <<>> /\ In.phase = "called"
      /\ ~Excused(In.schema, In.value) /\ ~Fits(In.schema, In.value)
  BY DEF Refuses
<1>2. /\ verdict' = FALSE /\ calls' = SubSeq(calls, 1, Len(calls) - 1)
      /\ response' = response /\ contexts' = Issues({In.schema.kind})
  BY DEF Refuses, Gives
<1>3. In.schema \in Schemas /\ In.value \in Data BY <1>1, InIs DEF ParseInv
<1>4. Conforms(In.schema, In.value, Strict) = FALSE /\ UnknownKeys(In.schema, In.value) = {}
  <2>1. ~Opened(In.schema, In.value) BY <1>1 DEF Opened
  <2>2. ~Conforms(In.schema, In.value, Strict) BY <1>1, <1>3, <2>1, Outright
  <2>3. Conforms(In.schema, In.value, Strict) \in BOOLEAN BY <1>3, ConformsIsBoolean
  <2>4. UnknownKeys(In.schema, In.value) = {} BY <1>3, <2>1, Outright
  <2>5. QED BY <2>2, <2>3, <2>4
<1>5. {In.schema.kind} \in SUBSET (Kinds \cup {"unknown key"}) BY <1>3, SchemaAssumption
<1>6. /\ contexts' \in Seq(Contexts) /\ Len(contexts') = Len(contexts)
      /\ \A c \in 1 .. Len(contexts) :
           /\ c # In.ctx => contexts'[c] = contexts[c]
           /\ contexts'[c].unknown = contexts[c].unknown
      /\ contexts'[In.ctx].issues = contexts[In.ctx].issues \cup {In.schema.kind}
  BY <1>1, <1>2, <1>5, IssuesAre, InnermostSays DEF ParseInv
<1>7. /\ contexts'[In.ctx].issues # {} /\ ~Whole
      /\ In.ctx = 1 => \A x : x \in contexts'[1].unknown <=>
                         Reports /\ (MeetsBefore(x) \/ x \in UnknownKeys(In.schema, In.value))
      /\ Len(contexts') = In.ctx /\ \A c \in 1 .. In.ctx - 1 : contexts'[c] = contexts[c]
  BY <1>1, <1>4, <1>6, InnermostSays, CalledSaysNothing DEF Whole
<1>8. QED BY <1>1, <1>2, <1>4, <1>6, <1>7, Returning DEF Whole

\* The parts of the innermost activation that are over.
OverLast(a) == IF a.phase = "called" THEN {} ELSE Parts(a.schema, a.value) \ a.todo

\* What the innermost activation says, in terms of its own fields.
LEMMA InnermostOver ==
  ASSUME ParseInv, calls # <<>>
  PROVE  /\ Over(Len(calls)) = OverLast(In)
         /\ AllRight(Len(calls)) <=>
              (In.schema.kind # "union" => \A k \in OverLast(In) : Right(In.schema, In.value, k, Strict))
         /\ \A x : Meets(Len(calls), x) <=>
              In.schema.kind # "union" /\ \E k \in OverLast(In) : x \in Strange(In.schema, In.value, k)
<1>1. In = calls[Len(calls)] /\ Len(calls) \in Nat BY InnermostSays
<1>2. ~(Len(calls) < Len(calls)) BY <1>1
<1>3. Over(Len(calls)) = OverLast(In) BY <1>1, <1>2 DEF Over, OverLast
<1>4. QED BY <1>1, <1>3 DEF AllRight, Meets

\* An activation that goes on between two parts leaves its context right.
LEMMA GoingOn ==
  ASSUME ParseInv, calls # <<>>, response' = response,
         NEW a \in Activations, calls' = Becomes(a), Goes(a), a.phase = "parts",
         a.schema = In.schema, a.value = In.value, a.ctx = In.ctx,
         contexts' \in Seq(Contexts), Len(contexts') = In.ctx,
         \A c \in 1 .. In.ctx - 1 : contexts'[c] = contexts[c],
         contexts'[In.ctx].issues = {} <=>
           Others /\ (a.schema.kind # "union" => \A k \in OverLast(a) : Right(a.schema, a.value, k, Strict)),
         In.ctx = 1 => \A x : x \in contexts'[1].unknown <=>
           Reports /\ (MeetsBefore(x) \/ (a.schema.kind # "union"
                                          /\ \E k \in OverLast(a) : x \in Strange(a.schema, a.value, k))),
         a.schema.kind = "union" => \A k \in OverLast(a) : ~Right(a.schema, a.value, k, Strict),
         verdict' \in BOOLEAN
  PROVE  ParseInv'
<1>0. PICK n : n = Len(calls) OBVIOUS
<1>1. /\ n = Len(calls) /\ n \in Nat \ {0} /\ n \in 1 .. n /\ In = calls[n] /\ In.ctx \in Nat \ {0}
      /\ \A i \in 1 .. n : calls[i].ctx \in Nat \ {0} /\ calls[i].ctx <= In.ctx
  <2>1. Len(calls) \in Nat \ {0} /\ Len(calls) \in 1 .. Len(calls) /\ In = calls[Len(calls)]
        /\ In.ctx \in Nat \ {0}
    BY InnermostSays
  <2>2. \A i \in 1 .. Len(calls) : calls[i] \in Activations BY InIs DEF ParseInv
  <2>3. \A i \in 1 .. Len(calls) : calls[i].ctx <= In.ctx BY <2>1 DEF ParseInv, CallsInv
  <2>4. QED BY <1>0, <2>1, <2>2, <2>3 DEF Activations
<1>2. /\ calls' \in Seq(Activations) /\ Len(calls') = n /\ calls' # <<>> /\ In' = a
      /\ calls'[n] = a /\ \A i \in 1 .. n - 1 : calls'[i] = calls[i]
  <2>1. /\ calls' \in Seq(Activations) /\ Len(calls') = Len(calls) /\ calls' # <<>> /\ In' = a
        /\ \A i \in 1 .. Len(calls) : calls'[i] = IF i = Len(calls) THEN a ELSE calls[i]
    BY Moved DEF ParseInv
  <2>2. \A i \in 1 .. n - 1 : i \in 1 .. n /\ i # n BY <1>1
  <2>3. QED BY <1>1, <2>1, <2>2
<1>3. Waits(a) BY DEF Waits
<1>4. CallsInv' BY <1>3, MovedCalls DEF ParseInv
<1>5. ParseTypeOK' BY <1>2 DEF ParseInv, ParseTypeOK
<1>6. ContextInv' BY <1>2 DEF ContextInv, Deepest
<1>7. Strict' = Strict /\ Options' = Options /\ Reports' = Reports BY SameOptions DEF Reports
<1>8. \A i \in 1 .. n : i = n \/ i \in 1 .. n - 1 BY <1>1
<1>9. \A i \in 1 .. n - 1 : i \in 1 .. n /\ i < n BY <1>1
<1>10. \A i \in 1 .. n - 1 : (AllRight(i)' <=> AllRight(i)) /\ \A x : Meets(i, x)' <=> Meets(i, x)
  <2>1. TAKE i \in 1 .. n - 1
  <2>2. calls'[i] = calls[i] /\ i < Len(calls) /\ i < Len(calls') BY <1>1, <1>2, <1>9
  <2>3. Over(i)' = Over(i) BY <2>2 DEF Over
  <2>4. AllRight(i)' <=> AllRight(i) BY <1>7, <2>2, <2>3 DEF AllRight
  <2>5. \A x : Meets(i, x)' <=> Meets(i, x) BY <2>2, <2>3 DEF Meets
  <2>6. QED BY <2>4, <2>5
<1>11. /\ AllRight(n)' <=>
            (a.schema.kind # "union" => \A k \in OverLast(a) : Right(a.schema, a.value, k, Strict))
       /\ \A x : Meets(n, x)' <=>
            a.schema.kind # "union" /\ \E k \in OverLast(a) : x \in Strange(a.schema, a.value, k)
  <2>1. ~(n < Len(calls')) BY <1>1, <1>2
  <2>2. Over(n)' = OverLast(a) BY <1>2, <2>1 DEF Over, OverLast
  <2>3. QED BY <1>2, <1>7, <2>2 DEF AllRight, Meets
<1>12. IssueInv'
  <2> SUFFICES ASSUME NEW c \in 1 .. In.ctx
               PROVE  contexts'[c].issues = {} <=> \A i \in 1 .. n : calls'[i].ctx = c => AllRight(i)'
    BY <1>2 DEF IssueInv
  <2>1. contexts[c].issues = {} <=> \A i \in 1 .. n : calls[i].ctx = c => AllRight(i)
    BY <1>1 DEF ParseInv, IssueInv
  <2>2. CASE c = In.ctx
    <3>1. Others <=> \A i \in 1 .. n - 1 : calls[i].ctx = c => AllRight(i) BY <1>1, <2>2 DEF Others
    <3>2. QED BY <1>1, <1>2, <1>8, <1>9, <1>10, <1>11, <2>2, <3>1
  <2>3. CASE c # In.ctx
    <3>1. c \in 1 .. In.ctx - 1 BY <1>1, <2>3
    <3>2. contexts'[c] = contexts[c] BY <3>1
    <3>3. calls[n].ctx # c /\ calls'[n].ctx # c BY <1>1, <1>2, <2>3
    <3>4. QED BY <1>2, <1>8, <1>9, <1>10, <2>1, <3>2, <3>3
  <2>4. QED BY <2>2, <2>3
<1>13. UnknownInv'
  <2> SUFFICES ASSUME NEW x
               PROVE  x \in contexts'[1].unknown <=>
                        Reports /\ \E i \in 1 .. n : calls'[i].ctx = 1 /\ Meets(i, x)'
    BY <1>2, <1>7 DEF UnknownInv
  <2>1. MeetsBefore(x) <=> \E i \in 1 .. n - 1 : calls[i].ctx = 1 /\ Meets(i, x)
    BY <1>1 DEF MeetsBefore
  <2>2. CASE In.ctx = 1 BY <1>1, <1>2, <1>8, <1>9, <1>10, <1>11, <2>1, <2>2
  <2>3. CASE In.ctx # 1
    <3>1. contexts'[1] = contexts[1] BY <1>1, <2>3
    <3>2. x \in contexts[1].unknown <=> Reports /\ MeetsBefore(x)
      BY <2>3, InnermostSays
    <3>3. calls'[n].ctx # 1 BY <1>2, <2>3
    <3>4. QED BY <1>2, <1>8, <1>9, <1>10, <2>1, <3>1, <3>2, <3>3
  <2>4. QED BY <2>2, <2>3
<1>14. UnionInv'
  <2>1. Failed(a) = OverLast(a) BY DEF Failed, OverLast
  <2>2. SUFFICES ASSUME NEW i \in 1 .. n, calls'[i].phase # "called", calls'[i].schema.kind = "union",
                        NEW k \in Failed(calls'[i])
                 PROVE  ~Right(calls'[i].schema, calls'[i].value, k, Strict)
    BY <1>2, <1>7 DEF UnionInv, Failed
  <2>3. CASE i = n BY <1>2, <2>1, <2>2, <2>3
  <2>4. CASE i # n
    <3>1. calls'[i] = calls[i] /\ i \in 1 .. Len(calls) BY <1>1, <1>2, <1>8, <2>4
    <3>2. QED BY <2>2, <3>1 DEF ParseInv, UnionInv
  <2>5. QED BY <2>3, <2>4
<1>15. VerdictInv' /\ EndInv' BY <1>2 DEF VerdictInv, EndInv
<1>16. QED BY <1>4, <1>5, <1>6, <1>12, <1>13, <1>14, <1>15 DEF ParseInv

\* A value that is opened keeps the invariant, ...
LEMMA OpensKeeps == ParseInv /\ Opens => ParseInv'
<1> SUFFICES ASSUME ParseInv, Opens PROVE ParseInv' OBVIOUS
<1> DEFINE a == [In EXCEPT !.phase = "parts", !.todo = Parts(In.schema, In.value)]
<1>1. /\ calls # <<>> /\ In.phase = "called" /\ Opened(In.schema, In.value)
      /\ calls' = Becomes(a) /\ response' = response /\ contexts' = contexts /\ verdict' = verdict
  BY DEF Opens, Opened
<1>2. In \in Activations /\ In.schema \in Schemas /\ In.value \in Data BY <1>1, InIs DEF ParseInv
<1>3. Parts(In.schema, In.value) \subseteq Places BY <1>1, <1>2, PartsArePlaces
<1>4. /\ a \in Activations /\ a.phase = "parts" /\ a.schema = In.schema /\ a.value = In.value
      /\ a.ctx = In.ctx /\ a.todo = Parts(In.schema, In.value)
  BY <1>2, <1>3 DEF Activations
<1> HIDE DEF a
<1>5. Goes(a) BY <1>1, <1>4 DEF Goes
<1>6. OverLast(a) = {} BY <1>4 DEF OverLast
<1>7. AllRight(Len(calls)) /\ \A x : ~Meets(Len(calls), x) BY <1>1, CalledSaysNothing
<1>8. /\ contexts' \in Seq(Contexts) /\ Len(contexts') = In.ctx
      /\ contexts'[In.ctx].issues = {} <=> Others
      /\ \A x : x \in contexts'[1].unknown <=> Reports /\ MeetsBefore(x)
  BY <1>1, <1>7, InnermostSays DEF ParseInv, ParseTypeOK
<1>9. QED BY <1>1, <1>4, <1>5, <1>6, <1>8, GoingOn DEF ParseInv, ParseTypeOK

\* ... so does a key that is missing, ...
LEMMA MissesKeeps == ASSUME NEW k PROVE ParseInv /\ Misses(k) => ParseInv'
<1> SUFFICES ASSUME ParseInv, Misses(k) PROVE ParseInv' OBVIOUS
<1> DEFINE a == [In EXCEPT !.todo = @ \ {k}]
           optional == In.schema.shape[k].optional
<1>1. /\ calls # <<>> /\ In.phase = "parts" /\ k \in In.todo
      /\ In.schema.kind = "object" /\ k \notin DOMAIN In.value.fields
      /\ calls' = Becomes(a) /\ response' = response /\ verdict' = verdict
      /\ contexts' = IF optional THEN contexts ELSE Issues({In.schema.shape[k].kind})
  BY DEF Misses, IsNext, IsMissing
<1>2. In \in Activations /\ In.schema \in Schemas /\ In.value \in Data BY <1>1, InIs DEF ParseInv
<1>3. Goes(In) BY <1>1, InnermostSays DEF ParseInv, CallsInv
<1>4. /\ Opened(In.schema, In.value) /\ In.todo \subseteq Parts(In.schema, In.value)
      /\ k \in Parts(In.schema, In.value)
  BY <1>1, <1>3 DEF Goes
<1>5. In.todo \ {k} \in SUBSET Places BY <1>2 DEF Activations
<1>6. /\ a \in Activations /\ a.phase = "parts" /\ a.schema = In.schema /\ a.value = In.value
      /\ a.ctx = In.ctx /\ a.todo = In.todo \ {k}
  BY <1>1, <1>2, <1>5 DEF Activations
<1> HIDE DEF a
<1>7. Goes(a) BY <1>4, <1>6 DEF Goes
<1>8. OverLast(a) = OverLast(In) \cup {k} BY <1>1, <1>4, <1>6 DEF OverLast
<1>9. /\ Right(In.schema, In.value, k, Strict) = optional
      /\ \A x : x \notin Strange(In.schema, In.value, k)
  BY <1>1 DEF Right, Strange, IsThere
<1>10. In.schema.shape[k].kind \in Kinds
  <2>1. k \in DOMAIN In.schema.shape BY <1>1, <1>4 DEF Parts
  <2>2. In.schema.shape[k] \in Schemas BY <1>1, <1>2, <2>1, PartsAreHeld
  <2>3. QED BY <2>2, SchemaAssumption
<1>11. /\ contexts' \in Seq(Contexts) /\ Len(contexts') = In.ctx
       /\ \A c \in 1 .. In.ctx - 1 : contexts'[c] = contexts[c]
       /\ contexts'[1].unknown = contexts[1].unknown
       /\ contexts'[In.ctx].issues = {} <=> contexts[In.ctx].issues = {} /\ optional
  <2>0. Len(contexts) = In.ctx /\ In.ctx \in 1 .. Len(contexts) /\ In.ctx \in Nat \ {0} /\ 1 \in 1 .. In.ctx
    BY <1>1, InnermostSays
  <2>1. CASE optional BY <1>1, <2>0, <2>1 DEF ParseInv, ParseTypeOK
  <2>2. CASE ~optional
    <3>1. PICK what : what = {In.schema.shape[k].kind} OBVIOUS
    <3>2. what \in SUBSET (Kinds \cup {"unknown key"}) /\ what # {} BY <1>10, <3>1
    <3>3. /\ contexts' \in Seq(Contexts) /\ Len(contexts') = Len(contexts)
          /\ \A c \in 1 .. Len(contexts) :
               /\ c # In.ctx => contexts'[c] = contexts[c]
               /\ contexts'[c].unknown = contexts[c].unknown
          /\ contexts'[In.ctx].issues = contexts[In.ctx].issues \cup what
      <4>1. contexts' = Issues(what) BY <1>1, <2>2, <3>1
      <4>2. ParseTypeOK BY DEF ParseInv
      <4>3. calls # <<>> /\ In.ctx \in 1 .. Len(contexts) BY <1>1, <2>0
      <4>4. /\ Issues(what) \in Seq(Contexts) /\ Len(Issues(what)) = Len(contexts)
            /\ \A c \in 1 .. Len(contexts) :
                 /\ c # In.ctx => Issues(what)[c] = contexts[c]
                 /\ Issues(what)[c].unknown = contexts[c].unknown
            /\ Issues(what)[In.ctx].issues = contexts[In.ctx].issues \cup what
        BY <3>2, <4>2, <4>3, IssuesAre
      <4>5. QED BY <4>1, <4>4
    <3>4. contexts'[In.ctx].issues # {} BY <3>2, <3>3
    <3>5. QED BY <2>0, <2>2, <3>3, <3>4
  <2>3. QED BY <2>1, <2>2
<1>12. /\ contexts'[In.ctx].issues = {} <=>
            Others /\ \A j \in OverLast(a) : Right(In.schema, In.value, j, Strict)
       /\ In.ctx = 1 => \A x : x \in contexts'[1].unknown <=>
            Reports /\ (MeetsBefore(x) \/ \E j \in OverLast(a) : x \in Strange(In.schema, In.value, j))
  BY <1>1, <1>8, <1>9, <1>11, InnermostSays, InnermostOver
<1>13. QED BY <1>1, <1>6, <1>7, <1>11, <1>12, GoingOn DEF ParseInv, ParseTypeOK

\* ... a part that is parsed, in the context or in a new one, ...
LEMMA ParsesKeeps == ASSUME NEW k PROVE ParseInv /\ Parses(k) => ParseInv'
<1> SUFFICES ASSUME ParseInv, Parses(k) PROVE ParseInv' OBVIOUS
<1>0. PICK n, a, b :
        /\ n = Len(calls)
        /\ a = [In EXCEPT !.phase = "part", !.todo = @ \ {k}, !.now = k]
        /\ b = Call(PartSchema(In.schema, k), PartValue(In.schema, In.value, k),
                    IF In.schema.kind = "union" THEN ChildContext ELSE In.ctx)
  OBVIOUS
<1>1. /\ calls # <<>> /\ In.phase = "parts" /\ k \in In.todo
      /\ In.schema.kind = "object" => k \in DOMAIN In.value.fields
      /\ calls' = Append(Becomes(a), b) /\ response' = response /\ verdict' = verdict
      /\ contexts' = IF In.schema.kind = "union" THEN Append(contexts, NewContext) ELSE contexts
  BY <1>0 DEF Parses, IsNext, IsMissing
<1>2. /\ n = Len(calls) /\ n \in Nat \ {0} /\ n \in 1 .. n /\ In = calls[n] /\ In.ctx \in Nat \ {0}
      /\ Len(contexts) = In.ctx
  BY <1>0, <1>1, InnermostSays
<1>3. /\ In \in Activations /\ In.schema \in Schemas /\ In.value \in Data
      /\ \A i \in 1 .. n : calls[i].ctx \in Nat \ {0} /\ calls[i].ctx <= In.ctx
  <2>1. In \in Activations /\ In.schema \in Schemas /\ In.value \in Data
        /\ \A i \in 1 .. n : calls[i] \in Activations
    BY <1>1, <1>2, InIs DEF ParseInv
  <2>2. \A i \in 1 .. n : calls[i].ctx <= In.ctx BY <1>2 DEF ParseInv, CallsInv
  <2>3. QED BY <2>1, <2>2 DEF Activations
<1>4. Goes(In) BY <1>2 DEF ParseInv, CallsInv
<1>5. /\ Opened(In.schema, In.value) /\ In.todo \subseteq Parts(In.schema, In.value)
      /\ IsThere(In.schema, In.value, k) /\ k \in Parts(In.schema, In.value)
  BY <1>1, <1>4 DEF Goes, IsThere
<1>6. PartSchema(In.schema, k) \in Schemas /\ PartValue(In.schema, In.value, k) \in Data
  BY <1>3, <1>5, PartIsHeld
<1>7. In.todo \ {k} \in SUBSET Places /\ k \in Places BY <1>1, <1>3 DEF Activations
<1>8. /\ a \in Activations /\ a.phase = "part" /\ a.schema = In.schema /\ a.value = In.value
      /\ a.ctx = In.ctx /\ a.todo = In.todo \ {k} /\ a.now = k
  BY <1>0, <1>3, <1>7 DEF Activations
<1>9. /\ b.schema = PartSchema(In.schema, k) /\ b.value = PartValue(In.schema, In.value, k)
      /\ b.ctx = IF In.schema.kind = "union" THEN In.ctx + 1 ELSE In.ctx
      /\ b.phase = "called" /\ b.todo = {} /\ b.now = "none"
      /\ b = [schema |-> b.schema, value |-> b.value, ctx |-> b.ctx, phase |-> b.phase,
              todo |-> b.todo, now |-> b.now]
  BY <1>0 DEF Call, ChildContext
<1>10. b.ctx \in Nat \ {0} BY <1>2, <1>9
<1>11. b \in Activations BY <1>6, <1>9, <1>10 DEF Activations
<1>12. Goes(a) /\ Waits(a) /\ Goes(b) /\ Waits(b) /\ Links(a, b)
  BY <1>5, <1>8, <1>9 DEF Goes, Waits, Links
<1>13. CallsInv' BY <1>1, <1>8, <1>11, <1>12, PushedCalls DEF ParseInv
<1>14. /\ calls' \in Seq(Activations) /\ Len(calls') = n + 1 /\ calls' # <<>>
       /\ calls'[n] = a /\ \A i \in 1 .. n - 1 : calls'[i] = calls[i]
       /\ calls'[n + 1] = b /\ In' = b
  <2>1. /\ calls' \in Seq(Activations) /\ Len(calls') = Len(calls) + 1 /\ calls' # <<>>
        /\ \A i \in 1 .. Len(calls) : calls'[i] = IF i = Len(calls) THEN a ELSE calls[i]
        /\ calls'[Len(calls) + 1] = b /\ In' = b
    BY <1>1, <1>8, <1>11, Pushed DEF ParseInv
  <2>2. \A i \in 1 .. n - 1 : i \in 1 .. n /\ i # n BY <1>2
  <2>3. QED BY <1>2, <2>1, <2>2
<1>15. /\ contexts' \in Seq(Contexts) /\ Len(contexts') = b.ctx
       /\ \A c \in 1 .. In.ctx : contexts'[c] = contexts[c]
       /\ In.schema.kind = "union" => contexts'[b.ctx].issues = {}
  <2>1. contexts \in Seq(Contexts) BY DEF ParseInv, ParseTypeOK
  <2>2. CASE In.schema.kind = "union"
    <3>1. NewContext \in Contexts /\ NewContext.issues = {} BY DEF NewContext, Contexts
    <3>2. contexts' = Append(contexts, NewContext) BY <1>1, <2>2
    <3>3. /\ contexts' \in Seq(Contexts) /\ Len(contexts') = Len(contexts) + 1
          /\ \A c \in 1 .. Len(contexts) : contexts'[c] = contexts[c]
          /\ contexts'[Len(contexts) + 1] = NewContext
      BY <2>1, <3>1, <3>2, AppendProperties
    <3>4. QED BY <1>2, <1>9, <2>2, <3>1, <3>3
  <2>3. CASE In.schema.kind # "union" BY <1>1, <1>2, <1>9, <2>1, <2>3
  <2>4. QED BY <2>2, <2>3
<1>16. ParseTypeOK' BY <1>1, <1>14, <1>15 DEF ParseInv, ParseTypeOK
<1>17. ContextInv' BY <1>9, <1>14, <1>15 DEF ContextInv, Deepest
<1>18. Strict' = Strict /\ Options' = Options /\ Reports' = Reports BY <1>1, SameOptions DEF Reports
<1>19. /\ \A i \in 1 .. n + 1 : i = n + 1 \/ i \in 1 .. n
       /\ \A i \in 1 .. n : i = n \/ i \in 1 .. n - 1
       /\ \A i \in 1 .. n : i \in 1 .. n + 1
       /\ \A i \in 1 .. n - 1 : i \in 1 .. n /\ i < n /\ i < n + 1
       /\ n + 1 \in 1 .. n + 1
  BY <1>2
<1>20. \A i \in 1 .. n : /\ calls'[i].schema = calls[i].schema /\ calls'[i].value = calls[i].value
                         /\ calls'[i].ctx = calls[i].ctx /\ Over(i)' = Over(i)
  <2>1. ASSUME NEW i \in 1 .. n - 1 PROVE calls'[i] = calls[i] /\ Over(i)' = Over(i)
    <3>1. calls'[i] = calls[i] /\ i < Len(calls) /\ i < Len(calls') BY <1>2, <1>14, <1>19
    <3>2. QED BY <3>1 DEF Over
  <2>2. Over(n)' = Over(n)
    <3>1. ~(n < Len(calls)) /\ n < Len(calls') BY <1>2, <1>14
    <3>2. Over(n) = Parts(In.schema, In.value) \ In.todo BY <1>1, <1>2, <3>1 DEF Over
    <3>3. Over(n)' = Parts(In.schema, In.value) \ (a.todo \cup {a.now})
      BY <1>8, <1>14, <3>1 DEF Over
    <3>4. QED BY <1>1, <1>8, <3>2, <3>3
  <2>3. QED BY <1>2, <1>8, <1>14, <1>19, <2>1, <2>2
<1>21. \A i \in 1 .. n : (AllRight(i)' <=> AllRight(i)) /\ \A x : Meets(i, x)' <=> Meets(i, x)
  BY <1>18, <1>20 DEF AllRight, Meets
<1>22. AllRight(n + 1)' /\ \A x : ~Meets(n + 1, x)'
  BY <1>9, <1>14 DEF AllRight, Meets, Over
<1>23. IssueInv'
  <2> SUFFICES ASSUME NEW c \in 1 .. b.ctx
               PROVE  contexts'[c].issues = {} <=> \A i \in 1 .. n + 1 : calls'[i].ctx = c => AllRight(i)'
    BY <1>14 DEF IssueInv
  <2>1. CASE c \in 1 .. In.ctx
    <3>1. contexts[c].issues = {} <=> \A i \in 1 .. n : calls[i].ctx = c => AllRight(i)
      BY <1>1, <1>2, <2>1 DEF ParseInv, IssueInv
    <3>2. contexts'[c] = contexts[c] BY <1>15, <2>1
    <3>3. QED BY <1>19, <1>20, <1>21, <1>22, <3>1, <3>2
  <2>2. CASE c \notin 1 .. In.ctx
    <3>1. c = In.ctx + 1 /\ c = b.ctx /\ In.schema.kind = "union" BY <1>2, <1>9, <2>2
    <3>2. \A i \in 1 .. n : calls'[i].ctx # c BY <1>2, <1>3, <1>20, <3>1
    <3>3. QED BY <1>15, <1>19, <1>22, <3>1, <3>2
  <2>3. QED BY <2>1, <2>2
<1>24. UnknownInv'
  <2> SUFFICES ASSUME NEW x
               PROVE  x \in contexts'[1].unknown <=>
                        Reports /\ \E i \in 1 .. n + 1 : calls'[i].ctx = 1 /\ Meets(i, x)'
    BY <1>14, <1>18 DEF UnknownInv
  <2>1. x \in contexts[1].unknown <=> Reports /\ \E i \in 1 .. n : calls[i].ctx = 1 /\ Meets(i, x)
    BY <1>1, <1>2 DEF ParseInv, UnknownInv
  <2>2. contexts'[1] = contexts[1] BY <1>2, <1>15
  <2>3. QED BY <1>19, <1>20, <1>21, <1>22, <2>1, <2>2
<1>25. UnionInv'
  <2> SUFFICES ASSUME NEW i \in 1 .. n + 1, calls'[i].phase # "called", calls'[i].schema.kind = "union",
                      NEW j \in Failed(calls'[i])
               PROVE  ~Right(calls'[i].schema, calls'[i].value, j, Strict)
    BY <1>14, <1>18 DEF UnionInv, Failed
  <2>1. CASE i = n + 1 BY <1>9, <1>14, <2>1
  <2>2. CASE i = n
    <3>1. Failed(a) = Failed(In) BY <1>1, <1>8 DEF Failed
    <3>2. \A l \in Failed(In) : In.schema.kind = "union" => ~Right(In.schema, In.value, l, Strict)
      BY <1>1, <1>2 DEF ParseInv, UnionInv
    <3>3. QED BY <1>8, <1>14, <2>2, <3>1, <3>2
  <2>3. CASE i \in 1 .. n - 1
    <3>1. calls'[i] = calls[i] /\ i \in 1 .. Len(calls) BY <1>2, <1>14, <1>19, <2>3
    <3>2. QED BY <3>1 DEF ParseInv, UnionInv
  <2>4. QED BY <1>19, <2>1, <2>2, <2>3
<1>26. VerdictInv' /\ EndInv' BY <1>9, <1>14 DEF VerdictInv, EndInv
<1>27. QED BY <1>13, <1>16, <1>17, <1>23, <1>24, <1>25, <1>26 DEF ParseInv

\* ... a part that has been parsed, ...
LEMMA PartParsedKeeps == ParseInv /\ PartParsed => ParseInv'
<1> SUFFICES ASSUME ParseInv, PartParsed PROVE ParseInv' OBVIOUS
<1>1. /\ calls # <<>> /\ In.phase = "part" /\ response' = response
      /\ contexts' = SubSeq(contexts, 1, In.ctx)
  BY DEF PartParsed
<1>2. /\ In.ctx \in 1 .. Len(contexts) /\ In.ctx \in Nat \ {0} /\ 1 \in 1 .. In.ctx
      /\ In \in Activations /\ In.schema \in Schemas /\ In.value \in Data
  BY <1>1, InnermostSays, InIs DEF ParseInv
<1>3. /\ contexts' \in Seq(Contexts) /\ Len(contexts') = In.ctx
      /\ \A c \in 1 .. In.ctx : contexts'[c] = contexts[c]
  <2>1. contexts \in Seq(Contexts) /\ In.ctx \in Nat /\ In.ctx <= Len(contexts)
    BY <1>2 DEF ParseInv, ParseTypeOK
  <2>2. QED BY <1>1, <2>1, Prefix
<1>4. Goes(In) /\ Waits(In) BY <1>1, InnermostSays DEF ParseInv, CallsInv
<1>5. /\ Opened(In.schema, In.value) /\ In.todo \subseteq Parts(In.schema, In.value)
      /\ IsThere(In.schema, In.value, In.now) /\ In.now \notin In.todo
      /\ In.now \in Parts(In.schema, In.value)
  BY <1>1, <1>4 DEF Goes, Waits, IsThere
<1>6. /\ contexts[In.ctx].issues = {} <=>
           Others /\ (In.schema.kind # "union" => \A k \in OverLast(In) : Right(In.schema, In.value, k, Strict))
      /\ \A x : x \in contexts[1].unknown <=>
           Reports /\ (MeetsBefore(x) \/ (/\ In.ctx = 1 /\ In.schema.kind # "union"
                                          /\ \E k \in OverLast(In) : x \in Strange(In.schema, In.value, k)))
  BY <1>1, InnermostSays, InnermostOver
<1>7. CASE In.schema.kind = "union" /\ verdict
  <2>1. verdict' = TRUE /\ calls' = SubSeq(calls, 1, Len(calls) - 1)
    BY <1>7 DEF PartParsed, Gives
  <2>2. verdict = Right(In.schema, In.value, In.now, Strict) BY <1>1, <1>7 DEF ParseInv, VerdictInv
  <2>3. Whole = TRUE /\ UnknownKeys(In.schema, In.value) = {}
    <3>1. Conforms(In.schema, In.value, Strict) BY <1>2, <1>5, <1>7, <2>2, UnionConforms
    <3>2. Conforms(In.schema, In.value, Strict) \in BOOLEAN BY <1>2, ConformsIsBoolean
    <3>3. UnknownKeys(In.schema, In.value) = {} BY <1>2, <1>5, <1>7, UnionConforms
    <3>4. QED BY <3>1, <3>2, <3>3 DEF Whole
  <2>4. /\ contexts'[In.ctx].issues = {} <=> Others /\ Whole
        /\ In.ctx = 1 => \A x : x \in contexts'[1].unknown <=>
             Reports /\ (MeetsBefore(x) \/ x \in UnknownKeys(In.schema, In.value))
    BY <1>2, <1>3, <1>6, <1>7, <2>3
  <2>5. \A c \in 1 .. In.ctx - 1 : contexts'[c] = contexts[c] BY <1>2, <1>3
  <2>6. QED BY <1>1, <1>3, <2>1, <2>3, <2>4, <2>5, Returning
<1>8. CASE ~(In.schema.kind = "union" /\ verdict)
  <2>0. PICK a : a = [In EXCEPT !.phase = "parts"] OBVIOUS
  <2>1. calls' = Becomes(a) /\ verdict' = verdict BY <1>8, <2>0 DEF PartParsed
  <2>2. /\ a \in Activations /\ a.phase = "parts" /\ a.schema = In.schema /\ a.value = In.value
        /\ a.ctx = In.ctx /\ a.todo = In.todo
    BY <1>2, <2>0 DEF Activations
  <2>3. Goes(a) BY <1>5, <2>2 DEF Goes
  <2>4. OverLast(a) = OverLast(In) BY <1>1, <2>2 DEF OverLast
  <2>5. In.schema.kind = "union" => \A k \in OverLast(a) : ~Right(In.schema, In.value, k, Strict)
    <3> SUFFICES ASSUME In.schema.kind = "union", NEW k \in OverLast(a)
                 PROVE  ~Right(In.schema, In.value, k, Strict)
      OBVIOUS
    <3>1. CASE k = In.now
      <4>1. verdict = Right(In.schema, In.value, In.now, Strict) BY <1>1 DEF ParseInv, VerdictInv
      <4>2. QED BY <1>8, <3>1, <4>1
    <3>2. CASE k # In.now
      <4>1. k \in Failed(In) BY <1>1, <2>4, <3>2 DEF Failed, OverLast
      <4>2. QED BY <1>1, <4>1, InnermostSays DEF ParseInv, UnionInv
    <3>3. QED BY <3>1, <3>2
  <2>6. /\ contexts'[In.ctx].issues = {} <=>
             Others /\ (a.schema.kind # "union" => \A k \in OverLast(a) : Right(a.schema, a.value, k, Strict))
        /\ In.ctx = 1 => \A x : x \in contexts'[1].unknown <=>
             Reports /\ (MeetsBefore(x) \/ (a.schema.kind # "union"
                                            /\ \E k \in OverLast(a) : x \in Strange(a.schema, a.value, k)))
    BY <1>2, <1>3, <1>6, <2>2, <2>4
  <2>7. \A c \in 1 .. In.ctx - 1 : contexts'[c] = contexts[c] BY <1>2, <1>3
  <2>8. verdict' \in BOOLEAN BY <2>1 DEF ParseInv, ParseTypeOK
  <2>9. QED BY <1>1, <1>3, <2>1, <2>2, <2>3, <2>5, <2>6, <2>7, <2>8, GoingOn
<1>9. QED BY <1>7, <1>8

\* ... a union none of whose alternatives fits, ...
LEMMA NoneFitsKeeps == ParseInv /\ NoneFits => ParseInv'
<1> SUFFICES ASSUME ParseInv, NoneFits PROVE ParseInv' OBVIOUS
<1>0. PICK what : what = {"union"} OBVIOUS
<1>1. /\ calls # <<>> /\ In.phase = "parts" /\ In.todo = {} /\ In.schema.kind = "union"
      /\ verdict' = FALSE /\ calls' = SubSeq(calls, 1, Len(calls) - 1)
      /\ response' = response /\ contexts' = Issues(what)
  BY <1>0 DEF NoneFits, Gives
<1>2. /\ In.ctx \in 1 .. Len(contexts) /\ In.ctx \in Nat \ {0} /\ 1 \in 1 .. In.ctx
      /\ Len(contexts) = In.ctx
      /\ In.schema \in Schemas /\ In.value \in Data /\ ParseTypeOK
  BY <1>1, InnermostSays, InIs DEF ParseInv
<1>3. what \in SUBSET (Kinds \cup {"unknown key"}) /\ what # {} BY <1>0 DEF Kinds
<1>4. /\ contexts' \in Seq(Contexts) /\ Len(contexts') = Len(contexts)
      /\ \A c \in 1 .. Len(contexts) :
           /\ c # In.ctx => contexts'[c] = contexts[c]
           /\ contexts'[c].unknown = contexts[c].unknown
      /\ contexts'[In.ctx].issues = contexts[In.ctx].issues \cup what
  BY <1>1, <1>2, <1>3, IssuesAre
<1>5. Goes(In) BY <1>1, InnermostSays DEF ParseInv, CallsInv
<1>6. Opened(In.schema, In.value) BY <1>1, <1>5 DEF Goes
<1>7. Whole = FALSE /\ UnknownKeys(In.schema, In.value) = {}
  <2>1. Failed(In) = Parts(In.schema, In.value) BY <1>1 DEF Failed
  <2>2. \A k \in Parts(In.schema, In.value) : ~Right(In.schema, In.value, k, Strict)
    BY <1>1, <2>1, InnermostSays DEF ParseInv, UnionInv
  <2>3. ~Conforms(In.schema, In.value, Strict) BY <1>1, <1>2, <1>6, <2>2, UnionConforms
  <2>4. Conforms(In.schema, In.value, Strict) \in BOOLEAN BY <1>2, ConformsIsBoolean
  <2>5. UnknownKeys(In.schema, In.value) = {} BY <1>1, <1>2, <1>6, UnionConforms
  <2>6. QED BY <2>3, <2>4, <2>5 DEF Whole
<1>8. \A x : x \in contexts[1].unknown <=> Reports /\ MeetsBefore(x)
  BY <1>1, InnermostSays, InnermostOver
<1>9. /\ contexts'[In.ctx].issues = {} <=> Others /\ Whole
      /\ In.ctx = 1 => \A x : x \in contexts'[1].unknown <=>
           Reports /\ (MeetsBefore(x) \/ x \in UnknownKeys(In.schema, In.value))
      /\ \A c \in 1 .. In.ctx - 1 : contexts'[c] = contexts[c]
  <2>1. contexts'[In.ctx].issues # {} BY <1>3, <1>4
  <2>2. contexts'[1].unknown = contexts[1].unknown
    <3>1. 1 \in 1 .. Len(contexts) BY <1>2
    <3>2. QED BY <1>4, <3>1
  <2>3. \A c \in 1 .. In.ctx - 1 : c \in 1 .. Len(contexts) /\ c # In.ctx BY <1>2
  <2>4. \A c \in 1 .. In.ctx - 1 : contexts'[c] = contexts[c] BY <1>4, <2>3
  <2>5. contexts'[In.ctx].issues = {} <=> Others /\ Whole BY <1>7, <2>1
  <2>6. \A x : x \in contexts'[1].unknown <=>
                 Reports /\ (MeetsBefore(x) \/ x \in UnknownKeys(In.schema, In.value))
    BY <1>7, <1>8, <2>2
  <2>7. QED BY <2>4, <2>5, <2>6
<1>10. QED BY <1>1, <1>2, <1>4, <1>7, <1>9, Returning

\* What the modes are, with the flag as with none.
LEMMA ModeIs ==
  ASSUME response \in Responses
  PROVE  /\ Off => Options.mode = "off"
         /\ ~Off => Options.mode \in {"strict", "permissive"}
         /\ response.flag = "no" => Options.mode # "strict"
<1>1. response.options \in ValidationOptions BY ResponseAssumption
<1> DEFINE o == ApplyValidationFeatureFlags(response.options, response.flag)
<1>2. o \in ValidationOptions /\ (response.flag = "no" => o.mode = "permissive")
  BY <1>1 DEF ApplyValidationFeatureFlags, ValidationOptions, Or
<1>3. Options = NormalizeOptions(o) BY DEF Options
<1> HIDE DEF o
<1>4. Options.mode \in {"off", Or(o.mode, "permissive"), Or(o.mode, "strict")}
  BY <1>3 DEF NormalizeOptions
<1>5. Options.enabled = FALSE => Options.mode = "off" BY <1>3 DEF NormalizeOptions
<1>6. Options.enabled \in BOOLEAN BY <1>3 DEF NormalizeOptions
<1>7. QED BY <1>2, <1>4, <1>5, <1>6 DEF Off, Or, ValidationOptions

\* What the keys unknown to the shape make of the context.
LEMMA JudgedExtra ==
  ASSUME ParseInv, calls # <<>>, In.phase = "parts", In.schema.kind # "union",
         Opened(In.schema, In.value)
  PROVE  /\ JudgeExtra \in Seq(Contexts) /\ Len(JudgeExtra) = In.ctx
         /\ \A c \in 1 .. In.ctx - 1 : JudgeExtra[c] = contexts[c]
         /\ JudgeExtra[In.ctx].issues = {} <=>
              /\ contexts[In.ctx].issues = {}
              /\ Surplus(In.schema, In.value) # {} => ~Rejects(In.schema, Strict)
         /\ \A x : x \in JudgeExtra[In.ctx].unknown <=>
              \/ x \in contexts[In.ctx].unknown
              \/ Reports /\ x \in Reportable(In.schema, In.value)
<1>0. PICK extra, what : /\ extra = Surplus(In.schema, In.value) /\ what = {"unknown key"}
  OBVIOUS
<1>1. /\ In.ctx \in 1 .. Len(contexts) /\ In.ctx \in Nat \ {0} /\ Len(contexts) = In.ctx
      /\ In.schema \in Schemas /\ In.value \in Data /\ ParseTypeOK
  BY InnermostSays, InIs DEF ParseInv
<1>2. extra \in SUBSET Names
  <2>1. In.schema.kind = "object" => In.value.type = "object" BY DEF Opened, Fits, Scalars
  <2>2. In.schema.kind = "object" => DOMAIN In.value.fields \subseteq Names BY <1>1, <2>1 DEF Names
  <2>3. QED BY <1>0, <2>2 DEF Surplus, Extra
<1>3. JudgeExtra = IF extra # {} /\ Rejects(In.schema, Strict) THEN Issues(what)
                   ELSE IF Options.warn THEN [contexts EXCEPT ![In.ctx].unknown = @ \cup extra]
                   ELSE contexts
  BY <1>0 DEF JudgeExtra, Surplus
<1>4. Reports <=> Options.warn /\ ~Strict
  <2>1. ~Off BY DEF ParseInv, CallsInv
  <2>2. response \in Responses BY <1>1 DEF ParseTypeOK
  <2>3. Options.mode \in {"strict", "permissive"}
    BY <2>1, <2>2, ModeIs DEF Off
  <2>4. QED BY <2>3 DEF Reports, Strict
<1>5. \A x : x \in Reportable(In.schema, In.value) <=>
               x \in extra /\ ~(In.schema.kind = "object" /\ In.schema.unknownKeys = "error")
  BY <1>0 DEF Reportable
<1>6. extra # {} => In.schema.kind = "object" BY <1>0 DEF Surplus
<1>10. \A c \in 1 .. In.ctx - 1 : c \in 1 .. Len(contexts) /\ c # In.ctx BY <1>1
<1>7. CASE extra # {} /\ Rejects(In.schema, Strict)
  <2>1. JudgeExtra = Issues(what) BY <1>3, <1>7
  <2>2. what \in SUBSET (Kinds \cup {"unknown key"}) /\ what # {} BY <1>0
  <2>3. /\ JudgeExtra \in Seq(Contexts) /\ Len(JudgeExtra) = Len(contexts)
        /\ \A c \in 1 .. Len(contexts) :
             /\ c # In.ctx => JudgeExtra[c] = contexts[c]
             /\ JudgeExtra[c].unknown = contexts[c].unknown
        /\ JudgeExtra[In.ctx].issues = contexts[In.ctx].issues \cup what
    BY <1>1, <2>1, <2>2, IssuesAre
  <2>4. \A x : ~(Reports /\ x \in Reportable(In.schema, In.value))
    BY <1>4, <1>5, <1>6, <1>7 DEF Rejects
  <2>5. \A c \in 1 .. In.ctx - 1 : JudgeExtra[c] = contexts[c] BY <1>1, <1>10, <2>3
  <2>6. JudgeExtra[In.ctx].issues # {} BY <2>2, <2>3
  <2>7. JudgeExtra[In.ctx].unknown = contexts[In.ctx].unknown BY <1>1, <2>3
  <2>8. Surplus(In.schema, In.value) # {} /\ Rejects(In.schema, Strict) BY <1>0, <1>7
  <2>9. QED BY <1>1, <2>3, <2>4, <2>5, <2>6, <2>7, <2>8
<1>8. CASE ~(extra # {} /\ Rejects(In.schema, Strict)) /\ Options.warn
  <2>1. JudgeExtra = [contexts EXCEPT ![In.ctx].unknown = @ \cup extra] BY <1>3, <1>8
  <2>2. /\ JudgeExtra \in Seq(Contexts) /\ Len(JudgeExtra) = Len(contexts)
        /\ \A c \in 1 .. Len(contexts) :
             /\ c # In.ctx => JudgeExtra[c] = contexts[c]
             /\ JudgeExtra[c].issues = contexts[c].issues
        /\ JudgeExtra[In.ctx].unknown = contexts[In.ctx].unknown \cup extra
    BY <1>1, <1>2, <2>1, ReportsAre
  <2>3. \A x : x \in extra <=> Reports /\ x \in Reportable(In.schema, In.value)
    BY <1>4, <1>5, <1>6, <1>8 DEF Rejects
  <2>4. \A c \in 1 .. In.ctx - 1 : JudgeExtra[c] = contexts[c] BY <1>1, <1>10, <2>2
  <2>5. JudgeExtra[In.ctx].issues = contexts[In.ctx].issues BY <1>1, <2>2
  <2>6. Surplus(In.schema, In.value) # {} => ~Rejects(In.schema, Strict) BY <1>0, <1>8
  <2>7. QED BY <1>1, <2>2, <2>3, <2>4, <2>5, <2>6
<1>9. CASE ~(extra # {} /\ Rejects(In.schema, Strict)) /\ ~Options.warn
  <2>1. JudgeExtra = contexts BY <1>3, <1>9
  <2>2. QED BY <1>0, <1>1, <1>4, <1>9, <2>1 DEF ParseTypeOK
<1>11. QED BY <1>7, <1>8, <1>9

\* ... and an array, a record or an object all of whose parts are over.
LEMMA ConcludesKeeps == ParseInv /\ Concludes => ParseInv'
<1> SUFFICES ASSUME ParseInv, Concludes PROVE ParseInv' OBVIOUS
<1>1. /\ calls # <<>> /\ In.phase = "parts" /\ In.todo = {} /\ In.schema.kind # "union"
      /\ contexts' = JudgeExtra /\ verdict' = (contexts'[In.ctx].issues = {})
      /\ calls' = SubSeq(calls, 1, Len(calls) - 1) /\ response' = response
  BY DEF Concludes, Gives
<1>2. /\ In.ctx \in 1 .. Len(contexts) /\ In.ctx \in Nat \ {0}
      /\ In.schema \in Schemas /\ In.value \in Data
  BY <1>1, InnermostSays, InIs DEF ParseInv
<1>3. Goes(In) BY <1>1, InnermostSays DEF ParseInv, CallsInv
<1>4. Opened(In.schema, In.value) BY <1>1, <1>3 DEF Goes
<1>5. OverLast(In) = Parts(In.schema, In.value) BY <1>1 DEF OverLast
<1>6. /\ contexts[In.ctx].issues = {} <=>
           Others /\ \A k \in Parts(In.schema, In.value) : Right(In.schema, In.value, k, Strict)
      /\ In.ctx = 1 => \A x : x \in contexts[1].unknown <=>
           Reports /\ (MeetsBefore(x) \/ \E k \in Parts(In.schema, In.value) : x \in Strange(In.schema, In.value, k))
  BY <1>1, <1>5, InnermostSays, InnermostOver
<1>7. /\ Whole <=> /\ \A k \in Parts(In.schema, In.value) : Right(In.schema, In.value, k, Strict)
                   /\ Surplus(In.schema, In.value) # {} => ~Rejects(In.schema, Strict)
      /\ \A x : x \in UnknownKeys(In.schema, In.value) <=>
           \/ x \in Reportable(In.schema, In.value)
           \/ \E k \in Parts(In.schema, In.value) : x \in Strange(In.schema, In.value, k)
  BY <1>1, <1>2, <1>4, CompoundConforms DEF Whole
<1>8. /\ contexts' \in Seq(Contexts) /\ Len(contexts') = In.ctx
      /\ \A c \in 1 .. In.ctx - 1 : contexts'[c] = contexts[c]
      /\ contexts'[In.ctx].issues = {} <=>
           /\ contexts[In.ctx].issues = {}
           /\ Surplus(In.schema, In.value) # {} => ~Rejects(In.schema, Strict)
      /\ \A x : x \in contexts'[In.ctx].unknown <=>
           \/ x \in contexts[In.ctx].unknown
           \/ Reports /\ x \in Reportable(In.schema, In.value)
  BY <1>1, <1>4, JudgedExtra
<1>9. /\ contexts'[In.ctx].issues = {} <=> Others /\ Whole
      /\ In.ctx = 1 => \A x : x \in contexts'[1].unknown <=>
           Reports /\ (MeetsBefore(x) \/ x \in UnknownKeys(In.schema, In.value))
  BY <1>6, <1>7, <1>8
<1>10. verdict' \in BOOLEAN /\ (Others => verdict' = Whole)
  <2>1. Whole \in BOOLEAN BY <1>2, ConformsIsBoolean DEF Whole
  <2>2. QED BY <1>1, <1>9, <2>1
<1>11. QED BY <1>1, <1>8, <1>9, <1>10, Returning

(***************************************************************************)
(* The theorems about a parse.                                             *)
(***************************************************************************)
\* The invariant holds at first, ...
LEMMA ParseStarts == ParseInit => ParseInv
<1> SUFFICES ASSUME ParseInit PROVE ParseInv OBVIOUS
<1>1. /\ response \in Responses /\ contexts = <<NewContext>> /\ verdict = Off
      /\ calls = IF Off THEN <<>> ELSE <<Call(response.schema, response.value, 1)>>
  BY DEF ParseInit
<1>2. /\ response.schema \in Schemas /\ response.value \in Data
  BY <1>1, ResponseAssumption
<1>3. NewContext \in Contexts /\ NewContext.issues = {} /\ NewContext.unknown = {}
  BY DEF NewContext, Contexts
<1>4. contexts \in Seq(Contexts) /\ Len(contexts) = 1 /\ contexts[1] = NewContext BY <1>1, <1>3
<1>5. Off \in BOOLEAN BY DEF Off, Options, NormalizeOptions
<1>6. CASE Off
  <2>1. calls = <<>> BY <1>1, <1>6
  <2>2. ParseTypeOK BY <1>1, <1>4, <1>5, <2>1 DEF ParseTypeOK
  <2>3. CallsInv /\ UnionInv
    <3>1. Len(calls) = 0 BY <2>1
    <3>2. QED BY <2>1, <3>1 DEF CallsInv, UnionInv
  <2>4. ContextInv BY <1>4, <2>1 DEF ContextInv
  <2>5. IssueInv /\ UnknownInv /\ VerdictInv BY <2>1 DEF IssueInv, UnknownInv, VerdictInv
  <2>6. ~Reports BY <1>1, <1>6, ModeIs DEF Reports
  <2>7. EndInv BY <1>1, <1>3, <1>4, <1>6, <2>6 DEF EndInv
  <2>8. QED BY <2>2, <2>3, <2>4, <2>5, <2>7 DEF ParseInv
<1>7. CASE ~Off
  <2>0. PICK a : a = Call(response.schema, response.value, 1) OBVIOUS
  <2>1. /\ a \in Activations /\ a.schema = response.schema /\ a.value = response.value
        /\ a.ctx = 1 /\ a.phase = "called"
    BY <1>2, <2>0 DEF Call, Activations
  <2>2. calls = <<a>> BY <1>1, <1>7, <2>0
  <2>3. calls \in Seq(Activations) /\ Len(calls) = 1 /\ calls[1] = a /\ calls # <<>> BY <2>1, <2>2
  <2>4. ParseTypeOK BY <1>1, <1>4, <1>5, <2>3 DEF ParseTypeOK
  <2>5. In = a BY <2>3 DEF In
  <2>6. Goes(a) /\ Waits(a) BY <2>1 DEF Goes, Waits
  <2>7. CallsInv BY <1>7, <2>1, <2>3, <2>6 DEF CallsInv
  <2>8. ContextInv BY <1>4, <2>1, <2>3, <2>5 DEF ContextInv, Deepest
  <2>9. Over(1) = {} BY <2>1, <2>3 DEF Over
  <2>10. AllRight(1) /\ \A x : ~Meets(1, x) BY <2>9 DEF AllRight, Meets
  <2>11. IssueInv BY <1>3, <1>4, <2>1, <2>3, <2>5, <2>10 DEF IssueInv
  <2>12. UnknownInv BY <1>3, <1>4, <2>3, <2>10 DEF UnknownInv
  <2>13. UnionInv BY <2>1, <2>3 DEF UnionInv
  <2>14. VerdictInv /\ EndInv BY <2>1, <2>3, <2>5 DEF VerdictInv, EndInv
  <2>15. QED BY <2>4, <2>7, <2>8, <2>11, <2>12, <2>13, <2>14 DEF ParseInv
<1>8. QED BY <1>6, <1>7

\* ... every step keeps it, ...
LEMMA ParseGoesOn == ParseInv /\ [ParseNext]_parseVars => ParseInv'
<1> SUFFICES ASSUME ParseInv, [ParseNext]_parseVars PROVE ParseInv' OBVIOUS
<1>1. CASE LetsThrough BY <1>1, LetsThroughKeeps
<1>2. CASE Refuses BY <1>2, RefusesKeeps
<1>3. CASE Takes BY <1>3, TakesKeeps
<1>4. CASE Opens BY <1>4, OpensKeeps
<1>5. CASE PartParsed BY <1>5, PartParsedKeeps
<1>6. CASE NoneFits BY <1>6, NoneFitsKeeps
<1>7. CASE Concludes BY <1>7, ConcludesKeeps
<1>8. ASSUME NEW k, Misses(k) PROVE ParseInv' BY <1>8, MissesKeeps
<1>9. ASSUME NEW k, Parses(k) PROVE ParseInv' BY <1>9, ParsesKeeps
<1>10. CASE UNCHANGED parseVars
  <2>1. response' = response /\ calls' = calls /\ contexts' = contexts /\ verdict' = verdict
    BY <1>10 DEF parseVars
  <2>2. Options' = Options /\ Off' = Off /\ Strict' = Strict /\ Reports' = Reports /\ In' = In
    BY <2>1, SameOptions DEF Reports, In
  <2>3. ParseTypeOK' /\ CallsInv' /\ ContextInv'
    BY <2>1, <2>2 DEF ParseInv, ParseTypeOK, CallsInv, ContextInv, Deepest
  <2>4. \A i : Over(i)' = Over(i) BY <2>1 DEF Over
  <2>5. /\ \A i : AllRight(i)' <=> AllRight(i)
        /\ \A i, x : Meets(i, x)' <=> Meets(i, x)
    BY <2>1, <2>2, <2>4 DEF AllRight, Meets
  <2>6. IssueInv' BY <2>1, <2>2, <2>5 DEF ParseInv, IssueInv
  <2>7. UnknownInv' BY <2>1, <2>2, <2>5 DEF ParseInv, UnknownInv
  <2>8. UnionInv' /\ VerdictInv' /\ EndInv'
    BY <2>1, <2>2 DEF ParseInv, UnionInv, VerdictInv, EndInv
  <2>9. QED BY <2>3, <2>6, <2>7, <2>8 DEF ParseInv
<1>11. QED BY <1>1, <1>2, <1>3, <1>4, <1>5, <1>6, <1>7, <1>8, <1>9, <1>10 DEF ParseNext

\* ... and it says at the end of a parse what the property does.
LEMMA ParseSettles == ParseInv => ParseAgrees
<1> SUFFICES ASSUME ParseInv, calls = <<>> PROVE ParseAgrees BY DEF ParseAgrees
<1>1. response \in Responses BY DEF ParseInv, ParseTypeOK
<1>2. /\ verdict = (Off \/ Conforms(response.schema, response.value, Strict))
      /\ verdict = (contexts[1].issues = {})
      /\ \A x : x \in contexts[1].unknown <=>
                  Reports /\ x \in UnknownKeys(response.schema, response.value)
  BY DEF ParseInv, EndInv
<1>3. contexts[1].unknown \in SUBSET Names
  <2>1. contexts \in Seq(Contexts) /\ Len(contexts) = 1 BY DEF ParseInv, ParseTypeOK, ContextInv
  <2>2. contexts[1] \in Contexts BY <2>1
  <2>3. QED BY <2>2 DEF Contexts
<1>4. contexts[1].unknown =
        IF Reports THEN UnknownKeys(response.schema, response.value) ELSE {}
  BY <1>2
<1>5. response.flag = "no" => Options.mode # "strict" BY <1>1, ModeIs
<1>6. QED BY <1>2, <1>4, <1>5 DEF ParseAgrees, Reports

\* Activations, contexts and verdict have their types: the activations are of
\* schemas and values that there are, and their parts are parts of those.
THEOREM ParseTypeCorrect == ParseSpec => []ParseTypeOK
<1>1. ParseInv => ParseTypeOK BY DEF ParseInv
<1>2. QED BY <1>1, ParseStarts, ParseGoesOn, PTL DEF ParseSpec

\* Whatever the schemas, the values, the options and the flag, a response passes
\* validation if and only if it conforms to its schema, and exactly the unknown
\* keys outside unions are reported if the options ask for them.
THEOREM ResponsesAreJudgedRight == ParseSpec => []ParseAgrees
BY ParseStarts, ParseGoesOn, ParseSettles, PTL DEF ParseSpec

(***************************************************************************)
(* Records: their names and their schemas.                                 *)
(***************************************************************************)
\* Which of the fields of a record may be what, by the schemas: a name and the
\* name Zoho has for it may be the same, only the id must be there, and none
\* has the text of a function for its name.
Same(shape, map) ==
  /\ SourceTexts \cap (DOMAIN shape \cup {map[c] : c \in DOMAIN map}) = {}
  /\ \A k \in DOMAIN shape : k # "id" => shape[k].optional = TRUE
  /\ \A c \in DOMAIN map \cap DOMAIN shape : map[c] \in DOMAIN shape /\ shape[map[c]] = shape[c]
  /\ "id" \in DOMAIN map /\ \A c \in DOMAIN map : map[c] = "id" <=> c = "id"

LEMMA TheSourceTexts ==
  SourceTexts = {"function Object() { [native code] }", "function toString() { [native code] }"}
<1>1. /\ SourceText["constructor"] = "function Object() { [native code] }"
      /\ SourceText["toString"] = "function toString() { [native code] }"
  BY DEF SourceText
<1>2. QED BY <1>1 DEF SourceTexts, Inherited

\* The maps of the record modules are one to one, and the schemas say the same
\* of a name and of the name Zoho has for it: leads, ...
LEMMA LeadsMatch ==
  /\ LeadSchema.kind = "object" /\ LeadSchema.unknownKeys = "passthrough"
  /\ Same(LeadSchema.shape, LEAD_FIELD_MAP) /\ OneToOne(LEAD_FIELD_MAP)
<1> DEFINE map == LEAD_FIELD_MAP
           shape == LeadSchema.shape
           optional == {"firstName", "lastName", "company", "email", "phone", "mobile",
              "leadStatus", "city", "state", "country", "createdAt",
              "modifiedAt", "First_Name", "Last_Name", "Company", "Email",
              "Phone", "Mobile", "Lead_Status", "City", "State", "Country",
              "Created_Time", "Modified_Time"}
<1>1. LeadSchema.kind = "object" /\ LeadSchema.unknownKeys = "passthrough"
  BY DEF LeadSchema, With, Object
<1>2. /\ DOMAIN shape = {"id"} \cup optional
      /\ \A k \in DOMAIN shape : shape[k] = IF k = "id" THEN Str ELSE Optional(Str)
  BY DEF LeadSchema, With, Object, Joined, Maybe, All
<1>3. Optional(Str).optional = TRUE BY DEF Optional, Str, Kind
<1> HIDE DEF shape
<1>4. OneToOne(map) BY DEF OneToOne, LEAD_FIELD_MAP
<1>5. \A c \in DOMAIN map \cap DOMAIN shape : map[c] \in DOMAIN shape BY <1>2 DEF LEAD_FIELD_MAP
<1>6. "id" \in DOMAIN map /\ \A c \in DOMAIN map : map[c] = "id" <=> c = "id" BY DEF LEAD_FIELD_MAP
<1>7. SourceTexts \cap (DOMAIN shape \cup {map[c] : c \in DOMAIN map}) = {}
  <2>1. \A c \in DOMAIN map :
          map[c] \in {"id", "First_Name", "Last_Name", "Company", "Email",
                     "Phone", "Mobile", "Lead_Status", "City", "State",
                     "Country", "Created_Time", "Modified_Time"}
    BY DEF LEAD_FIELD_MAP
  <2>2. QED BY <1>2, <2>1, TheSourceTexts
<1>8. Same(shape, map)
  BY <1>2, <1>3, <1>5, <1>6, <1>7 DEF Same
<1>9. QED BY <1>1, <1>4, <1>8 DEF shape

\* ... contacts ...
LEMMA ContactsMatch ==
  /\ ContactSchema.kind = "object" /\ ContactSchema.unknownKeys = "passthrough"
  /\ Same(ContactSchema.shape, CONTACT_FIELD_MAP) /\ OneToOne(CONTACT_FIELD_MAP)
<1> DEFINE map == CONTACT_FIELD_MAP
           shape == ContactSchema.shape
           optional == {"firstName", "lastName", "email", "phone", "mobile",
              "accountName", "mailingCity", "mailingState", "mailingCountry",
              "createdAt", "modifiedAt", "First_Name", "Last_Name", "Email",
              "Phone", "Mobile", "Account_Name", "Mailing_City",
              "Mailing_State", "Mailing_Country", "Created_Time",
              "Modified_Time"}
<1>1. ContactSchema.kind = "object" /\ ContactSchema.unknownKeys = "passthrough"
  BY DEF ContactSchema, With, Object
<1>2. /\ DOMAIN shape = {"id"} \cup optional
      /\ \A k \in DOMAIN shape : shape[k] = IF k = "id" THEN Str ELSE Optional(Str)
  BY DEF ContactSchema, With, Object, Joined, Maybe, All
<1>3. Optional(Str).optional = TRUE BY DEF Optional, Str, Kind
<1> HIDE DEF shape
<1>4. OneToOne(map) BY DEF OneToOne, CONTACT_FIELD_MAP
<1>5. \A c \in DOMAIN map \cap DOMAIN shape : map[c] \in DOMAIN shape BY <1>2 DEF CONTACT_FIELD_MAP
<1>6. "id" \in DOMAIN map /\ \A c \in DOMAIN map : map[c] = "id" <=> c = "id" BY DEF CONTACT_FIELD_MAP
<1>7. SourceTexts \cap (DOMAIN shape \cup {map[c] : c \in DOMAIN map}) = {}
  <2>1. \A c \in DOMAIN map :
          map[c] \in {"id", "First_Name", "Last_Name", "Email", "Phone", "Mobile",
                     "Account_Name", "Created_Time", "Modified_Time"}
    BY DEF CONTACT_FIELD_MAP
  <2>2. QED BY <1>2, <2>1, TheSourceTexts
<1>8. Same(shape, map)
  BY <1>2, <1>3, <1>5, <1>6, <1>7 DEF Same
<1>9. QED BY <1>1, <1>4, <1>8 DEF shape

\* ... and deals.
LEMMA DealsMatch ==
  /\ DealSchema.kind = "object" /\ DealSchema.unknownKeys = "passthrough"
  /\ Same(DealSchema.shape, DEAL_FIELD_MAP) /\ OneToOne(DEAL_FIELD_MAP)
<1> DEFINE map == DEAL_FIELD_MAP
           shape == DealSchema.shape
           optional == {"amount", "Amount", "name", "stage", "closingDate", "accountName", "owner",
              "createdAt", "modifiedAt", "Deal_Name", "Stage",
              "Closing_Date", "Account_Name", "Owner", "Created_Time",
              "Modified_Time"}
<1>1. DealSchema.kind = "object" /\ DealSchema.unknownKeys = "passthrough"
  BY DEF DealSchema, With, Object
<1>2. /\ DOMAIN shape = {"id"} \cup optional
      /\ \A k \in DOMAIN shape : shape[k] = IF k = "id" THEN Str ELSE IF k \in {"amount", "Amount"} THEN Optional(Num) ELSE Optional(Str)
  BY DEF DealSchema, With, Object, Joined, Maybe, All
<1>3. Optional(Str).optional = TRUE /\ Optional(Num).optional = TRUE BY DEF Optional, Str, Num, Kind
<1> HIDE DEF shape
<1>4. OneToOne(map) BY DEF OneToOne, DEAL_FIELD_MAP
<1>5. \A c \in DOMAIN map \cap DOMAIN shape : map[c] \in DOMAIN shape BY <1>2 DEF DEAL_FIELD_MAP
<1>6. "id" \in DOMAIN map /\ \A c \in DOMAIN map : map[c] = "id" <=> c = "id" BY DEF DEAL_FIELD_MAP
<1>7. \A c \in DOMAIN map \cap DOMAIN shape : c = "amount" <=> map[c] = "Amount" BY <1>2 DEF DEAL_FIELD_MAP
<1>8. \A c \in DOMAIN map : map[c] # "amount" /\ c # "Amount" BY DEF DEAL_FIELD_MAP
<1>9. SourceTexts \cap (DOMAIN shape \cup {map[c] : c \in DOMAIN map}) = {}
  <2>1. \A c \in DOMAIN map :
          map[c] \in {"id", "Deal_Name", "Stage", "Amount", "Closing_Date",
                     "Account_Name", "Contact_Name", "Owner", "Created_Time",
                     "Modified_Time"}
    BY DEF DEAL_FIELD_MAP
  <2>2. QED BY <1>2, <2>1, TheSourceTexts
<1>10. Same(shape, map)
  BY <1>2, <1>3, <1>5, <1>6, <1>7, <1>8, <1>9 DEF Same
<1>11. QED BY <1>1, <1>4, <1>10 DEF shape

\* What a renamed record has.
LEMMA RenamedHas ==
  ASSUME NEW record, NEW map
  PROVE  /\ \A k \in DOMAIN record : NewName(InvertFieldMap(map), k) \in DOMAIN MapRecord(record, map)
         /\ \A name \in DOMAIN MapRecord(record, map) :
              \E k \in DOMAIN record :
                /\ NewName(InvertFieldMap(map), k) = name
                /\ MapRecord(record, map)[name] = record[k]
<1> DEFINE New(k) == NewName(InvertFieldMap(map), k)
           Source(name) == CHOOSE k \in DOMAIN record : New(k) = name
<1>1. MapRecord(record, map) = [name \in {New(k) : k \in DOMAIN record} |-> record[Source(name)]]
  BY DEF MapRecord
<1>2. \A k \in DOMAIN record : Source(New(k)) \in DOMAIN record /\ New(Source(New(k))) = New(k)
  OBVIOUS
<1> HIDE DEF Source
<1>3. QED BY <1>1, <1>2

\* A new name is the map's, the text of an inherited member, or the name that
\* there was, which the map does not rename.
LEMMA NewNameIs ==
  ASSUME NEW map, OneToOne(map), NEW k
  PROVE  LET name == NewName(InvertFieldMap(map), k)
         IN  \/ name \in DOMAIN map /\ map[name] = k
             \/ name \in SourceTexts /\ k \in Inherited
             \/ name = k /\ k \notin {map[c] : c \in DOMAIN map}
<1> DEFINE inverse == InvertFieldMap(map)
<1>1. /\ DOMAIN inverse = {map[c] : c \in DOMAIN map}
      /\ \A c \in DOMAIN map : inverse[map[c]] = c
  BY InverseOfMap
<1> HIDE DEF inverse
<1>2. CASE k \in DOMAIN inverse
  <2>1. PICK c \in DOMAIN map : map[c] = k BY <1>1, <1>2
  <2>2. NewName(inverse, k) = c BY <1>1, <1>2, <2>1 DEF NewName
  <2>3. QED BY <2>1, <2>2 DEF inverse
<1>3. CASE k \in Inherited \ DOMAIN inverse
  <2>1. NewName(inverse, k) \in SourceTexts BY <1>3 DEF NewName, SourceTexts
  <2>2. QED BY <1>3, <2>1 DEF inverse
<1>4. CASE k \notin DOMAIN inverse \cup Inherited
  <2>1. NewName(inverse, k) = k BY <1>4 DEF NewName
  <2>2. QED BY <1>1, <1>4, <2>1 DEF inverse
<1>5. QED BY <1>2, <1>3, <1>4

\* The three ways to come to a new name.
LEMMA WhatNewNamesAre ==
  ASSUME NEW map, OneToOne(map), NEW k
  PROVE  LET name == NewName(InvertFieldMap(map), k)
             ZohoNames == {map[c] : c \in DOMAIN map}
         IN  /\ \A c \in DOMAIN map : map[c] = k => name = c
             /\ k \in Inherited \ ZohoNames => name = SourceText[k]
             /\ k \notin ZohoNames \cup Inherited => name = k
<1> DEFINE inverse == InvertFieldMap(map)
<1>1. /\ DOMAIN inverse = {map[c] : c \in DOMAIN map}
      /\ \A c \in DOMAIN map : inverse[map[c]] = c
  BY InverseOfMap
<1> HIDE DEF inverse
<1>2. \A c \in DOMAIN map : map[c] = k => NewName(inverse, k) = c BY <1>1 DEF NewName
<1>3. k \in Inherited \ DOMAIN inverse => NewName(inverse, k) = SourceText[k] BY DEF NewName
<1>4. k \notin DOMAIN inverse \cup Inherited => NewName(inverse, k) = k BY DEF NewName
<1>5. QED BY <1>1, <1>2, <1>3, <1>4 DEF inverse

\* A record that conforms still does with other names for fields that the
\* schema says the same of.
LEMMA RenamedConforms ==
  ASSUME NEW s \in Schemas, s.kind = "object", s.unknownKeys = "passthrough",
         NEW map, OneToOne(map), Same(s.shape, map),
         NEW record, Fields(record) \in Data, Fields(MapRecord(record, map)) \in Data,
         ~Excused(s, Fields(record)), ~Excused(s, Fields(MapRecord(record, map))),
         Conforms(s, Fields(record), FALSE)
  PROVE  Conforms(s, Fields(MapRecord(record, map)), FALSE)
<1> DEFINE after == MapRecord(record, map)
           New(k) == NewName(InvertFieldMap(map), k)
<1>0. /\ \A r : Fields(r).type = "object" /\ Fields(r).fields = r
      /\ ~Rejects(s, FALSE)
  BY DEF Fields, Rejects
<1>1. /\ \A k \in DOMAIN record : New(k) \in DOMAIN after
      /\ \A name \in DOMAIN after : \E k \in DOMAIN record : New(k) = name /\ after[name] = record[k]
  BY RenamedHas
<1>2. \A k : \/ New(k) \in DOMAIN map /\ map[New(k)] = k
             \/ New(k) \in SourceTexts
             \/ New(k) = k /\ k \notin {map[c] : c \in DOMAIN map}
  BY NewNameIs
<1> HIDE DEF after, New
<1>3. \A k \in DOMAIN s.shape :
        IF k \in DOMAIN record THEN Conforms(s.shape[k], record[k], FALSE) ELSE s.shape[k].optional
  BY <1>0, ConformsUnfolds
<1>4. ASSUME NEW k \in DOMAIN s.shape
      PROVE  IF k \in DOMAIN after THEN Conforms(s.shape[k], after[k], FALSE) ELSE s.shape[k].optional
  <2>1. CASE k \in DOMAIN after
    <3>1. PICK j \in DOMAIN record : New(j) = k /\ after[k] = record[j] BY <1>1, <2>1
    <3>2. j \in DOMAIN s.shape /\ s.shape[j] = s.shape[k] BY <1>2, <3>1 DEF Same
    <3>3. QED BY <1>3, <2>1, <3>1, <3>2
  <2>2. CASE k \notin DOMAIN after
    <3>1. CASE k = "id"
      <4>1. New("id") = "id"
        <5>1. NewName(InvertFieldMap(map), "id") = "id"
          <6>1. /\ "id" \in DOMAIN InvertFieldMap(map)
                /\ InvertFieldMap(map)["id"] = "id"
            <7>1. "id" \in DOMAIN map /\ map["id"] = "id" BY DEF Same
            <7>2. /\ DOMAIN InvertFieldMap(map) = {map[c] : c \in DOMAIN map}
                  /\ \A c \in DOMAIN map : InvertFieldMap(map)[map[c]] = c
              BY InverseOfMap
            <7>3. QED BY <7>1, <7>2
          <6>2. QED BY <6>1 DEF NewName
        <5>2. QED BY <5>1 DEF New
      <4>2. "id" \notin DOMAIN record BY <1>1, <2>2, <3>1, <4>1
      <4>3. QED BY <1>3, <2>2, <3>1, <4>2
    <3>2. CASE k # "id" BY <2>2, <3>2 DEF Same
    <3>3. QED BY <3>1, <3>2
  <2>3. QED BY <2>1, <2>2
<1>5. Conforms(s, Fields(after), FALSE) BY <1>0, <1>4, ConformsUnfolds DEF after
<1>6. QED BY <1>5 DEF after

\* What has been chosen is one of the inputs.
InputInv ==
  /\ input.about = "record" => input.is \in RecordsRead
  /\ input.about = "config" => input.is \in Configs

\* The input is one of those there are.
LEMMA InputsAreChosen == AlgorithmsSpec => []InputInv
<1> DEFINE v == <<input, vars, criteriaVars, parseVars>>
<1>1. AlgorithmsInit => InputInv BY DEF AlgorithmsInit, InputInv
<1>2. InputInv /\ [AlgorithmsNext]_v => InputInv'
  <2> SUFFICES ASSUME InputInv, [AlgorithmsNext]_v PROVE InputInv' OBVIOUS
  <2>1. CASE TransformRecord BY <2>1 DEF TransformRecord, Choose, InputInv
  <2>2. CASE ValidateConfig BY <2>2 DEF ValidateConfig, Choose, InputInv
  <2>3. CASE PassOptions BY <2>3 DEF PassOptions, Choose, InputInv
  <2>4. CASE input' = input BY <2>4 DEF InputInv
  <2>5. QED
    BY <2>1, <2>2, <2>3, <2>4 DEF AlgorithmsNext, LogMetadata, BuildSearch, ValidateResponse
<1>3. QED BY <1>1, <1>2, PTL DEF AlgorithmsSpec

\* The records read have names and schemas that match.
LEMMA CamelRecords == InputInv => CamelRecordsConform
<1> SUFFICES ASSUME InputInv, input.about = "record" PROVE CamelRecordsConform
  BY DEF CamelRecordsConform
<1> DEFINE x == input.is
           map == FieldMap(x.module)
           s == RecordSchema(x.module)
           before == x.record
           after == Renamed(x)
           ZohoNames == {map[c] : c \in DOMAIN map}
           Found(name, k) == name \in DOMAIN after /\ after[name] = before[k]
<1>1. /\ x \in RecordsRead /\ x.module \in {"Leads", "Contacts", "Deals"}
      /\ Fields(before) \in Data /\ Fields(after) \in Data
  BY InputAssumption DEF InputInv
<1>2. /\ s \in Schemas /\ s.kind = "object" /\ s.unknownKeys = "passthrough"
      /\ OneToOne(map) /\ Same(s.shape, map)
  <2>1. {LeadSchema, ContactSchema, DealSchema} \subseteq Schemas
    BY InputAssumption DEF DeclaredSchemas
  <2>2. CASE x.module = "Leads" BY <2>1, <2>2, LeadsMatch DEF RecordSchema, FieldMap
  <2>3. CASE x.module = "Contacts" BY <2>1, <2>3, ContactsMatch DEF RecordSchema, FieldMap
  <2>4. CASE x.module = "Deals" BY <2>1, <2>4, DealsMatch DEF RecordSchema, FieldMap
  <2>5. QED BY <1>1, <2>2, <2>3, <2>4
<1>3. after = MapRecord(before, map) BY DEF Renamed
<1>4. \A r : ~Excused(s, Fields(r)) BY DEF Excused, Fields
<1>5. Conforms(s, Fields(before), FALSE) => Conforms(s, Fields(after), FALSE)
  <2> HIDE DEF x, map, s, before, after
  <2>1. QED BY <1>1, <1>2, <1>3, <1>4, RenamedConforms
<1>6. \A k \in DOMAIN before :
        Unrivalled(before, map, k) =>
          /\ \A c \in DOMAIN map : map[c] = k => Found(c, k)
          /\ k \in Inherited \ ZohoNames => Found(SourceText[k], k)
          /\ k \notin ZohoNames \cup Inherited => Found(k, k)
  <2> HIDE DEF x, map, s, before, after
  <2> SUFFICES ASSUME NEW k \in DOMAIN before, Unrivalled(before, map, k)
               PROVE  /\ \A c \in DOMAIN map : map[c] = k => Found(c, k)
                      /\ k \in Inherited \ ZohoNames => Found(SourceText[k], k)
                      /\ k \notin ZohoNames \cup Inherited => Found(k, k)
    OBVIOUS
  <2>1. Found(NewName(InvertFieldMap(map), k), k)
    BY <1>3, RenamingKeepsValues, RenamedHas
  <2>2. QED BY <1>2, <2>1, WhatNewNamesAre
<1>7. DOMAIN after \cap {map[c] : c \in DOMAIN map} \subseteq DOMAIN map
  <2> HIDE DEF x, map, s, before, after
  <2>1. ASSUME NEW name \in DOMAIN after, name \in {map[c] : c \in DOMAIN map}
        PROVE  name \in DOMAIN map
    <3>1. name \in DOMAIN MapRecord(before, map) BY <1>3, <2>1
    <3>2. PICK k \in DOMAIN before : NewName(InvertFieldMap(map), k) = name BY <3>1, RenamedHas
    <3>3. QED BY <1>2, <2>1, <3>2, NewNameIs DEF Same
  <2>2. QED BY <2>1
<1>8. QED BY <1>5, <1>6, <1>7 DEF CamelRecordsConform

\* Of every record that a record module reads, the renaming keeps the conformity
\* and the values, and the names that neither the map nor every object knows,
\* and leaves no name of Zoho's that the map renames.
THEOREM RenamedRecordsConform == AlgorithmsSpec => []CamelRecordsConform
BY InputsAreChosen, CamelRecords, PTL

(***************************************************************************)
(* Configurations and options.                                             *)
(***************************************************************************)
\* Values of the kind that a schema asks for.
LEMMA SimpleTakes ==
  ASSUME NEW s \in Schemas, NEW v \in Data,
         \/ s.kind = "string" /\ v.type = "string"
         \/ s.kind = "number" /\ IsNumber(v)
         \/ s.kind = "boolean" /\ v.type = "boolean"
         \/ s.kind = "unknown"
  PROVE  Conforms(s, v, FALSE)
BY ConformsUnfolds

\* An array all of whose entries conform, ...
LEMMA ArrayTakes ==
  ASSUME NEW s \in Schemas, NEW v \in Data, s.kind = "array", v.type = "array",
         \A i \in DOMAIN v.items : v.items[i] \in Data => Conforms(s.item, v.items[i], FALSE)
  PROVE  Conforms(s, v, FALSE)
BY ConformsUnfolds, PartsAreHeld

\* ... a record all of whose fields do, ...
LEMMA RecordTakes ==
  ASSUME NEW s \in Schemas, NEW v \in Data, s.kind = "record", v.type = "object",
         \A k \in DOMAIN v.fields : v.fields[k] \in Data => Conforms(s.item, v.fields[k], FALSE)
  PROVE  Conforms(s, v, FALSE)
BY ConformsUnfolds, PartsAreHeld

\* ... an object whose keys are absent where they may be, and conform, ...
LEMMA ObjectTakes ==
  ASSUME NEW s \in Schemas, NEW v \in Data, s.kind = "object", s.unknownKeys = "passthrough",
         v.type = "object",
         \A k \in DOMAIN s.shape :
           IF Get(v.fields, k).type = "undefined" THEN s.shape[k].optional = TRUE
           ELSE Get(v.fields, k) \in Data => Conforms(s.shape[k], Get(v.fields, k), FALSE)
  PROVE  Conforms(s, v, FALSE)
<1>1. ASSUME NEW k \in DOMAIN s.shape
      PROVE  IF k \in DOMAIN v.fields THEN Conforms(s.shape[k], v.fields[k], FALSE)
             ELSE s.shape[k].optional
  <2>1. s.shape[k] \in Schemas BY PartsAreHeld
  <2>2. CASE k \in DOMAIN v.fields
    <3>1. Get(v.fields, k) = v.fields[k] /\ v.fields[k] \in Data BY <2>2, PartsAreHeld DEF Get
    <3>2. CASE v.fields[k].type = "undefined"
      <4>1. Excused(s.shape[k], v.fields[k]) BY <3>1, <3>2 DEF Excused
      <4>2. Conforms(s.shape[k], v.fields[k], FALSE) BY <2>1, <3>1, <4>1, ConformsUnfolds
      <4>3. QED BY <2>2, <4>2
    <3>3. CASE v.fields[k].type # "undefined" BY <2>2, <3>1, <3>3
    <3>4. QED BY <3>2, <3>3
  <2>3. CASE k \notin DOMAIN v.fields
    <3>1. Get(v.fields, k).type = "undefined" BY <2>3 DEF Get, Undefined
    <3>2. QED BY <2>3, <3>1
  <2>4. QED BY <2>2, <2>3
<1>2. ~Rejects(s, FALSE) BY DEF Rejects
<1>3. QED BY <1>1, <1>2, ConformsUnfolds

\* ... and a configuration like that.
LEMMA ConfigTakes ==
  ASSUME NEW s \in Schemas, NEW c, Fields(c) \in Data,
         s.kind = "object", s.unknownKeys = "passthrough",
         \A k \in DOMAIN s.shape :
           IF Get(c, k).type = "undefined" THEN s.shape[k].optional = TRUE
           ELSE Get(c, k) \in Data => Conforms(s.shape[k], Get(c, k), FALSE)
  PROVE  Conforms(s, Fields(c), FALSE)
<1>1. PICK v : v = Fields(c) OBVIOUS
<1>2. v \in Data /\ v.type = "object" /\ v.fields = c BY <1>1 DEF Fields
<1>3. Conforms(s, v, FALSE) BY <1>2, ObjectTakes
<1>4. QED BY <1>1, <1>3

\* An array of strings.
LEMMA StringsTake ==
  ASSUME NEW s \in Schemas, NEW v \in Data, s.kind = "array", s.item.kind = "string",
         StringArray(v)
  PROVE  Conforms(s, v, FALSE)
<1>1. s.item \in Schemas BY PartsAreHeld
<1>2. v.type = "array" /\ \A i \in DOMAIN v.items : v.items[i].type = "string"
  BY DEF StringArray, NonEmptyString
<1>3. QED BY <1>1, <1>2, ArrayTakes, SimpleTakes

\* A string that is one of the literals of a union.
LEMMA EnumTakes ==
  ASSUME NEW s \in Schemas, NEW v \in Data, s.kind = "union", NEW i \in DOMAIN s.of,
         s.of[i].kind = "literal", v.type = "string", s.of[i].value = Scalar("string", v.val)
  PROVE  Conforms(s, v, FALSE)
<1>1. s.of[i] \in Schemas BY PartsAreHeld
<1>2. v = Scalar("string", v.val) BY SchemaAssumption
<1>3. Conforms(s.of[i], v, FALSE) BY <1>1, <1>2, ConformsUnfolds
<1>4. QED BY <1>3, ConformsUnfolds

\* An object that conforms has keys that do.
LEMMA ObjectGives ==
  ASSUME NEW s \in Schemas, NEW c, Fields(c) \in Data, s.kind = "object",
         Conforms(s, Fields(c), FALSE), NEW k \in DOMAIN s.shape, Get(c, k).type # "undefined"
  PROVE  /\ s.shape[k] \in Schemas /\ Get(c, k) \in Data
         /\ Conforms(s.shape[k], Get(c, k), FALSE)
<1>1. PICK v : v = Fields(c) OBVIOUS
<1>2. v \in Data /\ v.type = "object" /\ v.fields = c BY <1>1 DEF Fields
<1>3. k \in DOMAIN c /\ Get(c, k) = c[k] BY DEF Get, Undefined
<1>4. ~Excused(s, v) BY <1>2 DEF Excused
<1>5. Conforms(s, v, FALSE) BY <1>1
<1>6. Conforms(s.shape[k], c[k], FALSE) BY <1>2, <1>3, <1>4, <1>5, ConformsUnfolds
<1>7. QED BY <1>2, <1>3, <1>6, PartsAreHeld

\* The strings of an enumeration.
LEMMA StringOfIs ==
  ASSUME NEW allowed, NEW s \in Schemas,
         s = StringOf(allowed) \/ s = Optional(StringOf(allowed)),
         NEW v \in Data, NEW i \in 1 .. Len(allowed), v.type = "string", v.val = allowed[i]
  PROVE  Conforms(s, v, FALSE)
<1>1. /\ StringOf(allowed).kind = "union"
      /\ StringOf(allowed).of = [j \in 1 .. Len(allowed) |-> Literal(Scalar("string", allowed[j]))]
  BY DEF StringOf, Union
<1>2. /\ Optional(StringOf(allowed)).kind = "union"
      /\ Optional(StringOf(allowed)).of = StringOf(allowed).of
  BY DEF StringOf, Union, Optional
<1>3. s.kind = "union" /\ i \in DOMAIN s.of /\ s.of[i] = Literal(Scalar("string", v.val))
  BY <1>1, <1>2
<1>4. /\ Literal(Scalar("string", v.val)).kind = "literal"
      /\ Literal(Scalar("string", v.val)).value = Scalar("string", v.val)
  BY DEF Literal
<1>5. QED BY <1>3, <1>4, EnumTakes

\* A value of an optional enumeration is one of its strings.
LEMMA StringOfGives ==
  ASSUME NEW allowed, NEW s \in Schemas, s = Optional(StringOf(allowed)),
         NEW v \in Data, v.type # "undefined", Conforms(s, v, FALSE)
  PROVE  v.type = "string" /\ \E i \in 1 .. Len(allowed) : v.val = allowed[i]
<1>1. /\ s.kind = "union" /\ s.nullable = FALSE
      /\ s.of = [j \in 1 .. Len(allowed) |-> Literal(Scalar("string", allowed[j]))]
  BY DEF StringOf, Union, Optional
<1>2. ~Excused(s, v) BY <1>1 DEF Excused
<1>3. PICK i \in DOMAIN s.of : Conforms(s.of[i], v, FALSE) BY <1>1, <1>2, ConformsUnfolds
<1>4. i \in 1 .. Len(allowed) /\ s.of[i] = Literal(Scalar("string", allowed[i])) BY <1>1, <1>3
<1>5. /\ s.of[i].kind = "literal" /\ s.of[i].value = Scalar("string", allowed[i])
      /\ s.of[i].optional = FALSE /\ s.of[i].nullable = FALSE
  BY <1>4 DEF Literal
<1>6. s.of[i] \in Schemas BY <1>1, <1>3, PartsAreHeld
<1>7. ~Excused(s.of[i], v) BY <1>5 DEF Excused
<1>8. v = Scalar("string", allowed[i]) BY <1>3, <1>5, <1>6, <1>7, ConformsUnfolds
<1>9. QED BY <1>4, <1>8 DEF Scalar

Verbs == <<"GET", "POST", "PUT", "PATCH">>
Texts == {"name", "url", "module", "description", "channel"}
\* What s, which is w or part of it, asks for if w is the schema of a webhook
\* configuration or its declared type.
IsOfWebhooks(w, s) ==
  /\ s.kind = "object" /\ s.unknownKeys = "passthrough"
  /\ DOMAIN s.shape = Texts \cup {"httpMethod", "events", "parameters"}
  /\ \A k \in Texts : s.shape[k].kind = "string"
  /\ w = WebhookConfigSchema => s.shape["httpMethod"].kind = "string"
  /\ w = WebhookConfigType => s.shape["httpMethod"] = Optional(StringOf(Verbs))
  /\ s.shape["events"].kind = "array" /\ s.shape["events"].item.kind = "string"
  /\ s.shape["parameters"].kind = "record" /\ s.shape["parameters"].item.kind = "string"
  /\ \A k \in {"description", "httpMethod", "channel", "parameters"} : s.shape[k].optional = TRUE
  /\ \A k \in DOMAIN s.shape : Partial(w).shape[k].optional = TRUE
LEMMA WebhookShape ==
  ASSUME NEW w \in {WebhookConfigSchema, WebhookConfigType}, NEW s \in {w, Partial(w)}
  PROVE  IsOfWebhooks(w, s)
<1> DEFINE schema == WebhookConfigSchema
           verb == Optional(StringOf(Verbs))
           strings == {"description", "channel"}
<1>1. schema.kind = "object" /\ schema.unknownKeys = "passthrough"
  BY DEF WebhookConfigSchema, With, Object
<1>2. /\ DOMAIN schema.shape = Texts \cup {"httpMethod", "events", "parameters"}
      /\ \A k \in Texts : schema.shape[k] = IF k \in strings THEN Optional(Str) ELSE Str
      /\ schema.shape["httpMethod"] = Optional(Str)
      /\ schema.shape["events"] = ArrayOf(Str) /\ schema.shape["parameters"] = Optional(RecordOf(Str))
  BY DEF WebhookConfigSchema, With, Object, Joined, Maybe, All, Texts
<1>3. /\ Str.kind = "string" /\ Optional(Str).kind = "string" /\ Optional(Str).optional = TRUE
      /\ Optional(Optional(Str)).kind = "string" /\ Optional(Optional(Str)).optional = TRUE
      /\ ArrayOf(Str).kind = "array" /\ ArrayOf(Str).item = Str
      /\ Optional(ArrayOf(Str)).kind = "array" /\ Optional(ArrayOf(Str)).item = Str
      /\ Optional(ArrayOf(Str)).optional = TRUE
      /\ Optional(RecordOf(Str)).kind = "record" /\ Optional(RecordOf(Str)).item = Str
      /\ Optional(RecordOf(Str)).optional = TRUE
      /\ Optional(Optional(RecordOf(Str))).kind = "record"
      /\ Optional(Optional(RecordOf(Str))).item = Str
      /\ Optional(Optional(RecordOf(Str))).optional = TRUE
  BY DEF Optional, Str, Kind, ArrayOf, RecordOf
<1>4. verb.optional = TRUE /\ Optional(verb) = verb BY DEF Optional, StringOf, Union
<1>5. /\ w.kind = "object" /\ w.unknownKeys = "passthrough" /\ DOMAIN w.shape = DOMAIN schema.shape
      /\ \A k \in DOMAIN schema.shape : k # "httpMethod" => w.shape[k] = schema.shape[k]
      /\ w = schema => w.shape["httpMethod"] = Optional(Str)
      /\ w = WebhookConfigType => w.shape["httpMethod"] = verb
      /\ Partial(w) = [w EXCEPT !.shape = [k \in DOMAIN w.shape |-> Optional(w.shape[k])]]
      /\ Partial(w).kind = w.kind /\ Partial(w).unknownKeys = w.unknownKeys
      /\ Partial(w).shape = [k \in DOMAIN w.shape |-> Optional(w.shape[k])]
  <2>1. CASE w = schema
    <3>1. w # WebhookConfigType \/ w.shape["httpMethod"] = verb
      BY <2>1, <1>2 DEF WebhookConfigType, WebhookConfigSchema, With, Object, Verbs
    <3>2. QED BY <1>1, <1>2, <2>1, <3>1 DEF Partial, WebhookConfigSchema, With, Object
  <2>2. CASE w = WebhookConfigType
    <3>1. /\ w.kind = schema.kind /\ w.unknownKeys = schema.unknownKeys
          /\ w.shape = [schema.shape EXCEPT !["httpMethod"] = verb]
          /\ w = [kind |-> "object", optional |-> FALSE, nullable |-> FALSE,
                  shape |-> w.shape, unknownKeys |-> "passthrough"]
      BY <2>2 DEF WebhookConfigType, WebhookConfigSchema, With, Object, Verbs
    <3>2. w = schema => w.shape["httpMethod"] = Optional(Str) BY <1>2
    <3>3. w.shape["httpMethod"] = verb BY <1>2, <3>1
    <3>4. QED BY <1>1, <1>2, <3>1, <3>2, <3>3 DEF Partial
  <2>3. QED BY <2>1, <2>2
<1>6. /\ DOMAIN w.shape = Texts \cup {"httpMethod", "events", "parameters"}
      /\ \A k \in Texts : w.shape[k] = IF k \in strings THEN Optional(Str) ELSE Str
      /\ w.shape["httpMethod"] \in {Optional(Str), verb}
      /\ w.shape["events"] = ArrayOf(Str) /\ w.shape["parameters"] = Optional(RecordOf(Str))
  BY <1>2, <1>5 DEF Texts
<1> HIDE DEF schema, verb
<1>7. /\ DOMAIN Partial(w).shape = DOMAIN w.shape
      /\ \A k \in DOMAIN w.shape : Partial(w).shape[k] = Optional(w.shape[k])
  BY <1>5
<1>8. \A k \in DOMAIN w.shape : Partial(w).shape[k].optional = TRUE
  <2>1. ASSUME NEW k \in DOMAIN w.shape
        PROVE  w.shape[k] \in {Str, Optional(Str), verb, ArrayOf(Str), Optional(RecordOf(Str))}
    BY <1>6
  <2>2. QED BY <1>3, <1>4, <1>7, <2>1
<1>9. /\ \A k \in Texts : w.shape[k].kind = "string"
      /\ \A k \in {"description", "httpMethod", "channel", "parameters"} : w.shape[k].optional = TRUE
      /\ w.shape["events"].kind = "array" /\ w.shape["events"].item.kind = "string"
      /\ w.shape["parameters"].kind = "record" /\ w.shape["parameters"].item.kind = "string"
  BY <1>3, <1>4, <1>6 DEF Texts
<1>10. /\ \A k \in Texts : Partial(w).shape[k].kind = "string"
       /\ Partial(w).shape["events"].kind = "array" /\ Partial(w).shape["events"].item.kind = "string"
       /\ Partial(w).shape["parameters"].kind = "record"
       /\ Partial(w).shape["parameters"].item.kind = "string"
  BY <1>3, <1>6, <1>7
<1>11. ASSUME NEW x \in {w, Partial(w)}
       PROVE  /\ w = schema => x.shape["httpMethod"].kind = "string"
              /\ w = WebhookConfigType => x.shape["httpMethod"] = verb
  <2>1. CASE x = w BY <1>3, <1>5, <2>1
  <2>2. CASE x = Partial(w)
    <3>1. x.shape["httpMethod"] = Optional(w.shape["httpMethod"]) BY <1>6, <1>7, <2>2
    <3>2. QED BY <1>3, <1>4, <1>5, <3>1
  <2>3. QED BY <1>11, <2>1, <2>2
<1>12. DOMAIN s.shape = DOMAIN w.shape /\ s.kind = "object" /\ s.unknownKeys = "passthrough"
  BY <1>5
<1>13. /\ w = WebhookConfigSchema => s.shape["httpMethod"].kind = "string"
       /\ w = WebhookConfigType => s.shape["httpMethod"] = Optional(StringOf(Verbs))
  BY <1>11 DEF schema, verb
<1>14. /\ \A k \in Texts : s.shape[k].kind = "string"
       /\ \A k \in {"description", "httpMethod", "channel", "parameters"} : s.shape[k].optional = TRUE
       /\ s.shape["events"].kind = "array" /\ s.shape["events"].item.kind = "string"
       /\ s.shape["parameters"].kind = "record" /\ s.shape["parameters"].item.kind = "string"
  <2>1. CASE s = w BY <1>9, <2>1
  <2>2. CASE s = Partial(w) BY <1>6, <1>8, <1>10, <2>2 DEF Texts
  <2>3. QED BY <2>1, <2>2
<1>15. QED BY <1>6, <1>8, <1>12, <1>13, <1>14 DEF IsOfWebhooks

\* The checks of webhook configurations are no weaker than their schema, and no
\* weaker than their type but for the method.
LEMMA WebhooksAreTaken ==
  ASSUME NEW c, Fields(c) \in Data
  PROVE  /\ ValidateWebhookConfig(c) =>
              /\ Conforms(WebhookConfigSchema, Fields(c), FALSE)
              /\ Conforms(WebhookConfigType, Fields(c), FALSE) <=> MethodIsDeclared(c)
         /\ ValidateWebhookUpdate(c) =>
              /\ Conforms(Partial(WebhookConfigSchema), Fields(c), FALSE)
              /\ Conforms(Partial(WebhookConfigType), Fields(c), FALSE) <=> MethodIsDeclared(c)
<1> DEFINE method == Get(c, "httpMethod")
<1>1. ASSUME NEW w \in {WebhookConfigSchema, WebhookConfigType}, NEW s \in {w, Partial(w)}
      PROVE  s \in Schemas
  BY InputAssumption DEF DeclaredSchemas
<1>2. ASSUME NEW w \in {WebhookConfigSchema, WebhookConfigType}, NEW s \in {w, Partial(w)},
             \A k \in Texts : NonEmptyString(Get(c, k)) \/ (s.shape[k].optional = TRUE /\ OptionalString(Get(c, k))),
             \/ StringArray(Get(c, "events"))
             \/ s.shape["events"].optional = TRUE /\ OptionalStringArray(Get(c, "events")),
             OptionalRecordOfStrings(Get(c, "parameters")),
             method.type # "undefined" /\ method \in Data => Conforms(s.shape["httpMethod"], method, FALSE)
      PROVE  Conforms(s, Fields(c), FALSE)
  <2>1. s \in Schemas BY <1>1, <1>2
  <2>2. /\ s.kind = "object" /\ s.unknownKeys = "passthrough"
        /\ DOMAIN s.shape = Texts \cup {"httpMethod", "events", "parameters"}
        /\ \A k \in Texts : s.shape[k].kind = "string"
        /\ s.shape["events"].kind = "array" /\ s.shape["events"].item.kind = "string"
        /\ s.shape["parameters"].kind = "record" /\ s.shape["parameters"].item.kind = "string"
        /\ \A k \in {"description", "httpMethod", "channel", "parameters"} : s.shape[k].optional = TRUE
    <3>1. IsOfWebhooks(w, s) BY <1>2, WebhookShape
    <3>2. QED BY <3>1 DEF IsOfWebhooks
  <2>3. \A k \in DOMAIN s.shape : s.shape[k] \in Schemas BY <2>1, <2>2, PartsAreHeld
  <2>4. ASSUME NEW k \in DOMAIN s.shape
        PROVE  IF Get(c, k).type = "undefined" THEN s.shape[k].optional = TRUE
               ELSE Get(c, k) \in Data => Conforms(s.shape[k], Get(c, k), FALSE)
    <3>1. CASE k \in Texts
      <4>1. Get(c, k).type = "string" \/ (Get(c, k).type = "undefined" /\ s.shape[k].optional = TRUE)
        BY <1>2, <3>1 DEF OptionalString, NonEmptyString
      <4>2. QED BY <2>2, <2>3, <3>1, <4>1, SimpleTakes
    <3>2. CASE k = "events"
      <4>1. StringArray(Get(c, k)) \/ (Get(c, k).type = "undefined" /\ s.shape[k].optional = TRUE)
        BY <1>2, <3>2 DEF OptionalStringArray
      <4>2. QED BY <2>2, <2>3, <3>2, <4>1, StringsTake DEF StringArray
    <3>3. CASE k = "parameters"
      <4>1. \/ Get(c, k).type = "undefined"
            \/ /\ Get(c, k).type = "object"
               /\ \A j \in DOMAIN Get(c, k).fields : Get(c, k).fields[j].type = "string"
        BY <1>2, <3>3 DEF OptionalRecordOfStrings
      <4>2. s.shape[k].item \in Schemas BY <2>2, <2>3, <3>3, PartsAreHeld
      <4>3. QED BY <2>2, <2>3, <3>3, <4>1, <4>2, RecordTakes, SimpleTakes
    <3>4. CASE k = "httpMethod" BY <1>2, <2>2, <3>4
    <3>5. QED BY <2>2, <3>1, <3>2, <3>3, <3>4
  <2>5. QED BY <2>1, <2>2, <2>4, ConfigTakes
<1>3. ASSUME NEW s \in {WebhookConfigSchema, Partial(WebhookConfigSchema)}, OptionalString(method),
             method.type # "undefined", method \in Data
      PROVE  Conforms(s.shape["httpMethod"], method, FALSE)
  <2>1. s \in Schemas BY <1>1, <1>3
  <2>2. s.kind = "object" /\ "httpMethod" \in DOMAIN s.shape /\ s.shape["httpMethod"].kind = "string"
    BY <1>3, WebhookShape DEF IsOfWebhooks
  <2>3. s.shape["httpMethod"] \in Schemas BY <2>1, <2>2, PartsAreHeld
  <2>4. method.type = "string" BY <1>3 DEF OptionalString, NonEmptyString
  <2>5. QED BY <1>3, <2>2, <2>3, <2>4, SimpleTakes
<1>4. ASSUME NEW s \in {WebhookConfigType, Partial(WebhookConfigType)}, MethodIsDeclared(c),
             method.type # "undefined", method \in Data
      PROVE  Conforms(s.shape["httpMethod"], method, FALSE)
  <2>1. s \in Schemas BY <1>1, <1>4
  <2>2. /\ s.kind = "object" /\ "httpMethod" \in DOMAIN s.shape
        /\ s.shape["httpMethod"] = Optional(StringOf(Verbs))
    BY <1>4, WebhookShape DEF IsOfWebhooks
  <2>3. s.shape["httpMethod"] \in Schemas BY <2>1, <2>2, PartsAreHeld
  <2>4. method.type = "string" /\ method.val \in {"GET", "POST", "PUT", "PATCH"}
    BY <1>4 DEF MethodIsDeclared, OptionalEnum, OneOf
  <2>5. PICK v : v = method OBVIOUS
  <2>6. v \in Data /\ v.type = "string" /\ v.val \in {"GET", "POST", "PUT", "PATCH"}
    BY <1>4, <2>4, <2>5
  <2>7. PICK i \in 1 .. Len(Verbs) : v.val = Verbs[i] BY <2>6 DEF Verbs
  <2>8. Conforms(s.shape["httpMethod"], v, FALSE) BY <2>2, <2>3, <2>6, <2>7, StringOfIs
  <2>9. QED BY <2>5, <2>8
<1>5. ASSUME NEW s \in {WebhookConfigType, Partial(WebhookConfigType)}, Conforms(s, Fields(c), FALSE)
      PROVE  MethodIsDeclared(c)
  <2>1. CASE method.type = "undefined" BY <2>1 DEF MethodIsDeclared, OptionalEnum
  <2>2. CASE method.type # "undefined"
    <3>1. s \in Schemas BY <1>1, <1>5
    <3>2. /\ s.kind = "object" /\ "httpMethod" \in DOMAIN s.shape
          /\ s.shape["httpMethod"] = Optional(StringOf(Verbs))
      BY <1>5, WebhookShape DEF IsOfWebhooks
    <3>3. /\ s.shape["httpMethod"] \in Schemas /\ method \in Data
          /\ Conforms(s.shape["httpMethod"], method, FALSE)
      BY <1>5, <2>2, <3>1, <3>2, ObjectGives
    <3>4. PICK v : v = method OBVIOUS
    <3>5. v.type = "string" /\ \E i \in 1 .. Len(Verbs) : v.val = Verbs[i]
      BY <2>2, <3>2, <3>3, <3>4, StringOfGives
    <3>6. v.val \in {"GET", "POST", "PUT", "PATCH"} BY <3>5 DEF Verbs
    <3>7. QED BY <3>4, <3>5, <3>6 DEF MethodIsDeclared, OptionalEnum, OneOf
  <2>3. QED BY <2>1, <2>2
<1>6. ASSUME ValidateWebhookConfig(c)
      PROVE  /\ Conforms(WebhookConfigSchema, Fields(c), FALSE)
             /\ MethodIsDeclared(c) => Conforms(WebhookConfigType, Fields(c), FALSE)
  <2>1. ASSUME NEW w \in {WebhookConfigSchema, WebhookConfigType}
        PROVE  \A k \in {"description", "channel"} : w.shape[k].optional = TRUE
    BY <2>1, WebhookShape DEF IsOfWebhooks
  <2>2. OptionalString(method) BY <1>6 DEF ValidateWebhookConfig
  <2>3. Conforms(WebhookConfigSchema, Fields(c), FALSE)
    BY <1>2, <1>3, <1>6, <2>1, <2>2 DEF ValidateWebhookConfig, Texts
  <2>4. MethodIsDeclared(c) => Conforms(WebhookConfigType, Fields(c), FALSE)
    BY <1>2, <1>4, <1>6, <2>1 DEF ValidateWebhookConfig, Texts
  <2>5. QED BY <2>3, <2>4
<1>7. ASSUME ValidateWebhookUpdate(c)
      PROVE  /\ Conforms(Partial(WebhookConfigSchema), Fields(c), FALSE)
             /\ MethodIsDeclared(c) => Conforms(Partial(WebhookConfigType), Fields(c), FALSE)
  <2>1. ASSUME NEW w \in {WebhookConfigSchema, WebhookConfigType}
        PROVE  \A k \in Texts \cup {"events"} : Partial(w).shape[k].optional = TRUE
    BY <2>1, WebhookShape DEF IsOfWebhooks
  <2>2. OptionalString(method) BY <1>7 DEF ValidateWebhookUpdate
  <2>3. Conforms(Partial(WebhookConfigSchema), Fields(c), FALSE)
    BY <1>2, <1>3, <1>7, <2>1, <2>2 DEF ValidateWebhookUpdate, Texts
  <2>4. MethodIsDeclared(c) => Conforms(Partial(WebhookConfigType), Fields(c), FALSE)
    BY <1>2, <1>4, <1>7, <2>1 DEF ValidateWebhookUpdate, Texts
  <2>5. QED BY <2>3, <2>4
<1>8. QED BY <1>5, <1>6, <1>7, ConformsIsBoolean

\* Neither is the check of a callback, ...
LEMMA CallbacksAreTaken ==
  ASSUME NEW s \in Schemas, s = Optional(BulkCallbackType), NEW v \in Data, ValidateBulkCallback(v)
  PROVE  Conforms(s, v, FALSE)
<1>1. /\ s.kind = "object" /\ s.unknownKeys = "passthrough" /\ DOMAIN s.shape = {"url", "method"}
      /\ s.shape["url"] = Str /\ s.shape["method"] = Optional(StringOf(<<"post", "get">>))
  BY DEF Optional, BulkCallbackType, With, Object, Joined
<1>2. Str.kind = "string" /\ Optional(StringOf(<<"post", "get">>)).optional = TRUE
  BY DEF Str, Kind, Optional, StringOf, Union
<1>3. \A k \in DOMAIN s.shape : s.shape[k] \in Schemas BY <1>1, PartsAreHeld
<1>4. /\ v.type = "object" /\ Get(v.fields, "url").type = "string"
      /\ \/ Get(v.fields, "method").type = "undefined"
         \/ Get(v.fields, "method").type = "string" /\ Get(v.fields, "method").val \in {"post", "get"}
  BY DEF ValidateBulkCallback, NonEmptyObject, PlainObject, NonEmptyString, OptionalEnum, OneOf
<1>5. Get(v.fields, "url") \in Data => Conforms(s.shape["url"], Get(v.fields, "url"), FALSE)
  BY <1>1, <1>2, <1>3, <1>4, SimpleTakes
<1>6. Get(v.fields, "method").type # "undefined" /\ Get(v.fields, "method") \in Data =>
        Conforms(s.shape["method"], Get(v.fields, "method"), FALSE)
  <2>1. PICK t, w, allowed : /\ t = s.shape["method"] /\ w = Get(v.fields, "method")
                              /\ allowed = <<"post", "get">>
    OBVIOUS
  <2>2. t \in Schemas /\ t = Optional(StringOf(allowed)) BY <1>1, <1>3, <2>1
  <2>3. ASSUME w.type # "undefined", w \in Data PROVE Conforms(t, w, FALSE)
    <3>1. w.type = "string" /\ w.val \in {"post", "get"} BY <1>4, <2>1, <2>3
    <3>2. PICK i \in 1 .. Len(allowed) : w.val = allowed[i] BY <2>1, <3>1
    <3>3. QED BY <2>2, <2>3, <3>1, <3>2, StringOfIs
  <2>4. QED BY <2>1, <2>3
<1>7. \A k \in DOMAIN s.shape :
        IF Get(v.fields, k).type = "undefined" THEN s.shape[k].optional = TRUE
        ELSE Get(v.fields, k) \in Data => Conforms(s.shape[k], Get(v.fields, k), FALSE)
  BY <1>1, <1>2, <1>4, <1>5, <1>6
<1>8. QED BY <1>1, <1>4, <1>7, ObjectTakes

\* ... that of a field mapping, but for its default value, ...
DefaultType == Union(<<Str, Num, Bool>>)
LEMMA DefaultsTake ==
  ASSUME NEW s \in Schemas, s = Optional(DefaultType), NEW v \in Data, v.type # "undefined"
  PROVE  Conforms(s, v, FALSE) <=> IsNumber(v) \/ v.type \in {"string", "boolean"}
<1>1. s.kind = "union" /\ s.nullable = FALSE /\ s.of = <<Str, Num, Bool>>
  BY DEF DefaultType, Union, Optional
<1>2. ~Excused(s, v) BY <1>1 DEF Excused
<1>3. /\ Str.kind = "string" /\ Num.kind = "number" /\ Bool.kind = "boolean"
      /\ \A p \in {Str, Num, Bool} : p.optional = FALSE /\ p.nullable = FALSE
  BY DEF Str, Num, Bool, Kind
<1>4. DOMAIN s.of = 1 .. 3 /\ s.of[1] = Str /\ s.of[2] = Num /\ s.of[3] = Bool BY <1>1
<1>5. {Str, Num, Bool} \subseteq Schemas
  <2>1. \A i \in 1 .. 3 : s.of[i] \in Schemas BY <1>1, <1>4, PartsAreHeld
  <2>2. QED BY <1>4, <2>1
<1>6. \A p \in {Str, Num, Bool} : ~Excused(p, v) BY <1>3 DEF Excused
<1>7. /\ Conforms(Str, v, FALSE) <=> v.type = "string"
      /\ Conforms(Num, v, FALSE) <=> IsNumber(v)
      /\ Conforms(Bool, v, FALSE) <=> v.type = "boolean"
  BY <1>3, <1>5, <1>6, ConformsUnfolds
<1>8. Conforms(s, v, FALSE) <=> \E i \in 1 .. 3 : Conforms(s.of[i], v, FALSE)
  BY <1>1, <1>2, <1>4, ConformsUnfolds
<1>9. Conforms(s, v, FALSE) <=>
        Conforms(Str, v, FALSE) \/ Conforms(Num, v, FALSE) \/ Conforms(Bool, v, FALSE)
  <2>1. 1 .. 3 = {1, 2, 3} OBVIOUS
  <2>2. QED BY <1>4, <1>8, <2>1
<1>10. QED BY <1>7, <1>9

LEMMA MappingShape ==
  /\ BulkWriteFieldMappingType.kind = "object"
  /\ BulkWriteFieldMappingType.unknownKeys = "passthrough"
  /\ DOMAIN BulkWriteFieldMappingType.shape = {"apiName", "index", "defaultValue"}
  /\ BulkWriteFieldMappingType.shape["apiName"] = Str
  /\ BulkWriteFieldMappingType.shape["index"] = Optional(Num)
  /\ BulkWriteFieldMappingType.shape["defaultValue"] = Optional(DefaultType)
BY DEF BulkWriteFieldMappingType, With, Object, Joined, DefaultType

LEMMA MappingsAreTaken ==
  ASSUME NEW s \in Schemas, s = BulkWriteFieldMappingType, NEW v \in Data, ValidateFieldMapping(v)
  PROVE  Conforms(s, v, FALSE) <=> DefaultIsDeclared(v)
<1> DEFINE value == Get(v.fields, "defaultValue")
<1>1. /\ s.kind = "object" /\ s.unknownKeys = "passthrough"
      /\ DOMAIN s.shape = {"apiName", "index", "defaultValue"}
      /\ s.shape["apiName"] = Str /\ s.shape["index"] = Optional(Num)
      /\ s.shape["defaultValue"] = Optional(DefaultType)
  BY MappingShape
<1>2. /\ Str.kind = "string" /\ Optional(Num).kind = "number"
      /\ Optional(Num).optional = TRUE /\ Optional(DefaultType).optional = TRUE
  BY DEF Str, Num, Kind, Optional, DefaultType, Union
<1>3. \A k \in DOMAIN s.shape : s.shape[k] \in Schemas BY <1>1, PartsAreHeld
<1>4. /\ v.type = "object" /\ Get(v.fields, "apiName").type = "string"
      /\ Get(v.fields, "index").type = "undefined" \/ IsNumber(Get(v.fields, "index"))
  BY DEF ValidateFieldMapping, NonEmptyObject, PlainObject, NonEmptyString, OptionalNumber
<1>5. \A k \in {"apiName", "index"} :
        Get(v.fields, k).type # "undefined" /\ Get(v.fields, k) \in Data =>
          Conforms(s.shape[k], Get(v.fields, k), FALSE)
  BY <1>1, <1>2, <1>3, <1>4, SimpleTakes
<1>6. DefaultIsDeclared(v) <=>
        value.type = "undefined" \/ IsNumber(value) \/ value.type \in {"string", "boolean"}
  BY DEF DefaultIsDeclared, OptionalNumber
<1>7. value.type # "undefined" /\ value \in Data =>
        (Conforms(s.shape["defaultValue"], value, FALSE) <=> DefaultIsDeclared(v))
  <2>1. PICK t, w : t = s.shape["defaultValue"] /\ w = value OBVIOUS
  <2>2. t \in Schemas /\ t = Optional(DefaultType) BY <1>1, <1>3, <2>1
  <2>3. w.type # "undefined" /\ w \in Data =>
          (Conforms(t, w, FALSE) <=> IsNumber(w) \/ w.type \in {"string", "boolean"})
    BY <2>2, DefaultsTake
  <2>4. QED BY <1>6, <2>1, <2>3
<1>8. ASSUME DefaultIsDeclared(v) PROVE Conforms(s, v, FALSE)
  <2>1. ASSUME NEW k \in DOMAIN s.shape
        PROVE  IF Get(v.fields, k).type = "undefined" THEN s.shape[k].optional = TRUE
               ELSE Get(v.fields, k) \in Data => Conforms(s.shape[k], Get(v.fields, k), FALSE)
    BY <1>1, <1>2, <1>4, <1>5, <1>7, <1>8
  <2>2. QED BY <1>1, <1>4, <2>1, ObjectTakes
<1>9. ASSUME Conforms(s, v, FALSE) PROVE DefaultIsDeclared(v)
  <2>1. CASE value.type = "undefined" BY <1>6, <2>1
  <2>2. CASE value.type # "undefined"
    <3>1. ~Excused(s, v) /\ "defaultValue" \in DOMAIN v.fields /\ value = v.fields["defaultValue"]
      BY <1>1, <1>4, <2>2 DEF Get, Undefined, Excused, BulkWriteFieldMappingType, With, Object
    <3>2. Conforms(s.shape["defaultValue"], value, FALSE) /\ value \in Data
      <4>1. "defaultValue" \in DOMAIN s.shape /\ s.kind = "object" BY <1>1
      <4>2. value \in Data BY <1>4, <3>1, PartsAreHeld
      <4>3. \A k \in DOMAIN s.shape : k \in DOMAIN v.fields => Conforms(s.shape[k], v.fields[k], FALSE)
        BY <1>9, <3>1, <4>1, ConformsUnfolds
      <4>4. QED BY <3>1, <4>1, <4>2, <4>3
    <3>3. QED BY <1>7, <2>2, <3>2
  <2>3. QED BY <2>1, <2>2
<1>10. QED BY <1>8, <1>9, ConformsIsBoolean DEF DefaultIsDeclared, OptionalNumber, IsNumber

\* ... that of the configuration of a bulk read, ...
LEMMA BulkReadsAreTaken ==
  ASSUME NEW c, Fields(c) \in Data, ValidateBulkReadConfig(c)
  PROVE  Conforms(BulkReadJobConfigType, Fields(c), FALSE)
<1> DEFINE s == BulkReadJobConfigType
           optional == {"fields", "page", "perPage", "criteria", "callback", "fileType"}
<1>1. s \in Schemas BY InputAssumption DEF DeclaredSchemas
<1>2. /\ s.kind = "object" /\ s.unknownKeys = "passthrough"
      /\ DOMAIN s.shape = {"module"} \cup optional /\ s.shape["module"] = Str
      /\ s.shape["fields"] = Optional(ArrayOf(Str))
      /\ s.shape["page"] = Optional(Num) /\ s.shape["perPage"] = Optional(Num)
      /\ s.shape["criteria"] = Optional(RecordOf(Unknown))
      /\ s.shape["callback"] = Optional(BulkCallbackType)
      /\ s.shape["fileType"] = Optional(StringOf(<<"csv", "ics">>))
  BY DEF BulkReadJobConfigType, With, Object, Joined
<1> HIDE DEF s
<1>3. /\ Str.kind = "string" /\ Optional(Num).kind = "number" /\ Unknown.kind = "unknown"
      /\ Optional(ArrayOf(Str)).kind = "array" /\ Optional(ArrayOf(Str)).item = Str
      /\ Optional(RecordOf(Unknown)).kind = "record" /\ Optional(RecordOf(Unknown)).item = Unknown
  BY DEF Str, Num, Unknown, Kind, Optional, ArrayOf, RecordOf
<1>4. \A k \in optional : s.shape[k].optional = TRUE
  BY <1>2 DEF Str, Num, Unknown, Kind, Optional, ArrayOf, RecordOf, BulkCallbackType, With, Object,
              StringOf, Union
<1>5. \A k \in DOMAIN s.shape : s.shape[k] \in Schemas BY <1>1, <1>2, PartsAreHeld
<1>6. ASSUME NEW k \in DOMAIN s.shape
      PROVE  IF Get(c, k).type = "undefined" THEN s.shape[k].optional = TRUE
             ELSE Get(c, k) \in Data => Conforms(s.shape[k], Get(c, k), FALSE)
  <2>1. CASE k = "module"
    <3>1. Get(c, k).type = "string" BY <2>1 DEF ValidateBulkReadConfig, NonEmptyString
    <3>2. QED BY <1>2, <1>3, <1>5, <2>1, <3>1, SimpleTakes
  <2>2. CASE k = "fields"
    <3>1. Get(c, k).type = "undefined" \/ StringArray(Get(c, k))
      BY <2>2 DEF ValidateBulkReadConfig, OptionalStringArray
    <3>2. /\ s.shape[k] \in Schemas /\ s.shape[k].kind = "array" /\ s.shape[k].item.kind = "string"
          /\ s.shape[k].optional = TRUE
      BY <1>2, <1>3, <1>4, <1>5, <2>2
    <3>3. QED BY <3>1, <3>2, StringsTake
  <2>3. CASE k \in {"page", "perPage"}
    <3>1. Get(c, k).type = "undefined" \/ IsNumber(Get(c, k))
      BY <2>3 DEF ValidateBulkReadConfig, OptionalNumber
    <3>2. s.shape[k] \in Schemas /\ s.shape[k].kind = "number" /\ s.shape[k].optional = TRUE
      BY <1>2, <1>3, <1>4, <1>5, <2>3
    <3>3. QED BY <3>1, <3>2, SimpleTakes
  <2>4. CASE k = "criteria"
    <3>1. Get(c, k).type \in {"undefined", "object"}
      BY <2>4 DEF ValidateBulkReadConfig, NonEmptyObject, PlainObject, Get, Undefined
    <3>2. s.shape[k].item \in Schemas BY <1>2, <1>3, <1>5, <2>4, PartsAreHeld
    <3>3. s.shape[k] \in Schemas /\ s.shape[k].kind = "record" /\ s.shape[k].item.kind = "unknown"
          /\ s.shape[k].optional = TRUE
      BY <1>2, <1>3, <1>4, <1>5, <2>4
    <3>4. \A w \in Data : Conforms(s.shape[k].item, w, FALSE) BY <3>2, <3>3, SimpleTakes
    <3>5. QED BY <3>1, <3>3, <3>4, RecordTakes
  <2>5. CASE k = "callback"
    <3>1. Get(c, k).type = "undefined" \/ ValidateBulkCallback(Get(c, k))
      BY <2>5 DEF ValidateBulkReadConfig, Get, Undefined
    <3>2. QED BY <1>2, <1>4, <1>5, <2>5, <3>1, CallbacksAreTaken
  <2>6. CASE k = "fileType"
    <3>1. \/ Get(c, k).type = "undefined"
          \/ Get(c, k).type = "string" /\ Get(c, k).val \in {"csv", "ics"}
      BY <2>6 DEF ValidateBulkReadConfig, OptionalEnum, OneOf
    <3>2. PICK t, w, allowed : t = s.shape[k] /\ w = Get(c, k) /\ allowed = <<"csv", "ics">>
      OBVIOUS
    <3>3. t \in Schemas /\ t = Optional(StringOf(allowed)) BY <1>2, <1>5, <2>6, <3>2
    <3>4. ASSUME w.type # "undefined", w \in Data PROVE Conforms(t, w, FALSE)
      <4>1. w.type = "string" /\ w.val \in {"csv", "ics"} BY <3>1, <3>2, <3>4
      <4>2. PICK i \in 1 .. Len(allowed) : w.val = allowed[i] BY <3>2, <4>1
      <4>3. QED BY <3>3, <3>4, <4>1, <4>2, StringOfIs
    <3>5. s.shape[k].optional = TRUE BY <1>4, <2>6
    <3>6. QED BY <3>2, <3>4, <3>5
  <2>7. QED BY <1>2, <2>1, <2>2, <2>3, <2>4, <2>5, <2>6
<1>7. Conforms(s, Fields(c), FALSE) BY <1>1, <1>2, <1>6, ConfigTakes
<1>8. QED BY <1>7 DEF s

\* ... or of a bulk write, but for the default values.
LEMMA BulkWritesAreTaken ==
  ASSUME NEW c, Fields(c) \in Data, ValidateBulkWriteConfig(c)
  PROVE  Conforms(BulkWriteJobConfigType, Fields(c), FALSE) <=> DefaultsAreDeclared(c)
<1> DEFINE s == BulkWriteJobConfigType
           optional == {"findBy", "characterEncoding", "ignoreEmpty", "callback", "fieldMappings"}
<1>1. s \in Schemas BY InputAssumption DEF DeclaredSchemas
<1>2. /\ s.kind = "object" /\ s.unknownKeys = "passthrough"
      /\ DOMAIN s.shape = {"operation", "module", "fileId"} \cup optional
      /\ s.shape["operation"] = StringOf(<<"insert", "update", "upsert", "delete">>)
      /\ s.shape["module"] = Str /\ s.shape["fileId"] = Str
      /\ s.shape["findBy"] = Optional(Str) /\ s.shape["characterEncoding"] = Optional(Str)
      /\ s.shape["ignoreEmpty"] = Optional(Bool)
      /\ s.shape["callback"] = Optional(BulkCallbackType)
      /\ s.shape["fieldMappings"] = Optional(ArrayOf(BulkWriteFieldMappingType))
  BY DEF BulkWriteJobConfigType, With, Object, Joined
<1> HIDE DEF s
<1>3. /\ Str.kind = "string" /\ Optional(Str).kind = "string" /\ Optional(Bool).kind = "boolean"
      /\ Optional(ArrayOf(BulkWriteFieldMappingType)).kind = "array"
      /\ Optional(ArrayOf(BulkWriteFieldMappingType)).item = BulkWriteFieldMappingType
  BY DEF Str, Bool, Kind, Optional, ArrayOf
<1>4. \A k \in optional : s.shape[k].optional = TRUE
  BY <1>2 DEF Str, Bool, Kind, Optional, ArrayOf, BulkCallbackType, With, Object
<1>5. \A k \in DOMAIN s.shape : s.shape[k] \in Schemas BY <1>1, <1>2, PartsAreHeld
<1>6. ASSUME DefaultsAreDeclared(c), NEW k \in DOMAIN s.shape
      PROVE  IF Get(c, k).type = "undefined" THEN s.shape[k].optional = TRUE
             ELSE Get(c, k) \in Data => Conforms(s.shape[k], Get(c, k), FALSE)
  <2>1. CASE k = "operation"
    <3>1. Get(c, k).type = "string" /\ Get(c, k).val \in {"insert", "update", "upsert", "delete"}
      BY <2>1 DEF ValidateBulkWriteConfig, OneOf
    <3>2. PICK t, w, allowed : /\ t = s.shape[k] /\ w = Get(c, k)
                                /\ allowed = <<"insert", "update", "upsert", "delete">>
      OBVIOUS
    <3>3. t \in Schemas /\ t = StringOf(allowed) BY <1>2, <1>5, <2>1, <3>2
    <3>4. ASSUME w \in Data PROVE Conforms(t, w, FALSE)
      <4>1. PICK i \in 1 .. Len(allowed) : w.val = allowed[i] BY <3>1, <3>2
      <4>2. QED BY <3>1, <3>2, <3>3, <3>4, <4>1, StringOfIs
    <3>5. QED BY <3>1, <3>2, <3>4
  <2>2. CASE k \in {"module", "fileId"}
    <3>1. Get(c, k).type = "string" BY <2>2 DEF ValidateBulkWriteConfig, NonEmptyString
    <3>2. QED BY <1>2, <1>3, <1>5, <2>2, <3>1, SimpleTakes
  <2>3. CASE k \in {"findBy", "characterEncoding"}
    <3>1. Get(c, k).type \in {"undefined", "string"}
      BY <2>3 DEF ValidateBulkWriteConfig, OptionalString, NonEmptyString
    <3>2. s.shape[k] \in Schemas /\ s.shape[k].kind = "string" /\ s.shape[k].optional = TRUE
      BY <1>2, <1>3, <1>4, <1>5, <2>3
    <3>3. QED BY <3>1, <3>2, SimpleTakes
  <2>4. CASE k = "ignoreEmpty"
    <3>1. Get(c, k).type \in {"undefined", "boolean"}
      BY <2>4 DEF ValidateBulkWriteConfig, OptionalBoolean
    <3>2. QED BY <1>2, <1>3, <1>4, <1>5, <2>4, <3>1, SimpleTakes
  <2>5. CASE k = "callback"
    <3>1. Get(c, k).type = "undefined" \/ ValidateBulkCallback(Get(c, k))
      BY <2>5 DEF ValidateBulkWriteConfig, Get, Undefined
    <3>2. QED BY <1>2, <1>4, <1>5, <2>5, <3>1, CallbacksAreTaken
  <2>6. CASE k = "fieldMappings"
    <3>1. \/ Get(c, k).type = "undefined"
          \/ /\ Get(c, k).type = "array"
             /\ \A i \in DOMAIN Get(c, k).items : ValidateFieldMapping(Get(c, k).items[i])
      BY <2>6 DEF ValidateBulkWriteConfig, Get, Undefined
    <3>2. BulkWriteFieldMappingType \in Schemas BY <1>2, <1>3, <1>5, <2>6, PartsAreHeld
    <3>3. /\ s.shape[k] \in Schemas /\ s.shape[k].kind = "array" /\ s.shape[k].optional = TRUE
          /\ s.shape[k].item = BulkWriteFieldMappingType
      BY <1>2, <1>3, <1>4, <1>5, <2>6
    <3>4. \A w \in Data : ValidateFieldMapping(w) /\ DefaultIsDeclared(w) => Conforms(s.shape[k].item, w, FALSE)
      BY <3>2, <3>3, MappingsAreTaken
    <3>5. Get(c, k).type # "undefined" => \A i \in DOMAIN Get(c, k).items : DefaultIsDeclared(Get(c, k).items[i])
      BY <1>6, <2>6 DEF DefaultsAreDeclared, Get, Undefined
    <3>6. QED BY <3>1, <3>3, <3>4, <3>5, ArrayTakes
  <2>7. QED BY <1>2, <2>1, <2>2, <2>3, <2>4, <2>5, <2>6
<1>7. ASSUME DefaultsAreDeclared(c) PROVE Conforms(s, Fields(c), FALSE)
  BY <1>1, <1>2, <1>6, <1>7, ConfigTakes
<1>8. ASSUME Conforms(s, Fields(c), FALSE) PROVE DefaultsAreDeclared(c)
  <2> DEFINE mappings == Get(c, "fieldMappings")
  <2>1. SUFFICES ASSUME mappings.type # "undefined", NEW i \in DOMAIN mappings.items
                 PROVE  DefaultIsDeclared(mappings.items[i])
    BY DEF DefaultsAreDeclared, Get, Undefined
  <2>2. mappings.type = "array" /\ ValidateFieldMapping(mappings.items[i])
    BY <2>1 DEF ValidateBulkWriteConfig, Get, Undefined
  <2>3. /\ "fieldMappings" \in DOMAIN s.shape /\ s.shape["fieldMappings"] \in Schemas
        /\ s.shape["fieldMappings"].kind = "array"
        /\ s.shape["fieldMappings"].item = BulkWriteFieldMappingType
    BY <1>2, <1>3, <1>5
  <2>4. mappings \in Data /\ Conforms(s.shape["fieldMappings"], mappings, FALSE)
    BY <1>1, <1>2, <1>8, <2>1, <2>3, ObjectGives
  <2>5. PICK t, v : t = s.shape["fieldMappings"] /\ v = mappings OBVIOUS
  <2>6. ~Excused(t, v) BY <2>2, <2>5 DEF Excused
  <2>7. /\ t \in Schemas /\ t.kind = "array" /\ v \in Data /\ v.type = "array"
        /\ Conforms(t, v, FALSE) /\ i \in DOMAIN v.items
    BY <2>1, <2>2, <2>3, <2>4, <2>5
  <2>8. Conforms(t.item, v.items[i], FALSE) BY <2>6, <2>7, ConformsUnfolds
  <2>9. t.item \in Schemas /\ v.items[i] \in Data BY <2>7, PartsAreHeld
  <2>10. QED BY <2>2, <2>3, <2>5, <2>8, <2>9, MappingsAreTaken
<1>9. DefaultsAreDeclared(c) \in BOOLEAN BY DEF DefaultsAreDeclared
<1>10. QED BY <1>1, <1>7, <1>8, <1>9, ConformsIsBoolean DEF s

\* A query passes on some of the parameters that list() does, and which.
LEMMA SameParameters ==
  ASSUME NEW o
  PROVE  LET listed == ListParams(o)
             queried == QueryParams(o)
         IN  /\ \A p \in DOMAIN queried : p \in DOMAIN listed /\ queried[p] = listed[p]
             /\ queried = listed <=>
                  /\ \A p \in DOMAIN listed \ {"fields"} : ~Falsy(listed[p])
                  /\ Given(o, "sortOrder") => Given(o, "sortBy")
<1> DEFINE listed == {p \in DOMAIN OptionOf : Given(o, OptionOf[p])}
           queried == {p \in DOMAIN OptionOf :
                         /\ IF p = "fields" THEN Given(o, "fields") ELSE Truthy(o, OptionOf[p])
                         /\ p = "sort_order" => Truthy(o, "sortBy")}
           value(p) == o[OptionOf[p]]
           kept == /\ \A p \in listed \ {"fields"} : ~Falsy(value(p))
                   /\ Given(o, "sortOrder") => Given(o, "sortBy")
<1>1. /\ ListParams(o) = [p \in listed |-> value(p)]
      /\ QueryParams(o) = [p \in queried |-> value(p)]
  BY Zenon DEF ListParams, QueryParams, Params
<1>2. /\ DOMAIN OptionOf = {"page", "per_page", "sort_by", "sort_order", "fields"}
      /\ OptionOf["sort_order"] = "sortOrder" /\ OptionOf["sort_by"] = "sortBy"
      /\ OptionOf["fields"] = "fields"
  BY DEF OptionOf
<1>3. \A k : Truthy(o, k) <=> Given(o, k) /\ ~Falsy(o[k]) BY DEF Truthy
<1>4. \A p \in DOMAIN OptionOf :
        /\ p \in listed <=> Given(o, OptionOf[p])
        /\ p \in queried <=>
             /\ IF p = "fields" THEN Given(o, "fields") ELSE Given(o, OptionOf[p]) /\ ~Falsy(value(p))
             /\ p = "sort_order" => Given(o, "sortBy") /\ ~Falsy(value("sort_by"))
  BY <1>2, <1>3
<1>5. queried \subseteq listed BY <1>2, <1>4
<1>6. ASSUME kept PROVE listed \subseteq queried
  <2>1. SUFFICES ASSUME NEW p \in listed PROVE p \in queried OBVIOUS
  <2>2. p \in DOMAIN OptionOf /\ Given(o, OptionOf[p]) BY <2>1
  <2>3. p # "fields" => ~Falsy(value(p)) BY <1>6, <2>1
  <2>4. p = "sort_order" => Given(o, "sortBy") /\ ~Falsy(value("sort_by"))
    <3>1. SUFFICES ASSUME p = "sort_order" PROVE Given(o, "sortBy") /\ ~Falsy(value("sort_by"))
      OBVIOUS
    <3>2. Given(o, "sortBy") BY <1>2, <1>6, <2>2, <3>1
    <3>3. "sort_by" \in listed BY <1>2, <1>4, <3>2
    <3>4. QED BY <1>6, <3>2, <3>3
  <2>5. QED BY <1>2, <1>4, <2>2, <2>3, <2>4
<1>7. ASSUME listed = queried PROVE kept
  <2>1. ASSUME NEW p \in listed \ {"fields"} PROVE ~Falsy(value(p)) BY <1>4, <1>7, <2>1
  <2>2. Given(o, "sortOrder") => Given(o, "sortBy") BY <1>2, <1>4, <1>7
  <2>3. QED BY <2>1, <2>2
<1>8. ListParams(o) = QueryParams(o) <=> listed = queried
  <2>1. DOMAIN ListParams(o) = listed /\ DOMAIN QueryParams(o) = queried BY <1>1
  <2>2. QED BY <1>1, <2>1
<1>9. /\ DOMAIN ListParams(o) = listed /\ DOMAIN QueryParams(o) = queried
      /\ \A p \in listed : ListParams(o)[p] = value(p)
      /\ \A p \in queried : QueryParams(o)[p] = value(p)
  BY <1>1
<1> HIDE DEF listed, queried, value
<1>10. \A p \in DOMAIN QueryParams(o) : p \in DOMAIN ListParams(o) /\ QueryParams(o)[p] = ListParams(o)[p]
  BY <1>5, <1>9
<1>11. kept <=> /\ \A p \in DOMAIN ListParams(o) \ {"fields"} : ~Falsy(ListParams(o)[p])
                /\ Given(o, "sortOrder") => Given(o, "sortBy")
  BY <1>9
<1>12. QueryParams(o) = ListParams(o) <=> kept BY <1>5, <1>6, <1>7, <1>8
<1>13. QED BY <1>10, <1>11, <1>12

\* All of that is so of the inputs there are.
LEMMA ConfigsAndOptions == InputInv => InputsAreTakenAsDeclared
<1> SUFFICES ASSUME InputInv PROVE InputsAreTakenAsDeclared OBVIOUS
<1>1. ASSUME input.about = "config"
      PROVE  LET c == input.is.config
                 Is(type) == Conforms(type, Fields(c), FALSE)
             IN  CASE input.is.kind = "webhook" ->
                        ValidateWebhookConfig(c) =>
                          /\ Is(WebhookConfigSchema)
                          /\ Is(WebhookConfigType) <=> MethodIsDeclared(c)
                   [] input.is.kind = "update" ->
                        ValidateWebhookUpdate(c) =>
                          /\ Is(Partial(WebhookConfigSchema))
                          /\ Is(Partial(WebhookConfigType)) <=> MethodIsDeclared(c)
                   [] input.is.kind = "read" -> ValidateBulkReadConfig(c) => Is(BulkReadJobConfigType)
                   [] input.is.kind = "write" ->
                        ValidateBulkWriteConfig(c) =>
                          (Is(BulkWriteJobConfigType) <=> DefaultsAreDeclared(c))
  <2>1. /\ input.is.kind \in {"webhook", "update", "read", "write"}
        /\ Fields(input.is.config) \in Data
    BY <1>1, InputAssumption DEF InputInv
  <2>2. QED BY <2>1, WebhooksAreTaken, BulkReadsAreTaken, BulkWritesAreTaken
<1>2. QED BY <1>1, SameParameters, Zenon DEF InputsAreTakenAsDeclared

\* Every configuration that the hand-written checks let through has the type that
\* is declared for it exactly if the method and the default values do, at which
\* nothing looks; and a query passes on what list() does exactly if no option is
\* falsy and no order comes without a field.
THEOREM InputsAreUnderstood == AlgorithmsSpec => []InputsAreTakenAsDeclared
BY InputsAreChosen, ConfigsAndOptions, PTL
=============================================================================
