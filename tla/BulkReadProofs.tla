--------------------------- MODULE BulkReadProofs ---------------------------
(* Proofs about BulkRead, for every value of its constants. *)
EXTENDS BulkRead, SequenceTheorems, FiniteSetTheorems, WellFoundedInduction, TLAPS

(***************************************************************************)
(* Streams.                                                                *)
(***************************************************************************)

\* The loop over lines stays in the page, or leaves it and the stream.
LEMMA FlushKeepsStream ==
  ASSUME NoStreamLeaks, pc \in {"reading", "yielded"}, NEW text, Flush(text)
  PROVE  NoStreamLeaks'
<1>1. open' = (open /\ pc' # "failed") BY DEF Flush, StaysOpen
<1>2. pc' \in {"reading", "yielded", "failed"} \/ ~open
  BY DEF Flush, Yields, PageEnds
<1>3. QED BY <1>1, <1>2 DEF NoStreamLeaks

\* However the iteration ends, the stream of its page is destroyed, for pages
\* of any length cut into any chunks.
THEOREM StreamsAreDestroyed == Spec => []NoStreamLeaks
<1>1. Init => NoStreamLeaks BY DEF Init, NoStreamLeaks
<1>2. NoStreamLeaks /\ [Next]_vars => NoStreamLeaks'
  <2> SUFFICES ASSUME NoStreamLeaks, [Next]_vars PROVE NoStreamLeaks'
    OBVIOUS
  <2>1. CASE Start \/ PollAnswered \/ Wake \/ NextStatusAnswered
    <3>1. pc \notin {"reading", "yielded"} /\ UNCHANGED open
      BY <2>1 DEF Start, PollAnswered, Wake, NextStatusAnswered, Fails, page_vars
    <3>2. QED BY <3>1 DEF NoStreamLeaks
  <2>2. CASE Download
    BY <2>2 DEF Download, Fails, page_vars, NoStreamLeaks
  <2>3. CASE ChunkArrives
    <3>1. pc = "reading" /\ \E text : Flush(text) BY <2>3 DEF ChunkArrives
    <3>2. QED BY <3>1, FlushKeepsStream
  <2>4. CASE Continue
    BY <2>4, FlushKeepsStream DEF Continue
  <2>5. CASE StreamEnds \/ StreamBreaks \/ Stop
    BY <2>5 DEF StreamEnds, StreamBreaks, Stop, NoStreamLeaks
  <2>6. CASE JobProceeds \/ UNCHANGED vars
    BY <2>6 DEF JobProceeds, vars, page_vars, NoStreamLeaks
  <2>7. QED BY <2>1, <2>2, <2>3, <2>4, <2>5, <2>6 DEF Next
<1>3. QED BY <1>1, <1>2, PTL DEF Spec

(***************************************************************************)
(* Polling.                                                                *)
(***************************************************************************)

\* The time that passes between polls(n) and the first, at the least.
Slept(n) == (n - 1) * PollInterval

\* Every poll but the first was slept for; a sleep begins before the time is up.
PollInv ==
  /\ elapsed \in Nat /\ polls \in Nat
  /\ pc = "start" => polls = 0
  /\ polls >= 1 => Slept(polls) <= elapsed
  /\ pc = "sleeping" => elapsed <= MaxWait
  /\ polls >= 2 => Slept(polls - 1) <= MaxWait

LEMMA SleptGrows ==
  ASSUME NEW n \in Int
  PROVE  Slept(n + 1) = Slept(n) + PollInterval /\ Slept(n) \in Int
BY BulkAssumption DEF Slept

LEMMA QuotientBounds ==
  ASSUME NEW n \in Nat, n * PollInterval <= MaxWait
  PROVE  n <= MaxWait \div PollInterval
<1> DEFINE q == MaxWait \div PollInterval
<1>1. PollInterval \in Nat /\ PollInterval > 0 /\ MaxWait \in Nat BY BulkAssumption
<1>2. q \in Int /\ MaxWait < (q + 1) * PollInterval BY <1>1
<1> HIDE DEF q
<1>3. SUFFICES ASSUME n >= q + 1 PROVE FALSE BY <1>2 DEF q
<1>4. n * PollInterval >= (q + 1) * PollInterval BY <1>1, <1>2, <1>3
<1>5. QED BY <1>1, <1>2, <1>4

LEMMA PollsHold == Spec => []PollInv
<1>1. Init => PollInv BY DEF Init, PollInv
<1>2. PollInv /\ [Next]_vars => PollInv'
  <2> SUFFICES ASSUME PollInv, [Next]_vars PROVE PollInv'
    OBVIOUS
  <2>0. PollInterval \in Nat /\ MaxWait \in Nat BY BulkAssumption
  <2>1. CASE Start
    <3>1. polls = 0 /\ elapsed' = elapsed /\ pc' \in {"status", "failed"}
          /\ polls' \in {0, 1}
      BY <2>1 DEF Start, Fails, PollInv
    <3>2. Slept(1) = 0 BY <2>0 DEF Slept
    <3>3. QED BY <3>1, <3>2 DEF PollInv
  <2>2. CASE PollAnswered
    <3>1. /\ elapsed' \in Nat /\ elapsed' >= elapsed
          /\ pc' = "sleeping" => elapsed' <= MaxWait
          /\ pc' # "start" /\ polls' = polls
      BY <2>0, <2>2 DEF PollAnswered, TimedOut, Fails, PollInv
    <3>2. polls - 1 \in Int /\ Slept(polls) \in Int BY SleptGrows DEF PollInv
    <3>3. QED BY <3>1, <3>2 DEF PollInv
  <2>3. CASE Wake
    <3>1. /\ elapsed' \in Nat /\ elapsed' >= elapsed + PollInterval
          /\ polls' = polls + 1 /\ pc' = "status" /\ elapsed <= MaxWait
      BY <2>0, <2>3 DEF Wake, PollInv
    <3>2. polls \in Nat /\ elapsed \in Nat BY DEF PollInv
    <3>3. /\ Slept(polls + 1) = Slept(polls) + PollInterval
          /\ Slept(polls) \in Int
          /\ polls + 1 - 1 = polls
      BY <3>2, SleptGrows
    <3>4. CASE polls = 0
      <4>1. Slept(1) = 0 BY <2>0 DEF Slept
      <4>2. QED BY <3>1, <3>2, <3>4, <4>1 DEF PollInv
    <3>5. CASE polls >= 1
      <4>1. Slept(polls) <= elapsed BY <3>5 DEF PollInv
      <4>2. Slept(polls') <= elapsed' BY <2>0, <3>1, <3>2, <3>3, <4>1
      <4>3. Slept(polls' - 1) <= MaxWait BY <2>0, <3>1, <3>2, <3>3, <4>1
      <4>4. QED BY <3>1, <3>2, <4>2, <4>3 DEF PollInv
    <3>6. QED BY <3>2, <3>4, <3>5
  <2>4. CASE Download \/ NextStatusAnswered \/ ChunkArrives \/ StreamEnds
               \/ StreamBreaks \/ Continue \/ Stop
    <3>1. UNCHANGED <<elapsed, polls>> /\ pc' \notin {"start", "sleeping"}
      BY <2>4 DEF Download, NextStatusAnswered, ChunkArrives, StreamEnds, StreamBreaks,
         Continue, Stop, Fails, Flush, FlushLast, Yields, PageEnds
    <3>2. QED BY <3>1 DEF PollInv
  <2>5. CASE JobProceeds \/ UNCHANGED vars
    BY <2>5 DEF JobProceeds, vars, PollInv
  <2>6. QED BY <2>1, <2>2, <2>3, <2>4, <2>5 DEF Next
<1>3. QED BY <1>1, <1>2, PTL DEF Spec

\* The number of polls of a job that never ends is bounded, for all waits and
\* intervals and timers that are late.
THEOREM PollingEnds == Spec => []PollingIsBounded
<1>1. PollInv => PollingIsBounded
  <2> SUFFICES ASSUME PollInv PROVE polls <= MaxWait \div PollInterval + 2
    BY DEF PollingIsBounded
  <2>0. /\ polls \in Nat /\ PollInterval \in Nat \ {0} /\ MaxWait \in Nat
        /\ MaxWait \div PollInterval \in Nat
    BY BulkAssumption DEF PollInv
  <2>1. CASE polls < 2 BY <2>0, <2>1
  <2>2. CASE polls >= 2
    <3>1. Slept(polls - 1) <= MaxWait BY <2>2 DEF PollInv
    <3>2. polls - 2 \in Nat /\ (polls - 2) * PollInterval <= MaxWait
      BY <2>0, <2>2, <3>1 DEF Slept
    <3>3. polls - 2 <= MaxWait \div PollInterval BY <3>2, QuotientBounds
    <3>4. QED BY <2>0, <3>3
  <2>3. QED BY <2>0, <2>1, <2>2
<1>2. QED BY <1>1, PollsHold, PTL

(***************************************************************************)
(* Places in texts.                                                        *)
(***************************************************************************)

LEMMA Least ==
  ASSUME NEW I \in SUBSET Nat, I # {}
  PROVE  Min(I) \in I /\ \A i \in I : Min(I) <= i
<1>1. PICK x \in I : \A y \in I : ~(<<y, x>> \in OpToRel(<, Nat))
  BY WFMin, NatLessThanWellFounded, Zenon
<1>2. \A y \in I : <<y, x>> \in Nat \X Nat /\ (<<y, x>> \in OpToRel(<, Nat) <=> y < x)
  BY DEF OpToRel
<1>3. \A y \in I : ~(y < x) BY <1>1, <1>2, Zenon
<1>4. \A y \in I : x <= y BY <1>3
<1>5. QED BY <1>4 DEF Min

LEMMA Greatest ==
  ASSUME NEW n \in Nat, NEW I \in SUBSET (0 .. n), I # {}
  PROVE  Max(I) \in I /\ \A i \in I : i <= Max(I)
<1> DEFINE J == {j \in Nat : n - j \in I}
<1>1. \A i \in I : n - i \in J
  <2> TAKE i \in I
  <2>1. n - i \in Nat /\ n - (n - i) = i OBVIOUS
  <2>2. QED BY <2>1
<1>2. Min(J) \in J /\ \A j \in J : Min(J) <= j BY <1>1, Least
<1> HIDE DEF J
<1>3. Min(J) \in Nat /\ n - Min(J) \in I BY <1>2 DEF J
<1>4. \A i \in I : i <= n - Min(J) BY <1>1, <1>2, <1>3
<1>5. QED BY <1>3, <1>4 DEF Max

IsText(t) == t \in Seq(Chars)
BlankIn(t, i, j) == \A h \in i .. j : t[h] \in Blank
OneLine(t, i, j) == \A h \in i .. j : t[h] # NL

LEMMA FirstFound ==
  ASSUME NEW t, IsText(t)
  PROVE  \/ First(t) = 0 /\ BlankIn(t, 1, Len(t))
         \/ /\ First(t) \in 1 .. Len(t) /\ t[First(t)] \notin Blank
            /\ BlankIn(t, 1, First(t) - 1)
<1> DEFINE I == {i \in 1 .. Len(t) : t[i] \notin Blank}
<1>1. Len(t) \in Nat BY DEF IsText
<1>2. First(t) = IF I # {} THEN Min(I) ELSE 0 BY DEF First, SelectInSeq
<1>3. CASE I = {} BY <1>2, <1>3 DEF BlankIn
<1>4. CASE I # {}
  <2>1. Min(I) \in I /\ \A i \in I : Min(I) <= i BY <1>1, <1>4, Least
  <2>2. First(t) = Min(I) BY <1>2, <1>4
  <2>3. \A h \in 1 .. Min(I) - 1 : h \in 1 .. Len(t) /\ h \notin I
    <3> HIDE DEF I
    <3>1. Min(I) \in 1 .. Len(t) BY <2>1 DEF I
    <3>2. QED BY <1>1, <2>1, <3>1
  <2>4. QED BY <2>1, <2>2, <2>3 DEF BlankIn
<1>5. QED BY <1>3, <1>4

LEMMA FinalFound ==
  ASSUME NEW t, IsText(t), First(t) # 0
  PROVE  /\ Final(t) \in First(t) .. Len(t) /\ t[Final(t)] \notin Blank
         /\ BlankIn(t, Final(t) + 1, Len(t))
<1> DEFINE I == {i \in 1 .. Len(t) : t[i] \notin Blank}
<1>1. Len(t) \in Nat BY DEF IsText
<1>2. First(t) \in I BY FirstFound
<1>3. Final(t) = Max(I) BY <1>2 DEF Final, SelectLastInSeq
<1>4. Max(I) \in I /\ \A i \in I : i <= Max(I)
  <2>1. I \in SUBSET (0 .. Len(t)) BY <1>1
  <2>2. QED BY <1>1, <1>2, <2>1, Greatest
<1>5. \A h \in Max(I) + 1 .. Len(t) : h \in 1 .. Len(t) /\ h \notin I
  <2> HIDE DEF I
  <2>1. Max(I) \in 1 .. Len(t) BY <1>4 DEF I
  <2>2. QED BY <1>1, <1>4, <2>1
<1>6. First(t) <= Max(I) BY <1>2, <1>4
<1>7. QED BY <1>1, <1>2, <1>3, <1>4, <1>5, <1>6 DEF BlankIn

LEMMA TerminatedFound ==
  ASSUME NEW t, IsText(t)
  PROVE  /\ Terminated(t) \in 0 .. Len(t) /\ OneLine(t, Terminated(t) + 1, Len(t))
         /\ Terminated(t) # 0 => t[Terminated(t)] = NL
<1> DEFINE I == {i \in 1 .. Len(t) : t[i] = NL}
<1>1. Len(t) \in Nat BY DEF IsText
<1>2. Terminated(t) = IF I # {} THEN Max(I) ELSE 0 BY DEF Terminated, SelectLastInSeq
<1>3. CASE I = {} BY <1>1, <1>2, <1>3 DEF OneLine
<1>4. CASE I # {}
  <2>1. Max(I) \in I /\ \A i \in I : i <= Max(I)
    <3>1. I \in SUBSET (0 .. Len(t)) BY <1>1
    <3>2. QED BY <1>1, <1>4, <3>1, Greatest
  <2>2. Terminated(t) = Max(I) BY <1>2, <1>4
  <2>3. \A h \in Max(I) + 1 .. Len(t) : h \in 1 .. Len(t) /\ h \notin I
    <3> HIDE DEF I
    <3>1. Max(I) \in 1 .. Len(t) BY <2>1 DEF I
    <3>2. QED BY <1>1, <2>1, <3>1
  <2>4. QED BY <1>1, <2>1, <2>2, <2>3 DEF OneLine
<1>5. QED BY <1>3, <1>4

LEMMA EndFound ==
  ASSUME NEW t, IsText(t), NEW i \in 1 .. Len(t), t[Len(t)] = NL
  PROVE  /\ EndOfLine(t, i) \in i .. Len(t) /\ t[EndOfLine(t, i)] = NL
         /\ OneLine(t, i, EndOfLine(t, i) - 1)
<1> DEFINE I == {j \in i .. Len(t) : t[j] = NL}
<1>1. Len(t) \in Nat BY DEF IsText
<1>2. Len(t) \in I BY <1>1
<1>3. EndOfLine(t, i) = Min(I) BY <1>2 DEF EndOfLine, SelectInSubSeq
<1>4. Min(I) \in I /\ \A j \in I : Min(I) <= j
  <2>1. I \in SUBSET Nat BY <1>1
  <2>2. QED BY <1>2, <2>1, Least
<1>5. \A h \in i .. Min(I) - 1 : h \in i .. Len(t) /\ h \notin I
  <2> HIDE DEF I
  <2>1. Min(I) \in i .. Len(t) BY <1>4 DEF I
  <2>2. QED BY <1>1, <1>4, <2>1
<1>6. QED BY <1>1, <1>3, <1>4, <1>5 DEF OneLine

(***************************************************************************)
(* Records.  Where a line begins, the first character that is no white     *)
(* space starts the line's record, and no other of the line starts any.    *)
(***************************************************************************)

\* From the k-th character on, a stretch of t that ends with a line, or with
\* the text.
LineEnds(t, m) == m = Len(t) \/ t[m] = NL
LineBegins(t, k) == k = 0 \/ t[k] = NL

LEMMA LineStarts ==
  ASSUME NEW t, IsText(t), NEW k \in 0 .. Len(t), LineBegins(t, k),
         NEW i \in k + 1 .. Len(t), t[i] \notin Blank, BlankIn(t, k + 1, i - 1),
         NEW m \in i .. Len(t), OneLine(t, i, m - 1), LineEnds(t, m)
  PROVE  \A h \in k + 1 .. m : StartsRecord(t, h) <=> h = i
<1>0. Len(t) \in Nat /\ NL \in Blank BY BulkAssumption DEF IsText
<1>1. StartsRecord(t, i)
  <2>1. ASSUME NEW h \in 1 .. i - 1, t[h] \notin Blank PROVE \E n \in h .. i : t[n] = NL
    <3>1. h <= k BY <1>0, <2>1 DEF BlankIn
    <3>2. k \in h .. i /\ t[k] = NL BY <1>0, <3>1 DEF LineBegins
    <3>3. QED BY <3>2
  <2>2. QED BY <2>1 DEF StartsRecord
<1>2. ASSUME NEW h \in k + 1 .. m, StartsRecord(t, h), h # i PROVE FALSE
  <2>1. t[h] \notin Blank BY <1>2 DEF StartsRecord
  <2>2. h > i /\ i \in 1 .. h - 1 BY <1>0, <1>2, <2>1 DEF BlankIn
  <2>3. PICK n \in i .. h : t[n] = NL BY <1>2, <2>2 DEF StartsRecord
  <2>4. n = h BY <1>0, <2>2, <2>3 DEF OneLine
  <2>5. QED BY <1>0, <2>1, <2>3, <2>4
<1>3. QED BY <1>1, <1>2

LEMMA RecordEnds ==
  ASSUME NEW t, IsText(t), NEW i \in 1 .. Len(t),
         NEW m \in i .. Len(t), OneLine(t, i, m - 1), LineEnds(t, m),
         NEW j \in i .. m, t[j] \notin Blank, BlankIn(t, j + 1, m)
  PROVE  RecordAt(t, i) = SubSeq(t, i, j)
<1> DEFINE J == {n \in i .. Len(t) : t[n] \notin Blank /\ \A h \in i .. n : t[h] # NL}
<1>0. Len(t) \in Nat /\ NL \in Blank BY BulkAssumption DEF IsText
<1>1. j \in J
  <2>1. \A h \in i .. j : t[h] # NL BY <1>0 DEF OneLine
  <2>2. QED BY <1>0, <2>1
<1>2. ASSUME NEW n \in J PROVE n <= j
  <2>1. SUFFICES ASSUME n > j PROVE FALSE BY <1>0
  <2>2. n > m BY <1>0, <2>1 DEF BlankIn
  <2>3. t[m] = NL /\ m \in i .. n BY <1>0, <2>2 DEF LineEnds
  <2>4. QED BY <2>3
<1>3. J \in SUBSET (0 .. Len(t)) BY <1>0
<1>4. Max(J) \in J /\ \A n \in J : n <= Max(J) BY <1>0, <1>1, <1>3, Greatest
<1>5. Max(J) = j
  <2>1. Max(J) <= j /\ j <= Max(J) BY <1>1, <1>2, <1>4
  <2>2. Max(J) \in Int /\ j \in Int BY <1>0, <1>3, <1>4
  <2>3. QED BY <2>1, <2>2
<1>6. QED BY <1>5 DEF RecordAt

(***************************************************************************)
(* Counting records.                                                       *)
(***************************************************************************)
StartsOf(p) == {<<p, i>> : i \in {i \in DOMAIN export[p] : StartsRecord(export[p], i)}}

LEMMA StartsAreFinite ==
  ASSUME export \in Seq(Seq(Chars))
  PROVE  IsFiniteSet(Starts)
<1>1. ASSUME NEW p \in DOMAIN export PROVE IsFiniteSet(StartsOf(p))
  <2> DEFINE I == {i \in DOMAIN export[p] : StartsRecord(export[p], i)}
             f == [i \in I |-> <<p, i>>]
  <2>1. I \in SUBSET (1 .. Len(export[p])) /\ Len(export[p]) \in Nat OBVIOUS
  <2>2. IsFiniteSet(I) BY <2>1, FS_Interval, FS_Subset
  <2>3. f \in Surjection(I, StartsOf(p)) BY DEF Surjection, StartsOf
  <2>4. QED BY <2>2, <2>3, FS_Surjection
<1> DEFINE T == {StartsOf(p) : p \in DOMAIN export}
           g == [p \in DOMAIN export |-> StartsOf(p)]
<1>2. DOMAIN export = 1 .. Len(export) /\ Len(export) \in Nat OBVIOUS
<1>3. IsFiniteSet(DOMAIN export) BY <1>2, FS_Interval
<1>4. g \in Surjection(DOMAIN export, T) BY DEF Surjection
<1>5. IsFiniteSet(T) BY <1>3, <1>4, FS_Surjection
<1>6. IsFiniteSet(UNION T) BY <1>1, <1>5, FS_UNION
<1>7. QED BY <1>6 DEF Starts, StartsOf

LEMMA InStarts ==
  ASSUME NEW x
  PROVE  x \in Starts <=> \E p \in DOMAIN export : \E i \in DOMAIN export[p] :
                            x = <<p, i>> /\ StartsRecord(export[p], i)
BY DEF Starts

LEMMA UpToIsFinite ==
  ASSUME export \in Seq(Seq(Chars)), NEW p, NEW i
  PROVE  IsFiniteSet(UpTo(p, i)) /\ Cardinality(UpTo(p, i)) \in Nat
<1>1. UpTo(p, i) \in SUBSET Starts BY DEF UpTo
<1>2. QED BY <1>1, StartsAreFinite, FS_Subset, FS_CardinalityType

\* A stretch of a page in which no record starts.
LEMMA NoneFound ==
  ASSUME export \in Seq(Seq(Chars)), NEW p \in DOMAIN export,
         NEW k \in 0 .. Len(export[p]), NEW m \in k .. Len(export[p]),
         \A h \in k + 1 .. m : ~StartsRecord(export[p], h)
  PROVE  UpTo(p, m) = UpTo(p, k)
<1>1. p \in Nat /\ Len(export[p]) \in Nat OBVIOUS
<1>2. ASSUME NEW x \in Starts, x[1] = p
      PROVE  x[2] <= m <=> x[2] <= k
  <2>1. PICK i \in DOMAIN export[p] : x[2] = i /\ StartsRecord(export[p], i)
    BY <1>2, InStarts
  <2>2. QED BY <1>1, <2>1
<1>3. QED BY <1>2 DEF UpTo

\* One in which one does.
LEMMA OneFound ==
  ASSUME export \in Seq(Seq(Chars)), NEW p \in DOMAIN export,
         NEW k \in 0 .. Len(export[p]), NEW m \in k .. Len(export[p]),
         NEW i \in k + 1 .. m,
         \A h \in k + 1 .. m : StartsRecord(export[p], h) <=> h = i
  PROVE  /\ <<p, i>> \in Starts
         /\ UpTo(p, m) = UpTo(p, i)
         /\ Cardinality(UpTo(p, m)) = Cardinality(UpTo(p, k)) + 1
<1>1. p \in Nat /\ Len(export[p]) \in Nat /\ i \in DOMAIN export[p] OBVIOUS
<1>2. <<p, i>> \in Starts BY <1>1, InStarts
<1>3. ASSUME NEW x \in Starts, x[1] = p
      PROVE  (x[2] <= m <=> x[2] <= k \/ x = <<p, i>>) /\ (x[2] <= m <=> x[2] <= i)
  <2>1. PICK h \in DOMAIN export[p] : x = <<p, h>> /\ StartsRecord(export[p], h)
    BY <1>3, InStarts
  <2>2. h \in Nat /\ x[2] = h BY <1>1, <2>1
  <2>3. h <= m /\ h > k => h = i BY <1>1, <2>1, <2>2
  <2>4. QED BY <1>1, <2>1, <2>2, <2>3
<1>4. UpTo(p, m) = UpTo(p, i) BY <1>3 DEF UpTo
<1>5. UpTo(p, m) = UpTo(p, k) \cup {<<p, i>>}
  <2>1. ASSUME NEW x \in Starts
        PROVE  x \in UpTo(p, m) <=> x \in UpTo(p, k) \/ x = <<p, i>>
    BY <1>1, <1>3 DEF UpTo
  <2>2. UpTo(p, m) \subseteq Starts /\ UpTo(p, k) \subseteq Starts BY DEF UpTo
  <2>3. QED BY <1>2, <2>1, <2>2
<1>6. <<p, i>> \notin UpTo(p, k) BY <1>1 DEF UpTo
<1>7. QED BY <1>2, <1>4, <1>5, <1>6, UpToIsFinite, FS_AddElement

LEMMA PageOver ==
  ASSUME export \in Seq(Seq(Chars)), NEW p \in DOMAIN export
  PROVE  UpTo(p + 1, 0) = UpTo(p, Len(export[p]))
<1>1. ASSUME NEW x \in Starts
      PROVE  x[1] < p + 1 \/ (x[1] = p + 1 /\ x[2] <= 0)
               <=> x[1] < p \/ (x[1] = p /\ x[2] <= Len(export[p]))
  <2>1. PICK q \in DOMAIN export : \E h \in DOMAIN export[q] : x = <<q, h>>
    BY InStarts
  <2>2. PICK h \in DOMAIN export[q] : x = <<q, h>> BY <2>1
  <2>3. q \in Nat /\ p \in Nat /\ h \in 1 .. Len(export[q]) /\ Len(export[q]) \in Nat
    BY <2>2
  <2>4. QED BY <2>2, <2>3
<1>2. QED BY <1>1 DEF UpTo

LEMMA FirstAndLast ==
  ASSUME export \in Seq(Seq(Chars))
  PROVE  UpTo(1, 0) = {} /\ UpTo(Len(export) + 1, 0) = Starts
<1>1. ASSUME NEW x \in Starts
      PROVE  /\ ~(x[1] < 1 \/ (x[1] = 1 /\ x[2] <= 0))
             /\ x[1] < Len(export) + 1
  <2>1. PICK q \in DOMAIN export : \E h \in DOMAIN export[q] : x = <<q, h>>
    BY InStarts
  <2>2. PICK h \in DOMAIN export[q] : x = <<q, h>> BY <2>1
  <2>3. q \in 1 .. Len(export) /\ h \in 1 .. Len(export[q]) /\ Len(export[q]) \in Nat
        /\ Len(export) \in Nat
    BY <2>2
  <2>4. QED BY <2>2, <2>3
<1>2. QED BY <1>1 DEF UpTo

(***************************************************************************)
(* The loop over lines.                                                    *)
(***************************************************************************)

LEMMA Stretch ==
  ASSUME NEW t, IsText(t), NEW k \in 0 .. Len(t), NEW m \in k .. Len(t)
  PROVE  /\ IsText(SubSeq(t, k + 1, m)) /\ Len(SubSeq(t, k + 1, m)) = m - k
         /\ \A n \in 1 .. m - k : SubSeq(t, k + 1, m)[n] = t[k + n]
<1>1. t \in Seq(Chars) /\ Len(t) \in Nat BY DEF IsText
<1>2. k + 1 \in 1 .. Len(t) + 1 /\ m \in Nat /\ m - (k + 1) + 1 = m - k BY <1>1
<1>3. CASE k = m
  <2>1. SubSeq(t, k + 1, m) = <<>> BY <1>1, <1>2, <1>3, SubSeqEmpty
  <2>2. QED BY <1>2, <1>3, <2>1 DEF IsText
<1>4. CASE k < m
  <2>1. \A n \in k + 1 .. m : t[n] \in Chars BY <1>1, <1>2
  <2>2. /\ SubSeq(t, k + 1, m) \in Seq(Chars)
        /\ Len(SubSeq(t, k + 1, m)) = m - (k + 1) + 1
        /\ \A n \in 1 .. m - (k + 1) + 1 : SubSeq(t, k + 1, m)[n] = t[k + 1 + n - 1]
    BY <1>1, <1>2, <1>4, <2>1, SubSeqProperties
  <2>3. \A n \in 1 .. m - k : k + 1 + n - 1 = k + n BY <1>2
  <2>4. QED BY <1>2, <2>2, <2>3 DEF IsText
<1>5. QED BY <1>2, <1>3, <1>4

LEMMA StretchOfStretch ==
  ASSUME NEW t, IsText(t), NEW k \in 0 .. Len(t), NEW m \in k .. Len(t),
         NEW a \in 0 .. m - k, NEW b \in a .. m - k
  PROVE  SubSeq(SubSeq(t, k + 1, m), a + 1, b) = SubSeq(t, k + a + 1, k + b)
<1>1. t \in Seq(Chars) /\ Len(t) \in Nat BY DEF IsText
<1>2. k \in Int /\ m \in Int /\ a \in Int /\ b \in Int /\ a <= b BY <1>1
<1>3. CASE a = b
  <2>1. b < a + 1 /\ k + b < k + a + 1 BY <1>2, <1>3
  <2>2. SubSeq(SubSeq(t, k + 1, m), a + 1, b) = <<>> BY <1>2, <2>1, SubSeqEmpty
  <2>3. SubSeq(t, k + a + 1, k + b) = <<>> BY <1>2, <2>1, SubSeqEmpty
  <2>4. QED BY <2>2, <2>3
<1>4. CASE a < b
  <2>1. /\ k + 1 \in 1 .. Len(t) /\ m \in 1 .. Len(t)
        /\ a + 1 \in 1 .. m - (k + 1) + 1 /\ b \in 1 .. m - (k + 1) + 1
        /\ (k + 1) + (a + 1) - 1 = k + a + 1 /\ (k + 1) + b - 1 = k + b
    BY <1>1, <1>2, <1>4
  <2>2. SubSeq(SubSeq(t, k + 1, m), a + 1, b)
          = SubSeq(t, (k + 1) + (a + 1) - 1, (k + 1) + b - 1)
    BY <1>1, <2>1, SubSeqOfSubSeq
  <2>3. QED BY <2>1, <2>2
<1>5. QED BY <1>2, <1>3, <1>4

\* What trim() leaves of a line, or of the end of one.
LEMMA TrimmedIsRecord ==
  ASSUME NEW t, IsText(t), NEW k \in 0 .. Len(t), NEW m \in k .. Len(t),
         First(SubSeq(t, k + 1, m)) # 0,
         OneLine(t, k + First(SubSeq(t, k + 1, m)), m - 1), LineEnds(t, m)
  PROVE  /\ Trimmed(SubSeq(t, k + 1, m)) = RecordAt(t, k + First(SubSeq(t, k + 1, m)))
         /\ IsText(Trimmed(SubSeq(t, k + 1, m))) /\ Trimmed(SubSeq(t, k + 1, m)) # <<>>
<1> DEFINE s == SubSeq(t, k + 1, m)
           i == First(s)
           j == Final(s)
<1>1. Len(t) \in Nat /\ t \in Seq(Chars) BY DEF IsText
<1>2. IsText(s) /\ Len(s) = m - k /\ \A n \in 1 .. m - k : s[n] = t[k + n] BY Stretch
<1> HIDE DEF s
<1>3. i \in 1 .. m - k /\ j \in i .. m - k /\ s[j] \notin Blank /\ BlankIn(s, j + 1, m - k)
  BY <1>2, FirstFound, FinalFound DEF s
<1>4. /\ k + i \in 1 .. Len(t) /\ m \in k + i .. Len(t) /\ k + j \in k + i .. m
      /\ t[k + j] \notin Blank
  BY <1>1, <1>2, <1>3
<1>5. BlankIn(t, k + j + 1, m)
  <2> SUFFICES ASSUME NEW h \in k + j + 1 .. m PROVE t[h] \in Blank
    BY DEF BlankIn
  <2>1. h - k \in j + 1 .. m - k /\ h - k \in 1 .. m - k /\ k + (h - k) = h BY <1>3
  <2>2. QED BY <1>2, <1>3, <2>1 DEF BlankIn
<1>6. RecordAt(t, k + i) = SubSeq(t, k + i, k + j) BY <1>4, <1>5, RecordEnds DEF s
<1>7. SubSeq(s, i, j) = SubSeq(t, k + i, k + j)
  <2>1. /\ i - 1 \in 0 .. m - k /\ j \in i - 1 .. m - k
        /\ (i - 1) + 1 = i /\ k + (i - 1) + 1 = k + i
    BY <1>1, <1>3
  <2>2. SubSeq(s, (i - 1) + 1, j) = SubSeq(t, k + (i - 1) + 1, k + j)
    <3>1. \A a \in 0 .. m - k : \A b \in a .. m - k :
            SubSeq(s, a + 1, b) = SubSeq(t, k + a + 1, k + b)
      BY StretchOfStretch DEF s
    <3> HIDE DEF i, j
    <3>2. QED BY <2>1, <3>1
  <2>3. QED BY <2>1, <2>2
<1>8. IsText(SubSeq(s, i, j)) /\ Len(SubSeq(s, i, j)) > 0
  <2>1. /\ i - 1 \in 0 .. Len(s) /\ j \in i - 1 .. Len(s)
        /\ (i - 1) + 1 = i /\ j - (i - 1) > 0
    BY <1>1, <1>2, <1>3
  <2>2. IsText(SubSeq(s, (i - 1) + 1, j)) /\ Len(SubSeq(s, (i - 1) + 1, j)) = j - (i - 1)
    <3> HIDE DEF i, j
    <3>1. QED BY <1>2, <2>1, Stretch
  <2>3. QED BY <2>1, <2>2
<1>9. Trimmed(s) = SubSeq(s, i, j) BY <1>3 DEF Trimmed
<1>10. SubSeq(s, i, j) # <<>>
  <2> DEFINE r == SubSeq(s, i, j)
  <2>1. Len(r) > 0 BY <1>8
  <2> HIDE DEF r
  <2>2. r # <<>> BY <2>1
  <2>3. QED BY <2>2 DEF r
<1>11. Trimmed(s) = RecordAt(t, k + i) /\ IsText(Trimmed(s)) /\ Trimmed(s) # <<>>
  <2> HIDE DEF i, j
  <2>1. QED BY <1>6, <1>7, <1>8, <1>9, <1>10
<1>12. QED BY <1>11 DEF s

LEMMA SameStarts ==
  ASSUME UNCHANGED export
  PROVE  Starts' = Starts /\ \A p, i : UpTo(p, i)' = UpTo(p, i)
<1>1. Starts' = Starts BY DEF Starts
<1>2. QED BY <1>1 DEF UpTo

\* One more record for the consumer.
LEMMA OneMore ==
  ASSUME YieldsAreExported, UNCHANGED export, yielded \in Seq(Seq(Chars)),
         NEW p, NEW i, <<p, i>> \in Starts, RecordAt(export[p], i) \in Seq(Chars),
         Cardinality(UpTo(p, i)) = Len(yielded) + 1,
         yielded' = Append(yielded, RecordAt(export[p], i))
  PROVE  /\ YieldsAreExported' /\ yielded' \in Seq(Seq(Chars))
         /\ Len(yielded') = Len(yielded) + 1
<1>1. /\ yielded' \in Seq(Seq(Chars)) /\ Len(yielded') = Len(yielded) + 1
      /\ yielded'[Len(yielded) + 1] = RecordAt(export[p], i)
      /\ \A n \in 1 .. Len(yielded) : yielded'[n] = yielded[n]
      /\ Len(yielded) \in Nat
  BY AppendProperties
<1>2. ASSUME NEW n \in DOMAIN yielded'
      PROVE  \E x \in Starts : /\ Cardinality(UpTo(x[1], x[2])) = n
                               /\ yielded'[n] = RecordAt(export[x[1]], x[2])
  <2>1. CASE n = Len(yielded) + 1
    BY <1>1, <2>1
  <2>2. CASE n # Len(yielded) + 1
    <3>1. n \in DOMAIN yielded /\ n \in 1 .. Len(yielded) BY <1>1, <2>2
    <3>2. QED BY <1>1, <3>1 DEF YieldsAreExported
  <2>3. QED BY <2>1, <2>2
<1>3. YieldsAreExported' BY <1>2, SameStarts DEF YieldsAreExported
<1>4. QED BY <1>1, <1>3

LEMMA FirstOfRecord ==
  ASSUME NEW t, IsText(t), NEW i \in 1 .. Len(t), t[i] \notin Blank, NEW m \in i .. Len(t)
  PROVE  First(SubSeq(t, i, m)) = 1
<1>1. Len(t) \in Nat BY DEF IsText
<1>2. i - 1 \in 0 .. Len(t) /\ m \in i - 1 .. Len(t) /\ (i - 1) + 1 = i /\ 1 \in 1 .. m - (i - 1)
  BY <1>1
<1>3. /\ IsText(SubSeq(t, i, m)) /\ Len(SubSeq(t, i, m)) = m - (i - 1)
      /\ SubSeq(t, i, m)[1] = t[i]
  <2>1. /\ IsText(SubSeq(t, (i - 1) + 1, m)) /\ Len(SubSeq(t, (i - 1) + 1, m)) = m - (i - 1)
        /\ \A n \in 1 .. m - (i - 1) : SubSeq(t, (i - 1) + 1, m)[n] = t[(i - 1) + n]
    BY <1>2, Stretch
  <2>2. QED BY <1>2, <2>1
<1>4. /\ \/ First(SubSeq(t, i, m)) = 0 /\ BlankIn(SubSeq(t, i, m), 1, m - (i - 1))
         \/ /\ First(SubSeq(t, i, m)) \in 1 .. m - (i - 1)
            /\ BlankIn(SubSeq(t, i, m), 1, First(SubSeq(t, i, m)) - 1)
  BY <1>3, FirstFound
<1>5. QED BY <1>1, <1>2, <1>3, <1>4 DEF BlankIn

\* A loop over the lines from the k-th to the m-th character of the page goes
\* through white space, or comes to the next record and through its line.
LEMMA FlushGoesOn ==
  ASSUME export \in Seq(Seq(Chars)), page \in DOMAIN export, UNCHANGED <<export, page>>,
         yielded \in Seq(Seq(Chars)), YieldsAreExported,
         NEW k \in 0 .. Len(Text), NEW m \in k .. Len(Text),
         LineBegins(Text, k), LineBegins(Text, m),
         Len(yielded) = Cardinality(UpTo(page, k)), Flush(SubSeq(Text, k + 1, m))
  PROVE  /\ yielded' \in Seq(Seq(Chars)) /\ YieldsAreExported' /\ lines' \in Seq(Chars)
         /\ \/ pc' = "failed"
            \/ /\ pc' = "yielded"
               /\ \E n \in k .. m : /\ LineBegins(Text, n) /\ lines' = SubSeq(Text, n + 1, m)
                                    /\ Len(yielded') = Cardinality(UpTo(page, n))
            \/ /\ IF open THEN pc' = "reading" ELSE PageEnds
               /\ lines' = <<>> /\ UNCHANGED yielded
               /\ UpTo(page, m) = UpTo(page, k)
<1> DEFINE t == Text
           s == SubSeq(t, k + 1, m)
           a == First(s)
           b == EndOfLine(s, a)
<1>0. IsText(t) /\ Len(t) \in Nat /\ NL \in Blank BY BulkAssumption DEF IsText, Text
<1>1. IsText(s) /\ Len(s) = m - k /\ \A n \in 1 .. m - k : s[n] = t[k + n]
  BY <1>0, Stretch
<1>2. CASE a = 0
  <2>1. \A h \in k + 1 .. m : ~StartsRecord(t, h)
    <3> SUFFICES ASSUME NEW h \in k + 1 .. m PROVE t[h] \in Blank
      BY DEF StartsRecord
    <3>1. h - k \in 1 .. m - k /\ k + (h - k) = h BY <1>0
    <3>2. BlankIn(s, 1, Len(s))
      <4> HIDE DEF s
      <4>1. BlankIn(s, 1, Len(s)) \/ a \in 1 .. Len(s) BY <1>1, FirstFound
      <4>2. 0 \notin 1 .. Len(s) OBVIOUS
      <4>3. QED BY <1>2, <4>1, <4>2
    <3>3. s[h - k] \in Blank BY <1>1, <3>1, <3>2 DEF BlankIn
    <3>4. QED BY <1>1, <3>1, <3>3
  <2>2. UpTo(page, m) = UpTo(page, k) BY <2>1, NoneFound DEF Text
  <2>3. lines' = <<>> /\ UNCHANGED yielded /\ IF open THEN pc' = "reading" ELSE PageEnds
    BY <1>2 DEF Flush, PageEnds
  <2>4. YieldsAreExported' /\ lines' \in Seq(Chars)
    BY <2>3, SameStarts DEF YieldsAreExported
  <2>5. QED BY <2>2, <2>3, <2>4
<1>3. CASE a # 0
  <2> HIDE DEF s
  <2>1. a \in 1 .. m - k /\ s[a] \notin Blank /\ BlankIn(s, 1, a - 1)
    BY <1>1, <1>3, FirstFound
  <2>2. m - k \in 1 .. m - k /\ s[m - k] = NL
    <3>1. m # 0 /\ t[m] = NL /\ k + (m - k) = m BY <1>0, <2>1 DEF LineBegins
    <3>2. m - k \in 1 .. m - k BY <1>0, <2>1
    <3>3. QED BY <1>1, <3>1, <3>2
  <2>3. b \in a .. m - k /\ s[b] = NL /\ OneLine(s, a, b - 1)
    BY <1>1, <2>1, <2>2, EndFound
  <2> DEFINE i == k + a
             n == k + b
  <2> HIDE DEF a, b
  <2>4. /\ i \in k + 1 .. Len(t) /\ i \in 1 .. Len(t) /\ n \in i .. Len(t) /\ n \in k .. m
        /\ t[i] \notin Blank /\ t[n] = NL
    BY <1>0, <1>1, <2>1, <2>3
  <2>5. BlankIn(t, k + 1, i - 1)
    <3> SUFFICES ASSUME NEW h \in k + 1 .. i - 1 PROVE t[h] \in Blank
      BY DEF BlankIn
    <3>1. h - k \in 1 .. a - 1 /\ h - k \in 1 .. m - k /\ k + (h - k) = h BY <1>0, <2>1
    <3>2. QED BY <1>1, <2>1, <3>1 DEF BlankIn
  <2>6. OneLine(t, i, n - 1)
    <3> SUFFICES ASSUME NEW h \in i .. n - 1 PROVE t[h] # NL
      BY DEF OneLine
    <3>1. h - k \in a .. b - 1 /\ h - k \in 1 .. m - k /\ k + (h - k) = h
      BY <1>0, <2>1, <2>3
    <3>2. QED BY <1>1, <2>3, <3>1 DEF OneLine
  <2>7. LineEnds(t, n) /\ LineBegins(t, n) BY <2>4 DEF LineEnds, LineBegins
  <2>8. \A h \in k + 1 .. n : StartsRecord(t, h) <=> h = i
    <3> HIDE DEF i, n, t
    <3>1. QED BY <1>0, <2>4, <2>5, <2>6, <2>7, LineStarts DEF t
  <2>9. /\ <<page, i>> \in Starts
        /\ Cardinality(UpTo(page, i)) = Len(yielded) + 1
        /\ Cardinality(UpTo(page, n)) = Len(yielded) + 1
    <3>1. i \in k + 1 .. n /\ n \in k .. Len(t) BY <1>0, <2>4
    <3> HIDE DEF i, n
    <3>2. QED BY <2>8, <3>1, OneFound DEF Text
  <2>10. Trimmed(SubSeq(s, a, b)) = RecordAt(t, i) /\ RecordAt(t, i) \in Seq(Chars)
    <3>1. SubSeq(s, a, b) = SubSeq(t, i, n)
      <4>1. \A u \in 0 .. m - k : \A v \in u .. m - k :
              SubSeq(s, u + 1, v) = SubSeq(t, k + u + 1, k + v)
        BY <1>0, StretchOfStretch DEF s
      <4>2. /\ a - 1 \in 0 .. m - k /\ b \in a - 1 .. m - k
            /\ (a - 1) + 1 = a /\ k + (a - 1) + 1 = k + a
        BY <1>0, <2>1, <2>3
      <4>3. SubSeq(s, (a - 1) + 1, b) = SubSeq(t, k + (a - 1) + 1, k + b) BY <4>1, <4>2
      <4>4. QED BY <4>2, <4>3
    <3> HIDE DEF i, n, t
    <3>2. i - 1 \in 0 .. Len(t) /\ n \in i - 1 .. Len(t) /\ (i - 1) + 1 = i BY <1>0, <2>4
    <3>3. First(SubSeq(t, (i - 1) + 1, n)) = 1 BY <1>0, <2>4, <3>2, FirstOfRecord
    <3>4. OneLine(t, (i - 1) + First(SubSeq(t, (i - 1) + 1, n)), n - 1)
      BY <2>6, <3>2, <3>3
    <3>5. /\ Trimmed(SubSeq(t, (i - 1) + 1, n))
               = RecordAt(t, (i - 1) + First(SubSeq(t, (i - 1) + 1, n)))
          /\ IsText(Trimmed(SubSeq(t, (i - 1) + 1, n)))
      <4>1. First(SubSeq(t, (i - 1) + 1, n)) # 0 BY <3>3
      <4>2. QED BY <1>0, <2>7, <3>2, <3>4, <4>1, TrimmedIsRecord
    <3>6. QED BY <3>1, <3>2, <3>3, <3>5 DEF IsText
  <2>11. lines' = SubSeq(t, n + 1, m)
    <3>1. \A u \in 0 .. m - k : \A v \in u .. m - k :
            SubSeq(s, u + 1, v) = SubSeq(t, k + u + 1, k + v)
      BY <1>0, StretchOfStretch DEF s
    <3>2. b \in 0 .. m - k /\ m - k \in b .. m - k /\ k + (m - k) = m BY <1>0, <2>1, <2>3
    <3>3. SubSeq(s, b + 1, m - k) = SubSeq(t, k + b + 1, k + (m - k)) BY <3>1, <3>2
    <3>4. lines' = SubSeq(s, b + 1, Len(s)) BY <1>3 DEF Flush, s, a, b
    <3>5. QED BY <1>1, <3>2, <3>3, <3>4
  <2>11a. lines' \in Seq(Chars)
    <3>1. n \in 0 .. Len(t) /\ m \in n .. Len(t) BY <1>0, <2>4
    <3> HIDE DEF n, t
    <3>2. QED BY <1>0, <2>11, <3>1, Stretch DEF IsText
  <2>12. Yields(RecordAt(t, i))
    <3>1. Yields(Trimmed(SubSeq(s, a, b))) BY <1>3 DEF Flush, s, a, b
    <3>2. QED BY <2>10, <3>1
  <2>13. CASE IsJson(RecordAt(t, i))
    <3>1. pc' = "yielded" /\ yielded' = Append(yielded, RecordAt(t, i))
      BY <2>12, <2>13 DEF Yields
    <3>2. /\ YieldsAreExported' /\ yielded' \in Seq(Seq(Chars))
          /\ Len(yielded') = Len(yielded) + 1
      <4> HIDE DEF i
      <4>1. QED BY <2>9, <2>10, <3>1, OneMore DEF Text
    <3>3. QED BY <2>4, <2>7, <2>9, <2>11, <2>11a, <3>1, <3>2
  <2>14. CASE ~IsJson(RecordAt(t, i))
    <3>1. pc' = "failed" /\ UNCHANGED yielded BY <2>12, <2>14 DEF Yields
    <3>2. YieldsAreExported' BY <3>1, SameStarts DEF YieldsAreExported
    <3>3. QED BY <2>11a, <3>1, <3>2
  <2>15. QED BY <2>13, <2>14
<1>4. QED BY <1>2, <1>3

(***************************************************************************)
(* The inductive invariant.  Within a page there are the lines still to be *)
(* gone through, from the k-th character to the m-th, and from there to    *)
(* the last that has come the buffer; the records that start before are    *)
(* those that were yielded.                                                *)
(***************************************************************************)
PageType ==
  /\ received \in Nat /\ halfway \in BOOLEAN /\ decoder \in BOOLEAN
  /\ buffer \in Seq(Chars) /\ lines \in Seq(Chars)

TextType ==
  /\ export \in Seq(Seq(Chars)) /\ page \in 0 .. Len(export)
  /\ pc \in Points /\ more \in BOOLEAN /\ open \in BOOLEAN
  /\ PageType
  /\ yielded \in Seq(Seq(Chars))

PagesInv ==
  /\ pc \in {"start", "status", "sleeping"} => page = 0
  /\ pc = "download" => more = (page + 1 < Len(export))
  /\ pc \in {"reading", "yielded", "statusOfNext"} => page >= 1 /\ more = (page < Len(export))
  /\ pc = "done" => page = Len(export)

Stands(k, m) ==
  /\ LineBegins(Text, k) /\ LineBegins(Text, m)
  /\ lines = SubSeq(Text, k + 1, m)
  /\ buffer = SubSeq(Text, m + 1, received) /\ OneLine(Text, m + 1, received)
  /\ Len(yielded) = Cardinality(UpTo(page, k))

InPage ==
  /\ received \in 0 .. Len(Text) /\ decoder = halfway
  /\ \E m \in 0 .. received : \E k \in 0 .. m : Stands(k, m) /\ (pc = "reading" => k = m)

BehindPage == Len(yielded) = Cardinality(UpTo(page + 1, 0))

TextInv ==
  /\ pc = "reading" => open /\ InPage
  /\ pc = "yielded" => IF open THEN InPage ELSE lines = <<>> /\ BehindPage
  /\ pc \in {"start", "status", "sleeping", "download", "statusOfNext", "done"} => BehindPage

RecordsInv == TextType /\ PagesInv /\ TextInv /\ YieldsAreExported

LEMMA InitRecords == Init => RecordsInv
<1> SUFFICES ASSUME Init PROVE RecordsInv
  OBVIOUS
<1>1. /\ export \in Seq(Seq(Chars)) /\ pc = "start" /\ page = 0 /\ yielded = <<>>
      /\ more = FALSE /\ open = FALSE
  BY BulkAssumption DEF Init
<1>2. Cardinality(UpTo(page + 1, 0)) = 0
  <2>1. UpTo(1, 0) = {} BY <1>1, FirstAndLast
  <2>2. page + 1 = 1 BY <1>1
  <2>3. UpTo(page + 1, 0) = {} BY <2>1, <2>2
  <2>4. QED BY <2>3, FS_EmptySet
<1>3. Len(yielded) = 0 /\ DOMAIN yielded = {} /\ yielded \in Seq(Seq(Chars))
  BY <1>1, EmptySeq
<1>4. TextType
  <2>1. Len(export) \in Nat BY <1>1
  <2>2. page \in 0 .. Len(export) BY <1>1, <2>1
  <2>3. pc \in Points BY <1>1 DEF Points
  <2>4. more \in BOOLEAN /\ open \in BOOLEAN BY <1>1
  <2>5. PageType
    <3>1. received = 0 /\ halfway = FALSE /\ decoder = FALSE /\ buffer = <<>> /\ lines = <<>>
      BY DEF Init
    <3>2. QED BY <3>1, EmptySeq DEF PageType
  <2>6. QED BY <1>1, <1>3, <2>2, <2>3, <2>4, <2>5 DEF TextType
<1>5. PagesInv BY <1>1 DEF PagesInv
<1>6. TextInv BY <1>1, <1>2, <1>3 DEF TextInv, BehindPage
<1>7. YieldsAreExported BY <1>3 DEF YieldsAreExported
<1>8. QED BY <1>4, <1>5, <1>6, <1>7 DEF RecordsInv

\* Steps that neither read nor yield.
LEMMA BehindStays ==
  ASSUME BehindPage, UNCHANGED <<export, page, yielded>>
  PROVE  BehindPage'
BY SameStarts DEF BehindPage

LEMMA YieldsStay ==
  ASSUME YieldsAreExported, UNCHANGED <<export, yielded>>
  PROVE  YieldsAreExported'
BY SameStarts DEF YieldsAreExported

\* The iteration fails or is left.
LEMMA EndsRecords ==
  ASSUME RecordsInv, pc' \in {"failed", "stopped"}, UNCHANGED <<export, page, more>>,
         open' \in BOOLEAN, PageType', YieldsAreExported', yielded' \in Seq(Seq(Chars))
  PROVE  RecordsInv'
<1>1. TextType /\ PagesInv BY DEF RecordsInv
<1>2. TextType' BY <1>1 DEF TextType, Points, Ended
<1>3. PagesInv' /\ TextInv' BY DEF PagesInv, TextInv
<1>4. QED BY <1>2, <1>3 DEF RecordsInv

\* A chunk is decoded into the characters that it brings.
LEMMA ChunkIsDecoded ==
  ASSUME IsText(Text), NEW n \in received .. Len(Text), NEW cut \in BOOLEAN,
         received \in 0 .. Len(Text), decoder = halfway
  PROVE  Decoded(n, cut) = SubSeq(Text, received + 1, n)
<1> DEFINE d == [i \in 1 .. n - received |-> Text[received + i]]
<1>0. Text \in Seq(Chars) /\ Len(Text) \in Nat /\ n - received \in Nat BY DEF IsText
<1>1. /\ IsText(SubSeq(Text, received + 1, n))
      /\ Len(SubSeq(Text, received + 1, n)) = n - received
      /\ \A i \in 1 .. n - received : SubSeq(Text, received + 1, n)[i] = Text[received + i]
  BY <1>0, Stretch
<1>2. d \in Seq(Chars) /\ Len(d) = n - received
  <2>1. \A i \in 1 .. n - received : Text[received + i] \in Chars BY <1>0
  <2>2. QED BY <1>0, <2>1
<1>3. d = SubSeq(Text, received + 1, n)
  <2>1. \A i \in 1 .. Len(d) : d[i] = SubSeq(Text, received + 1, n)[i]
    BY <1>1, <1>2
  <2> HIDE DEF d
  <2>2. QED BY <1>1, <1>2, <2>1, SeqEqual DEF IsText
<1>4. Decoded(n, cut) = d \o <<>> BY DEF Decoded, Kept
<1> HIDE DEF d
<1>5. d \o <<>> = d BY <1>2, ConcatEmptySeq
<1>6. QED BY <1>3, <1>4, <1>5

LEMMA WithinPage ==
  ASSUME RecordsInv, pc \in {"reading", "yielded"}
  PROVE  /\ export \in Seq(Seq(Chars)) /\ page \in DOMAIN export
         /\ IsText(Text) /\ Len(Text) \in Nat
<1>1. /\ export \in Seq(Seq(Chars)) /\ page \in 0 .. Len(export) /\ page >= 1
      /\ Len(export) \in Nat
  BY DEF RecordsInv, TextType, PagesInv
<1>2. page \in DOMAIN export /\ export[page] \in Seq(Chars) BY <1>1
<1>3. QED BY <1>1, <1>2 DEF IsText, Text

\* The page is over when all its records were yielded.
LEMMA PageEndsRecords ==
  ASSUME RecordsInv, pc \in {"reading", "yielded"}, PageEnds, BehindPage,
         UNCHANGED <<export, page, more>>, open' \in BOOLEAN, PageType'
  PROVE  RecordsInv'
<1>1. TextType /\ page >= 1 /\ more = (page < Len(export)) /\ YieldsAreExported
  BY DEF RecordsInv, PagesInv
<1>2. /\ UNCHANGED yielded
      /\ (more /\ pc' = "statusOfNext") \/ (~more /\ pc' = "done")
  BY DEF PageEnds
<1>3. TextType' BY <1>1, <1>2 DEF TextType, Points, Ended
<1>4. PagesInv'
  <2>1. page \in 0 .. Len(export) /\ Len(export) \in Nat BY <1>1 DEF TextType
  <2>2. ASSUME ~more PROVE page = Len(export)
    <3>1. ~(page < Len(export)) BY <1>1, <2>2, Zenon
    <3>2. QED BY <2>1, <3>1
  <2>3. QED BY <1>1, <1>2, <2>2 DEF PagesInv
<1>5. BehindPage' BY <1>2, BehindStays
<1>6. TextInv' BY <1>2, <1>5 DEF TextInv
<1>7. YieldsAreExported' BY <1>1, <1>2, YieldsStay
<1>8. QED BY <1>3, <1>4, <1>6, <1>7 DEF RecordsInv

\* The loop over the lines that are there, in an open page.
LEMMA FlushRecords ==
  ASSUME RecordsInv, pc \in {"reading", "yielded"}, open,
         UNCHANGED <<export, page, more>>,
         received' \in 0 .. Len(Text), halfway' \in BOOLEAN, decoder' = halfway',
         NEW m \in 0 .. received', NEW k \in 0 .. m,
         LineBegins(Text, k), LineBegins(Text, m),
         buffer' = SubSeq(Text, m + 1, received'), OneLine(Text, m + 1, received'),
         Len(yielded) = Cardinality(UpTo(page, k)), Flush(SubSeq(Text, k + 1, m))
  PROVE  RecordsInv'
<1>1. /\ TextType /\ PagesInv /\ YieldsAreExported
      /\ page >= 1 /\ more = (page < Len(export)) /\ yielded \in Seq(Seq(Chars))
  BY DEF RecordsInv, PagesInv, TextType
<1>2. export \in Seq(Seq(Chars)) /\ page \in DOMAIN export /\ Len(Text) \in Nat
  BY WithinPage
<1>3. k \in 0 .. Len(Text) /\ m \in k .. Len(Text) BY <1>2
<1>4. /\ yielded' \in Seq(Seq(Chars)) /\ YieldsAreExported' /\ lines' \in Seq(Chars)
      /\ \/ pc' = "failed"
         \/ /\ pc' = "yielded"
            /\ \E n \in k .. m : /\ LineBegins(Text, n) /\ lines' = SubSeq(Text, n + 1, m)
                                 /\ Len(yielded') = Cardinality(UpTo(page, n))
         \/ /\ pc' = "reading"
            /\ lines' = <<>> /\ UNCHANGED yielded
            /\ UpTo(page, m) = UpTo(page, k)
  BY <1>1, <1>2, <1>3, FlushGoesOn
<1>5. open' = (pc' # "failed") BY DEF Flush, StaysOpen
<1>5a. PageType'
  <2>1. m \in 0 .. Len(Text) /\ received' \in m .. Len(Text) BY <1>2, <1>3
  <2>2. buffer' \in Seq(Chars) BY <2>1, WithinPage, Stretch DEF IsText
  <2>3. QED BY <1>2, <1>4, <2>2 DEF PageType
<1>6. CASE pc' = "failed" BY <1>4, <1>5, <1>5a, <1>6, EndsRecords
<1>7. CASE pc' \in {"reading", "yielded"}
  <2>1. TextType' BY <1>1, <1>4, <1>5, <1>5a, <1>7 DEF TextType, Points
  <2>2. PagesInv' BY <1>1, <1>7 DEF PagesInv
  <2>3. Text' = Text BY DEF Text
  <2>4. PICK n \in k .. m : /\ LineBegins(Text, n) /\ lines' = SubSeq(Text, n + 1, m)
                            /\ Len(yielded') = Cardinality(UpTo(page, n))
                            /\ pc' = "reading" => n = m
    <3>1. CASE pc' = "yielded" BY <1>4, <3>1
    <3>2. CASE pc' = "reading"
      <4>1. SubSeq(Text, m + 1, m) = <<>> BY <1>3, SubSeqEmpty
      <4>2. m \in k .. m BY <1>3
      <4>3. QED BY <1>4, <3>2, <4>1, <4>2
    <3>3. QED BY <1>7, <3>1, <3>2
  <2>5. UpTo(page, n)' = UpTo(page, n) BY SameStarts DEF UpTo
  <2>6. Stands(n, m)' BY <2>3, <2>4, <2>5 DEF Stands, LineBegins, OneLine
  <2>7. n \in 0 .. m BY <1>3, <2>4
  <2>8. InPage' BY <2>3, <2>4, <2>6, <2>7 DEF InPage
  <2>9. TextInv' BY <1>5, <1>7, <2>8 DEF TextInv
  <2>10. QED BY <1>4, <2>1, <2>2, <2>9 DEF RecordsInv
<1>8. QED BY <1>4, <1>6, <1>7

LEMMA ChunkRecords == RecordsInv /\ ChunkArrives => RecordsInv'
<1> SUFFICES ASSUME RecordsInv, ChunkArrives PROVE RecordsInv'
  OBVIOUS
<1>1. /\ pc = "reading" /\ UNCHANGED <<export, page, more>>
      /\ export \in Seq(Seq(Chars)) /\ IsText(Text) /\ Len(Text) \in Nat
      /\ open /\ InPage
  BY WithinPage DEF ChunkArrives, RecordsInv, TextInv
<1>2. PICK n \in received .. Len(Text), cut \in BOOLEAN :
        /\ received' = n /\ halfway' = cut /\ decoder' = Kept(cut)
        /\ buffer' = Remaining(buffer \o Decoded(n, cut))
        /\ Flush(SubSeq(buffer \o Decoded(n, cut), 1, Terminated(buffer \o Decoded(n, cut))))
  BY DEF ChunkArrives
<1>3. PICK k \in 0 .. received : Stands(k, k)
  <2>1. PICK m \in 0 .. received : \E k \in 0 .. m : Stands(k, m) /\ k = m
    BY <1>1 DEF InPage
  <2>2. QED BY <2>1
<1>4. received \in 0 .. Len(Text) /\ decoder = halfway BY <1>1 DEF InPage
<1>5. /\ k \in 0 .. Len(Text) /\ n \in k .. Len(Text) /\ n - k \in 0 .. n - k
      /\ 0 \in 0 .. n - k /\ k + (n - k) = n /\ k + 0 + 1 = k + 1
  BY <1>1, <1>4
<1> DEFINE text == SubSeq(Text, k + 1, n)
           m == k + Terminated(text)
<1>6. buffer \o Decoded(n, cut) = text
  <2>1. buffer = SubSeq(Text, k + 1, received) BY <1>3 DEF Stands
  <2>2. Decoded(n, cut) = SubSeq(Text, received + 1, n) BY <1>1, <1>4, ChunkIsDecoded
  <2>3. /\ Text \in Seq(Chars) /\ k + 1 \in 1 .. Len(Text) + 1
        /\ received \in (k + 1) - 1 .. Len(Text) /\ n \in received .. Len(Text)
    BY <1>1, <1>4 DEF IsText
  <2>4. QED BY <2>1, <2>2, <2>3, ConcatAdjacentSubSeq
<1>7. IsText(text) /\ Len(text) = n - k /\ \A h \in 1 .. n - k : text[h] = Text[k + h]
  BY <1>1, <1>5, Stretch
<1>8. \A u \in 0 .. n - k : \A v \in u .. n - k :
        SubSeq(text, u + 1, v) = SubSeq(Text, k + u + 1, k + v)
  BY <1>1, <1>5, StretchOfStretch
<1> HIDE DEF text
<1>9. /\ Terminated(text) \in 0 .. n - k /\ OneLine(text, Terminated(text) + 1, n - k)
      /\ Terminated(text) # 0 => text[Terminated(text)] = NL
  BY <1>7, TerminatedFound
<1>10. m \in 0 .. n /\ k \in 0 .. m BY <1>5, <1>9
<1>11. LineBegins(Text, m)
  <2>1. CASE Terminated(text) = 0
    <3>1. m = k BY <1>5, <2>1
    <3>2. QED BY <1>3, <3>1 DEF Stands
  <2>2. CASE Terminated(text) # 0
    <3>1. Terminated(text) \in 1 .. n - k BY <1>5, <1>9, <2>2
    <3>2. QED BY <1>7, <1>9, <2>2, <3>1 DEF LineBegins
  <2>3. QED BY <2>1, <2>2
<1>12. buffer' = SubSeq(Text, m + 1, n)
  <2>1. buffer' = SubSeq(text, Terminated(text) + 1, n - k)
    BY <1>2, <1>6, <1>7 DEF Remaining
  <2>2. n - k \in Terminated(text) .. n - k BY <1>5, <1>9
  <2>3. SubSeq(text, Terminated(text) + 1, n - k)
          = SubSeq(Text, k + Terminated(text) + 1, k + (n - k))
    BY <1>8, <1>9, <2>2
  <2>4. QED BY <1>5, <2>1, <2>3
<1>13. OneLine(Text, m + 1, n)
  <2> SUFFICES ASSUME NEW h \in m + 1 .. n PROVE Text[h] # NL
    BY DEF OneLine
  <2>1. /\ h - k \in Terminated(text) + 1 .. n - k /\ h - k \in 1 .. n - k
        /\ k + (h - k) = h
    BY <1>5, <1>9
  <2>2. QED BY <1>7, <1>9, <2>1 DEF OneLine
<1>14. Flush(SubSeq(Text, k + 1, m))
  <2>1. Terminated(text) \in 0 .. n - k BY <1>9
  <2>2. SubSeq(text, 0 + 1, Terminated(text)) = SubSeq(Text, k + 0 + 1, k + Terminated(text))
    BY <1>5, <1>8, <2>1
  <2>3. SubSeq(text, 1, Terminated(text)) = SubSeq(Text, k + 1, m)
    <3>1. 0 + 1 = 1 /\ k + 0 + 1 = k + 1 BY <1>5
    <3>2. QED BY <2>2, <3>1
  <2>4. Flush(SubSeq(text, 1, Terminated(text))) BY <1>2, <1>6
  <2>5. QED BY <2>3, <2>4
<1>15. LineBegins(Text, k) /\ Len(yielded) = Cardinality(UpTo(page, k)) BY <1>3 DEF Stands
<1>16. /\ received' \in 0 .. Len(Text) /\ m \in 0 .. received'
       /\ halfway' \in BOOLEAN /\ decoder' = halfway'
  BY <1>2, <1>4, <1>10 DEF Kept
<1> HIDE DEF m
<1>17. QED
  BY <1>1, <1>2, <1>10, <1>11, <1>12, <1>13, <1>14, <1>15, <1>16, FlushRecords

LEMMA ContinueRecords == RecordsInv /\ Continue => RecordsInv'
<1> SUFFICES ASSUME RecordsInv, Continue PROVE RecordsInv'
  OBVIOUS
<1>1. /\ pc = "yielded" /\ UNCHANGED <<export, page, more, received, halfway, decoder, buffer>>
      /\ Flush(lines) /\ open \in BOOLEAN /\ IF open THEN InPage ELSE lines = <<>> /\ BehindPage
      /\ PageType
  BY DEF Continue, RecordsInv, TextInv, TextType
<1>2. CASE open
  <2>0. PICK m \in 0 .. received : \E k \in 0 .. m : Stands(k, m)
    BY <1>1, <1>2 DEF InPage
  <2>1. PICK k \in 0 .. m : Stands(k, m) BY <2>0
  <2>2. /\ LineBegins(Text, k) /\ LineBegins(Text, m) /\ lines = SubSeq(Text, k + 1, m)
        /\ buffer = SubSeq(Text, m + 1, received) /\ OneLine(Text, m + 1, received)
        /\ Len(yielded) = Cardinality(UpTo(page, k))
    BY <2>1 DEF Stands
  <2>3. received \in 0 .. Len(Text) /\ halfway \in BOOLEAN /\ decoder = halfway
    BY <1>1, <1>2 DEF InPage, PageType
  <2>4. QED BY <1>1, <1>2, <2>2, <2>3, FlushRecords
<1>3. CASE ~open
  <2>1. First(<<>>) = 0
    <3>1. IsText(<<>>) /\ Len(<<>>) = 0 BY EmptySeq DEF IsText
    <3>2. First(<<>>) = 0 \/ First(<<>>) \in 1 .. Len(<<>>) BY <3>1, FirstFound
    <3>3. First(<<>>) = 0 \/ First(<<>>) \in 1 .. 0 BY <3>1, <3>2
    <3>4. QED BY <3>3
  <2>2. PageEnds /\ open' = FALSE /\ lines' = <<>>
    BY <1>1, <1>3, <2>1 DEF Flush, StaysOpen
  <2>3. PageType' BY <1>1, <2>2, EmptySeq DEF PageType
  <2>4. QED BY <1>1, <1>3, <2>2, <2>3, PageEndsRecords
<1>4. QED BY <1>1, <1>2, <1>3

LEMMA StreamEndRecords == RecordsInv /\ StreamEnds => RecordsInv'
<1> SUFFICES ASSUME RecordsInv, StreamEnds PROVE RecordsInv'
  OBVIOUS
<1> DEFINE n == Len(Text)
<1>1. /\ pc = "reading" /\ UNCHANGED <<export, page, more, lines>>
      /\ received = n /\ open' = FALSE /\ FlushLast
      /\ PageType'
  BY DEF StreamEnds, RecordsInv, TextType, PageType
<1>2. /\ export \in Seq(Seq(Chars)) /\ page \in DOMAIN export /\ IsText(Text) /\ n \in Nat
      /\ TextType /\ PagesInv /\ YieldsAreExported /\ yielded \in Seq(Seq(Chars))
      /\ open /\ InPage
  BY <1>1, WithinPage DEF RecordsInv, TextInv, TextType
<1>3. PICK k \in 0 .. n : Stands(k, k)
  <2>1. PICK m \in 0 .. received : \E k \in 0 .. m : Stands(k, m) /\ k = m
    BY <1>1, <1>2 DEF InPage
  <2>2. QED BY <1>1, <2>1
<1>4. /\ LineBegins(Text, k) /\ lines = SubSeq(Text, k + 1, k)
      /\ buffer = SubSeq(Text, k + 1, n) /\ OneLine(Text, k + 1, n)
      /\ Len(yielded) = Cardinality(UpTo(page, k))
  BY <1>1, <1>3 DEF Stands
<1>5. lines' = <<>>
  <2>1. SubSeq(Text, k + 1, k) = <<>> BY <1>2, SubSeqEmpty
  <2>2. QED BY <1>1, <1>4, <2>1
<1>6. UpTo(page + 1, 0) = UpTo(page, n) BY <1>2, PageOver DEF Text
<1>7. /\ IsText(buffer) /\ Len(buffer) = n - k
      /\ \A h \in 1 .. n - k : buffer[h] = Text[k + h]
  <2>1. n \in k .. n BY <1>2
  <2>2. QED BY <1>2, <1>4, <2>1, Stretch
<1>8. CASE First(buffer) = 0
  <2>1. BlankIn(buffer, 1, n - k)
    <3>1. BlankIn(buffer, 1, n - k) \/ First(buffer) \in 1 .. n - k BY <1>7, FirstFound
    <3>2. 0 \notin 1 .. n - k OBVIOUS
    <3>3. QED BY <1>8, <3>1, <3>2
  <2>2. \A h \in k + 1 .. n : ~StartsRecord(Text, h)
    <3> SUFFICES ASSUME NEW h \in k + 1 .. n PROVE Text[h] \in Blank
      BY DEF StartsRecord
    <3>1. h - k \in 1 .. n - k /\ k + (h - k) = h BY <1>2
    <3>2. QED BY <1>7, <2>1, <3>1 DEF BlankIn
  <2>3. UpTo(page, n) = UpTo(page, k)
    <3>1. n \in k .. n BY <1>2
    <3>2. QED BY <1>2, <2>2, <3>1, NoneFound DEF Text
  <2>4. BehindPage BY <1>4, <1>6, <2>3 DEF BehindPage
  <2>5. PageEnds BY <1>1, <1>8 DEF FlushLast, Trimmed
  <2>6. QED BY <1>1, <2>4, <2>5, PageEndsRecords
<1>9. CASE First(buffer) # 0
  <2> DEFINE a == First(buffer)
             i == k + a
  <2>1. a \in 1 .. n - k /\ buffer[a] \notin Blank /\ BlankIn(buffer, 1, a - 1)
    BY <1>7, <1>9, FirstFound
  <2> HIDE DEF a
  <2>2. /\ i \in k + 1 .. n /\ i \in 1 .. n /\ n \in i .. n /\ n \in k .. n
        /\ Text[i] \notin Blank
    BY <1>2, <1>7, <2>1
  <2>3. BlankIn(Text, k + 1, i - 1)
    <3> SUFFICES ASSUME NEW h \in k + 1 .. i - 1 PROVE Text[h] \in Blank
      BY DEF BlankIn
    <3>1. h - k \in 1 .. a - 1 /\ h - k \in 1 .. n - k /\ k + (h - k) = h BY <1>2, <2>1
    <3>2. QED BY <1>7, <2>1, <3>1 DEF BlankIn
  <2>4. OneLine(Text, i, n - 1) /\ LineEnds(Text, n)
    BY <1>2, <1>4, <2>2 DEF OneLine, LineEnds
  <2> HIDE DEF i
  <2>5. \A h \in k + 1 .. n : StartsRecord(Text, h) <=> h = i
    BY <1>2, <1>4, <2>2, <2>3, <2>4, LineStarts
  <2>6. /\ <<page, i>> \in Starts
        /\ Cardinality(UpTo(page, i)) = Len(yielded) + 1
        /\ Cardinality(UpTo(page, n)) = Len(yielded) + 1
    <3>1. k \in 0 .. Len(Text) /\ n \in k .. Len(Text) BY <1>2, <2>2
    <3> HIDE DEF n
    <3>2. QED BY <1>2, <1>4, <2>2, <2>5, <3>1, OneFound DEF Text
  <2>7. /\ Trimmed(buffer) = RecordAt(Text, i)
        /\ IsText(Trimmed(buffer)) /\ Trimmed(buffer) # <<>>
    BY <1>2, <1>4, <1>9, <2>2, <2>4, TrimmedIsRecord DEF i, a
  <2>8. Yields(RecordAt(Text, i)) BY <1>1, <2>7 DEF FlushLast
  <2>9. CASE IsJson(RecordAt(Text, i))
    <3>1. pc' = "yielded" /\ yielded' = Append(yielded, RecordAt(Text, i))
      BY <2>8, <2>9 DEF Yields
    <3>2. /\ YieldsAreExported' /\ yielded' \in Seq(Seq(Chars))
          /\ Len(yielded') = Len(yielded) + 1
      BY <1>1, <1>2, <2>6, <2>7, <3>1, OneMore DEF Text, IsText
    <3>3. UpTo(page + 1, 0)' = UpTo(page + 1, 0) BY <1>1, SameStarts DEF UpTo
    <3>4. BehindPage' BY <1>6, <2>6, <3>2, <3>3 DEF BehindPage
    <3>5. TextType' BY <1>1, <1>2, <3>1, <3>2 DEF TextType, Points
    <3>6. PagesInv' BY <1>1, <1>2, <3>1 DEF PagesInv
    <3>7. TextInv' BY <1>1, <1>5, <3>1, <3>4 DEF TextInv
    <3>8. QED BY <3>2, <3>5, <3>6, <3>7 DEF RecordsInv
  <2>10. CASE ~IsJson(RecordAt(Text, i))
    <3>1. pc' = "failed" /\ UNCHANGED yielded BY <2>8, <2>10 DEF Yields
    <3>2. YieldsAreExported' BY <1>1, <1>2, <3>1, YieldsStay
    <3>3. QED BY <1>1, <1>2, <3>1, <3>2, EndsRecords
  <2>11. QED BY <2>9, <2>10
<1>10. QED BY <1>8, <1>9

\* A step outside of a page, to another.
LEMMA OutsideRecords ==
  ASSUME RecordsInv, BehindPage, UNCHANGED <<export, page, page_vars>>, PagesInv',
         more' \in BOOLEAN, open' \in BOOLEAN,
         pc' \in {"start", "status", "sleeping", "download"}
  PROVE  RecordsInv'
<1>1. TextType /\ YieldsAreExported /\ UNCHANGED yielded BY DEF RecordsInv, page_vars
<1>2. TextType' BY <1>1 DEF TextType, PageType, page_vars, Points
<1>3. BehindPage' /\ YieldsAreExported' BY <1>1, BehindStays, YieldsStay
<1>4. TextInv' BY <1>3 DEF TextInv
<1>5. QED BY <1>2, <1>3, <1>4 DEF RecordsInv

LEMMA DownloadRecords == RecordsInv /\ Download => RecordsInv'
<1> SUFFICES ASSUME RecordsInv, Download PROVE RecordsInv'
  OBVIOUS
<1>1. /\ pc = "download" /\ UNCHANGED <<export, more, yielded>> /\ TextType
      /\ more = (page + 1 < Len(export)) /\ BehindPage /\ YieldsAreExported
  BY DEF Download, Fails, page_vars, RecordsInv, PagesInv, TextInv
<1>2. export \in Seq(Seq(Chars)) /\ Len(export) \in Nat /\ page \in 0 .. Len(export)
  BY <1>1 DEF TextType
<1>3. YieldsAreExported' BY <1>1, YieldsStay
<1>4. CASE Fails /\ UNCHANGED page
  <2>1. pc' = "failed" /\ UNCHANGED open /\ PageType'
    BY <1>1, <1>4 DEF Fails, page_vars, TextType, PageType
  <2>2. QED BY <1>1, <1>3, <1>4, <2>1, EndsRecords DEF TextType
<1>5. CASE /\ page < Len(export) /\ page' = page + 1 /\ pc' = "reading"
           /\ received' = 0 /\ halfway' = FALSE /\ decoder' = FALSE
           /\ buffer' = <<>> /\ lines' = <<>> /\ open' = TRUE
  <2>1. page' \in 1 .. Len(export) BY <1>2, <1>5
  <2>2. TextType' /\ PagesInv'
    <3>1. page' \in 0 .. Len(export) BY <1>2, <2>1
    <3>2. PageType' BY <1>5, EmptySeq DEF PageType
    <3>3. TextType' BY <1>1, <1>5, <3>1, <3>2 DEF TextType, Points
    <3>4. PagesInv' BY <1>1, <1>2, <1>5 DEF PagesInv
    <3>5. QED BY <3>3, <3>4
  <2>3. Text' \in Seq(Chars)
    <3>1. export[page'] \in Seq(Chars) BY <1>2, <2>1
    <3>2. QED BY <1>1, <3>1 DEF Text
  <2>4. Stands(0, 0)'
    <3>1. SubSeq(Text', 0 + 1, 0) = <<>> BY <2>3, SubSeqEmpty
    <3>2. OneLine(Text', 0 + 1, 0) BY DEF OneLine
    <3>3. LineBegins(Text', 0) BY DEF LineBegins
    <3>4. Len(yielded)' = Cardinality(UpTo(page, 0))'
      <4>1. Starts' = Starts BY <1>1, SameStarts
      <4>2. UpTo(page, 0)' = UpTo(page + 1, 0) BY <1>5, <4>1 DEF UpTo
      <4>3. QED BY <1>1, <4>2 DEF BehindPage
    <3>5. QED BY <1>5, <3>1, <3>2, <3>3, <3>4 DEF Stands, LineBegins, OneLine
  <2>5. InPage'
    <3>1. 0 \in 0 .. Len(Text') /\ 0 \in 0 .. 0 BY <2>3
    <3>2. QED BY <1>5, <2>4, <3>1 DEF InPage
  <2>6. TextInv' BY <1>5, <2>5 DEF TextInv
  <2>7. QED BY <1>3, <2>2, <2>6 DEF RecordsInv
<1>6. QED BY <1>4, <1>5 DEF Download

LEMMA RecordsHold == Spec => []RecordsInv
<1>1. RecordsInv /\ [Next]_vars => RecordsInv'
  <2> SUFFICES ASSUME RecordsInv, [Next]_vars PROVE RecordsInv'
    OBVIOUS
  <2>0. TextType /\ PagesInv /\ TextInv /\ YieldsAreExported BY DEF RecordsInv
  <2>1. CASE Start \/ PollAnswered \/ Wake \/ NextStatusAnswered
    <3>1. /\ UNCHANGED <<export, page, yielded, open, page_vars>> /\ BehindPage
          /\ PageType'
          /\ pc' \in {"status", "sleeping", "download", "failed"}
      BY <2>0, <2>1 DEF Start, PollAnswered, Wake, NextStatusAnswered, Fails, page_vars,
         TextInv, TextType, PageType
    <3>2. CASE pc' = "failed"
      <4>1. UNCHANGED more
        BY <2>1, <3>2 DEF Start, PollAnswered, Wake, NextStatusAnswered, Fails
      <4>2. YieldsAreExported' BY <2>0, <3>1, YieldsStay
      <4>3. QED BY <2>0, <3>1, <3>2, <4>1, <4>2, EndsRecords DEF TextType
    <3>3. CASE pc' # "failed"
      <4>1. PagesInv' /\ more' \in BOOLEAN
        <5>1. CASE pc' = "download"
          <6>1. more' = (page + 1 < Len(export))
            BY <2>1, <5>1 DEF Start, PollAnswered, Wake, NextStatusAnswered, Fails,
               HasMoreRecords
          <6>2. QED BY <3>1, <5>1, <6>1 DEF PagesInv
        <5>2. CASE pc' \in {"status", "sleeping"}
          <6>1. UNCHANGED more /\ page = 0
            BY <2>0, <2>1, <5>2 DEF Start, PollAnswered, Wake, NextStatusAnswered, Fails,
               PagesInv
          <6>2. QED BY <2>0, <3>1, <5>2, <6>1 DEF PagesInv, TextType
        <5>3. QED BY <3>1, <3>3, <5>1, <5>2
      <4>2. QED BY <2>0, <3>1, <3>3, <4>1, OutsideRecords DEF TextType
    <3>4. QED BY <3>2, <3>3
  <2>2. CASE Download BY <2>2, DownloadRecords
  <2>3. CASE ChunkArrives BY <2>3, ChunkRecords
  <2>4. CASE Continue BY <2>4, ContinueRecords
  <2>5. CASE StreamEnds BY <2>5, StreamEndRecords
  <2>6. CASE StreamBreaks \/ Stop
    <3>1. /\ pc' \in {"failed", "stopped"} /\ open' = FALSE
          /\ UNCHANGED <<export, page, more, yielded>>
          /\ PageType'
      BY <2>0, <2>6 DEF StreamBreaks, Stop, TextType, PageType
    <3>2. YieldsAreExported' BY <2>0, <3>1, YieldsStay
    <3>3. QED BY <2>0, <3>1, <3>2, EndsRecords DEF TextType
  <2>7. CASE JobProceeds \/ UNCHANGED vars
    <3>1. UNCHANGED <<export, pc, more, page, received, halfway, decoder, buffer, lines,
                      open, yielded>>
      BY <2>7 DEF JobProceeds, vars, page_vars
    <3>2. TextType' /\ PagesInv' BY <2>0, <3>1 DEF TextType, PageType, PagesInv
    <3>3. YieldsAreExported' BY <2>0, <3>1, YieldsStay
    <3>4. BehindPage' = BehindPage BY <3>1, SameStarts DEF BehindPage
    <3>5. InPage' = InPage
      <4>1. Text' = Text BY <3>1 DEF Text
      <4>2. \A k : UpTo(page, k)' = UpTo(page, k) BY <3>1, SameStarts DEF UpTo
      <4>3. \A k, m : Stands(k, m)' = Stands(k, m)
        BY <3>1, <4>1, <4>2 DEF Stands, LineBegins, OneLine
      <4>4. QED BY <3>1, <4>1, <4>3 DEF InPage, Stands
    <3>6. TextInv' BY <2>0, <3>1, <3>4, <3>5 DEF TextInv
    <3>7. QED BY <3>2, <3>3, <3>6 DEF RecordsInv
  <2>8. QED BY <2>1, <2>2, <2>3, <2>4, <2>5, <2>6, <2>7 DEF Next
<1>2. QED BY <1>1, InitRecords, PTL DEF Spec

\* Type correctness, for any export, characters and limits: of texts that are
\* decoded, whole characters and never halves.
THEOREM TypeCorrect == Spec => []TypeOK
<1> DEFINE JobType == job \in {"running", "completed", "failed"}
<1>1. Spec => []JobType
  <2>1. Init => JobType BY DEF Init
  <2>2. JobType /\ [Next]_vars => JobType'
    <3> SUFFICES ASSUME JobType, [Next]_vars PROVE JobType'
      OBVIOUS
    <3>1. CASE JobProceeds BY <3>1 DEF JobProceeds
    <3>2. CASE ~JobProceeds
      <4>1. UNCHANGED job
        BY <3>2 DEF Next, Start, PollAnswered, Wake, Download, NextStatusAnswered, ChunkArrives,
           StreamEnds, StreamBreaks, Continue, Stop, vars
      <4>2. QED BY <4>1
    <3>3. QED BY <3>1, <3>2
  <2>3. QED BY <2>1, <2>2, PTL DEF Spec
<1>2. JobType /\ PollInv /\ RecordsInv => TypeOK
  <2> SUFFICES ASSUME JobType, PollInv, RecordsInv PROVE TypeOK
    OBVIOUS
  <2>1. Seq(Chars) \subseteq Texts
    <3>1. Chars \subseteq Chars \cup {Junk} OBVIOUS
    <3>2. QED BY <3>1 DEF Texts
  <2>2. TextType /\ PageType BY DEF RecordsInv, TextType
  <2>3. yielded \in Seq(Texts)
    <3>1. yielded \in Seq(Seq(Chars)) BY <2>2 DEF TextType
    <3>2. \A n \in 1 .. Len(yielded) : yielded[n] \in Texts BY <2>1, <3>1
    <3>3. QED BY <3>1, <3>2
  <2>4. buffer \in Texts /\ lines \in Texts BY <2>1, <2>2 DEF PageType
  <2>5. elapsed \in Nat /\ polls \in Nat BY DEF PollInv
  <2>6. QED BY <2>2, <2>3, <2>4, <2>5 DEF TypeOK, TextType, PageType
<1>3. QED BY <1>1, <1>2, PollsHold, RecordsHold, PTL

\* The n-th record that a consumer gets is the n-th of the export and is whole,
\* for all pages, cut anywhere, also within a character, into any chunks.
THEOREM RecordsComeInOrder == Spec => []YieldsAreExported
<1>1. RecordsInv => YieldsAreExported BY DEF RecordsInv
<1>2. QED BY <1>1, RecordsHold, PTL

\* An iteration that comes to its end has given out every record of every page.
THEOREM NothingIsLeftOut == Spec => []DoneIsComplete
<1>1. RecordsInv => DoneIsComplete
  <2> SUFFICES ASSUME RecordsInv, pc = "done" PROVE Len(yielded) = Cardinality(Starts)
    BY DEF DoneIsComplete
  <2>1. page = Len(export) /\ BehindPage /\ export \in Seq(Seq(Chars))
    BY DEF RecordsInv, PagesInv, TextInv, TextType
  <2>2. QED BY <2>1, FirstAndLast DEF BehindPage
<1>2. QED BY <1>1, RecordsHold, PTL
=============================================================================
