---------------------------- MODULE ClientProofs ----------------------------
(* Proofs about Client, for every value of its constants. *)
EXTENDS Client, SequenceTheorems, TLAPS

(***************************************************************************)
(* Lines.  A call in the line of a limiter is there once, and its phase    *)
(* says so.                                                                *)
(***************************************************************************)

InLine(s, where, l) ==
  /\ \A i \in 1 .. Len(s) : where[s[i]] = l
  /\ \A i, j \in 1 .. Len(s) : s[i] = s[j] => i = j

Lines == \A l \in Limiters : InLine(line[l], phase, l)

\* A call joins a line.
LEMMA JoinsLine ==
  ASSUME NEW where \in [AllCalls -> Phases], NEW s \in Seq(AllCalls),
         NEW l \in Phases, NEW c \in AllCalls, where[c] # l, InLine(s, where, l)
  PROVE  /\ Append(s, c) \in Seq(AllCalls)
         /\ InLine(Append(s, c), [where EXCEPT ![c] = l], l)
<1> DEFINE t == Append(s, c)
<1>1. /\ t \in Seq(AllCalls) /\ Len(t) = Len(s) + 1 /\ t[Len(s) + 1] = c
      /\ \A i \in 1 .. Len(s) : t[i] = s[i]
  BY AppendProperties
<1>2. Len(s) \in Nat /\ \A i \in 1 .. Len(s) : s[i] \in AllCalls
  BY ElementOfSeq, LenProperties
<1> HIDE DEF t
<1>3. \A i \in 1 .. Len(s) : s[i] # c BY DEF InLine
<1>4. \A i \in 1 .. Len(t) : i \in 1 .. Len(s) \/ i = Len(s) + 1 BY <1>1, <1>2
<1>5. \A i \in 1 .. Len(t) : [where EXCEPT ![c] = l][t[i]] = l
  BY <1>1, <1>2, <1>4 DEF InLine
<1>6. \A i, j \in 1 .. Len(t) : t[i] = t[j] => i = j
  BY <1>1, <1>3, <1>4 DEF InLine
<1>7. QED BY <1>1, <1>5, <1>6 DEF InLine, t

\* The head leaves a line.
LEMMA LeavesLine ==
  ASSUME NEW where \in [AllCalls -> Phases], NEW s \in Seq(AllCalls), s # <<>>,
         NEW l, NEW w, InLine(s, where, l)
  PROVE  /\ Head(s) \in AllCalls /\ where[Head(s)] = l
         /\ Tail(s) \in Seq(AllCalls)
         /\ InLine(Tail(s), [where EXCEPT ![Head(s)] = w], l)
<1> DEFINE t == Tail(s)
<1>1. /\ Head(s) \in AllCalls /\ t \in Seq(AllCalls) /\ Len(t) = Len(s) - 1
      /\ \A i \in 1 .. Len(t) : t[i] = s[i + 1]
  BY HeadTailProperties
<1>2. Len(s) \in Nat \ {0} /\ \A i \in 1 .. Len(s) : s[i] \in AllCalls
  BY EmptySeq, ElementOfSeq
<1>3. Head(s) = s[1] BY <1>2
<1> HIDE DEF t
<1>4. \A i \in 1 .. Len(t) : i + 1 \in 1 .. Len(s) /\ i + 1 # 1 BY <1>1, <1>2
<1>5. \A i \in 1 .. Len(t) : t[i] # Head(s) /\ t[i] \in AllCalls /\ where[t[i]] = l
  <2> TAKE i \in 1 .. Len(t)
  <2>1. 1 \in 1 .. Len(s) BY <1>2
  <2>2. QED BY <1>1, <1>2, <1>3, <1>4, <2>1 DEF InLine
<1>6. \A i, j \in 1 .. Len(t) : t[i] = t[j] => i = j
  <2> TAKE i, j \in 1 .. Len(t)
  <2>1. HAVE t[i] = t[j]
  <2>2. i + 1 = j + 1 BY <1>1, <1>4, <2>1 DEF InLine
  <2>3. i \in Int /\ j \in Int BY <1>1, <1>2
  <2>4. QED BY <2>2, <2>3
<1>7. where[Head(s)] = l
  <2>1. 1 \in 1 .. Len(s) BY <1>2
  <2>2. QED BY <1>3, <2>1 DEF InLine
<1>8. \A i \in 1 .. Len(t) : [where EXCEPT ![Head(s)] = w][t[i]] = l
  BY <1>5
<1>9. QED BY <1>1, <1>6, <1>7, <1>8 DEF InLine, t

\* A step that touches no call of a line keeps it.
LEMMA KeepsLine ==
  ASSUME NEW s \in Seq(AllCalls), NEW where, NEW after, NEW l, InLine(s, where, l),
         \A c \in AllCalls : where[c] = l => after[c] = l
  PROVE  InLine(s, after, l)
<1>1. \A i \in 1 .. Len(s) : s[i] \in AllCalls BY ElementOfSeq
<1>2. QED BY <1>1 DEF InLine

LEMMA EmptyLine == ASSUME NEW where, NEW l PROVE InLine(<<>>, where, l)
BY DEF InLine

(***************************************************************************)
(* The invariant.                                                          *)
(***************************************************************************)

\* A call made by a hook is pending only as long as the hook is not over.
MakersWait ==
  \A d \in Inner : Pending(d) =>
    /\ maker[d] \in AllCalls => phase[maker[d]] = "hooks"
    /\ maker[d] = "refresh" => refresh = "hooks"

\* While hooks are told of a token, nobody has a reason to wait for one, unless
\* it has gone again.
TokenFirst == refresh = "hooks" => token \/ authClosed \/ lost

\* What close() has got through, by the point where it is.
Shut ==
  /\ \A l \in Limiters : ~open[l] => line[l] = <<>>
  /\ thread # "free" => ~open[thread]
  /\ thread = "bulk" /\ "api" \in limiters => ~open["api"]
  /\ \A k \in Closes : result[k] \in {"draining", "returned"} =>
       authClosed /\ httpClosed /\ \A l \in limiters : ~open[l]
  /\ \A k \in Closes : result[k] = "returned" => \A c \in AllCalls : phase[c] # "wire"

ClientInv == TypeOK /\ Lines /\ MakersWait /\ TokenFirst /\ NoSelfWait /\ Shut

(***************************************************************************)
(* Steps of a call through the lines.                                      *)
(***************************************************************************)

\* A call moves on, and the lines with it.
Moved(c, w) ==
  /\ phase' = [phase EXCEPT ![c] = w]
  /\ line' \in [Limiters -> Seq(AllCalls)]
  /\ Lines'
  /\ \A l \in Limiters : ~open[l] => line'[l] = line[l] \/ line[l] # <<>>

\* A call that is in no line moves to a place that is none.
LEMMA MovesAside ==
  ASSUME TypeOK, Lines, NEW c \in AllCalls, phase[c] \notin Limiters,
         NEW w \in Phases \ Limiters, Goes(c, w), UNCHANGED line
  PROVE  Moved(c, w)
<1>1. phase' = [phase EXCEPT ![c] = w] BY DEF Goes
<1>2. ASSUME NEW l \in Limiters PROVE InLine(line'[l], phase', l)
  <2>1. line[l] \in Seq(AllCalls) BY DEF TypeOK
  <2>2. \A d \in AllCalls : phase[d] = l => phase'[d] = l BY <1>1 DEF TypeOK
  <2>3. InLine(line[l], phase, l) BY DEF Lines
  <2>4. QED BY <2>1, <2>2, <2>3, KeepsLine
<1>3. QED BY <1>1, <1>2 DEF Moved, TypeOK, Lines

LEMMA EnqueueMoves ==
  ASSUME TypeOK, Lines, NEW c \in AllCalls, phase[c] = "idle",
         NEW l \in Limiters, Enqueue(c, l)
  PROVE  Moved(c, l) \/ Moved(c, "over")
<1>1. CASE open[l]
  <2>1. /\ phase' = [phase EXCEPT ![c] = l]
        /\ line' = [line EXCEPT ![l] = Append(@, c)]
    BY <1>1 DEF Enqueue, Goes
  <2>2. /\ l \in Phases /\ phase[c] # l
        /\ phase \in [AllCalls -> Phases] /\ line[l] \in Seq(AllCalls)
    BY DEF TypeOK, Phases, Limiters
  <2>3. InLine(line[l], phase, l) BY DEF Lines
  <2>4. /\ Append(line[l], c) \in Seq(AllCalls)
        /\ InLine(Append(line[l], c), phase', l)
    BY <2>1, <2>2, <2>3, JoinsLine
  <2>5. ASSUME NEW m \in Limiters, m # l PROVE InLine(line'[m], phase', m)
    <3>1. line[m] \in Seq(AllCalls) /\ line'[m] = line[m] BY <2>1, <2>5 DEF TypeOK
    <3>2. \A d \in AllCalls : phase[d] = m => phase'[d] = m
      BY <2>1, <2>2, <2>5 DEF Limiters
    <3>3. InLine(line[m], phase, m) BY DEF Lines
    <3>4. QED BY <3>1, <3>2, <3>3, KeepsLine
  <2>6. /\ line'[l] = Append(line[l], c)
        /\ line' \in [Limiters -> Seq(AllCalls)]
        /\ \A m \in Limiters : m # l => line'[m] = line[m]
    BY <2>1, <2>4 DEF TypeOK
  <2>7. Lines' BY <2>4, <2>5, <2>6 DEF Lines
  <2>8. QED BY <1>1, <2>1, <2>6, <2>7 DEF Moved
<1>2. CASE ~open[l]
  <2>1. Goes(c, "over") /\ UNCHANGED line BY <1>2 DEF Enqueue
  <2>2. "over" \in Phases \ Limiters /\ phase[c] \notin Limiters BY DEF Phases, Limiters
  <2>3. QED BY <2>1, <2>2, MovesAside
<1>3. QED BY <1>1, <1>2

LEMMA StartMoves ==
  ASSUME TypeOK, Lines, NEW c \in AllCalls, Start(c)
  PROVE  \E w \in {"bulk", "api", "hooks", "over"} : Moved(c, w)
<1>1. phase[c] = "idle" /\ phase[c] \notin Limiters BY DEF Start, Limiters
<1>2. ASSUME NEW l \in Limiters, Enqueue(c, l)
      PROVE  \E w \in {"bulk", "api", "hooks", "over"} : Moved(c, w)
  <2>1. l \in {"bulk", "api"} BY DEF Limiters
  <2>2. QED BY <1>1, <1>2, <2>1, EnqueueMoves
<1>3. ASSUME NEW w \in {"hooks", "over"}, Goes(c, w), UNCHANGED line
      PROVE  \E v \in {"bulk", "api", "hooks", "over"} : Moved(c, v)
  <2>1. w \in Phases \ Limiters BY DEF Phases, Limiters
  <2>2. QED BY <1>1, <1>3, <2>1, MovesAside
<1>4. \/ \E l \in Limiters : Enqueue(c, l)
      \/ \E w \in {"hooks", "over"} : Goes(c, w) /\ UNCHANGED line
  BY DEF Start, Request, Limiters
<1>5. QED BY <1>2, <1>3, <1>4

LEMMA GrantApiMoves ==
  ASSUME TypeOK, Lines, GrantApi
  PROVE  \E c \in AllCalls, w \in {"hooks", "over"} : phase[c] = "api" /\ Moved(c, w)
<1> DEFINE c == Head(line["api"])
<1>1. PICK w \in {"hooks", "over"} :
        /\ phase' = [phase EXCEPT ![c] = w]
        /\ line' = [line EXCEPT !["api"] = Tail(@)]
  BY DEF GrantApi, Goes, Leaves
<1>2. line["api"] \in Seq(AllCalls) /\ line["api"] # <<>> /\ "api" \in Limiters
  BY DEF TypeOK, GrantApi, Limiters
<1>3. InLine(line["api"], phase, "api") BY <1>2 DEF Lines
<1>4. phase \in [AllCalls -> Phases] BY DEF TypeOK
<1>5. /\ c \in AllCalls /\ phase[c] = "api" /\ Tail(line["api"]) \in Seq(AllCalls)
      /\ InLine(Tail(line["api"]), phase', "api")
  BY <1>1, <1>2, <1>3, <1>4, LeavesLine
<1> HIDE DEF c
<1>6. /\ line'["api"] = Tail(line["api"])
      /\ line' \in [Limiters -> Seq(AllCalls)]
      /\ \A m \in Limiters : m # "api" => line'[m] = line[m]
  BY <1>1, <1>2, <1>5 DEF TypeOK
<1>7. ASSUME NEW m \in Limiters, m # "api" PROVE InLine(line'[m], phase', m)
  <2>1. line[m] \in Seq(AllCalls) BY DEF TypeOK
  <2>2. \A d \in AllCalls : phase[d] = m => phase'[d] = m
    BY <1>1, <1>4, <1>5, <1>7
  <2>3. InLine(line[m], phase, m) BY DEF Lines
  <2>4. QED BY <1>6, <1>7, <2>1, <2>2, <2>3, KeepsLine
<1>8. Lines' BY <1>5, <1>6, <1>7 DEF Lines
<1>9. Moved(c, w) BY <1>1, <1>6, <1>8 DEF Moved
<1>10. QED BY <1>5, <1>9

LEMMA GrantBulkMoves ==
  ASSUME TypeOK, Lines, GrantBulk
  PROVE  \E c \in AllCalls, w \in {"api", "hooks", "over"} : phase[c] = "bulk" /\ Moved(c, w)
<1> DEFINE c == Head(line["bulk"])
           joins == ~httpClosed /\ "api" \in limiters /\ open["api"]
<1>1. /\ line["bulk"] \in Seq(AllCalls) /\ line["bulk"] # <<>>
      /\ line["api"] \in Seq(AllCalls)
      /\ phase \in [AllCalls -> Phases]
  BY DEF TypeOK, GrantBulk, Limiters
<1>2. InLine(line["bulk"], phase, "bulk") /\ InLine(line["api"], phase, "api")
  BY DEF Lines, Limiters
<1>3. PICK w \in {"api", "hooks", "over"} :
        /\ phase' = [phase EXCEPT ![c] = w]
        /\ w = "api" <=> joins
        /\ line' = IF joins
                   THEN [[line EXCEPT !["bulk"] = Tail(line["bulk"])]
                           EXCEPT !["api"] = Append(@, c)]
                   ELSE [line EXCEPT !["bulk"] = Tail(line["bulk"])]
  BY DEF GrantBulk, Goes
<1>4. /\ c \in AllCalls /\ phase[c] = "bulk" /\ Tail(line["bulk"]) \in Seq(AllCalls)
      /\ InLine(Tail(line["bulk"]), phase', "bulk")
  BY <1>1, <1>2, <1>3, LeavesLine
<1> HIDE DEF c
<1>5. /\ line'["bulk"] = Tail(line["bulk"])
      /\ line'["api"] = IF joins THEN Append(line["api"], c) ELSE line["api"]
  BY <1>3 DEF TypeOK, Limiters
<1>6. line'["api"] \in Seq(AllCalls) /\ InLine(line'["api"], phase', "api")
  <2>1. CASE joins
    <3>1. "api" \in Phases /\ phase[c] # "api" /\ phase' = [phase EXCEPT ![c] = "api"]
      BY <1>3, <1>4, <2>1 DEF Phases
    <3>2. QED BY <1>1, <1>2, <1>4, <1>5, <2>1, <3>1, JoinsLine
  <2>2. CASE ~joins
    <3>1. \A d \in AllCalls : phase[d] = "api" => phase'[d] = "api"
      BY <1>1, <1>3, <1>4
    <3>2. InLine(line["api"], phase', "api") BY <1>1, <1>2, <3>1, KeepsLine
    <3>3. QED BY <1>1, <1>5, <2>2, <3>2
  <2>3. QED BY <2>1, <2>2
<1>7. line' \in [Limiters -> Seq(AllCalls)]
  BY <1>3, <1>4, <1>5, <1>6 DEF TypeOK, Limiters
<1>8. Lines' BY <1>4, <1>5, <1>6 DEF Lines, Limiters
<1>9. \A l \in Limiters : ~open[l] => line'[l] = line[l] \/ line[l] # <<>>
  BY <1>1, <1>5 DEF Limiters
<1>10. QED BY <1>3, <1>4, <1>7, <1>8, <1>9 DEF Moved

(***************************************************************************)
(* Every step keeps the invariant.                                         *)
(***************************************************************************)

\* A call is made by somebody, or it goes on.
Begins(c) ==
  /\ phase[c] = "idle"
  /\ \/ c \in Calls /\ UNCHANGED maker
     \/ \E m \in AllCalls \cup {"refresh"} :
          /\ maker' = [maker EXCEPT ![c] = m]
          /\ m = "refresh" => refresh = "hooks"
          /\ m \in AllCalls => m # c /\ phase[m] = "hooks"
GoesOn(c) ==
  /\ Pending(c) /\ UNCHANGED maker
  /\ phase[c] = "hooks" => HooksAreDone(c)

LEMMA CallKeepsInv ==
  ASSUME ClientInv, NEW c \in AllCalls, NEW w \in Phases \ {"idle"}, Moved(c, w),
         Begins(c) \/ GoesOn(c),
         w = "wire" => ~httpClosed,
         w = "token" => refresh' # "hooks" \/ lost,
         UNCHANGED <<limiters, shutdown, token, lost, authClosed>>,
         refresh' = refresh \/ (refresh = "none" /\ refresh' = "requesting")
  PROVE  ClientInv'
<1> USE DEF shutdown
<1>1. /\ phase \in [AllCalls -> Phases] /\ phase' = [phase EXCEPT ![c] = w]
      /\ \A d \in AllCalls : d # c => phase'[d] = phase[d]
      /\ phase'[c] = w
  BY DEF ClientInv, TypeOK, Moved
<1>2. maker \in [AllCalls -> AllCalls \cup {"application", "refresh"}]
  BY DEF ClientInv, TypeOK
<1>3. \A d \in AllCalls : d # c => maker'[d] = maker[d]
  BY <1>2 DEF Begins, GoesOn
<1>4. Inner \subseteq AllCalls BY DEF AllCalls
<1>5. TypeOK'
  <2>1. phase' \in [AllCalls -> Phases] BY <1>1
  <2>2. maker' \in [AllCalls -> AllCalls \cup {"application", "refresh"}]
    BY <1>2 DEF Begins, GoesOn
  <2>3. line' \in [Limiters -> Seq(AllCalls)] BY DEF Moved
  <2>4. refresh' \in {"none", "requesting", "hooks"} BY DEF ClientInv, TypeOK
  <2>5. QED BY <1>2, <2>1, <2>2, <2>3, <2>4 DEF ClientInv, TypeOK
<1>6. Lines' BY DEF Moved
<1>7. MakersWait'
  <2> SUFFICES ASSUME NEW d \in Inner, Pending(d)'
               PROVE  /\ maker'[d] \in AllCalls => phase'[maker'[d]] = "hooks"
                      /\ maker'[d] = "refresh" => refresh' = "hooks"
    BY DEF MakersWait
  <2>1. CASE Begins(c) /\ d = c
    <3>1. c \notin Calls BY <2>1, ClientAssumption
    <3>2. PICK m \in AllCalls \cup {"refresh"} :
            /\ maker' = [maker EXCEPT ![c] = m]
            /\ m = "refresh" => refresh = "hooks"
            /\ m \in AllCalls => m # c /\ phase[m] = "hooks"
      BY <2>1, <3>1 DEF Begins
    <3>3. maker'[d] = m BY <1>2, <2>1, <3>2
    <3>4. QED BY <1>1, <3>2, <3>3
  <2>2. CASE GoesOn(c) \/ d # c
    <3>1. Pending(d) /\ maker'[d] = maker[d]
      BY <1>1, <1>3, <1>4, <2>2 DEF Pending, GoesOn
    <3>2. /\ maker[d] \in AllCalls => phase[maker[d]] = "hooks"
          /\ maker[d] = "refresh" => refresh = "hooks"
      BY <3>1 DEF ClientInv, MakersWait
    <3>3. maker[d] \in AllCalls => maker[d] # c
      <4>1. CASE Begins(c) BY <3>2, <4>1 DEF Begins
      <4>2. CASE GoesOn(c)
        BY <3>1, <3>2, <4>2 DEF GoesOn, HooksAreDone, MadeBy
      <4>3. QED BY <4>1, <4>2
    <3>4. QED BY <1>1, <3>1, <3>2, <3>3
  <2>3. QED BY <2>1, <2>2
<1>8. TokenFirst' BY DEF ClientInv, TokenFirst
<1>9. NoSelfWait'
  <2> SUFFICES ASSUME refresh' = "hooks", ~lost',
                      NEW b \in Inner, maker'[b] = "refresh",
                      NEW d \in AllCalls, d = b \/ (d \in Inner /\ maker'[d] = b),
                      phase'[d] = "token"
               PROVE  FALSE
    BY <1>4 DEF NoSelfWait, SelfWait, MadeBy
  <2>1. refresh = "hooks" OBVIOUS
  <2>2. d # c /\ phase[d] = "token" BY <1>1
  <2>3. maker'[d] = maker[d] BY <1>3, <2>2
  <2>4. b # c
    <3> SUFFICES ASSUME b = c PROVE FALSE
      OBVIOUS
    <3>1. d \in Inner /\ maker[d] = c BY <2>2, <2>3
    <3>2. phase[c] = "hooks"
      BY <2>2, <3>1 DEF ClientInv, MakersWait, Pending
    <3>3. GoesOn(c) BY <3>2 DEF Begins
    <3>4. QED BY <2>2, <3>1, <3>2, <3>3 DEF GoesOn, HooksAreDone, MadeBy, Pending
  <2>5. maker[b] = "refresh" BY <1>3, <1>4, <2>4
  <2>6. QED BY <2>1, <2>2, <2>3, <2>5 DEF ClientInv, NoSelfWait, SelfWait, MadeBy
<1>10. Shut'
  <2>1. \A l \in Limiters : ~open'[l] => line'[l] = <<>>
    BY DEF ClientInv, Shut, Moved
  <2>2. \A k \in Closes : result'[k] = "returned" => \A d \in AllCalls : phase'[d] # "wire"
    BY <1>1 DEF ClientInv, Shut
  <2>3. QED BY <2>1, <2>2 DEF ClientInv, Shut
<1>11. QED BY <1>5, <1>6, <1>7, <1>8, <1>9, <1>10 DEF ClientInv

LEMMA StartKeepsInv ==
  ASSUME ClientInv, NEW c \in AllCalls, Start(c), Begins(c)
  PROVE  ClientInv'
<1>1. PICK w \in {"bulk", "api", "hooks", "over"} : Moved(c, w)
  BY StartMoves DEF ClientInv
<1>2. w \in Phases \ {"idle"} /\ w # "wire" /\ w # "token" BY DEF Phases
<1>3. UNCHANGED <<limiters, shutdown, token, lost, authClosed>> /\ refresh' = refresh
  BY DEF Start, auth
<1>4. QED BY <1>1, <1>2, <1>3, CallKeepsInv

\* What waits for a refresh goes on or fails.
LEMMA WaitersKeepInv ==
  ASSUME ClientInv, NEW w \in {"ready", "over"}, WaitersGo(w),
         refresh' = "none", refresh = "hooks" => HooksAreDone("refresh"),
         lost' \in BOOLEAN,
         UNCHANGED <<limiters, maker, line, token, authClosed, shutdown>>
  PROVE  ClientInv'
<1> USE DEF shutdown
<1>1. \A d \in AllCalls : phase'[d] = IF phase[d] = "token" THEN w ELSE phase[d]
  BY DEF WaitersGo
<1>2. TypeOK'
  <2>1. phase' \in [AllCalls -> Phases] BY DEF WaitersGo, ClientInv, TypeOK, Phases
  <2>2. QED BY <2>1 DEF ClientInv, TypeOK
<1>3. Lines'
  <2> SUFFICES ASSUME NEW l \in Limiters PROVE InLine(line'[l], phase', l)
    BY DEF Lines
  <2>1. line[l] \in Seq(AllCalls) /\ InLine(line[l], phase, l)
    BY DEF ClientInv, TypeOK, Lines
  <2>2. \A d \in AllCalls : phase[d] = l => phase'[d] = l BY <1>1 DEF Limiters
  <2>3. QED BY <2>1, <2>2, KeepsLine
<1>4. MakersWait'
  <2> SUFFICES ASSUME NEW d \in Inner, Pending(d)'
               PROVE  /\ maker[d] \in AllCalls => phase'[maker[d]] = "hooks"
                      /\ maker[d] # "refresh"
    BY DEF MakersWait
  <2>1. Pending(d) BY <1>1 DEF Pending, AllCalls
  <2>2. QED BY <1>1, <2>1 DEF ClientInv, MakersWait, HooksAreDone, MadeBy
<1>5. TokenFirst' /\ NoSelfWait' BY DEF TokenFirst, NoSelfWait, SelfWait
<1>6. Shut' BY <1>1 DEF ClientInv, Shut
<1>7. QED BY <1>2, <1>3, <1>4, <1>5, <1>6 DEF ClientInv

\* All but Shut, which depends on what close() makes of its result.
Others == TypeOK /\ Lines /\ MakersWait /\ TokenFirst /\ NoSelfWait

\* close() takes one limiter.
LEMMA CloseLimiterKeeps ==
  ASSUME ClientInv, NEW l \in Limiters, CloseLimiter(l), UNCHANGED <<limiters, maker>>,
         result' \in [Closes -> {"none", "running", "draining", "returned", "threw"}]
  PROVE  /\ Others'
         /\ \A m \in Limiters : ~open'[m] => line'[m] = <<>>
         /\ ~open'[l] /\ thread' = l /\ UNCHANGED <<authClosed, httpClosed>>
         /\ \A m \in Limiters : m # l => open'[m] = open[m]
         /\ \A c \in AllCalls : phase'[c] = "wire" => phase[c] = "wire"
<1> USE DEF CloseLimiter, auth
<1>1. /\ \A c \in AllCalls : phase'[c] = IF phase[c] = l THEN "over" ELSE phase[c]
      /\ open' = [open EXCEPT ![l] = FALSE]
      /\ line' = [line EXCEPT ![l] = <<>>]
  OBVIOUS
<1>2. TypeOK'
  <2>1. phase' \in [AllCalls -> Phases] BY DEF ClientInv, TypeOK, Phases
  <2>2. line' \in [Limiters -> Seq(AllCalls)] BY EmptySeq DEF ClientInv, TypeOK
  <2>3. QED BY <2>1, <2>2 DEF ClientInv, TypeOK
<1>3. /\ line'[l] = <<>> /\ ~open'[l]
      /\ \A m \in Limiters : m # l => line'[m] = line[m] /\ open'[m] = open[m]
  BY <1>1 DEF ClientInv, TypeOK
<1>4. Lines'
  <2> SUFFICES ASSUME NEW m \in Limiters PROVE InLine(line'[m], phase', m)
    BY DEF Lines
  <2>1. CASE m = l BY <1>3, <2>1, EmptyLine
  <2>2. CASE m # l
    <3>1. line[m] \in Seq(AllCalls) /\ InLine(line[m], phase, m)
      BY DEF ClientInv, TypeOK, Lines
    <3>2. \A c \in AllCalls : phase[c] = m => phase'[c] = m BY <1>1, <2>2
    <3>3. QED BY <1>3, <2>2, <3>1, <3>2, KeepsLine
  <2>3. QED BY <2>1, <2>2
<1>5. \A c \in AllCalls : phase[c] = "hooks" => phase'[c] = "hooks"
  BY <1>1 DEF Limiters
<1>6. MakersWait'
  <2> SUFFICES ASSUME NEW d \in Inner, Pending(d)'
               PROVE  /\ maker[d] \in AllCalls => phase'[maker[d]] = "hooks"
                      /\ maker[d] = "refresh" => refresh = "hooks"
    BY DEF MakersWait
  <2>1. Pending(d) BY <1>1 DEF Pending, AllCalls
  <2>2. QED BY <1>5, <2>1 DEF ClientInv, MakersWait
<1>7. TokenFirst' BY DEF ClientInv, TokenFirst
<1>8. NoSelfWait'
  <2>1. \A c \in AllCalls : phase'[c] = "token" => phase[c] = "token" BY <1>1
  <2>2. Inner \subseteq AllCalls BY DEF AllCalls
  <2>3. QED BY <2>1, <2>2 DEF ClientInv, NoSelfWait, SelfWait, MadeBy
<1>9. \A m \in Limiters : ~open'[m] => line'[m] = <<>>
  BY <1>3 DEF ClientInv, Shut
<1>10. QED BY <1>1, <1>2, <1>3, <1>4, <1>6, <1>7, <1>8, <1>9 DEF Others

\* close() has got past the limiters.
LEMMA CloseAuthAndHttpKeeps ==
  ASSUME ClientInv, CloseAuthAndHttp, UNCHANGED <<limiters, maker>>,
         result' \in [Closes -> {"none", "running", "draining", "returned", "threw"}]
  PROVE  /\ Others'
         /\ authClosed' /\ httpClosed' /\ thread' = "free"
         /\ UNCHANGED <<open, line, phase>>
<1> USE DEF CloseAuthAndHttp
<1>1. TypeOK' BY DEF ClientInv, TypeOK
<1>2. Lines' BY DEF ClientInv, Lines
<1>3. MakersWait' BY DEF ClientInv, MakersWait, Pending
<1>4. TokenFirst' BY DEF TokenFirst
<1>5. NoSelfWait' BY DEF ClientInv, NoSelfWait, SelfWait, MadeBy
<1>6. QED BY <1>1, <1>2, <1>3, <1>4, <1>5 DEF Others

\* close() goes on behind the limiters it has closed.
LEMMA ClosesOnKeepsInv ==
  ASSUME ClientInv, NEW left \in SUBSET limiters, ClosesOn(left),
         UNCHANGED <<limiters, maker>>,
         \A l \in limiters \ left : ~open[l],
         result' \in [Closes -> {"none", "running", "draining", "returned", "threw"}],
         \A k \in Closes : result'[k] = result[k] \/ result'[k] = Progress(k)
  PROVE  ClientInv'
<1>0. limiters \subseteq Limiters BY DEF ClientInv, TypeOK
<1>1. ASSUME NEW l \in Limiters, CloseLimiter(l), l = "bulk" => "api" \notin left
      PROVE  ClientInv'
  <2>1. /\ Others'
        /\ \A m \in Limiters : ~open'[m] => line'[m] = <<>>
        /\ ~open'[l] /\ thread' = l /\ UNCHANGED <<authClosed, httpClosed>>
        /\ \A m \in Limiters : m # l => open'[m] = open[m]
        /\ \A c \in AllCalls : phase'[c] = "wire" => phase[c] = "wire"
    BY <1>1, CloseLimiterKeeps
  <2>2. \A m \in Limiters : ~open[m] => ~open'[m] BY <2>1
  <2>3. thread' = "bulk" /\ "api" \in limiters' => ~open'["api"]
    <3> SUFFICES ASSUME l = "bulk", "api" \in limiters PROVE ~open'["api"]
      BY <2>1
    <3>1. "api" \in limiters \ left BY <1>1
    <3>2. QED BY <1>0, <2>2, <3>1
  <2>4. thread' # "free" BY <2>1 DEF Limiters
  <2>5. ASSUME NEW k \in Closes, result'[k] \in {"draining", "returned"}
        PROVE  /\ authClosed' /\ httpClosed' /\ \A m \in limiters' : ~open'[m]
               /\ result'[k] = "returned" => \A c \in AllCalls : phase'[c] # "wire"
    <3>1. result'[k] = result[k] BY <2>4, <2>5 DEF Progress
    <3>2. QED BY <1>0, <2>1, <2>2, <2>5, <3>1 DEF ClientInv, Shut
  <2>6. Shut' BY <2>1, <2>3, <2>5 DEF Shut
  <2>7. QED BY <2>1, <2>6 DEF ClientInv, Others
<1>2. ASSUME CloseAuthAndHttp, left \cap Limiters = {}
      PROVE  ClientInv'
  <2>1. /\ Others' /\ authClosed' /\ httpClosed' /\ thread' = "free"
        /\ UNCHANGED <<open, line, phase>>
    BY <1>2, CloseAuthAndHttpKeeps
  <2>2. \A m \in limiters' : ~open'[m] BY <1>0, <1>2, <2>1
  <2>3. ASSUME NEW k \in Closes, result'[k] = "returned"
        PROVE  \A c \in AllCalls : phase'[c] # "wire"
    <3>1. result[k] = "returned" BY <2>1, <2>3 DEF Progress
    <3>2. QED BY <2>1, <3>1 DEF ClientInv, Shut
  <2>4. Shut' BY <2>1, <2>2, <2>3 DEF ClientInv, Shut
  <2>5. QED BY <2>1, <2>4 DEF ClientInv, Others
<1>3. \/ CloseLimiter("api")
      \/ CloseLimiter("bulk") /\ "api" \notin left
      \/ CloseAuthAndHttp /\ left \cap Limiters = {}
  BY DEF ClosesOn, Limiters
<1>4. "api" \in Limiters /\ "bulk" \in Limiters BY DEF Limiters
<1>5. QED BY <1>1, <1>2, <1>3, <1>4

LEMMA InitInv == Init => ClientInv
<1> SUFFICES ASSUME Init PROVE ClientInv
  OBVIOUS
<1>1. TypeOK BY EmptySeq DEF Init, TypeOK, Phases, Limiters
<1>2. Lines BY EmptyLine DEF Init, Lines
<1>3. MakersWait BY DEF Init, MakersWait, Pending, AllCalls
<1>4. TokenFirst /\ NoSelfWait BY DEF Init, TokenFirst, NoSelfWait, SelfWait
<1>5. Shut BY DEF Init, Shut
<1>6. QED BY <1>1, <1>2, <1>3, <1>4, <1>5 DEF ClientInv

LEMMA NextInv == ClientInv /\ [Next]_vars => ClientInv'
<1> SUFFICES ASSUME ClientInv, [Next]_vars PROVE ClientInv'
  OBVIOUS
<1>0. TypeOK BY DEF ClientInv
<1>1. ASSUME NEW c \in Calls, ApplicationCalls(c) PROVE ClientInv'
  <2>1. c \in AllCalls /\ Start(c) /\ Begins(c)
    BY <1>1 DEF ApplicationCalls, Start, Begins, AllCalls
  <2>2. QED BY <2>1, StartKeepsInv
<1>2. ASSUME NEW c \in Inner, NEW m \in AllCalls \cup {"refresh"}, HookCalls(c, m)
      PROVE  ClientInv'
  <2>1. c \in AllCalls /\ Start(c) /\ Begins(c)
    BY <1>2 DEF HookCalls, Start, Begins, AllCalls
  <2>2. QED BY <2>1, StartKeepsInv
<1>3. CASE GrantBulk
  <2>1. PICK c \in AllCalls, w \in {"api", "hooks", "over"} :
          phase[c] = "bulk" /\ Moved(c, w)
    BY <1>3, GrantBulkMoves DEF ClientInv
  <2>2. w \in Phases \ {"idle"} /\ w # "wire" /\ w # "token" /\ GoesOn(c)
    BY <1>3, <2>1 DEF Phases, GoesOn, Pending, GrantBulk
  <2>3. UNCHANGED <<limiters, shutdown, token, lost, authClosed>> /\ refresh' = refresh
    BY <1>3 DEF GrantBulk, auth
  <2>4. QED BY <2>1, <2>2, <2>3, CallKeepsInv
<1>4. CASE GrantApi
  <2>1. PICK c \in AllCalls, w \in {"hooks", "over"} : phase[c] = "api" /\ Moved(c, w)
    BY <1>4, GrantApiMoves DEF ClientInv
  <2>2. w \in Phases \ {"idle"} /\ w # "wire" /\ w # "token" /\ GoesOn(c)
    BY <1>4, <2>1 DEF Phases, GoesOn, Pending, GrantApi
  <2>3. UNCHANGED <<limiters, shutdown, token, lost, authClosed>> /\ refresh' = refresh
    BY <1>4 DEF GrantApi, auth
  <2>4. QED BY <2>1, <2>2, <2>3, CallKeepsInv
<1>5. ASSUME NEW c \in AllCalls, GetAccessToken(c) PROVE ClientInv'
  <2>1. PICK w \in {"over", "ready", "token"} :
          /\ Goes(c, w)
          /\ w = "token" => ~authClosed /\ ~token
    BY <1>5 DEF GetAccessToken
  <2>2. w \in Phases \ Limiters /\ w \in Phases \ {"idle"} /\ w # "wire"
    BY DEF Phases, Limiters
  <2>3. phase[c] = "hooks" /\ phase[c] \notin Limiters /\ HooksAreDone(c) /\ UNCHANGED line
    BY <1>5 DEF GetAccessToken, Limiters
  <2>4. Moved(c, w) BY <2>1, <2>2, <2>3, MovesAside DEF ClientInv
  <2>5. GoesOn(c) BY <1>5, <2>3 DEF GoesOn, Pending, GetAccessToken
  <2>6. /\ UNCHANGED <<limiters, shutdown, token, lost, authClosed>>
        /\ refresh' = refresh \/ (refresh = "none" /\ refresh' = "requesting")
    BY <1>5 DEF GetAccessToken
  <2>7. w = "token" => refresh' # "hooks" \/ lost
    BY <2>1, <2>6 DEF ClientInv, TokenFirst
  <2>8. QED BY <2>2, <2>4, <2>5, <2>6, <2>7, CallKeepsInv
<1>6. ASSUME NEW c \in AllCalls, Send(c) \/ WireEnds(c) PROVE ClientInv'
  <2>1. PICK w \in {"over", "wire"} : Goes(c, w) /\ (w = "wire" => ~httpClosed)
    BY <1>6 DEF Send, WireEnds
  <2>2. w \in Phases \ Limiters /\ w \in Phases \ {"idle"} /\ w # "token"
    BY DEF Phases, Limiters
  <2>3. /\ phase[c] \in {"ready", "wire"} /\ phase[c] \notin Limiters
        /\ UNCHANGED <<line, maker>>
    BY <1>6 DEF Send, WireEnds, Limiters
  <2>4. Moved(c, w) BY <2>1, <2>2, <2>3, MovesAside DEF ClientInv
  <2>5. GoesOn(c) BY <2>3 DEF GoesOn, Pending
  <2>6. UNCHANGED <<limiters, shutdown, token, lost, authClosed>> /\ refresh' = refresh
    BY <1>6 DEF Send, WireEnds, auth
  <2>7. QED BY <2>1, <2>2, <2>4, <2>5, <2>6, CallKeepsInv
<1>7. CASE RefreshFails \/ RefreshHooksEnd
  <2>1. PICK w \in {"ready", "over"} : WaitersGo(w)
    BY <1>7 DEF RefreshFails, RefreshHooksEnd
  <2>2. /\ refresh' = "none" /\ (refresh = "hooks" => HooksAreDone("refresh"))
        /\ UNCHANGED <<limiters, maker, line, token, authClosed, shutdown>>
        /\ lost' \in BOOLEAN
    BY <1>0, <1>7 DEF RefreshFails, RefreshHooksEnd, TypeOK
  <2>3. QED BY <2>1, <2>2, WaitersKeepInv
<1>8. CASE TokenArrives
  <2> USE <1>8 DEF TokenArrives, requests, shutdown
  <2>1. TypeOK' /\ Lines' /\ TokenFirst'
    BY DEF ClientInv, TypeOK, Lines, TokenFirst
  <2>2. MakersWait' BY DEF ClientInv, MakersWait, Pending
  <2>3. NoSelfWait'
    <3> SUFFICES ASSUME NEW b \in Inner, maker[b] = "refresh",
                        NEW d \in AllCalls, d = b \/ (d \in Inner /\ maker[d] = b),
                        phase[d] = "token"
                 PROVE  FALSE
      BY DEF NoSelfWait, SelfWait, MadeBy, AllCalls
    <3>1. Pending(d) BY DEF Pending
    <3>2. Pending(b)
      BY <3>1 DEF ClientInv, MakersWait, Pending, AllCalls
    <3>3. QED BY <3>2 DEF ClientInv, MakersWait
  <2>4. Shut' BY DEF ClientInv, Shut
  <2>5. QED BY <2>1, <2>2, <2>3, <2>4 DEF ClientInv
<1>9. CASE TokenGoes
  <2> USE <1>9 DEF TokenGoes, requests, shutdown
  <2>1. TypeOK' /\ Lines' /\ TokenFirst'
    BY DEF ClientInv, TypeOK, Lines, TokenFirst
  <2>2. MakersWait' /\ NoSelfWait'
    BY DEF ClientInv, MakersWait, Pending, NoSelfWait, SelfWait, MadeBy
  <2>3. Shut' BY DEF ClientInv, Shut
  <2>4. QED BY <2>1, <2>2, <2>3 DEF ClientInv
<1>10. ASSUME NEW k \in Closes, Close(k) PROVE ClientInv'
  <2>1. result' \in [Closes -> {"none", "running", "draining", "returned", "threw"}]
    BY <1>0, <1>10 DEF Close, TypeOK, Progress
  <2>2. \A j \in Closes : result'[j] = result[j] \/ result'[j] = Progress(j)
    BY <1>0, <1>10 DEF Close, TypeOK, Progress
  <2>3. limiters \in SUBSET limiters /\ \A l \in limiters \ limiters : ~open[l]
    OBVIOUS
  <2>4. QED BY <1>10, <2>1, <2>2, <2>3, ClosesOnKeepsInv DEF Close
<1>11. CASE CallbackReturns
  <2> DEFINE left == IF thread = "api" THEN limiters \ {"api"} ELSE {}
  <2>1. result' \in [Closes -> {"none", "running", "draining", "returned", "threw"}]
    BY <1>0, <1>11 DEF CallbackReturns, TypeOK, Progress
  <2>2. \A j \in Closes : result'[j] = result[j] \/ result'[j] = Progress(j)
    BY <1>0, <1>11 DEF CallbackReturns, TypeOK, Progress
  <2>3. left \in SUBSET limiters OBVIOUS
  <2>4. \A l \in limiters \ left : ~open[l]
    <3>1. thread = "api" \/ thread = "bulk"
      BY <1>0, <1>11 DEF CallbackReturns, TypeOK, Limiters
    <3>2. \A l \in limiters : l = "api" \/ l = "bulk" BY <1>0 DEF TypeOK, Limiters
    <3>3. QED BY <3>1, <3>2 DEF ClientInv, Shut
  <2>5. ClosesOn(left) /\ UNCHANGED <<limiters, maker>> BY <1>11 DEF CallbackReturns
  <2> HIDE DEF left
  <2>6. QED BY <2>1, <2>2, <2>3, <2>4, <2>5, ClosesOnKeepsInv
<1>12. ASSUME CallbackThrows \/ \E k \in Closes : CloseEnds(k) PROVE ClientInv'
  <2>1. /\ UNCHANGED <<limiters, phase, maker, line, token, lost, refresh, authClosed,
                    open, httpClosed>>
        /\ thread' = "free"
    BY <1>12 DEF CallbackThrows, CloseEnds, requests, auth
  <2>2. /\ result' \in [Closes -> {"none", "running", "draining", "returned", "threw"}]
        /\ \A k \in Closes : result'[k] = "draining" => result[k] = "draining"
        /\ \A k \in Closes : result'[k] = "returned" =>
             \/ result[k] = "returned"
             \/ result[k] = "draining" /\ \A c \in AllCalls : phase[c] # "wire"
    BY <1>0, <1>12 DEF CallbackThrows, CloseEnds, TypeOK
  <2>3. TypeOK' BY <2>1, <2>2 DEF ClientInv, TypeOK
  <2>4. Lines' /\ MakersWait' /\ TokenFirst' /\ NoSelfWait'
    BY <2>1 DEF ClientInv, Lines, MakersWait, Pending, TokenFirst, NoSelfWait, SelfWait,
       MadeBy
  <2>5. Shut' BY <2>1, <2>2 DEF ClientInv, Shut
  <2>6. QED BY <2>3, <2>4, <2>5 DEF ClientInv
<1>13. CASE UNCHANGED vars
  <2> USE <1>13 DEF vars, requests, auth, shutdown
  <2>1. TypeOK' /\ Lines' BY DEF ClientInv, TypeOK, Lines
  <2>2. MakersWait' /\ TokenFirst' /\ NoSelfWait'
    BY DEF ClientInv, MakersWait, Pending, TokenFirst, NoSelfWait, SelfWait,
       MadeBy
  <2>3. Shut' BY DEF ClientInv, Shut
  <2>4. QED BY <2>1, <2>2, <2>3 DEF ClientInv
<1>14. QED
  BY <1>1, <1>2, <1>3, <1>4, <1>5, <1>6, <1>7, <1>8, <1>9, <1>10, <1>11, <1>12,
     <1>13 DEF Next

(***************************************************************************)
(* Theorems.                                                               *)
(***************************************************************************)

\* The variables keep their types, in any client, with any number of calls.
THEOREM TypeCorrect == Spec => []TypeOK
<1>1. ClientInv => TypeOK BY DEF ClientInv
<1>2. QED BY <1>1, InitInv, NextInv, PTL DEF Spec

\* A close() that has returned has closed every part, and nothing is left in a
\* line or on the wire, whatever its callbacks did.
THEOREM CloseClosesEverything == Spec => []ReturnedMeansClosed
<1>1. ClientInv => ReturnedMeansClosed
  <2> SUFFICES ASSUME ClientInv, NEW k \in Closes, result[k] = "returned"
               PROVE  /\ \A l \in limiters : ~open[l] /\ line[l] = <<>>
                      /\ authClosed /\ httpClosed
                      /\ \A c \in AllCalls : phase[c] # "wire"
    BY DEF ReturnedMeansClosed
  <2>1. limiters \subseteq Limiters BY DEF ClientInv, TypeOK
  <2>2. QED BY <2>1 DEF ClientInv, Shut
<1>2. QED BY <1>1, InitInv, NextInv, PTL DEF Spec

\* Calls by hooks that hear of a new token wait for the refresh that waits for
\* the hooks only if the token has gone while the hooks ran, with any number of
\* calls by any number of hooks.
THEOREM HooksWaitOnlyForALostToken == Spec => []NoSelfWait
<1>1. ClientInv => NoSelfWait BY DEF ClientInv
<1>2. QED BY <1>1, InitInv, NextInv, PTL DEF Spec
=============================================================================
