---------------------------- MODULE PluginsProofs ---------------------------
(* Proofs about Plugins, for every value of its constants. *)
EXTENDS Plugins, SequenceTheorems, FiniteSetTheorems, TLAPS

(***************************************************************************)
(* The keys of the client.                                                 *)
(***************************************************************************)

\* A name is an extension if and only if a plugin has put something there; a
\* name the constructor sets later is never one.
KeysInv ==
  /\ DOMAIN keys = Added \cup Late
  /\ extensions \subseteq Added
  /\ \A k \in DOMAIN keys : k \in extensions <=> keys[k].is = "extension"
  /\ built => \A k \in Late : keys[k] = Core

LEMMA InitKeys == Init => KeysInv
BY DEF Init, KeysInv, Absent

LEMMA NextKeys == KeysInv /\ [Next]_vars => KeysInv'
<1> SUFFICES ASSUME KeysInv, [Next]_vars PROVE KeysInv'
  OBVIOUS
<1>0. CASE UNCHANGED <<built, keys, extensions>> BY <1>0 DEF KeysInv
<1>1. CASE Build
  <2>1. /\ built' /\ UNCHANGED extensions
        /\ DOMAIN keys' = DOMAIN keys
        /\ \A k \in DOMAIN keys : keys'[k] = IF k \in Late THEN Core ELSE keys[k]
    BY <1>1 DEF Build
  <2>2. Core.is # "extension" BY DEF Core
  <2>3. \A k \in Late : k \in DOMAIN keys /\ k \notin extensions
    BY PluginAssumption DEF KeysInv
  <2>4. QED BY <2>1, <2>2, <2>3 DEF KeysInv
<1>2. ASSUME NEW u \in Uses, NEW k \in Added \cup Late, InstallExtends(u, k)
      PROVE  KeysInv'
  <2>1. /\ k \in Added /\ k \notin Late
        /\ keys' = [keys EXCEPT ![k] = Plugged(calls[u].name)]
        /\ extensions' = extensions \cup {k} /\ UNCHANGED built
    BY <1>2 DEF InstallExtends, IsReservedExtension
  <2>2. Plugged(calls[u].name).is = "extension" BY DEF Plugged
  <2>3. \A j \in DOMAIN keys : keys'[j] = IF j = k THEN Plugged(calls[u].name) ELSE keys[j]
    BY <2>1
  <2>4. DOMAIN keys' = DOMAIN keys BY <2>1
  <2>5. \A j \in DOMAIN keys' : j \in extensions' <=> keys'[j].is = "extension"
    BY <2>1, <2>2, <2>3, <2>4 DEF KeysInv
  <2>6. built' => \A j \in Late : keys'[j] = Core
    BY <2>1, <2>3 DEF KeysInv
  <2>7. QED BY <2>1, <2>4, <2>5, <2>6 DEF KeysInv
<1>3. ASSUME NEW u \in Removals, NEW k \in Added \cup Late, UninstallRetracts(u, k)
      PROVE  KeysInv'
  <2>1. /\ k \in extensions
        /\ keys' = [keys EXCEPT ![k] = Absent]
        /\ extensions' = extensions \ {k} /\ UNCHANGED built
    BY <1>3 DEF UninstallRetracts, DropsName
  <2>2. Absent.is # "extension" BY DEF Absent
  <2>3. \A j \in DOMAIN keys : keys'[j] = IF j = k THEN Absent ELSE keys[j] BY <2>1
  <2>4. DOMAIN keys' = DOMAIN keys BY <2>1
  <2>5. k \notin Late BY <2>1, PluginAssumption DEF KeysInv
  <2>6. \A j \in DOMAIN keys' : j \in extensions' <=> keys'[j].is = "extension"
    BY <2>1, <2>2, <2>3, <2>4 DEF KeysInv
  <2>7. built' => \A j \in Late : keys'[j] = Core
    BY <2>1, <2>3, <2>5 DEF KeysInv
  <2>8. QED BY <2>1, <2>4, <2>6, <2>7 DEF KeysInv
<1>4. ASSUME NEW u \in Uses,
             \/ \E name \in Names : Use(u, name)
             \/ InstallRegisters(u) \/ InstallReturns(u) \/ InstallThrows(u)
      PROVE  KeysInv'
  BY <1>0, <1>4 DEF Use, InstallRegisters, InstallReturns, InstallThrows, client
<1>5. ASSUME NEW u \in Removals,
             \/ \E name \in Names : RemovePlugin(u, name)
             \/ UninstallRemoves(u) \/ UninstallEnds(u)
      PROVE  KeysInv'
  BY <1>0, <1>5 DEF RemovePlugin, UninstallRemoves, UninstallEnds, client
<1>6. ASSUME NEW r \in Runs, Begin(r) \/ HookReturns(r) \/ HookThrows(r) \/ HookOverrides(r)
      PROVE  KeysInv'
  BY <1>0, <1>6 DEF Begin, HookReturns, HookThrows, HookOverrides, client
<1>7. CASE UNCHANGED vars BY <1>0, <1>7 DEF vars, client
<1>8. QED BY <1>1, <1>2, <1>3, <1>4, <1>5, <1>6, <1>7 DEF Next

\* Whatever plugins register and take back, and in whichever order the
\* constructor and they do it, no key of the SDK is replaced or removed.
THEOREM CoreKeysStay == Spec => []CoreStays
<1>1. KeysInv => CoreStays BY DEF KeysInv, CoreStays
<1>2. QED BY <1>1, InitKeys, NextKeys, PTL DEF Spec
(***************************************************************************)
(* What filter() does: it leaves entries of the array, none further back   *)
(* than it was and in the order in which they were.                        *)
(***************************************************************************)
Hook == [plugin : Names, id : Nat]

LEMMA RemoveHooksKeepsOrder ==
  ASSUME hooks \in Seq(Hook), NEW name
  PROVE  /\ RemoveHooks(name) \in Seq(Hook)
         /\ \E was \in [1 .. Len(RemoveHooks(name)) -> Kept(name)] :
              /\ \A j \in 1 .. Len(RemoveHooks(name)) :
                   RemoveHooks(name)[j] = hooks[was[j]] /\ j <= was[j]
              /\ \A j, k \in 1 .. Len(RemoveHooks(name)) : j < k => was[j] < was[k]
<1> DEFINE K == Kept(name)
           N == Len(hooks)
           C == Cardinality(K)
           Upto(i) == K \cap 1 .. i
           rank == [i \in K |-> Cardinality(Upto(i))]
           was == [j \in 1 .. C |-> CHOOSE i \in K : Cardinality(Upto(i)) = j]
<1>1. N \in Nat /\ K \subseteq 1 .. N /\ \A i \in K : hooks[i] \in Hook
  BY LenProperties, ElementOfSeq DEF Kept
<1>2. RemoveHooks(name) = [j \in 1 .. C |-> hooks[was[j]]]
  BY DEF RemoveHooks
<1> HIDE DEF K, N
<1>3. \A i \in Nat : IsFiniteSet(1 .. i) /\ Cardinality(1 .. i) = i
  <2>1. TAKE i \in Nat
  <2>2. IsFiniteSet(1 .. i) /\ Cardinality(1 .. i) = IF 1 > i THEN 0 ELSE i - 1 + 1
    BY FS_Interval
  <2>3. QED BY <2>2
<1>4. IsFiniteSet(K) /\ C \in Nat
  BY <1>1, <1>3, FS_Subset, FS_CardinalityType
<1>5. ASSUME NEW i \in K
      PROVE  /\ IsFiniteSet(Upto(i)) /\ Cardinality(Upto(i)) \in 1 .. C
             /\ Cardinality(Upto(i)) <= i /\ i \in Nat /\ i \in Upto(i)
  <2>1. i \in Nat /\ i \in Upto(i) BY <1>1
  <2>2. IsFiniteSet(Upto(i)) /\ Cardinality(Upto(i)) <= C BY <1>4, FS_Subset
  <2>3. Cardinality(Upto(i)) <= i BY <1>3, <2>1, FS_Subset
  <2>4. Cardinality(Upto(i)) \in Nat /\ Cardinality(Upto(i)) # 0
    BY <2>1, <2>2, FS_CardinalityType, FS_EmptySet
  <2>5. QED BY <1>4, <2>1, <2>2, <2>3, <2>4
<1>6. ASSUME NEW a \in K, NEW b \in K, a < b
      PROVE  Cardinality(Upto(a)) < Cardinality(Upto(b))
  <2>0. a \in Nat /\ b \in Nat BY <1>5
  <2>1. Upto(a) \subseteq Upto(b) \ {b} BY <1>6, <2>0
  <2>2. /\ IsFiniteSet(Upto(b) \ {b})
        /\ Cardinality(Upto(b) \ {b}) = Cardinality(Upto(b)) - 1
    BY <1>5, FS_RemoveElement
  <2>3. Cardinality(Upto(a)) <= Cardinality(Upto(b) \ {b}) BY <2>1, <2>2, FS_Subset
  <2>4. Cardinality(Upto(a)) \in Nat /\ Cardinality(Upto(b)) \in Nat
    BY <1>5, FS_CardinalityType
  <2>5. QED BY <2>2, <2>3, <2>4
<1> HIDE DEF Upto, C
<1>7. ASSUME NEW j \in 1 .. C
      PROVE  was[j] \in K /\ Cardinality(Upto(was[j])) = j
  <2>1. rank \in [K -> 1 .. C] BY <1>5
  <2>2. \A a, b \in K : rank[a] = rank[b] => a = b
    <3>1. TAKE a, b \in K
    <3>2. rank[a] = Cardinality(Upto(a)) /\ rank[b] = Cardinality(Upto(b)) OBVIOUS
    <3>3. a \in Nat /\ b \in Nat /\ rank[a] \in Nat /\ rank[b] \in Nat BY <1>4, <1>5, <3>2
    <3>4. QED BY <1>6, <3>2, <3>3
  <2> HIDE DEF rank
  <2>3. rank \in Injection(K, 1 .. C) BY <2>1, <2>2 DEF Injection, IsInjective
  <2>4. IsFiniteSet(1 .. C) /\ Cardinality(1 .. C) = C BY <1>3, <1>4
  <2>5. rank \in Surjection(K, 1 .. C) BY <2>3, <2>4, FS_Injection DEF C
  <2>6. \E i \in K : rank[i] = j BY <2>5 DEF Surjection
  <2>7. \E i \in K : Cardinality(Upto(i)) = j BY <2>6 DEF rank
  <2>8. QED BY <2>7
<1> HIDE DEF was
<1>8. ASSUME NEW j \in 1 .. C, NEW k \in 1 .. C, j < k
      PROVE  was[j] < was[k]
  <2>1. was[j] \in K /\ was[k] \in K /\ was[j] \in Nat /\ was[k] \in Nat
    BY <1>5, <1>7
  <2>2. ~(was[k] < was[j]) /\ was[j] # was[k]
    BY <1>6, <1>7, <1>8, <2>1
  <2>3. QED BY <2>1, <2>2
<1>9. \A j \in 1 .. C : j <= was[j] BY <1>5, <1>7
<1>10. /\ RemoveHooks(name) \in Seq(Hook) /\ Len(RemoveHooks(name)) = C
       /\ \A j \in 1 .. C : RemoveHooks(name)[j] = hooks[was[j]]
  <2>1. \A j \in 1 .. C : hooks[was[j]] \in Hook BY <1>1, <1>7
  <2>2. QED BY <1>2, <1>4, <2>1, IsASeq, LenProperties
<1>11. was \in [1 .. C -> K] BY <1>7 DEF was
<1>12. QED BY <1>8, <1>9, <1>10, <1>11 DEF K

(***************************************************************************)
(* Type correctness.                                                       *)
(***************************************************************************)
LEMMA CalledType ==
  ASSUME TypeOK, NEW u \in Uses \cup Removals, NEW name \in Names, NEW where,
         u \in Uses => where \in UsePoints, u \in Removals => where \in RemovalPoints,
         Called(u, name, where)
  PROVE  /\ DOMAIN calls' = Uses \cup Removals
         /\ \A v \in Uses : calls'[v] \in Call(UsePoints)
         /\ \A v \in Removals : calls'[v] \in Call(RemovalPoints)
BY PluginAssumption DEF TypeOK, Called, Call, Busy

LEMMA MovesType ==
  ASSUME TypeOK, NEW u \in Uses \cup Removals, NEW where, calls[u] # Idle,
         u \in Uses => where \in UsePoints, u \in Removals => where \in RemovalPoints,
         Moves(u, where)
  PROVE  /\ DOMAIN calls' = Uses \cup Removals
         /\ \A v \in Uses : calls'[v] \in Call(UsePoints)
         /\ \A v \in Removals : calls'[v] \in Call(RemovalPoints)
<1>1. ASSUME NEW points, calls[u] \in Call(points), NEW other, where \in other
      PROVE  [calls[u] EXCEPT !.at = where] \in Call(other)
  BY <1>1 DEF Call
<1>2. \A v \in DOMAIN calls :
        calls'[v] = IF v = u THEN [calls[u] EXCEPT !.at = where] ELSE calls[v]
  BY DEF Moves
<1>3. \A v \in Uses : calls'[v] \in Call(UsePoints)
  BY <1>1, <1>2 DEF TypeOK
<1>4. \A v \in Removals : calls'[v] \in Call(RemovalPoints)
  BY <1>1, <1>2 DEF TypeOK
<1>5. QED BY <1>3, <1>4 DEF TypeOK, Moves

\* The calls that are under way have a name.
LEMMA NamesOfCalls ==
  ASSUME TypeOK
  PROVE  /\ \A u \in Uses : calls[u].at = "installing" => calls[u].name \in Names /\ calls[u] # Idle
         /\ \A u \in Removals : calls[u].at = "uninstalling" => calls[u].name \in Names /\ calls[u] # Idle
BY DEF TypeOK, Call, Idle

LEMMA ProceedsType ==
  ASSUME TypeOK, NEW r \in Runs, Proceeds(r)
  PROVE  /\ at' \in [Runs -> {"idle", "hook", "done", "overridden"}]
         /\ next' \in [Runs -> Nat \ {0}]
         /\ ran' \in [Runs -> Seq(Nat)]
<1>1. next[r] \in Nat \ {0} /\ ran[r] \in Seq(Nat) /\ Len(hooks) \in Nat
  BY LenProperties DEF TypeOK
<1>2. CASE next[r] <= Len(hooks)
  <2>1. hooks[next[r]] \in Hook
    <3>1. hooks \in Seq(Hook) /\ next[r] \in 1 .. Len(hooks) BY <1>1, <1>2 DEF TypeOK, Hook
    <3>2. QED BY <3>1, ElementOfSeq
  <2>2. hooks[next[r]].id \in Nat BY <2>1 DEF Hook
  <2>3. Append(ran[r], hooks[next[r]].id) \in Seq(Nat) BY <1>1, <2>2, AppendProperties
  <2>4. /\ at' = [at EXCEPT ![r] = "hook"]
        /\ next' = [next EXCEPT ![r] = next[r] + 1]
        /\ ran' = [ran EXCEPT ![r] = Append(ran[r], hooks[next[r]].id)]
    BY <1>2 DEF Proceeds
  <2>5. next[r] + 1 \in Nat \ {0} BY <1>1
  <2>6. QED BY <2>3, <2>4, <2>5 DEF TypeOK
<1>3. CASE ~(next[r] <= Len(hooks))
  BY <1>3 DEF Proceeds, TypeOK
<1>4. QED BY <1>2, <1>3

LEMMA RemoveHooksType ==
  ASSUME TypeOK, NEW name
  PROVE  RemoveHooks(name) \in Seq([plugin : Names, id : Nat])
BY RemoveHooksKeepsOrder DEF TypeOK, Hook

LEMMA InitType == Init => TypeOK
<1> SUFFICES ASSUME Init PROVE TypeOK
  OBVIOUS
<1>1. <<>> \in Seq([plugin : Names, id : Nat]) /\ <<>> \in Seq(Nat) BY EmptySeq
<1>2. registered \in 0 .. MaxHooks BY PluginAssumption DEF Init
<1>3. keys \in [Added \cup Late -> {Absent, Core} \cup {Plugged(n) : n \in Names}]
  BY DEF Init
<1>4. /\ next \in [Runs -> Nat \ {0}] /\ ran \in [Runs -> Seq(Nat)]
      /\ expects \in [Runs -> SUBSET Nat] /\ stable \in [Runs -> BOOLEAN]
      /\ at \in [Runs -> {"idle", "hook", "done", "overridden"}]
  BY <1>1 DEF Init
<1>5. /\ DOMAIN calls = Uses \cup Removals
      /\ \A u \in Uses : calls[u] \in Call(UsePoints)
      /\ \A u \in Removals : calls[u] \in Call(RemovalPoints)
  BY DEF Init, Call
<1>6. QED BY <1>1, <1>2, <1>3, <1>4, <1>5 DEF Init, TypeOK

LEMMA NextType == TypeOK /\ [Next]_vars => TypeOK'
<1> SUFFICES ASSUME TypeOK, [Next]_vars PROVE TypeOK'
  OBVIOUS
<1> USE DEF UsePoints, RemovalPoints
<1>1. CASE Build
  BY <1>1 DEF Build, TypeOK, run
<1>2. ASSUME NEW u \in Uses, NEW name \in Names, Use(u, name) PROVE TypeOK'
  <2>1. u \notin Removals BY PluginAssumption
  <2>2. /\ DOMAIN calls' = Uses \cup Removals
        /\ \A v \in Uses : calls'[v] \in Call(UsePoints)
        /\ \A v \in Removals : calls'[v] \in Call(RemovalPoints)
    BY <1>2, <2>1, CalledType DEF Use
  <2>3. plugins' \subseteq Names BY <1>2 DEF Use, TypeOK
  <2>4. QED BY <1>2, <2>2, <2>3 DEF Use, TypeOK, run, client
<1>3. ASSUME NEW u \in Uses, InstallRegisters(u) PROVE TypeOK'
  <2>1. calls[u].name \in Names BY <1>3, NamesOfCalls DEF InstallRegisters
  <2>2. registered' \in 0 .. MaxHooks /\ registered' \in Nat
    BY <1>3, PluginAssumption DEF InstallRegisters, RegisterHooks, TypeOK
  <2>3. [plugin |-> calls[u].name, id |-> registered'] \in [plugin : Names, id : Nat]
    BY <2>1, <2>2
  <2>4. hooks' \in Seq([plugin : Names, id : Nat])
    BY <1>3, <2>3, AppendProperties DEF InstallRegisters, RegisterHooks, Pushed, TypeOK
  <2>5. QED BY <1>3, <2>2, <2>4 DEF InstallRegisters, TypeOK, run, client
<1>4. ASSUME NEW u \in Uses, InstallReturns(u) PROVE TypeOK'
  <2>1. u \notin Removals /\ calls[u] # Idle
    BY <1>4, PluginAssumption, NamesOfCalls DEF InstallReturns
  <2>2. QED BY <1>4, <2>1, MovesType DEF InstallReturns, TypeOK, run, client
<1>5. ASSUME NEW u \in Uses, InstallThrows(u) PROVE TypeOK'
  <2>1. u \notin Removals /\ calls[u] # Idle /\ calls[u].name \in Names
    BY <1>5, PluginAssumption, NamesOfCalls DEF InstallThrows
  <2>2. hooks' \in Seq([plugin : Names, id : Nat]) /\ plugins' \subseteq Names
        /\ stable' \in [Runs -> BOOLEAN] /\ cutOff' \subseteq Names
    BY <1>5, <2>1, RemoveHooksType DEF InstallThrows, UnregisterPlugin, TypeOK
  <2>3. QED BY <1>5, <2>1, <2>2, MovesType DEF InstallThrows, TypeOK, client
<1>6. ASSUME NEW u \in Uses, NEW k \in Added \cup Late, InstallExtends(u, k) PROVE TypeOK'
  <2>1. calls[u].name \in Names BY <1>6, NamesOfCalls DEF InstallExtends
  <2>2. keys' \in [Added \cup Late -> {Absent, Core} \cup {Plugged(n) : n \in Names}]
    BY <1>6, <2>1 DEF InstallExtends, TypeOK
  <2>3. QED BY <1>6, <2>2 DEF InstallExtends, TypeOK, run
<1>7. ASSUME NEW u \in Removals, NEW name \in Names, RemovePlugin(u, name) PROVE TypeOK'
  <2>1. u \notin Uses BY PluginAssumption
  <2>2. /\ DOMAIN calls' = Uses \cup Removals
        /\ \A v \in Uses : calls'[v] \in Call(UsePoints)
        /\ \A v \in Removals : calls'[v] \in Call(RemovalPoints)
    BY <1>7, <2>1, CalledType DEF RemovePlugin
  <2>3. QED BY <1>7, <2>2 DEF RemovePlugin, TypeOK, run, client
<1>8. ASSUME NEW u \in Removals, UninstallRemoves(u) PROVE TypeOK'
  <2>1. hooks' \in Seq([plugin : Names, id : Nat]) /\ stable' \in [Runs -> BOOLEAN]
    BY <1>8, RemoveHooksType DEF UninstallRemoves, TypeOK
  <2>2. QED BY <1>8, <2>1 DEF UninstallRemoves, TypeOK, client
<1>9. ASSUME NEW u \in Removals, UninstallEnds(u) PROVE TypeOK'
  <2>1. u \notin Uses /\ calls[u] # Idle /\ calls[u].name \in Names
    BY <1>9, PluginAssumption, NamesOfCalls DEF UninstallEnds
  <2>2. hooks' \in Seq([plugin : Names, id : Nat]) /\ plugins' \subseteq Names
        /\ stable' \in [Runs -> BOOLEAN] /\ cutOff' \subseteq Names
    BY <1>9, <2>1, RemoveHooksType DEF UninstallEnds, UnregisterPlugin, TypeOK
  <2>3. QED BY <1>9, <2>1, <2>2, MovesType DEF UninstallEnds, TypeOK, client
<1>10. ASSUME NEW u \in Removals, NEW k \in Added \cup Late, UninstallRetracts(u, k)
       PROVE  TypeOK'
  BY <1>10 DEF UninstallRetracts, DropsName, TypeOK, run
<1>11. ASSUME NEW r \in Runs, Begin(r) PROVE TypeOK'
  <2>1. hooks \in Seq(Hook) BY DEF TypeOK, Hook
  <2>2. \A i \in DOMAIN hooks : hooks[i] \in Hook BY <2>1, ElementOfSeq, LenProperties
  <2>3. Ids(hooks) \subseteq Nat BY <2>2 DEF Ids, Hook
  <2>4. expects' \in [Runs -> SUBSET Nat] /\ stable' \in [Runs -> BOOLEAN]
    BY <1>11, <2>3 DEF Begin, TypeOK
  <2>5. QED BY <1>11, <2>4, ProceedsType DEF Begin, TypeOK, client
<1>12. ASSUME NEW r \in Runs, HookReturns(r) \/ HookThrows(r) PROVE TypeOK'
  BY <1>12, ProceedsType DEF HookReturns, HookThrows, AfterThrow, TypeOK, client
<1>13. ASSUME NEW r \in Runs, HookOverrides(r) PROVE TypeOK'
  BY <1>13 DEF HookOverrides, TypeOK, client
<1>14. CASE UNCHANGED vars
  BY <1>14 DEF vars, run, client, TypeOK
<1>15. QED
  BY <1>1, <1>2, <1>3, <1>4, <1>5, <1>6, <1>7, <1>8, <1>9, <1>10, <1>11, <1>12,
     <1>13, <1>14 DEF Next

\* The client's keys hold nothing, its own or what plugins have put there, and
\* calls of use() and removePlugin() are where their code can be.
THEOREM TypeCorrect == Spec => []TypeOK
BY InitType, NextType, PTL DEF Spec

(***************************************************************************)
(* Orphans.  A plugin being installed is in the map unless it was cut off. *)
(***************************************************************************)
Known == plugins \cup cutOff

OrphanInv ==
  /\ NoOrphans
  /\ \A u \in Uses : calls[u].at = "installing" => calls[u].name \in Known

\* Of the plugin whose hooks are removed, none is left.
LEMMA RemoveHooksEntries ==
  ASSUME TypeOK, NEW name
  PROVE  \A j \in DOMAIN RemoveHooks(name) : \E i \in DOMAIN hooks :
           RemoveHooks(name)[j] = hooks[i] /\ hooks[i].plugin # name
<1>1. hooks \in Seq(Hook) BY DEF TypeOK, Hook
<1>2. PICK was \in [1 .. Len(RemoveHooks(name)) -> Kept(name)] :
        \A j \in 1 .. Len(RemoveHooks(name)) : RemoveHooks(name)[j] = hooks[was[j]]
  BY <1>1, RemoveHooksKeepsOrder
<1>3. DOMAIN RemoveHooks(name) = 1 .. Len(RemoveHooks(name))
  BY <1>1, RemoveHooksKeepsOrder, LenProperties
<1>4. QED BY <1>2, <1>3 DEF Kept

\* A call begins.
LEMMA CalledOrphans ==
  ASSUME TypeOK, OrphanInv, NEW u \in Uses \cup Removals, NEW name \in Names, NEW where,
         Called(u, name, where), plugins \subseteq plugins', UNCHANGED <<hooks, cutOff>>,
         where = "installing" => name \in plugins'
  PROVE  OrphanInv'
<1>1. \A v \in Uses \cup Removals :
        calls'[v] = IF v = u THEN Busy(name, where) ELSE calls[v]
  BY DEF Called, TypeOK
<1>2. Busy(name, where).at = where /\ Busy(name, where).name = name BY DEF Busy
<1>3. NoOrphans' BY DEF OrphanInv, NoOrphans
<1>4. ASSUME NEW v \in Uses, calls'[v].at = "installing"
      PROVE  calls'[v].name \in Known'
  BY <1>1, <1>2, <1>4 DEF OrphanInv, Known
<1>5. QED BY <1>3, <1>4 DEF OrphanInv

\* A call ends and takes its plugin out of the map and the array: another
\* install() of it, if there is one, is cut off.
LEMMA EndsOrphans ==
  ASSUME TypeOK, OrphanInv, NEW u \in Uses \cup Removals,
         NEW where, where # "installing", calls[u] # Idle,
         Moves(u, where), UnregisterPlugin(calls[u].name)
  PROVE  OrphanInv'
<1> DEFINE name == calls[u].name
<1>1. /\ \A v \in Uses \cup Removals :
           calls'[v] = IF v = u THEN [calls[u] EXCEPT !.at = where] ELSE calls[v]
      /\ plugins' = plugins \ {name} /\ hooks' = RemoveHooks(name)
      /\ cutOff \subseteq cutOff'
      /\ \A v \in Uses : calls'[v].at = "installing" /\ calls'[v].name = name
           => name \in cutOff'
  BY DEF Moves, UnregisterPlugin, TypeOK
<1>2. calls'[u].at = where
  <2>1. "at" \in DOMAIN calls[u] BY DEF TypeOK, Call, Idle
  <2>2. QED BY <1>1, <2>1
<1>3. NoOrphans'
  <2>1. ASSUME NEW j \in DOMAIN hooks' PROVE hooks'[j].plugin \in plugins' \cup cutOff'
    <3>1. PICK i \in DOMAIN hooks : hooks'[j] = hooks[i] /\ hooks[i].plugin # name
      BY <1>1, <2>1, RemoveHooksEntries
    <3>2. QED BY <1>1, <3>1 DEF OrphanInv, NoOrphans
  <2>2. QED BY <2>1 DEF NoOrphans
<1>4. ASSUME NEW v \in Uses, calls'[v].at = "installing"
      PROVE  calls'[v].name \in Known'
  <2>1. v # u /\ calls'[v] = calls[v] BY <1>1, <1>2, <1>4
  <2>2. CASE calls[v].name = name
    BY <1>1, <1>4, <2>1, <2>2 DEF Known
  <2>3. CASE calls[v].name # name
    BY <1>1, <1>4, <2>1, <2>3 DEF OrphanInv, Known
  <2>4. QED BY <2>2, <2>3
<1>5. QED BY <1>3, <1>4 DEF OrphanInv

\* Steps that begin and end no call with a plugin to unregister.
LEMMA OrphansStay ==
  ASSUME TypeOK, OrphanInv, UNCHANGED <<plugins, cutOff>>,
         \A i \in DOMAIN hooks' : \/ \E j \in DOMAIN hooks : hooks'[i].plugin = hooks[j].plugin
                                 \/ hooks'[i].plugin \in Known,
         \A u \in Uses : calls'[u].at = "installing" => calls'[u] = calls[u]
  PROVE  OrphanInv'
<1>1. NoOrphans' BY DEF OrphanInv, NoOrphans, Known
<1>2. QED BY <1>1 DEF OrphanInv, Known

LEMMA NextOrphans ==
  ASSUME TypeOK, TypeOK', OrphanInv, [Next]_vars
  PROVE  OrphanInv'
<1>1. CASE UNCHANGED <<plugins, cutOff, hooks, calls>>
  BY <1>1, OrphansStay
<1>2. ASSUME NEW u \in Uses, NEW name \in Names, Use(u, name) PROVE OrphanInv'
  BY <1>2, CalledOrphans DEF Use
<1>3. ASSUME NEW u \in Removals, NEW name \in Names, RemovePlugin(u, name) PROVE OrphanInv'
  BY <1>3, CalledOrphans DEF RemovePlugin
<1>4. ASSUME NEW u \in Uses, InstallRegisters(u) PROVE OrphanInv'
  <2> DEFINE entry == [plugin |-> calls[u].name, id |-> registered']
  <2>1. hooks' = Append(hooks, entry) /\ UNCHANGED <<plugins, cutOff, calls>>
    BY <1>4 DEF InstallRegisters, RegisterHooks, Pushed
  <2>2. calls[u].name \in Known BY <1>4 DEF InstallRegisters, OrphanInv
  <2>3. DOMAIN hooks = 1 .. Len(hooks) /\ Len(hooks) \in Nat /\ hooks \in Seq(Hook)
    BY LenProperties DEF TypeOK, Hook
  <2>4. /\ Len(hooks') = Len(hooks) + 1 /\ DOMAIN hooks' = 1 .. Len(hooks')
        /\ \A i \in 1 .. Len(hooks) : hooks'[i] = hooks[i]
        /\ hooks'[Len(hooks) + 1] = entry
    BY <2>1, <2>3, AppendProperties, LenProperties DEF TypeOK
  <2>5. \A i \in DOMAIN hooks' :
          \/ \E j \in DOMAIN hooks : hooks'[i].plugin = hooks[j].plugin
          \/ hooks'[i].plugin \in Known
    <3>1. TAKE i \in DOMAIN hooks'
    <3>2. i \in DOMAIN hooks \/ i = Len(hooks) + 1 BY <2>3, <2>4
    <3>3. QED BY <2>2, <2>3, <2>4, <3>2
  <2>6. QED BY <2>1, <2>5, OrphansStay
<1>5. ASSUME NEW u \in Uses, InstallReturns(u) PROVE OrphanInv'
  <2>1. \A v \in Uses : calls'[v].at = "installing" => calls'[v] = calls[v]
    <3>1. "at" \in DOMAIN calls[u]
      <4>1. calls[u] \in Call(UsePoints) BY DEF TypeOK
      <4>2. QED BY <4>1 DEF Call, Idle
    <3>2. QED BY <1>5, <3>1 DEF InstallReturns, Moves, TypeOK
  <2>2. QED BY <1>5, <2>1, OrphansStay DEF InstallReturns
<1>6. ASSUME NEW u \in Uses, InstallThrows(u) PROVE OrphanInv'
  BY <1>6, EndsOrphans, NamesOfCalls DEF InstallThrows
<1>7. ASSUME NEW u \in Removals, UninstallEnds(u) PROVE OrphanInv'
  BY <1>7, EndsOrphans, NamesOfCalls DEF UninstallEnds
<1>8. ASSUME NEW u \in Removals, UninstallRemoves(u) PROVE OrphanInv'
  <2>1. hooks' = RemoveHooks(calls[u].name) /\ UNCHANGED <<plugins, cutOff, calls>>
    BY <1>8 DEF UninstallRemoves
  <2>2. QED BY <2>1, RemoveHooksEntries, OrphansStay
<1>9. CASE Build \/ \E r \in Runs : Begin(r) \/ HookReturns(r) \/ HookThrows(r) \/ HookOverrides(r)
  BY <1>1, <1>9 DEF Build, Begin, HookReturns, HookThrows, HookOverrides
<1>10. CASE \/ (\E u \in Uses, k \in Added \cup Late : InstallExtends(u, k))
            \/ (\E u \in Removals, k \in Added \cup Late : UninstallRetracts(u, k))
  BY <1>1, <1>10 DEF InstallExtends, UninstallRetracts
<1>11. CASE UNCHANGED vars
  BY <1>1, <1>11 DEF vars
<1>12. QED
  BY <1>2, <1>3, <1>4, <1>5, <1>6, <1>7, <1>8, <1>9, <1>10, <1>11 DEF Next

LEMMA OrphanInvariant == Spec => []OrphanInv
<1>1. Init => OrphanInv
  BY DEF Init, OrphanInv, NoOrphans, Idle
<1>2. TypeOK /\ TypeOK' /\ OrphanInv /\ [Next]_vars => OrphanInv'
  BY NextOrphans
<1>3. QED BY TypeCorrect, <1>1, <1>2, PTL DEF Spec

\* No hook outlives its plugin, also not one that install() registers just
\* before it throws, unless the plugin was unregistered while another install()
\* of it was being awaited.
THEOREM HooksHaveTheirPlugin == Spec => []NoOrphans
<1>1. OrphanInv => NoOrphans BY DEF OrphanInv
<1>2. QED BY OrphanInvariant, <1>1, PTL

(***************************************************************************)
(* Runs.  The ids of the array increase, and what a run's iterator has yet *)
(* to visit has greater ones than what it has called.  filter() moves      *)
(* entries forward only, so that an iterator may miss some but meets none  *)
(* again.                                                                  *)
(***************************************************************************)
Increases(s) == \A i, j \in 1 .. Len(s) : i < j => s[i] < s[j]

ArrayInOrder ==
  /\ \A i \in 1 .. Len(hooks) : hooks[i].id <= registered
  /\ \A i, j \in 1 .. Len(hooks) : i < j => hooks[i].id < hooks[j].id

RunInOrder(r) ==
  /\ at[r] = "idle" => next[r] = 1 /\ ran[r] = <<>>
  /\ Increases(ran[r])
  /\ \A i \in 1 .. Len(ran[r]) :
       /\ ran[r][i] <= registered
       /\ \A j \in 1 .. Len(hooks) : next[r] <= j => ran[r][i] < hooks[j].id

OrderInv == ArrayInOrder /\ \A r \in Runs : RunInOrder(r)

\* The array loses entries.
LEMMA RemovalKeepsOrder ==
  ASSUME TypeOK, OrderInv, NEW name, hooks' = RemoveHooks(name),
         UNCHANGED <<registered, at, next, ran>>
  PROVE  OrderInv'
<1>1. hooks \in Seq(Hook) BY DEF TypeOK, Hook
<1>2. PICK was \in [1 .. Len(hooks') -> Kept(name)] :
        /\ \A j \in 1 .. Len(hooks') : hooks'[j] = hooks[was[j]] /\ j <= was[j]
        /\ \A j, k \in 1 .. Len(hooks') : j < k => was[j] < was[k]
  BY <1>1, RemoveHooksKeepsOrder
<1>3. Kept(name) \subseteq 1 .. Len(hooks) /\ Len(hooks) \in Nat
  BY <1>1, LenProperties DEF Kept
<1>4. \A j \in 1 .. Len(hooks') : was[j] \in 1 .. Len(hooks) BY <1>2, <1>3
<1>5. ArrayInOrder' BY <1>2, <1>4 DEF OrderInv, ArrayInOrder
<1>6. ASSUME NEW r \in Runs, NEW i \in 1 .. Len(ran[r]), NEW j \in 1 .. Len(hooks'),
             next[r] <= j
      PROVE  ran[r][i] < hooks'[j].id
  <2>1. next[r] \in Nat /\ j \in Nat /\ was[j] \in Nat BY <1>3, <1>4 DEF TypeOK
  <2>2. next[r] <= was[j] BY <1>2, <1>6, <2>1
  <2>3. QED BY <1>2, <1>4, <2>2 DEF OrderInv, RunInOrder
<1>7. QED BY <1>5, <1>6 DEF OrderInv, RunInOrder, Increases

\* The array gets an entry.
LEMMA RegisteringKeepsOrder ==
  ASSUME TypeOK, OrderInv, NEW name \in Names, RegisterHooks(name),
         UNCHANGED <<at, next, ran>>
  PROVE  OrderInv'
<1> DEFINE N == Len(hooks)
           entry == [plugin |-> name, id |-> registered']
<1>1. /\ hooks \in Seq(Hook) /\ N \in Nat /\ registered \in Nat
      /\ registered' = registered + 1 /\ hooks' = Append(hooks, entry)
  BY LenProperties, PluginAssumption DEF TypeOK, Hook, RegisterHooks, Pushed
<1>2. \A i \in 1 .. N : hooks[i].id \in Nat
  <2>1. \A i \in 1 .. N : hooks[i] \in Hook BY <1>1, ElementOfSeq
  <2>2. QED BY <2>1 DEF Hook
<1>3. /\ Len(hooks') = N + 1 /\ hooks'[N + 1].id = registered + 1
      /\ \A i \in 1 .. N : hooks'[i] = hooks[i]
  BY <1>1, AppendProperties
<1> HIDE DEF N
<1>4. \A i \in 1 .. N + 1 : i \in 1 .. N \/ i = N + 1 BY <1>1
<1>5. \A i \in 1 .. N : hooks[i].id <= registered BY DEF OrderInv, ArrayInOrder, N
<1>6. ArrayInOrder'
  <2>1. \A i \in 1 .. N + 1 : hooks'[i].id <= registered + 1 BY <1>1, <1>2, <1>3, <1>4, <1>5
  <2>2. ASSUME NEW i \in 1 .. N + 1, NEW j \in 1 .. N + 1, i < j
        PROVE  hooks'[i].id < hooks'[j].id
    <3>1. i \in 1 .. N BY <1>1, <2>2
    <3>2. CASE j \in 1 .. N BY <1>3, <2>2, <3>1, <3>2 DEF OrderInv, ArrayInOrder, N
    <3>3. CASE j = N + 1 BY <1>1, <1>2, <1>3, <1>5, <3>1, <3>3
    <3>4. QED BY <1>4, <3>2, <3>3
  <2>3. QED BY <1>1, <1>3, <2>1, <2>2 DEF ArrayInOrder
<1>7. ASSUME NEW r \in Runs PROVE RunInOrder(r)'
  <2>1. ran[r] \in Seq(Nat) /\ \A i \in 1 .. Len(ran[r]) : ran[r][i] \in Nat
    BY ElementOfSeq DEF TypeOK
  <2>2. \A i \in 1 .. Len(ran[r]) : ran[r][i] <= registered
    BY DEF OrderInv, RunInOrder
  <2>3. ASSUME NEW i \in 1 .. Len(ran[r]), NEW j \in 1 .. N + 1, next[r] <= j
        PROVE  ran[r][i] < hooks'[j].id
    <3>1. CASE j \in 1 .. N BY <1>3, <2>3, <3>1 DEF OrderInv, RunInOrder, N
    <3>2. CASE j = N + 1 BY <1>1, <1>3, <2>1, <2>2, <3>2
    <3>3. QED BY <1>4, <3>1, <3>2
  <2>4. \A i \in 1 .. Len(ran[r]) : ran[r][i] <= registered + 1 BY <1>1, <2>1, <2>2
  <2>5. QED BY <1>1, <1>3, <2>3, <2>4 DEF OrderInv, RunInOrder, Increases
<1>8. QED BY <1>6, <1>7 DEF OrderInv

\* A run goes on.
LEMMA ProceedingKeepsOrder ==
  ASSUME TypeOK, OrderInv, NEW r \in Runs, Proceeds(r), UNCHANGED <<hooks, registered>>
  PROVE  OrderInv'
<1> DEFINE N == Len(ran[r])
           id == hooks[next[r]].id
<1>1. /\ ran[r] \in Seq(Nat) /\ N \in Nat /\ next[r] \in Nat \ {0}
      /\ \A i \in 1 .. N : ran[r][i] \in Nat
  BY LenProperties, ElementOfSeq DEF TypeOK
<1>2. hooks \in Seq(Hook) /\ Len(hooks) \in Nat BY LenProperties DEF TypeOK, Hook
<1>3. ASSUME NEW q \in Runs, q # r PROVE RunInOrder(q)'
  <2>1. at'[q] = at[q] /\ next'[q] = next[q] /\ ran'[q] = ran[q]
    BY <1>3 DEF Proceeds, TypeOK
  <2>2. QED BY <2>1 DEF OrderInv, RunInOrder, Increases
<1>4. CASE next[r] <= Len(hooks)
  <2>1. next[r] \in 1 .. Len(hooks) BY <1>1, <1>2, <1>4
  <2>2. hooks[next[r]] \in Hook BY <1>2, <2>1, ElementOfSeq
  <2>3. id \in Nat BY <2>2 DEF Hook
  <2>4. at'[r] = "hook" /\ next'[r] = next[r] + 1 /\ ran'[r] = Append(ran[r], id)
    BY <1>4 DEF Proceeds, TypeOK
  <2>5. /\ Len(ran'[r]) = N + 1 /\ ran'[r][N + 1] = id
        /\ \A i \in 1 .. N : ran'[r][i] = ran[r][i]
    BY <1>1, <2>3, <2>4, AppendProperties
  <2>6. /\ id <= registered
        /\ \A i \in 1 .. N : ran[r][i] < id /\ ran[r][i] <= registered
        /\ \A j \in 1 .. Len(hooks) : next[r] < j => id < hooks[j].id
    BY <1>1, <2>1 DEF OrderInv, ArrayInOrder, RunInOrder
  <2> HIDE DEF N, id
  <2>7. \A i \in 1 .. N + 1 : i \in 1 .. N \/ i = N + 1 BY <1>1
  <2>8. Increases(ran'[r])
    <3>1. ASSUME NEW i \in 1 .. N + 1, NEW j \in 1 .. N + 1, i < j
          PROVE  ran'[r][i] < ran'[r][j]
      <4>1. i \in 1 .. N BY <1>1, <3>1
      <4>2. CASE j \in 1 .. N
        BY <2>5, <3>1, <4>1, <4>2 DEF OrderInv, RunInOrder, Increases, N
      <4>3. CASE j = N + 1 BY <2>5, <2>6, <4>1, <4>3
      <4>4. QED BY <2>7, <4>2, <4>3
    <3>2. QED BY <2>5, <3>1 DEF Increases
  <2>9. ASSUME NEW i \in 1 .. N + 1
        PROVE  /\ ran'[r][i] <= registered
               /\ \A j \in 1 .. Len(hooks) : next[r] + 1 <= j => ran'[r][i] < hooks[j].id
    <3>1. CASE i = N + 1
      BY <1>1, <1>2, <2>5, <2>6, <3>1
    <3>2. CASE i \in 1 .. N
      <4>1. ran'[r][i] = ran[r][i] /\ ran[r][i] <= registered BY <2>5, <2>6, <3>2
      <4>2. \A j \in 1 .. Len(hooks) : next[r] + 1 <= j => next[r] <= j BY <1>1, <1>2
      <4>3. QED BY <3>2, <4>1, <4>2 DEF OrderInv, RunInOrder, N
    <3>3. QED BY <2>7, <3>1, <3>2
  <2>10. RunInOrder(r)' BY <2>4, <2>5, <2>8, <2>9 DEF RunInOrder, Increases
  <2>11. QED BY <1>3, <2>10 DEF OrderInv, ArrayInOrder
<1>5. CASE ~(next[r] <= Len(hooks))
  <2>1. at'[r] = "done" /\ next'[r] = next[r] /\ ran'[r] = ran[r]
    BY <1>5 DEF Proceeds, TypeOK
  <2>2. RunInOrder(r)' BY <2>1 DEF OrderInv, RunInOrder, Increases
  <2>3. QED BY <1>3, <2>2 DEF OrderInv, ArrayInOrder
<1>6. QED BY <1>4, <1>5

LEMMA NextOrder ==
  ASSUME TypeOK, OrderInv, [Next]_vars
  PROVE  OrderInv'
<1>1. CASE UNCHANGED <<hooks, registered, at, next, ran>>
  BY <1>1 DEF OrderInv, ArrayInOrder, RunInOrder, Increases
<1>2. ASSUME NEW u \in Uses, InstallRegisters(u) PROVE OrderInv'
  <2>1. calls[u].name \in Names BY <1>2, NamesOfCalls DEF InstallRegisters
  <2>2. QED BY <1>2, <2>1, RegisteringKeepsOrder DEF InstallRegisters, run
<1>3. ASSUME NEW u \in Uses \cup Removals, InstallThrows(u) \/ UninstallRemoves(u) \/ UninstallEnds(u)
      PROVE  OrderInv'
  BY <1>3, RemovalKeepsOrder DEF InstallThrows, UninstallRemoves, UninstallEnds, UnregisterPlugin
<1>4. ASSUME NEW r \in Runs, Begin(r) \/ HookReturns(r) \/ HookThrows(r) PROVE OrderInv'
  BY <1>4, ProceedingKeepsOrder DEF Begin, HookReturns, HookThrows, AfterThrow
<1>5. ASSUME NEW r \in Runs, HookOverrides(r) PROVE OrderInv'
  BY <1>5 DEF HookOverrides, OrderInv, ArrayInOrder, RunInOrder, Increases, TypeOK
<1>6. ASSUME NEW u \in Uses, \/ \E name \in Names : Use(u, name)
                             \/ InstallReturns(u)
                             \/ \E k \in Added \cup Late : InstallExtends(u, k)
      PROVE  OrderInv'
  BY <1>1, <1>6 DEF Use, InstallReturns, InstallExtends, run
<1>7. ASSUME NEW u \in Removals, \/ \E name \in Names : RemovePlugin(u, name)
                                 \/ \E k \in Added \cup Late : UninstallRetracts(u, k)
      PROVE  OrderInv'
  BY <1>1, <1>7 DEF RemovePlugin, UninstallRetracts, run
<1>8. CASE Build \/ UNCHANGED vars
  BY <1>1, <1>8 DEF Build, vars, run
<1>9. QED
  BY <1>2, <1>3, <1>4, <1>5, <1>6, <1>7, <1>8 DEF Next

LEMMA OrderInvariant == Spec => []OrderInv
<1>1. Init => OrderInv
  BY EmptySeq DEF Init, OrderInv, ArrayInOrder, RunInOrder, Increases
<1>2. TypeOK /\ OrderInv /\ [Next]_vars => OrderInv' BY NextOrder
<1>3. QED BY TypeCorrect, <1>1, <1>2, PTL DEF Spec

\* A run calls hooks in the order of their registration and none of them
\* twice, whatever is spliced under its iterator.
THEOREM RunsKeepTheOrder == Spec => []HooksRunInOrder
<1>1. TypeOK /\ OrderInv => HooksRunInOrder
  <2> SUFFICES ASSUME TypeOK, OrderInv PROVE HooksRunInOrder
    OBVIOUS
  <2>1. \A r \in Runs : DOMAIN ran[r] = 1 .. Len(ran[r])
    BY LenProperties DEF TypeOK
  <2>2. QED BY <2>1 DEF OrderInv, RunInOrder, Increases, HooksRunInOrder
<1>2. QED BY TypeCorrect, OrderInvariant, <1>1, PTL

(***************************************************************************)
(* Completeness.  As long as nothing is spliced out of the array, a hook   *)
(* that was there at the beginning has been called or lies ahead.          *)
(***************************************************************************)
HasCalled(r, id) == \E i \in 1 .. Len(ran[r]) : ran[r][i] = id
LiesAhead(r, id) == \E i \in 1 .. Len(hooks) : next[r] <= i /\ hooks[i].id = id

CompleteInv ==
  \A r \in Runs :
    /\ at[r] = "idle" => expects[r] = {}
    /\ stable[r] /\ at[r] # "overridden" =>
         \A id \in expects[r] : HasCalled(r, id) \/ (at[r] = "hook" /\ LiesAhead(r, id))

LEMMA ProceedingMisses ==
  ASSUME TypeOK, NEW r \in Runs, Proceeds(r), UNCHANGED hooks,
         NEW id, HasCalled(r, id) \/ LiesAhead(r, id)
  PROVE  HasCalled(r, id)' \/ (at'[r] = "hook" /\ LiesAhead(r, id)')
<1> DEFINE N == Len(ran[r])
<1>1. /\ ran[r] \in Seq(Nat) /\ N \in Nat /\ next[r] \in Nat \ {0}
      /\ hooks \in Seq(Hook) /\ Len(hooks) \in Nat
  BY LenProperties DEF TypeOK, Hook
<1>2. CASE next[r] <= Len(hooks)
  <2>1. next[r] \in 1 .. Len(hooks) BY <1>1, <1>2
  <2>2. hooks[next[r]] \in Hook BY <1>1, <2>1, ElementOfSeq
  <2>3. hooks[next[r]].id \in Nat BY <2>2 DEF Hook
  <2>4. /\ at'[r] = "hook" /\ next'[r] = next[r] + 1
        /\ ran'[r] = Append(ran[r], hooks[next[r]].id)
    BY <1>2 DEF Proceeds, TypeOK
  <2>5. /\ Len(ran'[r]) = N + 1 /\ ran'[r][N + 1] = hooks[next[r]].id
        /\ \A i \in 1 .. N : ran'[r][i] = ran[r][i]
    BY <1>1, <2>3, <2>4, AppendProperties
  <2>6. CASE HasCalled(r, id)
    <3>1. PICK i \in 1 .. N : ran[r][i] = id BY <2>6 DEF HasCalled
    <3>2. i \in 1 .. Len(ran'[r]) /\ ran'[r][i] = id BY <1>1, <2>5, <3>1
    <3>3. QED BY <3>2 DEF HasCalled
  <2>7. CASE LiesAhead(r, id)
    <3>1. PICK i \in 1 .. Len(hooks) : next[r] <= i /\ hooks[i].id = id
      BY <2>7 DEF LiesAhead
    <3>2. CASE i = next[r]
      <4>1. N + 1 \in 1 .. Len(ran'[r]) BY <1>1, <2>5
      <4>2. QED BY <2>5, <3>1, <3>2, <4>1 DEF HasCalled
    <3>3. CASE next[r] + 1 <= i
      BY <2>4, <3>1, <3>3 DEF LiesAhead
    <3>4. i = next[r] \/ next[r] + 1 <= i BY <1>1, <3>1
    <3>5. QED BY <3>2, <3>3, <3>4
  <2>8. QED BY <2>6, <2>7
<1>3. CASE ~(next[r] <= Len(hooks))
  <2>1. UNCHANGED ran BY <1>3 DEF Proceeds
  <2>2. ~LiesAhead(r, id) BY <1>1, <1>3 DEF LiesAhead
  <2>3. QED BY <2>1, <2>2 DEF HasCalled
<1>4. QED BY <1>2, <1>3

LEMMA NextComplete ==
  ASSUME TypeOK, OrderInv, CompleteInv, [Next]_vars
  PROVE  CompleteInv'
<1>1. CASE UNCHANGED <<hooks, run>>
  BY <1>1 DEF CompleteInv, HasCalled, LiesAhead, run
<1>2. ASSUME NEW u \in Uses, InstallRegisters(u) PROVE CompleteInv'
  <2>1. calls[u].name \in Names BY <1>2, NamesOfCalls DEF InstallRegisters
  <2>2. hooks \in Seq(Hook) /\ Len(hooks) \in Nat /\ registered \in Nat
    BY LenProperties, PluginAssumption DEF TypeOK, Hook
  <2>3. Len(hooks') = Len(hooks) + 1 /\ \A i \in 1 .. Len(hooks) : hooks'[i] = hooks[i]
    BY <1>2, <2>2, AppendProperties DEF InstallRegisters, RegisterHooks, Pushed
  <2>4. UNCHANGED run BY <1>2 DEF InstallRegisters
  <2>5. ASSUME NEW r \in Runs, NEW id
        PROVE  /\ LiesAhead(r, id) => LiesAhead(r, id)'
               /\ HasCalled(r, id) => HasCalled(r, id)'
    BY <2>2, <2>3, <2>4 DEF run, LiesAhead, HasCalled
  <2>6. UNCHANGED <<at, expects, stable>> BY <2>4 DEF run
  <2>7. ASSUME NEW r \in Runs, stable[r], at[r] # "overridden", NEW id \in expects[r]
        PROVE  HasCalled(r, id)' \/ (at[r] = "hook" /\ LiesAhead(r, id)')
    <3>1. HasCalled(r, id) \/ (at[r] = "hook" /\ LiesAhead(r, id)) BY <2>7 DEF CompleteInv
    <3>2. QED BY <2>5, <3>1
  <2>8. QED BY <2>6, <2>7 DEF CompleteInv
<1>3. ASSUME NEW u \in Uses \cup Removals, InstallThrows(u) \/ UninstallRemoves(u) \/ UninstallEnds(u)
      PROVE  CompleteInv'
  <2>1. /\ stable' = [r \in Runs |-> stable[r] /\ hooks' = hooks]
        /\ UNCHANGED <<at, next, ran, expects>>
    BY <1>3 DEF InstallThrows, UninstallRemoves, UninstallEnds, UnregisterPlugin
  <2>2. CASE hooks' = hooks
    <3>1. \A r \in Runs : stable'[r] => stable[r] BY <2>1
    <3>2. QED BY <2>1, <2>2, <3>1 DEF CompleteInv, HasCalled, LiesAhead
  <2>3. CASE hooks' # hooks
    <3>1. \A r \in Runs : ~stable'[r] BY <2>1, <2>3
    <3>2. QED BY <2>1, <3>1 DEF CompleteInv
  <2>4. QED BY <2>2, <2>3
<1>4. ASSUME NEW r \in Runs, Proceeds(r), UNCHANGED hooks,
             \A q \in Runs : q # r => expects'[q] = expects[q] /\ stable'[q] = stable[q],
             stable'[r] => \A id \in expects'[r] : HasCalled(r, id) \/ LiesAhead(r, id)
      PROVE  CompleteInv'
  <2>1. ASSUME NEW q \in Runs, q # r
        PROVE  at'[q] = at[q] /\ next'[q] = next[q] /\ ran'[q] = ran[q]
    BY <1>4, <2>1 DEF Proceeds, TypeOK
  <2>2. ASSUME NEW q \in Runs, q # r, NEW id
        PROVE  /\ HasCalled(q, id)' <=> HasCalled(q, id)
               /\ LiesAhead(q, id)' <=> LiesAhead(q, id)
    BY <2>2, <1>4, <2>1 DEF HasCalled, LiesAhead
  <2>3. at'[r] # "idle" BY <1>4 DEF Proceeds, TypeOK
  <2>4. \A id : HasCalled(r, id) \/ LiesAhead(r, id)
                 => HasCalled(r, id)' \/ (at'[r] = "hook" /\ LiesAhead(r, id)')
    BY <1>4, ProceedingMisses
  <2>5. ASSUME NEW q \in Runs
        PROVE  /\ at'[q] = "idle" => expects'[q] = {}
               /\ stable'[q] /\ at'[q] # "overridden" =>
                    \A id \in expects'[q] :
                      HasCalled(q, id)' \/ (at'[q] = "hook" /\ LiesAhead(q, id)')
    <3>1. CASE q = r BY <1>4, <2>3, <2>4, <3>1
    <3>2. CASE q # r
      <4>1. /\ at[q] = "idle" => expects[q] = {}
            /\ stable[q] /\ at[q] # "overridden" =>
                 \A id \in expects[q] :
                   HasCalled(q, id) \/ (at[q] = "hook" /\ LiesAhead(q, id))
        BY DEF CompleteInv
      <4>2. QED BY <1>4, <2>1, <2>2, <3>2, <4>1
    <3>3. QED BY <3>1, <3>2
  <2>6. QED BY <2>5 DEF CompleteInv
<1>5. ASSUME NEW r \in Runs, Begin(r) PROVE CompleteInv'
  <2>1. next[r] = 1 /\ DOMAIN hooks = 1 .. Len(hooks)
    BY <1>5, LenProperties DEF Begin, OrderInv, RunInOrder, TypeOK
  <2>2. expects'[r] = Ids(hooks) BY <1>5 DEF Begin, TypeOK
  <2>3. \A id \in expects'[r] : LiesAhead(r, id) BY <2>1, <2>2 DEF Ids, LiesAhead
  <2>4. \A q \in Runs : q # r => expects'[q] = expects[q] /\ stable'[q] = stable[q]
    BY <1>5 DEF Begin, TypeOK
  <2>5. QED BY <1>4, <1>5, <2>3, <2>4 DEF Begin
<1>6. ASSUME NEW r \in Runs, HookReturns(r) \/ HookThrows(r) PROVE CompleteInv'
  <2>1. at[r] = "hook" /\ Proceeds(r) /\ UNCHANGED <<hooks, expects, stable>>
    BY <1>6 DEF HookReturns, HookThrows, AfterThrow
  <2>2. stable[r] => \A id \in expects[r] : HasCalled(r, id) \/ LiesAhead(r, id)
    BY <2>1 DEF CompleteInv
  <2>3. QED BY <1>4, <2>1, <2>2
<1>7. ASSUME NEW r \in Runs, HookOverrides(r) PROVE CompleteInv'
  <2>1. /\ UNCHANGED <<hooks, next, ran, expects, stable>>
        /\ \A q \in Runs : at'[q] = IF q = r THEN "overridden" ELSE at[q]
    BY <1>7 DEF HookOverrides, TypeOK
  <2>2. QED BY <2>1 DEF CompleteInv, HasCalled, LiesAhead
<1>8. ASSUME NEW u \in Uses, \/ \E name \in Names : Use(u, name)
                             \/ InstallReturns(u)
                             \/ \E k \in Added \cup Late : InstallExtends(u, k)
      PROVE  CompleteInv'
  BY <1>1, <1>8 DEF Use, InstallReturns, InstallExtends
<1>9. ASSUME NEW u \in Removals, \/ \E name \in Names : RemovePlugin(u, name)
                                 \/ \E k \in Added \cup Late : UninstallRetracts(u, k)
      PROVE  CompleteInv'
  BY <1>1, <1>9 DEF RemovePlugin, UninstallRetracts
<1>10. CASE Build \/ UNCHANGED vars
  BY <1>1, <1>10 DEF Build, vars
<1>11. QED
  BY <1>2, <1>3, <1>5, <1>6, <1>7, <1>8, <1>9, <1>10 DEF Next

\* Unless a plugin is removed under it or a hook overrides it, a run calls all
\* hooks that it found, although new ones join the array while it is awaiting.
THEOREM RunsAreComplete == Spec => []UndisturbedRunsAreComplete
<1>1. Init => CompleteInv BY DEF Init, CompleteInv
<1>2. TypeOK /\ OrderInv /\ CompleteInv /\ [Next]_vars => CompleteInv'
  BY NextComplete
<1>3. TypeOK /\ CompleteInv => UndisturbedRunsAreComplete
  <2> SUFFICES ASSUME TypeOK, CompleteInv PROVE UndisturbedRunsAreComplete
    OBVIOUS
  <2>1. \A r \in Runs : DOMAIN ran[r] = 1 .. Len(ran[r])
    BY LenProperties DEF TypeOK
  <2>2. QED BY <2>1 DEF CompleteInv, HasCalled, UndisturbedRunsAreComplete
<1>4. QED BY TypeCorrect, OrderInvariant, <1>1, <1>2, <1>3, PTL DEF Spec

=============================================================================
