------------------------------- MODULE Plugins -------------------------------
(***************************************************************************)
(* src/plugins.ts, and use() and removePlugin() of src/zoho-crm.ts and     *)
(* src/entry/base-client.ts: plugins are installed and removed by async    *)
(* functions of their own while runs of the hooks, one hook awaited after  *)
(* the other, go over the very array that is being changed.                *)
(*                                                                         *)
(* The four arrays of hooks are alike and independent; `hooks' is any one  *)
(* of them.  A hook goes by the number of its registration.                *)
(*                                                                         *)
(* Plugins also put modules and methods on the client.  The small clients  *)
(* of src/entry install the plugins of their configuration inside super(), *)
(* before they have set keys of their own.                                 *)
(***************************************************************************)
EXTENDS Naturals, Sequences, FiniteSets

CONSTANTS Names,     \* names of plugins
          Uses,      \* calls of use()
          Removals,  \* calls of removePlugin()
          Runs,      \* calls of runBeforeRequest(), runAfterResponse(), ...
          Added,     \* names of modules and methods that plugins register
          Late,      \* keys that a client of src/entry sets after super()
          MaxHooks   \* bound: registrations

ASSUME PluginAssumption ==
  /\ Uses \cap Removals = {}
  /\ Added \cap Late = {}
  /\ MaxHooks \in Nat

VARIABLES plugins,   \* names in the map of plugins
          hooks,     \* [plugin, id], as in the array
          registered,\* registrations so far
          calls,     \* per use() and removePlugin(): [at, name]
          cutOff,    \* history: plugins unregistered while another use()
                     \* of theirs awaited install()
          built,     \* the constructor has returned
          keys,      \* what each of these keys of the client holds
          extensions,\* its set of that name
          at, next, ran, expects, stable
                     \* per run: where it is, the iterator's next index, the
                     \* hooks it has called; history: the hooks it found when
                     \* it began, whether the array has only grown since

run == <<at, next, ran, expects, stable>>
client == <<built, keys, extensions>>
vars == <<plugins, hooks, registered, calls, cutOff, client, run>>

Idle == [at |-> "idle"]
Busy(name, where) == [at |-> where, name |-> name]
UsePoints == {"installing", "installed", "failed", "skipped"}
RemovalPoints == {"uninstalling", "removed", "absent"}

Ids(s) == {s[i].id : i \in DOMAIN s}

Absent == [is |-> "absent"]
Core == [is |-> "core"]
Plugged(name) == [is |-> "extension", of |-> name]

Init ==
  /\ plugins = {} /\ hooks = <<>> /\ registered = 0
  /\ calls = [u \in Uses \cup Removals |-> Idle]
  /\ cutOff = {}
  /\ built = FALSE
  /\ keys = [k \in Added \cup Late |-> Absent]
  /\ extensions = {}
  /\ at = [r \in Runs |-> "idle"]
  /\ next = [r \in Runs |-> 1]
  /\ ran = [r \in Runs |-> <<>>]
  /\ expects = [r \in Runs |-> {}]
  /\ stable = [r \in Runs |-> TRUE]

\* use() or removePlugin() is called, whether or not earlier calls were awaited.
Called(u, name, where) ==
  /\ calls[u] = Idle
  /\ calls' = [calls EXCEPT ![u] = Busy(name, where)]

Moves(u, where) == calls' = [calls EXCEPT ![u].at = where]

-----------------------------------------------------------------------------
(* PluginManager's arrays.                                                 *)

HooksStay(name) == hooks                         \* mutant: arrays left alone
Kept(name) == {i \in DOMAIN hooks : hooks[i].plugin # name}
\* filter(): its j-th entry is the j-th of those kept.
RemoveHooks(name) ==
  [j \in 1 .. Cardinality(Kept(name)) |->
     hooks[CHOOSE i \in Kept(name) : Cardinality(Kept(name) \cap 1 .. i) = j]]

UnregisterPlugin(name) ==
  /\ plugins' = plugins \ {name}
  /\ hooks' = RemoveHooks(name)
  /\ stable' = [r \in Runs |-> stable[r] /\ hooks' = hooks]
  /\ cutOff' = cutOff \cup {n \in {name} : \E v \in Uses :
                              calls'[v].at = "installing" /\ calls'[v].name = n}

Unshifted(entry) == <<entry>> \o hooks           \* mutant: unshift for push
Pushed(entry) == Append(hooks, entry)

\* registerHooks() does not ask whether the plugin is still registered.
RegisterHooks(name) ==
  /\ registered < MaxHooks
  /\ registered' = registered + 1
  /\ hooks' = Pushed([plugin |-> name, id |-> registered'])

-----------------------------------------------------------------------------
(* use() and removePlugin().                                               *)

\* use() up to the first await of plugin.install().
Use(u, name) ==
  /\ \/ name \in plugins /\ Called(u, name, "skipped")
     \/ name \notin plugins /\ Called(u, name, "installing")
  /\ plugins' = plugins \cup {name}
  /\ UNCHANGED <<hooks, registered, cutOff, client, run>>

\* install() registers hooks, before or after any of its own awaits.
InstallRegisters(u) ==
  /\ calls[u].at = "installing"
  /\ RegisterHooks(calls[u].name)
  /\ UNCHANGED <<plugins, calls, cutOff, client, run>>

InstallReturns(u) ==
  /\ built
  /\ calls[u].at = "installing"
  /\ Moves(u, "installed")
  /\ UNCHANGED <<plugins, hooks, registered, cutOff, client, run>>

\* Hooks go with the plugin, modules and methods stay.
InstallThrows(u) ==
  /\ calls[u].at = "installing"
  /\ Moves(u, "failed")
  /\ UnregisterPlugin(calls[u].name)
  /\ UNCHANGED <<registered, client, at, next, ran, expects>>

\* removePlugin() up to the first await of plugin.uninstall().
RemovePlugin(u, name) ==
  /\ built
  /\ \/ name \in plugins /\ Called(u, name, "uninstalling")
     \/ name \notin plugins /\ Called(u, name, "absent")
  /\ UNCHANGED <<plugins, hooks, registered, cutOff, client, run>>

\* uninstall() removes its plugin's hooks, or leaves that to the manager.
UninstallRemoves(u) ==
  /\ calls[u].at = "uninstalling"
  /\ hooks' = RemoveHooks(calls[u].name)
  /\ stable' = [r \in Runs |-> stable[r] /\ hooks' = hooks]
  /\ UNCHANGED <<plugins, registered, calls, cutOff, client, at, next,
                 ran, expects>>

\* uninstall() has returned or thrown, or there is none, whatever of the
\* plugin's modules and methods it has taken back.
UninstallEnds(u) ==
  /\ calls[u].at = "uninstalling"
  /\ Moves(u, "removed")
  /\ UnregisterPlugin(calls[u].name)
  /\ UNCHANGED <<registered, client, at, next, ran, expects>>

-----------------------------------------------------------------------------
(* The keys of the client.                                                 *)

\* The constructor goes on behind super(): it sets whatever is there by now.
Build ==
  /\ ~built /\ built' = TRUE
  /\ keys' = [k \in DOMAIN keys |-> IF k \in Late THEN Core ELSE keys[k]]
  /\ UNCHANGED <<plugins, hooks, registered, calls, cutOff, extensions,
                 run>>

NothingReserved(k) == FALSE                      \* mutant: a name not listed
IsReservedExtension(k) == k \in Late

\* registerModule() or registerMethod(), which throw if a name is reserved or
\* in use.
InstallExtends(u, k) ==
  /\ calls[u].at = "installing"
  /\ ~IsReservedExtension(k) /\ keys[k] = Absent
  /\ keys' = [keys EXCEPT ![k] = Plugged(calls[u].name)]
  /\ extensions' = extensions \cup {k}
  /\ UNCHANGED <<plugins, hooks, registered, calls, cutOff, built, run>>

DropsName(k) == extensions \ {k}

\* unregisterExtension(), with a name the plugin knows.
UninstallRetracts(u, k) ==
  /\ calls[u].at = "uninstalling"
  /\ k \in extensions
  /\ keys' = [keys EXCEPT ![k] = Absent]
  /\ extensions' = DropsName(k)
  /\ UNCHANGED <<plugins, hooks, registered, calls, cutOff, built, run>>

-----------------------------------------------------------------------------
(* The runs.                                                               *)

\* One step of `for (const entry of array)': the iterator asks for the length
\* and the entry as they are now.
Proceeds(r) ==
  IF next[r] <= Len(hooks)
  THEN /\ at' = [at EXCEPT ![r] = "hook"]
       /\ next' = [next EXCEPT ![r] = @ + 1]
       /\ ran' = [ran EXCEPT ![r] = Append(@, hooks[next[r]].id)]
  ELSE /\ at' = [at EXCEPT ![r] = "done"]
       /\ UNCHANGED <<next, ran>>

Begin(r) ==
  /\ built
  /\ at[r] = "idle"
  /\ expects' = [expects EXCEPT ![r] = Ids(hooks)]
  /\ stable' = [stable EXCEPT ![r] = TRUE]
  /\ Proceeds(r)
  /\ UNCHANGED <<plugins, hooks, registered, calls, cutOff, client>>

HookReturns(r) ==
  /\ at[r] = "hook"
  /\ Proceeds(r)
  /\ UNCHANGED <<plugins, hooks, registered, calls, cutOff, client,
                 expects, stable>>

RunEnds(r) ==                                    \* mutant: error not caught
  at' = [at EXCEPT ![r] = "done"] /\ UNCHANGED <<next, ran>>
\* What a hook throws is logged.
AfterThrow(r) == Proceeds(r)

HookThrows(r) ==
  /\ at[r] = "hook"
  /\ AfterThrow(r)
  /\ UNCHANGED <<plugins, hooks, registered, calls, cutOff, client,
                 expects, stable>>

\* A beforeRequest hook returns a response: the first one wins.
HookOverrides(r) ==
  /\ at[r] = "hook"
  /\ at' = [at EXCEPT ![r] = "overridden"]
  /\ UNCHANGED <<plugins, hooks, registered, calls, cutOff, client, next,
                 ran, expects, stable>>

Next == \/ Build
        \/ \E u \in Uses : \/ \E name \in Names : Use(u, name)
                           \/ InstallRegisters(u) \/ InstallReturns(u) \/ InstallThrows(u)
                           \/ \E k \in Added \cup Late : InstallExtends(u, k)
        \/ \E u \in Removals : \/ \E name \in Names : RemovePlugin(u, name)
                               \/ UninstallRemoves(u) \/ UninstallEnds(u)
                               \/ \E k \in Added \cup Late : UninstallRetracts(u, k)
        \/ \E r \in Runs : \/ Begin(r) \/ HookReturns(r) \/ HookThrows(r)
                           \/ HookOverrides(r)

Spec == Init /\ [][Next]_vars

-----------------------------------------------------------------------------
(* Properties.                                                             *)

Call(points) == {Idle} \cup [at : points, name : Names]
TypeOK ==
  /\ plugins \subseteq Names
  /\ hooks \in Seq([plugin : Names, id : Nat])
  /\ registered \in 0 .. MaxHooks
  /\ DOMAIN calls = Uses \cup Removals
  /\ \A u \in Uses : calls[u] \in Call(UsePoints)
  /\ \A u \in Removals : calls[u] \in Call(RemovalPoints)
  /\ cutOff \subseteq Names
  /\ built \in BOOLEAN
  /\ keys \in [Added \cup Late -> {Absent, Core} \cup {Plugged(n) : n \in Names}]
  /\ extensions \subseteq Added \cup Late
  /\ at \in [Runs -> {"idle", "hook", "done", "overridden"}]
  /\ next \in [Runs -> Nat \ {0}]
  /\ ran \in [Runs -> Seq(Nat)]
  /\ expects \in [Runs -> SUBSET Nat]
  /\ stable \in [Runs -> BOOLEAN]

\* A run calls hooks in the order they were registered and none twice, also
\* while plugins come and go under its iterator.
HooksRunInOrder ==
  \A r \in Runs : \A i, j \in DOMAIN ran[r] : i < j => ran[r][i] < ran[r][j]

\* A run that no override has ended and under which no plugin was removed has
\* called every hook there was when it began, whichever of them threw.
UndisturbedRunsAreComplete ==
  \A r \in Runs : at[r] = "done" /\ stable[r] =>
    \A id \in expects[r] : \E i \in DOMAIN ran[r] : ran[r][i] = id

\* No hook is left of a plugin that is not installed, whichever use() and
\* removePlugin() overlap, unless the plugin was unregistered, by removePlugin()
\* or a failed install(), while another install() of it was being awaited.
NoOrphans ==
  \A i \in DOMAIN hooks : hooks[i].plugin \in plugins \cup cutOff

\* What can be unregistered is what plugins have put there, and all of that:
\* no key of the SDK is ever replaced or removed, also not one that was set
\* after the plugins of the configuration had been installed.
CoreStays ==
  /\ \A k \in DOMAIN keys : k \in extensions <=> keys[k].is = "extension"
  /\ built => \A k \in Late : keys[k] = Core
=============================================================================
