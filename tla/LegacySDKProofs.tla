--------------------------- MODULE LegacySDKProofs ---------------------------
(* Proofs about LegacySDK, for every value of its constants. *)
EXTENDS LegacySDK, TLAPS

(***************************************************************************)
(* Type correctness.  A call that has begun knows its user, and one that   *)
(* refreshes has the refresh token in hand.                                *)
(***************************************************************************)
TableRow == [user : Users, access : Users, refresh : Users, fresh : BOOLEAN]
Refreshes == {"refreshing", "updating", "update"}

TypeInv ==
  /\ TypeOK
  /\ \A c \in Calls : /\ phase[c] # "idle" => for[c] \in Users
                      /\ phase[c] \in Refreshes => holds[c] \in Users

LEMMA InitType == Init => TypeInv
<1> SUFFICES ASSUME Init PROVE TypeInv
  OBVIOUS
<1>1. DOMAIN rows \subseteq Grants \cup {Earlier} /\ rows \in [DOMAIN rows -> TableRow]
  BY LegacyAssumption DEF Init, Row, TableRow
<1>2. /\ phase \in [Calls -> Phases] /\ for \in [Calls -> Users \cup {NoUser}]
      /\ whose \in [Calls -> Users \cup {NoUser}] /\ holds \in [Calls -> Users \cup {NoUser}]
      /\ \A c \in Calls : phase[c] = "idle"
  BY DEF Init, Phases
<1>3. user \in Users /\ switches \in 0 .. MaxSwitches BY LegacyAssumption DEF Init
<1>4. QED BY <1>1, <1>2, <1>3 DEF Init, TypeInv, TypeOK, TableRow, Refreshes

\* setUserIdentifier() and both forms of initialize().
SettingStep ==
  \/ \E u \in Users : SetUserIdentifier(u) \/ Initialize(u)
  \/ InitializeFromFiles

LEMMA SettingType ==
  ASSUME TypeInv, SettingStep
  PROVE  TypeInv'
<1>1. user' \in Users /\ calm' \in BOOLEAN
  <2>1. files \in Users \cup {NoUser} /\ user \in Users /\ calm \in BOOLEAN
    BY DEF TypeInv, TypeOK
  <2>2. QED
    BY <2>1 DEF SettingStep, SetUserIdentifier, Initialize, InitializeFromFiles, SwitchTo
<1>2. switches' \in 0 .. MaxSwitches
  BY LegacyAssumption DEF SettingStep, SetUserIdentifier, Initialize, InitializeFromFiles,
     Switches, TypeInv, TypeOK
<1>3. configured' \in BOOLEAN /\ UNCHANGED <<files, rows, calls, orderly>>
  BY DEF SettingStep, SetUserIdentifier, Initialize, InitializeFromFiles, TypeInv, TypeOK
<1>4. QED BY <1>1, <1>2, <1>3 DEF TypeInv, TypeOK, calls

\* A call goes on, and leaves the table and the settings alone.
LEMMA CallType ==
  ASSUME TypeInv, NEW c \in Calls, NEW where \in Phases, Goes(c, where),
         UNCHANGED <<globals, rows, calm>>, orderly' \in BOOLEAN,
         for' = for \/ (\E u \in Users : for' = [for EXCEPT ![c] = u]),
         whose' = whose \/ (\E u \in Users \cup {NoUser} : whose' = [whose EXCEPT ![c] = u]),
         holds' = holds \/ (\E u \in Users \cup {NoUser} : holds' = [holds EXCEPT ![c] = u]),
         where # "idle" => for'[c] \in Users,
         where \in Refreshes => holds'[c] \in Users
  PROVE  TypeInv'
<1>1. /\ phase' \in [Calls -> Phases] /\ for' \in [Calls -> Users \cup {NoUser}]
      /\ whose' \in [Calls -> Users \cup {NoUser}] /\ holds' \in [Calls -> Users \cup {NoUser}]
      /\ phase'[c] = where
      /\ \A d \in Calls : d # c => phase'[d] = phase[d] /\ for'[d] = for[d] /\ holds'[d] = holds[d]
  BY DEF Goes, TypeInv, TypeOK
<1>2. \A d \in Calls : /\ phase'[d] # "idle" => for'[d] \in Users
                      /\ phase'[d] \in Refreshes => holds'[d] \in Users
  BY <1>1 DEF TypeInv
<1>3. QED BY <1>1, <1>2 DEF TypeInv, TypeOK, globals

LEMMA NextType == TypeInv /\ [Next]_vars => TypeInv'
<1> SUFFICES ASSUME TypeInv, [Next]_vars PROVE TypeInv'
  OBVIOUS
<1>0. /\ user \in Users /\ orderly \in BOOLEAN
      /\ \A i \in DOMAIN rows : rows[i] \in TableRow
      /\ \A c \in Calls : phase[c] # "idle" => for[c] \in Users
      /\ \A c \in Calls : phase[c] \in Refreshes => holds[c] \in Users
  BY DEF TypeInv, TypeOK, TableRow
<1> USE DEF Phases, Refreshes
<1>1. CASE SettingStep BY <1>1, SettingType
<1>2. CASE Expire
  <2>1. DOMAIN rows' = DOMAIN rows /\ rows' \in [DOMAIN rows' -> TableRow]
    <3>1. PICK i \in DOMAIN rows : rows' = [rows EXCEPT ![i] = [rows[i] EXCEPT !.fresh = FALSE]]
      BY <1>2 DEF Expire
    <3>2. [rows[i] EXCEPT !.fresh = FALSE] \in TableRow BY <1>0 DEF TableRow
    <3>3. rows \in [DOMAIN rows -> TableRow] BY DEF TypeInv, TypeOK, TableRow
    <3>4. QED BY <3>1, <3>2, <3>3
  <2>2. QED BY <1>2, <2>1 DEF Expire, globals, calls, TypeInv, TypeOK, TableRow
<1>3. ASSUME NEW c \in Grants, NEW u \in Users, Generate(c, u) PROVE TypeInv'
  <2>1. c \in Calls /\ for'[c] = u BY <1>3 DEF Generate, Calls, TypeInv, TypeOK
  <2>2. PICK where \in {"granting", "failed"} : Goes(c, where) BY <1>3 DEF Generate
  <2>3. QED BY <1>0, <1>3, <2>1, <2>2, CallType DEF Generate
<1>4. ASSUME NEW c \in Grants, TokensArrive(c) PROVE TypeInv'
  <2>1. c \in Calls /\ for[c] \in Users BY <1>0, <1>4 DEF TokensArrive, Calls
  <2>2. Goes(c, "delete") /\ orderly' \in BOOLEAN BY <1>0, <1>4 DEF TokensArrive
  <2>3. QED BY <1>0, <1>4, <2>1, <2>2, CallType DEF TokensArrive
<1>5. ASSUME NEW c \in Grants, DeleteOAuthTokens(c) PROVE TypeInv'
  <2>1. /\ DOMAIN rows' \subseteq DOMAIN rows
        /\ \A i \in DOMAIN rows' : rows'[i] = rows[i]
        /\ rows' \in [DOMAIN rows' -> TableRow]
    BY <1>0, <1>5 DEF DeleteOAuthTokens, Restrict
  <2>2. /\ phase' \in [Calls -> Phases] /\ whose' \in [Calls -> Users \cup {NoUser}]
        /\ \A d \in Calls : phase'[d] # phase[d] => phase'[d] = "insert" /\ phase[d] # "idle"
    BY <1>5 DEF DeleteOAuthTokens, Goes, Done, TypeInv, TypeOK
  <2>3. QED
    BY <1>0, <1>5, <2>1, <2>2 DEF DeleteOAuthTokens, globals, TypeInv, TypeOK, TableRow
<1>6. ASSUME NEW c \in Grants, InsertTokens(c) PROVE TypeInv'
  <2>1. c \in Calls /\ for[c] \in Users BY <1>0, <1>6 DEF InsertTokens, Calls
  <2>2. Row(for[c]) \in TableRow BY <2>1 DEF Row, TableRow
  <2>3. /\ DOMAIN rows' = DOMAIN rows \cup {c}
        /\ rows' \in [DOMAIN rows' -> TableRow]
    BY <1>0, <1>6, <2>2 DEF InsertTokens
  <2>4. /\ phase' \in [Calls -> Phases]
        /\ \A d \in Calls : phase'[d] # phase[d] => phase'[d] = "over" /\ phase[d] # "idle"
    BY <1>6 DEF InsertTokens, Goes, TypeInv, TypeOK
  <2>5. user' \in Users /\ calm' \in BOOLEAN
    BY <1>6, <2>1 DEF InsertTokens, SwitchTo, TypeInv, TypeOK
  <2>6. QED BY <1>0, <1>6, <2>3, <2>4, <2>5 DEF InsertTokens, TypeInv, TypeOK, TableRow
<1>7. ASSUME NEW c \in Calls, Refused(c) PROVE TypeInv'
  <2>1. for[c] \in Users BY <1>0, <1>7 DEF Refused
  <2>2. QED BY <1>0, <1>7, <2>1, CallType DEF Refused
<1>8. ASSUME NEW c \in Requests, PromiseResponse(c) PROVE TypeInv'
  <2>1. c \in Calls /\ for'[c] = user BY <1>8 DEF PromiseResponse, Calls, TypeInv, TypeOK
  <2>2. QED BY <1>0, <1>8, <2>1, CallType DEF PromiseResponse
<1>9. ASSUME NEW c \in Requests, Connect(c) PROVE TypeInv'
  <2>1. c \in Calls /\ for[c] \in Users BY <1>0, <1>9 DEF Connect, Calls
  <2>2. PICK where \in {"select", "update", "reselect"} :
          Goes(c, where) /\ (where = "update" => phase[c] = "updating")
    BY <1>9 DEF Connect
  <2>3. where \in Refreshes => holds[c] \in Users BY <1>0, <2>1, <2>2
  <2>4. QED BY <1>0, <1>9, <2>1, <2>2, <2>3, CallType DEF Connect
<1>10. ASSUME NEW c \in Requests, GetOAuthTokens(c) PROVE TypeInv'
  <2>1. c \in Calls /\ for[c] \in Users BY <1>0, <1>10 DEF GetOAuthTokens, Calls
  <2>2. CASE \E where \in {"relookup", "failed"} : Goes(c, where) /\ UNCHANGED holds
    BY <1>0, <1>10, <2>1, <2>2, CallType DEF GetOAuthTokens, Done
  <2>3. ASSUME NEW i \in DOMAIN rows, Goes(c, "refreshing"),
               holds' = [holds EXCEPT ![c] = rows[i].refresh]
        PROVE  TypeInv'
    <3>1. rows[i].refresh \in Users BY <1>0 DEF TableRow
    <3>2. holds'[c] \in Users BY <2>1, <2>3, <3>1 DEF TypeInv, TypeOK
    <3>3. QED BY <1>0, <1>10, <2>1, <2>3, <3>1, <3>2, CallType DEF GetOAuthTokens, Done
  <2>4. QED BY <1>10, <2>2, <2>3 DEF GetOAuthTokens, AfterLookup, Refresh, RowsOf
<1>11. ASSUME NEW c \in Requests, TokenArrives(c) PROVE TypeInv'
  <2>1. c \in Calls /\ for[c] \in Users /\ holds[c] \in Users
    BY <1>0, <1>11 DEF TokenArrives, Calls
  <2>2. QED BY <1>0, <1>11, <2>1, CallType DEF TokenArrives
<1>12. ASSUME NEW c \in Requests, UpdateOAuthTokens(c) PROVE TypeInv'
  <2>1. c \in Calls /\ for[c] \in Users /\ holds[c] \in Users
    BY <1>0, <1>12 DEF UpdateOAuthTokens, Calls
  <2>2. \A i \in DOMAIN rows : Updated(rows[i], c) \in TableRow
    BY <1>0, <2>1 DEF Updated, TableRow
  <2>3. DOMAIN rows' = DOMAIN rows /\ rows' \in [DOMAIN rows' -> TableRow]
    BY <1>12, <2>2 DEF UpdateOAuthTokens
  <2>4. /\ phase' \in [Calls -> Phases] /\ whose' \in [Calls -> Users \cup {NoUser}]
        /\ holds' \in [Calls -> Users \cup {NoUser}]
        /\ \A d \in Calls : IF d = c THEN phase'[d] = "relookup"
                            ELSE phase'[d] = phase[d] /\ holds'[d] = holds[d]
    BY <1>12, <2>1 DEF UpdateOAuthTokens, Goes, Done, TypeInv, TypeOK
  <2>5. QED
    BY <1>0, <1>12, <2>1, <2>3, <2>4 DEF UpdateOAuthTokens, globals, TypeInv, TypeOK, TableRow
<1>13. ASSUME NEW c \in Requests, MakeApiCall(c) PROVE TypeInv'
  <2>1. c \in Calls /\ for[c] \in Users BY <1>0, <1>13 DEF MakeApiCall, Calls
  <2>2. \E u \in Users \cup {NoUser} : holds' = [holds EXCEPT ![c] = u]
    BY <1>0, <1>13 DEF MakeApiCall, RowsOf, TableRow
  <2>3. QED BY <1>0, <1>13, <2>1, <2>2, CallType DEF MakeApiCall, Done
<1>14. ASSUME NEW c \in Requests, Answered(c) PROVE TypeInv'
  <2>1. c \in Calls /\ for[c] \in Users BY <1>0, <1>14 DEF Answered, Calls
  <2>2. QED BY <1>0, <1>14, <2>1, CallType DEF Answered
<1>15. CASE UNCHANGED vars
  BY <1>15 DEF vars, globals, calls, TypeInv, TypeOK
<1>16. QED
  BY <1>1, <1>2, <1>3, <1>4, <1>5, <1>6, <1>7, <1>8, <1>9, <1>10, <1>11, <1>12,
     <1>13, <1>14, <1>15 DEF Next, SettingStep, GrantStep, RequestStep, Calls

LEMMA TypeInvariant == Spec => []TypeInv
BY InitType, NextType, PTL DEF Spec

\* Rows are for users, with tokens that were issued to users, whatever calls
\* find and save.
THEOREM TypeCorrect == Spec => []TypeOK
<1>1. TypeInv => TypeOK BY DEF TypeInv
<1>2. QED BY TypeInvariant, <1>1, PTL

(***************************************************************************)
(* Whose tokens are whose.  While the user never changes under a call, a   *)
(* request under way is for the current user, and so are the statements    *)
(* it makes and the token it has in hand.                                  *)
(***************************************************************************)
RowsKeep == \A i \in DOMAIN rows : /\ rows[i].access = rows[i].user
                                   /\ rows[i].refresh = rows[i].user
RequestKeeps(c) ==
  /\ c \in InFlight => for[c] = user
  /\ phase[c] \in {"select", "update", "reselect"} => whose[c] = for[c]
  /\ phase[c] \in Refreshes => holds[c] = for[c]
  /\ phase[c] = "sent" => holds[c] \in {for[c], NoUser}

KeepInv == calm => RowsKeep /\ \A c \in Requests : RequestKeeps(c)

\* A request goes on by itself, and other calls stand still.
LEMMA RequestStepKeeps ==
  ASSUME TypeInv, KeepInv, NEW c \in Requests,
         UNCHANGED <<user, calm>>, RowsKeep => RowsKeep',
         \A d \in Calls : d # c => /\ phase'[d] = phase[d] /\ for'[d] = for[d]
                                 /\ whose'[d] = whose[d] /\ holds'[d] = holds[d],
         RowsKeep /\ RequestKeeps(c) => RequestKeeps(c)'
  PROVE  KeepInv'
<1>1. ASSUME NEW d \in Requests, d # c, RequestKeeps(d) PROVE RequestKeeps(d)'
  BY <1>1 DEF RequestKeeps, InFlight, Calls
<1>2. QED BY <1>1 DEF KeepInv

\* A grant goes on, and leaves the user to whom it was.
LEMMA GrantStepKeeps ==
  ASSUME TypeInv, KeepInv, NEW c \in Grants,
         UNCHANGED <<user, calm>>, RowsKeep => RowsKeep',
         \A d \in Calls : d # c => /\ phase'[d] = phase[d] /\ for'[d] = for[d]
                                 /\ whose'[d] = whose[d] /\ holds'[d] = holds[d]
  PROVE  KeepInv'
<1>1. ASSUME NEW d \in Requests, RequestKeeps(d) PROVE RequestKeeps(d)'
  BY <1>1, LegacyAssumption DEF RequestKeeps, InFlight, Calls
<1>2. QED BY <1>1 DEF KeepInv

LEMMA NextKeep ==
  ASSUME TypeInv, KeepInv, [Next]_vars
  PROVE  KeepInv'
<1>0. /\ phase \in [Calls -> Phases] /\ for \in [Calls -> Users \cup {NoUser}]
      /\ whose \in [Calls -> Users \cup {NoUser}] /\ holds \in [Calls -> Users \cup {NoUser}]
      /\ Requests \subseteq Calls /\ Grants \subseteq Calls
      /\ \A i \in DOMAIN rows : rows[i] \in TableRow
  BY DEF TypeInv, TypeOK, Calls, TableRow
<1> USE DEF Goes, Done, globals, calls
<1>1. CASE SettingStep
  <2>1. calm' => calm /\ (UNCHANGED user \/ InFlight = {})
    <3>1. PICK u : SwitchTo(u, InFlight)
      BY <1>1 DEF SettingStep, SetUserIdentifier, Initialize, InitializeFromFiles
    <3>2. QED BY <3>1 DEF SwitchTo
  <2>2. UNCHANGED <<rows, calls>>
    BY <1>1 DEF SettingStep, SetUserIdentifier, Initialize, InitializeFromFiles
  <2>3. \A c \in Requests : RequestKeeps(c) /\ (UNCHANGED user \/ InFlight = {}) => RequestKeeps(c)'
    BY <2>2 DEF RequestKeeps, InFlight
  <2>4. QED BY <2>1, <2>2, <2>3 DEF KeepInv, RowsKeep
<1>2. CASE Expire
  <2>1. PICK i \in DOMAIN rows : rows' = [rows EXCEPT ![i] = [rows[i] EXCEPT !.fresh = FALSE]]
    BY <1>2 DEF Expire
  <2>2. RowsKeep => RowsKeep' BY <1>0, <2>1 DEF RowsKeep, TableRow
  <2>3. \A c \in Requests : RequestKeeps(c) => RequestKeeps(c)'
    BY <1>2 DEF Expire, RequestKeeps, InFlight
  <2>4. QED BY <1>2, <2>2, <2>3 DEF Expire, KeepInv
<1>3. ASSUME NEW c \in Grants, TokensArrive(c) \/ Refused(c) \/ (\E u \in Users : Generate(c, u))
      PROVE  KeepInv'
  <2>1. UNCHANGED <<user, calm, rows>> BY <1>3 DEF TokensArrive, Refused, Generate
  <2>2. \A d \in Calls : d # c => /\ phase'[d] = phase[d] /\ for'[d] = for[d]
                                /\ whose'[d] = whose[d] /\ holds'[d] = holds[d]
    BY <1>0, <1>3 DEF TokensArrive, Refused, Generate
  <2>3. QED BY <2>1, <2>2, GrantStepKeeps DEF RowsKeep
<1>4. ASSUME NEW c \in Grants, DeleteOAuthTokens(c) PROVE KeepInv'
  <2>1. \A i \in DOMAIN rows' : i \in DOMAIN rows /\ rows'[i] = rows[i]
    BY <1>4 DEF DeleteOAuthTokens, Restrict
  <2>2. UNCHANGED <<user, calm>> /\ (RowsKeep => RowsKeep')
    BY <1>4, <2>1 DEF DeleteOAuthTokens, RowsKeep
  <2>3. \A d \in Calls : d # c => /\ phase'[d] = phase[d] /\ for'[d] = for[d]
                                /\ whose'[d] = whose[d] /\ holds'[d] = holds[d]
    BY <1>0, <1>4 DEF DeleteOAuthTokens
  <2>4. QED BY <2>2, <2>3, GrantStepKeeps
<1>5. ASSUME NEW c \in Grants, InsertTokens(c) PROVE KeepInv'
  <2> SUFFICES ASSUME calm' PROVE KeepInv'
    BY DEF KeepInv
  <2>1. calm /\ (UNCHANGED user \/ InFlight \ {c} = {}) BY <1>5 DEF InsertTokens, SwitchTo
  <2>2. \A i \in DOMAIN rows' : IF i = c THEN rows'[i] = Row(for[c])
                               ELSE i \in DOMAIN rows /\ rows'[i] = rows[i]
    BY <1>5 DEF InsertTokens
  <2>3. RowsKeep' BY <2>1, <2>2 DEF KeepInv, RowsKeep, Row
  <2>4. \A d \in Requests : d # c /\ phase'[d] = phase[d] /\ for'[d] = for[d]
                           /\ whose'[d] = whose[d] /\ holds'[d] = holds[d]
    BY <1>0, <1>5, LegacyAssumption DEF InsertTokens
  <2>5. ASSUME NEW d \in Requests PROVE RequestKeeps(d)'
    <3>1. d \in InFlight' => d \in InFlight \ {c} BY <2>4 DEF InFlight
    <3>2. RequestKeeps(d) BY <2>1 DEF KeepInv
    <3>3. QED BY <2>1, <2>4, <3>1, <3>2 DEF RequestKeeps
  <2>6. QED BY <2>3, <2>5 DEF KeepInv
<1>6. ASSUME NEW c \in Requests, RequestStep(c) \/ PromiseResponse(c),
             ~UpdateOAuthTokens(c), RowsKeep, RequestKeeps(c)
      PROVE  RequestKeeps(c)'
  <2>1. CASE Connect(c) \/ TokenArrives(c) \/ Refused(c) \/ Answered(c) \/ PromiseResponse(c)
    BY <1>0, <1>6, <2>1 DEF Connect, TokenArrives, Refused, Answered, PromiseResponse,
       RequestKeeps, InFlight, Refreshes
  <2>2. CASE GetOAuthTokens(c)
    <3>1. phase[c] = "select" /\ whose[c] = for[c] /\ for[c] = user
      BY <1>0, <1>6, <2>2 DEF GetOAuthTokens, RequestKeeps, InFlight
    <3>2. CASE \E where \in {"relookup", "failed"} : Goes(c, where) /\ UNCHANGED holds
      BY <1>0, <2>2, <3>1, <3>2 DEF GetOAuthTokens, RequestKeeps, InFlight, Refreshes
    <3>3. ASSUME NEW i \in RowsOf(whose[c]), Goes(c, "refreshing"),
                 holds' = [holds EXCEPT ![c] = rows[i].refresh]
          PROVE  RequestKeeps(c)'
      <4>1. rows[i].refresh = for[c] BY <1>6, <3>1 DEF RowsOf, RowsKeep
      <4>2. QED BY <1>0, <2>2, <3>1, <3>3, <4>1 DEF GetOAuthTokens, RequestKeeps, InFlight
    <3>4. QED BY <2>2, <3>2, <3>3 DEF GetOAuthTokens, AfterLookup, Refresh
  <2>3. CASE MakeApiCall(c)
    <3>1. phase[c] = "reselect" /\ whose[c] = for[c] /\ for[c] = user
      BY <1>0, <1>6, <2>3 DEF MakeApiCall, RequestKeeps, InFlight
    <3>2. \A i \in RowsOf(whose[c]) : rows[i].access = for[c]
      BY <1>6, <3>1 DEF RowsOf, RowsKeep
    <3>3. holds'[c] \in {for[c], NoUser} BY <1>0, <2>3, <3>2 DEF MakeApiCall
    <3>4. QED
      BY <1>0, <2>3, <3>1, <3>3 DEF MakeApiCall, RequestKeeps, InFlight, Refreshes
  <2>4. QED BY <1>6, <2>1, <2>2, <2>3 DEF RequestStep
<1>7. ASSUME NEW c \in Requests, RequestStep(c) \/ PromiseResponse(c), ~UpdateOAuthTokens(c)
      PROVE  KeepInv'
  <2>1. UNCHANGED <<user, calm, rows>>
    BY <1>7 DEF RequestStep, PromiseResponse, Connect, GetOAuthTokens, TokenArrives, Refused,
       MakeApiCall, Answered
  <2>2. \A d \in Calls : d # c => /\ phase'[d] = phase[d] /\ for'[d] = for[d]
                                /\ whose'[d] = whose[d] /\ holds'[d] = holds[d]
    BY <1>0, <1>7 DEF RequestStep, PromiseResponse, Connect, GetOAuthTokens, AfterLookup,
       Refresh, TokenArrives, Refused, MakeApiCall, Answered
  <2>3. QED BY <1>6, <1>7, <2>1, <2>2, RequestStepKeeps DEF RowsKeep
<1>8. ASSUME NEW c \in Requests, UpdateOAuthTokens(c) PROVE KeepInv'
  <2> SUFFICES ASSUME calm' PROVE KeepInv'
    BY DEF KeepInv
  <2>1. calm /\ RowsKeep /\ RequestKeeps(c) BY <1>8 DEF UpdateOAuthTokens, KeepInv
  <2>2. holds[c] = whose[c] BY <1>8, <2>1 DEF UpdateOAuthTokens, RequestKeeps, Refreshes
  <2>3. ASSUME NEW i \in DOMAIN rows
        PROVE  /\ Updated(rows[i], c).access = Updated(rows[i], c).user
               /\ Updated(rows[i], c).refresh = Updated(rows[i], c).user
    BY <1>0, <2>1, <2>2 DEF RowsKeep, Updated, TableRow
  <2>4. RowsKeep' BY <1>8, <2>3 DEF UpdateOAuthTokens, RowsKeep
  <2>5. RequestKeeps(c)'
    BY <1>0, <1>8, <2>1 DEF UpdateOAuthTokens, RequestKeeps, InFlight, Refreshes
  <2>6. \A d \in Calls : d # c => /\ phase'[d] = phase[d] /\ for'[d] = for[d]
                                /\ whose'[d] = whose[d] /\ holds'[d] = holds[d]
    BY <1>0, <1>8 DEF UpdateOAuthTokens
  <2>7. QED BY <1>8, <2>4, <2>5, <2>6, RequestStepKeeps DEF UpdateOAuthTokens
<1>9. CASE UNCHANGED vars
  BY <1>9 DEF vars, KeepInv, RowsKeep, RequestKeeps, InFlight
<1>10. QED
  BY <1>1, <1>2, <1>3, <1>4, <1>5, <1>7, <1>8, <1>9 DEF Next, SettingStep, GrantStep

\* While the application changes the user between calls only, every request
\* goes out with a token of its user, or with none, and every row keeps tokens
\* of its user, although each step of a call reads the global user anew.
THEOREM TokensStayWithTheirUser == Spec => []TokensKeepToTheirUser
<1>1. Init => KeepInv
  BY LegacyAssumption DEF Init, KeepInv, RowsKeep, Row, RequestKeeps, InFlight, Calls, Refreshes
<1>2. TypeInv /\ KeepInv /\ [Next]_vars => KeepInv' BY NextKeep
<1>3. KeepInv => TokensKeepToTheirUser
  BY DEF KeepInv, RowsKeep, RequestKeeps, TokensKeepToTheirUser
<1>4. QED BY TypeInvariant, <1>1, <1>2, <1>3, PTL DEF Spec

(***************************************************************************)
(* Saved once.  Whoever is saving tokens has deleted its user's rows, or   *)
(* is about to.                                                            *)
(***************************************************************************)
GrantSaves(c) ==
  /\ phase[c] = "delete" => whose[c] = for[c]
  /\ phase[c] = "insert" => RowsOf(for[c]) = {}

SaveInv ==
  /\ \A c \in Grants \cap DOMAIN rows : phase[c] = "over"
  /\ orderly => /\ SavedOnce
                /\ \A c, d \in Saving : c = d
                /\ \A c \in Grants : GrantSaves(c)

\* Steps that save nothing.
LEMMA SaveStays ==
  ASSUME TypeInv, SaveInv, orderly' => orderly,
         DOMAIN rows' = DOMAIN rows, \A i \in DOMAIN rows : rows'[i].user = rows[i].user,
         \A c \in Grants :
           phase[c] \in {"delete", "insert", "over"} \/ phase'[c] \in {"delete", "insert", "over"}
             => phase'[c] = phase[c] /\ for'[c] = for[c] /\ whose'[c] = whose[c]
  PROVE  SaveInv'
<1>1. ASSUME NEW u PROVE RowsOf(u)' = RowsOf(u)
  BY DEF RowsOf
<1>2. Saving' = Saving /\ \A d \in Saving : for'[d] = for[d]
  BY DEF Saving
<1>3. \A c \in Grants : phase'[c] = "over" <=> phase[c] = "over"
  OBVIOUS
<1>4. \A c \in Grants : phase[c] = "over" => for'[c] = for[c]
  OBVIOUS
<1>5. ASSUME orderly' PROVE SavedOnce'
  <2>1. SavedOnce /\ orderly BY <1>5 DEF SaveInv
  <2>2. ASSUME NEW u \in Users
        PROVE  /\ \A i, j \in RowsOf(u)' : i = j
               /\ (\E c \in Grants : phase'[c] = "over" /\ for'[c] = u)
                    => RowsOf(u)' # {} \/ \E d \in Saving' : for'[d] = u
    BY <1>1, <1>2, <1>3, <1>4, <2>1 DEF SavedOnce
  <2>3. QED BY <2>2 DEF SavedOnce
<1>6. ASSUME orderly', NEW c \in Grants PROVE GrantSaves(c)'
  <2>1. GrantSaves(c) BY <1>6 DEF SaveInv
  <2>2. CASE phase'[c] \in {"delete", "insert"}
    <3>1. phase'[c] = phase[c] /\ for'[c] = for[c] /\ whose'[c] = whose[c] BY <2>2
    <3>2. RowsOf(for[c])' = RowsOf(for'[c]) BY <3>1 DEF RowsOf
    <3>3. QED BY <2>1, <3>1, <3>2 DEF GrantSaves, RowsOf
  <2>3. CASE phase'[c] \notin {"delete", "insert"}
    BY <2>3 DEF GrantSaves
  <2>4. QED BY <2>2, <2>3
<1>7. QED BY <1>2, <1>3, <1>5, <1>6 DEF SaveInv

\* saveOAuthTokens(): the new tokens arrive, the user's rows go, and the new
\* row comes.
LEMMA ArriveSaves ==
  ASSUME TypeInv, SaveInv, NEW c \in Grants, TokensArrive(c)
  PROVE  SaveInv'
<1>1. /\ c \in Calls /\ phase[c] = "granting" /\ UNCHANGED <<rows, for>>
      /\ phase' = [phase EXCEPT ![c] = "delete"] /\ whose' = [whose EXCEPT ![c] = user]
  BY DEF TokensArrive, Goes, Calls
<1>2. /\ phase'[c] = "delete" /\ whose'[c] = user
      /\ \A d \in Grants : d # c => phase'[d] = phase[d] /\ whose'[d] = whose[d]
  BY <1>1 DEF TypeInv, TypeOK, Calls
<1>3. \A u : RowsOf(u)' = RowsOf(u)
  BY <1>1 DEF RowsOf
<1>4. \A d \in Grants \cap DOMAIN rows' : phase'[d] = "over"
  BY <1>1, <1>2 DEF SaveInv
<1>5. ASSUME orderly'
      PROVE  SavedOnce' /\ (\A d, e \in Saving' : d = e) /\ \A d \in Grants : GrantSaves(d)'
  <2>1. orderly /\ user = for[c] /\ Saving = {} BY <1>5 DEF TokensArrive
  <2>2. SavedOnce /\ \A d \in Grants : GrantSaves(d) BY <2>1 DEF SaveInv
  <2>3. Saving' = {c} BY <1>2, <2>1 DEF Saving
  <2>4. \A d \in Grants : phase'[d] = "over" => phase[d] = "over" BY <1>2
  <2>5. SavedOnce' BY <1>1, <1>3, <2>1, <2>2, <2>4 DEF SavedOnce
  <2>6. \A d \in Grants : GrantSaves(d)' BY <1>1, <1>2, <2>1, <2>2 DEF GrantSaves, RowsOf
  <2>7. QED BY <2>3, <2>5, <2>6
<1>6. QED BY <1>4, <1>5 DEF SaveInv

LEMMA DeleteSaves ==
  ASSUME TypeInv, SaveInv, NEW c \in Grants, DeleteOAuthTokens(c)
  PROVE  SaveInv'
<1>1. /\ c \in Calls /\ phase[c] = "delete" /\ UNCHANGED <<for, orderly>>
      /\ phase' = [phase EXCEPT ![c] = "insert"]
  BY DEF DeleteOAuthTokens, Goes, Calls
<1>2. /\ phase'[c] = "insert"
      /\ \A d \in Grants : d # c => phase'[d] = phase[d] /\ whose'[d] = whose[d]
  BY <1>1 DEF TypeInv, TypeOK, Calls, DeleteOAuthTokens, Done
<1>3. /\ DOMAIN rows' = {i \in DOMAIN rows : rows[i].user # whose[c]}
      /\ \A i \in DOMAIN rows' : rows'[i] = rows[i]
  BY DEF DeleteOAuthTokens, Restrict, Stays
<1>4. \A d \in Grants \cap DOMAIN rows' : phase'[d] = "over"
  BY <1>1, <1>2, <1>3 DEF SaveInv
<1>5. ASSUME orderly'
      PROVE  SavedOnce' /\ (\A d, e \in Saving' : d = e) /\ \A d \in Grants : GrantSaves(d)'
  <2>1. orderly /\ SavedOnce /\ (\A d, e \in Saving : d = e) /\ \A d \in Grants : GrantSaves(d)
    BY <1>1, <1>5 DEF SaveInv
  <2>2. Saving = {c} /\ Saving' = {c} BY <1>1, <1>2, <2>1 DEF Saving
  <2>3. whose[c] = for[c] BY <1>1, <2>1 DEF GrantSaves
  <2>4. RowsOf(for[c])' = {} BY <1>1, <1>3, <2>3 DEF RowsOf
  <2>5. ASSUME NEW u, u # for[c] PROVE RowsOf(u)' = RowsOf(u)
    BY <1>3, <2>3, <2>5 DEF RowsOf
  <2>6. \A d \in Grants : phase'[d] = "over" => phase[d] = "over" BY <1>2
  <2>7. ASSUME NEW u \in Users
        PROVE  /\ \A i, j \in RowsOf(u)' : i = j
               /\ (\E d \in Grants : phase'[d] = "over" /\ for'[d] = u)
                    => RowsOf(u)' # {} \/ \E d \in Saving' : for'[d] = u
    <3>1. CASE u = for[c]
      <4>1. RowsOf(u)' = {} BY <1>3, <2>3, <3>1 DEF RowsOf
      <4>2. QED BY <1>1, <2>2, <3>1, <4>1
    <3>2. CASE u # for[c]
      <4>1. RowsOf(u)' = RowsOf(u) BY <2>5, <3>2
      <4>2. QED BY <1>1, <2>1, <2>2, <2>6, <4>1 DEF SavedOnce
    <3>3. QED BY <3>1, <3>2
  <2>8. SavedOnce' BY <2>7 DEF SavedOnce
  <2>9. ASSUME NEW d \in Grants PROVE GrantSaves(d)'
    <3>1. CASE d = c BY <1>1, <1>2, <1>3, <2>3, <3>1 DEF GrantSaves, RowsOf
    <3>2. CASE d # c BY <1>2, <2>2, <3>2 DEF GrantSaves, Saving
    <3>3. QED BY <3>1, <3>2
  <2>10. QED BY <2>2, <2>8, <2>9
<1>6. QED BY <1>4, <1>5 DEF SaveInv

LEMMA InsertSaves ==
  ASSUME TypeInv, SaveInv, NEW c \in Grants, InsertTokens(c)
  PROVE  SaveInv'
<1>1. /\ c \in Calls /\ phase[c] = "insert" /\ UNCHANGED <<for, whose, orderly>>
      /\ phase' = [phase EXCEPT ![c] = "over"]
  BY DEF InsertTokens, Goes, Calls
<1>2. phase'[c] = "over" /\ \A d \in Grants : d # c => phase'[d] = phase[d]
  BY <1>1 DEF TypeInv, TypeOK, Calls
<1>3. c \notin DOMAIN rows BY <1>1 DEF SaveInv
<1>4. /\ DOMAIN rows' = DOMAIN rows \cup {c}
      /\ rows'[c].user = for[c] /\ \A i \in DOMAIN rows : rows'[i] = rows[i]
  BY <1>3 DEF InsertTokens, Row
<1>5. \A d \in Grants \cap DOMAIN rows' : phase'[d] = "over"
  BY <1>2, <1>4 DEF SaveInv
<1>6. ASSUME orderly'
      PROVE  SavedOnce' /\ (\A d, e \in Saving' : d = e) /\ \A d \in Grants : GrantSaves(d)'
  <2>1. orderly /\ SavedOnce /\ (\A d, e \in Saving : d = e) /\ \A d \in Grants : GrantSaves(d)
    BY <1>1, <1>6 DEF SaveInv
  <2>2. Saving = {c} /\ Saving' = {} BY <1>1, <1>2, <2>1 DEF Saving
  <2>3. RowsOf(for[c]) = {} BY <1>1, <2>1 DEF GrantSaves
  <2>4. ASSUME NEW u \in Users
        PROVE  /\ \A i, j \in RowsOf(u)' : i = j
               /\ (\E d \in Grants : phase'[d] = "over" /\ for'[d] = u)
                    => RowsOf(u)' # {} \/ \E d \in Saving' : for'[d] = u
    <3>1. CASE u = for[c]
      <4>1. RowsOf(u)' = {c} BY <1>4, <2>3, <3>1 DEF RowsOf
      <4>2. QED BY <4>1
    <3>2. CASE u # for[c]
      <4>1. RowsOf(u)' = RowsOf(u) BY <1>3, <1>4, <3>2 DEF RowsOf
      <4>2. (\E d \in Grants : phase'[d] = "over" /\ for'[d] = u)
              => \E d \in Grants : phase[d] = "over" /\ for[d] = u
        BY <1>1, <1>2, <3>2
      <4>3. QED BY <2>1, <2>2, <3>2, <4>1, <4>2 DEF SavedOnce
    <3>3. QED BY <3>1, <3>2
  <2>5. SavedOnce' BY <2>4 DEF SavedOnce
  <2>6. ASSUME NEW d \in Grants PROVE GrantSaves(d)'
    BY <1>2, <2>2 DEF GrantSaves, Saving
  <2>7. QED BY <2>2, <2>5, <2>6
<1>7. QED BY <1>5, <1>6 DEF SaveInv

LEMMA NextSave ==
  ASSUME TypeInv, SaveInv, [Next]_vars
  PROVE  SaveInv'
<1>0. /\ phase \in [Calls -> Phases] /\ for \in [Calls -> Users \cup {NoUser}]
      /\ whose \in [Calls -> Users \cup {NoUser}]
      /\ Grants \subseteq Calls /\ Requests \subseteq Calls
      /\ rows \in [DOMAIN rows -> TableRow]
  BY DEF TypeInv, TypeOK, Calls, TableRow
<1> USE DEF Goes, Done, globals, calls
<1>1. CASE SettingStep
  <2>1. UNCHANGED <<rows, calls, orderly>>
    BY <1>1 DEF SettingStep, SetUserIdentifier, Initialize, InitializeFromFiles
  <2>2. QED BY <2>1, SaveStays
<1>2. CASE Expire
  <2>1. PICK i \in DOMAIN rows : rows' = [rows EXCEPT ![i] = [rows[i] EXCEPT !.fresh = FALSE]]
    BY <1>2 DEF Expire
  <2>2. DOMAIN rows' = DOMAIN rows /\ \A j \in DOMAIN rows : rows'[j].user = rows[j].user
    BY <1>0, <2>1 DEF TableRow
  <2>3. UNCHANGED <<calls, orderly>> BY <1>2 DEF Expire
  <2>4. QED BY <2>2, <2>3, SaveStays
<1>3. ASSUME NEW c \in Grants, Refused(c) \/ \E u \in Users : Generate(c, u)
      PROVE  SaveInv'
  <2>1. UNCHANGED <<rows, whose, orderly>> BY <1>3 DEF Refused, Generate
  <2>2. /\ phase[c] \in {"idle", "refreshing", "granting"} /\ phase'[c] \in {"failed", "granting"}
        /\ \A d \in Grants : d # c => phase'[d] = phase[d] /\ for'[d] = for[d]
    BY <1>0, <1>3 DEF Refused, Generate
  <2>3. QED BY <2>1, <2>2, SaveStays
<1>4. ASSUME NEW c \in Requests, RequestStep(c) \/ PromiseResponse(c)
      PROVE  SaveInv'
  <2>1. UNCHANGED orderly
    BY <1>4 DEF RequestStep, PromiseResponse, Connect, GetOAuthTokens, TokenArrives, Refused,
       UpdateOAuthTokens, MakeApiCall, Answered
  <2>2. \A d \in Grants : phase'[d] = phase[d] /\ for'[d] = for[d] /\ whose'[d] = whose[d]
    BY <1>0, <1>4, LegacyAssumption DEF RequestStep, PromiseResponse, Connect, GetOAuthTokens,
       AfterLookup, Refresh, TokenArrives, Refused, UpdateOAuthTokens, MakeApiCall, Answered
  <2>3. DOMAIN rows' = DOMAIN rows /\ \A i \in DOMAIN rows : rows'[i].user = rows[i].user
    <3>1. CASE UpdateOAuthTokens(c)
      <4>1. \A i \in DOMAIN rows : Updated(rows[i], c).user = rows[i].user
        BY <1>0 DEF Updated, TableRow
      <4>2. QED BY <3>1, <4>1 DEF UpdateOAuthTokens
    <3>2. CASE ~UpdateOAuthTokens(c)
      BY <1>4, <3>2 DEF RequestStep, PromiseResponse, Connect, GetOAuthTokens, TokenArrives,
         Refused, MakeApiCall, Answered
    <3>3. QED BY <3>1, <3>2
  <2>4. QED BY <2>1, <2>2, <2>3, SaveStays
<1>5. CASE UNCHANGED vars
  BY <1>5, SaveStays DEF vars
<1>6. QED
  BY <1>1, <1>2, <1>3, <1>4, <1>5, ArriveSaves, DeleteSaves, InsertSaves
  DEF Next, SettingStep, GrantStep

\* Tokens that are saved one call at a time, each for the user the client is
\* set to, leave one row per user, and the user whose tokens were saved is
\* found, whatever the other calls and the application do in between.
THEOREM SavedTokensAreFound == Spec => []SavedOnce
<1>1. Init => SaveInv
  <2> SUFFICES ASSUME Init PROVE SaveInv
    OBVIOUS
  <2>1. \A c \in Calls : phase[c] = "idle" BY DEF Init
  <2>2. DOMAIN rows \subseteq {Earlier} BY DEF Init
  <2>3. SavedOnce BY <2>1, <2>2 DEF SavedOnce, RowsOf, Calls
  <2>4. Saving = {} /\ \A c \in Grants : GrantSaves(c)
    BY <2>1 DEF Saving, GrantSaves, Calls
  <2>5. Grants \cap DOMAIN rows = {} BY <2>2, LegacyAssumption
  <2>6. QED BY <2>3, <2>4, <2>5 DEF SaveInv
<1>2. TypeInv /\ SaveInv /\ [Next]_vars => SaveInv' BY NextSave
<1>3. SaveInv => SavedOnce BY DEF SaveInv, SavedOnce
<1>4. QED BY TypeInvariant, <1>1, <1>2, <1>3, PTL DEF Spec

=============================================================================
