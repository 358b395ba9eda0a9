----------------------------- MODULE LegacySDK -----------------------------
(***************************************************************************)
(* lib/js: the superseded JavaScript SDK.  ZCRMRestClient keeps the user   *)
(* the process acts for in a global.  generateAuthTokens() replaces that   *)
(* user's row in the table oauthtokens; promiseResponse() looks the row    *)
(* up, refreshes it when it has expired, looks it up again and sends the   *)
(* request with the token found.  Every one of these steps reads the       *)
(* global anew, so what a call does depends on what the application and    *)
(* other calls did to it in between.                                       *)
(*                                                                         *)
(* A token is modelled by the user it was issued to.  The server runs a    *)
(* statement and calls back in one step; the statement's text, and with it *)
(* the user it is about, is fixed one step earlier where the code awaits   *)
(* the connection in between.                                              *)
(***************************************************************************)
EXTENDS Naturals, Functions

CONSTANTS Users, Default,  \* default_user_identifier is one of the users
          Requests,        \* calls of promiseResponse()
          Grants,          \* of generateAuthTokens() and ...FromRefreshToken()
          Earlier,         \* a run of the program before this one
          NoUser, MaxSwitches  \* bound: how often the application sets the user

ASSUME LegacyAssumption ==
  /\ Default \in Users /\ NoUser \notin Users
  /\ Requests \cap Grants = {} /\ Earlier \notin Grants
  /\ MaxSwitches \in Nat

VARIABLES user,        \* ZCRMRestClient's user_identifier
          configured,  \* are the client id, its secret and the URL set?
          files,       \* the user in resources/*.properties, or NoUser
          rows,        \* the table oauthtokens: what each call inserted
          phase,       \* where each call is
          for,         \* the user each call was made for
          whose,       \* the user in the statement it has under way
          holds,       \* the token a request has in hand
          switches,    \* counts setUserIdentifier() and initialize()
          calm,        \* history: the user never changed under a call
          orderly      \* history: tokens were saved one at a time, and for
                       \* the current user

globals == <<user, configured, files, switches>>
calls == <<phase, for, whose, holds>>
vars == <<globals, rows, calls, calm, orderly>>

Calls == Requests \cup Grants
Phases == {"idle", "lookup", "select", "refreshing", "updating", "update",
           "relookup", "reselect", "sent", "granting", "delete", "insert",
           "over", "failed"}
InFlight == {c \in Calls : phase[c] \notin {"idle", "over", "failed"}}
Saving == {c \in Grants : phase[c] \in {"delete", "insert"}}

Row(u) == [user |-> u, access |-> u, refresh |-> u, fresh |-> TRUE]
\* SELECT ... WHERE useridentifier = u.  The code takes the first, which
\* without ORDER BY may be any.
RowsOf(u) == {i \in DOMAIN rows : rows[i].user = u}

Init ==
  /\ user = Default /\ configured = FALSE
  /\ files \in Users \cup {NoUser}
  /\ \E saved \in SUBSET {Earlier} :
       rows = [i \in saved |-> [Row(Default) EXCEPT !.fresh = FALSE]]
  /\ phase = [c \in Calls |-> "idle"]
  /\ for = [c \in Calls |-> NoUser]
  /\ whose = [c \in Calls |-> NoUser]
  /\ holds = [c \in Calls |-> NoUser]
  /\ switches = 0
  /\ calm = TRUE /\ orderly = TRUE

Goes(c, where) == phase' = [phase EXCEPT ![c] = where]

\* The user is set to u while the calls of others are under way.
SwitchTo(u, others) ==
  /\ user' = u
  /\ calm' = (calm /\ (u = user \/ others = {}))

\* The statement of c has been run.
Done(c) == whose' = [whose EXCEPT ![c] = NoUser]

-----------------------------------------------------------------------------
(* The application's settings.                                             *)

Switches == switches < MaxSwitches /\ switches' = switches + 1

SetUserIdentifier(u) ==
  /\ Switches
  /\ SwitchTo(u, InFlight)
  /\ UNCHANGED <<configured, files, rows, calls, orderly>>

\* initialize(configJSON) with user_identifier u.  It resolves and goes on
\* to read the properties files, whose user wins; if there are none it
\* throws, which after resolve() nobody notices.
Initialize(u) ==
  /\ Switches
  /\ SwitchTo(IF files = NoUser THEN u ELSE files, InFlight)
  /\ configured' = TRUE
  /\ UNCHANGED <<files, rows, calls, orderly>>

\* initialize() goes by the files alone, and rejects without them.
InitializeFromFiles ==
  /\ Switches
  /\ files # NoUser
  /\ SwitchTo(files, InFlight)
  /\ configured' = TRUE
  /\ UNCHANGED <<files, rows, calls, orderly>>

\* expirytime passes.
Expire ==
  /\ \E i \in DOMAIN rows :
       /\ rows[i].fresh
       /\ rows' = [rows EXCEPT ![i].fresh = FALSE]
  /\ UNCHANGED <<globals, calls, calm, orderly>>

-----------------------------------------------------------------------------
(* generateAuthTokens() and generateAuthTokenfromRefreshToken().           *)

\* Without a configuration the constructor of OAuth throws and the call
\* rejects.  (A call without a user is one with the current user.)
Generate(c, u) ==
  /\ phase[c] = "idle"
  /\ Goes(c, IF configured THEN "granting" ELSE "failed")
  /\ for' = [for EXCEPT ![c] = u]
  /\ UNCHANGED <<globals, rows, whose, holds, calm, orderly>>

\* The tokens arrive; saveOAuthTokens() begins with deleteOAuthTokens(),
\* which is about the user the client is set to, not the one the tokens are
\* for.
AllStay(r, u) == TRUE
Stays(r, u) == r.user # u

TokensArrive(c) ==
  /\ phase[c] = "granting"
  /\ Goes(c, "delete")
  /\ whose' = [whose EXCEPT ![c] = user]
  /\ orderly' = (orderly /\ user = for[c] /\ Saving = {})
  /\ UNCHANGED <<globals, rows, for, holds, calm>>

DeleteOAuthTokens(c) ==
  /\ phase[c] = "delete"
  /\ rows' = Restrict(rows, {i \in DOMAIN rows : Stays(rows[i], whose[c])})
  /\ Goes(c, "insert")
  /\ Done(c)
  /\ UNCHANGED <<globals, for, holds, calm, orderly>>

\* The row is inserted, the user set and the promise resolved.
InsertTokens(c) ==
  /\ phase[c] = "insert"
  /\ rows' = [i \in DOMAIN rows \cup {c} |->
                IF i = c THEN Row(for[c]) ELSE rows[i]]
  /\ SwitchTo(for[c], InFlight \ {c})
  /\ Goes(c, "over")
  /\ UNCHANGED <<configured, files, switches, for, whose, holds, orderly>>

-----------------------------------------------------------------------------
(* promiseResponse() and makeapicall().                                    *)

PromiseResponse(c) ==
  /\ phase[c] = "idle"
  /\ Goes(c, "lookup")
  /\ for' = [for EXCEPT ![c] = user]
  /\ UNCHANGED <<globals, rows, whose, holds, calm, orderly>>

\* A connection is there: the text of the statement takes the current user.
Connect(c) ==
  /\ \/ phase[c] = "lookup" /\ Goes(c, "select")
     \/ phase[c] = "updating" /\ Goes(c, "update")
     \/ phase[c] = "relookup" /\ Goes(c, "reselect")
  /\ whose' = [whose EXCEPT ![c] = user]
  /\ UNCHANGED <<globals, rows, for, holds, calm, orderly>>

\* The row has expired: ask for another token, with its refresh token.
Refresh(c, row) ==
  IF configured
  THEN /\ Goes(c, "refreshing")
       /\ holds' = [holds EXCEPT ![c] = row.refresh]
  ELSE Goes(c, "failed") /\ UNCHANGED holds

\* No row has no expiry time, and nothing is later than undefined.
AfterLookup(c) ==
  \/ \E i \in RowsOf(whose[c]) :
       IF rows[i].fresh THEN Goes(c, "relookup") /\ UNCHANGED holds
       ELSE Refresh(c, rows[i])
  \/ RowsOf(whose[c]) = {} /\ Goes(c, "relookup") /\ UNCHANGED holds
GetOAuthTokens(c) ==
  /\ phase[c] = "select"
  /\ AfterLookup(c)
  /\ Done(c)
  /\ UNCHANGED <<globals, rows, for, calm, orderly>>

TokenArrives(c) ==
  /\ phase[c] = "refreshing"
  /\ Goes(c, "updating")
  /\ UNCHANGED <<globals, rows, for, whose, holds, calm, orderly>>

\* Zoho refuses: a body that is no JSON, or has no access token, makes a
\* callback throw in which nothing rejects the promise of the call.
Refused(c) ==
  /\ phase[c] \in {"refreshing", "granting"}
  /\ Goes(c, "failed")
  /\ holds' = [holds EXCEPT ![c] = NoUser]
  /\ UNCHANGED <<globals, rows, for, whose, calm, orderly>>

UpdatedAll(r, c) == [r EXCEPT !.access = holds[c], !.fresh = TRUE]
Updated(r, c) ==
  IF r.user = whose[c] THEN [r EXCEPT !.access = holds[c], !.fresh = TRUE] ELSE r

UpdateOAuthTokens(c) ==
  /\ phase[c] = "update"
  /\ rows' = [i \in DOMAIN rows |-> Updated(rows[i], c)]
  /\ Goes(c, "relookup")
  /\ Done(c)
  /\ holds' = [holds EXCEPT ![c] = NoUser]
  /\ UNCHANGED <<globals, for, calm, orderly>>

\* makeapicall() looks the token up again and sends the request with it, or
\* with `undefined' for a user without a row.
MakeApiCall(c) ==
  /\ phase[c] = "reselect"
  /\ \/ \E i \in RowsOf(whose[c]) : holds' = [holds EXCEPT ![c] = rows[i].access]
     \/ RowsOf(whose[c]) = {} /\ holds' = [holds EXCEPT ![c] = NoUser]
  /\ Goes(c, "sent")
  /\ Done(c)
  /\ UNCHANGED <<globals, rows, for, calm, orderly>>

\* An answer, an error of the transport, or 204: all resolve.
Answered(c) ==
  /\ phase[c] = "sent"
  /\ Goes(c, "over")
  /\ holds' = [holds EXCEPT ![c] = NoUser]
  /\ UNCHANGED <<globals, rows, for, whose, calm, orderly>>

-----------------------------------------------------------------------------
GrantStep(c) == TokensArrive(c) \/ DeleteOAuthTokens(c) \/ InsertTokens(c) \/ Refused(c)
RequestStep(c) ==
  \/ Connect(c) \/ GetOAuthTokens(c) \/ TokenArrives(c) \/ Refused(c)
  \/ UpdateOAuthTokens(c) \/ MakeApiCall(c) \/ Answered(c)

Next ==
  \/ \E u \in Users : SetUserIdentifier(u) \/ Initialize(u)
  \/ InitializeFromFiles
  \/ Expire
  \/ \E c \in Grants : GrantStep(c) \/ \E u \in Users : Generate(c, u)
  \/ \E c \in Requests : RequestStep(c) \/ PromiseResponse(c)

Spec == Init /\ [][Next]_vars

-----------------------------------------------------------------------------
\* The type invariant.
TypeOK ==
  /\ user \in Users /\ files \in Users \cup {NoUser}
  /\ configured \in BOOLEAN /\ calm \in BOOLEAN /\ orderly \in BOOLEAN
  /\ DOMAIN rows \subseteq Grants \cup {Earlier}
  /\ rows \in [DOMAIN rows ->
                [user : Users, access : Users, refresh : Users, fresh : BOOLEAN]]
  /\ phase \in [Calls -> Phases]
  /\ for \in [Calls -> Users \cup {NoUser}]
  /\ whose \in [Calls -> Users \cup {NoUser}]
  /\ holds \in [Calls -> Users \cup {NoUser}]
  /\ switches \in 0..MaxSwitches

\* As long as the global user only changes while no call is under way, no
\* user's request goes out with a token of another and no token is stored in
\* the row of another, although every step of promiseResponse() reads the
\* user and the row anew and calls overlap at will.
TokensKeepToTheirUser ==
  calm => /\ \A i \in DOMAIN rows : rows[i].access = rows[i].user
          /\ \A c \in Requests : phase[c] = "sent" => holds[c] \in {for[c], NoUser}

\* As long as tokens are saved one call at a time and for the user the
\* client is set to when they arrive, saveOAuthTokens() leaves one row per
\* user, so that the "first" row of makeapicall() is the one saved last; and a
\* user whose tokens were saved is found, whatever becomes of the global user
\* meanwhile.  (deleteOAuthTokens() goes by the global user: saving for
\* another one removes the wrong row and adds a second.)
SavedOnce ==
  orderly =>
    \A u \in Users :
      /\ \A i, j \in RowsOf(u) : i = j
      /\ (\E c \in Grants : phase[c] = "over" /\ for[c] = u)
           => RowsOf(u) # {} \/ \E d \in Saving : for[d] = u

=============================================================================
