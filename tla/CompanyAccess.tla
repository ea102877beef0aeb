---------------------------- MODULE CompanyAccess ----------------------------
(***************************************************************************)
(* Who may use the system: the sessions of one tenant user in the browsers *)
(* and tabs he opens, the company's contract and status that every request *)
(* is checked against, and the features its tokens are signed with         *)
(* (backend/src/services/auth.service.js, company-status.service.js,       *)
(* company-feature.service.js, middleware/auth.middleware.js,              *)
(* routes/company.routes.js, the account operations of user.service.js and *)
(* frontend/src/api/axios.js).                                             *)
(*                                                                         *)
(* A user has one refresh token, stored hashed and replaced at each login  *)
(* and refresh.  bcrypt compares the first 72 bytes, which reach into the  *)
(* token's time of signing, so tokens signed in one period are equal.      *)
(* The row enforceCompanyActive loads has no login_password_hash: the      *)
(* company password of login is never asked for.                           *)
(***************************************************************************)
EXTENDS Integers, FiniteSets

CONSTANTS
  Browsers,    \* each has one cookie jar and one localStorage
  Tabs,        \* pages of the application
  BrowserOf,   \* [Tabs -> Browsers]
  Admins,      \* requests of the company's and the super administrators
  Features,    \* COMPANY_FEATURES
  OptIn,       \* those that are off until a super administrator chooses
  MaxTime,     \* bound: signing periods
  MaxLogins,   \* bound: logins
  MaxChanges,  \* bound: administrators' requests and the end of the contract
  MaxEvents,   \* bound: logins and changes together
  None

ASSUME AccessAssumption ==
  /\ BrowserOf \in [Tabs -> Browsers]
  /\ OptIn \subseteq Features /\ \A fs \in SUBSET Features : fs # None
  /\ MaxTime \in Nat /\ MaxLogins \in Nat /\ MaxChanges \in Nat /\ MaxEvents \in Nat

VARIABLES
  now,
  company,   \* exists, active, over (contract_end has passed), rows of company_features
  user,      \* exists, active, stored (refresh_token)
  jar,       \* the refresh cookie of each browser
  local,     \* access token in localStorage: whether it is still valid
  op,        \* the request of each tab, from its first read to its answer
  act,       \* the request of each administrator
  logins, changes,
  chosen,    \* history: the features of the last choice; None after one that died half way
  ended,     \* history: the logins that were ended by logout, reset or deactivation
  single,    \* history: see NoFalseAlarm
  raced      \* history: the ended logins that a request under way may bring back

server == <<company, user>>
client == <<jar, local>>
history == <<chosen, ended, single, raced>>
vars == <<now, company, user, jar, local, op, act, logins, changes, history>>

Idle == [step |-> "idle"]
NoRows == None
Token == [time : 0 .. MaxTime, login : 1 .. MaxLogins]
Access == [live : BOOLEAN]

Ops ==
  {Idle}
    \cup [step : {"gate"}, kind : {"login"}, login : 1 .. MaxLogins]
    \cup [step : {"gate"}, kind : {"use", "logout"}]
    \cup [step : {"shut", "disable"}, kind : {"login", "use", "logout"}]
    \cup [step : {"reuse"}, kind : {"refresh"}]
    \cup [step : {"sign"}, kind : {"login", "refresh"}, login : 1 .. MaxLogins]
    \cup [step : {"save", "answer"}, kind : {"login", "refresh"}, token : Token]
    \cup [step : {"revoke", "bye"}, kind : {"logout"}]

Acts ==
  {Idle}
    \cup [step : {"end"}, kind : {"reset", "deactivate"}, null : BOOLEAN]
    \cup [step : {"edit"}, on : BOOLEAN, seen : BOOLEAN]
    \cup [step : {"features"}, features : SUBSET Features]

TypeOK ==
  /\ now \in 0 .. MaxTime
  /\ company \in [exists : BOOLEAN, active : BOOLEAN, over : BOOLEAN,
                  rows : {NoRows} \cup SUBSET Features]
  /\ user \in [exists : BOOLEAN, active : BOOLEAN, stored : Token \cup {None}]
  /\ jar \in [Browsers -> Token \cup {None}]
  /\ local \in [Browsers -> Access \cup {None}]
  /\ op \in [Tabs -> Ops] /\ act \in [Admins -> Acts]
  /\ logins \in 0 .. MaxLogins /\ changes \in 0 .. MaxChanges
  /\ chosen \in {None} \cup SUBSET Features /\ ended \subseteq 1 .. MaxLogins
  /\ single \in BOOLEAN /\ raced \subseteq 1 .. MaxLogins

\* Without rows every feature is on but those that have to be chosen.
Defaults == Features \ OptIn

Init ==
  /\ now = 0
  /\ company = [exists |-> TRUE, active |-> TRUE, over |-> FALSE, rows |-> NoRows]
  /\ user = [exists |-> TRUE, active |-> TRUE, stored |-> None]
  /\ jar = [b \in Browsers |-> None]
  /\ local = [b \in Browsers |-> None]
  /\ op = [t \in Tabs |-> Idle]
  /\ act = [a \in Admins |-> Idle]
  /\ logins = 0 /\ changes = 0
  /\ chosen = Defaults /\ ended = {}
  /\ single = TRUE /\ raced = {}

Do(t, what) == op' = [op EXCEPT ![t] = what]
Clear(b) == local' = [local EXCEPT ![b] = None]

\* A request that is on its way to a new token, or to its answer.
InSession(t) ==
  \/ op[t].step \in {"sign", "save", "answer", "reuse"}
  \/ op[t].step = "gate" /\ op[t].kind = "login"

Busy(t) == \E u \in Tabs \ {t} : InSession(u)

\* The login a request will save a token of.
Saves(o) ==
  CASE o.step = "save" -> {o.token.login}
    [] o.step = "sign" \/ (o.step = "gate" /\ o.kind = "login") -> {o.login}
    [] OTHER -> {}

-----------------------------------------------------------------------------
(* login, refresh, and the requests that carry an access token.            *)

\* login and employeeLogin: the account is looked up and its password compared.
Login(t) ==
  /\ op[t] = Idle /\ logins < MaxLogins /\ logins + changes < MaxEvents
  /\ user.exists /\ user.active
  /\ logins' = logins + 1
  /\ Do(t, [step |-> "gate", kind |-> "login", login |-> logins'])
  /\ single' = (single /\ ~Busy(t) /\ \A b \in Browsers \ {BrowserOf[t]} : jar[b] = None)
  /\ UNCHANGED <<now, server, client, act, changes, chosen, ended, raced>>

\* A request with a valid access token, or a logout.
Use(t, kind) ==
  /\ op[t] = Idle
  /\ LET a == local[BrowserOf[t]] IN a # None /\ a.live
  /\ Do(t, [step |-> "gate", kind |-> kind])
  /\ UNCHANGED <<now, server, client, act, logins, changes, history>>

\* What a refused request leaves in the browser: a page whose refresh failed and
\* one that logs out forget the access token.
Refused(t, kind) ==
  /\ Do(t, Idle)
  /\ IF kind \in {"refresh", "logout"} THEN Clear(BrowserOf[t]) ELSE UNCHANGED local

\* enforceCompanyActive loads the company.
Gate(t) ==
  LET k == op[t].kind IN
  /\ op[t].step = "gate"
  /\ \/ /\ ~company.exists \/ ~company.active
        /\ Refused(t, k)
     \/ /\ company.exists /\ company.active /\ company.over
        /\ Do(t, [step |-> "shut", kind |-> k]) /\ UNCHANGED local
     \/ /\ company.exists /\ company.active /\ ~company.over
        /\ Do(t, CASE k = "login" -> [step |-> "sign", kind |-> k, login |-> op[t].login]
                  [] k = "logout" -> [step |-> "revoke", kind |-> k]
                  [] k = "use" -> Idle)
        /\ UNCHANGED local
  /\ UNCHANGED <<now, server, jar, act, logins, changes, history>>

\* The contract is over: the company first, its users second.
ShutCompany(t) ==
  /\ op[t].step = "shut"
  /\ company' = [company EXCEPT !.active = @ /\ ~company.exists]
  /\ Do(t, [op[t] EXCEPT !.step = "disable"])
  /\ UNCHANGED <<now, user, client, act, logins, changes, history>>

DisableUsers(t) ==
  /\ op[t].step = "disable"
  /\ user' = [user EXCEPT !.active = FALSE, !.stored = None]
  /\ Refused(t, op[t].kind)
  /\ UNCHANGED <<now, company, jar, act, logins, changes, history>>

\* The page posts its cookie once its access token has expired; the server loads
\* the user and compares.
Refresh(t) ==
  LET b == BrowserOf[t]
      c == jar[b]
  IN
  /\ op[t] = Idle /\ local[b] # None /\ ~local[b].live
  /\ IF c = None \/ ~user.exists \/ ~user.active \/ user.stored = None
     THEN Refused(t, "refresh")
     ELSE /\ Do(t, IF user.stored.time = c.time
                   THEN [step |-> "sign", kind |-> "refresh", login |-> c.login]
                   ELSE [step |-> "reuse", kind |-> "refresh"])
          /\ UNCHANGED local
  /\ single' = (single /\ ~Busy(t))
  /\ raced' = IF c # None /\ user.stored # None /\ user.stored.time = c.time
                   /\ user.stored.login # c.login
              THEN raced \cup (ended \cap {c.login}) ELSE raced
  /\ UNCHANGED <<now, server, jar, act, logins, changes, chosen, ended>>

\* "Refresh token reuse detected": the session is revoked.
Reuse(t) ==
  /\ op[t].step = "reuse"
  /\ user' = [user EXCEPT !.stored = None]
  /\ Refused(t, "refresh")
  /\ UNCHANGED <<now, company, jar, act, logins, changes, history>>

\* getCompanyEnabledFeatures.
Enabled == IF company.rows = NoRows THEN Defaults ELSE company.rows

\* The features are read (Enabled) and both tokens signed; what they carry is left out,
\* as no handler here reads it.
Sign(t) ==
  LET token == [time |-> now, login |-> op[t].login] IN
  /\ op[t].step = "sign"
  /\ Do(t, [step |-> "save", kind |-> op[t].kind, token |-> token])
  /\ UNCHANGED <<now, server, client, act, logins, changes, history>>

\* saveRefreshToken, whatever has become of the user since.
SaveRefreshToken(t) ==
  /\ op[t].step = "save"
  /\ user' = [user EXCEPT !.stored = IF user.exists THEN op[t].token ELSE @]
  /\ Do(t, [op[t] EXCEPT !.step = "answer"])
  /\ UNCHANGED <<now, company, client, act, logins, changes, history>>

\* Mutant: the refresh answers with a new access token and leaves the cookie.
AnswerWithoutCookie(t) ==
  LET b == BrowserOf[t] IN
  /\ op[t].step = "answer"
  /\ jar' = IF op[t].kind = "login" THEN [jar EXCEPT ![b] = op[t].token] ELSE jar
  /\ local' = [local EXCEPT ![b] = [live |-> TRUE]]
  /\ Do(t, Idle)
  /\ UNCHANGED <<now, server, act, logins, changes, history>>

\* The answer reaches the browser: the cookie and the access token are replaced.
Answer(t) ==
  LET b == BrowserOf[t] IN
  /\ op[t].step = "answer"
  /\ jar' = [jar EXCEPT ![b] = op[t].token]
  /\ local' = [local EXCEPT ![b] = [live |-> TRUE]]
  /\ Do(t, Idle)
  /\ UNCHANGED <<now, server, act, logins, changes, history>>

\* Or it does not, and the page treats it as a failure.
LoseAnswer(t) ==
  /\ op[t].step \in {"answer", "bye"}
  /\ Refused(t, op[t].kind)
  /\ single' = (single /\ op[t].step = "bye")
  /\ UNCHANGED <<now, server, jar, act, logins, changes, chosen, ended, raced>>

\* The session that ends must not come back, but for a token that stays (left) and the
\* requests that are going to save one.
Stored(u) == IF u.stored = None THEN {} ELSE {u.stored.login}
End(left) ==
  /\ ended' = ended \cup Stored(user)
  /\ raced' = ended' \cap (left \cup UNION {Saves(op[t]) : t \in Tabs})

\* Mutant: logout only clears the cookie.
LogoutCookieOnly(t) ==
  /\ op[t].step = "revoke"
  /\ Do(t, [step |-> "bye", kind |-> "logout"])
  /\ End({})
  /\ UNCHANGED <<now, company, user, client, act, logins, changes, chosen, single>>

\* logout: the stored token goes, then the cookie.
Logout(t) ==
  /\ op[t].step = "revoke"
  /\ user' = [user EXCEPT !.stored = None]
  /\ Do(t, [step |-> "bye", kind |-> "logout"])
  /\ End({})
  /\ UNCHANGED <<now, company, client, act, logins, changes, chosen, single>>

LoggedOut(t) ==
  /\ op[t].step = "bye"
  /\ jar' = [jar EXCEPT ![BrowserOf[t]] = None]
  /\ Clear(BrowserOf[t])
  /\ Do(t, Idle)
  /\ UNCHANGED <<now, server, act, logins, changes, history>>

Expire(b) ==
  /\ local[b] # None /\ local[b].live
  /\ local' = [local EXCEPT ![b].live = FALSE]
  /\ UNCHANGED <<now, server, jar, op, act, logins, changes, history>>

Tick ==
  /\ now < MaxTime /\ now' = now + 1
  /\ UNCHANGED <<server, client, op, act, logins, changes, history>>

-----------------------------------------------------------------------------
(* The administrators.                                                     *)

Change == changes < MaxChanges /\ logins + changes < MaxEvents /\ changes' = changes + 1

\* resetPassword, resetPasswordWithToken and deactivate load the user ...
LoadUser(a, kind) ==
  /\ act[a] = Idle /\ Change /\ user.exists
  /\ act' = [act EXCEPT ![a] = [step |-> "end", kind |-> kind, null |-> user.stored = None]]
  /\ UNCHANGED <<now, server, client, op, logins, history>>

\* ... and update what differs from it: a refresh token that was null is not written.
EndSessions(a) ==
  /\ act[a].step = "end"
  /\ user' = [user EXCEPT !.active = @ /\ act[a].kind = "reset",
                          !.stored = IF act[a].null THEN @ ELSE None]
  /\ act' = [act EXCEPT ![a] = Idle]
  /\ End(IF act[a].null THEN Stored(user) ELSE {})
  /\ UNCHANGED <<now, company, client, op, logins, changes, chosen, single>>

\* update (PUT /users/:id) loads the user too, to switch the account on or off or to give
\* it a new password or other fields (on is what was seen); PUT /companies/:id with a new
\* administrator password switches it on.
EditUser(a, on) ==
  /\ act[a] = Idle /\ Change /\ user.exists
  /\ act' = [act EXCEPT ![a] = [step |-> "edit", on |-> on, seen |-> user.active]]
  /\ UNCHANGED <<now, server, client, op, logins, history>>

\* The changed columns are written; the refresh token is not among them.
SaveUser(a) ==
  /\ act[a].step = "edit"
  /\ user' = [user EXCEPT !.active = IF user.exists /\ act[a].on # act[a].seen THEN act[a].on ELSE @]
  /\ act' = [act EXCEPT ![a] = Idle]
  /\ UNCHANGED <<now, company, client, op, logins, changes, history>>

\* PATCH /companies/:id/status.
SetStatus ==
  /\ Change /\ company.exists
  /\ \E v \in BOOLEAN : company' = [company EXCEPT !.active = v]
  /\ UNCHANGED <<now, user, client, op, act, logins, history>>

\* PUT /companies/:id with a new contract_end, or the day after the old one.
SetContract ==
  /\ Change /\ company.exists
  /\ \E v \in BOOLEAN : company' = [company EXCEPT !.over = v]
  /\ UNCHANGED <<now, user, client, op, act, logins, history>>

\* setCompanyFeatures deletes the rows and creates them anew: two statements.
DestroyFeatures(a, fs) ==
  /\ act[a] = Idle /\ Change /\ company.exists
  /\ company' = [company EXCEPT !.rows = NoRows]
  /\ act' = [act EXCEPT ![a] = [step |-> "features", features |-> fs]]
  /\ UNCHANGED <<now, user, client, op, logins, history>>

\* Mutant: only the enabled features get a row.
RowsOfEnabled(fs) == IF fs = {} THEN NoRows ELSE fs

\* Every feature gets a row, enabled or not.
Rows(fs) == fs

\* The unique index refuses a second set of rows.
CreateFeatures(a) ==
  LET fs == act[a].features IN
  /\ act[a].step = "features"
  /\ IF company.exists /\ company.rows = NoRows
     THEN company' = [company EXCEPT !.rows = Rows(fs)] /\ chosen' = fs
     ELSE UNCHANGED <<company, chosen>>
  /\ act' = [act EXCEPT ![a] = Idle]
  /\ UNCHANGED <<now, user, client, op, logins, changes, ended, single, raced>>

\* The process dies after the rows are deleted: the defaults are in force again.
DieClearing(a) ==
  /\ act[a].step = "features"
  /\ act' = [act EXCEPT ![a] = Idle]
  /\ chosen' = None
  /\ UNCHANGED <<now, server, client, op, logins, changes, ended, single, raced>>

\* DELETE /companies/:id, one transaction.
DeleteCompany ==
  /\ Change /\ company.exists
  /\ company' = [company EXCEPT !.exists = FALSE, !.rows = NoRows]
  /\ user' = [exists |-> FALSE, active |-> FALSE, stored |-> None]
  /\ UNCHANGED <<now, client, op, act, logins, history>>

-----------------------------------------------------------------------------
Next ==
  \/ \E t \in Tabs :
       \/ Login(t) \/ Use(t, "use") \/ Use(t, "logout") \/ Gate(t)
       \/ ShutCompany(t) \/ DisableUsers(t)
       \/ Refresh(t) \/ Reuse(t) \/ Sign(t) \/ SaveRefreshToken(t)
       \/ Answer(t) \/ LoseAnswer(t) \/ Logout(t) \/ LoggedOut(t)
  \/ \E b \in Browsers : Expire(b)
  \/ Tick
  \/ \E a \in Admins :
       \/ LoadUser(a, "reset") \/ LoadUser(a, "deactivate") \/ EndSessions(a)
       \/ \E on \in BOOLEAN : EditUser(a, on)
       \/ SaveUser(a)
       \/ \E fs \in SUBSET Features : DestroyFeatures(a, fs)
       \/ CreateFeatures(a) \/ DieClearing(a)
  \/ SetStatus \/ SetContract \/ DeleteCompany

Spec == Init /\ [][Next]_vars

-----------------------------------------------------------------------------
(* Properties.                                                             *)

\* A user who works in one page at a time is never taken for a thief: "Refresh
\* token reuse detected" (auth.service.js:281) is answered only after two pages
\* renewed the session at once, an answer was lost on its way, or the user
\* logged in from another browser.  Resets, deactivations, the end of the
\* contract and logouts in between do not raise it.
NoFalseAlarm == single => \A t \in Tabs : op[t].step # "reuse"

\* A login ended by a logout, a password reset or a deactivation cannot be renewed.
\* Whatever logins, refreshes, edits of the account and endings follow, a token of it is
\* stored again only by a request that was going to save one when sessions were last
\* ended, by an administrator who loaded the user before the token was stored, or
\* because another login signed the same first 72 bytes.  A login that was not in such a
\* race stays ended although others were.
EndedStaysEnded ==
  user.stored # None /\ user.stored.login \in ended => user.stored.login \in raced

\* While no choice of features is being written, a token is signed with exactly
\* those the super administrator last chose, all of them switched off included,
\* although no row at all means the defaults (company-feature.service.js:24-37).
FeaturesChosen ==
  company.exists /\ chosen # None /\ (\A a \in Admins : act[a].step # "features")
    => Enabled = chosen
=============================================================================
