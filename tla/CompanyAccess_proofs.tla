------------------------ MODULE CompanyAccess_proofs ------------------------
(***************************************************************************)
(* Proofs about CompanyAccess, for any number of browsers, pages,          *)
(* administrators, logins and features: when the theft of a refresh token  *)
(* is reported, that an ended session stays ended, and which features are  *)
(* in force.                                                               *)
(***************************************************************************)
EXTENDS CompanyAccess, TLAPS

-----------------------------------------------------------------------------
(* The inductive invariants.                                               *)

\* While the user works in one page at a time, one request is on its way to a token,
\* one browser has a cookie, and what the server has stored, if anything, is what is
\* in the cookie or in the answer that is going to replace it.
OnePage ==
  single =>
    /\ \A t, u \in Tabs : InSession(t) /\ InSession(u) => t = u
    /\ \A b, c \in Browsers : jar[b] # None /\ jar[c] # None => b = c
    /\ \A t \in Tabs, b \in Browsers : InSession(t) /\ b # BrowserOf[t] => jar[b] = None
    /\ \A t \in Tabs : op[t].step = "answer" /\ user.stored # None => user.stored = op[t].token
    /\ (\A t \in Tabs : op[t].step # "answer") =>
         \A b \in Browsers : jar[b] # None /\ user.stored # None => user.stored.time = jar[b].time
    /\ \A t \in Tabs : op[t].step # "reuse"

\* A deleted user has no token.
NoUserNoToken == ~user.exists => user.stored = None

\* The logins that have taken place are the only ones with tokens, and those that were
\* ended are among them.
LoginsKnown ==
  /\ ended \subseteq 1 .. logins
  /\ user.stored # None => user.stored.login <= logins
  /\ \A b \in Browsers : jar[b] # None => jar[b].login <= logins
  /\ \A t \in Tabs : /\ \A l \in Saves(op[t]) : l <= logins
                     /\ op[t].step = "answer" => op[t].token.login <= logins

\* No token of an ended login is stored or will be, but of those in a race.
NoneReturns ==
  /\ Stored(user) \cap ended \subseteq raced
  /\ \A t \in Tabs : Saves(op[t]) \cap ended \subseteq raced

\* The rows are the last choice, and when there are none, the last choice is the
\* defaults or rows are about to be created.
RowsChosen ==
  company.exists /\ chosen # None =>
    /\ company.rows # NoRows => company.rows = chosen
    /\ company.rows = NoRows => chosen = Defaults \/ \E a \in Admins : act[a].step = "features"

-----------------------------------------------------------------------------
(* What a request carries and what its next statement makes of it.         *)

Kinds == {"login", "use", "logout"}

LEMMA Carried ==
  ASSUME NEW o \in Ops
  PROVE  /\ o.step \in {"idle", "gate", "shut", "disable", "reuse", "sign", "save", "answer",
                        "revoke", "bye"}
         /\ o.step = "idle" => o = Idle
         /\ o.step = "gate" => o.kind \in Kinds /\ (o.kind = "login" => o.login \in 1 .. MaxLogins)
         /\ o.step \in {"shut", "disable"} => o = [step |-> o.step, kind |-> o.kind] /\ o.kind \in Kinds
         /\ o.step = "sign" => o.kind \in {"login", "refresh"} /\ o.login \in 1 .. MaxLogins
         /\ o.step \in {"save", "answer"} =>
              /\ o = [step |-> o.step, kind |-> o.kind, token |-> o.token]
              /\ o.kind \in {"login", "refresh"} /\ o.token \in Token
BY DEF Ops, Idle, Kinds

LEMMA OpsTypes ==
  /\ Idle \in Ops
  /\ \A l \in 1 .. MaxLogins : [step |-> "gate", kind |-> "login", login |-> l] \in Ops
  /\ \A k \in {"use", "logout"} : [step |-> "gate", kind |-> k] \in Ops
  /\ \A k \in Kinds : [step |-> "shut", kind |-> k] \in Ops /\ [step |-> "disable", kind |-> k] \in Ops
  /\ [step |-> "reuse", kind |-> "refresh"] \in Ops
  /\ \A k \in {"login", "refresh"}, l \in 1 .. MaxLogins : [step |-> "sign", kind |-> k, login |-> l] \in Ops
  /\ \A k \in {"login", "refresh"}, x \in Token :
       /\ [step |-> "save", kind |-> k, token |-> x] \in Ops
       /\ [step |-> "answer", kind |-> k, token |-> x] \in Ops
  /\ [step |-> "revoke", kind |-> "logout"] \in Ops /\ [step |-> "bye", kind |-> "logout"] \in Ops
BY DEF Ops, Kinds

LEMMA DoEffect ==
  ASSUME op \in [Tabs -> Ops], NEW t \in Tabs, NEW what \in Ops, Do(t, what)
  PROVE  /\ op' \in [Tabs -> Ops] /\ op'[t] = what
         /\ \A u \in Tabs \ {t} : op'[u] = op[u]
BY DEF Do

\* The request has an answer, or none, and is over.
Over(t) ==
  /\ op' \in [Tabs -> Ops] /\ op'[t] = Idle
  /\ \A u \in Tabs \ {t} : op'[u] = op[u]

LEMMA OverEffect ==
  ASSUME TypeOK, NEW t \in Tabs, Do(t, Idle)
  PROVE  Over(t)
BY OpsTypes, DoEffect DEF TypeOK, Over

LEMMA RefusedEffect ==
  ASSUME TypeOK, NEW t \in Tabs, NEW kind, Refused(t, kind)
  PROVE  Over(t) /\ local' \in [Browsers -> Access \cup {None}]
BY OverEffect, AccessAssumption DEF Refused, Clear, TypeOK

LEMMA LoginEffect ==
  ASSUME TypeOK, NEW t \in Tabs, Login(t)
  PROVE  /\ op[t] = Idle /\ logins' = logins + 1 /\ logins' \in 1 .. MaxLogins
         /\ op' \in [Tabs -> Ops] /\ \A u \in Tabs \ {t} : op'[u] = op[u]
         /\ op'[t].step = "gate" /\ op'[t].kind = "login" /\ op'[t].login = logins'
<1>1. logins' = logins + 1 /\ logins' \in 1 .. MaxLogins
  BY AccessAssumption DEF TypeOK, Login
<1>2. [step |-> "gate", kind |-> "login", login |-> logins'] \in Ops
  BY <1>1, OpsTypes
<1>3. /\ op' \in [Tabs -> Ops] /\ \A u \in Tabs \ {t} : op'[u] = op[u]
      /\ op'[t] = [step |-> "gate", kind |-> "login", login |-> logins']
  BY <1>2, DoEffect DEF TypeOK, Login
<1> QED
  BY <1>1, <1>3 DEF Login

LEMMA UseEffect ==
  ASSUME TypeOK, NEW t \in Tabs, NEW kind \in {"use", "logout"}, Use(t, kind)
  PROVE  /\ op[t] = Idle
         /\ op' \in [Tabs -> Ops] /\ \A u \in Tabs \ {t} : op'[u] = op[u]
         /\ op'[t].step = "gate" /\ op'[t].kind = kind
<1>1. /\ op' \in [Tabs -> Ops] /\ \A u \in Tabs \ {t} : op'[u] = op[u]
      /\ op'[t] = [step |-> "gate", kind |-> kind]
  BY OpsTypes, DoEffect DEF TypeOK, Use
<1> QED
  BY <1>1 DEF Use

LEMMA GateEffect ==
  ASSUME TypeOK, NEW t \in Tabs, Gate(t)
  PROVE  /\ op[t].step = "gate"
         /\ op' \in [Tabs -> Ops] /\ \A u \in Tabs \ {t} : op'[u] = op[u]
         /\ local' \in [Browsers -> Access \cup {None}]
         /\ \/ op'[t].step \in {"idle", "shut", "revoke"}
            \/ op[t].kind = "login" /\ op'[t].step = "sign" /\ op'[t].login = op[t].login
<1> DEFINE k == op[t].kind
<1>1. /\ op[t].step = "gate" /\ k \in Kinds
      /\ k = "login" => op[t].login \in 1 .. MaxLogins
  BY Carried DEF TypeOK, Gate
<1>2. CASE Refused(t, k)
  BY <1>1, <1>2, RefusedEffect DEF Over, Idle
<1>3. CASE Do(t, [step |-> "shut", kind |-> k]) /\ UNCHANGED local
  <2>1. [step |-> "shut", kind |-> k] \in Ops
    BY <1>1, OpsTypes
  <2>2. /\ op' \in [Tabs -> Ops] /\ \A u \in Tabs \ {t} : op'[u] = op[u]
        /\ op'[t] = [step |-> "shut", kind |-> k]
    BY <1>3, <2>1, DoEffect DEF TypeOK
  <2> QED
    BY <1>1, <1>3, <2>2 DEF TypeOK
<1>4. CASE k = "login" /\ Do(t, [step |-> "sign", kind |-> "login", login |-> op[t].login]) /\ UNCHANGED local
  <2>1. [step |-> "sign", kind |-> "login", login |-> op[t].login] \in Ops
    BY <1>1, <1>4, OpsTypes
  <2> QED
    BY <1>1, <1>4, <2>1, DoEffect DEF TypeOK
<1>5. CASE k = "logout" /\ Do(t, [step |-> "revoke", kind |-> "logout"]) /\ UNCHANGED local
  BY <1>1, <1>5, OpsTypes, DoEffect DEF TypeOK
<1>6. CASE k = "use" /\ Do(t, Idle) /\ UNCHANGED local
  BY <1>1, <1>6, OverEffect DEF TypeOK, Over, Idle
<1> QED
  BY <1>1, <1>2, <1>3, <1>4, <1>5, <1>6 DEF Gate, Kinds

LEMMA ShutEffect ==
  ASSUME TypeOK, NEW t \in Tabs, ShutCompany(t)
  PROVE  /\ op[t].step = "shut" /\ op'[t].step = "disable"
         /\ op' \in [Tabs -> Ops] /\ \A u \in Tabs \ {t} : op'[u] = op[u]
<1>1. op[t].step = "shut" /\ op[t] = [step |-> op[t].step, kind |-> op[t].kind] /\ op[t].kind \in Kinds
  BY Carried DEF TypeOK, ShutCompany
<1>2. Do(t, [step |-> "disable", kind |-> op[t].kind])
  BY <1>1 DEF ShutCompany
<1> QED
  BY <1>1, <1>2, OpsTypes, DoEffect DEF TypeOK

LEMMA RefreshEffect ==
  ASSUME TypeOK, NEW t \in Tabs, Refresh(t)
  PROVE  /\ op[t] = Idle
         /\ op' \in [Tabs -> Ops] /\ \A u \in Tabs \ {t} : op'[u] = op[u]
         /\ local' \in [Browsers -> Access \cup {None}]
         /\ LET c == jar[BrowserOf[t]] IN
            \/ op'[t] = Idle
            \/ /\ c # None /\ user.stored # None
               /\ IF user.stored.time = c.time THEN op'[t].step = "sign" /\ op'[t].login = c.login
                  ELSE op'[t].step = "reuse"
<1> DEFINE c == jar[BrowserOf[t]]
<1>1. CASE c = None \/ ~user.exists \/ ~user.active \/ user.stored = None
  <2>1. Refused(t, "refresh")
    BY <1>1 DEF Refresh
  <2> QED
    BY <2>1, RefusedEffect DEF Over, Refresh
<1>2. CASE c # None /\ user.stored # None /\ user.exists /\ user.active
  <2>1. /\ UNCHANGED local
        /\ Do(t, IF user.stored.time = c.time THEN [step |-> "sign", kind |-> "refresh", login |-> c.login]
                 ELSE [step |-> "reuse", kind |-> "refresh"])
    BY <1>2 DEF Refresh
  <2>2. c.login \in 1 .. MaxLogins
    BY <1>2, AccessAssumption DEF TypeOK, Token
  <2>3. CASE user.stored.time = c.time
    <3>1. [step |-> "sign", kind |-> "refresh", login |-> c.login] \in Ops
      BY <2>2, OpsTypes
    <3>2. /\ op' \in [Tabs -> Ops] /\ \A u \in Tabs \ {t} : op'[u] = op[u]
          /\ op'[t] = [step |-> "sign", kind |-> "refresh", login |-> c.login]
      BY <2>1, <2>3, <3>1, DoEffect DEF TypeOK
    <3> QED
      BY <1>2, <2>1, <2>3, <3>2 DEF Refresh, TypeOK
  <2>4. CASE user.stored.time # c.time
    <3>1. /\ op' \in [Tabs -> Ops] /\ \A u \in Tabs \ {t} : op'[u] = op[u]
          /\ op'[t] = [step |-> "reuse", kind |-> "refresh"]
      BY <2>1, <2>4, OpsTypes, DoEffect DEF TypeOK
    <3> QED
      BY <1>2, <2>1, <2>4, <3>1 DEF Refresh, TypeOK
  <2> QED
    BY <2>3, <2>4
<1> QED
  BY <1>1, <1>2

LEMMA SignEffect ==
  ASSUME TypeOK, NEW t \in Tabs, Sign(t)
  PROVE  /\ op[t].step = "sign" /\ op'[t].step = "save" /\ op'[t].token.login = op[t].login
         /\ op' \in [Tabs -> Ops] /\ \A u \in Tabs \ {t} : op'[u] = op[u]
<1> DEFINE token == [time |-> now, login |-> op[t].login]
<1>1. op[t].step = "sign" /\ op[t].kind \in {"login", "refresh"} /\ op[t].login \in 1 .. MaxLogins
  BY Carried DEF TypeOK, Sign
<1>2. token \in Token
  BY <1>1 DEF TypeOK, Token
<1>3. [step |-> "save", kind |-> op[t].kind, token |-> token] \in Ops
  BY <1>1, <1>2, OpsTypes
<1>4. /\ op' \in [Tabs -> Ops] /\ \A u \in Tabs \ {t} : op'[u] = op[u]
      /\ op'[t] = [step |-> "save", kind |-> op[t].kind, token |-> token]
  BY <1>3, DoEffect DEF TypeOK, Sign
<1> QED
  BY <1>1, <1>4

LEMMA SaveEffect ==
  ASSUME TypeOK, NEW t \in Tabs, SaveRefreshToken(t)
  PROVE  /\ op[t].step = "save" /\ op[t].token \in Token
         /\ op'[t].step = "answer" /\ op'[t].token = op[t].token
         /\ op' \in [Tabs -> Ops] /\ \A u \in Tabs \ {t} : op'[u] = op[u]
         /\ user'.exists = user.exists
         /\ user'.stored = IF user.exists THEN op[t].token ELSE user.stored
<1>1. /\ op[t].step = "save" /\ op[t] = [step |-> op[t].step, kind |-> op[t].kind, token |-> op[t].token]
      /\ op[t].kind \in {"login", "refresh"} /\ op[t].token \in Token
  BY Carried DEF TypeOK, SaveRefreshToken
<1>2. Do(t, [step |-> "answer", kind |-> op[t].kind, token |-> op[t].token])
  BY <1>1 DEF SaveRefreshToken
<1>3. user'.exists = user.exists /\ user'.stored = IF user.exists THEN op[t].token ELSE user.stored
  BY DEF SaveRefreshToken, TypeOK
<1>4. /\ op' \in [Tabs -> Ops] /\ \A u \in Tabs \ {t} : op'[u] = op[u]
      /\ op'[t] = [step |-> "answer", kind |-> op[t].kind, token |-> op[t].token]
  BY <1>1, <1>2, OpsTypes, DoEffect DEF TypeOK
<1> QED
  BY <1>1, <1>3, <1>4

LEMMA AnswerEffect ==
  ASSUME TypeOK, NEW t \in Tabs, Answer(t)
  PROVE  /\ op[t].step = "answer" /\ op[t].token \in Token /\ Over(t)
         /\ jar'[BrowserOf[t]] = op[t].token
         /\ \A b \in Browsers \ {BrowserOf[t]} : jar'[b] = jar[b]
         /\ jar' \in [Browsers -> Token \cup {None}]
         /\ local' \in [Browsers -> Access \cup {None}]
<1>1. op[t].step = "answer" /\ op[t].token \in Token /\ BrowserOf[t] \in Browsers
  BY Carried, AccessAssumption DEF TypeOK, Answer
<1>2. [live |-> TRUE] \in Access
  BY DEF Access
<1> QED
  BY <1>1, <1>2, OverEffect DEF Answer, TypeOK

LEMMA LogoutEffect ==
  ASSUME TypeOK, NEW t \in Tabs, Logout(t)
  PROVE  /\ op[t].step = "revoke" /\ op'[t].step = "bye"
         /\ op' \in [Tabs -> Ops] /\ \A u \in Tabs \ {t} : op'[u] = op[u]
         /\ user'.exists = user.exists /\ user'.stored = None
<1>1. /\ op' \in [Tabs -> Ops] /\ \A u \in Tabs \ {t} : op'[u] = op[u]
      /\ op'[t] = [step |-> "bye", kind |-> "logout"]
  BY OpsTypes, DoEffect DEF TypeOK, Logout
<1> QED
  BY <1>1 DEF Logout, TypeOK

-----------------------------------------------------------------------------
(* Types.                                                                  *)

LEMMA TypeInit ==
  ASSUME Init
  PROVE  TypeOK
<1>1. op \in [Tabs -> Ops] /\ act \in [Admins -> Acts]
  BY OpsTypes DEF Init, Acts
<1>2. now \in 0 .. MaxTime /\ logins \in 0 .. MaxLogins /\ changes \in 0 .. MaxChanges
  BY AccessAssumption DEF Init
<1> QED
  BY <1>1, <1>2 DEF Init, TypeOK, Defaults

LEMMA ChangeEffect ==
  ASSUME TypeOK, Change
  PROVE  changes' \in 0 .. MaxChanges
BY AccessAssumption DEF TypeOK, Change

LEMMA ActCarried ==
  ASSUME NEW o \in Acts
  PROVE  /\ o.step \in {"idle", "end", "edit", "features"}
         /\ o.step = "end" => o.null \in BOOLEAN /\ o.kind \in {"reset", "deactivate"}
         /\ o.step = "edit" => o.on \in BOOLEAN /\ o.seen \in BOOLEAN
         /\ o.step = "features" => o.features \in SUBSET Features
BY DEF Acts, Idle

LEMMA TypeStep ==
  ASSUME TypeOK, [Next]_vars
  PROVE  TypeOK'
<1> USE DEF server, client, history
<1>1. ASSUME NEW t \in Tabs, Login(t)
      PROVE  TypeOK'
  <2>1. single' \in BOOLEAN
    BY <1>1 DEF Login, TypeOK
  <2>2. logins' \in 0 .. MaxLogins
    BY <1>1, LoginEffect
  <2> QED
    BY <1>1, <2>1, <2>2, LoginEffect DEF Login, TypeOK
<1>2. ASSUME NEW t \in Tabs, NEW kind \in {"use", "logout"}, Use(t, kind)
      PROVE  TypeOK'
  BY <1>2, UseEffect DEF Use, TypeOK
<1>3. ASSUME NEW t \in Tabs, Gate(t)
      PROVE  TypeOK'
  BY <1>3, GateEffect DEF Gate, TypeOK
<1>4. ASSUME NEW t \in Tabs, ShutCompany(t)
      PROVE  TypeOK'
  BY <1>4, ShutEffect DEF ShutCompany, TypeOK
<1>5. ASSUME NEW t \in Tabs, DisableUsers(t)
      PROVE  TypeOK'
  <2>1. Over(t) /\ local' \in [Browsers -> Access \cup {None}]
    BY <1>5, RefusedEffect DEF DisableUsers
  <2> QED
    BY <1>5, <2>1 DEF DisableUsers, Over, TypeOK
<1>6. ASSUME NEW t \in Tabs, Refresh(t)
      PROVE  TypeOK'
  <2>1. single' \in BOOLEAN /\ raced' \subseteq 1 .. MaxLogins
    BY <1>6 DEF Refresh, TypeOK
  <2> QED
    BY <1>6, <2>1, RefreshEffect DEF Refresh, TypeOK
<1>7. ASSUME NEW t \in Tabs, Reuse(t)
      PROVE  TypeOK'
  <2>1. Over(t) /\ local' \in [Browsers -> Access \cup {None}]
    BY <1>7, RefusedEffect DEF Reuse
  <2> QED
    BY <1>7, <2>1 DEF Reuse, Over, TypeOK
<1>8. ASSUME NEW t \in Tabs, Sign(t)
      PROVE  TypeOK'
  BY <1>8, SignEffect DEF Sign, TypeOK
<1>9. ASSUME NEW t \in Tabs, SaveRefreshToken(t)
      PROVE  TypeOK'
  <2>2. user' \in [exists : BOOLEAN, active : BOOLEAN, stored : Token \cup {None}]
    BY <1>9, SaveEffect DEF SaveRefreshToken, TypeOK
  <2> QED
    BY <1>9, <2>2, SaveEffect DEF SaveRefreshToken, TypeOK
<1>10. ASSUME NEW t \in Tabs, Answer(t)
       PROVE  TypeOK'
  BY <1>10, AnswerEffect DEF Answer, Over, TypeOK
<1>11. ASSUME NEW t \in Tabs, LoseAnswer(t)
       PROVE  TypeOK'
  <2>1. Over(t) /\ local' \in [Browsers -> Access \cup {None}]
    BY <1>11, RefusedEffect DEF LoseAnswer
  <2>2. single' \in BOOLEAN
    BY <1>11 DEF LoseAnswer, TypeOK
  <2> QED
    BY <1>11, <2>1, <2>2 DEF LoseAnswer, Over, TypeOK
<1>12. ASSUME NEW left, End(left)
       PROVE  ended' \subseteq 1 .. MaxLogins /\ raced' \subseteq 1 .. MaxLogins
  BY <1>12 DEF End, Stored, TypeOK, Token
<1>13. ASSUME NEW t \in Tabs, Logout(t)
       PROVE  TypeOK'
  <2>1. ended' \subseteq 1 .. MaxLogins /\ raced' \subseteq 1 .. MaxLogins
    BY <1>12, <1>13 DEF Logout
  <2>2. user' \in [exists : BOOLEAN, active : BOOLEAN, stored : Token \cup {None}]
    BY <1>13 DEF Logout, TypeOK
  <2> QED
    BY <1>13, <2>1, <2>2, LogoutEffect DEF Logout, TypeOK
<1>14. ASSUME NEW t \in Tabs, LoggedOut(t)
       PROVE  TypeOK'
  <2>1. Over(t)
    BY <1>14, OverEffect DEF LoggedOut
  <2>2. /\ jar' \in [Browsers -> Token \cup {None}]
        /\ local' \in [Browsers -> Access \cup {None}]
    BY <1>14 DEF LoggedOut, Clear, TypeOK
  <2> QED
    BY <1>14, <2>1, <2>2 DEF LoggedOut, Over, TypeOK
<1>15. ASSUME NEW b \in Browsers, Expire(b)
       PROVE  TypeOK'
  <2>1. local' \in [Browsers -> Access \cup {None}]
    BY <1>15 DEF Expire, TypeOK, Access
  <2> QED
    BY <1>15, <2>1 DEF Expire, TypeOK
<1>16. ASSUME Tick
       PROVE  TypeOK'
  BY <1>16, AccessAssumption DEF Tick, TypeOK
<1>17. ASSUME NEW a \in Admins, NEW kind \in {"reset", "deactivate"}, LoadUser(a, kind)
       PROVE  TypeOK'
  <2>1. [step |-> "end", kind |-> kind, null |-> user.stored = None] \in Acts
    BY DEF Acts
  <2>2. act' \in [Admins -> Acts]
    BY <1>17, <2>1 DEF LoadUser, TypeOK
  <2> QED
    BY <1>17, <2>2, ChangeEffect DEF LoadUser, TypeOK
<1>18. ASSUME NEW a \in Admins, EndSessions(a)
       PROVE  TypeOK'
  <2>1. act' \in [Admins -> Acts]
    BY <1>18 DEF EndSessions, TypeOK, Acts
  <2>2. user' \in [exists : BOOLEAN, active : BOOLEAN, stored : Token \cup {None}]
    BY <1>18 DEF EndSessions, TypeOK
  <2>3. ended' \subseteq 1 .. MaxLogins /\ raced' \subseteq 1 .. MaxLogins
    BY <1>12, <1>18 DEF EndSessions
  <2> QED
    BY <1>18, <2>1, <2>2, <2>3 DEF EndSessions, TypeOK
<1>19. ASSUME SetStatus \/ SetContract
       PROVE  TypeOK'
  BY <1>19, ChangeEffect DEF SetStatus, SetContract, TypeOK
<1>20. ASSUME NEW a \in Admins, NEW fs \in SUBSET Features, DestroyFeatures(a, fs)
       PROVE  TypeOK'
  <2>1. act' \in [Admins -> Acts]
    BY <1>20 DEF DestroyFeatures, TypeOK, Acts
  <2> QED
    BY <1>20, <2>1, ChangeEffect DEF DestroyFeatures, TypeOK
<1>21. ASSUME NEW a \in Admins, CreateFeatures(a)
       PROVE  TypeOK'
  <2>1. act' \in [Admins -> Acts] /\ act[a].features \in SUBSET Features
    BY <1>21, ActCarried DEF CreateFeatures, TypeOK, Acts
  <2> QED
    BY <1>21, <2>1 DEF CreateFeatures, Rows, TypeOK
<1>22. ASSUME NEW a \in Admins, DieClearing(a)
       PROVE  TypeOK'
  <2>1. act' \in [Admins -> Acts]
    BY <1>22 DEF DieClearing, TypeOK, Acts
  <2> QED
    BY <1>22, <2>1 DEF DieClearing, TypeOK
<1>23. ASSUME DeleteCompany
       PROVE  TypeOK'
  BY <1>23, ChangeEffect DEF DeleteCompany, TypeOK
<1>24. CASE UNCHANGED vars
  BY <1>24 DEF vars, TypeOK
<1>25. ASSUME NEW a \in Admins, NEW on \in BOOLEAN, EditUser(a, on)
       PROVE  TypeOK'
  <2>1. [step |-> "edit", on |-> on, seen |-> user.active] \in Acts
    BY DEF Acts, TypeOK
  <2>2. act' \in [Admins -> Acts]
    BY <1>25, <2>1 DEF EditUser, TypeOK
  <2> QED
    BY <1>25, <2>2, ChangeEffect DEF EditUser, TypeOK
<1>26. ASSUME NEW a \in Admins, SaveUser(a)
       PROVE  TypeOK'
  <2>1. act' \in [Admins -> Acts]
    BY <1>26 DEF SaveUser, TypeOK, Acts
  <2>2. act[a].on \in BOOLEAN
    BY <1>26, ActCarried DEF SaveUser, TypeOK
  <2>3. user' \in [exists : BOOLEAN, active : BOOLEAN, stored : Token \cup {None}]
    BY <1>26, <2>2 DEF SaveUser, TypeOK
  <2> QED
    BY <1>26, <2>1, <2>3 DEF SaveUser, TypeOK
<1> QED
  BY <1>1, <1>2, <1>3, <1>4, <1>5, <1>6, <1>7, <1>8, <1>9, <1>10, <1>11, <1>13, <1>14, <1>15,
     <1>16, <1>17, <1>18, <1>19, <1>20, <1>21, <1>22, <1>23, <1>24, <1>25, <1>26 DEF Next

\* Cookies, stored tokens, requests on their way, features and histories have their
\* types whatever requests overlap (auth.service.js, company-feature.service.js).
THEOREM TypeCorrect == Spec => []TypeOK
<1>1. Init => TypeOK
  BY TypeInit
<1>2. TypeOK /\ [Next]_vars => TypeOK'
  BY TypeStep
<1> QED
  BY <1>1, <1>2, PTL DEF Spec

-----------------------------------------------------------------------------
(* The features.                                                           *)

LEMMA RowsInit ==
  ASSUME Init
  PROVE  RowsChosen
BY DEF Init, RowsChosen

LEMMA RowsStep ==
  ASSUME TypeOK, RowsChosen, [Next]_vars
  PROVE  RowsChosen'
<1> USE DEF server, client, history
<1>1. ASSUME company'.exists = company.exists, company'.rows = company.rows, chosen' = chosen,
             \A a \in Admins : act[a].step = "features" => act'[a].step = "features"
      PROVE  RowsChosen'
  BY <1>1 DEF RowsChosen, Defaults
<1>2. ASSUME NEW t \in Tabs, ShutCompany(t)
      PROVE  RowsChosen'
  <2>1. company'.exists = company.exists /\ company'.rows = company.rows
    BY <1>2 DEF ShutCompany, TypeOK
  <2> QED
    BY <1>1, <1>2, <2>1 DEF ShutCompany
<1>3. ASSUME NEW t \in Tabs,
             \/ Login(t) \/ Use(t, "use") \/ Use(t, "logout") \/ Gate(t)
             \/ DisableUsers(t) \/ Refresh(t) \/ Reuse(t) \/ Sign(t)
             \/ SaveRefreshToken(t) \/ Answer(t) \/ LoseAnswer(t) \/ Logout(t) \/ LoggedOut(t)
      PROVE  RowsChosen'
  <2>1. company' = company /\ chosen' = chosen /\ act' = act
    BY <1>3 DEF Login, Use, Gate, DisableUsers, Refresh, Reuse, Sign, SaveRefreshToken, Answer,
                LoseAnswer, Logout, LoggedOut
  <2> QED
    BY <1>1, <2>1
<1>4. ASSUME NEW b \in Browsers, Expire(b)
      PROVE  RowsChosen'
  BY <1>1, <1>4 DEF Expire
<1>5. ASSUME Tick \/ UNCHANGED vars
      PROVE  RowsChosen'
  BY <1>1, <1>5 DEF Tick, vars
<1>6. ASSUME SetStatus \/ SetContract
      PROVE  RowsChosen'
  <2>1. company'.exists = company.exists /\ company'.rows = company.rows
    BY <1>6 DEF SetStatus, SetContract, TypeOK
  <2> QED
    BY <1>1, <1>6, <2>1 DEF SetStatus, SetContract
<1>7. ASSUME NEW a \in Admins,
             \/ LoadUser(a, "reset") \/ LoadUser(a, "deactivate") \/ EndSessions(a)
             \/ SaveUser(a) \/ \E on \in BOOLEAN : EditUser(a, on)
      PROVE  RowsChosen'
  <2>1. company' = company /\ chosen' = chosen
    BY <1>7 DEF LoadUser, EndSessions, EditUser, SaveUser
  <2>2. \A b \in Admins : act[b].step = "features" => act'[b].step = "features"
    BY <1>7 DEF LoadUser, EndSessions, EditUser, SaveUser, TypeOK, Idle
  <2> QED
    BY <1>1, <2>1, <2>2
<1>8. ASSUME NEW a \in Admins, NEW fs \in SUBSET Features, DestroyFeatures(a, fs)
      PROVE  RowsChosen'
  <2>1. company'.rows = NoRows /\ act'[a].step = "features"
    BY <1>8 DEF DestroyFeatures, TypeOK
  <2> QED
    BY <2>1 DEF RowsChosen
<1>9. ASSUME NEW a \in Admins, CreateFeatures(a)
      PROVE  RowsChosen'
  <2>1. act[a].features \in SUBSET Features
    BY <1>9, ActCarried DEF CreateFeatures, TypeOK
  <2>2. CASE company.exists /\ company.rows = NoRows
    <3>1. company'.rows = act[a].features /\ chosen' = act[a].features
      BY <1>9, <2>2 DEF CreateFeatures, Rows, TypeOK
    <3> QED
      BY <2>1, <3>1, AccessAssumption DEF RowsChosen, NoRows
  <2>3. CASE ~(company.exists /\ company.rows = NoRows)
    <3>1. company' = company /\ chosen' = chosen
      BY <1>9, <2>3 DEF CreateFeatures
    <3> QED
      BY <2>3, <3>1 DEF RowsChosen
  <2> QED
    BY <2>2, <2>3
<1>10. ASSUME NEW a \in Admins, DieClearing(a)
       PROVE  RowsChosen'
  BY <1>10 DEF DieClearing, RowsChosen
<1>11. ASSUME DeleteCompany
       PROVE  RowsChosen'
  <2>1. ~company'.exists
    BY <1>11 DEF DeleteCompany, TypeOK
  <2> QED
    BY <2>1 DEF RowsChosen
<1> QED
  BY <1>2, <1>3, <1>4, <1>5, <1>6, <1>7, <1>8, <1>9, <1>10, <1>11 DEF Next

\* However many administrators choose features at once or die half way, the features in
\* force are those of the last choice that was written, none at all included, and a
\* company without a choice has the defaults (setCompanyFeatures and
\* getCompanyEnabledFeatures, company-feature.service.js).
THEOREM ChoiceInForce == Spec => []FeaturesChosen
<1>1. Init => TypeOK /\ RowsChosen
  BY TypeInit, RowsInit
<1>2. TypeOK /\ RowsChosen /\ [Next]_vars => (TypeOK /\ RowsChosen)'
  BY TypeStep, RowsStep
<1>3. RowsChosen => FeaturesChosen
  BY DEF RowsChosen, FeaturesChosen, Enabled
<1> QED
  BY <1>1, <1>2, <1>3, PTL DEF Spec

-----------------------------------------------------------------------------
(* Reports of theft.                                                       *)

LEMMA PageInit ==
  ASSUME Init
  PROVE  OnePage /\ NoUserNoToken
BY DEF Init, OnePage, NoUserNoToken, InSession, Idle

\* Steps that neither bring a request closer to a token nor a token to its place.
LEMMA PageQuiet ==
  ASSUME OnePage, single' => single,
         \A t \in Tabs : /\ InSession(t)' => InSession(t)
                         /\ op'[t].step = "reuse" => op[t].step = "reuse"
                         /\ op'[t].step = "answer" <=> op[t].step = "answer"
                         /\ op'[t].step = "answer" => op'[t].token = op[t].token,
         \A b \in Browsers : jar'[b] \in {jar[b], None},
         user'.stored \in {user.stored, None}
  PROVE  OnePage'
<1> SUFFICES ASSUME single, single' PROVE OnePage'
  BY DEF OnePage
<1>1. /\ \A t, u \in Tabs : InSession(t)' /\ InSession(u)' => t = u
      /\ \A b, c \in Browsers : jar'[b] # None /\ jar'[c] # None => b = c
      /\ \A t \in Tabs, b \in Browsers : InSession(t)' /\ b # BrowserOf[t] => jar'[b] = None
  BY DEF OnePage
<1>2. /\ \A t \in Tabs : op'[t].step = "answer" /\ user'.stored # None => user'.stored = op'[t].token
      /\ \A t \in Tabs : op'[t].step # "reuse"
  BY DEF OnePage
<1>3. ASSUME \A t \in Tabs : op'[t].step # "answer",
             NEW b \in Browsers, jar'[b] # None, user'.stored # None
      PROVE  user'.stored.time = jar'[b].time
  BY <1>3 DEF OnePage
<1> QED
  BY <1>1, <1>2, <1>3 DEF OnePage, InSession

\* A step of one page that is such a step.
LEMMA PageQuietStep ==
  ASSUME OnePage, NEW t \in Tabs, \A u \in Tabs \ {t} : op'[u] = op[u], single' => single,
         InSession(t)' => InSession(t), op'[t].step \notin {"reuse", "answer"},
         op[t].step # "answer",
         \A b \in Browsers : jar'[b] \in {jar[b], None},
         user'.stored \in {user.stored, None}
  PROVE  OnePage'
<1>1. \A u \in Tabs : /\ InSession(u)' => InSession(u)
                      /\ op'[u].step = "reuse" => op[u].step = "reuse"
                      /\ op'[u].step = "answer" <=> op[u].step = "answer"
                      /\ op'[u].step = "answer" => op'[u].token = op[u].token
  BY DEF InSession
<1> QED
  BY <1>1, PageQuiet

LEMMA PageStep ==
  ASSUME TypeOK, OnePage, NoUserNoToken, [Next]_vars
  PROVE  OnePage'
<1> USE DEF server, client, history
<1>1. ASSUME NEW t \in Tabs, Login(t)
      PROVE  OnePage'
  <2> SUFFICES ASSUME single, single' PROVE OnePage'
    BY <1>1 DEF Login, OnePage
  <2>1. /\ op[t] = Idle /\ op'[t].step = "gate" /\ op'[t].kind = "login"
        /\ \A u \in Tabs \ {t} : op'[u] = op[u]
        /\ jar' = jar /\ user' = user
    BY <1>1, LoginEffect DEF Login
  <2>2. /\ \A u \in Tabs \ {t} : ~InSession(u)
        /\ \A b \in Browsers \ {BrowserOf[t]} : jar[b] = None
    BY <1>1 DEF Login, Busy, TypeOK
  <2>3. \A u \in Tabs : op[u].step # "answer"
    BY <2>1, <2>2 DEF InSession, Idle
  <2>4. /\ \A u \in Tabs \ {t} : ~InSession(u)'
        /\ \A u \in Tabs : op'[u].step \notin {"answer", "reuse"}
    BY <2>1, <2>2, <2>3 DEF InSession
  <2>5. \A b \in Browsers : jar[b] # None /\ user.stored # None => user.stored.time = jar[b].time
    BY <2>3 DEF OnePage
  <2> QED
    BY <2>1, <2>2, <2>4, <2>5 DEF OnePage
<1>2. ASSUME NEW t \in Tabs, NEW kind \in {"use", "logout"}, Use(t, kind)
      PROVE  OnePage'
  BY <1>2, UseEffect, PageQuietStep DEF Use, InSession, Idle
<1>3. ASSUME NEW t \in Tabs, Gate(t)
      PROVE  OnePage'
  <2>1. /\ op'[t].step \notin {"reuse", "answer"} /\ op[t].step # "answer"
        /\ InSession(t)' => InSession(t)
    BY <1>3, GateEffect DEF InSession
  <2> QED
    BY <1>3, <2>1, GateEffect, PageQuietStep DEF Gate
<1>4. ASSUME NEW t \in Tabs, ShutCompany(t)
      PROVE  OnePage'
  BY <1>4, ShutEffect, PageQuietStep DEF ShutCompany, InSession
<1>5. ASSUME NEW t \in Tabs, DisableUsers(t)
      PROVE  OnePage'
  <2>1. Over(t) /\ op[t].step = "disable" /\ single' = single /\ jar' = jar /\ user'.stored = None
    BY <1>5, RefusedEffect DEF DisableUsers, TypeOK
  <2> QED
    BY <2>1, PageQuietStep DEF Over, InSession, Idle
<1>6. ASSUME NEW t \in Tabs, Refresh(t)
      PROVE  OnePage'
  <2> SUFFICES ASSUME single, single' PROVE OnePage'
    BY <1>6 DEF Refresh, OnePage
  <2> DEFINE c == jar[BrowserOf[t]]
  <2>1. /\ op[t] = Idle /\ \A u \in Tabs \ {t} : op'[u] = op[u]
        /\ jar' = jar /\ user' = user /\ BrowserOf[t] \in Browsers
    BY <1>6, RefreshEffect, AccessAssumption DEF Refresh
  <2>2. \A u \in Tabs \ {t} : ~InSession(u)
    BY <1>6 DEF Refresh, Busy, TypeOK
  <2>3. \A u \in Tabs : op[u].step # "answer"
    BY <2>1, <2>2 DEF InSession, Idle
  <2>4. \A b \in Browsers : jar[b] # None /\ user.stored # None => user.stored.time = jar[b].time
    BY <2>3 DEF OnePage
  <2>5. \/ op'[t] = Idle
        \/ c # None /\ op'[t].step = "sign"
    BY <1>6, <2>1, <2>4, RefreshEffect
  <2>6. /\ \A u \in Tabs \ {t} : ~InSession(u)'
        /\ \A u \in Tabs : op'[u].step \notin {"answer", "reuse"}
        /\ InSession(t)' => c # None
    BY <2>1, <2>2, <2>3, <2>5 DEF InSession, Idle
  <2>7. \A b \in Browsers : InSession(t)' /\ b # BrowserOf[t] => jar[b] = None
    BY <2>1, <2>6 DEF OnePage
  <2> QED
    BY <2>1, <2>4, <2>6, <2>7 DEF OnePage
<1>7. ASSUME NEW t \in Tabs, Reuse(t)
      PROVE  OnePage'
  <2>1. op[t].step = "reuse" /\ single' = single
    BY <1>7 DEF Reuse
  <2> QED
    BY <2>1 DEF OnePage
<1>8. ASSUME NEW t \in Tabs, Sign(t)
      PROVE  OnePage'
  <2>1. /\ op'[t].step \notin {"reuse", "answer"} /\ op[t].step # "answer"
        /\ InSession(t)' => InSession(t)
    BY <1>8, SignEffect DEF InSession
  <2> QED
    BY <1>8, <2>1, SignEffect, PageQuietStep DEF Sign
<1>9. ASSUME NEW t \in Tabs, SaveRefreshToken(t)
      PROVE  OnePage'
  <2> SUFFICES ASSUME single, single' PROVE OnePage'
    BY <1>9 DEF SaveRefreshToken, OnePage
  <2>1. /\ op[t].step = "save" /\ op'[t].step = "answer" /\ op'[t].token = op[t].token
        /\ \A u \in Tabs \ {t} : op'[u] = op[u]
        /\ jar' = jar
        /\ user'.stored = IF user.exists THEN op[t].token ELSE user.stored
    BY <1>9, SaveEffect DEF SaveRefreshToken
  <2>2. user'.stored # None => user'.stored = op[t].token
    BY <2>1 DEF NoUserNoToken, TypeOK
  <2>3. InSession(t) /\ InSession(t)'
    BY <2>1 DEF InSession
  <2>4. \A u \in Tabs \ {t} : ~InSession(u) /\ ~InSession(u)'
    BY <2>1, <2>3 DEF OnePage, InSession
  <2>5. \A u \in Tabs \ {t} : op'[u].step \notin {"answer", "reuse"}
    BY <2>4 DEF InSession
  <2> QED
    BY <2>1, <2>2, <2>3, <2>4, <2>5 DEF OnePage
<1>10. ASSUME NEW t \in Tabs, Answer(t)
       PROVE  OnePage'
  <2> SUFFICES ASSUME single, single' PROVE OnePage'
    BY <1>10 DEF Answer, OnePage
  <2>1. /\ op[t].step = "answer" /\ op'[t] = Idle /\ \A u \in Tabs \ {t} : op'[u] = op[u]
        /\ jar'[BrowserOf[t]] = op[t].token /\ user' = user /\ BrowserOf[t] \in Browsers
        /\ \A b \in Browsers \ {BrowserOf[t]} : jar'[b] = jar[b]
    BY <1>10, AnswerEffect, AccessAssumption DEF Answer, Over
  <2>2. InSession(t) /\ ~InSession(t)'
    BY <2>1 DEF InSession, Idle
  <2>3. \A u \in Tabs : ~InSession(u)'
    BY <2>1, <2>2 DEF OnePage, InSession
  <2>4. \A b \in Browsers \ {BrowserOf[t]} : jar'[b] = None
    BY <2>1, <2>2 DEF OnePage
  <2>5. user.stored # None => user.stored = op[t].token
    BY <2>1 DEF OnePage
  <2>6. \A u \in Tabs : op'[u].step \notin {"answer", "reuse"}
    BY <2>3 DEF InSession
  <2> QED
    BY <2>1, <2>3, <2>4, <2>5, <2>6 DEF OnePage
<1>11. ASSUME NEW t \in Tabs, LoseAnswer(t)
       PROVE  OnePage'
  <2>1. /\ Over(t) /\ jar' = jar /\ user' = user
        /\ single' = (single /\ op[t].step = "bye") /\ op[t].step \in {"answer", "bye"}
    BY <1>11, RefusedEffect DEF LoseAnswer
  <2>2. CASE op[t].step = "answer"
    BY <2>1, <2>2 DEF OnePage
  <2>3. CASE op[t].step = "bye"
    <3>1. single' => single
      BY <2>1
    <3>2. op'[t].step = "idle" /\ ~InSession(t)' /\ \A u \in Tabs \ {t} : op'[u] = op[u]
      BY <2>1 DEF Over, InSession, Idle
    <3> QED
      BY <2>1, <2>3, <3>1, <3>2, PageQuietStep
  <2> QED
    BY <2>1, <2>2, <2>3
<1>12. ASSUME NEW t \in Tabs, Logout(t)
       PROVE  OnePage'
  <2>1. /\ op'[t].step \notin {"reuse", "answer"} /\ op[t].step # "answer"
        /\ InSession(t)' => InSession(t)
    BY <1>12, LogoutEffect DEF InSession
  <2> QED
    BY <1>12, <2>1, LogoutEffect, PageQuietStep DEF Logout
<1>13. ASSUME NEW t \in Tabs, LoggedOut(t)
       PROVE  OnePage'
  <2>1. /\ Over(t) /\ op[t].step = "bye" /\ single' = single /\ user' = user
        /\ \A b \in Browsers : jar'[b] \in {jar[b], None}
    BY <1>13, OverEffect DEF LoggedOut, TypeOK
  <2> QED
    BY <2>1, PageQuietStep DEF Over, InSession, Idle
<1>14. ASSUME op' = op, jar' = jar, single' = single, user'.stored \in {user.stored, None}
       PROVE  OnePage'
  BY <1>14, PageQuiet DEF InSession
<1>15. ASSUME NEW b \in Browsers, Expire(b)
       PROVE  OnePage'
  BY <1>14, <1>15 DEF Expire
<1>16. ASSUME Tick \/ SetStatus \/ SetContract \/ UNCHANGED vars
       PROVE  OnePage'
  BY <1>14, <1>16 DEF Tick, SetStatus, SetContract, vars
<1>17. ASSUME NEW a \in Admins,
              \/ LoadUser(a, "reset") \/ LoadUser(a, "deactivate")
              \/ \E on \in BOOLEAN : EditUser(a, on)
              \/ \E fs \in SUBSET Features : DestroyFeatures(a, fs)
              \/ CreateFeatures(a) \/ DieClearing(a)
       PROVE  OnePage'
  BY <1>14, <1>17 DEF LoadUser, EditUser, DestroyFeatures, CreateFeatures, DieClearing
<1>18. ASSUME NEW a \in Admins, EndSessions(a) \/ SaveUser(a)
       PROVE  OnePage'
  <2>1. user'.stored \in {user.stored, None}
    BY <1>18 DEF EndSessions, SaveUser, TypeOK
  <2> QED
    BY <1>14, <1>18, <2>1 DEF EndSessions, SaveUser
<1>19. ASSUME DeleteCompany
       PROVE  OnePage'
  <2>1. user'.stored \in {user.stored, None}
    BY <1>19 DEF DeleteCompany, TypeOK
  <2> QED
    BY <1>14, <1>19, <2>1 DEF DeleteCompany
<1> QED
  BY <1>1, <1>2, <1>3, <1>4, <1>5, <1>6, <1>7, <1>8, <1>9, <1>10, <1>11, <1>12, <1>13, <1>15,
     <1>16, <1>17, <1>18, <1>19 DEF Next

\* The user's row is gone for good, and the token with it.
LEMMA DeletedStep ==
  ASSUME TypeOK, NoUserNoToken, [Next]_vars
  PROVE  NoUserNoToken'
<1> USE DEF server, client, history
<1>1. ASSUME user'.exists = user.exists, user.exists \/ user'.stored \in {user.stored, None}
      PROVE  NoUserNoToken'
  BY <1>1 DEF NoUserNoToken
<1>2. ASSUME NEW t \in Tabs, SaveRefreshToken(t)
      PROVE  NoUserNoToken'
  BY <1>1, <1>2, SaveEffect DEF TypeOK
<1>3. ASSUME NEW t \in Tabs, DisableUsers(t) \/ Reuse(t) \/ Logout(t)
      PROVE  NoUserNoToken'
  BY <1>1, <1>3 DEF DisableUsers, Reuse, Logout, TypeOK
<1>4. ASSUME NEW a \in Admins, EndSessions(a) \/ SaveUser(a)
      PROVE  NoUserNoToken'
  BY <1>1, <1>4 DEF EndSessions, SaveUser, TypeOK
<1>5. ASSUME DeleteCompany
      PROVE  NoUserNoToken'
  BY <1>1, <1>5 DEF DeleteCompany, NoUserNoToken, TypeOK
<1>6. ASSUME user' = user
      PROVE  NoUserNoToken'
  BY <1>1, <1>6
<1>7. ASSUME NEW t \in Tabs,
             \/ Login(t) \/ Use(t, "use") \/ Use(t, "logout") \/ Gate(t) \/ ShutCompany(t)
             \/ Refresh(t) \/ Sign(t) \/ Answer(t) \/ LoseAnswer(t) \/ LoggedOut(t)
      PROVE  NoUserNoToken'
  BY <1>6, <1>7 DEF Login, Use, Gate, ShutCompany, Refresh, Sign, Answer, LoseAnswer, LoggedOut
<1>8. ASSUME NEW a \in Admins,
             \/ LoadUser(a, "reset") \/ LoadUser(a, "deactivate")
             \/ \E on \in BOOLEAN : EditUser(a, on)
             \/ \E fs \in SUBSET Features : DestroyFeatures(a, fs)
             \/ CreateFeatures(a) \/ DieClearing(a)
      PROVE  NoUserNoToken'
  BY <1>6, <1>8 DEF LoadUser, EditUser, DestroyFeatures, CreateFeatures, DieClearing
<1>9. ASSUME Tick \/ SetStatus \/ SetContract \/ UNCHANGED vars \/ \E b \in Browsers : Expire(b)
      PROVE  NoUserNoToken'
  BY <1>6, <1>9 DEF Tick, SetStatus, SetContract, vars, Expire
<1> QED
  BY <1>2, <1>3, <1>4, <1>5, <1>7, <1>8, <1>9 DEF Next

\* The server reports the reuse of a refresh token only after pages have renewed the
\* session at once, an answer was lost or the user has logged in from another browser,
\* whatever administrators and logouts do in between (refresh, auth.service.js).
THEOREM ThievesOnly == Spec => []NoFalseAlarm
<1>1. Init => TypeOK /\ NoUserNoToken /\ OnePage
  BY TypeInit, PageInit
<1>2. TypeOK /\ NoUserNoToken /\ OnePage /\ [Next]_vars => (TypeOK /\ NoUserNoToken /\ OnePage)'
  BY TypeStep, DeletedStep, PageStep
<1>3. OnePage => NoFalseAlarm
  BY DEF OnePage, NoFalseAlarm
<1> QED
  BY <1>1, <1>2, <1>3, PTL DEF Spec

-----------------------------------------------------------------------------
(* Ended sessions.                                                         *)

LEMMA SavesOf ==
  ASSUME NEW o \in Ops
  PROVE  /\ Saves(o) \subseteq 1 .. MaxLogins
         /\ o.step = "save" => Saves(o) = {o.token.login}
         /\ o.step = "sign" \/ (o.step = "gate" /\ o.kind = "login") => Saves(o) = {o.login}
         /\ ~(o.step \in {"save", "sign"} \/ (o.step = "gate" /\ o.kind = "login")) => Saves(o) = {}
BY Carried DEF Saves, Token

LEMMA EndedInit ==
  ASSUME Init
  PROVE  LoginsKnown /\ NoneReturns
<1>1. \A t \in Tabs : Saves(op[t]) = {} /\ op[t].step = "idle"
  BY DEF Init, Saves, Idle
<1> QED
  BY <1>1 DEF Init, LoginsKnown, NoneReturns, Stored

\* No login, no new token and no end of a session.
EndedQuiet ==
  /\ logins' = logins /\ ended' = ended /\ raced \subseteq raced'
  /\ user'.stored \in {user.stored, None}
  /\ \A b \in Browsers : jar'[b] \in {jar[b], None}

LEMMA QuietEffect ==
  ASSUME LoginsKnown, NoneReturns, EndedQuiet,
         \A t \in Tabs : /\ Saves(op'[t]) \subseteq Saves(op[t])
                         /\ op'[t].step = "answer" =>
                              \/ op[t].step = "answer" /\ op'[t].token = op[t].token
                              \/ Saves(op[t]) = {op'[t].token.login}
  PROVE  LoginsKnown' /\ NoneReturns'
<1>1. LoginsKnown'
  BY DEF LoginsKnown, EndedQuiet
<1>2. NoneReturns'
  BY DEF NoneReturns, Stored, EndedQuiet
<1> QED
  BY <1>1, <1>2

LEMMA QuietStep ==
  ASSUME LoginsKnown, NoneReturns, EndedQuiet, NEW t \in Tabs, \A u \in Tabs \ {t} : op'[u] = op[u],
         Saves(op'[t]) \subseteq Saves(op[t]), op'[t].step # "answer"
  PROVE  LoginsKnown' /\ NoneReturns'
<1>1. \A u \in Tabs : /\ Saves(op'[u]) \subseteq Saves(op[u])
                      /\ op'[u].step = "answer" => op[u].step = "answer" /\ op'[u].token = op[u].token
  BY DEF EndedQuiet
<1> QED
  BY <1>1, QuietEffect

\* A session ends: what is left of it and what is on its way to be saved is in a race.
LEMMA EndStep ==
  ASSUME TypeOK, LoginsKnown, NEW left, End(left),
         logins' = logins, jar' = jar,
         \A t \in Tabs : /\ Saves(op'[t]) = Saves(op[t])
                         /\ op'[t].step = "answer" => op[t].step = "answer" /\ op'[t].token = op[t].token,
         user'.stored \in {user.stored, None}, Stored(user') \subseteq left
  PROVE  LoginsKnown' /\ NoneReturns'
<1>1. LoginsKnown'
  <2>1. Stored(user) \subseteq 1 .. logins
    BY DEF TypeOK, Token, Stored, LoginsKnown
  <2>2. ended' \subseteq 1 .. logins
    BY <2>1 DEF End, LoginsKnown
  <2> QED
    BY <2>2 DEF LoginsKnown
<1>2. NoneReturns'
  BY DEF NoneReturns, End
<1> QED
  BY <1>1, <1>2

LEMMA EndedStep ==
  ASSUME TypeOK, LoginsKnown, NoneReturns, [Next]_vars
  PROVE  LoginsKnown' /\ NoneReturns'
<1> USE DEF server, client, history
<1>0. op \in [Tabs -> Ops] /\ op' \in [Tabs -> Ops] /\ Saves(Idle) = {}
  BY TypeStep DEF TypeOK, Saves, Idle
<1>1. ASSUME NEW t \in Tabs, Login(t)
      PROVE  LoginsKnown' /\ NoneReturns'
  <2>1. /\ \A u \in Tabs \ {t} : op'[u] = op[u]
        /\ op'[t].step = "gate" /\ op'[t].kind = "login" /\ op'[t].login = logins + 1
        /\ logins' = logins + 1 /\ ended' = ended /\ user' = user /\ jar' = jar /\ act' = act
        /\ raced' = raced
    BY <1>1, LoginEffect DEF Login
  <2>2. Saves(op'[t]) = {logins + 1}
    BY <1>0, <2>1, SavesOf
  <2>3. logins \in Int /\ ended \subseteq 1 .. logins
    BY DEF TypeOK, LoginsKnown
  <2>4. logins + 1 \notin ended /\ ended \subseteq 1 .. (logins + 1)
    BY <2>3
  <2>5. /\ user.stored # None => user.stored.login <= logins + 1
        /\ \A b \in Browsers : jar[b] # None => jar[b].login <= logins + 1
    BY <2>3 DEF LoginsKnown, TypeOK, Token
  <2>6. ASSUME NEW u \in Tabs \ {t}
        PROVE  /\ \A l \in Saves(op[u]) : l <= logins + 1
               /\ op[u].step = "answer" => op[u].token.login <= logins + 1
    <3>1. op[u] \in Ops
      BY <1>0
    <3>2. \A l \in Saves(op[u]) : l \in Int
      BY <3>1, SavesOf, Carried DEF Token
    <3>3. op[u].step = "answer" => op[u].token.login \in Int
      BY <3>1, Carried DEF Token
    <3> QED
      BY <2>3, <3>2, <3>3 DEF LoginsKnown
  <2>7. LoginsKnown'
    BY <2>1, <2>2, <2>3, <2>4, <2>5, <2>6 DEF LoginsKnown
  <2>8. NoneReturns'
    BY <2>1, <2>2, <2>4 DEF NoneReturns
  <2> QED
    BY <2>7, <2>8
<1>2. ASSUME NEW t \in Tabs, NEW kind \in {"use", "logout"}, Use(t, kind)
      PROVE  LoginsKnown' /\ NoneReturns'
  <2>1. EndedQuiet
    BY <1>2 DEF Use, EndedQuiet
  <2>2. /\ \A u \in Tabs \ {t} : op'[u] = op[u]
        /\ op'[t].step # "answer" /\ Saves(op'[t]) = {}
    BY <1>0, <1>2, UseEffect, SavesOf
  <2> QED
    BY <2>1, <2>2, QuietStep
<1>3. ASSUME NEW t \in Tabs, Gate(t)
      PROVE  LoginsKnown' /\ NoneReturns'
  <2>1. EndedQuiet
    BY <1>3 DEF Gate, EndedQuiet
  <2>2. /\ \A u \in Tabs \ {t} : op'[u] = op[u]
        /\ op[t].step = "gate"
        /\ \/ op'[t].step \in {"idle", "shut", "revoke"}
           \/ op[t].kind = "login" /\ op'[t].step = "sign" /\ op'[t].login = op[t].login
    BY <1>3, GateEffect
  <2>3. op'[t].step # "answer" /\ Saves(op'[t]) \subseteq Saves(op[t])
    BY <1>0, <2>2, SavesOf
  <2> QED
    BY <2>1, <2>2, <2>3, QuietStep
<1>4. ASSUME NEW t \in Tabs, ShutCompany(t)
      PROVE  LoginsKnown' /\ NoneReturns'
  <2>1. EndedQuiet
    BY <1>4 DEF ShutCompany, EndedQuiet
  <2>2. /\ \A u \in Tabs \ {t} : op'[u] = op[u]
        /\ op'[t].step # "answer" /\ Saves(op'[t]) = {}
    BY <1>0, <1>4, ShutEffect, SavesOf
  <2> QED
    BY <2>1, <2>2, QuietStep
<1>5. ASSUME NEW t \in Tabs, Over(t), EndedQuiet
      PROVE  LoginsKnown' /\ NoneReturns'
  <2>1. op'[t].step # "answer" /\ Saves(op'[t]) = {} /\ \A u \in Tabs \ {t} : op'[u] = op[u]
    BY <1>0, <1>5 DEF Over, Idle
  <2> QED
    BY <1>5, <2>1, QuietStep
<1>6. ASSUME NEW t \in Tabs, DisableUsers(t) \/ Reuse(t)
      PROVE  LoginsKnown' /\ NoneReturns'
  <2>1. Over(t)
    BY <1>6, RefusedEffect DEF DisableUsers, Reuse
  <2>2. user'.stored = None
    BY <1>6 DEF DisableUsers, Reuse, TypeOK
  <2>3. EndedQuiet
    BY <1>6, <2>2 DEF DisableUsers, Reuse, EndedQuiet
  <2> QED
    BY <1>5, <2>1, <2>3
<1>7. ASSUME NEW t \in Tabs, Refresh(t)
      PROVE  LoginsKnown' /\ NoneReturns'
  <2> DEFINE c == jar[BrowserOf[t]]
  <2>1. /\ \A u \in Tabs \ {t} : op'[u] = op[u]
        /\ \/ op'[t] = Idle
           \/ /\ c # None /\ user.stored # None
              /\ IF user.stored.time = c.time THEN op'[t].step = "sign" /\ op'[t].login = c.login
                 ELSE op'[t].step = "reuse"
    BY <1>7, RefreshEffect
  <2>2. /\ logins' = logins /\ ended' = ended /\ user' = user /\ jar' = jar /\ act' = act
        /\ raced' = IF c # None /\ user.stored # None /\ user.stored.time = c.time
                          /\ user.stored.login # c.login
                     THEN raced \cup (ended \cap {c.login}) ELSE raced
    BY <1>7 DEF Refresh
  <2>3. EndedQuiet
    BY <2>2 DEF EndedQuiet
  <2>4. CASE op'[t] = Idle \/ op'[t].step = "reuse"
    <3>1. op'[t].step # "answer" /\ Saves(op'[t]) = {}
      BY <1>0, <2>4, SavesOf DEF Idle
    <3> QED
      BY <2>1, <2>3, <3>1, QuietStep
  <2>5. CASE /\ c # None /\ user.stored # None /\ user.stored.time = c.time
             /\ op'[t].step = "sign" /\ op'[t].login = c.login
    <3>1. Saves(op'[t]) = {c.login} /\ BrowserOf[t] \in Browsers
      BY <1>0, <2>5, SavesOf, AccessAssumption
    <3>2. LoginsKnown'
      BY <2>1, <2>2, <2>5, <3>1 DEF LoginsKnown
    <3>3. {c.login} \cap ended \subseteq raced'
      BY <2>2, <2>5 DEF NoneReturns, Stored
    <3>4. NoneReturns'
      BY <2>1, <2>2, <3>1, <3>3 DEF NoneReturns
    <3> QED
      BY <3>2, <3>4
  <2> QED
    BY <2>1, <2>4, <2>5
<1>8. ASSUME NEW t \in Tabs, Sign(t)
      PROVE  LoginsKnown' /\ NoneReturns'
  <2>1. EndedQuiet
    BY <1>8 DEF Sign, EndedQuiet
  <2>2. /\ \A u \in Tabs \ {t} : op'[u] = op[u]
        /\ op[t].step = "sign" /\ op'[t].step = "save" /\ op'[t].token.login = op[t].login
    BY <1>8, SignEffect
  <2>3. Saves(op'[t]) = Saves(op[t])
    BY <1>0, <2>2, SavesOf
  <2> QED
    BY <2>1, <2>2, <2>3, QuietStep
<1>9. ASSUME NEW t \in Tabs, SaveRefreshToken(t)
      PROVE  LoginsKnown' /\ NoneReturns'
  <2>1. /\ op[t].step = "save" /\ op'[t].step = "answer" /\ op'[t].token = op[t].token
        /\ \A u \in Tabs \ {t} : op'[u] = op[u]
        /\ user'.stored = IF user.exists THEN op[t].token ELSE user.stored
    BY <1>9, SaveEffect
  <2>2. logins' = logins /\ ended' = ended /\ jar' = jar /\ raced' = raced
    BY <1>9 DEF SaveRefreshToken
  <2>3. Saves(op[t]) = {op[t].token.login} /\ Saves(op'[t]) = {}
    BY <1>0, <2>1, SavesOf
  <2>4. op[t].token.login <= logins
    BY <2>3 DEF LoginsKnown
  <2>5. LoginsKnown'
    BY <2>1, <2>2, <2>3, <2>4 DEF LoginsKnown
  <2>6. NoneReturns'
    BY <2>1, <2>2, <2>3 DEF NoneReturns, Stored
  <2> QED
    BY <2>5, <2>6
<1>10. ASSUME NEW t \in Tabs, Answer(t)
       PROVE  LoginsKnown' /\ NoneReturns'
  <2>1. /\ op[t].step = "answer" /\ op'[t] = Idle /\ \A u \in Tabs \ {t} : op'[u] = op[u]
        /\ jar'[BrowserOf[t]] = op[t].token
        /\ \A b \in Browsers \ {BrowserOf[t]} : jar'[b] = jar[b]
    BY <1>10, AnswerEffect DEF Over
  <2>2. logins' = logins /\ ended' = ended /\ user' = user /\ raced' = raced
    BY <1>10 DEF Answer
  <2>3. Saves(op'[t]) = {} /\ op'[t].step # "answer"
    BY <1>0, <2>1 DEF Idle
  <2>4. LoginsKnown'
    BY <2>1, <2>2, <2>3 DEF LoginsKnown
  <2>5. NoneReturns'
    BY <2>1, <2>2, <2>3 DEF NoneReturns
  <2> QED
    BY <2>4, <2>5
<1>11. ASSUME NEW t \in Tabs, LoseAnswer(t)
       PROVE  LoginsKnown' /\ NoneReturns'
  <2>1. Over(t)
    BY <1>11, RefusedEffect DEF LoseAnswer
  <2>2. EndedQuiet
    BY <1>11 DEF LoseAnswer, EndedQuiet
  <2> QED
    BY <1>5, <2>1, <2>2
<1>12. ASSUME NEW t \in Tabs, Logout(t)
       PROVE  LoginsKnown' /\ NoneReturns'
  <2>1. /\ op[t].step = "revoke" /\ op'[t].step = "bye" /\ \A u \in Tabs \ {t} : op'[u] = op[u]
        /\ user'.stored = None
    BY <1>12, LogoutEffect
  <2>2. End({}) /\ logins' = logins /\ jar' = jar /\ Stored(user') = {}
    BY <1>12, <2>1 DEF Logout, Stored
  <2>3. Saves(op[t]) = {} /\ Saves(op'[t]) = {}
    BY <1>0, <2>1, SavesOf
  <2>4. \A u \in Tabs : /\ Saves(op'[u]) = Saves(op[u])
                        /\ op'[u].step = "answer" => op[u].step = "answer" /\ op'[u].token = op[u].token
    BY <2>1, <2>3
  <2> QED
    BY <2>1, <2>2, <2>4, EndStep
<1>13. ASSUME NEW t \in Tabs, LoggedOut(t)
       PROVE  LoginsKnown' /\ NoneReturns'
  <2>1. Over(t)
    BY <1>13, OverEffect DEF LoggedOut
  <2>2. \A b \in Browsers : jar'[b] \in {jar[b], None}
    BY <1>13 DEF LoggedOut, TypeOK
  <2>3. EndedQuiet
    BY <1>13, <2>2 DEF LoggedOut, EndedQuiet
  <2> QED
    BY <1>5, <2>1, <2>3
<1>14. ASSUME op' = op, EndedQuiet
       PROVE  LoginsKnown' /\ NoneReturns'
  BY <1>14, QuietEffect
<1>15. ASSUME Tick \/ SetStatus \/ SetContract \/ UNCHANGED vars \/ \E b \in Browsers : Expire(b)
       PROVE  LoginsKnown' /\ NoneReturns'
  BY <1>14, <1>15 DEF Tick, SetStatus, SetContract, Expire, vars, EndedQuiet
<1>16. ASSUME DeleteCompany
       PROVE  LoginsKnown' /\ NoneReturns'
  <2>1. user'.stored \in {user.stored, None}
    BY <1>16 DEF DeleteCompany, TypeOK
  <2> QED
    BY <1>14, <1>16, <2>1 DEF DeleteCompany, EndedQuiet
<1>17. ASSUME NEW a \in Admins,
              \/ LoadUser(a, "reset") \/ LoadUser(a, "deactivate") \/ SaveUser(a)
              \/ \E on \in BOOLEAN : EditUser(a, on)
              \/ CreateFeatures(a) \/ DieClearing(a) \/ \E fs \in SUBSET Features : DestroyFeatures(a, fs)
       PROVE  LoginsKnown' /\ NoneReturns'
  <2>1. /\ op' = op /\ logins' = logins /\ ended' = ended /\ raced' = raced /\ jar' = jar
        /\ user'.stored = user.stored
    BY <1>17 DEF LoadUser, EditUser, SaveUser, CreateFeatures, DieClearing, DestroyFeatures, TypeOK
  <2> QED
    BY <1>14, <2>1 DEF EndedQuiet
<1>18. ASSUME NEW a \in Admins, EndSessions(a)
       PROVE  LoginsKnown' /\ NoneReturns'
  <2> DEFINE left == IF act[a].null THEN Stored(user) ELSE {}
  <2>1. End(left) /\ op' = op /\ jar' = jar /\ logins' = logins
    BY <1>18 DEF EndSessions
  <2>2. user'.stored = IF act[a].null THEN user.stored ELSE None
    BY <1>18 DEF EndSessions, TypeOK
  <2>3. Stored(user') \subseteq left
    BY <2>2 DEF Stored
  <2> QED
    BY <2>1, <2>2, <2>3, EndStep
<1> QED
  BY <1>1, <1>2, <1>3, <1>4, <1>6, <1>7, <1>8, <1>9, <1>10, <1>11, <1>12, <1>13, <1>15, <1>16,
     <1>17, <1>18 DEF Next

\* A login that was ended by a logout, a reset or a deactivation has no stored token
\* again, but through a request that was on its way to one when sessions were last ended,
\* an ending that had loaded the user without a token, or a login signed alike (logout
\* and saveRefreshToken, auth.service.js; resetPassword, deactivate and update,
\* user.service.js).
THEOREM NoReturn == Spec => []EndedStaysEnded
<1>1. Init => TypeOK /\ LoginsKnown /\ NoneReturns
  BY TypeInit, EndedInit
<1>2. TypeOK /\ LoginsKnown /\ NoneReturns /\ [Next]_vars => (TypeOK /\ LoginsKnown /\ NoneReturns)'
  BY TypeStep, EndedStep
<1>3. NoneReturns => EndedStaysEnded
  BY DEF NoneReturns, Stored, EndedStaysEnded
<1> QED
  BY <1>1, <1>2, <1>3, PTL DEF Spec
=============================================================================
