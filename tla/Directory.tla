----------------------------- MODULE Directory -----------------------------
(***************************************************************************)
(* The employees of a company and the user accounts linked to them         *)
(* (backend/src/services/employee.service.js and user.service.js): hiring, *)
(* renumbering and dismissing, the import of a person found on a           *)
(* fingerprint device with the account it creates, and administration of   *)
(* accounts.  Dismissed employees keep their row and their number.         *)
(*                                                                         *)
(* A handler checks with one statement and writes with a later one.  The   *)
(* checks before a write are one step: what happens between two of them    *)
(* is caught by the unique index exactly as what happens after them.       *)
(***************************************************************************)
EXTENDS Handlers, Sequences, FiniteSets

CONSTANTS
  Numbers,       \* biometric numbers
  Addresses,     \* addresses an administrator types in
  AddressOf,     \* the portal address made from a number, without its punctuation
  Legacy,        \* addresses of the form an older importer made
  MaxEmployees,  \* bound: rows of employees
  MaxUsers,      \* bound: rows of users
  Tomb,          \* the number that a dismissed employee's is replaced by
  None

ASSUME DirectoryAssumption ==
  /\ AddressOf \in [Numbers -> Addresses]
  /\ Legacy \subseteq Addresses
  /\ MaxEmployees \in Nat /\ MaxUsers \in Nat \ {0}
  /\ Tomb \notin Numbers
  /\ None \notin Numbers \cup 1 .. MaxEmployees
  /\ IsFiniteSet(Handlers)

VARIABLES
  employees,  \* rows: employee_number, and whether deleted_at is NULL
  users,      \* rows: employee_id, email, role ADMIN, and whether the row was deleted
  watch,      \* history of each request under way: see the properties
  raced       \* history: employees two requests were giving an account at once

vars == <<server, employees, users, watch, raced>>
table == <<employees, users>>

Ids == 1 .. MaxEmployees
\* The address made from the number, or with the id behind it, or from the id.
Portal(n, e) == <<AddressOf[n], <<AddressOf[n], e>>, <<e>> >>
Emails == Addresses \cup (Addresses \X Ids) \cup {<<e>> : e \in Ids}

Employee == [num : Numbers \cup {Tomb}, live : BOOLEAN]
User == [employee : Ids \cup {None}, email : Emails, admin : BOOLEAN, gone : BOOLEAN]

Ops ==
  {Idle}
    \cup [at : {"insert"}, num : Numbers, import : BOOLEAN]
    \cup [at : {"refused"}, num : Numbers]
    \cup [at : {"rename"}, id : Ids, num : Numbers]
    \cup [at : {"findLinked", "choose"}, id : Ids, num : Numbers]
    \cup [at : {"imported"}, id : Ids, num : Numbers, warned : BOOLEAN]
    \cup [at : {"portal"}, id : Ids, num : Numbers, email : Emails]
    \cup [at : {"insertUser"}, id : Ids \cup {None}, num : Numbers \cup {None},
          email : Addresses, admin : BOOLEAN]
    \cup [at : {"writeLink"}, user : 1 .. MaxUsers, was : Ids \cup {None}, id : Ids \cup {None}]
    \cup [at : {"writeEmail"}, user : 1 .. MaxUsers, email : Addresses]
    \cup [at : {"writeRole"}, user : 1 .. MaxUsers, was : BOOLEAN, admin : BOOLEAN]
    \cup [at : {"destroy"}, user : 1 .. MaxUsers]

Unseen == [nums |-> {}, linked |-> {}, beaten |-> FALSE, full |-> FALSE]

\* A company starts with its first administrator.
Init ==
  /\ InitHandlers
  /\ employees = <<>>
  /\ \E a \in Addresses :
       users = <<[employee |-> None, email |-> a, admin |-> TRUE, gone |-> FALSE]>>
  /\ watch = [h \in Handlers |-> Unseen]
  /\ raced = {}

Live == {e \in DOMAIN employees : employees[e].live}
LiveWith(n) == {e \in Live : employees[e].num = n}
Held(n) == \E e \in DOMAIN employees : employees[e].num = n

Accounts == {u \in DOMAIN users : ~users[u].gone}
Taken == {users[u].email : u \in Accounts}
LinkedTo(e) == {u \in Accounts : users[u].employee = e}
Admins == {u \in Accounts : users[u].admin}

\* With the unique indexes on the number of all employees and on the address.
TypeOK ==
  /\ op \in [Handlers -> Ops]
  /\ requests \in 0 .. MaxRequests /\ deaths \in 0 .. MaxDeaths
  /\ employees \in Seq(Employee) /\ Len(employees) <= MaxEmployees
  /\ users \in Seq(User) /\ Len(users) <= MaxUsers
  /\ watch \in [Handlers -> [nums : SUBSET Numbers, linked : SUBSET Ids,
                              beaten : BOOLEAN, full : BOOLEAN]]
  /\ raced \subseteq Ids
  /\ \A n \in Numbers : Cardinality({e \in DOMAIN employees : employees[e].num = n}) <= 1
  /\ Cardinality(Taken) = Cardinality(Accounts)

-----------------------------------------------------------------------------
(* Employees.                                                              *)

\* Mutant: a dismissed employee keeps the number.
NotReclaimed(n) == employees

\* reclaimEmployeeNumberForCompany: the number of a dismissed employee is free again.
Reclaimed(n) ==
  [e \in DOMAIN employees |->
     IF ~employees[e].live /\ employees[e].num = n THEN [employees[e] EXCEPT !.num = Tomb]
     ELSE employees[e]]

\* create: the number is reclaimed and looked up among the employees that are there ...
CheckNumber(h, n, found) ==
  /\ employees' = Reclaimed(n)
  /\ Do(h, IF LiveWith(n) # {} THEN [at |-> "refused", num |-> n] ELSE found)
  /\ UNCHANGED users

Hire(h, n) ==
  /\ Arrive(h)
  /\ CheckNumber(h, n, [at |-> "insert", num |-> n, import |-> FALSE])

\* ... and the row inserted, which the unique index over all rows may refuse.
Insert(h) ==
  LET n == op[h].num IN
  /\ At(h, "insert")
  /\ IF Held(n)
     THEN Do(h, [at |-> "refused", num |-> n]) /\ UNCHANGED employees
     ELSE /\ Len(employees) < MaxEmployees
          /\ employees' = Append(employees, [num |-> n, live |-> TRUE])
          /\ Do(h, IF op[h].import
                   THEN [at |-> "findLinked", id |-> Len(employees) + 1, num |-> n] ELSE Idle)
  /\ UNCHANGED users

\* update: the new number is only looked up among the employees that are there.
Renumber(h, e, n) ==
  /\ Arrive(h)
  /\ e \in Live /\ employees[e].num # n /\ LiveWith(n) = {}
  /\ Do(h, [at |-> "rename", id |-> e, num |-> n])
  /\ UNCHANGED table

WriteNumber(h) ==
  /\ At(h, "rename")
  /\ employees' = IF Held(op[h].num) THEN employees
                  ELSE [employees EXCEPT ![op[h].id].num = op[h].num]
  /\ Do(h, Idle)
  /\ UNCHANGED users

\* The account of a dismissed employee stays.
SoftDelete(h, e) ==
  /\ Arrive(h)
  /\ e \in Live
  /\ employees' = [employees EXCEPT ![e].live = FALSE]
  /\ UNCHANGED <<op, users>>

-----------------------------------------------------------------------------
(* Import of a person from a device.                                       *)

\* upsertFromZkUser: an employee with the number is used, or one is created.
Upsert(h, n) ==
  /\ Arrive(h)
  /\ \/ \E e \in LiveWith(n) :
          Do(h, [at |-> "findLinked", id |-> e, num |-> n]) /\ UNCHANGED table
     \/ /\ LiveWith(n) = {}
        /\ CheckNumber(h, n, [at |-> "insert", num |-> n, import |-> TRUE])

\* The answer of an import says nothing of the account.
Imported(h, warned) ==
  Do(h, [at |-> "imported", id |-> op[h].id, num |-> op[h].num, warned |-> warned])

\* The company or its EMPLOYEE role is not found, or a statement of
\* ensurePortalUserAfterZkImport fails: at most a warning is logged.
PortalFails(h) ==
  /\ \E step \in {"findLinked", "choose", "portal"} : At(h, step)
  /\ Imported(h, TRUE)
  /\ UNCHANGED table

\* ensurePortalUserAfterZkImport: an account that is linked is kept, with the
\* address made from the number if it has one of the old form ...
FindLinked(h) ==
  LET e == op[h].id
      a == AddressOf[op[h].num]
  IN  /\ At(h, "findLinked")
      /\ \/ \E u \in LinkedTo(e) :
              /\ users' = IF users[u].email \in Legacy \ {a} /\ a \notin Taken
                          THEN [users EXCEPT ![u].email = a] ELSE users
              /\ Imported(h, FALSE)
         \/ /\ LinkedTo(e) = {}
            /\ Do(h, [op[h] EXCEPT !.at = "choose"])
            /\ UNCHANGED users
      /\ UNCHANGED employees

\* Mutant: the address is made from the number, whoever has it.
AddressAnyway(n, e) == AddressOf[n]

\* ... or the first address nobody has is looked for, the last without looking ...
FreeAddress(n, e) ==
  LET p == Portal(n, e) IN
  IF p[1] \notin Taken THEN p[1] ELSE IF p[2] \notin Taken THEN p[2] ELSE p[3]

ChooseAddress(h) ==
  /\ At(h, "choose")
  /\ Do(h, [at |-> "portal", id |-> op[h].id, num |-> op[h].num,
            email |-> FreeAddress(op[h].num, op[h].id)])
  /\ UNCHANGED table

Account(e, email, admin) == [employee |-> e, email |-> email, admin |-> admin, gone |-> FALSE]

\* ... and the account created.  The unique index may refuse it: that error is
\* swallowed too.
CreatePortalUser(h) ==
  /\ At(h, "portal")
  /\ \/ op[h].email \in Taken /\ UNCHANGED users
     \/ /\ op[h].email \notin Taken /\ Len(users) < MaxUsers
        /\ users' = Append(users, Account(op[h].id, op[h].email, FALSE))
  /\ Imported(h, FALSE)
  /\ UNCHANGED employees

Answer(h) ==
  /\ op[h].at \in {"imported", "refused"}
  /\ Do(h, Idle)
  /\ UNCHANGED <<requests, deaths, table>>

-----------------------------------------------------------------------------
(* Accounts.                                                               *)

\* create for nobody, or for an employee who has none ...
CreateUser(h, email, admin, e) ==
  /\ Arrive(h)
  /\ email \notin Taken
  /\ e # None => e \in Live /\ LinkedTo(e) = {}
  /\ Do(h, [at |-> "insertUser", id |-> e, num |-> None, email |-> email, admin |-> admin])
  /\ UNCHANGED table

\* ... or together with a new employee (auto_employee).
CreateUserAndEmployee(h, email, n) ==
  /\ Arrive(h)
  /\ email \notin Taken
  /\ CheckNumber(h, n, [at |-> "insertUser", id |-> None, num |-> n, email |-> email,
                        admin |-> FALSE])

\* One transaction: both rows or none.
InsertUser(h) ==
  LET n == op[h].num
      hires == n # None
      e == IF hires THEN Len(employees) + 1 ELSE op[h].id
  IN  /\ At(h, "insertUser")
      /\ IF hires /\ Held(n) THEN Do(h, [at |-> "refused", num |-> n]) /\ UNCHANGED table
         ELSE IF op[h].email \in Taken THEN Do(h, Idle) /\ UNCHANGED table
         ELSE /\ Len(users) < MaxUsers /\ (hires => Len(employees) < MaxEmployees)
              /\ users' = Append(users, Account(e, op[h].email, op[h].admin))
              /\ employees' = IF hires THEN Append(employees, [num |-> n, live |-> TRUE])
                              ELSE employees
              /\ Do(h, Idle)

\* Mutant: whether the employee has another account is not asked.
LinkAnyway(h, u, e) ==
  /\ e # None => e \in Live
  /\ Do(h, [at |-> "writeLink", user |-> u, was |-> users[u].employee, id |-> e])

\* update loads the account, checks the new value ...
Link(h, u, e) ==
  /\ e # None => e \in Live /\ LinkedTo(e) \subseteq {u}
  /\ Do(h, [at |-> "writeLink", user |-> u, was |-> users[u].employee, id |-> e])

UpdateUser(h, u) ==
  /\ Arrive(h)
  /\ u \in Accounts
  /\ \/ \E e \in DOMAIN employees \cup {None} : Link(h, u, e)
     \/ \E a \in Addresses \ Taken : Do(h, [at |-> "writeEmail", user |-> u, email |-> a])
     \/ \E admin \in BOOLEAN :
          Do(h, [at |-> "writeRole", user |-> u, was |-> users[u].admin, admin |-> admin])
  /\ UNCHANGED table

\* ... and writes it if it differs from the loaded one, into a row that may be gone.
WriteUser(h) ==
  LET u == op[h].user IN
  /\ users' = CASE op[h].at = "writeLink" /\ op[h].was # op[h].id ->
                     [users EXCEPT ![u].employee = op[h].id]
                [] op[h].at = "writeEmail" /\ op[h].email \notin Taken ->
                     [users EXCEPT ![u].email = op[h].email]
                [] op[h].at = "writeRole" /\ op[h].was # op[h].admin ->
                     [users EXCEPT ![u].admin = op[h].admin]
                [] OTHER -> users
  /\ \E step \in {"writeLink", "writeEmail", "writeRole"} : At(h, step)
  /\ Do(h, Idle)
  /\ UNCHANGED employees

\* permanentDelete, by somebody else: the last administrator is refused ...
MayGo(u) == users[u].admin => Cardinality(Admins) > 1

Delete(h, u) ==
  /\ Arrive(h)
  /\ u \in Accounts /\ MayGo(u)
  /\ Do(h, [at |-> "destroy", user |-> u])
  /\ UNCHANGED table

\* ... and the row destroyed later.
Destroy(h) ==
  /\ At(h, "destroy")
  /\ users' = [users EXCEPT ![op[h].user].gone = TRUE]
  /\ Do(h, Idle)
  /\ UNCHANGED employees

-----------------------------------------------------------------------------
Request(h) ==
  \/ \E n \in Numbers : Hire(h, n) \/ Upsert(h, n)
  \/ \E e \in Live : SoftDelete(h, e) \/ \E n \in Numbers : Renumber(h, e, n)
  \/ \E a \in Addresses, admin \in BOOLEAN, e \in DOMAIN employees \cup {None} :
       CreateUser(h, a, admin, e)
  \/ \E a \in Addresses, n \in Numbers : CreateUserAndEmployee(h, a, n)
  \/ \E u \in Accounts : UpdateUser(h, u) \/ Delete(h, u)

Step(h) ==
  \/ Insert(h) \/ WriteNumber(h)
  \/ FindLinked(h) \/ ChooseAddress(h) \/ CreatePortalUser(h) \/ PortalFails(h) \/ Answer(h)
  \/ InsertUser(h) \/ WriteUser(h) \/ Destroy(h)
  \/ Die(h) /\ UNCHANGED table

\* What has happened since a request arrived: numbers that an employee who is
\* there had or that were given to anybody, employees who had an account, whether
\* somebody took the address it had chosen, and whether all were taken when it chose.
Watch ==
  watch' = [h \in Handlers |->
    LET past == IF op[h] = Idle THEN Unseen ELSE watch[h] IN
    IF op'[h] = Idle THEN Unseen ELSE
    [nums |-> past.nums \cup {n \in Numbers : LiveWith(n)' # {} \/ (~Held(n) /\ Held(n)')},
     linked |-> past.linked \cup {e \in DOMAIN employees' : LinkedTo(e)' # {}},
     beaten |-> past.beaten
                \/ (op[h] = op'[h] /\ op[h].at = "portal" /\ op[h].email \in Taken' \ Taken),
     full |-> past.full
              \/ (op[h].at = "choose" /\ op'[h].at = "portal"
                    /\ \A i \in 1 .. 3 : Portal(op[h].num, op[h].id)[i] \in Taken)]]

Linking(e) ==
  {h \in Handlers : op[h].at \in {"choose", "portal", "insertUser", "writeLink"} /\ op[h].id = e}

Histories ==
  /\ Watch
  /\ raced' = raced \cup {e \in Ids : Cardinality(Linking(e)') > 1}

Next == (\E h \in Handlers : Request(h) \/ Step(h)) /\ Histories

Spec == Init /\ [][Next]_vars

-----------------------------------------------------------------------------
(* Properties.                                                             *)

\* "An employee can only have one user account" (user.service.js:146): imports,
\* creations and links may interleave as they like, only two that give the same
\* employee an account at once can make it two.
OneAccount == \A e \in DOMAIN employees : e \notin raced => Cardinality(LinkedTo(e)) <= 1

\* "Soft-deleted employees still block the same number" until it is reclaimed
\* (employee.service.js:124): a number is only refused to a new employee if
\* somebody who was there had it, or anybody was given it, during the request.
NumbersReusable ==
  \A h \in Handlers : op[h].at = "refused" => op[h].num \in watch[h].nums

\* "ensure they can log in" (employee.service.js:283): an import that answers and
\* whose statements did not fail left the employee with an account, also when the
\* number belonged to somebody else before, when its address is taken, or when two
\* numbers make one address, unless somebody took the address the import had just
\* chosen, or all three were taken when it chose.  What fails is only logged.
ImportedCanLogIn ==
  \A h \in Handlers : op[h].at = "imported" =>
    \/ op[h].id \in watch[h].linked
    \/ op[h].warned \/ watch[h].beaten \/ watch[h].full
=============================================================================
