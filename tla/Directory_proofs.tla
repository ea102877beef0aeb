-------------------------- MODULE Directory_proofs --------------------------
(***************************************************************************)
(* Proofs about Directory, for any number of requests at once, deaths,     *)
(* employees, accounts, numbers and addresses: who has which account,      *)
(* whether a number is free, and whether an import left an account.        *)
(***************************************************************************)
EXTENDS Directory, FiniteSetTheorems, SequenceTheorems, TLAPS

-----------------------------------------------------------------------------
(* The inductive invariants.                                               *)

\* The two unique indexes.
NumbersUnique ==
  \A n \in Numbers : \A d, e \in DOMAIN employees :
    employees[d].num = n /\ employees[e].num = n => d = e
EmailsUnique == \A t, u \in Accounts : users[t].email = users[u].email => t = u

Types ==
  /\ op \in [Handlers -> Ops]
  /\ requests \in 0 .. MaxRequests /\ deaths \in 0 .. MaxDeaths
  /\ employees \in Seq(Employee) /\ Len(employees) <= MaxEmployees
  /\ users \in Seq(User) /\ Len(users) <= MaxUsers
  /\ watch \in [Handlers -> [nums : SUBSET Numbers, linked : SUBSET Ids,
                              beaten : BOOLEAN, full : BOOLEAN]]
  /\ raced \subseteq Ids

\* A row that was found is still there, dismissed or deleted at the most.
Known(o) ==
  /\ o.at \in {"rename", "findLinked", "choose", "imported", "portal"} => o.id \in DOMAIN employees
  /\ o.at \in {"insertUser", "writeLink"} => o.id \in DOMAIN employees \cup {None}
  /\ o.at \in {"writeLink", "writeEmail", "writeRole", "destroy"} => o.user \in DOMAIN users

RowsKnown ==
  /\ \A h \in Handlers : Known(op[h])
  /\ \A u \in DOMAIN users : users[u].employee \in DOMAIN employees \cup {None}

Sane == Types /\ NumbersUnique /\ EmailsUnique /\ RowsKnown

\* One request gives an employee an account, and while it does nobody else has
\* given the employee one.
OneGiver ==
  \A e \in Ids \ raced :
    /\ \A t, u \in LinkedTo(e) : t = u
    /\ \A g, h \in Linking(e) : g = h
    /\ \A h \in Linking(e) :
         IF op[h].at = "writeLink" THEN LinkedTo(e) \subseteq {op[h].user} ELSE LinkedTo(e) = {}

\* A number that was found free is free, or it was given away since.
Hires(o) == o.at = "insert" \/ (o.at = "insertUser" /\ o.num # None)

NumbersFree ==
  \A h \in Handlers : Hires(op[h]) /\ Held(op[h].num) => op[h].num \in watch[h].nums

\* The address that was chosen is free, or it was taken since or had to be.
AddressFree ==
  \A h \in Handlers :
    op[h].at = "portal" => op[h].email \notin Taken \/ watch[h].beaten \/ watch[h].full

IInv ==
  /\ Sane /\ OneGiver
  /\ NumbersFree /\ NumbersReusable
  /\ AddressFree /\ ImportedCanLogIn

-----------------------------------------------------------------------------
(* What a request under way carries.                                       *)

LEMMA Carried ==
  ASSUME NEW o \in Ops
  PROVE  /\ o.at \in {"idle", "insert", "refused", "rename", "findLinked", "choose", "imported",
                      "portal", "insertUser", "writeLink", "writeEmail", "writeRole", "destroy"}
         /\ o.at \in {"insert", "refused", "rename", "findLinked", "choose", "imported", "portal"} =>
              o.num \in Numbers
         /\ o.at = "insert" => o.import \in BOOLEAN
         /\ o.at \in {"rename", "findLinked", "choose", "imported", "portal"} => o.id \in Ids
         /\ o.at = "portal" => o.email \in Emails
         /\ o.at = "imported" => o.warned \in BOOLEAN
         /\ o.at = "insertUser" => /\ o.id \in Ids \cup {None} /\ o.num \in Numbers \cup {None}
                                   /\ o.email \in Addresses /\ o.admin \in BOOLEAN
         /\ o.at \in {"writeLink", "writeEmail", "writeRole", "destroy"} => o.user \in 1 .. MaxUsers
         /\ o.at = "writeLink" => o.id \in Ids \cup {None}
         /\ o.at = "writeEmail" => o.email \in Addresses
         /\ o.at = "writeRole" => o.was \in BOOLEAN /\ o.admin \in BOOLEAN
BY DEF Ops, Idle

LEMMA OpsTypes ==
  /\ Idle \in Ops
  /\ \A n \in Numbers :
       /\ [at |-> "refused", num |-> n] \in Ops
       /\ \A b \in BOOLEAN : [at |-> "insert", num |-> n, import |-> b] \in Ops
       /\ \A e \in Ids :
            /\ [at |-> "rename", id |-> e, num |-> n] \in Ops
            /\ \A step \in {"findLinked", "choose"} : [at |-> step, id |-> e, num |-> n] \in Ops
            /\ \A b \in BOOLEAN :
                 [at |-> "imported", id |-> e, num |-> n, warned |-> b] \in Ops
            /\ \A a \in Emails : [at |-> "portal", id |-> e, num |-> n, email |-> a] \in Ops
  /\ \A e \in Ids \cup {None}, n \in Numbers \cup {None}, a \in Addresses, b \in BOOLEAN :
       [at |-> "insertUser", id |-> e, num |-> n, email |-> a, admin |-> b] \in Ops
  /\ \A u \in 1 .. MaxUsers :
       /\ [at |-> "destroy", user |-> u] \in Ops
       /\ \A d, e \in Ids \cup {None} :
            [at |-> "writeLink", user |-> u, was |-> d, id |-> e] \in Ops
       /\ \A a \in Addresses : [at |-> "writeEmail", user |-> u, email |-> a] \in Ops
       /\ \A b, c \in BOOLEAN : [at |-> "writeRole", user |-> u, was |-> b, admin |-> c] \in Ops
BY DEF Ops

LEMMA DoEffect ==
  ASSUME op \in [Handlers -> Ops], NEW h \in Handlers, NEW what \in Ops, Do(h, what)
  PROVE  /\ op' \in [Handlers -> Ops]
         /\ op'[h] = what
         /\ \A g \in Handlers \ {h} : op'[g] = op[g]
BY DEF Do

LEMMA AtMostOne ==
  ASSUME NEW S, IsFiniteSet(S)
  PROVE  Cardinality(S) <= 1 <=> \A x, y \in S : x = y
<1>1. ASSUME NEW x \in S, NEW y \in S, x # y
      PROVE  ~(Cardinality(S) <= 1)
  <2>1. IsFiniteSet({x}) /\ Cardinality({x}) = 1
    BY FS_Singleton
  <2> DEFINE T == {x}
  <2>2. IsFiniteSet(T \cup {y}) /\ Cardinality(T \cup {y}) = 2
    <3>1. IsFiniteSet(T) /\ Cardinality(T) = 1 /\ y \notin T
      BY <1>1, <2>1
    <3> HIDE DEF T
    <3> QED
      BY <3>1, FS_AddElement
  <2>3. Cardinality(T \cup {y}) <= Cardinality(S) /\ Cardinality(S) \in Nat
    BY <2>2, FS_Subset, FS_CardinalityType
  <2> QED
    BY <2>2, <2>3
<1>2. ASSUME \A x, y \in S : x = y
      PROVE  Cardinality(S) <= 1
  <2>1. CASE S = {}
    BY <2>1, FS_EmptySet
  <2>2. CASE S # {}
    <3>1. PICK x \in S : S = {x}
      BY <1>2, <2>2
    <3> QED
      BY <3>1, FS_Singleton
  <2> QED
    BY <2>1, <2>2
<1>3. Cardinality(S) <= 1 => \A x, y \in S : x = y
  BY <1>1
<1> QED
  BY <1>2, <1>3

-----------------------------------------------------------------------------
(* What a statement does to the rows of the employees ...                  *)

LEMMA EmployeeRows ==
  ASSUME employees \in Seq(Employee), Len(employees) <= MaxEmployees
  PROVE  /\ Len(employees) \in Nat /\ DOMAIN employees = 1 .. Len(employees)
         /\ DOMAIN employees \subseteq Ids
         /\ employees \in [DOMAIN employees -> Employee]
         /\ \A e \in DOMAIN employees :
              employees[e].num \in Numbers \cup {Tomb} /\ employees[e].live \in BOOLEAN
<1>1. employees \in [1 .. Len(employees) -> Employee] /\ Len(employees) \in Nat
  BY LenProperties
<1>2. 1 .. Len(employees) \subseteq Ids
  BY <1>1, DirectoryAssumption DEF Ids
<1> QED
  BY <1>1, <1>2 DEF Employee

\* Rows that are only changed keep their places.
LEMMA EmployeesChanged ==
  ASSUME employees \in Seq(Employee), Len(employees) <= MaxEmployees,
         employees' \in [DOMAIN employees -> Employee]
  PROVE  /\ employees' \in Seq(Employee) /\ Len(employees') <= MaxEmployees
         /\ DOMAIN employees' = DOMAIN employees
<1>1. Len(employees) \in Nat /\ DOMAIN employees = 1 .. Len(employees)
  BY LenProperties
<1>2. employees' \in Seq(Employee)
  BY <1>1, SeqDef
<1>3. DOMAIN employees' = 1 .. Len(employees') /\ Len(employees') \in Nat
  BY <1>2, LenProperties
<1>4. Len(employees') = Len(employees)
  BY <1>1, <1>3
<1> QED
  BY <1>2, <1>4

EmployeesSound ==
  /\ employees' \in Seq(Employee) /\ Len(employees') <= MaxEmployees /\ NumbersUnique'
  /\ DOMAIN employees \subseteq DOMAIN employees'

LEMMA EmployeesSame ==
  ASSUME Sane, UNCHANGED employees
  PROVE  EmployeesSound
BY DEF Sane, Types, NumbersUnique, EmployeesSound

LEMMA ReclaimEffect ==
  ASSUME Sane, NEW n \in Numbers, employees' = Reclaimed(n)
  PROVE  /\ EmployeesSound
         /\ DOMAIN employees' = DOMAIN employees
         /\ LiveWith(n) # {} => LiveWith(n)' # {}
         /\ LiveWith(n) = {} => ~Held(n)'
<1>1. /\ employees \in Seq(Employee) /\ Len(employees) <= MaxEmployees
      /\ employees \in [DOMAIN employees -> Employee]
  BY EmployeeRows DEF Sane, Types
<1>2. /\ DOMAIN employees' = DOMAIN employees
      /\ \A e \in DOMAIN employees :
           employees'[e] = IF ~employees[e].live /\ employees[e].num = n
                           THEN [employees[e] EXCEPT !.num = Tomb] ELSE employees[e]
  BY DEF Reclaimed
<1>3. \A e \in DOMAIN employees :
        /\ employees'[e] \in Employee
        /\ employees'[e].live = employees[e].live
        /\ employees'[e].num = IF ~employees[e].live /\ employees[e].num = n
                               THEN Tomb ELSE employees[e].num
  BY <1>1, <1>2 DEF Employee
<1>4. employees' \in [DOMAIN employees -> Employee]
  BY <1>1, <1>3 DEF Reclaimed
<1>5. employees' \in Seq(Employee) /\ Len(employees') <= MaxEmployees
  BY <1>1, <1>4, EmployeesChanged
<1>6. NumbersUnique'
  <2> SUFFICES ASSUME NEW m \in Numbers, NEW d \in DOMAIN employees', NEW e \in DOMAIN employees',
                      employees'[d].num = m, employees'[e].num = m
               PROVE  d = e
    BY DEF NumbersUnique
  <2>1. employees[d].num = m /\ employees[e].num = m
    BY <1>2, <1>3, DirectoryAssumption
  <2> QED
    BY <1>2, <2>1 DEF Sane, NumbersUnique
<1>7. LiveWith(n) # {} => LiveWith(n)' # {}
  BY <1>2, <1>3 DEF LiveWith, Live
<1>8. LiveWith(n) = {} => ~Held(n)'
  BY <1>2, <1>3, DirectoryAssumption DEF LiveWith, Live, Held
<1> QED
  BY <1>2, <1>5, <1>6, <1>7, <1>8 DEF EmployeesSound

LEMMA HireEffect ==
  ASSUME Sane, NEW n \in Numbers, ~Held(n), Len(employees) < MaxEmployees,
         employees' = Append(employees, [num |-> n, live |-> TRUE])
  PROVE  /\ EmployeesSound
         /\ Len(employees) + 1 \in DOMAIN employees' /\ Len(employees) + 1 \in Ids
         /\ Len(employees) + 1 \notin DOMAIN employees
<1> DEFINE row == [num |-> n, live |-> TRUE]
<1>1. row \in Employee
  BY DEF Employee
<1>2. /\ employees \in Seq(Employee) /\ Len(employees) \in Nat
      /\ DOMAIN employees = 1 .. Len(employees)
  BY LenProperties DEF Sane, Types
<1>3. employees' = Append(employees, row) /\ row.num = n
  OBVIOUS
<1> HIDE DEF row
<1>4. /\ employees' \in Seq(Employee) /\ Len(employees') = Len(employees) + 1
      /\ \A e \in 1 .. Len(employees) : employees'[e] = employees[e]
      /\ employees'[Len(employees) + 1] = row
  BY <1>1, <1>2, <1>3, AppendProperties
<1>5. DOMAIN employees' = 1 .. Len(employees) + 1
  BY <1>4, LenProperties
<1>6. /\ DOMAIN employees' = DOMAIN employees \cup {Len(employees) + 1}
      /\ Len(employees) + 1 \notin DOMAIN employees
  BY <1>2, <1>5
<1>7. NumbersUnique'
  BY <1>2, <1>3, <1>4, <1>6 DEF NumbersUnique, Sane, Held
<1>8. Len(employees') <= MaxEmployees /\ Len(employees) + 1 \in Ids
  BY <1>2, <1>4, DirectoryAssumption DEF Ids
<1> QED
  BY <1>4, <1>6, <1>7, <1>8 DEF EmployeesSound

LEMMA RenumberEffect ==
  ASSUME Sane, NEW n \in Numbers, NEW d \in DOMAIN employees, ~Held(n),
         employees' = [employees EXCEPT ![d].num = n]
  PROVE  EmployeesSound
<1>1. /\ employees \in Seq(Employee) /\ Len(employees) <= MaxEmployees
      /\ employees \in [DOMAIN employees -> Employee]
  BY EmployeeRows DEF Sane, Types
<1>2. /\ employees' \in [DOMAIN employees -> Employee]
      /\ \A e \in DOMAIN employees :
           employees'[e].num = IF e = d THEN n ELSE employees[e].num
  BY <1>1 DEF Employee
<1>3. employees' \in Seq(Employee) /\ Len(employees') <= MaxEmployees
      /\ DOMAIN employees' = DOMAIN employees
  BY <1>1, <1>2, EmployeesChanged
<1>4. NumbersUnique'
  BY <1>2, <1>3 DEF NumbersUnique, Sane, Held
<1> QED
  BY <1>3, <1>4 DEF EmployeesSound

LEMMA DismissEffect ==
  ASSUME Sane, NEW d \in DOMAIN employees, employees' = [employees EXCEPT ![d].live = FALSE]
  PROVE  EmployeesSound
<1>1. /\ employees \in Seq(Employee) /\ Len(employees) <= MaxEmployees
      /\ employees \in [DOMAIN employees -> Employee]
  BY EmployeeRows DEF Sane, Types
<1>2. /\ employees' \in [DOMAIN employees -> Employee]
      /\ \A e \in DOMAIN employees : employees'[e].num = employees[e].num
  BY <1>1 DEF Employee
<1>3. employees' \in Seq(Employee) /\ Len(employees') <= MaxEmployees
      /\ DOMAIN employees' = DOMAIN employees
  BY <1>1, <1>2, EmployeesChanged
<1>4. NumbersUnique'
  BY <1>2, <1>3 DEF NumbersUnique, Sane
<1> QED
  BY <1>3, <1>4 DEF EmployeesSound

-----------------------------------------------------------------------------
(* ... and to the accounts.                                                *)

LEMMA UserRows ==
  ASSUME users \in Seq(User), Len(users) <= MaxUsers
  PROVE  /\ Len(users) \in Nat /\ DOMAIN users = 1 .. Len(users)
         /\ DOMAIN users \subseteq 1 .. MaxUsers
         /\ users \in [DOMAIN users -> User]
         /\ \A u \in DOMAIN users :
              /\ users[u].employee \in Ids \cup {None} /\ users[u].email \in Emails
              /\ users[u].admin \in BOOLEAN /\ users[u].gone \in BOOLEAN
<1>1. users \in [1 .. Len(users) -> User] /\ Len(users) \in Nat
  BY LenProperties
<1>2. 1 .. Len(users) \subseteq 1 .. MaxUsers
  BY <1>1, DirectoryAssumption
<1> QED
  BY <1>1, <1>2 DEF User

LEMMA UsersChanged ==
  ASSUME users \in Seq(User), Len(users) <= MaxUsers, users' \in [DOMAIN users -> User]
  PROVE  /\ users' \in Seq(User) /\ Len(users') <= MaxUsers
         /\ DOMAIN users' = DOMAIN users
<1>1. Len(users) \in Nat /\ DOMAIN users = 1 .. Len(users)
  BY LenProperties
<1>2. users' \in Seq(User)
  BY <1>1, SeqDef
<1>3. DOMAIN users' = 1 .. Len(users') /\ Len(users') \in Nat
  BY <1>2, LenProperties
<1>4. Len(users') = Len(users)
  BY <1>1, <1>3
<1> QED
  BY <1>2, <1>4

UsersSound ==
  /\ users' \in Seq(User) /\ Len(users') <= MaxUsers /\ EmailsUnique'
  /\ DOMAIN users \subseteq DOMAIN users'
  /\ \A u \in DOMAIN users' : users'[u].employee \in DOMAIN employees' \cup {None}

LEMMA UsersSame ==
  ASSUME Sane, DOMAIN employees \subseteq DOMAIN employees', UNCHANGED users
  PROVE  /\ UsersSound
         /\ Accounts' = Accounts /\ Taken' = Taken
         /\ \A e \in Ids : LinkedTo(e)' = LinkedTo(e)
BY DEF Sane, Types, EmailsUnique, RowsKnown, UsersSound, Accounts, Taken, LinkedTo

LEMMA AccountEffect ==
  ASSUME Sane, DOMAIN employees \subseteq DOMAIN employees',
         NEW d \in Ids \cup {None}, d \in DOMAIN employees' \cup {None},
         NEW a \in Emails, a \notin Taken, NEW b \in BOOLEAN, Len(users) < MaxUsers,
         users' = Append(users, Account(d, a, b))
  PROVE  /\ UsersSound
         /\ \A e \in Ids : LinkedTo(e)' = LinkedTo(e) \cup {u \in {Len(users) + 1} : e = d}
<1> DEFINE row == Account(d, a, b)
<1>1. /\ row \in User
      /\ row.employee = d /\ row.email = a /\ row.admin = b /\ row.gone = FALSE
  BY DEF User, Account
<1>2. users \in Seq(User) /\ Len(users) \in Nat /\ DOMAIN users = 1 .. Len(users)
  BY LenProperties DEF Sane, Types
<1>3. users' = Append(users, row)
  OBVIOUS
<1> HIDE DEF row
<1>4. /\ users' \in Seq(User) /\ Len(users') = Len(users) + 1
      /\ \A u \in 1 .. Len(users) : users'[u] = users[u]
      /\ users'[Len(users) + 1] = row
  BY <1>1, <1>2, <1>3, AppendProperties
<1>5. DOMAIN users' = 1 .. Len(users) + 1
  BY <1>4, LenProperties
<1>6. DOMAIN users' = DOMAIN users \cup {Len(users) + 1} /\ Len(users) + 1 \notin DOMAIN users
  BY <1>2, <1>5
<1>7. \A u \in DOMAIN users : users'[u] = users[u]
  BY <1>2, <1>4
<1>8. Accounts' = Accounts \cup {Len(users) + 1}
  BY <1>1, <1>4, <1>6, <1>7 DEF Accounts
<1>9. EmailsUnique'
  <2>1. \A u \in Accounts : users'[u] = users[u] /\ users[u].email # a
    BY <1>7 DEF Accounts, Taken
  <2>2. users'[Len(users) + 1].email = a
    BY <1>1, <1>4
  <2>3. \A t, u \in Accounts : users[t].email = users[u].email => t = u
    BY DEF Sane, EmailsUnique
  <2>4. ASSUME NEW t \in Accounts', NEW u \in Accounts', users'[t].email = users'[u].email
        PROVE  t = u
    <3>1. CASE t \in Accounts /\ u \in Accounts
      BY <2>1, <2>3, <2>4, <3>1
    <3>2. CASE t \in Accounts /\ u = Len(users) + 1
      BY <2>1, <2>2, <2>4, <3>2
    <3>3. CASE u \in Accounts /\ t = Len(users) + 1
      BY <2>1, <2>2, <2>4, <3>3
    <3> QED
      BY <1>8, <3>1, <3>2, <3>3
  <2> QED
    BY <2>4 DEF EmailsUnique
<1>10. Len(users') <= MaxUsers
  BY <1>2, <1>4, DirectoryAssumption
<1>11. \A u \in DOMAIN users' : users'[u].employee \in DOMAIN employees' \cup {None}
  BY <1>1, <1>4, <1>6, <1>7 DEF Sane, RowsKnown
<1>12. UsersSound
  BY <1>4, <1>6, <1>9, <1>10, <1>11 DEF UsersSound
<1>13. \A u \in Accounts : users'[u] = users[u]
  BY <1>7 DEF Accounts
<1>15. ASSUME NEW e \in Ids
       PROVE  LinkedTo(e)' = LinkedTo(e) \cup {u \in {Len(users) + 1} : e = d}
  BY <1>1, <1>4, <1>8, <1>13 DEF LinkedTo
<1> QED
  BY <1>12, <1>15

LEMMA EmailEffect ==
  ASSUME Sane, DOMAIN employees \subseteq DOMAIN employees',
         NEW t \in DOMAIN users, NEW a \in Emails, a \notin Taken,
         users' = [users EXCEPT ![t].email = a]
  PROVE  /\ UsersSound
         /\ \A e \in Ids : LinkedTo(e)' = LinkedTo(e)
<1>1. users \in Seq(User) /\ Len(users) <= MaxUsers /\ users \in [DOMAIN users -> User]
  BY UserRows DEF Sane, Types
<1>2. /\ users' \in [DOMAIN users -> User]
      /\ \A u \in DOMAIN users :
           /\ users'[u].email = IF u = t THEN a ELSE users[u].email
           /\ users'[u].employee = users[u].employee
           /\ users'[u].admin = users[u].admin /\ users'[u].gone = users[u].gone
  BY <1>1 DEF User
<1>3. users' \in Seq(User) /\ Len(users') <= MaxUsers /\ DOMAIN users' = DOMAIN users
  BY <1>1, <1>2, UsersChanged
<1>4. Accounts' = Accounts /\ Accounts \subseteq DOMAIN users
  BY <1>2, <1>3 DEF Accounts
<1>5. EmailsUnique'
  <2>1. \A u \in Accounts : users[u].email # a
    BY DEF Taken
  <2> QED
    BY <1>2, <1>4, <2>1 DEF EmailsUnique, Sane
<1>6. \A e \in Ids : LinkedTo(e)' = LinkedTo(e)
  BY <1>2, <1>4 DEF LinkedTo
<1> QED
  BY <1>2, <1>3, <1>5, <1>6 DEF UsersSound, Sane, RowsKnown

LEMMA LinkEffect ==
  ASSUME Sane, DOMAIN employees \subseteq DOMAIN employees',
         NEW t \in DOMAIN users, NEW d \in Ids \cup {None}, d \in DOMAIN employees \cup {None},
         users' = [users EXCEPT ![t].employee = d]
  PROVE  /\ UsersSound
         /\ \A e \in Ids : LinkedTo(e)' \subseteq LinkedTo(e) \cup {u \in {t} : e = d}
<1>1. users \in Seq(User) /\ Len(users) <= MaxUsers /\ users \in [DOMAIN users -> User]
  BY UserRows DEF Sane, Types
<1>2. /\ users' \in [DOMAIN users -> User]
      /\ \A u \in DOMAIN users :
           /\ users'[u].employee = IF u = t THEN d ELSE users[u].employee
           /\ users'[u].email = users[u].email
           /\ users'[u].admin = users[u].admin /\ users'[u].gone = users[u].gone
  BY <1>1 DEF User
<1>3. users' \in Seq(User) /\ Len(users') <= MaxUsers /\ DOMAIN users' = DOMAIN users
  BY <1>1, <1>2, UsersChanged
<1>4. Accounts' = Accounts /\ Accounts \subseteq DOMAIN users
  BY <1>2, <1>3 DEF Accounts
<1>5. EmailsUnique'
  BY <1>2, <1>4 DEF EmailsUnique, Sane
<1>7. \A e \in Ids : LinkedTo(e)' \subseteq LinkedTo(e) \cup {u \in {t} : e = d}
  BY <1>2, <1>4 DEF LinkedTo
<1> QED
  BY <1>2, <1>3, <1>5, <1>7 DEF UsersSound, Sane, RowsKnown

LEMMA RoleEffect ==
  ASSUME Sane, DOMAIN employees \subseteq DOMAIN employees',
         NEW t \in DOMAIN users, NEW b \in BOOLEAN, users' = [users EXCEPT ![t].admin = b]
  PROVE  /\ UsersSound
         /\ \A e \in Ids : LinkedTo(e)' = LinkedTo(e)
<1>1. users \in Seq(User) /\ Len(users) <= MaxUsers /\ users \in [DOMAIN users -> User]
  BY UserRows DEF Sane, Types
<1>2. /\ users' \in [DOMAIN users -> User]
      /\ \A u \in DOMAIN users :
           /\ users'[u].admin = IF u = t THEN b ELSE users[u].admin
           /\ users'[u].email = users[u].email
           /\ users'[u].employee = users[u].employee /\ users'[u].gone = users[u].gone
  BY <1>1 DEF User
<1>3. users' \in Seq(User) /\ Len(users') <= MaxUsers /\ DOMAIN users' = DOMAIN users
  BY <1>1, <1>2, UsersChanged
<1>4. Accounts' = Accounts /\ Accounts \subseteq DOMAIN users
  BY <1>2, <1>3 DEF Accounts
<1>5. EmailsUnique'
  BY <1>2, <1>4 DEF EmailsUnique, Sane
<1>7. \A e \in Ids : LinkedTo(e)' = LinkedTo(e)
  BY <1>2, <1>4 DEF LinkedTo
<1> QED
  BY <1>2, <1>3, <1>5, <1>7 DEF UsersSound, Sane, RowsKnown

LEMMA GoneEffect ==
  ASSUME Sane, DOMAIN employees \subseteq DOMAIN employees',
         NEW t \in DOMAIN users, users' = [users EXCEPT ![t].gone = TRUE]
  PROVE  /\ UsersSound
         /\ \A e \in Ids : LinkedTo(e)' \subseteq LinkedTo(e)
<1>1. users \in Seq(User) /\ Len(users) <= MaxUsers /\ users \in [DOMAIN users -> User]
  BY UserRows DEF Sane, Types
<1>2. /\ users' \in [DOMAIN users -> User]
      /\ \A u \in DOMAIN users :
           /\ users'[u].gone = IF u = t THEN TRUE ELSE users[u].gone
           /\ users'[u].email = users[u].email
           /\ users'[u].employee = users[u].employee /\ users'[u].admin = users[u].admin
  BY <1>1 DEF User
<1>3. users' \in Seq(User) /\ Len(users') <= MaxUsers /\ DOMAIN users' = DOMAIN users
  BY <1>1, <1>2, UsersChanged
<1>4. Accounts' = Accounts \ {t} /\ Accounts \subseteq DOMAIN users
  BY <1>2, <1>3 DEF Accounts
<1>5. EmailsUnique'
  BY <1>2, <1>4 DEF EmailsUnique, Sane
<1>7. \A e \in Ids : LinkedTo(e)' \subseteq LinkedTo(e)
  BY <1>2, <1>4 DEF LinkedTo
<1> QED
  BY <1>2, <1>3, <1>5, <1>7 DEF UsersSound, Sane, RowsKnown

-----------------------------------------------------------------------------
(* What the histories remember.                                            *)

LEMMA WatchEffect ==
  ASSUME Sane, Watch, op' \in [Handlers -> Ops], DOMAIN employees' \subseteq Ids
  PROVE  /\ watch' \in [Handlers -> [nums : SUBSET Numbers, linked : SUBSET Ids,
                                     beaten : BOOLEAN, full : BOOLEAN]]
         /\ \A h \in Handlers : op'[h] # Idle =>
              /\ op[h] # Idle => /\ watch[h].nums \subseteq watch'[h].nums
                                 /\ watch[h].linked \subseteq watch'[h].linked
                                 /\ watch[h].beaten => watch'[h].beaten
                                 /\ watch[h].full => watch'[h].full
              /\ \A n \in Numbers :
                   LiveWith(n)' # {} \/ (~Held(n) /\ Held(n)') => n \in watch'[h].nums
              /\ \A e \in DOMAIN employees' : LinkedTo(e)' # {} => e \in watch'[h].linked
              /\ op[h] = op'[h] /\ op[h].at = "portal" /\ op[h].email \in Taken' \ Taken =>
                   watch'[h].beaten
              /\ op[h].at = "choose" /\ op'[h].at = "portal"
                   /\ (\A i \in 1 .. 3 : Portal(op[h].num, op[h].id)[i] \in Taken) =>
                   watch'[h].full
<1> DEFINE past(h) == IF op[h] = Idle THEN Unseen ELSE watch[h]
           nums(h) == past(h).nums \cup
                        {n \in Numbers : LiveWith(n)' # {} \/ (~Held(n) /\ Held(n)')}
           linked(h) == past(h).linked \cup {e \in DOMAIN employees' : LinkedTo(e)' # {}}
           beaten(h) == past(h).beaten \/ (op[h] = op'[h] /\ op[h].at = "portal"
                                           /\ op[h].email \in Taken' \ Taken)
           full(h) == past(h).full \/ (op[h].at = "choose" /\ op'[h].at = "portal"
                        /\ \A i \in 1 .. 3 : Portal(op[h].num, op[h].id)[i] \in Taken)
           seen(h) == IF op'[h] = Idle THEN Unseen
                      ELSE [nums |-> nums(h), linked |-> linked(h),
                            beaten |-> beaten(h), full |-> full(h)]
           W == [nums : SUBSET Numbers, linked : SUBSET Ids, beaten : BOOLEAN, full : BOOLEAN]
<1>1. watch' = [h \in Handlers |-> seen(h)]
  BY DEF Watch
<1>2. Unseen \in W
  BY DEF Unseen
<1>3. \A h \in Handlers : past(h) \in W
  BY <1>2 DEF Sane, Types
<1>4. ASSUME NEW h \in Handlers
      PROVE  /\ nums(h) \in SUBSET Numbers /\ linked(h) \in SUBSET Ids
             /\ beaten(h) \in BOOLEAN /\ full(h) \in BOOLEAN
  <2>1. past(h) \in W
    BY <1>3
  <2>2. /\ past(h).nums \in SUBSET Numbers /\ past(h).linked \in SUBSET Ids
    BY <2>1
  <2> HIDE DEF past
  <2>3. nums(h) \in SUBSET Numbers
    BY <2>2
  <2>4. linked(h) \in SUBSET Ids
    BY <2>2
  <2> QED
    BY <2>3, <2>4
<1> HIDE DEF nums, linked, beaten, full, past
<1>5. \A h \in Handlers : seen(h) \in W
  BY <1>2, <1>4
<1>6. watch' \in [Handlers -> W]
  BY <1>1, <1>5
<1>7. ASSUME NEW h \in Handlers, op'[h] # Idle
      PROVE  /\ watch'[h].nums = nums(h) /\ watch'[h].linked = linked(h)
             /\ watch'[h].beaten = beaten(h) /\ watch'[h].full = full(h)
  BY <1>1, <1>7
<1>8. \A h \in Handlers : op[h] # Idle => past(h) = watch[h]
  BY DEF past
<1>9. ASSUME NEW h \in Handlers, op'[h] # Idle
      PROVE  /\ op[h] # Idle => /\ watch[h].nums \subseteq watch'[h].nums
                                /\ watch[h].linked \subseteq watch'[h].linked
                                /\ watch[h].beaten => watch'[h].beaten
                                /\ watch[h].full => watch'[h].full
             /\ \A n \in Numbers :
                  LiveWith(n)' # {} \/ (~Held(n) /\ Held(n)') => n \in watch'[h].nums
             /\ \A e \in DOMAIN employees' : LinkedTo(e)' # {} => e \in watch'[h].linked
             /\ op[h] = op'[h] /\ op[h].at = "portal" /\ op[h].email \in Taken' \ Taken =>
                  watch'[h].beaten
             /\ op[h].at = "choose" /\ op'[h].at = "portal"
                  /\ (\A i \in 1 .. 3 : Portal(op[h].num, op[h].id)[i] \in Taken) =>
                  watch'[h].full
  BY <1>7, <1>8, <1>9 DEF nums, linked, beaten, full
<1> QED
  BY <1>6, <1>9

-----------------------------------------------------------------------------
(* What one step of a request does, as far as the invariants ask: to the   *)
(* rows, ...                                                               *)

Sound(h) ==
  /\ op' \in [Handlers -> Ops] /\ \A g \in Handlers \ {h} : op'[g] = op[g]
  /\ EmployeesSound /\ UsersSound /\ Known(op[h])'

\* ... to the numbers: it found one free, or refused one that somebody has ...
NumberStep(h) ==
  /\ Hires(op'[h]) => op'[h] = op[h] \/ ~Held(op[h].num)'
  /\ op'[h].at = "refused" =>
       /\ op'[h].num \in Numbers
       /\ \/ LiveWith(op[h].num)' # {}
          \/ Hires(op[h]) /\ op[h].num = op'[h].num /\ Held(op[h].num)

\* ... to the address of an import: it chose one, or finished ...
ImportStep(h) ==
  /\ op'[h].at = "portal" =>
       /\ op[h].at = "choose" /\ Taken' = Taken
       /\ op'[h].email \notin Taken \/ \A i \in 1 .. 3 : Portal(op[h].num, op[h].id)[i] \in Taken
  /\ op'[h].at = "imported" =>
       \/ LinkedTo(op[h].id)' # {} \/ op'[h].warned
       \/ op[h].at = "portal" /\ op[h].email \in Taken

\* ... and to the accounts of an employee: nobody got one, or the request that was
\* to give one, or who is new ...
Gives(o, e) == o.at \in {"choose", "portal", "insertUser", "writeLink"} /\ o.id = e

GiverStep(h) ==
  \A e \in Ids :
    \/ /\ LinkedTo(e)' \subseteq LinkedTo(e)
       /\ Gives(op'[h], e) =>
            IF op'[h].at = "writeLink" THEN LinkedTo(e) \subseteq {op'[h].user}
            ELSE LinkedTo(e) = {} \/ (Gives(op[h], e) /\ op[h].at = "choose")
    \/ /\ Gives(op[h], e) /\ ~Gives(op'[h], e)
       /\ \E u \in Nat : /\ LinkedTo(e)' \subseteq LinkedTo(e) \cup {u}
                         /\ op[h].at = "writeLink" => u = op[h].user
    \/ /\ e \notin DOMAIN employees /\ ~Gives(op'[h], e)
       /\ \E u \in Nat : LinkedTo(e)' \subseteq LinkedTo(e) \cup {u}

StepFacts(h) ==
  Sound(h) /\ NumberStep(h) /\ ImportStep(h) /\ GiverStep(h)

LEMMA CheckNumberFacts ==
  ASSUME Sane, NEW h \in Handlers, NEW n \in Numbers, NEW found \in Ops, CheckNumber(h, n, found),
         found.at = "insert" \/ (found.at = "insertUser" /\ found.id = None), found.num = n
  PROVE  StepFacts(h)
<1>1. [at |-> "refused", num |-> n] \in Ops /\ op \in [Handlers -> Ops]
  BY OpsTypes DEF Sane, Types
<1>2. employees' = Reclaimed(n) /\ UNCHANGED users
  BY DEF CheckNumber
<1>3. /\ EmployeesSound
      /\ DOMAIN employees' = DOMAIN employees
      /\ LiveWith(n) # {} => LiveWith(n)' # {}
      /\ LiveWith(n) = {} => ~Held(n)'
  BY <1>2, ReclaimEffect
<1>4. /\ UsersSound /\ Accounts' = Accounts /\ Taken' = Taken
      /\ \A e \in Ids : LinkedTo(e)' = LinkedTo(e)
  BY <1>2, <1>3, UsersSame DEF EmployeesSound
<1>5. op' \in [Handlers -> Ops] /\ \A g \in Handlers \ {h} : op'[g] = op[g]
  BY <1>1, DoEffect DEF CheckNumber
<1>6. CASE LiveWith(n) # {}
  <2>1. op'[h] = [at |-> "refused", num |-> n]
    BY <1>1, <1>6, DoEffect DEF CheckNumber
  <2>2. op'[h].at = "refused" /\ op'[h].num = n
    BY <2>1
  <2> QED
    BY <1>3, <1>4, <1>5, <1>6, <2>2
    DEF StepFacts, Sound, NumberStep, ImportStep, GiverStep, Known, Hires, Gives
<1>7. CASE LiveWith(n) = {}
  <2>1. op'[h] = found
    BY <1>7, <1>1, DoEffect DEF CheckNumber
  <2>2. None \notin Ids
    BY DirectoryAssumption DEF Ids
  <2> QED
    BY <1>3, <1>4, <1>5, <1>7, <2>1, <2>2
    DEF StepFacts, Sound, NumberStep, ImportStep, GiverStep, Known, Hires, Gives
<1> QED
  BY <1>6, <1>7

LEMMA HireFacts ==
  ASSUME Sane, NEW h \in Handlers, NEW n \in Numbers, Hire(h, n)
  PROVE  StepFacts(h)
<1> DEFINE found == [at |-> "insert", num |-> n, import |-> FALSE]
<1>1. found \in Ops /\ found.at = "insert" /\ found.num = n
  BY OpsTypes
<1>2. CheckNumber(h, n, found)
  BY DEF Hire
<1> HIDE DEF found
<1> QED
  BY <1>1, <1>2, CheckNumberFacts

LEMMA InsertFacts ==
  ASSUME Sane, NEW h \in Handlers, Insert(h)
  PROVE  StepFacts(h)
<1>1. /\ op \in [Handlers -> Ops] /\ op[h].at = "insert"
      /\ op[h].num \in Numbers /\ op[h].import \in BOOLEAN
  BY Carried DEF Sane, Types, Insert, At
<1>2. PICK n \in Numbers : n = op[h].num
  BY <1>1
<1>3. CASE Held(n)
  <2>1. [at |-> "refused", num |-> n] \in Ops
    BY OpsTypes
  <2>2. Do(h, [at |-> "refused", num |-> n]) /\ UNCHANGED employees /\ UNCHANGED users
    BY <1>2, <1>3 DEF Insert
  <2>3. /\ op' \in [Handlers -> Ops] /\ op'[h] = [at |-> "refused", num |-> n]
        /\ \A g \in Handlers \ {h} : op'[g] = op[g]
    BY <1>1, <2>1, <2>2, DoEffect
  <2>4. op'[h].at = "refused" /\ op'[h].num = n
    BY <2>3
  <2>5. EmployeesSound
    BY <2>2, EmployeesSame
  <2>6. /\ UsersSound /\ Accounts' = Accounts /\ Taken' = Taken
        /\ \A e \in Ids : LinkedTo(e)' = LinkedTo(e)
    BY <2>2, <2>5, UsersSame DEF EmployeesSound
  <2> QED
    BY <1>1, <1>2, <1>3, <2>3, <2>4, <2>5, <2>6
    DEF StepFacts, Sound, NumberStep, ImportStep, GiverStep, Known, Hires, Gives
<1>4. CASE ~Held(n)
  <2> DEFINE d == Len(employees) + 1
             next == IF op[h].import THEN [at |-> "findLinked", id |-> d, num |-> n] ELSE Idle
  <2>1. /\ employees' = Append(employees, [num |-> n, live |-> TRUE]) /\ UNCHANGED users
        /\ Len(employees) < MaxEmployees /\ Do(h, next)
    BY <1>2, <1>4 DEF Insert
  <2>2. EmployeesSound /\ d \in DOMAIN employees' /\ d \in Ids
    BY <1>4, <2>1, HireEffect
  <2>3. /\ UsersSound /\ Accounts' = Accounts /\ Taken' = Taken
        /\ \A e \in Ids : LinkedTo(e)' = LinkedTo(e)
    BY <2>1, <2>2, UsersSame DEF EmployeesSound
  <2> HIDE DEF d
  <2>4. next \in Ops
    BY <2>2, OpsTypes
  <2>5. /\ op' \in [Handlers -> Ops] /\ op'[h] = next
        /\ \A g \in Handlers \ {h} : op'[g] = op[g]
    BY <1>1, <2>1, <2>4, DoEffect
  <2>6. op'[h].at = "idle" \/ (op'[h].at = "findLinked" /\ op'[h].id = d)
    BY <2>5 DEF Idle
  <2> QED
    BY <2>2, <2>3, <2>5, <2>6
    DEF StepFacts, Sound, NumberStep, ImportStep, GiverStep, Known, Hires, Gives
<1> QED
  BY <1>3, <1>4

LEMMA SameTables ==
  ASSUME Sane, UNCHANGED employees, UNCHANGED users
  PROVE  /\ EmployeesSound /\ UsersSound
         /\ Accounts' = Accounts /\ Taken' = Taken
         /\ \A e \in Ids : LinkedTo(e)' = LinkedTo(e)
         /\ DOMAIN employees \subseteq Ids /\ DOMAIN users \subseteq 1 .. MaxUsers
<1>1. EmployeesSound
  BY EmployeesSame
<1>2. /\ UsersSound /\ Accounts' = Accounts /\ Taken' = Taken
      /\ \A e \in Ids : LinkedTo(e)' = LinkedTo(e)
  BY <1>1, UsersSame DEF EmployeesSound
<1> QED
  BY <1>1, <1>2, EmployeeRows, UserRows DEF Sane, Types

LEMMA IdleFacts ==
  ASSUME Sane, NEW h \in Handlers, Do(h, Idle), EmployeesSound, UsersSound,
         NEW u \in Nat,
         \A e \in Ids : LinkedTo(e)' \subseteq LinkedTo(e) \cup {v \in {u} : Gives(op[h], e)},
         op[h].at = "writeLink" => u = op[h].user
  PROVE  StepFacts(h)
<1>1. /\ op' \in [Handlers -> Ops] /\ op'[h] = Idle
      /\ \A g \in Handlers \ {h} : op'[g] = op[g]
  BY OpsTypes, DoEffect DEF Sane, Types
<1>2. op'[h].at = "idle"
  BY <1>1 DEF Idle
<1>3. GiverStep(h)
  <2> SUFFICES ASSUME NEW e \in Ids
               PROVE  \/ /\ LinkedTo(e)' \subseteq LinkedTo(e)
                         /\ ~Gives(op'[h], e)
                      \/ /\ Gives(op[h], e) /\ ~Gives(op'[h], e)
                         /\ \E v \in Nat : /\ LinkedTo(e)' \subseteq LinkedTo(e) \cup {v}
                                           /\ op[h].at = "writeLink" => v = op[h].user
    BY DEF GiverStep
  <2>1. ~Gives(op'[h], e)
    BY <1>2 DEF Gives
  <2>2. CASE Gives(op[h], e)
    BY <2>1, <2>2
  <2>3. CASE ~Gives(op[h], e)
    BY <2>1, <2>3
  <2> QED
    BY <2>2, <2>3
<1>4. Sound(h)
  BY <1>1, <1>2 DEF Sound, Known
<1>5. NumberStep(h) /\ ImportStep(h)
  BY <1>1, <1>2 DEF NumberStep, ImportStep, Hires
<1> QED
  BY <1>3, <1>4, <1>5 DEF StepFacts

LEMMA RenumberFacts ==
  ASSUME Sane, NEW h \in Handlers, NEW d \in Live, NEW n \in Numbers, Renumber(h, d, n)
  PROVE  StepFacts(h)
<1> DEFINE next == [at |-> "rename", id |-> d, num |-> n]
<1>1. /\ EmployeesSound /\ UsersSound
      /\ Accounts' = Accounts /\ Taken' = Taken
      /\ \A e \in Ids : LinkedTo(e)' = LinkedTo(e)
      /\ DOMAIN employees \subseteq Ids
  BY SameTables DEF Renumber, table
<1>2. d \in DOMAIN employees
  BY DEF Live
<1>3. next \in Ops
  BY <1>1, <1>2, OpsTypes
<1>4. op' \in [Handlers -> Ops] /\ op'[h] = next /\ \A g \in Handlers \ {h} : op'[g] = op[g]
  BY <1>3, DoEffect DEF Sane, Types, Renumber
<1>5. op'[h].at = "rename" /\ op'[h].id = d
  BY <1>4
<1> QED
  BY <1>1, <1>2, <1>4, <1>5
  DEF StepFacts, Sound, NumberStep, ImportStep, GiverStep, Known, Hires, Gives,
      EmployeesSound

LEMMA WriteNumberFacts ==
  ASSUME Sane, NEW h \in Handlers, WriteNumber(h)
  PROVE  StepFacts(h)
<1>1. op[h].at = "rename" /\ op[h].num \in Numbers
  BY Carried DEF Sane, Types, WriteNumber, At
<1>2. op[h].id \in DOMAIN employees
  BY <1>1 DEF Sane, RowsKnown, Known
<1>3. EmployeesSound
  <2>1. CASE Held(op[h].num)
    BY <2>1, EmployeesSame DEF WriteNumber
  <2>2. CASE ~Held(op[h].num)
    BY <1>1, <1>2, <2>2, RenumberEffect DEF WriteNumber
  <2> QED
    BY <2>1, <2>2
<1>4. /\ UsersSound
      /\ \A e \in Ids : LinkedTo(e)' = LinkedTo(e)
  BY <1>3, UsersSame DEF EmployeesSound, WriteNumber
<1>5. Do(h, Idle) /\ 0 \in Nat
  BY DEF WriteNumber
<1> QED
  BY <1>1, <1>3, <1>4, <1>5, IdleFacts

LEMMA SoftDeleteFacts ==
  ASSUME Sane, NEW h \in Handlers, NEW d \in Live, SoftDelete(h, d)
  PROVE  StepFacts(h)
<1>1. op[h] = Idle /\ op' = op /\ op \in [Handlers -> Ops]
  BY DEF SoftDelete, Arrive, Sane, Types
<1>2. op[h].at = "idle" /\ op'[h].at = "idle"
  BY <1>1 DEF Idle
<1>3. EmployeesSound
  BY DismissEffect DEF SoftDelete, Live
<1>4. /\ UsersSound /\ Taken' = Taken
      /\ \A e \in Ids : LinkedTo(e)' = LinkedTo(e)
  BY <1>3, UsersSame DEF EmployeesSound, SoftDelete
<1> QED
  BY <1>1, <1>2, <1>3, <1>4
  DEF StepFacts, Sound, NumberStep, ImportStep, GiverStep, Known, Hires, Gives

LEMMA UpsertFacts ==
  ASSUME Sane, NEW h \in Handlers, NEW n \in Numbers, Upsert(h, n)
  PROVE  StepFacts(h)
<1>1. CASE \E e \in LiveWith(n) :
             Do(h, [at |-> "findLinked", id |-> e, num |-> n]) /\ UNCHANGED table
  <2>1. PICK d \in LiveWith(n) :
          Do(h, [at |-> "findLinked", id |-> d, num |-> n]) /\ UNCHANGED table
    BY <1>1
  <2>2. /\ EmployeesSound /\ UsersSound
        /\ Accounts' = Accounts /\ Taken' = Taken
        /\ \A e \in Ids : LinkedTo(e)' = LinkedTo(e)
        /\ DOMAIN employees \subseteq Ids
    BY <2>1, SameTables DEF table
  <2>3. d \in DOMAIN employees
    BY DEF LiveWith, Live
  <2> DEFINE next == [at |-> "findLinked", id |-> d, num |-> n]
  <2>4. next \in Ops
    BY <2>2, <2>3, OpsTypes
  <2>5. op' \in [Handlers -> Ops] /\ op'[h] = next /\ \A g \in Handlers \ {h} : op'[g] = op[g]
    BY <2>1, <2>4, DoEffect DEF Sane, Types
  <2>6. op'[h].at = "findLinked" /\ op'[h].id = d
    BY <2>5
  <2> QED
    BY <2>2, <2>3, <2>5, <2>6
    DEF StepFacts, Sound, NumberStep, ImportStep, GiverStep, Known, Hires, Gives,
        EmployeesSound
<1>2. CASE CheckNumber(h, n, [at |-> "insert", num |-> n, import |-> TRUE])
  <2> DEFINE found == [at |-> "insert", num |-> n, import |-> TRUE]
  <2>1. found \in Ops /\ found.at = "insert" /\ found.num = n
    BY OpsTypes
  <2>2. CheckNumber(h, n, found)
    BY <1>2
  <2> HIDE DEF found
  <2> QED
    BY <2>1, <2>2, CheckNumberFacts
<1> QED
  BY <1>1, <1>2 DEF Upsert

LEMMA FindLinkedFacts ==
  ASSUME Sane, NEW h \in Handlers, FindLinked(h)
  PROVE  StepFacts(h)
<1> DEFINE d == op[h].id
           a == AddressOf[op[h].num]
<1>1. op[h].at = "findLinked" /\ op[h].num \in Numbers /\ d \in Ids /\ op[h] \in Ops
  BY Carried DEF Sane, Types, FindLinked, At
<1>2. d \in DOMAIN employees
  BY <1>1 DEF Sane, RowsKnown, Known
<1>3. a \in Addresses /\ a \in Emails
  BY <1>1, DirectoryAssumption DEF Emails
<1>4. EmployeesSound /\ DOMAIN employees' = DOMAIN employees
  BY EmployeesSame DEF FindLinked
<1>5. op[h] \in [at : {"findLinked", "choose"}, id : Ids, num : Numbers]
  BY <1>1 DEF Ops, Idle
<1>6. [op[h] EXCEPT !.at = "choose"] \in Ops
  BY <1>5 DEF Ops
<1> DEFINE done == [at |-> "imported", id |-> op[h].id, num |-> op[h].num, warned |-> FALSE]
<1>9. done \in Ops /\ done.at = "imported" /\ done.id = d
  BY <1>1, OpsTypes
<1>7. CASE \E u \in LinkedTo(d) :
             /\ users' = IF users[u].email \in Legacy \ {a} /\ a \notin Taken
                         THEN [users EXCEPT ![u].email = a] ELSE users
             /\ Do(h, done)
  <2>1. PICK u \in LinkedTo(d) :
             /\ users' = IF users[u].email \in Legacy \ {a} /\ a \notin Taken
                         THEN [users EXCEPT ![u].email = a] ELSE users
             /\ Do(h, done)
    BY <1>7
  <2>2. u \in DOMAIN users
    BY DEF LinkedTo, Accounts
  <2> HIDE DEF a, done
  <2>3. UsersSound /\ \A e \in Ids : LinkedTo(e)' = LinkedTo(e)
    <3>1. CASE users[u].email \in Legacy \ {a} /\ a \notin Taken
      BY <1>3, <1>4, <2>1, <2>2, <3>1, EmailEffect
    <3>2. CASE ~(users[u].email \in Legacy \ {a} /\ a \notin Taken)
      BY <1>4, <2>1, <3>2, UsersSame
    <3> QED
      BY <3>1, <3>2
  <2>4. /\ op' \in [Handlers -> Ops] /\ op'[h] = done
        /\ \A g \in Handlers \ {h} : op'[g] = op[g]
    BY <1>9, <2>1, DoEffect DEF Sane, Types
  <2>5. op'[h].at = "imported" /\ op'[h].id = d
    BY <1>9, <2>4
  <2>6. LinkedTo(op[h].id)' # {}
    BY <1>1, <2>1, <2>3, <2>5
  <2> HIDE DEF d
  <2> QED
    BY <1>2, <1>4, <2>3, <2>4, <2>5, <2>6
    DEF StepFacts, Sound, NumberStep, ImportStep, GiverStep, Known, Hires, Gives
<1>8. CASE /\ LinkedTo(d) = {}
           /\ Do(h, [op[h] EXCEPT !.at = "choose"])
           /\ UNCHANGED users
  <2>1. /\ UsersSound /\ Taken' = Taken
        /\ \A e \in Ids : LinkedTo(e)' = LinkedTo(e)
    BY <1>4, <1>8, UsersSame
  <2>2. /\ op' \in [Handlers -> Ops] /\ op'[h] = [op[h] EXCEPT !.at = "choose"]
        /\ \A g \in Handlers \ {h} : op'[g] = op[g]
    BY <1>6, <1>8, DoEffect DEF Sane, Types
  <2>3. op'[h].at = "choose" /\ op'[h].id = d
    BY <1>5, <2>2
  <2> HIDE DEF d
  <2> QED
    BY <1>2, <1>4, <1>8, <2>1, <2>2, <2>3
    DEF StepFacts, Sound, NumberStep, ImportStep, GiverStep, Known, Hires, Gives
<1> QED
  BY <1>7, <1>8 DEF FindLinked, Imported

LEMMA ChooseAddressFacts ==
  ASSUME Sane, NEW h \in Handlers, ChooseAddress(h)
  PROVE  StepFacts(h)
<1>1. op[h].at = "choose" /\ op[h].num \in Numbers /\ op[h].id \in Ids
  BY Carried DEF Sane, Types, ChooseAddress, At
<1>2. PICK n \in Numbers, d \in Ids : n = op[h].num /\ d = op[h].id
  BY <1>1
<1>3. d \in DOMAIN employees
  BY <1>1, <1>2 DEF Sane, RowsKnown, Known
<1> DEFINE a == FreeAddress(n, d)
<1>4. a \in Emails
  <2>1. AddressOf[n] \in Addresses
    BY DirectoryAssumption
  <2>2. AddressOf[n] \in Emails /\ <<AddressOf[n], d>> \in Emails /\ <<d>> \in Emails
    BY <2>1 DEF Emails
  <2> QED
    BY <2>2 DEF FreeAddress, Portal
<1>5. a \notin Taken \/ \A i \in 1 .. 3 : Portal(n, d)[i] \in Taken
  <2>1. \A i \in 1 .. 3 : i = 1 \/ i = 2 \/ i = 3
    OBVIOUS
  <2>2. a \in Taken => /\ Portal(n, d)[1] \in Taken /\ Portal(n, d)[2] \in Taken
                       /\ Portal(n, d)[3] \in Taken
    BY DEF FreeAddress
  <2> QED
    BY <2>1, <2>2
<1> HIDE DEF a
<1> DEFINE next == [at |-> "portal", id |-> d, num |-> n, email |-> a]
<1>6. next \in Ops
  BY <1>4, OpsTypes
<1>7. Do(h, next) /\ UNCHANGED employees /\ UNCHANGED users
  BY <1>2 DEF ChooseAddress, table, a
<1>8. op' \in [Handlers -> Ops] /\ op'[h] = next /\ \A g \in Handlers \ {h} : op'[g] = op[g]
  BY <1>6, <1>7, DoEffect DEF Sane, Types
<1>9. op'[h].at = "portal" /\ op'[h].id = d /\ op'[h].email = a
  BY <1>8
<1>10. /\ EmployeesSound /\ UsersSound /\ Taken' = Taken
       /\ \A e \in Ids : LinkedTo(e)' = LinkedTo(e)
  BY <1>7, SameTables
<1>11. ImportStep(h)
  BY <1>1, <1>2, <1>5, <1>9, <1>10 DEF ImportStep
<1> QED
  BY <1>1, <1>2, <1>3, <1>8, <1>9, <1>10, <1>11
  DEF StepFacts, Sound, NumberStep, GiverStep, Known, Hires, Gives, EmployeesSound

LEMMA CreatePortalUserFacts ==
  ASSUME Sane, NEW h \in Handlers, CreatePortalUser(h)
  PROVE  StepFacts(h)
<1>1. /\ op[h].at = "portal" /\ op[h].num \in Numbers /\ op[h].id \in Ids
      /\ op[h].email \in Emails
  BY Carried DEF Sane, Types, CreatePortalUser, At
<1>2. PICK n \in Numbers, d \in Ids, a \in Emails :
        n = op[h].num /\ d = op[h].id /\ a = op[h].email
  BY <1>1
<1>3. d \in DOMAIN employees
  BY <1>1, <1>2 DEF Sane, RowsKnown, Known
<1>4. EmployeesSound /\ DOMAIN employees' = DOMAIN employees
  BY EmployeesSame DEF CreatePortalUser
<1> DEFINE next == [at |-> "imported", id |-> d, num |-> n, warned |-> FALSE]
<1>5. next \in Ops
  BY OpsTypes
<1>6. Do(h, next)
  BY <1>2 DEF CreatePortalUser, Imported
<1>7. op' \in [Handlers -> Ops] /\ op'[h] = next /\ \A g \in Handlers \ {h} : op'[g] = op[g]
  BY <1>5, <1>6, DoEffect DEF Sane, Types
<1>8. op'[h].at = "imported" /\ op'[h].id = d
  BY <1>7
<1>9. CASE a \in Taken /\ UNCHANGED users
  <2>1. UsersSound /\ \A e \in Ids : LinkedTo(e)' = LinkedTo(e)
    BY <1>4, <1>9, UsersSame
  <2> QED
    BY <1>1, <1>2, <1>3, <1>4, <1>7, <1>8, <1>9, <2>1
    DEF StepFacts, Sound, NumberStep, ImportStep, GiverStep, Known, Hires, Gives
<1>10. CASE /\ a \notin Taken /\ Len(users) < MaxUsers
            /\ users' = Append(users, Account(d, a, FALSE))
  <2>1. /\ UsersSound
        /\ \A e \in Ids : LinkedTo(e)' = LinkedTo(e) \cup {u \in {Len(users) + 1} : e = d}
    BY <1>3, <1>4, <1>10, AccountEffect
  <2>2. Len(users) + 1 \in Nat
    BY UserRows DEF Sane, Types
  <2>3. LinkedTo(op[h].id)' # {}
    BY <1>8, <2>1
  <2>4. GiverStep(h)
    BY <1>1, <1>2, <1>8, <2>1, <2>2 DEF GiverStep, Gives
  <2> QED
    BY <1>1, <1>2, <1>3, <1>4, <1>7, <1>8, <2>1, <2>3, <2>4
    DEF StepFacts, Sound, NumberStep, ImportStep, Known, Hires
<1> QED
  BY <1>2, <1>9, <1>10 DEF CreatePortalUser

LEMMA PortalFailsFacts ==
  ASSUME Sane, NEW h \in Handlers, PortalFails(h)
  PROVE  StepFacts(h)
<1>1. /\ op[h].at \in {"findLinked", "choose", "portal"}
      /\ op[h].num \in Numbers /\ op[h].id \in Ids
  BY Carried DEF Sane, Types, PortalFails, At
<1>2. PICK n \in Numbers, d \in Ids : n = op[h].num /\ d = op[h].id
  BY <1>1
<1>3. d \in DOMAIN employees
  BY <1>1, <1>2 DEF Sane, RowsKnown, Known
<1> DEFINE next == [at |-> "imported", id |-> d, num |-> n, warned |-> TRUE]
<1>4. next \in Ops /\ next.at = "imported" /\ next.id = d /\ next.warned = TRUE
  BY OpsTypes
<1>5. Do(h, next) /\ UNCHANGED employees /\ UNCHANGED users
  BY <1>2 DEF PortalFails, Imported, table
<1> HIDE DEF next
<1>6. op' \in [Handlers -> Ops] /\ op'[h] = next /\ \A g \in Handlers \ {h} : op'[g] = op[g]
  BY <1>4, <1>5, DoEffect DEF Sane, Types
<1>7. op'[h].at = "imported" /\ op'[h].id = d
  BY <1>4, <1>6
<1>8. op'[h].warned
  BY <1>4, <1>6
<1>9. EmployeesSound /\ UsersSound /\ \A e \in Ids : LinkedTo(e)' = LinkedTo(e)
  BY <1>5, SameTables
<1>10. ImportStep(h)
  BY <1>7, <1>8 DEF ImportStep
<1> QED
  BY <1>1, <1>2, <1>3, <1>6, <1>7, <1>9, <1>10
  DEF StepFacts, Sound, NumberStep, GiverStep, Known, Hires, Gives, EmployeesSound

LEMMA AnswerFacts ==
  ASSUME Sane, NEW h \in Handlers, Answer(h)
  PROVE  StepFacts(h)
<1>1. /\ EmployeesSound /\ UsersSound
      /\ \A e \in Ids : LinkedTo(e)' = LinkedTo(e)
  BY SameTables DEF Answer, table
<1>2. Do(h, Idle) /\ 0 \in Nat /\ op[h].at # "writeLink"
  BY DEF Answer
<1> QED
  BY <1>1, <1>2, IdleFacts

LEMMA DieFacts ==
  ASSUME Sane, NEW h \in Handlers, Die(h), UNCHANGED table
  PROVE  StepFacts(h)
<1>1. /\ EmployeesSound /\ UsersSound
      /\ \A e \in Ids : LinkedTo(e)' = LinkedTo(e)
      /\ DOMAIN users \subseteq 1 .. MaxUsers
  BY SameTables DEF table
<1>2. Do(h, Idle)
  BY DEF Die
<1>3. CASE op[h].at = "writeLink"
  <2>1. op[h].user \in 1 .. MaxUsers
    BY <1>3, Carried DEF Sane, Types
  <2>2. op[h].user \in Nat
    BY <2>1
  <2> QED
    BY <1>1, <1>2, <2>2, IdleFacts
<1>4. CASE op[h].at # "writeLink"
  <2>1. 0 \in Nat
    OBVIOUS
  <2> QED
    BY <1>1, <1>2, <1>4, <2>1, IdleFacts
<1> QED
  BY <1>3, <1>4

LEMMA CreateUserFacts ==
  ASSUME Sane, NEW h \in Handlers, NEW a \in Addresses, NEW b \in BOOLEAN,
         NEW d \in DOMAIN employees \cup {None}, CreateUser(h, a, b, d)
  PROVE  StepFacts(h)
<1> DEFINE next == [at |-> "insertUser", id |-> d, num |-> None, email |-> a, admin |-> b]
<1>1. /\ EmployeesSound /\ UsersSound /\ Taken' = Taken
      /\ \A e \in Ids : LinkedTo(e)' = LinkedTo(e)
      /\ DOMAIN employees \subseteq Ids
  BY SameTables DEF CreateUser, table
<1>2. next \in Ops
  BY <1>1, OpsTypes
<1>3. op' \in [Handlers -> Ops] /\ op'[h] = next /\ \A g \in Handlers \ {h} : op'[g] = op[g]
  BY <1>2, DoEffect DEF Sane, Types, CreateUser
<1>4. op'[h].at = "insertUser" /\ op'[h].id = d /\ op'[h].num = None
  BY <1>3
<1>5. d # None => LinkedTo(d) = {}
  BY DEF CreateUser
<1>6. None \notin Ids
  BY DirectoryAssumption DEF Ids
<1> QED
  BY <1>1, <1>3, <1>4, <1>5, <1>6
  DEF StepFacts, Sound, NumberStep, ImportStep, GiverStep, Known, Hires, Gives,
      EmployeesSound

LEMMA CreateUserAndEmployeeFacts ==
  ASSUME Sane, NEW h \in Handlers, NEW a \in Addresses, NEW n \in Numbers,
         CreateUserAndEmployee(h, a, n)
  PROVE  StepFacts(h)
<1> DEFINE found == [at |-> "insertUser", id |-> None, num |-> n, email |-> a, admin |-> FALSE]
<1>1. found \in Ops /\ found.at = "insertUser" /\ found.id = None /\ found.num = n
  BY OpsTypes
<1>2. CheckNumber(h, n, found)
  BY DEF CreateUserAndEmployee
<1> HIDE DEF found
<1> QED
  BY <1>1, <1>2, CheckNumberFacts

LEMMA InsertUserFacts ==
  ASSUME Sane, NEW h \in Handlers, InsertUser(h)
  PROVE  StepFacts(h)
<1>1. /\ op[h].at = "insertUser" /\ op[h].id \in Ids \cup {None}
      /\ op[h].num \in Numbers \cup {None} /\ op[h].email \in Addresses
      /\ op[h].admin \in BOOLEAN
  BY Carried DEF Sane, Types, InsertUser, At
<1>2. PICK d \in Ids \cup {None}, n \in Numbers \cup {None}, a \in Addresses, b \in BOOLEAN :
        d = op[h].id /\ n = op[h].num /\ a = op[h].email /\ b = op[h].admin
  BY <1>1
<1>3. d \in DOMAIN employees \cup {None}
  BY <1>1, <1>2 DEF Sane, RowsKnown, Known
<1>4. a \in Emails /\ None \notin Ids /\ None \notin Numbers
  BY DirectoryAssumption DEF Ids, Emails
<1>5. Len(users) \in Nat /\ Len(users) + 1 \in Nat /\ Len(employees) + 1 \in Nat
  BY UserRows, EmployeeRows DEF Sane, Types
<1>6. CASE n # None /\ Held(n)
  <2>1. Do(h, [at |-> "refused", num |-> n]) /\ UNCHANGED employees /\ UNCHANGED users
    BY <1>2, <1>6 DEF InsertUser, table
  <2>2. [at |-> "refused", num |-> n] \in Ops
    BY <1>6, OpsTypes
  <2>3. /\ op' \in [Handlers -> Ops] /\ op'[h] = [at |-> "refused", num |-> n]
        /\ \A g \in Handlers \ {h} : op'[g] = op[g]
    BY <2>1, <2>2, DoEffect DEF Sane, Types
  <2>4. op'[h].at = "refused" /\ op'[h].num = n
    BY <2>3
  <2>5. /\ EmployeesSound /\ UsersSound /\ Taken' = Taken
        /\ \A e \in Ids : LinkedTo(e)' = LinkedTo(e)
    BY <2>1, SameTables
  <2> QED
    BY <1>1, <1>2, <1>6, <2>3, <2>4, <2>5
    DEF StepFacts, Sound, NumberStep, ImportStep, GiverStep, Known, Hires, Gives
<1>7. CASE ~(n # None /\ Held(n)) /\ a \in Taken
  <2>1. Do(h, Idle) /\ UNCHANGED employees /\ UNCHANGED users
    BY <1>2, <1>7 DEF InsertUser, table
  <2>2. /\ EmployeesSound /\ UsersSound
        /\ \A e \in Ids : LinkedTo(e)' = LinkedTo(e)
    BY <2>1, SameTables
  <2> QED
    BY <1>1, <1>5, <2>1, <2>2, IdleFacts
<1>8. CASE n = None /\ a \notin Taken
  <2>1. /\ Do(h, Idle) /\ UNCHANGED employees /\ Len(users) < MaxUsers
        /\ users' = Append(users, Account(d, a, b))
    BY <1>2, <1>8 DEF InsertUser
  <2>2. EmployeesSound /\ DOMAIN employees' = DOMAIN employees
    BY <2>1, EmployeesSame
  <2>3. /\ UsersSound
        /\ \A e \in Ids : LinkedTo(e)' = LinkedTo(e) \cup {u \in {Len(users) + 1} : e = d}
    BY <1>3, <1>4, <1>8, <2>1, <2>2, AccountEffect
  <2>4. \A e \in Ids : LinkedTo(e)' \subseteq
                         LinkedTo(e) \cup {v \in {Len(users) + 1} : Gives(op[h], e)}
    BY <1>1, <1>2, <2>3 DEF Gives
  <2> QED
    BY <1>1, <1>5, <2>1, <2>2, <2>3, <2>4, IdleFacts
<1>9. CASE n # None /\ ~Held(n) /\ a \notin Taken
  <2> DEFINE c == Len(employees) + 1
  <2>1. /\ Do(h, Idle) /\ Len(users) < MaxUsers /\ Len(employees) < MaxEmployees
        /\ users' = Append(users, Account(c, a, b))
        /\ employees' = Append(employees, [num |-> n, live |-> TRUE])
    BY <1>2, <1>9 DEF InsertUser
  <2>2. EmployeesSound /\ c \in DOMAIN employees' /\ c \in Ids /\ c \notin DOMAIN employees
    BY <1>9, <2>1, HireEffect
  <2> HIDE DEF c
  <2>3. /\ UsersSound
        /\ \A e \in Ids : LinkedTo(e)' = LinkedTo(e) \cup {u \in {Len(users) + 1} : e = c}
    BY <1>4, <1>9, <2>1, <2>2, AccountEffect DEF EmployeesSound
  <2>4. /\ op' \in [Handlers -> Ops] /\ op'[h] = Idle
        /\ \A g \in Handlers \ {h} : op'[g] = op[g]
    BY <2>1, OpsTypes, DoEffect DEF Sane, Types
  <2>5. op'[h].at = "idle"
    BY <2>4 DEF Idle
  <2>6. ASSUME NEW e \in Ids
        PROVE  \/ LinkedTo(e)' \subseteq LinkedTo(e) /\ ~Gives(op'[h], e)
               \/ /\ e \notin DOMAIN employees /\ ~Gives(op'[h], e)
                  /\ \E u \in Nat : LinkedTo(e)' \subseteq LinkedTo(e) \cup {u}
    <3>1. ~Gives(op'[h], e)
      BY <2>5 DEF Gives
    <3>2. CASE e = c
      BY <1>5, <2>2, <2>3, <3>1, <3>2
    <3>3. CASE e # c
      BY <2>3, <3>1, <3>3
    <3> QED
      BY <3>2, <3>3
  <2>7. GiverStep(h)
    BY <2>6 DEF GiverStep
  <2> QED
    BY <2>2, <2>3, <2>4, <2>5, <2>7
    DEF StepFacts, Sound, NumberStep, ImportStep, Known, Hires
<1> QED
  BY <1>6, <1>7, <1>8, <1>9

LEMMA UpdateUserFacts ==
  ASSUME Sane, NEW h \in Handlers, NEW t \in Accounts, UpdateUser(h, t)
  PROVE  StepFacts(h)
<1>1. /\ EmployeesSound /\ UsersSound /\ Taken' = Taken
      /\ \A e \in Ids : LinkedTo(e)' = LinkedTo(e)
      /\ DOMAIN employees \subseteq Ids /\ DOMAIN users \subseteq 1 .. MaxUsers
  BY SameTables DEF UpdateUser, table
<1>2. t \in DOMAIN users /\ t \in 1 .. MaxUsers
  BY <1>1 DEF Accounts
<1>3. users[t].employee \in Ids \cup {None} /\ users[t].admin \in BOOLEAN
  BY <1>2, UserRows DEF Sane, Types
<1>4. None \notin Ids
  BY DirectoryAssumption DEF Ids
<1>5. ASSUME NEW d \in DOMAIN employees \cup {None}, Link(h, t, d)
      PROVE  StepFacts(h)
  <2> DEFINE next == [at |-> "writeLink", user |-> t, was |-> users[t].employee, id |-> d]
  <2>1. next \in Ops
    BY <1>1, <1>2, <1>3, OpsTypes
  <2>2. op' \in [Handlers -> Ops] /\ op'[h] = next /\ \A g \in Handlers \ {h} : op'[g] = op[g]
    BY <1>5, <2>1, DoEffect DEF Sane, Types, Link
  <2>3. op'[h].at = "writeLink" /\ op'[h].id = d /\ op'[h].user = t
    BY <2>2
  <2>4. d # None => LinkedTo(d) \subseteq {t}
    BY <1>5 DEF Link
  <2> QED
    BY <1>1, <1>2, <1>4, <2>2, <2>3, <2>4
    DEF StepFacts, Sound, NumberStep, ImportStep, GiverStep, Known, Hires, Gives,
        EmployeesSound, UsersSound
<1>6. ASSUME NEW a \in Addresses, Do(h, [at |-> "writeEmail", user |-> t, email |-> a])
      PROVE  StepFacts(h)
  <2> DEFINE next == [at |-> "writeEmail", user |-> t, email |-> a]
  <2>1. next \in Ops
    BY <1>2, OpsTypes
  <2>2. op' \in [Handlers -> Ops] /\ op'[h] = next /\ \A g \in Handlers \ {h} : op'[g] = op[g]
    BY <1>6, <2>1, DoEffect DEF Sane, Types
  <2>3. op'[h].at = "writeEmail" /\ op'[h].user = t
    BY <2>2
  <2> QED
    BY <1>1, <1>2, <2>2, <2>3
    DEF StepFacts, Sound, NumberStep, ImportStep, GiverStep, Known, Hires, Gives,
        EmployeesSound, UsersSound
<1>7. ASSUME NEW b \in BOOLEAN,
             Do(h, [at |-> "writeRole", user |-> t, was |-> users[t].admin, admin |-> b])
      PROVE  StepFacts(h)
  <2> DEFINE next == [at |-> "writeRole", user |-> t, was |-> users[t].admin, admin |-> b]
  <2>1. next \in Ops
    BY <1>2, <1>3, OpsTypes
  <2>2. op' \in [Handlers -> Ops] /\ op'[h] = next /\ \A g \in Handlers \ {h} : op'[g] = op[g]
    BY <1>7, <2>1, DoEffect DEF Sane, Types
  <2>3. op'[h].at = "writeRole" /\ op'[h].user = t
    BY <2>2
  <2> QED
    BY <1>1, <1>2, <2>2, <2>3
    DEF StepFacts, Sound, NumberStep, ImportStep, GiverStep, Known, Hires, Gives,
        EmployeesSound, UsersSound
<1> QED
  BY <1>5, <1>6, <1>7 DEF UpdateUser

LEMMA WriteUserFacts ==
  ASSUME Sane, NEW h \in Handlers, WriteUser(h)
  PROVE  StepFacts(h)
<1>1. op[h].at \in {"writeLink", "writeEmail", "writeRole"} /\ op[h].user \in 1 .. MaxUsers
  BY Carried DEF Sane, Types, WriteUser, At
<1>2. op[h].user \in DOMAIN users
  BY <1>1 DEF Sane, RowsKnown, Known
<1>3. PICK t \in DOMAIN users : t = op[h].user /\ t \in Nat
  BY <1>1, <1>2
<1>4. Do(h, Idle) /\ UNCHANGED employees
  BY DEF WriteUser
<1>5. EmployeesSound /\ DOMAIN employees' = DOMAIN employees
  BY <1>4, EmployeesSame
<1>6. CASE UNCHANGED users
  <2>1. UsersSound /\ \A e \in Ids : LinkedTo(e)' = LinkedTo(e)
    BY <1>5, <1>6, UsersSame
  <2> QED
    BY <1>3, <1>4, <1>5, <2>1, IdleFacts
<1>7. CASE op[h].at = "writeLink" /\ users' = [users EXCEPT ![t].employee = op[h].id]
  <2>1. op[h].id \in Ids \cup {None} /\ op[h].id \in DOMAIN employees \cup {None}
    BY <1>7, Carried DEF Sane, Types, RowsKnown, Known
  <2>2. PICK d \in Ids \cup {None} : d = op[h].id /\ d \in DOMAIN employees \cup {None}
    BY <2>1
  <2>3. /\ UsersSound
        /\ \A e \in Ids : LinkedTo(e)' \subseteq LinkedTo(e) \cup {u \in {t} : e = d}
    <3>1. users' = [users EXCEPT ![t].employee = d]
      BY <1>7, <2>2
    <3>2. DOMAIN employees \subseteq DOMAIN employees'
      BY <1>5
    <3>3. t \in DOMAIN users /\ d \in DOMAIN employees \cup {None}
      BY <2>2
    <3> QED
      BY <3>1, <3>2, <3>3, LinkEffect
  <2>4. \A e \in Ids : LinkedTo(e)' \subseteq LinkedTo(e) \cup {v \in {t} : Gives(op[h], e)}
    BY <1>7, <2>2, <2>3 DEF Gives
  <2> QED
    BY <1>3, <1>4, <1>5, <2>3, <2>4, IdleFacts
<1>8. CASE /\ op[h].at = "writeEmail" /\ op[h].email \notin Taken
           /\ users' = [users EXCEPT ![t].email = op[h].email]
  <2>1. op[h].email \in Emails
    BY <1>8, Carried DEF Sane, Types, Emails
  <2>2. UsersSound /\ \A e \in Ids : LinkedTo(e)' = LinkedTo(e)
    BY <1>5, <1>8, <2>1, EmailEffect
  <2> QED
    BY <1>3, <1>4, <1>5, <2>2, IdleFacts
<1>9. CASE /\ op[h].at = "writeRole" /\ op[h].was # op[h].admin
           /\ users' = [users EXCEPT ![t].admin = op[h].admin]
  <2>1. op[h].admin \in BOOLEAN /\ op[h].was \in BOOLEAN
    BY <1>9, Carried DEF Sane, Types
  <2>2. /\ UsersSound
        /\ \A e \in Ids : LinkedTo(e)' = LinkedTo(e)
    BY <1>5, <1>9, <2>1, RoleEffect
  <2> QED
    BY <1>3, <1>4, <1>5, <1>9, <2>2, IdleFacts
<1>10. \/ UNCHANGED users
       \/ op[h].at = "writeLink" /\ users' = [users EXCEPT ![t].employee = op[h].id]
       \/ /\ op[h].at = "writeEmail" /\ op[h].email \notin Taken
          /\ users' = [users EXCEPT ![t].email = op[h].email]
       \/ /\ op[h].at = "writeRole" /\ op[h].was # op[h].admin
          /\ users' = [users EXCEPT ![t].admin = op[h].admin]
  BY <1>3 DEF WriteUser
<1> QED
  BY <1>6, <1>7, <1>8, <1>9, <1>10

LEMMA DeleteFacts ==
  ASSUME Sane, NEW h \in Handlers, NEW t \in Accounts, Delete(h, t)
  PROVE  StepFacts(h)
<1> DEFINE next == [at |-> "destroy", user |-> t]
<1>1. /\ EmployeesSound /\ UsersSound /\ Taken' = Taken
      /\ \A e \in Ids : LinkedTo(e)' = LinkedTo(e)
      /\ DOMAIN users \subseteq 1 .. MaxUsers
  BY SameTables DEF Delete, table
<1>2. t \in DOMAIN users
  BY DEF Accounts
<1>3. next \in Ops
  BY <1>1, <1>2, OpsTypes
<1>4. op' \in [Handlers -> Ops] /\ op'[h] = next /\ \A g \in Handlers \ {h} : op'[g] = op[g]
  BY <1>3, DoEffect DEF Sane, Types, Delete
<1>5. op'[h].at = "destroy" /\ op'[h].user = t
  BY <1>4
<1> QED
  BY <1>1, <1>2, <1>4, <1>5
  DEF StepFacts, Sound, NumberStep, ImportStep, GiverStep, Known, Hires, Gives,
      UsersSound

LEMMA DestroyFacts ==
  ASSUME Sane, NEW h \in Handlers, Destroy(h)
  PROVE  StepFacts(h)
<1>1. op[h].at = "destroy"
  BY DEF Destroy, At
<1>2. op[h].user \in DOMAIN users
  BY <1>1 DEF Sane, RowsKnown, Known
<1>3. Do(h, Idle) /\ UNCHANGED employees /\ 0 \in Nat
  BY DEF Destroy
<1>4. EmployeesSound /\ DOMAIN employees' = DOMAIN employees
  BY <1>3, EmployeesSame
<1>5. /\ UsersSound
      /\ \A e \in Ids : LinkedTo(e)' \subseteq LinkedTo(e)
  BY <1>2, <1>4, GoneEffect DEF Destroy
<1> QED
  BY <1>1, <1>3, <1>4, <1>5, IdleFacts

-----------------------------------------------------------------------------
(* One step for each action of Next.                                       *)

LEMMA NextFacts ==
  ASSUME Sane, Next
  PROVE  /\ \E h \in Handlers : StepFacts(h)
         /\ requests' \in 0 .. MaxRequests /\ deaths' \in 0 .. MaxDeaths
<1>1. PICK h \in Handlers : Request(h) \/ Step(h)
  BY DEF Next
<1>2. requests \in 0 .. MaxRequests /\ deaths \in 0 .. MaxDeaths
  BY DEF Sane, Types
<1>3. ASSUME Arrive(h)
      PROVE  requests' \in 0 .. MaxRequests /\ deaths' \in 0 .. MaxDeaths
  BY <1>2, <1>3, HandlersAssumption DEF Arrive
<1>4. ASSUME UNCHANGED <<requests, deaths>>
      PROVE  requests' \in 0 .. MaxRequests /\ deaths' \in 0 .. MaxDeaths
  BY <1>2, <1>4
<1> DEFINE Fine == /\ StepFacts(h)
                   /\ requests' \in 0 .. MaxRequests /\ deaths' \in 0 .. MaxDeaths
<1> SUFFICES Fine
  OBVIOUS
<1>5. ASSUME NEW n \in Numbers, Hire(h, n)
      PROVE  Fine
  BY <1>3, <1>5, HireFacts DEF Hire
<1>6. ASSUME NEW n \in Numbers, Upsert(h, n)
      PROVE  Fine
  BY <1>3, <1>6, UpsertFacts DEF Upsert
<1>7. ASSUME NEW e \in Live, SoftDelete(h, e)
      PROVE  Fine
  BY <1>3, <1>7, SoftDeleteFacts DEF SoftDelete
<1>8. ASSUME NEW e \in Live, NEW n \in Numbers, Renumber(h, e, n)
      PROVE  Fine
  BY <1>3, <1>8, RenumberFacts DEF Renumber
<1>9. ASSUME NEW a \in Addresses, NEW admin \in BOOLEAN, NEW e \in DOMAIN employees \cup {None},
             CreateUser(h, a, admin, e)
      PROVE  Fine
  BY <1>3, <1>9, CreateUserFacts DEF CreateUser
<1>10. ASSUME NEW a \in Addresses, NEW n \in Numbers, CreateUserAndEmployee(h, a, n)
       PROVE  Fine
  BY <1>3, <1>10, CreateUserAndEmployeeFacts DEF CreateUserAndEmployee
<1>11. ASSUME NEW u \in Accounts, UpdateUser(h, u)
       PROVE  Fine
  BY <1>3, <1>11, UpdateUserFacts DEF UpdateUser
<1>12. ASSUME NEW u \in Accounts, Delete(h, u)
       PROVE  Fine
  BY <1>3, <1>12, DeleteFacts DEF Delete
<1>13. CASE Insert(h)
  BY <1>4, <1>13, InsertFacts DEF Insert, At
<1>14. CASE WriteNumber(h)
  BY <1>4, <1>14, WriteNumberFacts DEF WriteNumber, At
<1>15. CASE FindLinked(h)
  BY <1>4, <1>15, FindLinkedFacts DEF FindLinked, At
<1>16. CASE ChooseAddress(h)
  BY <1>4, <1>16, ChooseAddressFacts DEF ChooseAddress, At
<1>17. CASE CreatePortalUser(h)
  BY <1>4, <1>17, CreatePortalUserFacts DEF CreatePortalUser, At
<1>18. CASE Answer(h)
  BY <1>4, <1>18, AnswerFacts DEF Answer
<1>19. CASE InsertUser(h)
  BY <1>4, <1>19, InsertUserFacts DEF InsertUser, At
<1>20. CASE WriteUser(h)
  BY <1>4, <1>20, WriteUserFacts DEF WriteUser, At
<1>21. CASE Destroy(h)
  BY <1>4, <1>21, DestroyFacts DEF Destroy, At
<1>22. CASE Die(h) /\ UNCHANGED table
  <2>1. requests' \in 0 .. MaxRequests /\ deaths' \in 0 .. MaxDeaths
    BY <1>2, <1>22, HandlersAssumption DEF Die
  <2> QED
    BY <1>22, <2>1, DieFacts
<1>25. CASE PortalFails(h)
  BY <1>4, <1>25, PortalFailsFacts DEF PortalFails, At
<1> HIDE DEF Fine
<1>23. CASE Request(h)
  BY <1>23, <1>5, <1>6, <1>7, <1>8, <1>9, <1>10, <1>11, <1>12 DEF Request
<1>24. CASE Step(h)
  BY <1>24, <1>13, <1>14, <1>15, <1>16, <1>17, <1>18, <1>19, <1>20, <1>21, <1>22, <1>25 DEF Step
<1> QED
  BY <1>1, <1>23, <1>24

-----------------------------------------------------------------------------
(* Such a step keeps the invariants.                                       *)

LEMMA SaneStep ==
  ASSUME Sane, Next
  PROVE  Sane'
<1>1. PICK h \in Handlers : StepFacts(h)
  BY NextFacts
<1>2. /\ op' \in [Handlers -> Ops] /\ \A g \in Handlers \ {h} : op'[g] = op[g]
      /\ EmployeesSound /\ UsersSound /\ Known(op[h])'
  BY <1>1 DEF StepFacts, Sound
<1>3. employees' \in Seq(Employee) /\ Len(employees') <= MaxEmployees
      /\ users' \in Seq(User) /\ Len(users') <= MaxUsers
  BY <1>2 DEF EmployeesSound, UsersSound
<1>4. DOMAIN employees' \subseteq Ids
  <2>1. DOMAIN employees' = 1 .. Len(employees') /\ Len(employees') \in Nat
    BY <1>3, LenProperties
  <2>2. \A i \in 1 .. Len(employees') : i \in 1 .. MaxEmployees
    BY <1>3, <2>1, DirectoryAssumption
  <2> QED
    BY <2>1, <2>2 DEF Ids
<1>5. watch' \in [Handlers -> [nums : SUBSET Numbers, linked : SUBSET Ids,
                               beaten : BOOLEAN, full : BOOLEAN]]
  BY <1>2, <1>4, WatchEffect DEF Next, Histories
<1>6. raced' \subseteq Ids
  BY DEF Next, Histories, Sane, Types
<1>7. Types'
  BY <1>2, <1>3, <1>5, <1>6, NextFacts DEF Types
<1>8. ASSUME NEW g \in Handlers
      PROVE  Known(op[g])'
  <2>1. CASE g = h
    BY <1>2, <2>1
  <2>2. CASE g # h
    <3>1. Known(op[g]) /\ op'[g] = op[g]
      BY <1>2, <2>2 DEF Sane, RowsKnown
    <3> QED
      BY <1>2, <3>1 DEF Known, EmployeesSound, UsersSound
  <2> QED
    BY <2>1, <2>2
<1>9. RowsKnown'
  BY <1>2, <1>8 DEF RowsKnown, UsersSound
<1> QED
  BY <1>2, <1>7, <1>9 DEF Sane, EmployeesSound, UsersSound

LEMMA Giving ==
  ASSUME Sane, NEW e \in Ids
  PROVE  /\ Linking(e) = {h \in Handlers : Gives(op[h], e)}
         /\ LinkedTo(e) \subseteq DOMAIN users
         /\ e \notin DOMAIN employees =>
              LinkedTo(e) = {} /\ \A h \in Handlers : ~Gives(op[h], e)
<1>1. e # None
  BY DirectoryAssumption DEF Ids
<1> QED
  BY <1>1 DEF Linking, Gives, LinkedTo, Accounts, Sane, RowsKnown, Known

LEMMA OneGiverStep ==
  ASSUME Sane, Sane', OneGiver, Next
  PROVE  OneGiver'
<1>1. PICK h \in Handlers :
        GiverStep(h) /\ \A g \in Handlers \ {h} : op'[g] = op[g]
  BY NextFacts DEF StepFacts, Sound
<1> SUFFICES ASSUME NEW e \in Ids, e \notin raced'
             PROVE  (/\ \A t, u \in LinkedTo(e) : t = u
                     /\ \A f, g \in Linking(e) : f = g
                     /\ \A g \in Linking(e) : IF op[g].at = "writeLink"
                                              THEN LinkedTo(e) \subseteq {op[g].user}
                                              ELSE LinkedTo(e) = {})'
  BY DEF OneGiver, Ids
<1>2. e \notin raced /\ Cardinality(Linking(e)') <= 1
  <2>1. e \notin raced /\ ~(Cardinality(Linking(e)') > 1)
    BY DEF Next, Histories
  <2>2. Linking(e)' \subseteq Handlers
    BY DEF Linking
  <2>3. Cardinality(Linking(e)') \in Nat
    BY <2>2, DirectoryAssumption, FS_Subset, FS_CardinalityType
  <2> QED
    BY <2>1, <2>3
<1>3. \A f, g \in Linking(e)' : f = g
  <2>1. IsFiniteSet(Linking(e)')
    BY DirectoryAssumption, FS_Subset DEF Linking
  <2> QED
    BY <1>2, <2>1, AtMostOne
<1>4. /\ \A t, u \in LinkedTo(e) : t = u
      /\ \A f, g \in Linking(e) : f = g
      /\ \A g \in Linking(e) : IF op[g].at = "writeLink" THEN LinkedTo(e) \subseteq {op[g].user}
                               ELSE LinkedTo(e) = {}
  BY <1>2 DEF OneGiver
<1>5. Linking(e) = {g \in Handlers : Gives(op[g], e)}
  BY Giving
<1>6. Linking(e)' = {g \in Handlers : Gives(op'[g], e)}
  BY DEF Linking, Gives
<1>7. CASE /\ LinkedTo(e)' \subseteq LinkedTo(e)
           /\ Gives(op'[h], e) =>
                IF op'[h].at = "writeLink" THEN LinkedTo(e) \subseteq {op'[h].user}
                ELSE LinkedTo(e) = {} \/ (Gives(op[h], e) /\ op[h].at = "choose")
  <2>1. \A t, u \in LinkedTo(e)' : t = u
    BY <1>4, <1>7
  <2>2. ASSUME NEW g \in Linking(e)'
        PROVE  IF op'[g].at = "writeLink" THEN LinkedTo(e)' \subseteq {op'[g].user}
               ELSE LinkedTo(e)' = {}
    <3>1. CASE g = h
      <4>1. Gives(op[h], e) /\ op[h].at = "choose" => LinkedTo(e) = {}
        BY <1>4, <1>5
      <4> QED
        BY <1>6, <1>7, <3>1, <4>1
    <3>2. CASE g # h
      <4>1. g \in Linking(e) /\ op'[g] = op[g]
        BY <1>1, <1>5, <1>6, <3>2
      <4> QED
        BY <1>4, <1>7, <4>1
    <3> QED
      BY <3>1, <3>2
  <2> QED
    BY <1>3, <2>1, <2>2
<1>8. CASE /\ Gives(op[h], e) /\ ~Gives(op'[h], e)
           /\ \E u \in Nat : /\ LinkedTo(e)' \subseteq LinkedTo(e) \cup {u}
                             /\ op[h].at = "writeLink" => u = op[h].user
  <2>1. Linking(e)' = {}
    BY <1>1, <1>4, <1>5, <1>6, <1>8
  <2>2. PICK u \in Nat : /\ LinkedTo(e)' \subseteq LinkedTo(e) \cup {u}
                         /\ op[h].at = "writeLink" => u = op[h].user
    BY <1>8
  <2>3. LinkedTo(e)' \subseteq {u}
    BY <1>4, <1>5, <1>8, <2>2
  <2> QED
    BY <2>1, <2>3
<1>9. CASE /\ e \notin DOMAIN employees /\ ~Gives(op'[h], e)
           /\ \E u \in Nat : LinkedTo(e)' \subseteq LinkedTo(e) \cup {u}
  <2>1. LinkedTo(e) = {} /\ Linking(e) = {}
    BY <1>5, <1>9, Giving
  <2>2. Linking(e)' = {}
    BY <1>1, <1>5, <1>6, <1>9, <2>1
  <2> QED
    BY <1>9, <2>1, <2>2
<1> QED
  BY <1>1, <1>7, <1>8, <1>9 DEF GiverStep

LEMMA FiniteAccounts ==
  ASSUME Sane
  PROVE  IsFiniteSet(Accounts)
<1>1. IsFiniteSet(1 .. Len(users)) /\ DOMAIN users = 1 .. Len(users)
  <2>1. Len(users) \in Nat /\ DOMAIN users = 1 .. Len(users)
    BY LenProperties DEF Sane, Types
  <2> QED
    BY <2>1, FS_Interval
<1>2. Accounts \subseteq 1 .. Len(users)
  BY <1>1 DEF Accounts
<1> QED
  BY <1>1, <1>2, FS_Subset

LEMMA HistoriesFacts ==
  ASSUME Sane, Sane', Next
  PROVE  \A h \in Handlers : op'[h] # Idle =>
           /\ op[h] # Idle => /\ watch[h].nums \subseteq watch'[h].nums
                              /\ watch[h].linked \subseteq watch'[h].linked
                              /\ watch[h].beaten => watch'[h].beaten
                              /\ watch[h].full => watch'[h].full
           /\ \A n \in Numbers :
                LiveWith(n)' # {} \/ (~Held(n) /\ Held(n)') => n \in watch'[h].nums
           /\ \A e \in DOMAIN employees' : LinkedTo(e)' # {} => e \in watch'[h].linked
           /\ op[h] = op'[h] /\ op[h].at = "portal" /\ op[h].email \in Taken' \ Taken =>
                watch'[h].beaten
           /\ op[h].at = "choose" /\ op'[h].at = "portal"
                /\ (\A i \in 1 .. 3 : Portal(op[h].num, op[h].id)[i] \in Taken) =>
                watch'[h].full
<1>1. op' \in [Handlers -> Ops]
  BY DEF Sane, Types
<1>2. DOMAIN employees' \subseteq Ids
  <2>1. employees' \in Seq(Employee) /\ Len(employees') <= MaxEmployees
    BY DEF Sane, Types
  <2>2. DOMAIN employees' = 1 .. Len(employees') /\ Len(employees') \in Nat
    BY <2>1, LenProperties
  <2>3. \A i \in 1 .. Len(employees') : i \in 1 .. MaxEmployees
    BY <2>1, <2>2, DirectoryAssumption
  <2> QED
    BY <2>2, <2>3 DEF Ids
<1>3. Watch
  BY DEF Next, Histories
<1> QED
  BY <1>1, <1>2, <1>3, WatchEffect

LEMMA NumbersStep ==
  ASSUME Sane, Sane', NumbersFree, NumbersReusable, Next
  PROVE  NumbersFree' /\ NumbersReusable'
<1>1. PICK h \in Handlers :
        NumberStep(h) /\ \A g \in Handlers \ {h} : op'[g] = op[g]
  BY NextFacts DEF StepFacts, Sound
<1>2. \A g \in Handlers : Hires(op'[g]) => op'[g] # Idle /\ op'[g].num \in Numbers
  BY Carried DEF Sane, Types, Hires, Idle
<1>3. ASSUME NEW g \in Handlers, Hires(op'[g]), op'[g] = op[g], Held(op[g].num)'
      PROVE  op'[g].num \in watch'[g].nums
  <2>1. CASE Held(op[g].num)
    BY <1>2, <1>3, <2>1, HistoriesFacts DEF NumbersFree
  <2>2. CASE ~Held(op[g].num)
    <3>1. PICK n \in Numbers : n = op[g].num
      BY <1>2, <1>3
    <3>2. Held(n)' /\ ~Held(n)
      BY <1>3, <2>2, <3>1 DEF Held
    <3> QED
      BY <1>2, <1>3, <3>1, <3>2, HistoriesFacts
  <2> QED
    BY <2>1, <2>2
<1>4. ASSUME NEW g \in Handlers, Hires(op'[g]), Held(op[g].num)'
      PROVE  op'[g].num \in watch'[g].nums
  BY <1>1, <1>3, <1>4 DEF NumberStep
<1>5. ASSUME NEW g \in Handlers, op'[g].at = "refused"
      PROVE  op'[g].num \in watch'[g].nums
  <2>1. op'[g] # Idle
    BY <1>5 DEF Idle
  <2>2. CASE g # h
    <3>1. op'[g] = op[g] /\ op[g].num \in watch[g].nums
      BY <1>1, <1>5, <2>2 DEF NumbersReusable
    <3> QED
      BY <2>1, <3>1, HistoriesFacts
  <2>3. CASE g = h
    <3>1. PICK n \in Numbers : n = op'[h].num
      BY <1>1, <1>5, <2>3 DEF NumberStep
    <3>2. CASE LiveWith(op[h].num)' # {}
      <4>1. LiveWith(n)' # {}
        BY <3>1, <3>2 DEF LiveWith
      <4> QED
        BY <2>1, <2>3, <3>1, <4>1, HistoriesFacts
    <3>3. CASE Hires(op[h]) /\ op[h].num = op'[h].num /\ Held(op[h].num)
      <4>1. op[h] # Idle /\ op[h].num \in watch[h].nums
        BY <3>3 DEF Hires, Idle, NumbersFree
      <4> QED
        BY <2>1, <2>3, <3>3, <4>1, HistoriesFacts
    <3> QED
      BY <1>1, <1>5, <2>3, <3>2, <3>3 DEF NumberStep
  <2> QED
    BY <2>2, <2>3
<1> QED
  BY <1>4, <1>5 DEF NumbersFree, NumbersReusable

LEMMA AddressStep ==
  ASSUME Sane, Sane', AddressFree, ImportedCanLogIn, Next
  PROVE  AddressFree' /\ ImportedCanLogIn'
<1>1. PICK h \in Handlers :
        ImportStep(h) /\ \A g \in Handlers \ {h} : op'[g] = op[g]
  BY NextFacts DEF StepFacts, Sound
<1>2. ASSUME NEW g \in Handlers, op'[g].at = "portal"
      PROVE  op'[g].email \notin Taken' \/ watch'[g].beaten \/ watch'[g].full
  <2>1. op'[g] # Idle
    BY <1>2 DEF Idle
  <2>2. CASE g # h
    <3>1. op'[g] = op[g] /\ op[g] # Idle
      BY <1>1, <2>1, <2>2
    <3>2. op[g].email \notin Taken \/ watch[g].beaten \/ watch[g].full
      BY <1>2, <3>1 DEF AddressFree
    <3> QED
      BY <1>2, <2>1, <3>1, <3>2, HistoriesFacts
  <2>3. CASE g = h
    <3>1. /\ op[h].at = "choose" /\ Taken' = Taken
          /\ op'[h].email \notin Taken \/ \A i \in 1 .. 3 : Portal(op[h].num, op[h].id)[i] \in Taken
      BY <1>1, <1>2, <2>3 DEF ImportStep
    <3> QED
      BY <1>2, <2>1, <2>3, <3>1, HistoriesFacts
  <2> QED
    BY <2>2, <2>3
<1>3. ASSUME NEW g \in Handlers, op'[g].at = "imported"
      PROVE  \/ op'[g].id \in watch'[g].linked \/ op'[g].warned
             \/ watch'[g].beaten \/ watch'[g].full
  <2>1. op'[g] # Idle
    BY <1>3 DEF Idle
  <2>2. CASE g # h
    <3>1. op'[g] = op[g] /\ op[g] # Idle
      BY <1>1, <2>1, <2>2
    <3>2. op[g].id \in watch[g].linked \/ op[g].warned \/ watch[g].beaten \/ watch[g].full
      BY <1>3, <3>1 DEF ImportedCanLogIn
    <3> QED
      BY <2>1, <3>1, <3>2, HistoriesFacts
  <2>3. CASE g = h
    <3>1. PICK d \in DOMAIN employees' : d = op'[h].id
      BY <1>3, <2>3 DEF Sane, RowsKnown, Known
    <3>2. CASE LinkedTo(op[h].id)' # {}
      <4>1. LinkedTo(d)' # {}
        BY <3>1, <3>2 DEF LinkedTo
      <4> QED
        BY <2>1, <2>3, <3>1, <4>1, HistoriesFacts
    <3>3. CASE op[h].at = "portal" /\ op[h].email \in Taken
      <4>1. op[h] # Idle /\ (watch[h].beaten \/ watch[h].full)
        BY <3>3 DEF AddressFree, Idle
      <4> QED
        BY <2>1, <2>3, <4>1, HistoriesFacts
    <3>4. CASE op'[h].warned
      BY <2>3, <3>4
    <3> QED
      BY <1>1, <1>3, <2>3, <3>2, <3>3, <3>4 DEF ImportStep
  <2> QED
    BY <2>2, <2>3
<1> QED
  BY <1>2, <1>3 DEF AddressFree, ImportedCanLogIn

-----------------------------------------------------------------------------
(* The invariants hold from the start on.                                  *)

LEMMA InitInv == Init => IInv
<1> SUFFICES ASSUME Init
             PROVE  IInv
  OBVIOUS
<1>1. /\ op = [h \in Handlers |-> Idle] /\ requests = 0 /\ deaths = 0
      /\ employees = <<>> /\ watch = [h \in Handlers |-> Unseen]
      /\ raced = {}
  BY DEF Init, InitHandlers
<1>2. PICK a \in Addresses :
        users = <<[employee |-> None, email |-> a, admin |-> TRUE, gone |-> FALSE]>>
  BY DEF Init
<1>3. /\ users[1].employee = None /\ users[1].email = a
      /\ users[1].admin = TRUE /\ users[1].gone = FALSE
      /\ DOMAIN users = {1} /\ Len(users) = 1
      /\ users \in Seq(User)
  <2> DEFINE row == [employee |-> None, email |-> a, admin |-> TRUE, gone |-> FALSE]
  <2>1. /\ row \in User /\ row.employee = None /\ row.email = a
        /\ row.admin = TRUE /\ row.gone = FALSE
    BY DEF User, Emails
  <2>2. users = <<row>>
    BY <1>2
  <2> HIDE DEF row
  <2>3. users[1] = row /\ Len(users) = 1 /\ DOMAIN users = {1} /\ users \in Seq(User)
    BY <2>1, <2>2
  <2> QED
    BY <2>1, <2>3
<1>4. DOMAIN employees = {} /\ Len(employees) = 0 /\ employees \in Seq(Employee)
  BY <1>1
<1>5. \A h \in Handlers : op[h] = Idle /\ op[h].at = "idle"
  BY <1>1 DEF Idle
<1>6. Accounts = {1}
  BY <1>3 DEF Accounts
<1>7. \A e \in Ids : LinkedTo(e) = {} /\ Linking(e) = {}
  <2>1. None \notin Ids
    BY DirectoryAssumption DEF Ids
  <2> QED
    BY <1>3, <1>5, <1>6, <2>1 DEF LinkedTo, Linking
<1>8. Types
  <2>1. op \in [Handlers -> Ops]
    BY <1>1, OpsTypes
  <2>2. Unseen \in [nums : SUBSET Numbers, linked : SUBSET Ids, beaten : BOOLEAN, full : BOOLEAN]
    BY DEF Unseen
  <2>3. watch \in [Handlers -> [nums : SUBSET Numbers, linked : SUBSET Ids,
                                beaten : BOOLEAN, full : BOOLEAN]]
    BY <1>1, <2>2
  <2>4. requests \in 0 .. MaxRequests /\ deaths \in 0 .. MaxDeaths
    BY <1>1, HandlersAssumption
  <2>5. Len(employees) <= MaxEmployees /\ Len(users) <= MaxUsers
    BY <1>3, <1>4, DirectoryAssumption
  <2> QED
    BY <1>1, <1>3, <1>4, <2>1, <2>3, <2>4, <2>5 DEF Types
<1>9. NumbersUnique /\ EmailsUnique
  BY <1>4, <1>6 DEF NumbersUnique, EmailsUnique
<1>10. RowsKnown
  BY <1>3, <1>5 DEF RowsKnown, Known
<1>11. OneGiver
  BY <1>7 DEF OneGiver
<1>13. NumbersFree /\ NumbersReusable /\ AddressFree /\ ImportedCanLogIn
  BY <1>5 DEF NumbersFree, NumbersReusable, AddressFree, ImportedCanLogIn, Hires
<1> QED
  BY <1>8, <1>9, <1>10, <1>11, <1>13 DEF IInv, Sane

LEMMA StepInv == IInv /\ [Next]_vars => IInv'
<1>1. ASSUME IInv, Next
      PROVE  IInv'
  <2>1. Sane'
    BY <1>1, SaneStep DEF IInv
  <2> QED
    BY <1>1, <2>1, OneGiverStep, NumbersStep, AddressStep DEF IInv
<1>2. ASSUME IInv, UNCHANGED vars
      PROVE  IInv'
  <2>1. /\ op' = op /\ requests' = requests /\ deaths' = deaths /\ employees' = employees
        /\ users' = users /\ watch' = watch /\ raced' = raced
    BY <1>2 DEF vars, server
  <2>2. Sane'
    BY <1>2, <2>1 DEF IInv, Sane, Types, NumbersUnique, EmailsUnique, Accounts, RowsKnown, Known
  <2>3. OneGiver'
    BY <1>2, <2>1 DEF IInv, OneGiver, LinkedTo, Linking, Accounts
  <2>4. NumbersFree' /\ NumbersReusable'
    BY <1>2, <2>1 DEF IInv, NumbersFree, NumbersReusable, Hires, Held
  <2>5. AddressFree' /\ ImportedCanLogIn'
    BY <1>2, <2>1 DEF IInv, AddressFree, ImportedCanLogIn, Taken, Accounts
  <2> QED
    BY <2>2, <2>3, <2>4, <2>5 DEF IInv
<1> QED
  BY <1>1, <1>2

LEMMA Inductive == Spec => []IInv
BY InitInv, StepInv, PTL DEF Spec

-----------------------------------------------------------------------------
(* The theorems.                                                           *)

\* The rows and what the requests carry have their types, no two employees
\* have one number and no two accounts one address: every statement that writes
\* a number or an address has asked the unique index.
THEOREM TypeCorrect == Spec => []TypeOK
<1>1. Sane => TypeOK
  <2> SUFFICES ASSUME Sane
               PROVE  TypeOK
    OBVIOUS
  <2>1. ASSUME NEW n \in Numbers
        PROVE  Cardinality({e \in DOMAIN employees : employees[e].num = n}) <= 1
    <3> DEFINE S == {e \in DOMAIN employees : employees[e].num = n}
    <3>1. Len(employees) \in Nat /\ DOMAIN employees = 1 .. Len(employees)
      BY LenProperties DEF Sane, Types
    <3>2. IsFiniteSet(S)
      <4>1. IsFiniteSet(1 .. Len(employees)) /\ S \subseteq 1 .. Len(employees)
        BY <3>1, FS_Interval
      <4> HIDE DEF S
      <4> QED
        BY <4>1, FS_Subset
    <3>3. \A d, e \in S : d = e
      BY DEF Sane, NumbersUnique
    <3> HIDE DEF S
    <3>4. Cardinality(S) <= 1
      BY <3>2, <3>3, AtMostOne
    <3> QED
      BY <3>4 DEF S
  <2>2. Cardinality(Taken) = Cardinality(Accounts)
    <3> DEFINE f == [u \in Accounts |-> users[u].email]
    <3>1. f \in [Accounts -> Taken] /\ \A a \in Taken : \E u \in Accounts : f[u] = a
      BY DEF Taken
    <3>2. \A t, u \in Accounts : f[t] = f[u] => t = u
      BY DEF Sane, EmailsUnique
    <3>3. DOMAIN f = Accounts
      OBVIOUS
    <3> HIDE DEF f
    <3>4. f \in Bijection(Accounts, Taken)
      BY <3>1, <3>2, <3>3 DEF Bijection, Injection, Surjection, IsInjective
    <3>5. ExistsBijection(Accounts, Taken)
      BY <3>4 DEF ExistsBijection
    <3> QED
      BY <3>5, FiniteAccounts, FS_Bijection
  <2> QED
    BY <2>1, <2>2 DEF Sane, Types, TypeOK
<1> QED
  BY <1>1, Inductive, PTL DEF IInv

\* However imports, creations and links interleave, an employee ends up with
\* two accounts only if two requests were giving the employee one at once.
THEOREM OneEach == Spec => []OneAccount
<1>1. IInv => OneAccount
  <2> SUFFICES ASSUME IInv, NEW e \in DOMAIN employees, e \notin raced
               PROVE  Cardinality(LinkedTo(e)) <= 1
    BY DEF OneAccount
  <2>1. Sane /\ OneGiver
    BY DEF IInv
  <2>2. e \in Ids
    BY <2>1, EmployeeRows DEF Sane, Types
  <2>3. \A t, u \in LinkedTo(e) : t = u
    BY <2>1, <2>2 DEF OneGiver
  <2>4. IsFiniteSet(LinkedTo(e))
    BY <2>1, FiniteAccounts, FS_Subset DEF LinkedTo
  <2> QED
    BY <2>3, <2>4, AtMostOne
<1> QED
  BY <1>1, Inductive, PTL

\* The number of somebody dismissed is refused to nobody, whoever is hired,
\* renumbered or dismissed between the look and the insert, unless somebody
\* else was given it in between.
THEOREM Reusable == Spec => []NumbersReusable
<1>1. IInv => NumbersReusable
  BY DEF IInv
<1> QED
  BY <1>1, Inductive, PTL

\* An import that answers has given its employee an account or found one, unless one
\* of its statements failed, the address it chose was taken from it or none of the three
\* was free, whatever else is hired, dismissed, linked or deleted meanwhile
\* (ensurePortalUserAfterZkImport, employee.service.js).
THEOREM CanLogIn == Spec => []ImportedCanLogIn
<1>1. IInv => ImportedCanLogIn
  BY DEF IInv
<1> QED
  BY <1>1, Inductive, PTL
=============================================================================
