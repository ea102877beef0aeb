------------------------- MODULE DeviceLink_proofs -------------------------
(***************************************************************************)
(* Proofs about DeviceLink, for any number of sessions at once, punches,   *)
(* people, days and events: when the terminal's screen is locked, which    *)
(* user row a change of privilege leaves, and that a punch is stored once. *)
(***************************************************************************)
EXTENDS DeviceLink, SequenceTheorems, FiniteSetTheorems, TLAPS

-----------------------------------------------------------------------------
(* The inductive invariants.                                               *)

LinkSteps == {"connect", "disable", "read", "list", "write", "enable"}

\* What a request still has to do, by its kind.
PlansOf(kind) ==
  CASE kind = "list" -> {<<"list">>}
    [] kind = "privilege" -> {<<"unlock", "list", "write">>, <<"list", "write">>, <<"write">>}
    [] kind = "unlock" -> {<<"unlock">>}
    [] OTHER -> {<<"pull">>, <<"again">>}

\* The steps of a session.
StepsOf(s) ==
  CASE s = "pull" -> {"connect", "disable", "read", "enable"}
    [] s = "again" -> {"connect", "read", "enable"}
    [] s = "unlock" -> {"connect", "enable"}
    [] OTHER -> {"connect", s, "enable"}

\* A request is at a step of the session it is in, and when it is going to write a
\* user it has one.
Planned(o) ==
  o.at \in LinkSteps =>
    /\ o.todo \in PlansOf(o.kind)
    /\ o.at \in StepsOf(Head(o.todo))
    /\ o.more => o.at = "enable"
    /\ Head(o.todo) = "write" \/ (Head(o.todo) = "list" /\ o.more) => o.user # None

Sane == TypeOK /\ \A h \in Handlers : Planned(op[h])

\* The terminal's row, and every copy of it that is going to be written back, was entered.
CopiesSound ==
  Entered(device) /\ \A h \in Handlers : Copied(h) => Entered(op[h].user)

\* The type of a row depends on the punch and on how its direction was found, not on
\* what else was read.
RightRow(r) == r.type = Type(1 .. r.punch, r.punch, r.how)

RowsRight ==
  /\ \A l \in logs : RightRow(l)
  /\ \A h \in Handlers : op[h].at = "store" => \A r \in op[h].rows : RightRow(r)

-----------------------------------------------------------------------------
(* What a handler carries and what its next statement makes of it.         *)

SessionOps ==
  [at : LinkSteps \cup {"map"}, kind : Kinds, atServer : BOOLEAN, verify : BOOLEAN,
   todo : Seq(Sessions), link : Links, up : BOOLEAN, held : BOOLEAN, more : BOOLEAN,
   read : 0 .. MaxPunches, user : User \cup {None}]

LEMMA OpsTypes ==
  /\ Idle \in Ops
  /\ \A o \in SessionOps : o \in Ops
  /\ \A rows \in SUBSET Row : [at |-> "store", rows |-> rows] \in Ops
BY DEF Ops, SessionOps, LinkSteps

LEMMA Carried ==
  ASSUME NEW o \in Ops
  PROVE  /\ o.at \in LinkSteps \cup {"idle", "map", "store"}
         /\ o.at \in LinkSteps \cup {"map"} => o \in SessionOps
         /\ o.at = "store" => o = [at |-> "store", rows |-> o.rows] /\ o.rows \in SUBSET Row
         /\ o.at = "idle" => o = Idle
BY DEF Ops, SessionOps, LinkSteps, Idle

LEMMA DoEffect ==
  ASSUME op \in [Handlers -> Ops], NEW h \in Handlers, NEW what \in Ops, Do(h, what)
  PROVE  /\ op' \in [Handlers -> Ops] /\ op'[h] = what
         /\ \A g \in Handlers \ {h} : op'[g] = op[g]
BY DEF Do

LEMMA PlanTypes ==
  ASSUME NEW kind \in Kinds, NEW todo \in PlansOf(kind)
  PROVE  /\ todo \in Seq(Sessions) /\ todo # <<>>
         /\ Head(todo) \in Sessions
         /\ Head(todo) = "write" => kind = "privilege"
         /\ Head(todo) = "unlock" /\ Len(todo) > 1 =>
              Tail(todo) \in PlansOf(kind) /\ Head(Tail(todo)) = "list"
         /\ Head(todo) = "list" /\ Len(todo) > 1 => Tail(todo) \in PlansOf(kind)
         /\ Head(todo) = "pull" => <<"again">> \in PlansOf(kind)
<1>1. CASE \E s \in Sessions : todo = <<s>>
  <2>1. PICK s \in Sessions : todo = <<s>>
    BY <1>1
  <2>2. Head(todo) = s /\ Len(todo) = 1 /\ todo \in Seq(Sessions) /\ todo # <<>>
    BY <2>1
  <2>3. s = "write" => kind = "privilege"
    BY <2>1 DEF PlansOf, Kinds
  <2>4. s = "pull" => kind \in {"import", "poll"}
    BY <2>1 DEF PlansOf, Kinds
  <2>5. s = "pull" => <<"again">> \in PlansOf(kind)
    BY <2>4 DEF PlansOf
  <2> QED
    BY <2>2, <2>3, <2>5
<1>2. CASE todo = <<"list", "write">>
  BY <1>2 DEF Kinds, PlansOf, Sessions
<1>3. CASE todo = <<"unlock", "list", "write">>
  BY <1>3 DEF Kinds, PlansOf, Sessions
<1> QED
  BY <1>1, <1>2, <1>3 DEF Kinds, PlansOf, Sessions

LEMMA SessionEffect ==
  ASSUME Sane, NEW h \in Handlers, NEW what \in SessionOps, Planned(what), Do(h, what)
  PROVE  /\ op' \in [Handlers -> Ops] /\ op'[h] = what
         /\ \A g \in Handlers \ {h} : op'[g] = op[g]
         /\ \A g \in Handlers : Planned(op[g])'
<1>1. op' \in [Handlers -> Ops] /\ op'[h] = what /\ \A g \in Handlers \ {h} : op'[g] = op[g]
  BY OpsTypes, DoEffect DEF Sane, TypeOK
<1>2. Planned(op[h])'
  BY <1>1 DEF Planned
<1>3. \A g \in Handlers \ {h} : Planned(op[g])'
  BY <1>1 DEF Sane, Planned
<1> QED
  BY <1>1, <1>2, <1>3

LEMMA IdleEffect ==
  ASSUME Sane, NEW h \in Handlers, Do(h, Idle)
  PROVE  /\ op' \in [Handlers -> Ops] /\ op'[h] = Idle
         /\ \A g \in Handlers \ {h} : op'[g] = op[g]
         /\ \A g \in Handlers : Planned(op[g])'
<1>1. op' \in [Handlers -> Ops] /\ op'[h] = Idle /\ \A g \in Handlers \ {h} : op'[g] = op[g]
  BY OpsTypes, DoEffect DEF Sane, TypeOK
<1> QED
  BY <1>1 DEF Sane, Planned, Idle, LinkSteps

LEMMA StoreEffect ==
  ASSUME Sane, NEW h \in Handlers, NEW rows \in SUBSET Row, Do(h, [at |-> "store", rows |-> rows])
  PROVE  /\ op' \in [Handlers -> Ops] /\ op'[h].at = "store" /\ op'[h].rows = rows
         /\ \A g \in Handlers \ {h} : op'[g] = op[g]
         /\ \A g \in Handlers : Planned(op[g])'
<1> DEFINE what == [at |-> "store", rows |-> rows]
<1>1. what \in Ops
  BY OpsTypes
<1>2. op' \in [Handlers -> Ops] /\ op'[h] = what /\ \A g \in Handlers \ {h} : op'[g] = op[g]
  BY <1>1, DoEffect DEF Sane, TypeOK
<1> QED
  BY <1>2 DEF Sane, Planned, LinkSteps

\* A handler at a step of a session.
LEMMA InSession ==
  ASSUME Sane, NEW h \in Handlers, op[h].at \in LinkSteps
  PROVE  /\ op[h] \in SessionOps /\ op[h].kind \in Kinds
         /\ op[h].todo \in PlansOf(op[h].kind) /\ op[h].at \in StepsOf(Head(op[h].todo))
         /\ Head(op[h].todo) \in Sessions
         /\ op[h].up \in BOOLEAN /\ op[h].held \in BOOLEAN /\ op[h].more \in BOOLEAN
         /\ op[h].user \in User \cup {None} /\ op[h].link \in Links
         /\ op[h].read \in 0 .. MaxPunches
<1>1. op[h] \in SessionOps
  BY Carried DEF Sane, TypeOK
<1>2. op[h].kind \in Kinds /\ op[h].todo \in PlansOf(op[h].kind) /\ op[h].at \in StepsOf(Head(op[h].todo))
  BY <1>1 DEF Sane, Planned, SessionOps
<1>3. Head(op[h].todo) \in Sessions
  BY <1>2, PlanTypes
<1> QED
  BY <1>1, <1>2, <1>3 DEF SessionOps

\* The handler goes on to another step of the same session.
Within(h, at) ==
  /\ op' \in [Handlers -> Ops]
  /\ \A g \in Handlers \ {h} : op'[g] = op[g]
  /\ \A g \in Handlers : Planned(op[g])'
  /\ op'[h].at = at /\ op'[h].kind = op[h].kind /\ op'[h].todo = op[h].todo

LEMMA ConnectEffect ==
  ASSUME Sane, NEW h \in Handlers, Connect(h)
  PROVE  \E at \in LinkSteps : Within(h, at) /\ op'[h].held = op[h].held /\ op'[h].user = op[h].user
<1> DEFINE s == Head(op[h].todo)
           at == CASE s = "pull" -> "disable" [] s = "again" -> "read"
                   [] s = "unlock" -> "enable" [] OTHER -> s
           what(l) == [op[h] EXCEPT !.link = l, !.up = TRUE, !.at = at]
<1>1. op[h].at = "connect" /\ op[h].at \in LinkSteps
  BY DEF Connect, At, LinkSteps
<1>2. /\ op[h] \in SessionOps /\ s \in Sessions /\ op[h].todo \in PlansOf(op[h].kind)
      /\ Planned(op[h])
  BY <1>1, InSession DEF Sane
<1>3. at \in LinkSteps /\ at \in StepsOf(s)
  BY <1>2 DEF Sessions, LinkSteps, StepsOf
<1> HIDE DEF at
<1>4. PICK l \in Links : Do(h, what(l))
  BY DEF Connect, at
<1>5. what(l) \in SessionOps
  BY <1>2, <1>3 DEF SessionOps
<1>6. /\ what(l).at = at /\ what(l).todo = op[h].todo /\ what(l).kind = op[h].kind
      /\ what(l).held = op[h].held /\ what(l).user = op[h].user /\ what(l).more = op[h].more
  BY <1>2 DEF SessionOps
<1>7. Planned(what(l))
  BY <1>1, <1>2, <1>3, <1>6 DEF Planned
<1>8. /\ op' \in [Handlers -> Ops] /\ op'[h] = what(l)
      /\ \A g \in Handlers \ {h} : op'[g] = op[g]
      /\ \A g \in Handlers : Planned(op[g])'
  BY <1>4, <1>5, <1>7, SessionEffect
<1>9. Within(h, at) /\ op'[h].held = op[h].held /\ op'[h].user = op[h].user
  BY <1>6, <1>8 DEF Within
<1> QED
  BY <1>3, <1>9

LEMMA DisableEffect ==
  ASSUME Sane, NEW h \in Handlers, Disable(h)
  PROVE  /\ op[h].at = "disable" /\ Within(h, "read") /\ op'[h].user = op[h].user
         /\ \/ op'[h].held /\ device' = [device EXCEPT !.locked = TRUE]
            \/ op'[h].held = op[h].held /\ device' = device
<1> DEFINE what(b) == [op[h] EXCEPT !.at = "read", !.held = b]
<1>1. op[h].at = "disable" /\ op[h].at \in LinkSteps
  BY DEF Disable, At, LinkSteps
<1>2. /\ op[h] \in SessionOps /\ op[h].todo \in PlansOf(op[h].kind) /\ Planned(op[h])
      /\ Head(op[h].todo) \in Sessions /\ op[h].at \in StepsOf(Head(op[h].todo))
  BY <1>1, InSession DEF Sane
<1>3. Head(op[h].todo) = "pull" /\ "read" \in StepsOf(Head(op[h].todo))
  BY <1>1, <1>2 DEF Sessions, StepsOf
<1>4. \E b \in BOOLEAN :
        /\ Do(h, what(b))
        /\ \/ b /\ device' = [device EXCEPT !.locked = TRUE]
           \/ b = op[h].held /\ device' = device
  <2>1. CASE Do(h, [op[h] EXCEPT !.at = "read", !.held = TRUE]) /\ device' = [device EXCEPT !.locked = TRUE]
    BY <2>1
  <2>2. CASE Do(h, [op[h] EXCEPT !.at = "read"]) /\ device' = device
    <3>1. [op[h] EXCEPT !.at = "read"] = what(op[h].held) /\ op[h].held \in BOOLEAN
      BY <1>2 DEF SessionOps
    <3> QED
      BY <2>2, <3>1
  <2> QED
    BY <2>1, <2>2 DEF Disable
<1>5. PICK b \in BOOLEAN :
        /\ Do(h, what(b))
        /\ \/ b /\ device' = [device EXCEPT !.locked = TRUE]
           \/ b = op[h].held /\ device' = device
  BY <1>4
<1>6. what(b) \in SessionOps
  BY <1>2 DEF SessionOps, LinkSteps
<1>7. /\ what(b).at = "read" /\ what(b).todo = op[h].todo /\ what(b).kind = op[h].kind
      /\ what(b).held = b /\ what(b).user = op[h].user /\ what(b).more = op[h].more
  BY <1>2 DEF SessionOps
<1>8. Planned(what(b))
  BY <1>1, <1>2, <1>3, <1>7 DEF Planned
<1>9. /\ op' \in [Handlers -> Ops] /\ op'[h] = what(b)
      /\ \A g \in Handlers \ {h} : op'[g] = op[g]
      /\ \A g \in Handlers : Planned(op[g])'
  BY <1>5, <1>6, <1>8, SessionEffect
<1> QED
  BY <1>1, <1>5, <1>7, <1>9 DEF Within

LEMMA ReadEffect ==
  ASSUME Sane, NEW h \in Handlers, Read(h)
  PROVE  op[h].at = "read" /\ Within(h, "enable") /\ op'[h].user = op[h].user /\ op'[h].held = op[h].held
<1> DEFINE what(n, b) == [op[h] EXCEPT !.at = "enable", !.read = n, !.more = b]
<1>1. op[h].at = "read" /\ op[h].at \in LinkSteps
  BY DEF Read, At, LinkSteps
<1>2. /\ op[h] \in SessionOps /\ op[h].todo \in PlansOf(op[h].kind) /\ Planned(op[h])
      /\ Head(op[h].todo) \in Sessions /\ op[h].at \in StepsOf(Head(op[h].todo))
      /\ op[h].up \in BOOLEAN
  BY <1>1, InSession DEF Sane
<1>3. Head(op[h].todo) \in {"pull", "again"} /\ "enable" \in StepsOf(Head(op[h].todo))
  BY <1>1, <1>2 DEF Sessions, StepsOf
<1>4. PICK n \in 0 .. device.taken : Do(h, what(n, op[h].up /\ n = 0 /\ (1 .. device.taken) # {}))
  BY DEF Read
<1>5. PICK b \in BOOLEAN : Do(h, what(n, b))
  BY <1>4
<1>6. n \in 0 .. MaxPunches
  BY LinkAssumption DEF Sane, TypeOK
<1>7. what(n, b) \in SessionOps
  BY <1>2, <1>6 DEF SessionOps, LinkSteps
<1>8. /\ what(n, b).at = "enable" /\ what(n, b).todo = op[h].todo /\ what(n, b).kind = op[h].kind
      /\ what(n, b).held = op[h].held /\ what(n, b).user = op[h].user
  BY <1>2 DEF SessionOps
<1>9. Planned(what(n, b))
  BY <1>1, <1>2, <1>3, <1>8 DEF Planned
<1>10. /\ op' \in [Handlers -> Ops] /\ op'[h] = what(n, b)
       /\ \A g \in Handlers \ {h} : op'[g] = op[g]
       /\ \A g \in Handlers : Planned(op[g])'
  BY <1>5, <1>7, <1>9, SessionEffect
<1> QED
  BY <1>1, <1>8, <1>10 DEF Within

LEMMA ListEffect ==
  ASSUME Sane, NEW h \in Handlers, List(h)
  PROVE  /\ op[h].at = "list" /\ Within(h, "enable") /\ op'[h].held = op[h].held
         /\ \/ op'[h].user = None
            \/ op'[h].user = [pin |-> device.pin, card |-> device.card]
            \/ op'[h].user = [pin |-> 0, card |-> 0] /\ (op[h].kind = "privilege" => bare')
         /\ bare' \in BOOLEAN /\ (bare => bare')
<1> DEFINE whole == [pin |-> device.pin, card |-> device.card]
           what(b, u) == [op[h] EXCEPT !.at = "enable", !.more = b, !.user = u]
<1>1. op[h].at = "list" /\ op[h].at \in LinkSteps
  BY DEF List, At, LinkSteps
<1>2. /\ op[h] \in SessionOps /\ op[h].todo \in PlansOf(op[h].kind) /\ Planned(op[h])
      /\ Head(op[h].todo) \in Sessions /\ op[h].at \in StepsOf(Head(op[h].todo))
      /\ op[h].up \in BOOLEAN /\ op[h].link \in Links
  BY <1>1, InSession DEF Sane
<1>3. Head(op[h].todo) = "list" /\ "enable" \in StepsOf(Head(op[h].todo))
  BY <1>1, <1>2 DEF Sessions, StepsOf
<1>4. PICK v \in {whole} \cup (IF op[h].link = "udp" THEN {[pin |-> 0, card |-> 0]} ELSE {}) :
        /\ Do(h, what(op[h].up, IF op[h].up THEN v ELSE None))
        /\ bare' = (bare \/ (op[h].kind = "privilege" /\ op[h].up /\ v # whole))
  BY DEF List
<1>5. v \in User /\ (v = whole \/ v = [pin |-> 0, card |-> 0])
  BY <1>4 DEF Sane, TypeOK, User
<1>b. bare' \in BOOLEAN /\ (bare => bare')
  BY <1>4
<1>6. PICK b \in BOOLEAN, u \in User \cup {None} :
        /\ Do(h, what(b, u)) /\ (b => u # None)
        /\ \/ u = None \/ u = whole
           \/ u = [pin |-> 0, card |-> 0] /\ (op[h].kind = "privilege" => bare')
  BY <1>2, <1>4, <1>5, NoneAssumption
<1>7. what(b, u) \in SessionOps
  BY <1>2 DEF SessionOps, LinkSteps
<1>8. /\ what(b, u).at = "enable" /\ what(b, u).todo = op[h].todo /\ what(b, u).kind = op[h].kind
      /\ what(b, u).held = op[h].held /\ what(b, u).user = u /\ what(b, u).more = b
  BY <1>2 DEF SessionOps
<1>9. Planned(what(b, u))
  BY <1>2, <1>3, <1>6, <1>8 DEF Planned
<1>10. /\ op' \in [Handlers -> Ops] /\ op'[h] = what(b, u)
       /\ \A g \in Handlers \ {h} : op'[g] = op[g]
       /\ \A g \in Handlers : Planned(op[g])'
  BY <1>6, <1>7, <1>9, SessionEffect
<1> QED
  BY <1>1, <1>6, <1>8, <1>10, <1>b DEF Within

Terminals == [locked : BOOLEAN, taken : 0 .. MaxPunches, pin : {0, 1, 2}, card : Nat]

\* The row is written back, with its card or what fits into the packet.
WrittenBack(u) == device'.pin = u.pin /\ device'.card \in {u.card, u.card % 65536}

LEMMA WriteEffect ==
  ASSUME Sane, NEW h \in Handlers, Write(h)
  PROVE  /\ op[h].at = "write" /\ Head(op[h].todo) = "write" /\ op[h].kind = "privilege"
         /\ op[h].user \in User
         /\ Within(h, "enable") /\ op'[h].held = op[h].held /\ op'[h].user = op[h].user
         /\ device' \in Terminals
         /\ op[h].up => ~device'.locked
         /\ device'.locked => device.locked
         /\ (device'.pin = device.pin /\ device'.card = device.card) \/ WrittenBack(op[h].user)
<1> DEFINE what == [op[h] EXCEPT !.at = "enable"]
<1>1. op[h].at = "write" /\ op[h].at \in LinkSteps
  BY DEF Write, At, LinkSteps
<1>2. /\ op[h] \in SessionOps /\ op[h].todo \in PlansOf(op[h].kind) /\ Planned(op[h])
      /\ Head(op[h].todo) \in Sessions /\ op[h].at \in StepsOf(Head(op[h].todo))
      /\ op[h].up \in BOOLEAN /\ op[h].kind \in Kinds /\ op[h].user \in User \cup {None}
  BY <1>1, InSession DEF Sane
<1>3. Head(op[h].todo) = "write" /\ "enable" \in StepsOf(Head(op[h].todo))
  BY <1>1, <1>2 DEF Sessions, StepsOf
<1>4. op[h].kind = "privilege"
  BY <1>2, <1>3, PlanTypes
<1>5. op[h].user \in User
  BY <1>1, <1>2, <1>3 DEF Planned
<1>6. what \in SessionOps
  BY <1>2 DEF SessionOps, LinkSteps
<1>7. /\ what.at = "enable" /\ what.todo = op[h].todo /\ what.kind = op[h].kind
      /\ what.held = op[h].held /\ what.user = op[h].user /\ what.more = op[h].more
  BY <1>2 DEF SessionOps
<1>8. Planned(what)
  BY <1>1, <1>2, <1>3, <1>7 DEF Planned
<1>9. /\ op' \in [Handlers -> Ops] /\ op'[h] = what
      /\ \A g \in Handlers \ {h} : op'[g] = op[g]
      /\ \A g \in Handlers : Planned(op[g])'
  BY <1>6, <1>8, SessionEffect DEF Write
<1>10. Within(h, "enable") /\ op'[h].held = op[h].held /\ op'[h].user = op[h].user
  BY <1>7, <1>9 DEF Within
<1>11. PICK done \in IF op[h].link = "udp" /\ op[h].up THEN BOOLEAN ELSE {op[h].up},
            card \in {ShortCard(op[h].user)} \cup (IF op[h].link = "udp" THEN {op[h].user.card} ELSE {}) :
         device' = IF done THEN [device EXCEPT !.locked = FALSE, !.pin = op[h].user.pin, !.card = card]
                   ELSE [device EXCEPT !.locked = @ /\ ~op[h].up]
  BY DEF Write
<1>12. card \in Nat /\ card \in {op[h].user.card, op[h].user.card % 65536}
  BY <1>5, <1>11 DEF ShortCard, User
<1>13. device \in Terminals
  BY DEF Sane, TypeOK, Terminals
<1>14. /\ device' \in Terminals
       /\ op[h].up => ~device'.locked
       /\ device'.locked => device.locked
       /\ \/ device'.pin = device.pin /\ device'.card = device.card
          \/ device'.pin = op[h].user.pin /\ device'.card = card
  <2>1. CASE done
    <3>1. device' = [device EXCEPT !.locked = FALSE, !.pin = op[h].user.pin, !.card = card]
      BY <1>11, <2>1
    <3>2. PICK pin \in {0, 1, 2}, n \in Nat : op[h].user.pin = pin /\ card = n
      BY <1>5, <1>12 DEF User
    <3>3. device' \in Terminals
      BY <1>13, <3>1, <3>2 DEF Terminals
    <3>4. ~device'.locked /\ device'.pin = op[h].user.pin /\ device'.card = card
      BY <1>13, <3>1 DEF Terminals
    <3> QED
      BY <3>3, <3>4
  <2>2. CASE ~done
    BY <1>2, <1>11, <1>13, <2>2 DEF Terminals
  <2> QED
    BY <2>1, <2>2
<1> QED
  BY <1>1, <1>3, <1>4, <1>5, <1>10, <1>12, <1>14 DEF WrittenBack

LEMMA CutEffect ==
  ASSUME Sane, NEW h \in Handlers, Cut(h)
  PROVE  Within(h, op[h].at) /\ op'[h].held = op[h].held /\ op'[h].user = op[h].user
<1> DEFINE what == [op[h] EXCEPT !.up = FALSE]
<1>1. op[h].at \in LinkSteps
  BY DEF Cut, LinkSteps
<1>2. op[h] \in SessionOps /\ Planned(op[h])
  BY <1>1, InSession DEF Sane
<1>3. what \in SessionOps
  BY <1>2 DEF SessionOps
<1>4. /\ what.at = op[h].at /\ what.todo = op[h].todo /\ what.kind = op[h].kind
      /\ what.held = op[h].held /\ what.user = op[h].user /\ what.more = op[h].more
  BY <1>2 DEF SessionOps
<1>5. Planned(what)
  BY <1>1, <1>2, <1>4 DEF Planned
<1>6. /\ op' \in [Handlers -> Ops] /\ op'[h] = what
      /\ \A g \in Handlers \ {h} : op'[g] = op[g]
      /\ \A g \in Handlers : Planned(op[g])'
  BY <1>3, <1>5, SessionEffect DEF Cut
<1> QED
  BY <1>4, <1>6 DEF Within

\* The session is over, and with it the request, or another session or the import
\* follows, which has locked nothing.
LEMMA AfterEffect ==
  ASSUME Sane, NEW h \in Handlers, op[h].at = "enable", Do(h, After(h))
  PROVE  /\ op' \in [Handlers -> Ops]
         /\ \A g \in Handlers \ {h} : op'[g] = op[g]
         /\ \A g \in Handlers : Planned(op[g])'
         /\ \/ op'[h] = Idle
            \/ /\ op'[h].at \in {"connect", "map"} /\ op'[h].kind = op[h].kind
               /\ op'[h].user = op[h].user /\ Head(op[h].todo) # "write"
<1> DEFINE o == op[h]
           s == Head(o.todo)
           next(todo) == [o EXCEPT !.at = "connect", !.todo = todo, !.up = FALSE, !.held = FALSE,
                                   !.more = FALSE]
           map == [o EXCEPT !.at = "map", !.up = FALSE, !.held = FALSE]
<1>1. /\ o \in SessionOps /\ o.todo \in PlansOf(o.kind) /\ Planned(o) /\ o.kind \in Kinds
      /\ s \in Sessions
  BY InSession DEF Sane, LinkSteps
<1>2. ASSUME NEW todo \in PlansOf(o.kind), s # "write", Head(todo) = "write" => o.user # None,
             Do(h, next(todo))
      PROVE  /\ op' \in [Handlers -> Ops]
             /\ \A g \in Handlers \ {h} : op'[g] = op[g]
             /\ \A g \in Handlers : Planned(op[g])'
             /\ op'[h].at = "connect" /\ op'[h].kind = op[h].kind /\ op'[h].user = op[h].user
  <2>1. todo \in Seq(Sessions) /\ Head(todo) \in Sessions
    BY <1>1, <1>2, PlanTypes
  <2>2. next(todo) \in SessionOps
    BY <1>1, <2>1 DEF SessionOps, LinkSteps
  <2>3. /\ next(todo).at = "connect" /\ next(todo).todo = todo /\ next(todo).kind = o.kind
        /\ next(todo).more = FALSE /\ next(todo).user = o.user
    BY <1>1 DEF SessionOps
  <2>4. "connect" \in StepsOf(Head(todo))
    BY <2>1 DEF StepsOf
  <2>5. Planned(next(todo))
    BY <1>2, <2>3, <2>4 DEF Planned
  <2>6. /\ op' \in [Handlers -> Ops] /\ op'[h] = next(todo)
        /\ \A g \in Handlers \ {h} : op'[g] = op[g]
        /\ \A g \in Handlers : Planned(op[g])'
    BY <1>2, <2>2, <2>5, SessionEffect
  <2> QED
    BY <2>3, <2>6
<1>3. CASE s = "pull" /\ o.more
  <2>1. Do(h, next(<<"again">>))
    BY <1>3 DEF After
  <2>2. <<"again">> \in PlansOf(o.kind) /\ Head(<<"again">>) # "write"
    BY <1>1, <1>3, PlanTypes
  <2> HIDE DEF next
  <2> QED
    BY <1>2, <1>3, <2>1, <2>2
<1>4. CASE s \in {"pull", "again"} /\ ~(s = "pull" /\ o.more)
  <2>1. CASE Do(h, map)
    <3>1. map \in SessionOps
      BY <1>1 DEF SessionOps
    <3>2. map.at = "map" /\ map.kind = o.kind /\ map.user = o.user
      BY <1>1 DEF SessionOps
    <3>3. Planned(map)
      BY <3>2 DEF Planned, LinkSteps
    <3>4. /\ op' \in [Handlers -> Ops] /\ op'[h] = map
          /\ \A g \in Handlers \ {h} : op'[g] = op[g]
          /\ \A g \in Handlers : Planned(op[g])'
      BY <2>1, <3>1, <3>3, SessionEffect
    <3> QED
      BY <1>4, <3>2, <3>4
  <2>2. CASE Do(h, Idle)
    BY <2>2, IdleEffect
  <2> QED
    BY <1>4, <2>1, <2>2 DEF After
<1>5. CASE s \notin {"pull", "again"} /\ Len(o.todo) > 1 /\ (o.more \/ s = "unlock")
  <2>1. Do(h, next(Tail(o.todo)))
    BY <1>5 DEF After
  <2>2. s \in {"list", "unlock"}
    BY <1>1, <1>5, PlanTypes DEF PlansOf, Sessions
  <2>3. Tail(o.todo) \in PlansOf(o.kind)
    BY <1>1, <1>5, <2>2, PlanTypes
  <2>4. Head(Tail(o.todo)) = "write" => o.user # None
    BY <1>1, <1>5, <2>2, PlanTypes DEF Planned, LinkSteps
  <2> HIDE DEF next
  <2> QED
    BY <1>2, <2>1, <2>2, <2>3, <2>4
<1>6. CASE s \notin {"pull", "again"} /\ ~(Len(o.todo) > 1 /\ (o.more \/ s = "unlock"))
  <2>1. Do(h, Idle)
    BY <1>6 DEF After
  <2> QED
    BY <2>1, IdleEffect
<1> QED
  BY <1>3, <1>4, <1>5, <1>6

LEMMA PlansBegin ==
  ASSUME NEW kind \in Kinds, NEW atServer \in BOOLEAN, kind = "poll" => ~atServer
  PROVE  LET todo == IF atServer THEN ServerPlan(kind) ELSE AgentPlan(kind) IN
         todo = <<>> \/ todo \in PlansOf(kind)
<1>1. CASE kind = "list"
  BY <1>1 DEF ServerPlan, AgentPlan, ListPlan, PlansOf
<1>2. CASE kind = "privilege"
  BY <1>2 DEF ServerPlan, AgentPlan, PrivilegePlan, PlansOf
<1>3. CASE kind = "unlock"
  BY <1>3 DEF ServerPlan, AgentPlan, UnlockPlan, PlansOf
<1>4. CASE kind \in {"import", "poll"}
  BY <1>4 DEF ServerPlan, AgentPlan, ImportPlan, PlansOf
<1> QED
  BY <1>1, <1>2, <1>3, <1>4 DEF Kinds

LEMMA BeginEffect ==
  ASSUME Sane, NEW h \in Handlers, NEW kind \in Kinds, NEW atServer \in BOOLEAN,
         Begin(h, kind, atServer)
  PROVE  /\ op' \in [Handlers -> Ops]
         /\ \A g \in Handlers \ {h} : op'[g] = op[g]
         /\ \A g \in Handlers : Planned(op[g])'
         /\ op[h] = Idle /\ op'[h].at \in {"connect", "map"} /\ op'[h].user = None
<1> DEFINE todo == IF atServer THEN ServerPlan(kind) ELSE AgentPlan(kind)
           what == [at |-> IF todo = <<>> THEN "map" ELSE "connect", kind |-> kind,
                    atServer |-> atServer /\ kind = "import",
                    verify |-> verifyOnly /\ atServer /\ kind = "import",
                    todo |-> todo, link |-> "tcp", up |-> FALSE, held |-> FALSE, more |-> FALSE,
                    read |-> 0, user |-> None]
<1>1. op[h] = Idle /\ Do(h, what)
  BY DEF Begin, Arrive
<1>2. todo = <<>> \/ todo \in PlansOf(kind)
  BY PlansBegin DEF Begin
<1> HIDE DEF todo
<1>3. todo \in Seq(Sessions)
  <2>1. CASE todo = <<>>
    BY <2>1
  <2>2. CASE todo \in PlansOf(kind)
    BY <2>2, PlanTypes
  <2> QED
    BY <1>2, <2>1, <2>2
<1>4. 0 \in 0 .. MaxPunches /\ verifyOnly \in BOOLEAN
  BY LinkAssumption DEF Sane, TypeOK
<1>5. PICK at \in {"connect", "map"}, s, v \in BOOLEAN :
        /\ what = [at |-> at, kind |-> kind, atServer |-> s, verify |-> v, todo |-> todo,
                   link |-> "tcp", up |-> FALSE, held |-> FALSE, more |-> FALSE, read |-> 0,
                   user |-> None]
        /\ at = IF todo = <<>> THEN "map" ELSE "connect"
  BY <1>4
<1>6. what \in SessionOps
  BY <1>3, <1>4, <1>5 DEF SessionOps, LinkSteps, Links
<1>7. /\ what.at = IF todo = <<>> THEN "map" ELSE "connect"
      /\ what.todo = todo /\ what.kind = kind /\ what.more = FALSE /\ what.user = None
  BY <1>5
<1>8. Planned(what)
  <2>1. SUFFICES ASSUME todo # <<>>
                 PROVE  /\ todo \in PlansOf(kind) /\ "connect" \in StepsOf(Head(todo))
                        /\ Head(todo) # "write"
    BY <1>7 DEF Planned, LinkSteps
  <2>2. todo \in PlansOf(kind) /\ Head(todo) \in Sessions
    BY <1>2, <2>1, PlanTypes
  <2>3. todo # <<"write">>
    BY DEF todo, ServerPlan, AgentPlan, ListPlan, PrivilegePlan, UnlockPlan, ImportPlan
  <2>4. Head(todo) # "write"
    BY <2>2, <2>3 DEF PlansOf, Kinds
  <2> QED
    BY <2>2, <2>4 DEF StepsOf
<1>9. /\ op' \in [Handlers -> Ops] /\ op'[h] = what
      /\ \A g \in Handlers \ {h} : op'[g] = op[g]
      /\ \A g \in Handlers : Planned(op[g])'
  BY <1>1, <1>6, <1>8, SessionEffect
<1> QED
  BY <1>1, <1>7, <1>9

LEMMA ConnectFailsEffect ==
  ASSUME Sane, NEW h \in Handlers, ConnectFails(h)
  PROVE  /\ op' \in [Handlers -> Ops]
         /\ \A g \in Handlers \ {h} : op'[g] = op[g]
         /\ \A g \in Handlers : Planned(op[g])'
         /\ op[h].at = "connect" /\ op[h].link \in Links
         /\ \/ op'[h] = Idle
            \/ op'[h].at = "connect" /\ op'[h].kind = op[h].kind /\ op'[h].user = op[h].user
<1> DEFINE o == op[h]
           what == [o EXCEPT !.todo = Tail(o.todo)]
<1>1. o.at = "connect" /\ o.at \in LinkSteps
  BY DEF ConnectFails, At, LinkSteps
<1>2. /\ o \in SessionOps /\ o.todo \in PlansOf(o.kind) /\ Planned(o) /\ o.kind \in Kinds
      /\ Head(o.todo) \in Sessions /\ o.link \in Links
  BY <1>1, InSession DEF Sane
<1>3. CASE Head(o.todo) = "unlock" /\ Len(o.todo) > 1
  <2>1. Do(h, what)
    BY <1>3 DEF ConnectFails
  <2>2. Tail(o.todo) \in PlansOf(o.kind) /\ Head(Tail(o.todo)) = "list"
    BY <1>2, <1>3, PlanTypes
  <2>3. Tail(o.todo) \in Seq(Sessions)
    BY <1>2, <2>2, PlanTypes
  <2>4. what \in SessionOps
    BY <1>2, <2>3 DEF SessionOps
  <2>5. /\ what.at = "connect" /\ what.todo = Tail(o.todo) /\ what.kind = o.kind
        /\ what.user = o.user /\ what.more = o.more
    BY <1>1, <1>2 DEF SessionOps
  <2>6. ~o.more
    BY <1>1, <1>2 DEF Planned
  <2>7. Planned(what)
    <3>1. "connect" \in StepsOf("list")
      BY DEF StepsOf
    <3> HIDE DEF what
    <3> QED
      BY <2>2, <2>5, <2>6, <3>1 DEF Planned
  <2>8. /\ op' \in [Handlers -> Ops] /\ op'[h] = what
        /\ \A g \in Handlers \ {h} : op'[g] = op[g]
        /\ \A g \in Handlers : Planned(op[g])'
    BY <2>1, <2>4, <2>7, SessionEffect
  <2> QED
    BY <1>1, <1>2, <2>5, <2>8
<1>4. CASE ~(Head(o.todo) = "unlock" /\ Len(o.todo) > 1)
  <2>1. Do(h, Idle)
    BY <1>4 DEF ConnectFails
  <2> QED
    BY <1>1, <1>2, <2>1, IdleEffect
<1> QED
  BY <1>3, <1>4

LEMMA RowsTypes ==
  ASSUME NEW n \in 0 .. MaxPunches, NEW how \in {"stated", "zero", "inferred", "verify"},
         NEW from, NEW cap
  PROVE  Rows(n, how, from, cap) \in SUBSET Row /\ \A r \in Rows(n, how, from, cap) : RightRow(r)
<1>1. SUFFICES ASSUME NEW p \in 1 .. n
               PROVE  LET r == [punch |-> p, type |-> Type(1 .. n, p, how), how |-> how] IN
                      r \in Row /\ RightRow(r)
  BY DEF Rows, Newest
<1>2. p \in Punches /\ p \in Nat /\ p <= n
  BY LinkAssumption DEF Punches
<1>3. Type(1 .. n, p, how) \in {"CHECK_IN", "CHECK_OUT", "VERIFY"}
  BY <1>2, LinkAssumption DEF Type, Alternate, Punches
<1>4. Alternate(1 .. n, p) = Alternate(1 .. p, p)
  <2>1. {q \in 1 .. n : q < p /\ CardOf[q] = CardOf[p] /\ DayOf[q] = DayOf[p]}
          = {q \in 1 .. p : q < p /\ CardOf[q] = CardOf[p] /\ DayOf[q] = DayOf[p]}
    BY <1>2
  <2> QED
    BY <2>1 DEF Alternate
<1>5. Type(1 .. n, p, how) = Type(1 .. p, p, how)
  BY <1>4 DEF Type
<1> QED
  BY <1>2, <1>3, <1>5 DEF Row, RightRow

LEMMA MapEffect ==
  ASSUME Sane, NEW h \in Handlers, NEW from, NEW cap, Map(h, from, cap)
  PROVE  /\ op' \in [Handlers -> Ops]
         /\ \A g \in Handlers \ {h} : op'[g] = op[g]
         /\ \A g \in Handlers : Planned(op[g])'
         /\ op[h].at = "map"
         /\ \/ op'[h] = Idle
            \/ op'[h].at = "store" /\ \A r \in op'[h].rows : RightRow(r)
<1> DEFINE polled == op[h].todo = <<>>
           read == IF polled THEN snapshot ELSE [n |-> op[h].read, link |-> op[h].link]
           verify == IF op[h].atServer THEN op[h].verify ELSE verifyOnly
           rows == IF read = None THEN {}
                   ELSE Rows(read.n, How(read.link, polled, verify), from, cap)
<1>1. op[h].at = "map" /\ Do(h, IF rows = {} THEN Idle ELSE [at |-> "store", rows |-> rows])
  BY DEF Map, At
<1>2. op[h] \in SessionOps
  BY <1>1, Carried DEF Sane, TypeOK
<1>3. read # None => read \in [n : 0 .. MaxPunches, link : Links]
  BY <1>2 DEF Sane, TypeOK, SessionOps
<1>4. rows \in SUBSET Row /\ \A r \in rows : RightRow(r)
  <2>1. CASE read = None
    BY <2>1
  <2>2. CASE read # None
    <3>1. How(read.link, polled, verify) \in {"stated", "zero", "inferred", "verify"}
      BY DEF How
    <3> QED
      BY <1>3, <2>2, <3>1, RowsTypes
  <2> QED
    BY <2>1, <2>2
<1> HIDE DEF rows
<1>5. CASE rows = {}
  BY <1>1, <1>5, IdleEffect
<1>6. CASE rows # {}
  BY <1>1, <1>4, <1>6, StoreEffect
<1> QED
  BY <1>5, <1>6

LEMMA StoresEffect ==
  ASSUME Sane, NEW h \in Handlers, Store(h)
  PROVE  /\ op' \in [Handlers -> Ops]
         /\ \A g \in Handlers \ {h} : op'[g] = op[g]
         /\ \A g \in Handlers : Planned(op[g])'
         /\ op[h].at = "store"
         /\ \/ op'[h] = Idle
            \/ op'[h].at = "store" /\ op'[h].rows \subseteq op[h].rows
         /\ \E r \in op[h].rows :
              /\ r \in Row
              /\ logs' = IF \E l \in logs : l.punch = r.punch /\ l.type = r.type THEN logs
                         ELSE logs \cup {r}
<1>1. PICK r \in op[h].rows :
        /\ logs' = IF \E l \in logs : l.punch = r.punch /\ l.type = r.type THEN logs ELSE logs \cup {r}
        /\ Do(h, IF op[h].rows = {r} THEN Idle ELSE [op[h] EXCEPT !.rows = @ \ {r}])
  BY DEF Store
<1>2. /\ op[h].at = "store" /\ op[h] = [at |-> "store", rows |-> op[h].rows]
      /\ op[h].rows \in SUBSET Row
  BY Carried DEF Sane, TypeOK, Store, At
<1>3. CASE op[h].rows = {r}
  BY <1>1, <1>2, <1>3, IdleEffect
<1>4. CASE op[h].rows # {r}
  <2>1. Do(h, [at |-> "store", rows |-> op[h].rows \ {r}])
    BY <1>1, <1>2, <1>4
  <2>2. op[h].rows \ {r} \in SUBSET Row
    BY <1>2
  <2> QED
    BY <1>1, <1>2, <2>1, <2>2, StoreEffect
<1> QED
  BY <1>3, <1>4

-----------------------------------------------------------------------------
(* Types, and what a session is about to do.                               *)

LEMMA EventEffect ==
  ASSUME Sane, Event
  PROVE  events' \in 0 .. MaxEvents
BY LinkAssumption DEF Sane, TypeOK, Event

LEMMA PolledTypes ==
  ASSUME Sane, NEW h \in Handlers, op[h].at = "enable"
  PROVE  Polled(h, op[h].read) \in [n : 0 .. MaxPunches, link : Links] \cup {None}
<1>1. op[h].read \in 0 .. MaxPunches /\ op[h].link \in Links
  BY InSession DEF LinkSteps
<1> QED
  BY <1>1 DEF Polled, Sane, TypeOK

LEMMA SaneInit ==
  ASSUME Init
  PROVE  Sane
<1>1. op \in [Handlers -> Ops] /\ \A h \in Handlers : Planned(op[h])
  BY OpsTypes DEF Init, InitHandlers, Idle, Planned, LinkSteps
<1>2. requests \in 0 .. MaxRequests /\ deaths \in 0 .. MaxDeaths /\ events \in 0 .. MaxEvents
  BY HandlersAssumption, LinkAssumption DEF Init, InitHandlers
<1>3. bridged \in BOOLEAN
  BY DEF Init, Routes
<1>4. device \in Terminals /\ entered \subseteq User
  BY LinkAssumption DEF Init, Terminals, User
<1> QED
  BY <1>1, <1>2, <1>3, <1>4 DEF Init, Sane, TypeOK, Terminals

LEMMA SaneStep ==
  ASSUME Sane, [Next]_vars
  PROVE  Sane'
<1> USE DEF world, stores, histories
<1>1. ASSUME NEW h \in Handlers, NEW kind \in Kinds, NEW atServer \in BOOLEAN, Begin(h, kind, atServer)
      PROVE  Sane'
  <2>1. requests' \in 0 .. MaxRequests /\ deaths' = deaths
    BY <1>1, HandlersAssumption DEF Begin, Arrive, Sane, TypeOK
  <2> QED
    BY <1>1, <2>1, BeginEffect DEF Begin, Sane, TypeOK
<1>2. ASSUME NEW h \in Handlers, Connect(h)
      PROVE  Sane'
  BY <1>2, ConnectEffect DEF Connect, At, Within, Sane, TypeOK
<1>3. ASSUME NEW h \in Handlers, ConnectFails(h)
      PROVE  Sane'
  <2>1. snapshot' \in [n : 0 .. MaxPunches, link : Links] \cup {None}
    <3>1. op[h].link \in Links /\ 0 \in 0 .. MaxPunches
      BY <1>3, ConnectFailsEffect, LinkAssumption
    <3>2. snapshot' \in {[n |-> 0, link |-> op[h].link], snapshot}
      BY <1>3 DEF ConnectFails
    <3> QED
      BY <3>1, <3>2 DEF Sane, TypeOK
  <2> QED
    BY <1>3, <2>1, ConnectFailsEffect DEF ConnectFails, At, Sane, TypeOK
<1>4. ASSUME NEW h \in Handlers, Disable(h)
      PROVE  Sane'
  <2>1. events' \in 0 .. MaxEvents
    BY <1>4, EventEffect DEF Disable, Sane, TypeOK
  <2>2. device' \in Terminals
    BY <1>4, DisableEffect DEF Sane, TypeOK, Terminals
  <2> QED
    BY <1>4, <2>1, <2>2, DisableEffect DEF Disable, At, Within, Sane, TypeOK, Terminals
<1>5. ASSUME NEW h \in Handlers, Read(h)
      PROVE  Sane'
  <2>1. events' \in 0 .. MaxEvents
    BY <1>5, EventEffect DEF Read, Sane, TypeOK
  <2> QED
    BY <1>5, <2>1, ReadEffect DEF Read, At, Within, Sane, TypeOK
<1>6. ASSUME NEW h \in Handlers, List(h)
      PROVE  Sane'
  <2> QED
    BY <1>6, ListEffect DEF List, At, Within, Sane, TypeOK
<1>7. ASSUME NEW h \in Handlers, Write(h)
      PROVE  Sane'
  <2>1. stuck' \in BOOLEAN
    BY <1>7 DEF Write, Sane, TypeOK
  <2> QED
    BY <1>7, <2>1, WriteEffect DEF Write, At, Within, Sane, TypeOK, Terminals
<1>8. ASSUME NEW h \in Handlers, Enable(h)
      PROVE  Sane'
  <2>1. op[h].at = "enable" /\ Do(h, After(h))
    BY <1>8 DEF Enable, At
  <2>2. events' \in 0 .. MaxEvents
    BY <1>8, EventEffect DEF Enable, Sane, TypeOK
  <2>3. device' \in Terminals /\ stuck' \in BOOLEAN
    BY <1>8 DEF Enable, Sane, TypeOK, Terminals
  <2>4. snapshot' \in [n : 0 .. MaxPunches, link : Links] \cup {None}
    BY <1>8, <2>1, PolledTypes DEF Enable
  <2> QED
    BY <1>8, <2>1, <2>2, <2>3, <2>4, AfterEffect DEF Enable, At, Sane, TypeOK, Terminals
<1>9. ASSUME NEW h \in Handlers, NEW from, NEW cap, Map(h, from, cap)
      PROVE  Sane'
  BY <1>9, MapEffect DEF Map, At, Sane, TypeOK
<1>10. ASSUME NEW h \in Handlers, Store(h)
       PROVE  Sane'
  <2>1. logs' \subseteq Row
    BY <1>10, StoresEffect DEF Sane, TypeOK
  <2> QED
    BY <1>10, <2>1, StoresEffect DEF Store, At, Sane, TypeOK
<1>11. ASSUME NEW h \in Handlers, Cut(h)
       PROVE  Sane'
  BY <1>11, CutEffect, EventEffect DEF Cut, Within, Sane, TypeOK
<1>12. ASSUME NEW h \in Handlers, Crash(h)
       PROVE  Sane'
  <2>1. deaths' \in 0 .. MaxDeaths /\ requests' = requests /\ Do(h, Idle)
    BY <1>12, HandlersAssumption DEF Crash, Die, Sane, TypeOK
  <2>2. stuck' \in BOOLEAN /\ snapshot' \in {None, snapshot}
    BY <1>12 DEF Crash, Sane, TypeOK
  <2> QED
    BY <1>12, <2>1, <2>2, IdleEffect, EventEffect DEF Crash, Sane, TypeOK
<1>13. ASSUME TakePunch
       PROVE  Sane'
  <2>1. device' \in Terminals
    BY <1>13, LinkAssumption DEF TakePunch, Sane, TypeOK, Terminals
  <2> QED
    BY <1>13, <2>1 DEF TakePunch, server, Sane, TypeOK, Terminals, Planned
<1>14. ASSUME SwitchMode
       PROVE  Sane'
  BY <1>14, EventEffect DEF SwitchMode, server, Sane, TypeOK, Planned
<1>15. ASSUME NEW pin \in {1, 2}, NEW card \in Cards, Keypad(pin, card)
       PROVE  Sane'
  <2>1. device' = [device EXCEPT !.pin = pin, !.card = card]
    BY <1>15 DEF Keypad
  <2>2. device' \in Terminals
    BY <2>1, LinkAssumption DEF Sane, TypeOK, Terminals
  <2>3. entered' \subseteq {[pin |-> pin, card |-> card]} \cup entered
    BY <1>15, Zenon DEF Keypad
  <2>4. [pin |-> pin, card |-> card] \in User
    BY LinkAssumption DEF User
  <2>5. entered' \subseteq User
    BY <2>3, <2>4 DEF Sane, TypeOK
  <2>6. bare' \in BOOLEAN
    BY <1>15 DEF Keypad
  <2> QED
    BY <1>15, <2>2, <2>5, <2>6, EventEffect DEF Keypad, server, Sane, TypeOK, Terminals, Planned
<1>16. CASE UNCHANGED vars
  BY <1>16 DEF vars, server, Sane, TypeOK, Planned
<1> QED
  BY <1>1, <1>2, <1>3, <1>4, <1>5, <1>6, <1>7, <1>8, <1>9, <1>10, <1>11, <1>12, <1>13, <1>14,
     <1>15, <1>16 DEF Next

\* Whatever sessions overlap, fail or are repeated, the terminal, the snapshot, the
\* device log and what each request carries have their types: a request never writes
\* a user it has not listed, and reads no more punches than there are
\* (zktecoSocket.service.js, device.service.js).
THEOREM TypeCorrect == Spec => []TypeOK
<1>1. Init => Sane
  BY SaneInit
<1>2. Sane /\ [Next]_vars => Sane'
  BY SaneStep
<1>3. Sane => TypeOK
  BY DEF Sane
<1> QED
  BY <1>1, <1>2, <1>3, PTL DEF Spec

-----------------------------------------------------------------------------
(* The screen.                                                             *)

\* A session that holds the lock does not lose it by what others do.
Holds(h) == op[h].at \in {"read", "enable"} /\ op[h].held

LEMMA LockInit ==
  ASSUME Init
  PROVE  LockReleased
BY DEF Init, LockReleased

LEMMA LockStep ==
  ASSUME Sane, LockReleased, [Next]_vars
  PROVE  LockReleased'
<1> USE DEF world, stores, histories
<1>0. device.locked => stuck \/ \E h \in Handlers : Holds(h)
  BY DEF LockReleased, Holds
<1>1. ASSUME NEW h \in Handlers, device' = device, stuck' = stuck, ~Holds(h),
             \A g \in Handlers \ {h} : op'[g] = op[g]
      PROVE  LockReleased'
  BY <1>0, <1>1 DEF LockReleased, Holds
<1>2. ASSUME NEW h \in Handlers, NEW kind \in Kinds, NEW atServer \in BOOLEAN, Begin(h, kind, atServer)
      PROVE  LockReleased'
  <2>1. ~Holds(h) /\ \A g \in Handlers \ {h} : op'[g] = op[g]
    BY <1>2, BeginEffect DEF Holds, Idle
  <2> QED
    BY <1>1, <1>2, <2>1 DEF Begin
<1>3. ASSUME NEW h \in Handlers, Connect(h)
      PROVE  LockReleased'
  <2>1. ~Holds(h) /\ \A g \in Handlers \ {h} : op'[g] = op[g]
    BY <1>3, ConnectEffect DEF Holds, Within, Connect, At
  <2> QED
    BY <1>1, <1>3, <2>1 DEF Connect
<1>4. ASSUME NEW h \in Handlers, ConnectFails(h)
      PROVE  LockReleased'
  <2>1. ~Holds(h) /\ \A g \in Handlers \ {h} : op'[g] = op[g]
    BY <1>4, ConnectFailsEffect DEF Holds
  <2> QED
    BY <1>1, <1>4, <2>1 DEF ConnectFails
<1>5. ASSUME NEW h \in Handlers, Disable(h)
      PROVE  LockReleased'
  <2>1. /\ op[h].at = "disable" /\ op'[h].at = "read" /\ stuck' = stuck
        /\ \A g \in Handlers \ {h} : op'[g] = op[g]
        /\ op'[h].held \/ device' = device
    BY <1>5, DisableEffect DEF Within, Disable
  <2>2. CASE op'[h].held
    BY <2>1, <2>2 DEF LockReleased
  <2>3. CASE device' = device
    BY <1>1, <2>1, <2>3 DEF Holds
  <2> QED
    BY <2>1, <2>2, <2>3
<1>6. ASSUME NEW h \in Handlers, op'[h].held = op[h].held, op[h].at \in {"read", "enable"} => op'[h].at \in {"read", "enable"},
             device' = device, stuck' = stuck, \A g \in Handlers \ {h} : op'[g] = op[g]
      PROVE  LockReleased'
  BY <1>0, <1>6 DEF LockReleased, Holds
<1>7. ASSUME NEW h \in Handlers, Read(h)
      PROVE  LockReleased'
  BY <1>6, <1>7, ReadEffect DEF Within, Read
<1>8. ASSUME NEW h \in Handlers, List(h)
      PROVE  LockReleased'
  BY <1>6, <1>8, ListEffect DEF Within, List
<1>9. ASSUME NEW h \in Handlers, Write(h)
      PROVE  LockReleased'
  <2>1. /\ op[h].at = "write" /\ \A g \in Handlers \ {h} : op'[g] = op[g]
        /\ op[h].up => ~device'.locked
        /\ device'.locked => device.locked
        /\ op[h].up \in BOOLEAN
    BY <1>9, WriteEffect, InSession DEF Within, LinkSteps
  <2>2. stuck' = (stuck /\ ~op[h].up)
    BY <1>9 DEF Write
  <2> QED
    BY <1>0, <2>1, <2>2 DEF LockReleased, Holds
<1>10. ASSUME NEW h \in Handlers, Enable(h)
       PROVE  LockReleased'
  <2>1. op[h].at = "enable" /\ \A g \in Handlers \ {h} : op'[g] = op[g]
    BY <1>10, AfterEffect DEF Enable, At
  <2>2. \/ ~device'.locked
        \/ device' = device /\ stuck' = (stuck \/ (op[h].held /\ device.locked))
    BY <1>10 DEF Enable, Sane, TypeOK
  <2>3. CASE ~device'.locked
    BY <2>3 DEF LockReleased
  <2>4. CASE device' = device /\ stuck' = (stuck \/ (op[h].held /\ device.locked))
    BY <1>0, <2>1, <2>4 DEF LockReleased, Holds
  <2> QED
    BY <2>2, <2>3, <2>4
<1>11. ASSUME NEW h \in Handlers, NEW from, NEW cap, Map(h, from, cap)
       PROVE  LockReleased'
  <2>1. ~Holds(h) /\ \A g \in Handlers \ {h} : op'[g] = op[g]
    BY <1>11, MapEffect DEF Holds
  <2> QED
    BY <1>1, <1>11, <2>1 DEF Map
<1>12. ASSUME NEW h \in Handlers, Store(h)
       PROVE  LockReleased'
  <2>1. ~Holds(h) /\ \A g \in Handlers \ {h} : op'[g] = op[g]
    BY <1>12, StoresEffect DEF Holds
  <2> QED
    BY <1>1, <1>12, <2>1 DEF Store
<1>13. ASSUME NEW h \in Handlers, Cut(h)
       PROVE  LockReleased'
  BY <1>6, <1>13, CutEffect DEF Within, Cut
<1>14. ASSUME NEW h \in Handlers, Crash(h)
       PROVE  LockReleased'
  <2>1. \A g \in Handlers \ {h} : op'[g] = op[g]
    BY <1>14, IdleEffect DEF Crash, Die
  <2>2. device' = device /\ stuck' = (stuck \/ (Holds(h) /\ device.locked))
    BY <1>14 DEF Crash, Holds
  <2> QED
    BY <1>0, <2>1, <2>2 DEF LockReleased, Holds
<1>15. ASSUME TakePunch
       PROVE  LockReleased'
  BY <1>15 DEF TakePunch, server, LockReleased, Sane, TypeOK
<1>16. ASSUME SwitchMode
       PROVE  LockReleased'
  BY <1>16 DEF SwitchMode, server, LockReleased
<1>17. ASSUME NEW pin \in {1, 2}, NEW card \in Cards, Keypad(pin, card)
       PROVE  LockReleased'
  BY <1>17 DEF Keypad, LockReleased, Sane, TypeOK
<1>18. CASE UNCHANGED vars
  BY <1>18 DEF vars, server, LockReleased
<1> QED
  BY <1>2, <1>3, <1>4, <1>5, <1>7, <1>8, <1>9, <1>10, <1>11, <1>12, <1>13, <1>14, <1>15, <1>16,
     <1>17, <1>18 DEF Next

\* Whatever sessions overlap, fail or are repeated, the terminal is locked only while
\* the session that locked it still reads or is about to unlock it, or after the
\* unlocking was lost (disableDevice and the finally that enables the device again,
\* zktecoSocket.service.js).
THEOREM ScreenReleased == Spec => []LockReleased
<1>1. Init => Sane /\ LockReleased
  BY SaneInit, LockInit
<1>2. Sane /\ LockReleased /\ [Next]_vars => (Sane /\ LockReleased)'
  BY SaneStep, LockStep
<1> QED
  BY <1>1, <1>2, PTL DEF Spec

-----------------------------------------------------------------------------
(* The user's row.                                                         *)

\* Cutting a card number off twice is cutting it off once.
LEMMA ShortTwice ==
  ASSUME NEW n \in Nat
  PROVE  (n % 65536) % 65536 = n % 65536
OBVIOUS

LEMMA CopiesInit ==
  ASSUME Init
  PROVE  CopiesSound
BY DEF Init, InitHandlers, CopiesSound, Entered, Copied, Linked, Idle

LEMMA CopiesStep ==
  ASSUME Sane, CopiesSound, [Next]_vars
  PROVE  CopiesSound'
<1> USE DEF world, stores, histories
<1>1. ASSUME NEW h \in Handlers, bare' = bare, entered' = entered,
             device'.pin = device.pin, device'.card = device.card,
             \A g \in Handlers \ {h} : op'[g] = op[g],
             Copied(h)' => Copied(h) /\ op'[h].user = op[h].user
      PROVE  CopiesSound'
  BY <1>1 DEF CopiesSound, Entered, Copied, Linked
<1>2. ASSUME NEW h \in Handlers, NEW kind \in Kinds, NEW atServer \in BOOLEAN, Begin(h, kind, atServer)
      PROVE  CopiesSound'
  <2>1. ~Copied(h)' /\ \A g \in Handlers \ {h} : op'[g] = op[g]
    BY <1>2, BeginEffect DEF Copied
  <2> QED
    BY <1>1, <1>2, <2>1 DEF Begin
<1>3. ASSUME NEW h \in Handlers, NEW at \in LinkSteps, Within(h, at), op'[h].user = op[h].user,
             op[h].at # "enable" \/ at = "enable", op[h].at \in LinkSteps
      PROVE  /\ \A g \in Handlers \ {h} : op'[g] = op[g]
             /\ Copied(h)' => Copied(h) /\ op'[h].user = op[h].user
  BY <1>3 DEF Within, Copied, Linked, LinkSteps
<1>4. ASSUME NEW h \in Handlers, Connect(h)
      PROVE  CopiesSound'
  <2>1. op[h].at = "connect" /\ op[h].at \in LinkSteps
    BY <1>4 DEF Connect, At, LinkSteps
  <2> QED
    BY <1>1, <1>3, <1>4, <2>1, ConnectEffect DEF Connect
<1>5. ASSUME NEW h \in Handlers, ConnectFails(h)
      PROVE  CopiesSound'
  <2>1. /\ \A g \in Handlers \ {h} : op'[g] = op[g]
        /\ Copied(h)' => Copied(h) /\ op'[h].user = op[h].user
    BY <1>5, ConnectFailsEffect DEF Copied, Linked, Idle
  <2> QED
    BY <1>1, <1>5, <2>1 DEF ConnectFails
<1>6. ASSUME NEW h \in Handlers, Disable(h)
      PROVE  CopiesSound'
  <2>1. /\ \A g \in Handlers \ {h} : op'[g] = op[g]
        /\ Copied(h)' => Copied(h) /\ op'[h].user = op[h].user
    BY <1>3, <1>6, DisableEffect DEF LinkSteps
  <2>2. device'.pin = device.pin /\ device'.card = device.card
    BY <1>6, DisableEffect DEF Sane, TypeOK
  <2> QED
    BY <1>1, <1>6, <2>1, <2>2 DEF Disable
<1>7. ASSUME NEW h \in Handlers, Read(h)
      PROVE  CopiesSound'
  <2>1. /\ \A g \in Handlers \ {h} : op'[g] = op[g]
        /\ Copied(h)' => Copied(h) /\ op'[h].user = op[h].user
    BY <1>3, <1>7, ReadEffect DEF LinkSteps
  <2> QED
    BY <1>1, <1>7, <2>1 DEF Read
<1>8. ASSUME NEW h \in Handlers, List(h)
      PROVE  CopiesSound'
  <2>1. /\ Within(h, "enable") /\ device' = device /\ entered' = entered
        /\ bare' \in BOOLEAN /\ (bare => bare')
        /\ \/ op'[h].user = None
           \/ op'[h].user = [pin |-> device.pin, card |-> device.card]
           \/ op'[h].user = [pin |-> 0, card |-> 0] /\ (op[h].kind = "privilege" => bare')
    BY <1>8, ListEffect DEF List
  <2>2. ASSUME NEW u, Entered(u)
        PROVE  Entered(u)'
    BY <2>1, <2>2 DEF Entered
  <2>3. Entered(device)'
    BY <2>1, <2>2 DEF CopiesSound, Entered
  <2>4. ASSUME NEW g \in Handlers \ {h}, Copied(g)'
        PROVE  Entered(op[g].user)'
    <3>1. op'[g] = op[g] /\ Copied(g)
      BY <2>1, <2>4 DEF Within, Copied, Linked
    <3>2. Entered(op[g].user)
      BY <3>1 DEF CopiesSound
    <3> QED
      BY <2>1, <3>1, <3>2 DEF Entered
  <2>5. ASSUME Copied(h)'
        PROVE  Entered(op[h].user)'
    <3>1. op'[h].user # None /\ op[h].kind = "privilege"
      BY <2>1, <2>5 DEF Copied, Within
    <3>2. CASE op'[h].user = [pin |-> device.pin, card |-> device.card]
      BY <2>1, <3>2 DEF CopiesSound, Entered
    <3>3. CASE op'[h].user = [pin |-> 0, card |-> 0] /\ bare'
      BY <3>3 DEF Entered
    <3> QED
      BY <2>1, <3>1, <3>2, <3>3
  <2> QED
    BY <2>3, <2>4, <2>5 DEF CopiesSound
<1>9. ASSUME NEW h \in Handlers, Write(h)
      PROVE  CopiesSound'
  <2>1. /\ Within(h, "enable") /\ entered' = entered /\ bare' = bare
        /\ op[h].at = "write" /\ Head(op[h].todo) = "write" /\ op[h].kind = "privilege"
        /\ op[h].user \in User
        /\ (device'.pin = device.pin /\ device'.card = device.card) \/ WrittenBack(op[h].user)
    BY <1>9, WriteEffect DEF Write
  <2>2. Copied(h) /\ ~Copied(h)'
    BY <2>1, NoneAssumption DEF Copied, Linked, Within
  <2>3. ASSUME NEW g \in Handlers, Copied(g)'
        PROVE  Entered(op[g].user)'
    <3>1. op'[g] = op[g] /\ Copied(g)
      BY <2>1, <2>2, <2>3 DEF Within, Copied, Linked
    <3>2. Entered(op[g].user)
      BY <3>1 DEF CopiesSound
    <3> QED
      BY <2>1, <3>1, <3>2 DEF Entered
  <2>4. Entered(device)'
    <3>1. CASE device'.pin = device.pin /\ device'.card = device.card
      BY <2>1, <3>1 DEF CopiesSound, Entered
    <3>2. CASE WrittenBack(op[h].user)
      <4>1. Entered(op[h].user) /\ entered \subseteq User
        BY <2>2 DEF CopiesSound, Sane, TypeOK
      <4>2. CASE bare /\ op[h].user.pin = 0 /\ op[h].user.card = 0
        BY <2>1, <3>2, <4>2 DEF WrittenBack, Entered
      <4>3. ASSUME NEW e \in entered, op[h].user.pin = e.pin,
                   op[h].user.card \in {e.card, ShortCard(e)}
            PROVE  Entered(device)'
        <5>1. e.card \in Nat
          BY <4>1 DEF User
        <5>2. op[h].user.card % 65536 = e.card % 65536
          BY <4>3, <5>1, ShortTwice DEF ShortCard
        <5>3. device'.pin = e.pin /\ device'.card \in {e.card, ShortCard(e)}
          BY <3>2, <4>3, <5>2 DEF WrittenBack, ShortCard
        <5> QED
          BY <2>1, <5>3 DEF Entered
      <4> QED
        BY <4>1, <4>2, <4>3 DEF Entered
    <3> QED
      BY <2>1, <3>1, <3>2
  <2> QED
    BY <2>3, <2>4 DEF CopiesSound
<1>10. ASSUME NEW h \in Handlers, Enable(h)
       PROVE  CopiesSound'
  <2>1. op[h].at = "enable" /\ Do(h, After(h))
    BY <1>10 DEF Enable, At
  <2>2. /\ \A g \in Handlers \ {h} : op'[g] = op[g]
        /\ Copied(h)' => Copied(h) /\ op'[h].user = op[h].user
    BY <2>1, AfterEffect DEF Copied, Linked, Idle
  <2>3. device'.pin = device.pin /\ device'.card = device.card
    BY <1>10 DEF Enable, Sane, TypeOK
  <2> QED
    BY <1>1, <1>10, <2>2, <2>3 DEF Enable
<1>11. ASSUME NEW h \in Handlers, NEW from, NEW cap, Map(h, from, cap)
       PROVE  CopiesSound'
  <2>1. ~Copied(h)' /\ \A g \in Handlers \ {h} : op'[g] = op[g]
    BY <1>11, MapEffect DEF Copied, Linked, Idle
  <2> QED
    BY <1>1, <1>11, <2>1 DEF Map
<1>12. ASSUME NEW h \in Handlers, Store(h)
       PROVE  CopiesSound'
  <2>1. ~Copied(h)' /\ \A g \in Handlers \ {h} : op'[g] = op[g]
    BY <1>12, StoresEffect DEF Copied, Linked, Idle
  <2> QED
    BY <1>1, <1>12, <2>1 DEF Store
<1>13. ASSUME NEW h \in Handlers, Cut(h)
       PROVE  CopiesSound'
  <2>1. op[h].at \in LinkSteps
    BY <1>13 DEF Cut, LinkSteps
  <2>2. /\ \A g \in Handlers \ {h} : op'[g] = op[g]
        /\ Copied(h)' => Copied(h) /\ op'[h].user = op[h].user
    BY <1>3, <1>13, <2>1, CutEffect
  <2> QED
    BY <1>1, <1>13, <2>2 DEF Cut
<1>14. ASSUME NEW h \in Handlers, Crash(h)
       PROVE  CopiesSound'
  <2>1. ~Copied(h)' /\ \A g \in Handlers \ {h} : op'[g] = op[g]
    BY <1>14, IdleEffect DEF Crash, Die, Copied, Linked, Idle
  <2> QED
    BY <1>1, <1>14, <2>1 DEF Crash
<1>15. ASSUME TakePunch
       PROVE  CopiesSound'
  <2>1. /\ device'.pin = device.pin /\ device'.card = device.card
        /\ op' = op /\ entered' = entered /\ bare' = bare
    BY <1>15 DEF TakePunch, server, Sane, TypeOK
  <2> QED
    BY <2>1 DEF CopiesSound, Entered, Copied, Linked
<1>16. ASSUME SwitchMode
       PROVE  CopiesSound'
  BY <1>16 DEF SwitchMode, server, CopiesSound, Entered, Copied, Linked
<1>17. ASSUME NEW pin \in {1, 2}, NEW card \in Cards, Keypad(pin, card)
       PROVE  CopiesSound'
  <2>1. op' = op
    BY <1>17 DEF Keypad, server
  <2>2. device' = [device EXCEPT !.pin = pin, !.card = card]
    BY <1>17 DEF Keypad
  <2>3. device'.pin = pin /\ device'.card = card
    BY <2>2 DEF Sane, TypeOK
  <2>4. [pin |-> pin, card |-> card] \in entered'
    BY <1>17, Zenon DEF Keypad
  <2>5. Entered(device)'
    BY <2>3, <2>4 DEF Entered
  <2>6. ASSUME NEW h \in Handlers, Copied(h)'
        PROVE  Entered(op[h].user)'
    <3>1. Copied(h)
      BY <2>1, <2>6 DEF Copied, Linked
    <3>2. Entered(op[h].user)
      BY <3>1 DEF CopiesSound
    <3>3. entered \subseteq entered'
      BY <1>17, <3>1, Zenon DEF Keypad
    <3>4. bare => bare'
      BY <1>17, <3>1, Zenon DEF Keypad
    <3> QED
      BY <2>1, <3>2, <3>3, <3>4 DEF Entered
  <2> QED
    BY <2>5, <2>6 DEF CopiesSound
<1>18. CASE UNCHANGED vars
  BY <1>18 DEF vars, server, CopiesSound, Entered, Copied, Linked
<1> QED
  BY <1>2, <1>4, <1>5, <1>6, <1>7, <1>8, <1>9, <1>10, <1>11, <1>12, <1>13, <1>14, <1>15, <1>16,
     <1>17, <1>18 DEF Next

\* RowEntered: whatever sessions overlap, fail or are cut off, the PIN and card on the
\* terminal are of one entry at the keypad, the last one unless a request held a copy when it
\* was made, but for the card's upper bytes and for listings over UDP
\* (setZkDeviceUserPrivilege, device.service.js; setZkUserWrite, zktecoSocket.service.js).
THEOREM NothingInvented == Spec => []RowEntered
<1>1. Init => Sane /\ CopiesSound
  BY SaneInit, CopiesInit
<1>2. Sane /\ CopiesSound /\ [Next]_vars => (Sane /\ CopiesSound)'
  BY SaneStep, CopiesStep
<1>3. CopiesSound => RowEntered
  BY DEF CopiesSound, RowEntered
<1> QED
  BY <1>1, <1>2, <1>3, PTL DEF Spec

-----------------------------------------------------------------------------
(* The device log.                                                         *)

LEMMA RowsInit ==
  ASSUME Init
  PROVE  RowsRight /\ OncePerPunch
BY DEF Init, InitHandlers, RowsRight, OncePerPunch, Idle

LEMMA RowsStep ==
  ASSUME Sane, RowsRight, OncePerPunch, [Next]_vars
  PROVE  RowsRight' /\ OncePerPunch'
<1> USE DEF world, stores, histories
<1>1. ASSUME NEW h \in Handlers, logs' = logs, \A g \in Handlers \ {h} : op'[g] = op[g],
             op'[h].at = "store" => \A r \in op'[h].rows : RightRow(r)
      PROVE  RowsRight' /\ OncePerPunch'
  BY <1>1 DEF RowsRight, RightRow, OncePerPunch
<1>2. ASSUME NEW h \in Handlers, NEW kind \in Kinds, NEW atServer \in BOOLEAN, Begin(h, kind, atServer)
      PROVE  RowsRight' /\ OncePerPunch'
  <2>1. op'[h].at # "store" /\ \A g \in Handlers \ {h} : op'[g] = op[g]
    BY <1>2, BeginEffect
  <2> QED
    BY <1>1, <1>2, <2>1 DEF Begin
<1>3. ASSUME NEW h \in Handlers, NEW at \in LinkSteps, Within(h, at)
      PROVE  op'[h].at # "store" /\ \A g \in Handlers \ {h} : op'[g] = op[g]
  BY <1>3 DEF Within, LinkSteps
<1>4. ASSUME NEW h \in Handlers, Connect(h) \/ Disable(h) \/ Read(h) \/ List(h) \/ Write(h) \/ Cut(h)
      PROVE  RowsRight' /\ OncePerPunch'
  <2>1. \E at \in LinkSteps : Within(h, at)
    <3>1. "read" \in LinkSteps /\ "enable" \in LinkSteps /\ (Cut(h) => op[h].at \in LinkSteps)
      BY DEF LinkSteps, Cut
    <3> QED
      BY <1>4, <3>1, ConnectEffect, DisableEffect, ReadEffect, ListEffect, WriteEffect, CutEffect
  <2>2. logs' = logs
    BY <1>4 DEF Connect, Disable, Read, List, Write, Cut
  <2> QED
    BY <1>1, <1>3, <2>1, <2>2
<1>5. ASSUME NEW h \in Handlers, ConnectFails(h)
      PROVE  RowsRight' /\ OncePerPunch'
  <2>1. op'[h].at # "store" /\ \A g \in Handlers \ {h} : op'[g] = op[g]
    BY <1>5, ConnectFailsEffect DEF Idle
  <2> QED
    BY <1>1, <1>5, <2>1 DEF ConnectFails
<1>6. ASSUME NEW h \in Handlers, Enable(h)
      PROVE  RowsRight' /\ OncePerPunch'
  <2>1. op'[h].at # "store" /\ \A g \in Handlers \ {h} : op'[g] = op[g]
    BY <1>6, AfterEffect DEF Enable, At, Idle
  <2> QED
    BY <1>1, <1>6, <2>1 DEF Enable
<1>7. ASSUME NEW h \in Handlers, NEW from, NEW cap, Map(h, from, cap)
      PROVE  RowsRight' /\ OncePerPunch'
  <2>1. /\ \A g \in Handlers \ {h} : op'[g] = op[g]
        /\ op'[h].at = "store" => \A r \in op'[h].rows : RightRow(r)
    BY <1>7, MapEffect DEF Idle
  <2> QED
    BY <1>1, <1>7, <2>1 DEF Map
<1>8. ASSUME NEW h \in Handlers, Store(h)
      PROVE  RowsRight' /\ OncePerPunch'
  <2>1. /\ \A g \in Handlers \ {h} : op'[g] = op[g]
        /\ op[h].at = "store"
        /\ op'[h].at = "store" => op'[h].rows \subseteq op[h].rows
    BY <1>8, StoresEffect DEF Idle
  <2>2. PICK r \in op[h].rows :
          logs' = IF \E l \in logs : l.punch = r.punch /\ l.type = r.type THEN logs ELSE logs \cup {r}
    BY <1>8, StoresEffect
  <2>3. RightRow(r) /\ \A l \in logs : RightRow(l)
    BY <2>1 DEF RowsRight
  <2>4. \A l \in logs' : RightRow(l)
    BY <2>2, <2>3
  <2>5. RowsRight'
    BY <2>1, <2>4 DEF RowsRight, RightRow
  <2>6. OncePerPunch'
    <3>1. ASSUME NEW l \in logs, l.punch = r.punch, l.how = r.how
          PROVE  l.type = r.type
      BY <2>3, <3>1 DEF RightRow
    <3> QED
      BY <2>2, <3>1 DEF OncePerPunch
  <2> QED
    BY <2>5, <2>6
<1>9. ASSUME NEW h \in Handlers, Crash(h)
      PROVE  RowsRight' /\ OncePerPunch'
  <2>1. op'[h].at # "store" /\ \A g \in Handlers \ {h} : op'[g] = op[g]
    BY <1>9, IdleEffect DEF Crash, Die, Idle
  <2> QED
    BY <1>1, <1>9, <2>1 DEF Crash
<1>10. ASSUME op' = op, logs' = logs
       PROVE  RowsRight' /\ OncePerPunch'
  BY <1>10 DEF RowsRight, RightRow, OncePerPunch
<1>11. ASSUME TakePunch \/ SwitchMode \/ (\E pin \in {1, 2}, card \in Cards : Keypad(pin, card)) \/ UNCHANGED vars
       PROVE  RowsRight' /\ OncePerPunch'
  BY <1>10, <1>11 DEF TakePunch, SwitchMode, Keypad, vars, server
<1> QED
  BY <1>2, <1>4, <1>5, <1>6, <1>7, <1>8, <1>9, <1>11 DEF Next

\* However often a punch is read, with which others and by whom, it is stored once
\* per way of finding its direction (applyAlternatingInOutForInferredLogs runs before
\* max_records cuts the list, device.service.js).
THEOREM StoredOnce == Spec => []OncePerPunch
<1>1. Init => Sane /\ RowsRight /\ OncePerPunch
  BY SaneInit, RowsInit
<1>2. Sane /\ RowsRight /\ OncePerPunch /\ [Next]_vars => (Sane /\ RowsRight /\ OncePerPunch)'
  BY SaneStep, RowsStep
<1> QED
  BY <1>1, <1>2, PTL DEF Spec
=============================================================================
