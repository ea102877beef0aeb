----------------------------- MODULE DeviceLink -----------------------------
(***************************************************************************)
(* Sessions with one ZKTeco terminal: reading its punches, listing its     *)
(* users, changing a user's privilege and unlocking its screen             *)
(* (backend/src/services/zktecoSocket.service.js), whoever opens them: the *)
(* API server itself (device.service.js), the office agent's HTTP server   *)
(* (local-agent/server.js) or the bridge that polls on the office network  *)
(* (zk-lan-bridge/server.js); and the import of what was read into the     *)
(* device log.                                                             *)
(*                                                                         *)
(* The terminal and its wire protocol are external: commands arrive or are *)
(* lost, a TCP connection that is refused becomes a UDP one, and a read    *)
(* returns the oldest punches up to some point.  Sessions that neither     *)
(* lock nor change it (probeSnapshot), last_sync and the processing that   *)
(* may follow an import (DeviceLogs) are left out.                         *)
(***************************************************************************)
EXTENDS Handlers, Sequences, FiniteSets

CONSTANTS
  MaxPunches,  \* bound: punches on the terminal, numbered by time
  DayOf,       \* the day of a punch
  CardOf,      \* the number of the person who punched
  StatedOf,    \* the direction key that person pressed
  Caps,        \* values of max_records
  Cards,       \* card numbers that are entered at the keypad
  MaxEvents,   \* bound: lost commands, connections and processes, changes by people
  None

ASSUME LinkAssumption ==
  /\ MaxPunches \in Nat /\ MaxEvents \in Nat
  /\ DayOf \in [1 .. MaxPunches -> Nat]
  /\ StatedOf \in [1 .. MaxPunches -> {"CHECK_IN", "CHECK_OUT"}]
  /\ Caps \subseteq Nat \ {0} /\ Cards \subseteq Nat

VARIABLES
  route,       \* how the server reaches the terminal
  bridged,     \* the URL of a bridge is configured
  device,      \* the terminal: screen, punches taken, and one user's row
  verifyOnly,  \* the mode of its row in devices
  snapshot,    \* the bridge's cache.payload: how many punches, read over which link
  logs,        \* device_logs: punch, event_type and how it was found
  events,      \* how many of those there were
  entered,     \* history: the user's row as entered at the keypad, see RowEntered
  bare,        \* history: a copy of the row came over UDP without PIN and card
  stuck        \* history: see LockReleased

vars == <<server, route, bridged, device, verifyOnly, snapshot, logs, events, entered, bare, stuck>>

Punches == 1 .. MaxPunches
Routes == {"legacy", "relay", "bridge", "direct"}
Links == {"tcp", "udp"}
Kinds == {"list", "privilege", "unlock", "import", "poll"}
Sessions == {"pull", "again", "list", "write", "unlock"}
User == [pin : {0, 1, 2}, card : Nat]

ASSUME NoneAssumption == None \notin User

Row == [punch : Punches, type : {"CHECK_IN", "CHECK_OUT", "VERIFY"},
        how : {"stated", "zero", "inferred", "verify"}]

Ops ==
  {Idle}
    \cup [at : {"connect"} \cup {"disable", "read", "list", "write", "enable", "map"},
          kind : Kinds, atServer : BOOLEAN, verify : BOOLEAN, todo : Seq(Sessions),
          link : Links, up : BOOLEAN, held : BOOLEAN, more : BOOLEAN,
          read : 0 .. MaxPunches, user : User \cup {None}]
    \cup [at : {"store"}, rows : SUBSET Row]

TypeOK ==
  /\ op \in [Handlers -> Ops]
  /\ requests \in 0 .. MaxRequests /\ deaths \in 0 .. MaxDeaths
  /\ route \in Routes /\ bridged \in BOOLEAN /\ verifyOnly \in BOOLEAN
  /\ device \in [locked : BOOLEAN, taken : 0 .. MaxPunches, pin : {0, 1, 2}, card : Nat]
  /\ snapshot \in [n : 0 .. MaxPunches, link : Links] \cup {None}
  /\ logs \subseteq Row
  /\ events \in 0 .. MaxEvents
  /\ entered \subseteq User /\ bare \in BOOLEAN /\ stuck \in BOOLEAN

Init ==
  /\ InitHandlers
  /\ route \in Routes /\ verifyOnly = FALSE
  /\ bridged \in CASE route = "bridge" -> {TRUE} [] route = "direct" -> {FALSE} [] OTHER -> BOOLEAN
  /\ \E c \in Cards :
       /\ device = [locked |-> FALSE, taken |-> 0, pin |-> 1, card |-> c]
       /\ entered = {[pin |-> 1, card |-> c]}
  /\ snapshot = None /\ logs = {}
  /\ events = 0 /\ bare = FALSE /\ stuck = FALSE

world == <<route, bridged, verifyOnly, entered>>
stores == <<snapshot, logs>>
histories == <<bare, stuck>>

-----------------------------------------------------------------------------
(* Requests and the sessions they consist of.                              *)

\* The agent's /execute, which the server calls on the legacy route.
AgentPlan(kind) ==
  CASE kind = "list" -> <<"list">>
    [] kind = "privilege" -> <<"list", "write">>
    [] kind = "unlock" -> <<"unlock">>
    [] OTHER -> <<"pull">>

\* The server, for a terminal that is not marked OFFLINE.  With a relay agent only the
\* import gets past the unknown name companyId.
ListPlan == IF route = "legacy" THEN <<"list">> ELSE <<>>

\* The screen is unlocked before a user is changed.
PrivilegePlan ==
  CASE route = "legacy" -> <<"list", "write">>
    [] route = "relay" -> <<>>
    [] OTHER -> <<"unlock", "list", "write">>

UnlockPlan == IF route = "relay" THEN <<>> ELSE <<"unlock">>

\* A bridge answers from its snapshot.
ImportPlan == IF route = "bridge" THEN <<>> ELSE <<"pull">>

ServerPlan(kind) ==
  CASE kind = "list" -> ListPlan
    [] kind = "privilege" -> PrivilegePlan
    [] kind = "unlock" -> UnlockPlan
    [] OTHER -> ImportPlan

Linked(h) == op[h].at \notin {"idle", "store"}

\* The bridge polls when it does not do so already.
MayPoll == bridged /\ ~\E g \in Handlers : Linked(g) /\ op[g].kind = "poll"

Begin(h, kind, atServer) ==
  LET todo == IF atServer THEN ServerPlan(kind) ELSE AgentPlan(kind) IN
  /\ Arrive(h)
  /\ todo # <<>> \/ (kind = "import" /\ snapshot # None)
  /\ kind = "poll" => MayPoll /\ ~atServer
  /\ Do(h, [at |-> IF todo = <<>> THEN "map" ELSE "connect", kind |-> kind,
            atServer |-> atServer /\ kind = "import",
            verify |-> verifyOnly /\ atServer /\ kind = "import",
            todo |-> todo, link |-> "tcp", up |-> FALSE, held |-> FALSE, more |-> FALSE,
            read |-> 0, user |-> None])
  /\ UNCHANGED <<world, device, stores, events, histories>>

\* createSocket, with the UDP fallback for a refused TCP connection.
Connect(h) ==
  LET s == Head(op[h].todo) IN
  /\ At(h, "connect")
  /\ \E l \in Links :
       Do(h, [op[h] EXCEPT !.link = l, !.up = TRUE,
                           !.at = CASE s = "pull" -> "disable" [] s = "again" -> "read"
                                    [] s = "unlock" -> "enable" [] OTHER -> s])
  /\ UNCHANGED <<world, device, stores, events, histories>>

-----------------------------------------------------------------------------
(* Commands.                                                               *)

Event == events < MaxEvents /\ events' = events + 1

\* disableDevice: the screen is locked while the punches are read; a failure is ignored.
Disable(h) ==
  /\ At(h, "disable")
  /\ \/ /\ op[h].up
        /\ device' = [device EXCEPT !.locked = TRUE]
        /\ Do(h, [op[h] EXCEPT !.at = "read", !.held = TRUE])
        /\ UNCHANGED events
     \/ /\ IF op[h].up THEN Event ELSE UNCHANGED events
        /\ Do(h, [op[h] EXCEPT !.at = "read"])
        /\ UNCHANGED device
  /\ UNCHANGED <<world, stores, histories>>

\* getAttendanceSize and getAttendances: everything, or the beginning when packets
\* are lost; some terminals return nothing while they are locked.
Read(h) ==
  LET given == 1 .. device.taken IN
  /\ At(h, "read")
  /\ \E n \in 0 .. device.taken :
       /\ Do(h, [op[h] EXCEPT !.at = "enable", !.read = n,
                           !.more = op[h].up /\ n = 0 /\ given # {}])
       /\ \/ op[h].up /\ (n = device.taken \/ (n = 0 /\ op[h].held)) /\ UNCHANGED events
          \/ op[h].up /\ 0 < n /\ n < device.taken /\ Event
          \/ ~op[h].up /\ n = 0 /\ UNCHANGED events
  /\ UNCHANGED <<world, device, stores, histories>>

\* getUsers: a UDP row may lack PIN and card (zkUserDecodePatch.js:120 adds neither).
List(h) ==
  LET whole == [pin |-> device.pin, card |-> device.card] IN
  /\ At(h, "list")
  /\ \E u \in {whole} \cup (IF op[h].link = "udp" THEN {[pin |-> 0, card |-> 0]} ELSE {}) :
       /\ Do(h, [op[h] EXCEPT !.at = "enable", !.more = op[h].up,
                              !.user = IF op[h].up THEN u ELSE None])
       /\ bare' = (bare \/ (op[h].kind = "privilege" /\ op[h].up /\ u # whole))
  /\ UNCHANGED <<world, device, stores, events, stuck>>

\* zkBuildSetUserPayload72: the packet for TCP has two bytes for the card.
ShortCard(u) == u.card % 65536

\* Mutant: the PIN is left out of the packet.
WriteWithoutPin(h) ==
  LET u == op[h].user IN
  /\ At(h, "write")
  /\ IF op[h].up
     THEN device' = [device EXCEPT !.pin = 0, !.card = ShortCard(u)]
     ELSE UNCHANGED device
  /\ Do(h, [op[h] EXCEPT !.at = "enable"])
  /\ UNCHANGED <<world, stores, events, histories>>

\* setZkUserWrite: the whole row with the new role, which is left out here; a terminal
\* may refuse the write over UDP.
Write(h) ==
  LET u == op[h].user IN
  /\ At(h, "write")
  /\ \E done \in IF op[h].link = "udp" /\ op[h].up THEN BOOLEAN ELSE {op[h].up},
        card \in {ShortCard(u)} \cup (IF op[h].link = "udp" THEN {u.card} ELSE {}) :
       /\ device' = IF done THEN [device EXCEPT !.locked = FALSE, !.pin = u.pin, !.card = card]
                    ELSE [device EXCEPT !.locked = @ /\ ~op[h].up]
       /\ Do(h, [op[h] EXCEPT !.at = "enable"])
  /\ stuck' = (stuck /\ ~op[h].up)
  /\ UNCHANGED <<world, stores, events, bare>>

\* What a session that is over leads to: the read is repeated without the lock if it
\* gave nothing though there are punches, a failed unlocking is ignored, another
\* failure ends the request, and what a request has read is imported; by the server
\* only if a bridge is configured, otherwise it stumbles over the unknown useAgent.
After(h) ==
  LET o == op[h]
      s == Head(o.todo)
      next(todo) == [o EXCEPT !.at = "connect", !.todo = todo, !.up = FALSE, !.held = FALSE,
                              !.more = FALSE]
  IN  IF s = "pull" /\ o.more THEN next(<<"again">>)
      ELSE IF s \in {"pull", "again"}
           THEN IF o.kind = "import" /\ (o.atServer => bridged) /\ o.read > 0
                THEN [o EXCEPT !.at = "map", !.up = FALSE, !.held = FALSE] ELSE Idle
      ELSE IF Len(o.todo) > 1 /\ (o.more \/ s = "unlock") THEN next(Tail(o.todo))
      ELSE Idle

\* What the bridge has polled becomes its snapshot, also when it could not connect.
Polled(h, n) ==
  IF op[h].kind = "poll" /\ op[h].todo # <<>> /\ After(h) = Idle
  THEN [n |-> n, link |-> op[h].link] ELSE snapshot

\* Mutant: the screen is not enabled when nothing was read.
EnableAfterRows(h) ==
  /\ At(h, "enable")
  /\ device' = [device EXCEPT !.locked = @ /\ (op[h].read = 0 \/ ~op[h].up)]
  /\ snapshot' = Polled(h, op[h].read)
  /\ Do(h, After(h))
  /\ UNCHANGED <<world, logs, events, histories>>

\* zkFullUnlockSequence: only a pull sends the enabling command once; the others
\* repeat it, so that one lost command does not matter.
Repeated(h) == Head(op[h].todo) \notin {"pull", "again"}

\* The finally of every session: enableDevice and disconnect.
Enable(h) ==
  /\ At(h, "enable")
  /\ \/ /\ op[h].up
        /\ device' = [device EXCEPT !.locked = FALSE]
        /\ stuck' = FALSE
        /\ UNCHANGED events
     \/ /\ ~op[h].up \/ ~Repeated(h)
        /\ IF op[h].up THEN Event ELSE UNCHANGED events
        /\ stuck' = (stuck \/ (op[h].held /\ device.locked))
        /\ UNCHANGED device
  /\ snapshot' = Polled(h, op[h].read)
  /\ Do(h, After(h))
  /\ UNCHANGED <<world, logs, bare>>

\* No connection: the session is over at once.
ConnectFails(h) ==
  /\ At(h, "connect")
  /\ LET o == op[h] IN
         /\ Do(h, IF Head(o.todo) = "unlock" /\ Len(o.todo) > 1 THEN [o EXCEPT !.todo = Tail(o.todo)] ELSE Idle)
         /\ snapshot' = IF o.kind = "poll" THEN [n |-> 0, link |-> o.link] ELSE snapshot
  /\ UNCHANGED <<world, device, logs, events, histories>>

-----------------------------------------------------------------------------
(* Import into the device log.                                             *)

\* Whether the direction of a punch is known: the bridge puts 0 where there is none.
How(link, polled, verify) ==
  IF link = "tcp" THEN "stated" ELSE IF polled THEN "zero"
  ELSE IF verify THEN "verify" ELSE "inferred"

\* applyAlternatingInOutForInferredLogs: in and out alternate per person and day.
Alternate(S, p) ==
  LET before == {q \in S : q < p /\ CardOf[q] = CardOf[p] /\ DayOf[q] = DayOf[p]} IN
  IF Cardinality(before) % 2 = 0 THEN "CHECK_IN" ELSE "CHECK_OUT"

Type(S, p, how) ==
  CASE how = "stated" -> StatedOf[p]
    [] how = "zero" -> "CHECK_IN"
    [] how = "verify" -> "VERIFY"
    [] OTHER -> Alternate(S, p)

\* The newest punches of the days asked for.
Newest(S, from, cap) ==
  LET asked == {p \in S : DayOf[p] >= from} IN
  {p \in asked : Cardinality({q \in asked : q > p}) < cap}

\* Mutant: directions are inferred from the rows that are kept.
RowsOfKept(n, how, from, cap) ==
  LET kept == Newest(1 .. n, from, cap) IN
  {[punch |-> p, type |-> Type(kept, p, how), how |-> how] : p \in kept}

\* Directions are inferred from all rows that were read, before any is left out.
Rows(n, how, from, cap) ==
  {[punch |-> p, type |-> Type(1 .. n, p, how), how |-> how] : p \in Newest(1 .. n, from, cap)}

\* The server has read the mode before it went for the punches; punches that come from
\* a browser are mapped with the mode of the moment.
Map(h, from, cap) ==
  /\ At(h, "map")
  /\ LET polled == op[h].todo = <<>>
         read == IF polled THEN snapshot ELSE [n |-> op[h].read, link |-> op[h].link]
         verify == IF op[h].atServer THEN op[h].verify ELSE verifyOnly
         rows == IF read = None THEN {}
                 ELSE Rows(read.n, How(read.link, polled, verify), from, cap)
     IN  Do(h, IF rows = {} THEN Idle ELSE [at |-> "store", rows |-> rows])
  /\ UNCHANGED <<world, device, stores, events, histories>>

\* pushLogs stores the rows in any order, each once per punch and event_type.
Store(h) ==
  /\ At(h, "store")
  /\ \E r \in op[h].rows :
       /\ logs' = IF \E l \in logs : l.punch = r.punch /\ l.type = r.type THEN logs ELSE logs \cup {r}
       /\ Do(h, IF op[h].rows = {r} THEN Idle ELSE [op[h] EXCEPT !.rows = @ \ {r}])
  /\ UNCHANGED <<world, device, snapshot, events, histories>>

-----------------------------------------------------------------------------
(* Faults, and what people do.                                             *)

Cut(h) ==
  /\ op[h].at \in {"disable", "read", "list", "write", "enable"} /\ op[h].up
  /\ Event
  /\ Do(h, [op[h] EXCEPT !.up = FALSE])
  /\ UNCHANGED <<requests, deaths, world, device, stores, histories>>

\* The process that opened the session dies; the bridge's takes the snapshot with it.
Crash(h) ==
  /\ Die(h) /\ Event
  /\ stuck' = (stuck \/ (op[h].at \in {"read", "enable"} /\ op[h].held /\ device.locked))
  /\ snapshot' = IF Linked(h) /\ op[h].kind = "poll" THEN None ELSE snapshot
  /\ UNCHANGED <<world, device, logs, bare>>

\* The locked terminal accepts nobody.
TakePunch ==
  /\ ~device.locked /\ device.taken < MaxPunches
  /\ device' = [device EXCEPT !.taken = @ + 1]
  /\ UNCHANGED <<server, world, stores, events, histories>>

\* The request is going to write back the row it has listed.
Copied(h) ==
  /\ Linked(h) /\ op[h].kind = "privilege" /\ op[h].user # None
  /\ ~(op[h].at = "enable" /\ Head(op[h].todo) = "write")

\* The user's PIN or card is changed at the keypad.  A request that holds a copy of the row
\* will write the old one over it; with no such request the old row is gone for good.
Keypad(pin, card) ==
  /\ ~device.locked /\ Event
  /\ device' = [device EXCEPT !.pin = pin, !.card = card]
  /\ LET overtaken == \E h \in Handlers : Copied(h) IN
       /\ entered' = {[pin |-> pin, card |-> card]} \cup (IF overtaken THEN entered ELSE {})
       /\ bare' = (bare /\ overtaken)
  /\ UNCHANGED <<server, route, bridged, verifyOnly, stores, stuck>>

SwitchMode ==
  /\ Event /\ verifyOnly' = ~verifyOnly
  /\ UNCHANGED <<server, route, bridged, device, stores, entered, histories>>

-----------------------------------------------------------------------------
Next ==
  \/ \E h \in Handlers :
       \/ \E kind \in Kinds, atServer \in BOOLEAN : Begin(h, kind, atServer)
       \/ Connect(h) \/ ConnectFails(h)
       \/ Disable(h) \/ Read(h) \/ List(h) \/ Write(h) \/ Enable(h)
       \/ \E from \in {DayOf[p] : p \in Punches}, cap \in Caps : Map(h, from, cap)
       \/ Store(h)
       \/ Cut(h) \/ Crash(h)
  \/ TakePunch \/ SwitchMode
  \/ \E pin \in {1, 2}, card \in Cards : Keypad(pin, card)

Spec == Init /\ [][Next]_vars

-----------------------------------------------------------------------------
(* Properties.                                                             *)

\* "disable during bulk read, then enable and disconnect" (zktecoSocket.service.js:
\* 117): whatever sessions overlap, fail or are repeated, the screen is locked only
\* while a session that locked it is reading, or after the enabling command, the
\* connection or the process of such a session was lost and until another session
\* has got an enabling command through.
LockReleased ==
  device.locked => stuck \/ \E h \in Handlers : op[h].at \in {"read", "enable"} /\ op[h].held

\* A PIN and card that were entered together, the card perhaps without its upper bytes, or
\* what a UDP listing without PIN and card makes of a row.
Entered(u) ==
  \/ \E e \in entered : u.pin = e.pin /\ u.card \in {e.card, ShortCard(e)}
  \/ bare /\ u.pin = 0 /\ u.card = 0

\* What becomes of the row when privileges are changed by writing it back: its PIN and card
\* are always of one entry at the keypad, the last one or, when it was entered while a
\* request held a copy of the row, one before it; never parts of two, and both are lost only
\* by a UDP listing.  The card may lose its upper bytes.  ("preserve name / card / PIN",
\* device.service.js:1519, is more than the code does.)
RowEntered == Entered(device)

\* However often a punch is read, together with which others, by whom and up to which
\* number of rows it is cut, it is stored once, unless its direction was stated once
\* and inferred another time or the mode was changed.
OncePerPunch == \A l, m \in logs : l.punch = m.punch /\ l.how = m.how => l = m
=============================================================================
