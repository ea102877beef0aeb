----------------------------- MODULE SyncCenter -----------------------------
(***************************************************************************)
(* The page on which HR reads terminals, lists a terminal's users, changes *)
(* who administers it and imports users and punches:                       *)
(* frontend/src/pages/devices/SyncCenter.jsx.                              *)
(*                                                                         *)
(* A click starts a handler that awaits one call after another while the   *)
(* page goes on; it keeps the terminal and the users it saw when it was    *)
(* clicked.  Answers come in any order.  What the server does with a call  *)
(* is in other modules; here a call changes one terminal's administrators, *)
(* reads its users, or fails.  The same uid is another person on another   *)
(* terminal, so a row, a tick and a command carry the terminal whose list  *)
(* they come from.  Communication keys, dates and messages are data: a     *)
(* call with a wrong key is one that fails.                                *)
(*                                                                         *)
(* The names of its state machine begin with Page, so that its proofs can  *)
(* stand beside those of AgentJobQueue.                                    *)
(***************************************************************************)
EXTENDS Integers

CONSTANTS
  Devices,    \* terminals
  Uids,       \* user ids every terminal has
  First,      \* sets of users who may be the administrators when the page is opened
  Bridge,     \* the terminal the DTR bridge polls, None where none is configured
  Tasks,      \* handlers under way at once
  MaxEvents,  \* bound: calls started, visits left, changes at a terminal's keypad
  None        \* no terminal

ASSUME SyncAssumption ==
  /\ Uids \subseteq Nat /\ MaxEvents \in Nat
  /\ First \subseteq SUBSET (Devices \X Uids)
  /\ None \notin Devices /\ Bridge \in Devices \cup {None}

VARIABLES
  admins,   \* the administrators of each terminal
  page,     \* what the mounted page shows
  tasks,    \* the handlers under way
  crossed,  \* history: the dialog was opened while a list of another terminal was awaited
  events

pageVars == <<admins, page, tasks, crossed, events>>

User == Devices \X Uids
Entry == [user : User, admin : BOOLEAN]
Idle == [at |-> "idle"]
Fresh == [picker |-> None, rows |-> {}, loading |-> FALSE, failed |-> FALSE,
          ticked |-> {}, stale |-> {}, busy |-> {}, listing |-> TRUE, testing |-> {}]

\* A list of d is never the one a bridge has of another terminal.
Direct(d) == Bridge \in {None, d}

\* A handler: what was clicked, the terminal and users it is about, those it has
\* still to write, those the list it saw does not tell the truth about (history), whether
\* that list was the terminal's (history), and the list it has read itself.
Task(kind, at, d, users, grant) ==
  [kind |-> kind, at |-> at, d |-> d, users |-> users, todo |-> users, grant |-> grant,
   changed |-> page.stale, clean |-> ~crossed /\ Direct(d), rows |-> {}, ok |-> TRUE, left |-> FALSE]

\* What the page shows, and what a handler under way knows.
Content ==
  [picker : Devices \cup {None}, rows : SUBSET Entry, loading : BOOLEAN, failed : BOOLEAN,
   ticked : SUBSET User, stale : SUBSET User, listing : BOOLEAN, testing : SUBSET Devices,
   busy : SUBSET {"bulk", "privilege", "import", "pull", "process"}]
Underway ==
  [kind : {"mount", "load", "unlock", "bulk", "privilege", "import", "pull", "process", "test"},
   at : {"agent", "show", "unlock", "unlock again", "write", "late", "call", "refresh"},
   d : Devices \cup {None}, users : SUBSET User, todo : SUBSET User, grant : BOOLEAN,
   changed : SUBSET User, clean : BOOLEAN, rows : SUBSET Entry, ok : BOOLEAN, left : BOOLEAN]

PageTypeOK ==
  /\ admins \in SUBSET User
  /\ page \in Content
  /\ tasks \in [Tasks -> {Idle} \cup Underway]
  /\ crossed \in BOOLEAN
  /\ events \in 0 .. MaxEvents

\* The page reads the list of terminals when it is entered.
Mount(t) == [s \in Tasks |-> IF s = t THEN Task("mount", "refresh", None, {}, FALSE) ELSE Idle]

Active(t) == tasks[t] # Idle
Mine(t) == Active(t) /\ ~tasks[t].left

-----------------------------------------------------------------------------
(* Clicks.                                                                 *)

Event == events < MaxEvents /\ events' = events + 1

Click(t, task) ==
  /\ Event /\ ~Active(t)
  /\ tasks' = [tasks EXCEPT ![t] = task]
  /\ UNCHANGED admins

Loading(p) == [p EXCEPT !.rows = {}, !.loading = TRUE, !.failed = FALSE]

\* Mutant: opening the dialog keeps what was ticked for the terminal before.
OpenPickerTicked(t, d) ==
  /\ page.picker = None /\ ~page.listing
  /\ page' = [Loading(page) EXCEPT !.picker = d]
  /\ crossed' = \E s \in Tasks : Mine(s) /\ tasks[s].d # d
                  /\ tasks[s].kind \in {"load", "unlock", "bulk", "privilege"}
  /\ Click(t, Task("load", "agent", d, {}, FALSE))

\* The dialog covers the page: another one is opened only when it is closed.
OpenPicker(t, d) ==
  /\ page.picker = None /\ ~page.listing
  /\ page' = [Loading(page) EXCEPT !.picker = d, !.ticked = {}]
  /\ crossed' = \E s \in Tasks : Mine(s) /\ tasks[s].d # d
                  /\ tasks[s].kind \in {"load", "unlock", "bulk", "privilege"}
  /\ Click(t, Task("load", "agent", d, {}, FALSE))

\* The option to show passwords reads the list again.
IncludePassword(t) ==
  /\ page.picker # None
  /\ page' = Loading(page)
  /\ Click(t, Task("load", "agent", page.picker, {}, FALSE))
  /\ UNCHANGED crossed

Touch(p) == page' = p /\ UNCHANGED <<admins, tasks, crossed, events>>

\* The cross is never disabled.
Close == page.picker # None /\ Touch([page EXCEPT !.picker = None])

Shown == page.picker # None /\ ~page.loading /\ ~page.failed

\* A tick is a uid: it is taken back whatever list it was set in.
ToggleUid(u) ==
  /\ Shown /\ \E r \in page.rows : r.user[2] = u
  /\ LET same == {x \in page.ticked : x[2] = u} IN
     Touch([page EXCEPT !.ticked =
       IF same = {} THEN @ \cup {r.user : r \in {x \in page.rows : x.user[2] = u}}
                    ELSE @ \ same])

SelectAll ==
  /\ Shown /\ page.rows # {} /\ "bulk" \notin page.busy
  /\ Touch([page EXCEPT !.ticked = {r.user : r \in page.rows}])

ClearSelection ==
  /\ page.picker # None /\ page.ticked # {} /\ "bulk" \notin page.busy
  /\ Touch([page EXCEPT !.ticked = {}])

Elevated == {r.user : r \in {x \in page.rows : x.admin}}

NoCommand == page.busy \cap {"bulk", "privilege"} = {}

Busy(flag) == page' = [page EXCEPT !.busy = @ \cup {flag}] /\ UNCHANGED crossed

UnlockScreen(t) ==
  /\ Shown /\ NoCommand
  /\ Busy("bulk")
  /\ Click(t, Task("unlock", "unlock", page.picker, {}, FALSE))

\* Mutant: all privileges are taken away while a single one is being changed.
ClearElevatedAnyTime(t) ==
  /\ Shown /\ "bulk" \notin page.busy /\ Elevated # {}
  /\ Busy("bulk")
  /\ Click(t, Task("bulk", "unlock", page.picker, Elevated, FALSE))

ClearElevated(t) ==
  /\ Shown /\ NoCommand /\ Elevated # {}
  /\ Busy("bulk")
  /\ Click(t, Task("bulk", "unlock", page.picker, Elevated, FALSE))

ApplyPrivilege(t, r) ==
  /\ Shown /\ r \in page.rows /\ NoCommand
  /\ Busy("privilege")
  /\ Click(t, Task("privilege", "write", page.picker, {r.user}, ~r.admin))

SubmitImport(t) ==
  /\ page.picker # None /\ page.ticked # {} /\ page.busy \cap {"import", "bulk"} = {}
  /\ Busy("import")
  /\ Click(t, Task("import", "call", page.picker, page.ticked, FALSE))

\* Reading, pulling through the agent, storing: the first two may fail.
SyncZk(t, d) ==
  /\ page.picker = None /\ ~page.listing /\ "pull" \notin page.busy
  /\ Busy("pull")
  /\ Click(t, Task("pull", "call", d, {}, FALSE))

RunProcess(t) ==
  /\ page.picker = None /\ "process" \notin page.busy
  /\ Busy("process")
  /\ Click(t, Task("process", "call", None, {}, FALSE))

\* "Sync all" tests a terminal that is being tested too.
SyncDevice(t, d) ==
  /\ page.picker = None /\ ~page.listing
  /\ page' = [page EXCEPT !.testing = @ \cup {d}]
  /\ Click(t, Task("test", "call", d, {}, FALSE))
  /\ UNCHANGED crossed

-----------------------------------------------------------------------------
(* What the handlers do then.                                              *)

Go(t, step) == tasks' = [tasks EXCEPT ![t].at = step]
Quit(t) == tasks' = [tasks EXCEPT ![t] = Idle]

\* Only the page that is still there is changed.
Show(t, p) == page' = IF tasks[t].left THEN page ELSE p

Step(t, at) == Active(t) /\ tasks[t].at = at /\ UNCHANGED <<crossed, events>>

Flags(kind) == IF kind = "unlock" THEN {"bulk"} ELSE {kind}

\* The finally of a handler.
Release(t, p) ==
  [p EXCEPT !.busy = @ \ Flags(tasks[t].kind),
            !.testing = IF tasks[t].kind = "test" THEN @ \ {tasks[t].d} ELSE @]

\* loadDeviceZkUsers at the end of a handler; nobody sees it on a page that was left.
Reload(t) ==
  /\ Show(t, Loading(page))
  /\ IF tasks[t].left THEN Quit(t) ELSE Go(t, "agent")

Fails(t) == Quit(t) /\ Show(t, Release(t, page))

Listing(d) == {[user |-> u, admin |-> u \in admins] : u \in {x \in User : x[1] = d}}

\* What the bridge may have kept of its terminal since it last polled it: any of its users,
\* once each, with the privilege they had.
Kept ==
  {R \in SUBSET {e \in Entry : e.user[1] = Bridge} : \A x, y \in R : x.user = y.user => x = y}

\* The agent in the office, or after it the server, reads the terminal.  A read that breaks
\* off still answers with what it has, possibly nothing, the server cuts the list at 500
\* users, and with a bridge it answers with the bridge's list, whichever terminal is asked for.
MayList(d) == (SUBSET Listing(d)) \cup (IF Bridge = None THEN {} ELSE Kept)

\* Those of terminal d whom a list leaves out or whose privilege has changed since.
Untold(d, rows) == {u \in User : u[1] = d /\ [user |-> u, admin |-> u \in admins] \notin rows}

Read(t, ok, rows) ==
  tasks' = [tasks EXCEPT ![t].at = "show", ![t].ok = ok, ![t].rows = rows,
                         ![t].changed = Untold(tasks[t].d, rows)]

ReadList(t) ==
  /\ Step(t, "agent")
  /\ Read(t, FALSE, {}) \/ \E rows \in MayList(tasks[t].d) : Read(t, TRUE, rows)
  /\ UNCHANGED <<admins, page>>

\* The answer is shown whatever terminal's dialog is open by now.
ShowList(t) ==
  /\ Step(t, "show")
  /\ Show(t, [Release(t, page) EXCEPT !.rows = tasks[t].rows, !.stale = tasks[t].changed, !.loading = FALSE,
                                      !.failed = ~tasks[t].ok])
  /\ Quit(t)
  /\ UNCHANGED admins

Unlock(t) ==
  /\ Step(t, "unlock")
  /\ \/ tasks[t].kind = "bulk" /\ Go(t, "write") /\ UNCHANGED page
     \/ tasks[t].kind = "unlock" /\ Reload(t)
     \/ Fails(t)
  /\ UNCHANGED admins

\* After a single privilege the screen is unlocked as well, whether that works or not.
UnlockAgain(t) ==
  /\ Step(t, "unlock again")
  /\ \/ Reload(t)
     \/ tasks[t].kind = "bulk" /\ Fails(t)
  /\ UNCHANGED admins

\* Users are written one after the other, the lowest uid first.
Lowest(S) == CHOOSE u \in S : \A v \in S : u[2] <= v[2]

Set(u, grant) == IF grant THEN admins \cup {u} ELSE admins \ {u}

\* Someone else has changed u: the list shown and the lists handlers have are old.
Noted(f, u) == [s \in Tasks |-> IF f[s] = Idle THEN Idle
                                ELSE [f[s] EXCEPT !.changed = @ \cup {u}]]
Outdated(p, u) == [p EXCEPT !.stale = @ \cup {u}]

\* This page has: only a list that was read before and is still to be shown is old.
Reread(f, u) == [s \in Tasks |-> IF f[s] # Idle /\ f[s].at = "show"
                                 THEN [f[s] EXCEPT !.changed = @ \cup {u}] ELSE f[s]]

Subject(t) == <<tasks[t].d, Lowest(tasks[t].todo)[2]>>

\* When the last is written the list is read again, after taking a privilege away
\* the screen is unlocked first.
Write(t) ==
  LET u == Subject(t)
      rest == tasks[t].todo \ {Lowest(tasks[t].todo)}
      before == IF tasks[t].left THEN Noted(tasks, u) ELSE Reread(tasks, u)
      shown == IF tasks[t].left THEN Outdated(page, u) ELSE page
  IN /\ Step(t, "write")
     /\ admins' = Set(u, tasks[t].grant)
     /\ \/ /\ rest = {} /\ tasks[t].grant
           /\ page' = IF tasks[t].left THEN shown ELSE Loading(page)
           /\ tasks' = [before EXCEPT ![t] = IF tasks[t].left THEN Idle
                                             ELSE [@ EXCEPT !.todo = {}, !.at = "agent"]]
        \/ /\ rest # {} \/ ~tasks[t].grant
           /\ tasks' = [before EXCEPT ![t].todo = rest,
                                      ![t].at = IF rest = {} THEN "unlock again" ELSE "write"]
           /\ page' = shown

\* The call fails: it never reaches the terminal, it has, or it will later.
WriteFails(t) ==
  /\ Step(t, "write")
  /\ LET p == IF tasks[t].left THEN page ELSE Release(t, page) IN
     \/ Quit(t) /\ page' = p /\ UNCHANGED admins
     \/ /\ tasks' = Noted([tasks EXCEPT ![t] = Idle], Subject(t))
        /\ admins' = Set(Subject(t), tasks[t].grant)
        /\ page' = Outdated(p, Subject(t))
     \/ /\ tasks' = [tasks EXCEPT ![t].at = "late", ![t].left = TRUE]
        /\ page' = p /\ UNCHANGED admins

Late(t) ==
  /\ Step(t, "late")
  /\ admins' = Set(Subject(t), tasks[t].grant)
  /\ tasks' = Noted([tasks EXCEPT ![t] = Idle], Subject(t))
  /\ page' = Outdated(page, Subject(t))

\* The import closes the dialog, whichever is open; a test and a pull do not.
Called(t) ==
  /\ Step(t, "call")
  /\ LET p == Release(t, page) IN
     \/ Fails(t)
     \/ tasks[t].kind = "process" /\ Quit(t) /\ Show(t, p)
     \/ /\ tasks[t].kind \in {"import", "pull", "test"}
        /\ Show(t, [page EXCEPT !.listing = TRUE,
                      !.picker = IF tasks[t].kind = "import" THEN None ELSE @,
                      !.testing = IF tasks[t].kind = "test" THEN @ \ {tasks[t].d} ELSE @])
        /\ Go(t, "refresh")
  /\ UNCHANGED admins

\* fetchDevices: an error leaves the list as it was.
Refreshed(t) ==
  /\ Step(t, "refresh")
  /\ Show(t, [page EXCEPT !.listing = FALSE, !.busy = @ \ Flags(tasks[t].kind)])
  /\ Quit(t)
  /\ UNCHANGED admins

-----------------------------------------------------------------------------
(* The rest of the world.                                                  *)

\* The page is left and entered again: its state is new, what it was writing goes on.
Revisit(t) ==
  /\ Event /\ ~Active(t)
  /\ page' = Fresh
  /\ tasks' = [s \in Tasks |->
       IF Active(s) /\ tasks[s].at \in {"unlock", "write", "late"}
       THEN [tasks[s] EXCEPT !.left = TRUE]
       ELSE Mount(t)[s]]
  /\ UNCHANGED <<admins, crossed>>

Keypad(u) ==
  /\ Event
  /\ admins' = Set(u, u \notin admins)
  /\ tasks' = Noted(tasks, u)
  /\ page' = Outdated(page, u)
  /\ UNCHANGED crossed

-----------------------------------------------------------------------------
PageInit ==
  /\ admins \in First
  /\ page = Fresh /\ crossed = FALSE
  /\ events = 0
  /\ \E t \in Tasks : tasks = Mount(t)

PageNext ==
  \/ \E t \in Tasks :
       \/ \E d \in Devices : OpenPicker(t, d) \/ SyncZk(t, d) \/ SyncDevice(t, d)
       \/ IncludePassword(t) \/ UnlockScreen(t) \/ ClearElevated(t)
       \/ \E r \in page.rows : ApplyPrivilege(t, r)
       \/ SubmitImport(t) \/ RunProcess(t)
       \/ ReadList(t) \/ ShowList(t) \/ Unlock(t) \/ UnlockAgain(t)
       \/ Write(t) \/ WriteFails(t) \/ Late(t)
       \/ Called(t) \/ Refreshed(t) \/ Revisit(t)
  \/ Close \/ SelectAll \/ ClearSelection
  \/ \E u \in Uids : ToggleUid(u)
  \/ \E u \in User : Keypad(u)

PageSpec == PageInit /\ [][PageNext]_pageVars

-----------------------------------------------------------------------------
(* Properties.                                                             *)

\* A command names only people who were listed from the terminal it is sent to: a tick never
\* outlives the dialog it was set in.  "Rows from ZK getUsers() on the opened device"
\* (SyncCenter.jsx:76) is not so when a bridge polls another terminal, nor when the dialog was
\* opened while another terminal's list was still awaited.
RightTerminal ==
  \A t \in Tasks : Active(t) /\ tasks[t].clean => \A u \in tasks[t].users : u[1] = tasks[t].d

\* When taking all privileges away is reported done, none of the administrators the list
\* truly named is left: who is left was missing in the list (a partial, cut or old one),
\* was made administrator after it was read and before it was clicked on, or behind this
\* page's back, or by a command this page was told had failed.
NoneLeft ==
  \A t \in Tasks :
    (Mine(t) /\ tasks[t].clean /\ tasks[t].kind = "bulk" /\ tasks[t].at = "agent")
      => \A u \in admins : u[1] = tasks[t].d => u \in tasks[t].changed

=============================================================================
