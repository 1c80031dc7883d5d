# A TLA+ verification of WHMon

WHMon watches the computers of classrooms from a web application. This directory
holds the TLA+ modules of its core logic, the TLC runs that check them on small
instances, and TLAPS proofs of their main safety properties for every value of the
constants. Paths such as `webgui/model/StateListener.cpp` are relative to `src/` of
the repository.

## 1. The system

| Component | State | Operations | Interacts with |
|---|---|---|---|
| **StateListener** (`webgui/model/StateListener.cpp`) | `_clients` (cache of the table), `_states` (seconds left per id) | receive handler (`handleCMD`), one-second timer (`delStateCount`), `tick`, `findClient` | agents (UDP in, HELLO/BYE out), DbProxy, the boards (signal `stateChanged`) |
| **Agent**, `server.exe` (`server/server.cpp`, `server/cmd.cpp`) | `observers` (id, is_reg), the one TCP socket, tvnserver | accept loop with HELLO, BYE, OPENVNC, CLOSEVNC, SHUTDOWN, SHOW, UPDATE; report thread | stations (TCP in, UDP out), the operating system |
| **DbProxy** (`webgui/model/DbProxy.cpp`) | SQLite tables Clients, Zone2Name, IP2Zone, Users, User2Zones and their triggers | add/modify/delete of each, `runSQL` under one mutex | everything in the station |
| **ClientBoard** (`webgui/view/ClientBoard.cpp`) | `_zones`, `_views`, `_models`, `_states` of one web session | edit/add/delete clients and zones, send message, shutdown, `handleState` | DbProxy, StateListener's signal, Cmd |
| **Cmd** (`webgui/model/cmd.cpp`) | one socket per command, one static io_service | connect, write, read, callback | agents |
| **MainView** (`webgui/view/MainView.cpp`) | the remote desktop dialog of a session | OPENVNC on opening, CLOSEVNC on leaving | Cmd |
| **UserBoard, LoginView** (`webgui/view/`) | `_user`, the copy of the session's account; the list of names | login, passwords, add/delete accounts, role and zones of an account | DbProxy (Users, User2Zones) |
| **WHMonWebClient** | the widgets of a session | login loop, menu by role, logout, lock | all views |
| **Desktop client** (`client/`) | a container of Client objects with unique names and addresses, addressed by an id that is meant to be the index; the rows of its list; the ids marked for deletion; the file data.db | menus, one-second timer, update thread (`upstate`), destructor and `_Save` | agents (UDP in, commands out) |

How they interact: an unregistered agent reports `-1 name` every five seconds. The
listener finds its address in the cache, or inserts a client and reads the table
again, and sends HELLO with an id over TCP. From then on the agent reports `id OK`;
the listener counts each heartbeat (`tick`), emits OnLine, counts down every second
and emits OffLine at 0. An id that is not in the table for that address is answered
with BYE, which makes the agent discoverable again. Boards subscribe to the events
and edit the same tables at any time.

What is hard, and what the properties are about:

* *Staleness.* The listener's cache and the boards' `_zones` are copies of tables that
  others change.
* *Copies that are written back.* A session keeps the account it read at login and
  writes all of it when a password changes; a page keeps models of zones that only events
  and its own edits fill again.
* *Ordering.* Commands of one dialog go over connections that nothing orders; `handleState`
  drops an event that repeats the last one.
* *Interleaving.* The listener handles a new client with two statements; a board adds a
  client with two calls; the agent's report thread copies objects that the main thread
  writes, without a lock; each command has a thread of its own.
* *Failure.* Statements of one script commit one by one; agents and the station restart
  and forget different things; clients of the agent go away in the middle of a command, and
  one that does leaves the agent deaf; the power of a computer fails while a command waits
  for its answer, for which there is no timeout; a file is truncated before it is written.
* *Addressing.* The desktop client gives its agents indices as names; what moves an index
  moves the meaning of their reports.
* *Liveness.* One accept loop with one socket and no timeout; one report loop that
  starts over at the first error.

What makes each component correct:

* Listener: BYE only where the table has no such client; only issued ids are online;
  the events are those of a failure detector; the cache names an address once.
* Agent: registered exactly when it has an id; a packet never mixes two registrations
  into an id nobody assigned; the accept loop and the report loop never stop.
* Classification: the default zone holds exactly what has no other zone; no step hides
  a client from every board.
* Page: what its current tab says is that of the last events, apart from changes behind
  another tab; a discovery is shown; no edit leaves a SuperAdmin without a tab.
* Accounts: no account is lost, and a row has the role that a page last told its user,
  whatever the order of the statements of several sessions; it has another only where a
  session has written an old copy back.
* Listener and agents together: no agent reports an id nobody gave it; whatever ids the
  agents were left with, each that still hears comes to report the id of its row in the table.
* Desktop client: an id stays the index of its client, a row tells the truth about the client
  its menu acts on, marking one client erases that one, a silent computer is shown as lost,
  and the file can be read again whole.
* Remote desktop: when nobody looks, tvnserver is closed, and while somebody looks only
  another dialog closes or stops it; a dialog gets its answer; no command is destroyed while
  the agent works for it.

## 2. Modules

| Module | Models | Notes |
|---|---|---|
| `FailureDetector` | what the station promises about a node | abstract: Hear, Second, Reset |
| `ListenerEvents` | what the station promises to those who hear its signal: the order of an id's events | abstract: NewClient, Greeted, Heard, Lost, Reset |
| `StateListener` | the listener's thread, the Clients table and the web sessions' changes to it | refines `FailureDetector` and `ListenerEvents` |
| `Protocol` | parse_cmd and the create() of each CMD | pure operators |
| `Agent` | `server.exe`: main thread, report thread, clients, restarts | EXTENDS `Protocol` |
| `Classroom` | the agents as a station sees them, and the commands under way to them | EXTENDS `Protocol`; the agent in full is `Agent` |
| `Discovery` | `StateListener` composed with `Classroom` | its safety part implements the listener's |
| `Classification` | what the station promises about the zones of an address | abstract: Enrol, Retire, Reclassify, Found, Dissolve |
| `ZoneDb` | Clients, Zone2Name, IP2Zone with triggers; the boards and the listener as their users | refines `Classification` |
| `Board` | the clients page of one session: tabs, models, states; the listener's events and other sessions' edits | its listener is `ListenerEvents`; uses what `ZoneDb` establishes about the default zone |
| `Accounts` | the table Users, LoginView, UserBoard, getUser, addUser and modifyUser statement by statement | |
| `RemoteDesktop` | MainView's dialogs for one computer, Cmd::send and the shared io_service, the agent as commands see it | the agent in full is `Agent` |
| `DesktopClient` | the wxWidgets client: container, list, timer, update thread, destructor, file | composed with nothing: packets come from any address |
| `MC*` | instances for TLC | |
| `*Proofs` | inductive invariants and theorems | |

### StateListener
One action per branch of `handleCMD`: `DiscoverKnown`, `DiscoverNew` followed by
`GreetNew` (the insert and the re-read are two SQL statements and web sessions may come
between), `Heartbeat`; `DelStateCount` is the timer; `Restart` the process. `adding` is
the program counter of a half-handled discovery, `sent` the commands given to
`cmd_async_send` by the last step, `signalled` the last event of each id. As in the code, the id
-1 of a discovery packet is itself ticked and sent with HELLO after an insert. Packets
are not queued: any address may send any id at any time, which covers loss, duplication,
delay and agents that remember an id of an earlier database.

### ListenerEvents
The pages and the listener meet in one signal, and this module is all that the one side
promises and the other assumes. The NewClient of a discovery is of the id -1 and so is the
OnLine that follows it, with nothing in between; OffLine ends an OnLine. `StateListener`
implements it with `signalled` as `last` and the half-handled discovery as `greeting`: a
property of the run `listener`, and a theorem. `Board` has no listener of its own but takes
these actions (`Events!NewClient`, ...). One second may end several countdowns, which is one
step `Lost(ids)` here; the page hears of them one by one, which is a `Lost({id})` for each.

### Agent
The main thread's `pc` is accept, read, run, register (HELLO and BYE store two fields
one by one) and reply. `open` is whether the one socket object is open: neither
exception handler closes it. The report thread copies an Observer field by field.
`told` is a history variable: the ids each observer's HELLOs carried as parsed, which
for `-1` is 1, since the tokenizer drops the sign. `Boot` is the computer going down and
up again. UPDATE is left out: no program of the repository sends it.

### Classroom and Discovery
`Classroom` keeps of each agent the id its report thread sends (`reg`) and whether its accept
loop still works (`deaf`), and of the network the set of commands under way, which arrive in
any order: each has a connection and a thread of its own. `Deliver` uses `Protocol`'s parse,
so a HELLO with -1 (which the listener does send after an insert) registers the agent under 1.
A command is lost in one of two ways. `Lose`: before the agent has accepted its connection,
with no effect. `CutOff`: the io_service stops after that and before the line is written; then
the agent's read fails, its one socket object stays open, and the agent hears no command until
its computer restarts (`agent_errors` shows that of the agent in full), while its report
thread goes on.

`Discovery` takes every action of `StateListener`, puts what it sends under way, and lets an
agent's report be whatever `reg` says. `Settled` is an agent that reports its own row while
nothing under way could change its mind. An agent runs at the addresses `Computer`; at the
others is a computer that has gone, which commands do not reach. `Disturbance` is everything
that sets the two apart: late and doubled packets, restarts of the station and of computers,
edits of the table; it may happen at any time until `calm`. Commands are lost and cut off
before and after.

`Joined` is said of the table and of the cache. The manual lists as known bug 1
(`README.md:81`) that the discovery of a node deleted while it was online is not accepted
until the station restarts: the listener finds it in its cache, answers with the id of the
deleted row and inserts nothing. That is `Outdated`, which `AgentsJoin` excepts: it can last
for ever when nothing makes the listener read the table again. The theorem
`CacheIsOutdatedByOthers` adds that only a disturbance brings it about.

### ZoneDb
`Inserted` and `Deleted` are what the triggers make of an INSERT into or DELETE from
IP2Zone for one address. `runSQL` holds a mutex, so scripts do not interleave; but each
statement commits alone, which `CrashInEdit` uses. `addClient` is two calls and two
actions. Names are left out.

The refinement mapping to `Classification` takes as the addresses present those with a row in
Clients, as the zones that exist the rows of Zone2Name, and as the zones of an address its
rows in IP2Zone. A script is then one step that enrols, retires or reclassifies one address,
or founds or dissolves a zone; a crash after some of its statements is such a step as well.

### Board
One page and everything that can happen to it. `states` is `_states`, `models` is what the
rows of `_models` say, `fetched` the views that are no longer named "init". `HandleState` is
used by the four actions of the listener, which holds the session's lock meanwhile;
`Fetch` is `fetchModel` and reads the database and `_states` of its moment. `current` is
`NoTab` when the last tab has gone: then the next event looks up a null pointer's zone,
the exception has no handler and the process ends (`mode` "dead"). A page without zones
ends it in its constructor. A user who is no SuperAdmin can reach both; the property is
about SuperAdmins, who always have the default zone. `missed` is a history variable: the
zones that were not refilled at the last change of `_states`. Where it excuses nothing
the column must be right.
`InsertedInto` gives a new client any zones that `ZoneDb` allows. Left out: which rows are
selected, the two styles of the page, names.

### DesktopClient
The GUI thread and the update thread share the container. `update_mutex` is taken by the
update thread alone, and only an insertion waits for the GUI, so each other change is modelled
as what it is: a Client is copied, the copy edited, the original replaced. `gui` and `upd` hold
the two copies; `overwritten` records, until the list is filled again, the positions where the
update thread put an old one back. `PushBack` is refused when the name or the address is
there, after `Create` has taken an id from the static counter (`refused`): from then on ids are
no indices, which is why the properties except it. The destructor's `deletings` are ids taken
as indices, one erasure after the other; only the first is sure to be right.

`update` does not understand every packet: one without a space fails the assertion at
`client/cmd.cpp:164` (`OneWord`, after which `mode` is "misread"), and one whose id is no number
ends the thread for good (`NoNumber`: `upd` is "ended"). "aborted" is left for the failed
assertions and indices out of range of `client.cpp:210, 401, 446`, which `AbortsAreExplained` is
about. A HELLO to a Client just discovered carries the -1 of its packet (`client.cpp:381-389`)
and the agent takes it for 1: `CommandsNameTheirClient` names that case instead of leaving it out.

`_Save` opens the file, which empties it, and then writes (`OpenFile`, `Save`): a process that
dies in between leaves the first so many Clients. It serializes each Client and with it clears
its count, so the destructor's loop sends no BYE; if the file cannot be opened, it does.

Left out: the order of the rows and which are selected; the remote desktop, since
`run_vnc.cpp:18` asserts on the length of the password; `handle_message`, which logs; steps of the
update thread during the destructor, and torn accesses within the container, whose outcomes
the code leaves undefined.

### Accounts
`job` is the program counter of a session: the dialogs, and between them each SQL
statement of `modifyUser` (delete, delete, insert) and `addUser` (delete, insert).
`me` is `_user`. `Unread` is what `getUser` returns of a name without a row: no name, no
password, and an uninitialised role, that is any role. Two handlers use it: `Login`, since
`LoginView.cpp:99-103` compares the passwords only and the validators accept an empty text, so
that a name without an account logs in with no password; and `ChangeDefaultPasswd`, which reads
`admin` again after another session may have deleted it and writes what it got under the
empty name. An account with the empty name may also be added from the page. `Insert` fails if
another session's insert came first (NAME is UNIQUE). Of passwords only whether the
administrator's is the default is kept, since the first dialog depends on it.

`given` and `stale` are history variables: what a page last told its user of a name (its role,
or that it is deleted), and the sessions whose copy of a user is older than that or was never
read from a row. When such a copy is written back, what was told is `Undone`: this is how the
role that `UserBoard.cpp:232` says takes effect at the next login is lost again to a change of
password, and how the row with the empty name gets a role nobody set. `RolesAreAsGiven` says that
there is no other way, for every name.

### RemoteDesktop
A dialog's two commands are `<<"OPENVNC", d>>` and `<<"CLOSEVNC", d>>`. `thread` is where
`Cmd::send` is (reset, async_connect, run), `net` where its connection is. `stopped` is
the io_service's flag: set when the last operation is over, cleared by the `reset()` of any
thread. `Work` are the operations under way; a thread in `run()` executes the handlers of
all commands. The race is between `reset()` and `run()` of one thread: if another
command's last handler stops the service in between, `run()` returns at once,
the command is destroyed and its handler later runs on freed memory (`HandleDestroyed`,
any outcome).

The answer to an OPENVNC is two steps. `HandleAnswer` finds the dialog still connected and calls
`onReceivePasswd`, which waits for the lock of the session (`calling`) and keeps one thread of
`run()` meanwhile (`CanHandle`); `CallBack` has the lock. In between the dialog may be
cancelled, or its session end: then `Show` is the failed assert of `MainView.cpp:98`, or runs on a
MainView that has gone, and any outcome is possible.

The agent's service of a command is two steps as well: `Serve` stops tvnserver, whichever command
it is, and `Served` has set it up and started it again, or failed on the way: the agent
answers an OPENVNC with an error from anywhere between (`server/cmd.cpp:166-170`). `vnc` is what the
registry says, `down` whether the service is stopped; so a desktop that is shown is interrupted by
another dialog's OPENVNC too, even one that succeeds. What `wxExecute` returns is looked at by
nobody (`server/cmd.cpp:33-42`): that the service manager does what `sc` tells it is assumed, but
for an OPENVNC that fails.

`Boot` is a restart in the middle of anything. A client that waits for its answer hears that
its connection is gone, or, when the power failed, nothing for ever (`net` "hung"), since the read of
`webgui/model/cmd.cpp:91` has no timeout. tvnserver starts with the setting in the registry.

`excused` and `overtaken` are history variables for what loses or reorders a CLOSEVNC; `closer` is the
dialog whose command stopped tvnserver last, until it accepts connections again. SHOW and
SHUTDOWN from the dialog are in `Agent`.

## 3. Runs

| Run | Question | Bounds and why they are enough |
|---|---|---|
| `listener` | invariants and both refinements under edits and restarts | two addresses compete for three ids, so a row can be deleted, added again under a new id and re-addressed; the countdown starts at 3: it meets 0, 1 and values in between |
| `agent_safe` | registration and reports | two stations and a stranger, every verb and its misspelling, HELLO before and after an id is known; one connection, since the main thread holds one at a time; one restart |
| `agent_live` | serving and reporting go on | two connections wait for each other |
| `agent_errors` | a client fails while it is served | **violated**: the socket object stays open, accept() throws for ever |
| `zones` | the classification under two boards, discovery and crashes; the refinement of `Classification` | two addresses, ids and zones beside the default one: edits collide on addresses and on zones; symmetric in boards and addresses |
| `zones_stale` | do nodes of a deleted zone fall back to the default zone? | **violated**: the board still offers the zone it deleted |
| `board` | what can be old on a page, does it show a lost client as online, and can it lose its last tab? | one client, the id -1, and two zones beside the default one: the client in none, one or both; every order of events, switches and edits. The theorems have any number of clients |
| `accounts` | accounts and roles under interleaved statements and crashes | two sessions (symmetric), `admin` and the empty name, three roles: each statement of one session meets each of the other; names do not depend on each other, and the theorems have any number |
| `remote` | is tvnserver closed when nobody looks, and who closes or stops it while somebody does; which commands are lost, and is every other dialog answered? | two dialogs, one after the other or at once: four commands, so that a third and fourth thread meet the race of the first two; restarts at any time, unbounded (1.5 million states) |
| `remote_cancel` | is the service closed after cancel? | **violated**: CLOSEVNC overtakes the OPENVNC of its dialog |
| `discovery` | which ids can agents report, does a right one stay right, and does every agent come to report its own after any disturbance? | two addresses with an agent at one: edits move rows from one to the other, and late packets of the other meet each step; two commands under way, so that they overtake each other; two ids; countdown from 1. `calm` and `deaf` come at any time |
| `desktop` | ids, rows, commands, erasures, aborts and the file of the desktop client, half written or whole; is silence shown? | two names and two addresses, so that an insertion can be refused for either; three ids, so that one can be lost and another still be given; a new endpoint counts 2, a heartbeat 1, so that both copies meet a count of 0, 1 and more |

Constants `MaxId`, `MaxZone` bound AUTOINCREMENT and `Client::next_id`, `MaxBoots` the
restarts, `MaxNet` the commands under way. They are bounds of the model, not of the code; the
proofs hold for every value.

### Fairness
* `StateListener`: `WF(GreetNew)`, a handler that has begun ends; `SF(DelStateCount)`, the
  io_service runs ready handlers in order, so an expired timer is not passed over for
  ever. The timer is disabled while a discovery is half handled, hence strong fairness.
* `Agent`: weak fairness of each of the two threads as a whole. Nothing is assumed of
  clients; `ServedIfClientsBehave` states what it needs of them as its hypothesis.
* `RemoteDesktop`: one weak fairness, of all that happens without users and restarts: threads,
  handlers, connections (TCP ends an attempt one way or the other) and the agent's loop do not all
  rest while one of them can go on. It is weaker than fairness of each, and enough, since a
  command takes only so many steps and the dialogs are bounded. Users are not fair, and a hung
  read never ends. `DialogsAreAnswered` has as hypotheses that the agent keeps serving and
  the process runs, and excepts the dialog whose own command met the stopped service or hangs;
  each of these happens in the code.
* `Discovery`: weak fairness of `GreetNew` as above. An agent without an answer reports every five
  seconds for ever and each report is answered, so strong fairness of `Report` and of the
  arrival of some command says that not every packet and not every command of a computer is
  lost. `Arrives` is a step of an agent that hears: for a deaf one the fairness says
  nothing. `AgentsJoin` has as hypotheses that disturbances end, that the agent is not deaf from
  some time on, and that the cache is not outdated at some calm moment.
* `DesktopClient`: weak fairness of `ModifyWrite`, a handler that has begun ends; strong fairness
  of the timer, whose events the GUI thread handles in turn with the user's. Nothing is
  assumed of the user, of packets or of the update thread; `SilentIsShownLost` has as
  hypothesis that the program goes on running and nothing is refused.
* `ZoneDb`, `Board` and `Accounts` state safety only.

## 4. Proofs

All theorems are over the safety part of the specification and for all constants that
satisfy the named assumptions.

* `StateListenerProofs`: the invariant adds to `TypeOK` that the table holds an address
  once, that rows and cached rows lie below the sequence, and that commands sent BYE
  agree with the table. The cache keeps `OneIdPerIp` because each refresh replaces the
  whole of it. `ImplementsDetectorSafety` proves that every step is a step or a stutter of
  the detector under the refinement mapping, and `ImplementsEventsAlways` the same for
  `ListenerEvents`: that an OffLine follows an OnLine needs `SignalledAsCounted`, which
  `EventsTellTheCountdown` states (the last event of an id is OnLine exactly while its
  countdown runs), and of the id -1 `DiscoveryAsCounted`.
* `AgentProofs`: `ReportsToldIds` needs an invariant about half-written Observers: while
  HELLO or BYE stores its fields each field is that of the old or of the new state, and
  every id that appears in an Observer or in the report's copy was told to it.
* `ZoneDbProofs`: `DefaultZoneExclusive` follows from what the triggers keep;
  `StaysListed` also needs that addresses are unique in Clients and that no dialog has a
  check box for the default zone. `ImplementsClassificationAlways` proves that each script is
  a step of `Classification` or a stutter; that an INSERT enrols one address and touches no other
  row needs `RowsAreOld`: no row has an id that the table has yet to give.
* `BoardProofs`: `BoardHearsEvents` proves that the listener `Board` assumes is that of
  `ListenerEvents`; with `ImplementsEventsAlways` the assumption is discharged.
  `ShownOnlineIsOnline` needs that what `_states` holds as OnLine is the last event signalled
  (`StatesAreLast`). The converse is false: a page takes everybody for offline when it opens.
  `StaleOnlyIfMissed` is about the current tab only; the invariant says it of
  every model that has been filled (`AllFresh`). `DiscoveredIsShown` needs that outside a
  discovery the last event of -1 is not NewClient (`GreetingsEnd`), and
  `SuperAdminBoardLives` that the default zone's tab stays and that a page with tabs has a
  current one.
* `AccountsProofs`: `AccountSurvives` is inductive as it stands. `RolesAreAsGiven` is not: a role comes into the table from a copy, and a copy from the table of an earlier
  moment, so the invariant says of every session that is not `stale` that the copy it may
  write back has the role that was given, unless that is `Undone` in the table too
  (`CopyIsAsGiven`).
* `RemoteDesktopProofs`: `WrittenIsAwaited` says that a line waiting for its answer keeps the
  service from stopping. It needs that a command with an operation under way has a thread
  inside `send()` (`LiveInSend`), that a callback waiting for its session is an operation
  of a service that runs (`CallingIsAnswered`), and that a dialog sends each command once.
  `ClosedUnlessExcused` is far from inductive: `SomeoneCloses` says that as long as no CLOSEVNC
  was lost or came too early, an open tvnserver has a dialog that is still open or whose
  CLOSEVNC is on its way, and each OPENVNC yet to be served, or being served (`BegunIsHead`), has its own
  dialog for that; `CloseComesLast` says that a CLOSEVNC in service finds
  the OPENVNC of its dialog served.
  `CutByOthersOnly` looks at the other side: a dialog that shows the desktop has had its OPENVNC
  served and handled (`ReadyIsDone`) and not yet sent its CLOSEVNC, so the command in service is of
  another dialog; the invariant says so of the dialog from the moment its OPENVNC is served, not
  only when the answer has come (`ServedIsCutByOthers`).
* `DiscoveryProofs`: a step of the composition is a step of the listener or a stutter, so the
  invariants proved of the listener hold among agents and a lossy network.
  `ReportsAreIssued` needs that the HELLOs under way carry issued ids, and that after the
  HELLO with -1, which the agent takes for 1, the table has had a row (`IssuedStep`).
  `SettledForGood` is the safety half of `AgentsJoin`: it goes through every action of
  listener, agents and network and shows that none parts a settled agent from its row.
  `CacheIsOutdatedByOthers` is about its exception: once calm, a cache that agrees with the table
  on an address goes on doing so, whatever is inserted.
* `DesktopClientProofs`: one invariant for all. `Numbered`: until an insertion is refused the
  counter is the length of the container and every id in sight (in the container, the rows,
  the copies, the marks) is an index. `RowsAreTrue` needs moreover that what counts is online
  (`AllLit`), and that the timer's copy differs from its Client in seconds only unless the
  update thread wrote there since (`TimerCopyIsClose`); `Stages` and `Placed` say what there is
  in each mode of the process and that the copies' positions are in the container.
  `SavedAreDistinct` needs the same of the container (`ContainerIsDistinct`): `replace` and
  `push_back` are the only ways in, and each compares with what is there at that moment, not
  when the copy was made; a file that is written in part has the beginning of the list.

Only model-checked is what is temporal beyond invariants and action properties: `ImplementsDetector`'s
liveness, `ServedIfClientsBehave`, `ReportsRecur`, `DialogsAreAnswered`, `AgentsJoin`,
`SilentIsShownLost`. The prover has no support for liveness under fairness. Of `AgentsJoin`,
that an agent which is right stays right is proved; that it becomes right is checked.

## 5. What is not modelled, and why

* `User2Zones`, the zones a page opens with. Beside what `Accounts` says of Users, its questions are
  about single statements: `delUser` has none for it (listed as a hazard), whatever the order of
  steps. An Admin's page without zones is in `Board`.
* The selection of a page through a dialog's event loop. Which rows a selection names after
  its model was refilled is decided by Wt, whose code is not here.
* The agent's UPDATE and `Config::fresh`. No program of the repository sends UPDATE, and an
  address would not survive the tokenizer, which breaks it at its dots.
* The desktop client's remote desktop, and its `handle_message`; see `DesktopClient` above.
* An abstract specification of the accounts. `modifyUser` deletes and inserts outside the
  mutex, so a table with the account and without it are both states others see; what is left
  to promise is `AccountSurvives` and `RolesAreAsGiven`.
* Whether the service manager obeys. The agent ignores what `wxExecute` returns, so an `sc`
  that fails leaves tvnserver as it was and is answered OK: `RemoteDesktop` has failures of an
  OPENVNC that throw, and takes it that `sc` works otherwise.
* What a page sends as SHUTDOWN for a selection is spelled SHUTDWON, which the agent does not know
  (`ClientBoard.cpp:662`); `agent_safe` sends it such a line. It needs no model beyond that.
* Formatting and cryptography of the tvnserver password (`config_vnc.cpp`, vendored `d3des.c`),
  `gui.cpp`, `gui.h`, `gui.fbp` (generated), `MyLogger`, `showmessage`, the installer, the layout
  of Wt widgets, `Verifyer.hpp` (nothing includes it), `policy_server` (a constant reply).
