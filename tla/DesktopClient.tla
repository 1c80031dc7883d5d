---------------------------- MODULE DesktopClient ----------------------------
(***************************************************************************)
(* The desktop management client (src/client): a wxWidgets program that    *)
(* keeps the classroom computers in a container ordered by insertion, with *)
(* unique names and unique addresses, and addresses them by an id that is  *)
(* meant to be the index in that container.                                *)
(*                                                                         *)
(* Two threads share the container.  The GUI thread runs the menus, the    *)
(* one-second timer and the destructor; the update thread (cmd.cpp) hands  *)
(* each UDP packet to upstate.  update_mutex is held by the update thread  *)
(* alone, and only the insertion of a new endpoint waits for the GUI:      *)
(* every other change copies a Client, edits the copy and replaces the     *)
(* original, and the other thread may come in between.                     *)
(*                                                                         *)
(* Packets are not queued: any address may report any id or any name at    *)
(* any time.  The order of the rows (sort_by) and the remote desktop are   *)
(* left out; a row is where the Client is in the container.                *)
(***************************************************************************)
EXTENDS Integers, Sequences

CONSTANTS
    Name,       \* names of classrooms
    Ip,         \* their addresses
    MaxId,      \* bound: how many ids the static counter of Client hands out
    NewCount,   \* the seconds a new endpoint is given, 33 in the code
    BeatCount   \* the seconds a heartbeat gives, 10 in the code

ASSUME MaxIdAssumption == MaxId \in Nat
ASSUME CountAssumption == NewCount \in Nat \ {0} /\ BeatCount \in Nat \ {0}

VARIABLES
    mode,       \* the process: "off", "run", "closing" and "saving" in its destructor,
                \* "aborted", or "misread", aborted for a packet of one word
    db,         \* data.db: the names and addresses in it
    data,       \* MainFrame::data; the code's index i is position i + 1
    nextId,     \* Client::next_id
    rows,       \* what the list shows, a row for each Client
    deletings,  \* the ids marked for deletion
    gui,        \* what the GUI thread is amid: the timer's loop or a change, and its copy
    upd,        \* what the update thread is amid, and its copy
    sent,       \* the commands the last step gave to send_cmd
    refused,    \* history: has the container refused an insertion?
    overwritten,\* history: positions written back from an old copy since fill_data
    erased      \* history: has the destructor erased a Client?

dataVars == <<data, nextId, rows>>
threadVars == <<gui, upd>>
historyVars == <<refused, overwritten, erased>>
vars == <<mode, db, dataVars, deletings, threadVars, sent, historyVars>>

Ids == 0..(MaxId - 1)
NoId == -1

States == {"online", "offline"}
Counts == 0..(NewCount + BeatCount)
Clients == [id : Ids, name : Name, ip : Ip, state : States, count : Counts]
Rows == [id : Ids, name : Name, ip : Ip, state : States]
Saved == [name : Name, ip : Ip]

Idle == [op |-> "idle"]
GuiJobs == {Idle} \cup [op : {"timer", "modify"}, pos : Nat \ {0}, copy : Clients]
UpdJobs == {Idle} \cup [op : {"beat"}, pos : Nat \ {0}, copy : Clients]
                  \cup [op : {"add"}, name : Name, ip : Ip]
                  \cup [op : {"ended"}]

Commands == [cmd : {"HELLO", "BYE", "MENU"}, id : Int, ip : Ip]

TypeOK ==
    /\ mode \in {"off", "run", "closing", "saving", "aborted", "misread"}
    /\ db \in Seq(Saved)
    /\ data \in Seq(Clients)
    /\ nextId \in 0..MaxId
    /\ rows \in Seq(Rows)
    /\ deletings \in SUBSET Ids
    /\ gui \in GuiJobs
    /\ upd \in UpdJobs
    /\ sent \in SUBSET Commands
    /\ refused \in BOOLEAN
    /\ overwritten \in SUBSET (Nat \ {0})
    /\ erased \in BOOLEAN

-----------------------------------------------------------------------------
(* The container and the list *)

CreatedPreIncrement(name, ip, count) ==
    [id |-> nextId + 1, name |-> name, ip |-> ip, count |-> count,
     state |-> IF count > 0 THEN "online" ELSE "offline"]

\* Client::Create
Created(name, ip, count) ==
    [id |-> nextId, name |-> name, ip |-> ip, count |-> count,
     state |-> IF count > 0 THEN "online" ELSE "offline"]

Clash(c, name, ip) == c.name = name \/ c.ip = ip

Row(c) == [id |-> c.id, name |-> c.name, ip |-> c.ip, state |-> c.state]

\* fill_data: every row is written again.
FillData ==
    /\ rows' = [k \in 1..Len(data') |-> Row(data'[k])]
    /\ overwritten' = {}

PushBackKeepsId(name, ip, count) ==
    LET taken == \E k \in 1..Len(data) : Clash(data[k], name, ip)
    IN  /\ data' = IF taken THEN data ELSE Append(data, Created(name, ip, count))
        /\ nextId < MaxId
        /\ nextId' = nextId
        /\ refused' = (refused \/ taken)

\* push_back is refused silently when the name or the address is there; the id that
\* Create took from the counter is gone.
PushBack(name, ip, count) ==
    LET taken == \E k \in 1..Len(data) : Clash(data[k], name, ip)
    IN  /\ data' = IF taken THEN data ELSE Append(data, Created(name, ip, count))
        /\ nextId < MaxId
        /\ nextId' = nextId + 1
        /\ refused' = (refused \/ taken)

ReplacedUnchecked(pos, c) == [data EXCEPT ![pos] = c]

\* replace of the Client at a position, refused when another has its name or address.
Replaced(pos, c) ==
    IF \E k \in 1..Len(data) : k # pos /\ Clash(data[k], c.name, c.ip)
    THEN data
    ELSE [data EXCEPT ![pos] = c]

\* update_state writes the state of data[id] into the row of that id.
UpdateState(id) ==
    rows' = [k \in 1..Len(rows) |->
                IF rows[k].id = id THEN [rows[k] EXCEPT !.state = data'[id + 1].state]
                                   ELSE rows[k]]

\* The assertion at the head of update_state.
Updatable(id) == id < Len(rows)

-----------------------------------------------------------------------------
(* The process *)

\* The memory of the process is gone; what it sent is not.
Forget ==
    /\ data' = <<>>
    /\ nextId' = 0
    /\ rows' = <<>>
    /\ deletings' = {}
    /\ gui' = Idle
    /\ upd' = Idle

\* The constructor and Init: _Load gives ids in the order of the file, and each
\* computer is sent its index.
Start ==
    /\ mode = "off"
    /\ Len(db) <= MaxId
    /\ mode' = "run"
    /\ data' = [k \in 1..Len(db) |-> [id |-> k - 1, name |-> db[k].name, ip |-> db[k].ip,
                                      state |-> "offline", count |-> 0]]
    /\ nextId' = Len(db)
    /\ FillData
    /\ sent' = {[cmd |-> "HELLO", id |-> k - 1, ip |-> db[k].ip] : k \in 1..Len(db)}
    /\ refused' = FALSE
    /\ erased' = FALSE
    /\ UNCHANGED <<db, deletings, threadVars>>

\* The process is killed, or the computer loses its power.
Crash ==
    /\ mode # "off"
    /\ mode' = "off"
    /\ Forget
    /\ refused' = FALSE
    /\ overwritten' = {}
    /\ erased' = FALSE
    /\ sent' = {}
    /\ UNCHANGED db

\* An assertion fails, or data[] is used beyond its end: taken as the end of the process.
Abort ==
    /\ mode' = "aborted"
    /\ Forget
    /\ sent' = {}
    /\ UNCHANGED <<db, historyVars>>

-----------------------------------------------------------------------------
(* The GUI thread *)

GuiReady == mode = "run" /\ gui = Idle

\* m_OnAddClient, when its dialog is confirmed; m_OnImport adds a fixed Client so.
AddClient(name, ip) ==
    /\ GuiReady
    /\ PushBack(name, ip, 0)
    /\ FillData
    /\ sent' = {}
    /\ UNCHANGED <<mode, db, deletings, threadVars, erased>>

\* m_ListColClick: the list is filled in another order.
SortBy ==
    /\ GuiReady
    /\ UNCHANGED <<mode, db, data, nextId, deletings, threadVars, refused, erased>>
    /\ FillData
    /\ sent' = {}

\* m_deleteOnMenuSelection on one row: the mark is set or taken away.
ToggleDelete(k) ==
    /\ GuiReady
    /\ k \in 1..Len(rows)
    /\ deletings' = IF rows[k].id \in deletings THEN deletings \ {rows[k].id}
                                                ELSE deletings \cup {rows[k].id}
    /\ UNCHANGED <<mode, db, data, nextId, threadVars, refused, erased>>
    /\ FillData
    /\ sent' = {}

\* m_modifyOnMenuSelection up to the copy of data[id] with the new name and address.
ModifyRead(k, name, ip) ==
    /\ GuiReady
    /\ k \in 1..Len(rows)
    /\ rows[k].id < Len(data)
    /\ gui' = [op |-> "modify", pos |-> rows[k].id + 1,
               copy |-> [data[rows[k].id + 1] EXCEPT !.name = name, !.ip = ip]]
    /\ sent' = {}
    /\ UNCHANGED <<mode, db, dataVars, deletings, upd, historyVars>>

ModifyWrite ==
    /\ gui.op = "modify"
    /\ data' = Replaced(gui.pos, gui.copy)
    /\ FillData
    /\ gui' = Idle
    /\ sent' = {}
    /\ UNCHANGED <<mode, db, nextId, deletings, upd, refused, erased>>

\* The menu's view, control, shutdown and message: a command to the address of data[id].
Use(k) ==
    /\ GuiReady
    /\ k \in 1..Len(rows)
    /\ rows[k].id < Len(data)
    /\ sent' = {[cmd |-> "MENU", id |-> rows[k].id, ip |-> data[rows[k].id + 1].ip]}
    /\ UNCHANGED <<mode, db, dataVars, deletings, threadVars, historyVars>>

\* Every action of the menu on a row uses data[id].
UseOutOfRange(k) ==
    /\ GuiReady
    /\ k \in 1..Len(rows)
    /\ rows[k].id >= Len(data)
    /\ Abort

At(pos) == [op |-> "timer", pos |-> pos, copy |-> data'[pos]]

\* OnTimer: the loop over the container begins with a copy of its first Client.
TimerRead ==
    /\ GuiReady
    /\ data # <<>>
    /\ UNCHANGED <<mode, db, dataVars, deletings, upd, historyVars>>
    /\ gui' = At(1)
    /\ sent' = {}

Ticked(c) == [c EXCEPT !.count = @ - 1, !.state = IF c.count = 1 THEN "offline" ELSE @]

TimerStopsAtFirst == gui' = Idle

TimerLoops == gui' = IF gui.pos < Len(data) THEN At(gui.pos + 1) ELSE Idle

TimerWriteBelowZero ==
    /\ gui.op = "timer"
    /\ data' = Replaced(gui.pos, Ticked(gui.copy))
    /\ IF gui.copy.count = 1
       THEN Updatable(gui.copy.id) /\ UpdateState(gui.copy.id)
       ELSE UNCHANGED rows
    /\ TimerLoops
    /\ sent' = {}
    /\ UNCHANGED <<mode, db, nextId, deletings, upd, historyVars>>

TimerWriteSilently ==
    /\ gui.op = "timer"
    /\ data' = IF gui.copy.count = 0 THEN data ELSE Replaced(gui.pos, Ticked(gui.copy))
    /\ UNCHANGED rows
    /\ TimerLoops
    /\ sent' = {}
    /\ UNCHANGED <<mode, db, nextId, deletings, upd, historyVars>>

\* The body of the loop: the copy is written back with a second less, and the list is
\* told of a Client that is lost; then the next Client is copied.
TimerWrite ==
    /\ gui.op = "timer"
    /\ data' = IF gui.copy.count = 0 THEN data ELSE Replaced(gui.pos, Ticked(gui.copy))
    /\ IF gui.copy.count = 1
       THEN Updatable(gui.copy.id) /\ UpdateState(gui.copy.id)
       ELSE UNCHANGED rows
    /\ TimerLoops
    /\ sent' = {}
    /\ UNCHANGED <<mode, db, nextId, deletings, upd, historyVars>>

TimerAborts ==
    /\ gui.op = "timer"
    /\ gui.copy.count = 1
    /\ ~Updatable(gui.copy.id)
    /\ Abort

-----------------------------------------------------------------------------
(* The update thread: update, and upstate for what it understands *)

UpdReady == mode = "run" /\ upd = Idle

\* A packet of one word: update asserts that it has two.
OneWord ==
    /\ UpdReady
    /\ mode' = "misread"
    /\ Forget
    /\ sent' = {}
    /\ UNCHANGED <<db, historyVars>>

\* An id that is not a number: update returns, and no packet is read any more.
NoNumber ==
    /\ UpdReady
    /\ upd' = [op |-> "ended"]
    /\ sent' = {}
    /\ UNCHANGED <<mode, db, dataVars, deletings, gui, historyVars>>

DiscoverKnownByPosition(k) ==
    /\ UpdReady
    /\ k \in 1..Len(data)
    /\ sent' = {[cmd |-> "HELLO", id |-> k, ip |-> data[k].ip]}
    /\ UNCHANGED <<mode, db, dataVars, deletings, threadVars, historyVars>>

\* The id -1 from an address of the container: HELLO with the id of its Client.
DiscoverKnown(k) ==
    /\ UpdReady
    /\ k \in 1..Len(data)
    /\ sent' = {[cmd |-> "HELLO", id |-> data[k].id, ip |-> data[k].ip]}
    /\ UNCHANGED <<mode, db, dataVars, deletings, threadVars, historyVars>>

\* The id -1 from any other address: the search has ended, and the insertion waits for
\* the GUI.
DiscoverNew(ip, name) ==
    /\ UpdReady
    /\ \A k \in 1..Len(data) : data[k].ip # ip
    /\ upd' = [op |-> "add", name |-> name, ip |-> ip]
    /\ sent' = {}
    /\ UNCHANGED <<mode, db, dataVars, deletings, gui, historyVars>>

\* The GUI gives way: the endpoint is inserted and shown.  HELLO carries the id of the
\* packet, which is still -1.
AddDiscovered ==
    /\ GuiReady
    /\ upd.op = "add"
    /\ PushBack(upd.name, upd.ip, NewCount)
    /\ FillData
    /\ sent' = {[cmd |-> "HELLO", id |-> NoId, ip |-> upd.ip]}
    /\ upd' = Idle
    /\ UNCHANGED <<mode, db, deletings, gui, erased>>

\* An id beyond the container: BYE, so that the agent announces itself again.
UnknownBeat(ip, id) ==
    /\ UpdReady
    /\ id >= Len(data)
    /\ sent' = {[cmd |-> "BYE", id |-> id, ip |-> ip]}
    /\ UNCHANGED <<mode, db, dataVars, deletings, threadVars, historyVars>>

\* Any other id is an index, whatever address it comes from: data[id] is copied.
BeatRead(id) ==
    /\ UpdReady
    /\ id < Len(data)
    /\ upd' = [op |-> "beat", pos |-> id + 1, copy |-> data[id + 1]]
    /\ sent' = {}
    /\ UNCHANGED <<mode, db, dataVars, deletings, gui, historyVars>>

Beaten(c) == [c EXCEPT !.count = BeatCount, !.state = "online"]

\* The copy is written back; the list is told only if the copy was not counting.
BeatWrite ==
    /\ upd.op = "beat"
    /\ data' = Replaced(upd.pos, Beaten(upd.copy))
    /\ IF upd.copy.count = 0
       THEN Updatable(upd.copy.id) /\ UpdateState(upd.copy.id)
       ELSE UNCHANGED rows
    /\ overwritten' = IF data[upd.pos] = upd.copy THEN overwritten
                                                  ELSE overwritten \cup {upd.pos}
    /\ upd' = Idle
    /\ sent' = {}
    /\ UNCHANGED <<mode, db, nextId, deletings, gui, refused, erased>>

BeatAborts ==
    /\ upd.op = "beat"
    /\ upd.copy.count = 0
    /\ ~Updatable(upd.copy.id)
    /\ Abort

-----------------------------------------------------------------------------
(* The destructor of the frame, while the other thread is taken to be silent *)

Close ==
    /\ GuiReady
    /\ mode' = "closing"
    /\ upd' = Idle
    /\ sent' = {}
    /\ UNCHANGED <<db, dataVars, deletings, gui, historyVars>>

\* The marks are taken in ascending order, each as an index.
NextMark(i) == i \in deletings /\ \A j \in deletings : i <= j

EraseOffByOne(i) ==
    /\ mode = "closing"
    /\ NextMark(i)
    /\ i < Len(data)
    /\ data' = [k \in 1..(Len(data) - 1) |-> IF k < i THEN data[k] ELSE data[k + 1]]
    /\ deletings' = deletings \ {i}
    /\ erased' = TRUE
    /\ sent' = {}
    /\ UNCHANGED <<mode, db, nextId, rows, threadVars, refused, overwritten>>

Erase(i) ==
    /\ mode = "closing"
    /\ NextMark(i)
    /\ i < Len(data)
    /\ data' = [k \in 1..(Len(data) - 1) |-> IF k <= i THEN data[k] ELSE data[k + 1]]
    /\ deletings' = deletings \ {i}
    /\ erased' = TRUE
    /\ sent' = {}
    /\ UNCHANGED <<mode, db, nextId, rows, threadVars, refused, overwritten>>

EraseAborts(i) ==
    /\ mode = "closing"
    /\ NextMark(i)
    /\ i >= Len(data)
    /\ Abort

InFile == [k \in 1..Len(data) |-> [name |-> data[k].name, ip |-> data[k].ip]]

\* _Save opens the file, which empties it, and writes: until it is closed the first so many
\* Clients are in it.
OpenFile(written) ==
    /\ mode = "closing"
    /\ deletings = {}
    /\ mode' = "saving"
    /\ db' = SubSeq(InFile, 1, written)
    /\ sent' = {}
    /\ UNCHANGED <<dataVars, deletings, threadVars, historyVars>>

Exit ==
    /\ mode' = "off"
    /\ Forget
    /\ refused' = FALSE
    /\ overwritten' = {}
    /\ erased' = FALSE

\* Each Client was written through serialize, which sets its count to 0: the loop over
\* those that still count finds none to say BYE to.
Save ==
    /\ mode = "saving"
    /\ Exit
    /\ db' = InFile
    /\ sent' = {}

\* When the file cannot be opened the counts are as they were.
SaveFails ==
    /\ mode = "closing"
    /\ deletings = {}
    /\ Exit
    /\ sent' = {[cmd |-> "BYE", id |-> k - 1, ip |-> data[k].ip] :
                   k \in {j \in 1..Len(data) : data[j].count > 0}}
    /\ UNCHANGED db

-----------------------------------------------------------------------------

Init ==
    /\ mode = "off"
    /\ db = <<>>
    /\ data = <<>>
    /\ nextId = 0
    /\ rows = <<>>
    /\ deletings = {}
    /\ gui = Idle
    /\ upd = Idle
    /\ sent = {}
    /\ refused = FALSE
    /\ overwritten = {}
    /\ erased = FALSE

User ==
    \/ \E name \in Name, ip \in Ip : AddClient(name, ip)
    \/ SortBy
    \/ \E k \in 1..Len(rows) : ToggleDelete(k)
    \/ \E k \in 1..Len(rows), name \in Name, ip \in Ip : ModifyRead(k, name, ip)
    \/ \E k \in 1..Len(rows) : Use(k) \/ UseOutOfRange(k)
    \/ Close

Timer == TimerRead \/ TimerWrite \/ TimerAborts

Packet ==
    \/ \E k \in 1..Len(data) : DiscoverKnown(k)
    \/ \E ip \in Ip, name \in Name : DiscoverNew(ip, name)
    \/ \E ip \in Ip, id \in Ids : UnknownBeat(ip, id)
    \/ \E id \in Ids : BeatRead(id)
    \/ OneWord
    \/ NoNumber

Upstate == AddDiscovered \/ BeatWrite \/ BeatAborts

Destructor ==
    \/ \E i \in Ids : Erase(i) \/ EraseAborts(i)
    \/ \E written \in 0..Len(data) : OpenFile(written)
    \/ Save
    \/ SaveFails

Next == Start \/ Crash \/ User \/ ModifyWrite \/ Timer \/ Packet \/ Upstate \/ Destructor

SafeSpec == Init /\ [][Next]_vars

\* The GUI thread ends what it has begun and handles its timer's events in turn with
\* the user's.
Fairness == WF_vars(ModifyWrite) /\ SF_vars(Timer)

Spec == SafeSpec /\ Fairness

-----------------------------------------------------------------------------
(* Properties *)

\* Every id is the index of its Client, on which each data[id] of client.cpp rests
\* (client.cpp:245, 271, 401), as long as no insertion has been refused: discoveries,
\* the dialog and changes of both threads included.
IdsAreIndices ==
    mode = "run" /\ ~refused => \A k \in 1..Len(data) : data[k].id = k - 1

\* A row says of the Client that its menu acts on what is so (client.cpp:209-215,
\* 448-452), unless the update thread has written an old copy back over that Client,
\* or an insertion has been refused.
RowsAreTrue ==
    mode = "run" /\ ~refused =>
        \A k \in 1..Len(rows) :
            k \notin overwritten => rows[k] = Row(data[rows[k].id + 1])

\* But for the assertion that a packet has two words (client/cmd.cpp:164), which any
\* packet of one fails, and after which mode is "misread": no assertion on an index
\* (client.cpp:210, 401, 446) fails and no index is out of range, unless an insertion has
\* been refused or the destructor has erased one Client already.
AbortsAreExplained == mode = "aborted" => refused \/ erased

\* What a command is to its receiver: BYE, for an id of no Client, which sends the agent
\* back to discovery (client.cpp:391-397); the id of the Client at whose address the agent
\* is and which the row of that id shows, so that its heartbeats find it by data[id] and
\* the menu reaches what it shows (client.cpp:90, 245, 271, 288, 389, 401); or the HELLO
\* with -1 to the one that has just been inserted (client.cpp:381-389).  That one names
\* no Client: the agent takes it for 1 (server/cmd.cpp:229-245), the index of another.
CommandsNameTheirClient ==
    mode = "run" /\ ~refused =>
        \A c \in sent :
            \/ c.cmd = "BYE" /\ c.id >= Len(data)
            \/ c.cmd = "HELLO" /\ c.id = NoId /\ data # <<>> /\ data[Len(data)].ip = c.ip
            \/ /\ c.id \in 0..(Len(data) - 1) /\ data[c.id + 1].ip = c.ip
               /\ c.id + 1 \notin overwritten => rows[c.id + 1].ip = c.ip

\* What is in data.db can be read again: no two have a name or an address in common, not in
\* the part that is there when the process dies while it writes (contianer.hpp:75-77),
\* though both threads write old copies back and the dialog and the
\* discoveries add what they like.  So _Load inserts every one and the ids it gives are the
\* indices with which the constructor greets them (client.cpp:78-91, 103-114).
SavedAreDistinct ==
    \A j, k \in 1..Len(db) : Clash(db[j], db[k].name, db[k].ip) => j = k

HasId(d, i) == \E k \in 1..Len(d) : d[k].id = i

\* The destructor's first erasure takes the Client that was marked and no other
\* (client.cpp:99-101), whatever was inserted, discovered and re-addressed before;
\* for a second one the indices have moved.
FirstErasureIsRight ==
    [][mode = "closing" /\ mode' = "closing" /\ ~erased /\ ~refused =>
        \A i \in Ids : HasId(data', i) <=> HasId(data, i) /\ ~NextMark(i)]_vars

\* A computer that no heartbeat names any more is shown as lost (client.cpp:423-438),
\* however the two threads race, if the program goes on running.
SilentIsShownLost ==
    \A i \in Ids :
        <>[](mode = "run" /\ ~refused /\ (upd.op = "beat" => upd.pos # i + 1)) =>
            <>[](i < Len(data) => data[i + 1].state = "offline" /\ rows[i + 1].state = "offline")
=============================================================================
