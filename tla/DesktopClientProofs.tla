------------------------- MODULE DesktopClientProofs -------------------------
(***************************************************************************)
(* Proofs about DesktopClient, for any number of names, addresses and ids  *)
(* and any seconds: the types, that ids are indices, that the list tells   *)
(* the truth, and what must have gone before an abort and what the first   *)
(* erasure takes.  The liveness property stays with TLC.                   *)
(***************************************************************************)
EXTENDS DesktopClient, TLAPS

\* What there is in each stage of the process.
Stages ==
    /\ mode \in {"off", "aborted", "misread"} =>
           data = <<>> /\ nextId = 0 /\ rows = <<>> /\ deletings = {}
    /\ mode # "run" => gui = Idle /\ upd = Idle
    /\ mode = "run" => ~erased /\ Len(rows) = Len(data)
    /\ mode = "off" => ~refused /\ ~erased

\* The copies that the threads hold are of positions in the container.
Placed ==
    /\ gui # Idle => gui.pos <= Len(data)
    /\ upd.op = "beat" => upd.pos <= Len(data)

\* Every id in sight is the index of a Client, and the counter is their number.
Numbered ==
    ~refused /\ ~erased =>
        /\ nextId = Len(data)
        /\ \A k \in 1..Len(data) : data[k].id = k - 1
        /\ mode = "run" => \A k \in 1..Len(rows) : rows[k].id = k - 1
        /\ gui # Idle => gui.copy.id = gui.pos - 1
        /\ upd.op = "beat" => upd.copy.id = upd.pos - 1
        /\ \A i \in deletings : i < Len(data)

\* A Client that counts is online, and so is a copy of it.
Lit(c) == c.count > 0 => c.state = "online"

AllLit ==
    /\ \A k \in 1..Len(data) : Lit(data[k])
    /\ gui # Idle => Lit(gui.copy)
    /\ upd.op = "beat" => Lit(upd.copy)

\* The timer's copy differs from its Client in the seconds only, unless it has been
\* written back from an older one since; what counts in the copy has not been lost.
TimerCopyIsClose ==
    gui.op = "timer" /\ gui.pos \notin overwritten =>
        /\ gui.copy.name = data[gui.pos].name
        /\ gui.copy.ip = data[gui.pos].ip
        /\ gui.copy.count > 0 => data[gui.pos].state = "online"

\* RowsAreTrue, by positions.
RowsAreRows ==
    mode = "run" /\ ~refused =>
        \A k \in 1..Len(data) : k \notin overwritten => rows[k] = Row(data[k])

IInv ==
    /\ TypeOK
    /\ Stages
    /\ Placed
    /\ Numbered
    /\ AllLit
    /\ TimerCopyIsClose
    /\ RowsAreRows
    /\ AbortsAreExplained

-----------------------------------------------------------------------------
(* The container and the list *)

\* What the GUI thread is amid has a place and a copy.
LEMMA GuiForms ==
    ASSUME gui \in GuiJobs
    PROVE  /\ gui = Idle <=> gui.op = "idle"
           /\ gui # Idle => /\ gui.op \in {"timer", "modify"}
                            /\ gui.pos \in Nat \ {0}
                            /\ gui.copy \in Clients
<1> QED  BY DEF GuiJobs, Idle

\* So has what the update thread is amid.
LEMMA UpdForms ==
    ASSUME upd \in UpdJobs
    PROVE  /\ upd = Idle <=> upd.op = "idle"
           /\ upd.op = "beat" => upd.pos \in Nat \ {0} /\ upd.copy \in Clients
           /\ upd.op = "add" => upd.name \in Name /\ upd.ip \in Ip
           /\ upd # Idle => upd.op \in {"add", "beat", "ended"}
<1> QED  BY DEF UpdJobs, Idle

\* What a thread may be amid.
LEMMA JobForms ==
    ASSUME NEW pos \in Nat \ {0}, NEW c \in Clients
    PROVE  /\ \A op \in {"timer", "modify"} :
                  LET job == [op |-> op, pos |-> pos, copy |-> c]
                  IN  job \in GuiJobs /\ job.pos = pos /\ job.copy = c
           /\ [op |-> "beat", pos |-> pos, copy |-> c] \in UpdJobs
<1> QED  BY DEF GuiJobs, UpdJobs

\* A Client and its row, field by field.
LEMMA ClientFacts ==
    ASSUME NEW c \in Clients
    PROVE  /\ c.id \in Ids /\ c.name \in Name /\ c.ip \in Ip
           /\ c.state \in States /\ c.count \in Counts
           /\ Row(c) \in Rows
           /\ Row(c).id = c.id /\ Row(c).name = c.name /\ Row(c).ip = c.ip
           /\ Row(c).state = c.state
<1> QED  BY DEF Clients, Row, Rows

\* A row with another state.
LEMMA RowFacts ==
    ASSUME NEW r \in Rows, NEW s \in States
    PROVE  /\ [r EXCEPT !.state = s] \in Rows
           /\ [r EXCEPT !.state = s]
                = [id |-> r.id, name |-> r.name, ip |-> r.ip, state |-> s]
<1> QED  BY DEF Rows

\* replace changes one position or none (contianer.hpp:55-64).
LEMMA ReplacedFacts ==
    ASSUME data \in Seq(Clients), NEW pos \in 1..Len(data), NEW c \in Clients
    PROVE  /\ Replaced(pos, c) \in Seq(Clients)
           /\ Len(Replaced(pos, c)) = Len(data)
           /\ \A k \in 1..Len(data) : k # pos => Replaced(pos, c)[k] = data[k]
           /\ Replaced(pos, c)[pos] \in {data[pos], c}
<1>1. CASE Replaced(pos, c) = data  BY <1>1
<1>2. CASE Replaced(pos, c) = [data EXCEPT ![pos] = c]  BY <1>2
<1> QED  BY <1>1, <1>2 DEF Replaced

\* push_back appends a Client with the next id, or refuses it and the id is gone
\* (client.cpp:229, 384).
LEMMA PushBackFacts ==
    ASSUME data \in Seq(Clients), nextId \in 0..MaxId, refused \in BOOLEAN,
           NEW name \in Name, NEW ip \in Ip, NEW count \in {0, NewCount},
           PushBack(name, ip, count)
    PROVE  /\ data' \in Seq(Clients)
           /\ nextId' \in 0..MaxId /\ nextId' = nextId + 1
           /\ refused' \in BOOLEAN /\ (refused => refused')
           /\ Len(data') \in {Len(data), Len(data) + 1}
           /\ \A k \in 1..Len(data) : data'[k] = data[k]
           /\ ~refused' => /\ Len(data') = Len(data) + 1
                           /\ data'[Len(data) + 1].id = nextId
           /\ \A k \in 1..Len(data') : k \in 1..Len(data) \/ Lit(data'[k])
<1>1. Created(name, ip, count) \in Clients /\ Created(name, ip, count).id = nextId
  <2>1. count \in Counts  BY CountAssumption DEF Counts
  <2>2. nextId \in Ids  BY MaxIdAssumption DEF PushBack, Ids
  <2> QED  BY <2>1, <2>2 DEF Created, Clients, States
<1>2. Lit(Created(name, ip, count))  BY CountAssumption DEF Created, Lit
<1>3. nextId' \in 0..MaxId /\ nextId' = nextId + 1  BY MaxIdAssumption DEF PushBack
<1>4. CASE \E k \in 1..Len(data) : Clash(data[k], name, ip)
  BY <1>3, <1>4 DEF PushBack
<1>5. CASE ~\E k \in 1..Len(data) : Clash(data[k], name, ip)
  <2>1. data' = Append(data, Created(name, ip, count)) /\ refused' = refused
    BY <1>5 DEF PushBack
  <2> QED  BY <1>1, <1>2, <1>3, <2>1
<1> QED  BY <1>4, <1>5

\* What _Save writes, and the part of it that is there while it writes
\* (contianer.hpp:67-79).
LEMMA InFileFacts ==
    ASSUME data \in Seq(Clients)
    PROVE  /\ InFile \in Seq(Saved) /\ Len(InFile) = Len(data)
           /\ \A k \in 1..Len(data) : InFile[k].name = data[k].name /\ InFile[k].ip = data[k].ip
           /\ \A written \in 0..Len(data) :
                 /\ SubSeq(InFile, 1, written) \in Seq(Saved)
                 /\ Len(SubSeq(InFile, 1, written)) = written
                 /\ \A k \in 1..written : SubSeq(InFile, 1, written)[k] = InFile[k]
<1> DEFINE V(k) == [name |-> data[k].name, ip |-> data[k].ip]
<1>1. Len(data) \in Nat /\ InFile = [k \in 1..Len(data) |-> V(k)]  BY DEF InFile
<1>2. \A k \in 1..Len(data) : V(k) \in Saved /\ V(k).name = data[k].name /\ V(k).ip = data[k].ip
  BY ClientFacts DEF Saved
<1> HIDE DEF V
<1>3. InFile \in Seq(Saved) /\ Len(InFile) = Len(data)  BY <1>1, <1>2
<1>4. \A k \in 1..Len(data) : InFile[k].name = data[k].name /\ InFile[k].ip = data[k].ip
  BY <1>1, <1>2
<1>5. ASSUME NEW written \in 0..Len(data)
      PROVE  /\ SubSeq(InFile, 1, written) \in Seq(Saved)
             /\ Len(SubSeq(InFile, 1, written)) = written
             /\ \A k \in 1..written : SubSeq(InFile, 1, written)[k] = InFile[k]
  <2>1. \A k \in 1..written : InFile[k] \in Saved  BY <1>1, <1>3
  <2> QED  BY <1>1, <1>3, <2>1
<1> QED  BY <1>3, <1>4, <1>5

\* A full list shows every Client as it is (client.cpp:182-224).
LEMMA FillFacts ==
    ASSUME data' \in Seq(Clients), FillData
    PROVE  /\ rows' \in Seq(Rows)
           /\ Len(rows') = Len(data')
           /\ \A k \in 1..Len(data') : rows'[k] = Row(data'[k]) /\ rows'[k].id = data'[k].id
           /\ overwritten' = {}
<1>1. \A k \in 1..Len(data') : Row(data'[k]) \in Rows /\ Row(data'[k]).id = data'[k].id
  BY ClientFacts
<1>2. rows' = [k \in 1..Len(data') |-> Row(data'[k])] /\ overwritten' = {}
  BY DEF FillData
<1>3. Len(data') \in Nat  OBVIOUS
<1>4. rows' \in Seq(Rows) /\ Len(rows') = Len(data')  BY <1>1, <1>2, <1>3
<1> QED  BY <1>1, <1>2, <1>4

\* update_state changes states only, in the rows of one id (client.cpp:440-454).
LEMMA UpdateFacts ==
    ASSUME data' \in Seq(Clients), rows \in Seq(Rows), NEW id \in Ids, id < Len(data'),
           UpdateState(id)
    PROVE  /\ rows' \in Seq(Rows)
           /\ Len(rows') = Len(rows)
           /\ \A k \in 1..Len(rows) :
                 /\ rows'[k].id = rows[k].id
                 /\ rows[k].id # id => rows'[k] = rows[k]
                 /\ rows[k].id = id =>
                        rows'[k] = [id |-> id, name |-> rows[k].name, ip |-> rows[k].ip,
                                    state |-> data'[id + 1].state]
<1>1. data'[id + 1].state \in States  BY ClientFacts DEF Ids
<1>2. \A k \in 1..Len(rows) :
         /\ [rows[k] EXCEPT !.state = data'[id + 1].state] \in Rows
         /\ [rows[k] EXCEPT !.state = data'[id + 1].state]
              = [id |-> rows[k].id, name |-> rows[k].name, ip |-> rows[k].ip,
                 state |-> data'[id + 1].state]
  BY <1>1, RowFacts
<1> DEFINE R(k) == IF rows[k].id = id THEN [rows[k] EXCEPT !.state = data'[id + 1].state]
                                      ELSE rows[k]
<1>3. ASSUME NEW k \in 1..Len(rows) PROVE R(k) \in Rows
  <2>1. CASE rows[k].id = id
    <3>1. R(k) = [rows[k] EXCEPT !.state = data'[id + 1].state]  BY <2>1, Zenon
    <3> QED  BY <3>1, <1>2
  <2>2. CASE rows[k].id # id
    <3>1. R(k) = rows[k]  BY <2>2, Zenon
    <3> QED  BY <3>1
  <2> QED  BY <2>1, <2>2
<1>4. rows' = [k \in 1..Len(rows) |-> R(k)]  BY Zenon DEF UpdateState
<1>5. rows' \in Seq(Rows) /\ Len(rows') = Len(rows)
  <2> HIDE DEF R
  <2> QED  BY <1>3, <1>4
<1> QED  BY <1>2, <1>4, <1>5

-----------------------------------------------------------------------------
(* Steps of a kind *)

\* A step of the GUI that fills the list leaves the invariant when the container does.
LEMMA FillStep ==
    ASSUME IInv, mode = "run", mode' = "run", db' = db, erased' = erased,
           gui' = Idle, upd' \in {upd, Idle}, FillData, sent' \in SUBSET Commands,
           data' \in Seq(Clients), Len(data) <= Len(data'),
           nextId' \in 0..MaxId, refused' \in BOOLEAN, refused => refused',
           deletings' \in SUBSET Ids,
           ~refused' => /\ nextId' = Len(data')
                        /\ \A k \in 1..Len(data') : data'[k].id = k - 1
                        /\ \A i \in deletings' : i < Len(data'),
           \A k \in 1..Len(data') : Lit(data'[k])
    PROVE  IInv'
<1> USE DEF IInv
<1>1. TypeOK'
  <2>1. gui' \in GuiJobs /\ upd' \in UpdJobs  BY DEF TypeOK, GuiJobs, UpdJobs
  <2>2. rows' \in Seq(Rows) /\ overwritten' = {}  BY FillFacts
  <2> QED  BY <2>1, <2>2 DEF TypeOK
<1>2. gui'.op = "idle" /\ Idle.op = "idle"  BY DEF Idle
<1>3. Stages' /\ Placed'
  <2>1. Len(rows') = Len(data')  BY FillFacts
  <2>2. upd'.op = "beat" => upd' = upd  BY <1>2
  <2>3. upd.op = "beat" => upd.pos \in Nat  BY UpdForms DEF TypeOK
  <2>4. Len(data) \in Nat /\ Len(data') \in Nat  BY DEF TypeOK
  <2> QED  BY <2>1, <2>2, <2>3, <2>4 DEF Stages, Placed
<1>4. Numbered'
  <2>1. Len(rows') = Len(data') /\ \A k \in 1..Len(data') : rows'[k].id = data'[k].id
    BY FillFacts
  <2>2. upd'.op = "beat" => upd' = upd  BY <1>2
  <2> QED  BY <2>1, <2>2 DEF Numbered
<1>5. AllLit' /\ TimerCopyIsClose'
  <2>1. upd'.op = "beat" => upd' = upd  BY <1>2
  <2> QED  BY <1>2, <2>1 DEF AllLit, TimerCopyIsClose
<1>6. RowsAreRows' /\ AbortsAreExplained'
  BY FillFacts DEF RowsAreRows, AbortsAreExplained
<1> QED  BY <1>1, <1>3, <1>4, <1>5, <1>6

\* A step that only takes a copy, or sends, leaves the invariant when the copy fits.
LEMMA CopyStep ==
    ASSUME IInv, mode = "run",
           UNCHANGED <<mode, db, dataVars, deletings, historyVars>>,
           sent' \in SUBSET Commands, gui' \in GuiJobs, upd' \in UpdJobs,
           \/ gui' = gui
           \/ /\ gui'.pos <= Len(data)
              /\ Lit(gui'.copy)
              /\ ~refused => gui'.copy.id = gui'.pos - 1
              /\ gui'.op = "timer" => gui'.copy = data[gui'.pos],
           \/ upd' = upd
           \/ upd'.op # "beat"
           \/ /\ upd'.pos <= Len(data)
              /\ Lit(upd'.copy)
              /\ ~refused => upd'.copy.id = upd'.pos - 1
    PROVE  IInv'
<1> USE DEF IInv, dataVars, historyVars
<1>1. TypeOK'  BY DEF TypeOK
<1>2. Stages' /\ Placed'  BY DEF Stages, Placed
<1>3. Numbered'  BY DEF Numbered
<1>4. AllLit'  BY DEF AllLit
<1>5. TimerCopyIsClose'
  <2>1. CASE gui' = gui  BY <2>1 DEF TimerCopyIsClose
  <2>2. CASE gui'.op # "timer"  BY <2>2 DEF TimerCopyIsClose
  <2>3. CASE gui'.op = "timer" /\ gui' # gui
    <3>1. gui'.copy = data[gui'.pos] /\ Lit(gui'.copy)  BY <2>3
    <3> QED  BY <3>1 DEF TimerCopyIsClose, Lit
  <2> QED  BY <2>1, <2>2, <2>3
<1>6. RowsAreRows' /\ AbortsAreExplained'  BY DEF RowsAreRows, AbortsAreExplained
<1> QED  BY <1>1, <1>2, <1>3, <1>4, <1>5, <1>6

\* The memory that is gone has nothing that could be wrong.
LEMMA ForgetStep ==
    ASSUME IInv, Forget, mode' \in {"off", "aborted", "misread"}, sent' \in SUBSET Commands,
           db' \in Seq(Saved),
           refused' \in BOOLEAN, erased' \in BOOLEAN, overwritten' \in SUBSET (Nat \ {0}),
           mode' = "off" => ~refused' /\ ~erased',
           mode' = "aborted" => refused' \/ erased'
    PROVE  IInv'
<1> USE DEF IInv
<1>1. TypeOK'
  <2>1. gui' \in GuiJobs /\ upd' \in UpdJobs  BY DEF Forget, GuiJobs, UpdJobs
  <2>2. nextId' \in 0..MaxId  BY MaxIdAssumption DEF Forget
  <2>3. data' \in Seq(Clients) /\ rows' \in Seq(Rows)  BY DEF Forget
  <2>4. deletings' \in SUBSET Ids  BY DEF Forget
  <2> QED  BY <2>1, <2>2, <2>3, <2>4 DEF TypeOK
<1>2. gui' = Idle /\ upd' = Idle /\ Idle.op = "idle" /\ Len(data') = 0 /\ Len(rows') = 0
  BY DEF Forget, Idle
<1>3. Stages' /\ Placed'  BY <1>2 DEF Stages, Placed, Forget
<1>4. Numbered' /\ AllLit'  BY <1>2 DEF Numbered, AllLit, Forget
<1>5. TimerCopyIsClose' /\ RowsAreRows'  BY <1>2 DEF TimerCopyIsClose, RowsAreRows
<1>6. AbortsAreExplained'  BY DEF AbortsAreExplained
<1> QED  BY <1>1, <1>3, <1>4, <1>5, <1>6

\* An abort that is explained leaves the invariant.
LEMMA AbortStep ==
    ASSUME IInv, Abort, refused \/ erased
    PROVE  IInv'
<1>1. /\ Forget /\ mode' = "aborted" /\ sent' \in SUBSET Commands
      /\ refused' = refused /\ erased' = erased /\ overwritten' = overwritten
      /\ db' = db
  BY DEF Abort, historyVars
<1>2. db' \in Seq(Saved) /\ refused' \in BOOLEAN /\ erased' \in BOOLEAN
      /\ overwritten' \in SUBSET (Nat \ {0})
  BY <1>1 DEF IInv, TypeOK
<1> QED  BY <1>1, <1>2, ForgetStep

-----------------------------------------------------------------------------
(* The steps *)

\* In the initial state there is nothing (client.cpp:40-45).
LEMMA InitIInv == Init => IInv
<1> SUFFICES ASSUME Init PROVE IInv  OBVIOUS
<1>1. TypeOK
  <2>1. nextId \in 0..MaxId  BY MaxIdAssumption DEF Init
  <2>2. gui \in GuiJobs /\ upd \in UpdJobs  BY DEF Init, GuiJobs, UpdJobs
  <2>3. db \in Seq(Saved) /\ data \in Seq(Clients) /\ rows \in Seq(Rows)  BY DEF Init
  <2>4. refused \in BOOLEAN /\ erased \in BOOLEAN  BY DEF Init
  <2> QED  BY <2>1, <2>2, <2>3, <2>4 DEF Init, TypeOK
<1>2. Idle.op = "idle"  BY DEF Idle
<1> QED
  BY <1>1, <1>2 DEF IInv, Init, Stages, Placed, Numbered, AllLit, TimerCopyIsClose,
                    RowsAreRows, AbortsAreExplained

\* _Load numbers the Clients of the file from 0 (client.cpp:50-93).
LEMMA StartStep == ASSUME IInv, Start PROVE IInv'
<1> DEFINE C(k) == [id |-> k - 1, name |-> db[k].name, ip |-> db[k].ip,
                    state |-> "offline", count |-> 0]
<1>1. db \in Seq(Saved) /\ Len(db) \in Nat /\ Len(db) <= MaxId  BY DEF Start, IInv, TypeOK
<1>2. ASSUME NEW k \in 1..Len(db) PROVE C(k) \in Clients
  <2>1. db[k].name \in Name /\ db[k].ip \in Ip
    <3>1. db[k] \in Saved  BY <1>1
    <3> QED  BY <3>1 DEF Saved
  <2>2. k - 1 \in Ids  BY <1>1, MaxIdAssumption DEF Ids
  <2>3. 0 \in Counts /\ "offline" \in States  BY CountAssumption DEF Counts, States
  <2> QED  BY <2>1, <2>2, <2>3 DEF Clients
<1>3. data' = [k \in 1..Len(db) |-> C(k)]  BY DEF Start
<1>4. \A k \in 1..Len(db) : C(k).id = k - 1 /\ Lit(C(k))  BY DEF Lit
<1>5. data' \in Seq(Clients) /\ Len(data') = Len(db)
  <2> HIDE DEF C
  <2> QED  BY <1>1, <1>2, <1>3
<1>6. \A k \in 1..Len(data') : data'[k].id = k - 1 /\ Lit(data'[k])
  <2> HIDE DEF C
  <2> QED  BY <1>3, <1>4, <1>5
<1> HIDE DEF C
<1>7. gui' = Idle /\ upd' = Idle /\ Idle.op = "idle" /\ deletings' = {}
  BY DEF Start, IInv, Stages, threadVars, Idle
<1>8. /\ mode' = "run" /\ db' = db /\ refused' = FALSE /\ erased' = FALSE
      /\ nextId' = Len(db) /\ FillData
  BY DEF Start
<1>9. TypeOK'
  <2>1. sent' \in SUBSET Commands
    <3>1. ASSUME NEW k \in 1..Len(db)
          PROVE  [cmd |-> "HELLO", id |-> k - 1, ip |-> db[k].ip] \in Commands
      <4>1. db[k] \in Saved  BY <1>1
      <4> QED  BY <1>1, <4>1 DEF Commands, Saved
    <3> QED  BY <3>1 DEF Start
  <2>2. gui' \in GuiJobs /\ upd' \in UpdJobs  BY <1>7 DEF GuiJobs, UpdJobs
  <2>3. rows' \in Seq(Rows) /\ overwritten' = {}  BY <1>5, <1>8, FillFacts
  <2>4. nextId' \in 0..MaxId  BY <1>1, <1>8
  <2> QED  BY <1>1, <1>5, <1>7, <1>8, <2>1, <2>2, <2>3, <2>4 DEF TypeOK
<1>10. /\ Len(rows') = Len(data')
       /\ \A k \in 1..Len(data') : rows'[k] = Row(data'[k]) /\ rows'[k].id = data'[k].id
  BY <1>5, <1>8, FillFacts
<1>11. Stages' /\ Placed'  BY <1>7, <1>8, <1>10 DEF Stages, Placed
<1>12. Numbered'  BY <1>5, <1>6, <1>7, <1>8, <1>10 DEF Numbered
<1>13. AllLit' /\ TimerCopyIsClose'  BY <1>6, <1>7 DEF AllLit, TimerCopyIsClose
<1>14. RowsAreRows' /\ AbortsAreExplained'  BY <1>8, <1>10 DEF RowsAreRows, AbortsAreExplained
<1> QED  BY <1>9, <1>11, <1>12, <1>13, <1>14 DEF IInv

\* An insertion is shown at once (client.cpp:225-233, 381-387).
LEMMA InsertStep ==
    ASSUME IInv, GuiReady, NEW name \in Name, NEW ip \in Ip, NEW count \in {0, NewCount},
           PushBack(name, ip, count), FillData, upd' \in {upd, Idle},
           sent' \in SUBSET Commands, UNCHANGED <<mode, db, deletings, gui, erased>>
    PROVE  IInv'
<1>1. /\ data \in Seq(Clients) /\ nextId \in 0..MaxId /\ refused \in BOOLEAN
      /\ deletings' \in SUBSET Ids /\ mode = "run" /\ ~erased /\ gui' = Idle
  BY DEF IInv, TypeOK, GuiReady, Stages
<1>2. /\ data' \in Seq(Clients)
      /\ nextId' \in 0..MaxId /\ nextId' = nextId + 1
      /\ refused' \in BOOLEAN /\ (refused => refused')
      /\ Len(data') \in {Len(data), Len(data) + 1}
      /\ \A k \in 1..Len(data) : data'[k] = data[k]
      /\ ~refused' => /\ Len(data') = Len(data) + 1
                      /\ data'[Len(data) + 1].id = nextId
      /\ \A k \in 1..Len(data') : k \in 1..Len(data) \/ Lit(data'[k])
  BY <1>1, PushBackFacts
<1>3. Len(data) \in Nat /\ Len(data') \in Nat  BY <1>1, <1>2
<1>4. Len(data) <= Len(data')  BY <1>2, <1>3
<1>5. \A k \in 1..Len(data') : Lit(data'[k])  BY <1>2 DEF IInv, AllLit
<1>6. ASSUME ~refused'
      PROVE  /\ nextId' = Len(data')
             /\ \A k \in 1..Len(data') : data'[k].id = k - 1
             /\ \A i \in deletings' : i < Len(data')
  <2>1. /\ nextId = Len(data)
        /\ \A k \in 1..Len(data) : data[k].id = k - 1
        /\ \A i \in deletings : i < Len(data)
    BY <1>1, <1>2, <1>6 DEF IInv, Numbered
  <2>2. \A k \in 1..Len(data') : data'[k].id = k - 1
    <3>1. \A k \in 1..Len(data') : k \in 1..Len(data) \/ k = Len(data) + 1
      BY <1>2, <1>3, <1>6
    <3> QED  BY <1>2, <1>3, <1>6, <2>1, <3>1
  <2>3. \A i \in deletings : i < Len(data')  BY <1>1, <1>2, <1>3, <1>6, <2>1 DEF Ids
  <2> QED  BY <1>2, <1>6, <2>1, <2>2, <2>3
<1> QED  BY <1>1, <1>2, <1>4, <1>5, <1>6, FillStep

\* The steps of the GUI that read, mark or change one Client (client.cpp:131-138, 295-328).
LEMMA GuiSteps ==
    ASSUME IInv,
           \/ SortBy
           \/ \E k \in 1..Len(rows) : Use(k)
           \/ \E k \in 1..Len(rows) : ToggleDelete(k)
           \/ \E k \in 1..Len(rows), name \in Name, ip \in Ip : ModifyRead(k, name, ip)
           \/ ModifyWrite
           \/ TimerRead
    PROVE  IInv'
<1>1. /\ data \in Seq(Clients)
      /\ Len(data) \in Nat /\ rows \in Seq(Rows) /\ nextId \in 0..MaxId
      /\ deletings \in SUBSET Ids /\ {} \in SUBSET Commands
      /\ gui \in GuiJobs /\ upd \in UpdJobs /\ db \in Seq(Saved)
  BY DEF IInv, TypeOK
<1>b. refused \in BOOLEAN  BY DEF IInv, TypeOK
<1>2. mode = "run"
  BY GuiForms, <1>1 DEF IInv, Stages, SortBy, Use, ToggleDelete, ModifyRead, ModifyWrite,
                        TimerRead, GuiReady, Idle
<1>3. ~erased /\ Len(rows) = Len(data)  BY <1>2 DEF IInv, Stages
<1>4. \A k \in 1..Len(data) : Lit(data[k])  BY DEF IInv, AllLit
<1>c. \A k \in 1..Len(data) : data[k] \in Clients  BY <1>1
<1>5. ASSUME ~refused
      PROVE  /\ nextId = Len(data)
             /\ \A k \in 1..Len(data) : data[k].id = k - 1
             /\ \A k \in 1..Len(rows) : rows[k].id = k - 1
             /\ \A i \in deletings : i < Len(data)
             /\ gui # Idle => gui.copy.id = gui.pos - 1
  BY <1>2, <1>3, <1>5 DEF IInv, Numbered
<1>6. CASE SortBy
  <2>1. /\ UNCHANGED <<mode, db, data, nextId, deletings, gui, upd, refused, erased>>
        /\ FillData /\ sent' = {} /\ gui = Idle
    BY <1>6 DEF SortBy, GuiReady, threadVars
  <2>2. /\ mode' = "run" /\ gui' = Idle /\ upd' \in {upd, Idle}
        /\ sent' \in SUBSET Commands /\ data' \in Seq(Clients) /\ Len(data) <= Len(data')
        /\ nextId' \in 0..MaxId /\ deletings' \in SUBSET Ids
    BY <2>1, <1>1, <1>2
  <2>3. refused' \in BOOLEAN /\ (refused => refused')  BY <2>1, <1>b
  <2>4. ~refused' => /\ nextId' = Len(data')
                     /\ \A k \in 1..Len(data') : data'[k].id = k - 1
                     /\ \A i \in deletings' : i < Len(data')
    BY <2>1, <1>5
  <2>5. \A k \in 1..Len(data') : Lit(data'[k])  BY <2>1, <1>4
  <2> QED  BY <2>1, <2>2, <2>3, <2>4, <2>5, <1>2, FillStep
<1>7. CASE \E k \in 1..Len(rows) : ToggleDelete(k)
  <2>1. PICK k \in 1..Len(rows) : ToggleDelete(k)  BY <1>7
  <2>2. /\ UNCHANGED <<mode, db, data, nextId, gui, upd, refused, erased>>
        /\ FillData /\ sent' = {} /\ gui = Idle
        /\ deletings' = deletings \ {rows[k].id} \/ deletings' = deletings \cup {rows[k].id}
    BY <2>1 DEF ToggleDelete, GuiReady, threadVars
  <2>3. rows[k].id \in Ids
    <3>1. rows[k] \in Rows  BY <1>1
    <3> QED  BY <3>1 DEF Rows
  <2>4. deletings' \in SUBSET Ids  BY <1>1, <2>2, <2>3
  <2>5. ~refused => \A i \in deletings' : i < Len(data)
    <3>1. ~refused => rows[k].id = k - 1 /\ k \in 1..Len(data)  BY <1>3, <1>5
    <3>2. ~refused => rows[k].id < Len(data)  BY <3>1, <1>1
    <3> QED  BY <2>2, <3>2, <1>5
  <2>6. /\ mode' = "run" /\ gui' = Idle /\ upd' \in {upd, Idle}
        /\ sent' \in SUBSET Commands /\ data' \in Seq(Clients) /\ Len(data) <= Len(data')
        /\ nextId' \in 0..MaxId
    BY <2>2, <1>1, <1>2
  <2>7. refused' \in BOOLEAN /\ (refused => refused')  BY <2>2, <1>b
  <2>8. ~refused' => /\ nextId' = Len(data')
                     /\ \A m \in 1..Len(data') : data'[m].id = m - 1
                     /\ \A i \in deletings' : i < Len(data')
    BY <2>2, <2>5, <1>5
  <2>9. \A m \in 1..Len(data') : Lit(data'[m])  BY <2>2, <1>4
  <2> QED  BY <2>2, <2>4, <2>6, <2>7, <2>8, <2>9, <1>2, FillStep
<1>8. CASE \E k \in 1..Len(rows), name \in Name, ip \in Ip : ModifyRead(k, name, ip)
  <2>1. PICK k \in 1..Len(rows), name \in Name, ip \in Ip : ModifyRead(k, name, ip)
    BY <1>8
  <2> DEFINE id == rows[k].id
             c == [data[id + 1] EXCEPT !.name = name, !.ip = ip]
  <2>2. id \in Ids /\ id < Len(data)
    <3>1. rows[k] \in Rows  BY <1>1
    <3> QED  BY <2>1, <3>1 DEF Rows, ModifyRead
  <2>3. id + 1 \in 1..Len(data)  BY <2>2, <1>1 DEF Ids
  <2>4. /\ c \in Clients /\ c.id = data[id + 1].id
        /\ c.count = data[id + 1].count /\ c.state = data[id + 1].state
    <3>1. data[id + 1] \in Clients  BY <2>3, <1>c
    <3> QED  BY <3>1 DEF Clients
  <2>5. Lit(c)  BY <2>3, <2>4, <1>4 DEF Lit
  <2>6. /\ gui' = [op |-> "modify", pos |-> id + 1, copy |-> c]
        /\ UNCHANGED <<mode, db, dataVars, deletings, upd, historyVars>> /\ sent' = {}
    BY <2>1 DEF ModifyRead
  <2> HIDE DEF c, id
  <2>7. gui' \in GuiJobs
    <3>1. id + 1 \in Nat \ {0} /\ c \in Clients  BY <2>3, <2>4, <1>1
    <3> QED  BY <3>1, <2>6, JobForms
  <2>8. ~refused => c.id = id  BY <1>5, <2>2, <2>3, <2>4 DEF Ids
  <2>9. /\ gui'.pos <= Len(data) /\ gui'.op # "timer" /\ Lit(gui'.copy)
        /\ ~refused => gui'.copy.id = gui'.pos - 1
    BY <2>3, <2>5, <2>6, <2>8, <2>2 DEF Ids
  <2> QED  BY <2>6, <2>7, <2>9, <1>1, <1>2, CopyStep
<1>9. CASE ModifyWrite
  <2>1. gui # Idle /\ gui.pos \in 1..Len(data) /\ gui.copy \in Clients /\ Lit(gui.copy)
    BY <1>9, <1>1, GuiForms DEF ModifyWrite, IInv, Placed, AllLit, Idle
  <2>2. /\ UNCHANGED <<mode, db, nextId, deletings, upd, refused, erased>>
        /\ data' = Replaced(gui.pos, gui.copy) /\ FillData /\ gui' = Idle /\ sent' = {}
    BY <1>9 DEF ModifyWrite
  <2>3. /\ data' \in Seq(Clients) /\ Len(data') = Len(data)
        /\ \A k \in 1..Len(data) : k # gui.pos => data'[k] = data[k]
        /\ data'[gui.pos] \in {data[gui.pos], gui.copy}
    <3>1. \A pos \in 1..Len(data), c \in Clients :
             /\ Replaced(pos, c) \in Seq(Clients) /\ Len(Replaced(pos, c)) = Len(data)
             /\ \A k \in 1..Len(data) : k # pos => Replaced(pos, c)[k] = data[k]
             /\ Replaced(pos, c)[pos] \in {data[pos], c}
      BY <1>1, ReplacedFacts
    <3> QED  BY <3>1, <2>1, <2>2
  <2>4. \A k \in 1..Len(data) : Lit(data'[k])  BY <1>4, <2>1, <2>3
  <2>5. ~refused => \A k \in 1..Len(data) : data'[k].id = k - 1
    <3>1. ~refused => data'[gui.pos].id = gui.pos - 1  BY <1>5, <2>1, <2>3
    <3> QED  BY <3>1, <1>5, <2>3
  <2> QED  BY <2>2, <2>3, <2>4, <2>5, <1>1, <1>b, <1>2, <1>5, FillStep
<1>10. CASE TimerRead
  <2>1. /\ data # <<>> /\ gui' = At(1) /\ sent' = {}
        /\ UNCHANGED <<mode, db, dataVars, deletings, upd, historyVars>>
    BY <1>10 DEF TimerRead
  <2>2. 1 \in 1..Len(data) /\ data' = data  BY <1>1, <2>1 DEF dataVars
  <2>3. gui' = [op |-> "timer", pos |-> 1, copy |-> data[1]]  BY <2>1, <2>2 DEF At
  <2>4. gui' \in GuiJobs
    <3>1. data[1] \in Clients /\ 1 \in Nat \ {0}  BY <2>2, <1>c
    <3> QED  BY <3>1, <2>3, JobForms
  <2>5. /\ gui'.pos <= Len(data) /\ Lit(gui'.copy) /\ gui'.copy = data[gui'.pos]
        /\ ~refused => gui'.copy.id = gui'.pos - 1
    <3>1. gui'.pos = 1 /\ gui'.copy = data[1]  BY <2>3
    <3>2. ~refused => data[1].id = 0  BY <2>2, <1>5
    <3> QED  BY <2>2, <3>1, <3>2, <1>1, <1>4
  <2> QED  BY <2>1, <2>4, <2>5, <1>1, <1>2, CopyStep
<1>11. CASE \E k \in 1..Len(rows) : Use(k)
  <2>1. PICK k \in 1..Len(rows) : Use(k)  BY <1>11
  <2>2. sent' \in SUBSET Commands
    <3>1. rows[k].id \in Ids /\ rows[k].id < Len(data)
      <4>1. rows[k] \in Rows  BY <1>1
      <4> QED  BY <2>1, <4>1 DEF Rows, Use
    <3>2. data[rows[k].id + 1].ip \in Ip
      BY <3>1, <1>1, <1>c, ClientFacts DEF Ids
    <3> QED  BY <2>1, <3>1, <3>2, MaxIdAssumption DEF Use, Commands, Ids
  <2>3. UNCHANGED <<mode, db, dataVars, deletings, gui, upd, historyVars>>
    BY <2>1 DEF Use, threadVars
  <2> QED  BY <2>2, <2>3, <1>1, <1>2, CopyStep
<1> QED  BY <1>6, <1>7, <1>8, <1>9, <1>10, <1>11

\* The steps of the update thread that take a copy, an announcement or nothing
\* (client.cpp:363-402).
LEMMA PacketStep == ASSUME IInv, Packet PROVE IInv'
<1>1. mode = "run"
  BY DEF Packet, DiscoverKnown, DiscoverNew, UnknownBeat, BeatRead, NoNumber, OneWord, UpdReady
<1>3. gui \in GuiJobs /\ upd \in UpdJobs /\ data \in Seq(Clients) /\ Len(data) \in Nat
  BY DEF IInv, TypeOK
<1>4. \A k \in 1..Len(data) : data[k] \in Clients  BY <1>3
<1>2. CASE OneWord
  <2>1. /\ Forget /\ mode' = "misread" /\ sent' = {} /\ db' = db
        /\ refused' = refused /\ erased' = erased /\ overwritten' = overwritten
    BY <1>2 DEF OneWord, historyVars
  <2>2. db' \in Seq(Saved) /\ refused' \in BOOLEAN /\ erased' \in BOOLEAN
        /\ overwritten' \in SUBSET (Nat \ {0})
    BY <2>1 DEF IInv, TypeOK
  <2> QED  BY <2>1, <2>2, ForgetStep
<1>9. CASE NoNumber
  <2>1. /\ UNCHANGED <<mode, db, dataVars, deletings, historyVars>>
        /\ gui' = gui /\ upd' = [op |-> "ended"] /\ sent' = {}
    BY <1>9 DEF NoNumber
  <2>2. upd' \in UpdJobs /\ upd'.op # "beat"  BY <2>1 DEF UpdJobs
  <2> QED  BY <1>1, <1>3, <2>1, <2>2, CopyStep
<1>5. CASE \E k \in 1..Len(data) : DiscoverKnown(k)
  <2>1. PICK k \in 1..Len(data) : DiscoverKnown(k)  BY <1>5
  <2>0. UNCHANGED <<mode, db, dataVars, deletings, historyVars>> /\ gui' = gui
    BY <2>1 DEF DiscoverKnown, threadVars
  <2>2. sent' \in SUBSET Commands
    <3>1. data[k].id \in Int /\ data[k].ip \in Ip  BY <1>4, ClientFacts, MaxIdAssumption DEF Ids
    <3> QED  BY <2>1, <3>1 DEF DiscoverKnown, Commands
  <2> QED  BY <1>1, <2>0, <1>3, <2>1, <2>2, CopyStep DEF DiscoverKnown, threadVars
<1>6. CASE \E ip \in Ip, name \in Name : DiscoverNew(ip, name)
  <2>1. PICK ip \in Ip, name \in Name : DiscoverNew(ip, name)  BY <1>6
  <2>0. UNCHANGED <<mode, db, dataVars, deletings, historyVars>> /\ gui' = gui
    BY <2>1 DEF DiscoverNew, threadVars
  <2>2. upd' = [op |-> "add", name |-> name, ip |-> ip] /\ sent' = {}
    BY <2>1 DEF DiscoverNew
  <2>3. upd' \in UpdJobs /\ upd'.op # "beat"  BY <2>2 DEF UpdJobs
  <2> QED  BY <1>1, <2>0, <1>3, <2>2, <2>3, CopyStep
<1>7. CASE \E ip \in Ip, id \in Ids : UnknownBeat(ip, id)
  <2>1. PICK ip \in Ip, id \in Ids : UnknownBeat(ip, id)  BY <1>7
  <2>0. UNCHANGED <<mode, db, dataVars, deletings, historyVars>> /\ gui' = gui
    BY <2>1 DEF UnknownBeat, threadVars
  <2>2. sent' \in SUBSET Commands  BY <2>1, MaxIdAssumption DEF UnknownBeat, Commands, Ids
  <2> QED  BY <1>1, <2>0, <1>3, <2>1, <2>2, CopyStep DEF UnknownBeat, threadVars
<1>8. CASE \E id \in Ids : BeatRead(id)
  <2>1. PICK id \in Ids : BeatRead(id)  BY <1>8
  <2>0. UNCHANGED <<mode, db, dataVars, deletings, historyVars>> /\ gui' = gui
    BY <2>1 DEF BeatRead, threadVars
  <2>2. id + 1 \in 1..Len(data) /\ id + 1 \in Nat \ {0}
    BY <2>1, <1>3, MaxIdAssumption DEF BeatRead, Ids
  <2>3. upd' = [op |-> "beat", pos |-> id + 1, copy |-> data[id + 1]] /\ sent' = {}
    BY <2>1 DEF BeatRead
  <2>4. upd' \in UpdJobs  BY <2>2, <2>3, <1>4, JobForms
  <2>5. Lit(data[id + 1])  BY <2>2 DEF IInv, AllLit
  <2>6. ~refused => data[id + 1].id = id
    <3>1. ~refused => data[id + 1].id = (id + 1) - 1
      BY <1>1, <2>2 DEF IInv, Numbered, Stages
    <3> QED  BY <3>1, MaxIdAssumption DEF Ids
  <2>7. upd'.pos = id + 1 /\ upd'.copy = data[id + 1]  BY <2>3
  <2>8. /\ upd'.pos <= Len(data) /\ Lit(upd'.copy)
        /\ ~refused => upd'.copy.id = upd'.pos - 1
    BY <2>2, <2>5, <2>6, <2>7, MaxIdAssumption DEF Ids
  <2> QED  BY <1>1, <2>0, <1>3, <2>3, <2>4, <2>8, CopyStep
<1> QED  BY <1>2, <1>9, <1>5, <1>6, <1>7, <1>8 DEF Packet

\* An announced endpoint is inserted when the GUI gives way (client.cpp:381-390).
LEMMA AddDiscoveredStep == ASSUME IInv, AddDiscovered PROVE IInv'
<1>1. upd.name \in Name /\ upd.ip \in Ip
  BY UpdForms DEF AddDiscovered, IInv, TypeOK
<1>2. sent' \in SUBSET Commands  BY <1>1 DEF AddDiscovered, Commands, NoId
<1> QED  BY <1>1, <1>2, InsertStep DEF AddDiscovered

\* The destructor begins, and takes the marked Clients out (client.cpp:95-102).
LEMMA DestructorStep == ASSUME IInv, Close \/ Destructor PROVE IInv'
<1> USE DEF IInv
<1>1. /\ data \in Seq(Clients) /\ Len(data) \in Nat /\ rows \in Seq(Rows)
      /\ nextId \in 0..MaxId /\ deletings \in SUBSET Ids /\ db \in Seq(Saved)
      /\ gui \in GuiJobs /\ upd \in UpdJobs /\ overwritten \in SUBSET (Nat \ {0})
      /\ {} \in SUBSET Commands
  BY DEF TypeOK
<1>2. \A k \in 1..Len(data) : data[k] \in Clients  BY <1>1
<1>3. Idle \in UpdJobs /\ Idle.op = "idle"  BY DEF UpdJobs, Idle
<1>4. CASE Close
  <2>1. /\ mode = "run" /\ mode' = "closing" /\ gui = Idle /\ upd' = Idle /\ sent' = {}
        /\ UNCHANGED <<db, data, nextId, rows, deletings, gui, refused, overwritten, erased>>
    BY <1>4 DEF Close, GuiReady, dataVars, historyVars
  <2>2. TypeOK'  BY <2>1, <1>3 DEF TypeOK
  <2>3. Stages' /\ Placed'  BY <2>1, <1>3 DEF Stages, Placed
  <2>4. Numbered'  BY <2>1, <1>3 DEF Numbered
  <2>5. AllLit' /\ TimerCopyIsClose'  BY <2>1, <1>3 DEF AllLit, TimerCopyIsClose
  <2>6. RowsAreRows' /\ AbortsAreExplained'  BY <2>1 DEF RowsAreRows, AbortsAreExplained
  <2> QED  BY <2>2, <2>3, <2>4, <2>5, <2>6
<1>5. CASE \E i \in Ids : Erase(i)
  <2>1. PICK i \in Ids : Erase(i)  BY <1>5
  <2> DEFINE D(k) == IF k <= i THEN data[k] ELSE data[k + 1]
  <2>2. /\ mode = "closing" /\ i < Len(data) /\ erased' = TRUE /\ sent' = {}
        /\ data' = [k \in 1..(Len(data) - 1) |-> D(k)]
        /\ deletings' = deletings \ {i}
        /\ UNCHANGED <<mode, db, nextId, rows, gui, upd, refused, overwritten>>
    BY <2>1 DEF Erase, threadVars
  <2>3. i \in Nat  BY MaxIdAssumption DEF Ids
  <2>4. \A k \in 1..(Len(data) - 1) : D(k) \in Clients /\ Lit(D(k))
    <3>1. \A k \in 1..(Len(data) - 1) : k \in 1..Len(data) /\ k + 1 \in 1..Len(data)
      BY <1>1
    <3>2. \A k \in 1..Len(data) : Lit(data[k])  BY DEF AllLit
    <3> QED  BY <3>1, <3>2, <1>2
  <2> HIDE DEF D
  <2>5. Len(data) - 1 \in Nat  BY <1>1, <2>2, <2>3
  <2>6. data' \in Seq(Clients) /\ Len(data') = Len(data) - 1
    BY <2>2, <2>4, <2>5
  <2>7. \A k \in 1..Len(data') : Lit(data'[k])  BY <2>2, <2>4, <2>6
  <2>8. TypeOK'  BY <2>2, <2>6 DEF TypeOK
  <2>9. Stages' /\ Placed'  BY <2>2, <1>3 DEF Stages, Placed
  <2>10. Numbered'  BY <2>2 DEF Numbered
  <2>11. AllLit' /\ TimerCopyIsClose'
    BY <2>2, <2>7, <1>3 DEF AllLit, TimerCopyIsClose, Stages
  <2>12. RowsAreRows' /\ AbortsAreExplained'  BY <2>2 DEF RowsAreRows, AbortsAreExplained
  <2> QED  BY <2>8, <2>9, <2>10, <2>11, <2>12
<1>6. CASE \E i \in Ids : EraseAborts(i)
  <2>1. PICK i \in Ids : EraseAborts(i)  BY <1>6
  <2>2. Abort /\ i \in deletings /\ i >= Len(data)  BY <2>1 DEF EraseAborts, NextMark
  <2>3. refused \/ erased
    <3>1. ~refused /\ ~erased => i < Len(data)  BY <2>2 DEF Numbered
    <3> QED  BY <3>1, <2>2, <1>1, MaxIdAssumption DEF Ids, TypeOK
  <2> QED  BY <2>2, <2>3, AbortStep
<1>8. CASE \E written \in 0..Len(data) : OpenFile(written)
  <2>1. PICK written \in 0..Len(data) : OpenFile(written)  BY <1>8
  <2>2. /\ mode = "closing" /\ mode' = "saving" /\ sent' = {}
        /\ db' = SubSeq(InFile, 1, written)
        /\ UNCHANGED <<data, nextId, rows, deletings, gui, upd, refused, overwritten, erased>>
    BY <2>1 DEF OpenFile, dataVars, threadVars, historyVars
  <2>3. db' \in Seq(Saved)  BY <2>2, <1>1, InFileFacts
  <2>4. TypeOK'  BY <2>2, <2>3 DEF TypeOK
  <2>5. Stages' /\ Placed'  BY <2>2 DEF Stages, Placed
  <2>6. Numbered' /\ AllLit'  BY <2>2 DEF Numbered, AllLit
  <2>7. TimerCopyIsClose'  BY <2>2 DEF TimerCopyIsClose
  <2>8. RowsAreRows' /\ AbortsAreExplained'  BY <2>2 DEF RowsAreRows, AbortsAreExplained
  <2> QED  BY <2>4, <2>5, <2>6, <2>7, <2>8
<1>7. CASE Exit /\ (Save \/ SaveFails)
  <2>1. /\ Forget /\ mode' = "off" /\ refused' = FALSE /\ erased' = FALSE /\ overwritten' = {}
    BY <1>7 DEF Exit
  <2>2. db' \in Seq(Saved)
    <3>1. CASE Save  BY <3>1, <1>1, InFileFacts DEF Save
    <3>2. CASE SaveFails  BY <3>2, <1>1 DEF SaveFails
    <3> QED  BY <3>1, <3>2, <1>7
  <2>3. sent' \in SUBSET Commands
    <3>1. CASE Save  BY <3>1 DEF Save
    <3>2. CASE SaveFails
      <4>1. ASSUME NEW k \in 1..Len(data)
            PROVE  [cmd |-> "BYE", id |-> k - 1, ip |-> data[k].ip] \in Commands
        BY <1>1, <1>2, ClientFacts DEF Commands
      <4> QED  BY <3>2, <4>1 DEF SaveFails
    <3> QED  BY <3>1, <3>2, <1>7
  <2> QED  BY <2>1, <2>2, <2>3, ForgetStep
<1> QED  BY <1>4, <1>5, <1>6, <1>7, <1>8 DEF Destructor, Save, SaveFails

\* A Client with a second less, and one that was just heard.
LEMMA CopyFacts ==
    ASSUME NEW c \in Clients, Lit(c)
    PROVE  /\ c.count # 0 => /\ Ticked(c) \in Clients /\ Lit(Ticked(c))
                             /\ Ticked(c).id = c.id
                             /\ Ticked(c).name = c.name /\ Ticked(c).ip = c.ip
                             /\ c.count # 1 => Ticked(c).state = "online"
           /\ Beaten(c) \in Clients /\ Lit(Beaten(c)) /\ Beaten(c).id = c.id
           /\ Beaten(c).name = c.name /\ Beaten(c).ip = c.ip
           /\ Beaten(c).state = "online"
<1>1. c.count \in 0..(NewCount + BeatCount) /\ NewCount + BeatCount \in Nat
  BY CountAssumption, ClientFacts DEF Counts
<1>2. BeatCount \in Counts /\ "online" \in States /\ "offline" \in States
  BY CountAssumption DEF Counts, States
<1>3. ASSUME c.count # 0
      PROVE  /\ Ticked(c) \in Clients
             /\ Ticked(c).id = c.id /\ Ticked(c).name = c.name /\ Ticked(c).ip = c.ip
             /\ Ticked(c).count = c.count - 1
             /\ Ticked(c).state = IF c.count = 1 THEN "offline" ELSE c.state
  <2>1. c.count - 1 \in Counts  BY <1>1, <1>3 DEF Counts
  <2> QED  BY <2>1, <1>2 DEF Clients, Ticked
<1>4. c.count # 0 => Lit(Ticked(c)) /\ (c.count # 1 => Ticked(c).state = "online")
  BY <1>1, <1>3 DEF Lit
<1>5. /\ Beaten(c) \in Clients /\ Beaten(c).id = c.id
      /\ Beaten(c).name = c.name /\ Beaten(c).ip = c.ip
      /\ Beaten(c).state = "online"
  BY <1>2 DEF Clients, Beaten
<1> QED  BY <1>3, <1>4, <1>5 DEF Lit

\* The two writers: a copy goes back to its place, and the row of its id may be told.
\* What each of them adds is what the copy has in common with its Client.
LEMMA WriteFacts ==
    ASSUME IInv, mode = "run", NEW pos \in 1..Len(data), NEW c \in Clients, Lit(c),
           ~refused => c.id = pos - 1,
           data' = data \/ data' = Replaced(pos, c),
           \/ UNCHANGED rows
           \/ \E id \in Ids : id < Len(rows) /\ UpdateState(id) /\ (~refused => id = pos - 1)
    PROVE  /\ data' \in Seq(Clients) /\ Len(data') = Len(data)
           /\ \A k \in 1..Len(data) : k # pos => data'[k] = data[k]
           /\ data'[pos] \in {data[pos], c}
           /\ rows' \in Seq(Rows) /\ Len(rows') = Len(rows)
           /\ \A k \in 1..Len(data) : Lit(data'[k])
           /\ \A k \in 1..Len(rows) : rows'[k].id = rows[k].id
           /\ ~refused => /\ \A k \in 1..Len(data) : data'[k].id = k - 1
                          /\ \A k \in 1..Len(rows) : k # pos => rows'[k] = rows[k]
<1> USE DEF IInv
<1>1. data \in Seq(Clients) /\ rows \in Seq(Rows) /\ Len(rows) = Len(data) /\ ~erased
  BY DEF TypeOK, Stages
<1>2. /\ data' \in Seq(Clients) /\ Len(data') = Len(data)
      /\ \A k \in 1..Len(data) : k # pos => data'[k] = data[k]
      /\ data'[pos] \in {data[pos], c}
  <2>1. CASE data' = data  BY <2>1, <1>1
  <2>2. CASE data' = Replaced(pos, c)
    <3>1. /\ Replaced(pos, c) \in Seq(Clients) /\ Len(Replaced(pos, c)) = Len(data)
          /\ \A k \in 1..Len(data) : k # pos => Replaced(pos, c)[k] = data[k]
          /\ Replaced(pos, c)[pos] \in {data[pos], c}
      BY <1>1, ReplacedFacts
    <3> QED  BY <2>2, <3>1
  <2> QED  BY <2>1, <2>2
<1>3. \A k \in 1..Len(data) : Lit(data'[k])
  <2>1. \A k \in 1..Len(data) : Lit(data[k])  BY DEF AllLit
  <2> QED  BY <2>1, <1>2
<1>4. ~refused => \A k \in 1..Len(data) : data[k].id = k - 1 /\ rows[k].id = k - 1
  BY <1>1 DEF Numbered
<1>5. ~refused => \A k \in 1..Len(data) : data'[k].id = k - 1
  <2>1. ~refused => data'[pos].id = pos - 1  BY <1>2, <1>4
  <2> QED  BY <2>1, <1>2, <1>4
<1>6. /\ rows' \in Seq(Rows) /\ Len(rows') = Len(rows)
      /\ \A k \in 1..Len(rows) : rows'[k].id = rows[k].id
      /\ ~refused => \A k \in 1..Len(rows) : k # pos => rows'[k] = rows[k]
  <2>1. CASE UNCHANGED rows  BY <2>1, <1>1
  <2>2. CASE \E id \in Ids : id < Len(rows) /\ UpdateState(id) /\ (~refused => id = pos - 1)
    <3>1. PICK id \in Ids : id < Len(rows) /\ UpdateState(id) /\ (~refused => id = pos - 1)
      BY <2>2
    <3>2. /\ rows' \in Seq(Rows) /\ Len(rows') = Len(rows)
          /\ \A k \in 1..Len(rows) :
                /\ rows'[k].id = rows[k].id
                /\ rows[k].id # id => rows'[k] = rows[k]
      BY <3>1, <1>1, <1>2, UpdateFacts
    <3>3. ~refused => \A k \in 1..Len(rows) : k # pos => rows[k].id # id
      BY <3>1, <1>1, <1>4
    <3> QED  BY <3>2, <3>3
  <2> QED  BY <2>1, <2>2
<1> QED  BY <1>2, <1>3, <1>5, <1>6

\* The row of one position after a write: told of the state, or as it was.
LEMMA RowOfWrite ==
    ASSUME NEW r \in Rows, NEW old \in Clients, NEW new \in Clients, NEW told,
           r = Row(old), new.id = old.id, new.name = old.name, new.ip = old.ip,
           \/ told = [id |-> old.id, name |-> r.name, ip |-> r.ip, state |-> new.state]
           \/ told = r /\ new.state = old.state
    PROVE  told = Row(new)
<1> QED  BY ClientFacts DEF Row

\* The timer's loop keeps the invariant however old its copy is (client.cpp:423-439).
LEMMA TimerWriteStep == ASSUME IInv, TimerWrite PROVE IInv'
<1> USE DEF IInv
<1> DEFINE pos == gui.pos
           c == gui.copy
           new == IF c.count = 0 THEN c ELSE Ticked(c)
<1>1. gui # Idle /\ gui.op = "timer" /\ c \in Clients /\ pos \in Nat \ {0}
  BY GuiForms DEF TimerWrite, Idle, TypeOK
<1>2. mode = "run" /\ ~erased /\ Len(rows) = Len(data)  BY <1>1 DEF Stages
<1>3. data \in Seq(Clients) /\ Len(data) \in Nat /\ rows \in Seq(Rows)  BY DEF TypeOK
<1>4. pos \in 1..Len(data) /\ Lit(c) /\ (~refused => c.id = pos - 1)
  BY <1>1, <1>2, <1>3 DEF Placed, AllLit, Numbered
<1>5. /\ UNCHANGED <<mode, db, nextId, deletings, upd, refused, overwritten, erased>>
      /\ sent' = {}
      /\ data' = IF c.count = 0 THEN data ELSE Replaced(pos, Ticked(c))
      /\ IF c.count = 1 THEN c.id < Len(rows) /\ UpdateState(c.id) ELSE UNCHANGED rows
      /\ gui' = IF pos < Len(data) THEN At(pos + 1) ELSE Idle
  BY DEF TimerWrite, TimerLoops, Updatable, historyVars
<1>6. /\ new \in Clients /\ Lit(new) /\ new.id = c.id /\ new.name = c.name /\ new.ip = c.ip
      /\ c.count # 0 => new = Ticked(c)
      /\ c.count \notin {0, 1} => new.state = "online"
      /\ c.id \in Ids /\ c.count \in Nat
  <2>1. c.id \in Ids /\ c.count \in Nat
    BY <1>1, ClientFacts, CountAssumption DEF Counts
  <2>2. CASE c.count = 0  BY <2>1, <2>2, <1>1, <1>4
  <2>3. CASE c.count # 0  BY <2>1, <2>3, <1>1, <1>4, CopyFacts
  <2> QED  BY <2>2, <2>3
<1> HIDE DEF new
<1>7. /\ data' \in Seq(Clients) /\ Len(data') = Len(data)
      /\ \A k \in 1..Len(data) : k # pos => data'[k] = data[k]
      /\ data'[pos] \in {data[pos], new}
      /\ rows' \in Seq(Rows) /\ Len(rows') = Len(rows)
      /\ \A k \in 1..Len(data) : Lit(data'[k])
      /\ \A k \in 1..Len(rows) : rows'[k].id = rows[k].id
      /\ ~refused => /\ \A k \in 1..Len(data) : data'[k].id = k - 1
                     /\ \A k \in 1..Len(rows) : k # pos => rows'[k] = rows[k]
  <2>1. data' = data \/ data' = Replaced(pos, new)  BY <1>5, <1>6
  <2>2. \/ UNCHANGED rows
        \/ \E id \in Ids : id < Len(rows) /\ UpdateState(id) /\ (~refused => id = pos - 1)
    BY <1>4, <1>5, <1>6
  <2>3. ~refused => new.id = pos - 1  BY <1>4, <1>6
  <2> HIDE DEF pos, c
  <2> QED  BY <1>2, <1>4, <1>6, <2>1, <2>2, <2>3, WriteFacts
<1>8. /\ gui' \in GuiJobs
      /\ gui' # Idle => /\ gui'.pos <= Len(data) /\ Lit(gui'.copy)
                        /\ gui'.copy = data'[gui'.pos]
                        /\ ~refused => gui'.copy.id = gui'.pos - 1
  <2>1. CASE pos < Len(data)
    <3>1. gui' = [op |-> "timer", pos |-> pos + 1, copy |-> data'[pos + 1]]
      BY <1>5, <2>1 DEF At
    <3>2. pos + 1 \in 1..Len(data) /\ pos + 1 \in Nat \ {0} /\ data'[pos + 1] \in Clients
      BY <1>3, <1>4, <1>7, <2>1
    <3>3. gui' \in GuiJobs /\ gui'.pos = pos + 1 /\ gui'.copy = data'[pos + 1]
      BY <3>1, <3>2, JobForms
    <3>4. Lit(data'[pos + 1]) /\ (~refused => data'[pos + 1].id = (pos + 1) - 1)
      BY <3>2, <1>7
    <3> QED  BY <3>2, <3>3, <3>4
  <2>2. CASE ~(pos < Len(data))  BY <1>5, <2>2 DEF GuiJobs
  <2> QED  BY <2>1, <2>2
<1>9. /\ mode' = mode /\ db' = db /\ nextId' = nextId /\ deletings' = deletings
      /\ upd' = upd /\ refused' = refused /\ overwritten' = overwritten
      /\ erased' = erased /\ sent' = {}
  BY <1>5
<1> HIDE DEF pos, c
<1>10. TypeOK'  BY <1>7, <1>8, <1>9 DEF TypeOK
<1>11. Stages' /\ Placed' /\ Numbered'
  <2>1. Stages'  BY <1>2, <1>7, <1>9 DEF Stages
  <2>2. Placed'  BY <1>7, <1>8, <1>9 DEF Placed
  <2>3. Numbered'  BY <1>2, <1>7, <1>8, <1>9 DEF Numbered
  <2> QED  BY <2>1, <2>2, <2>3
<1>12. AllLit'  BY <1>7, <1>8, <1>9 DEF AllLit
<1>13. TimerCopyIsClose'
  <2>1. gui'.op = "timer" => gui' # Idle  BY DEF Idle
  <2> QED  BY <2>1, <1>8 DEF TimerCopyIsClose, Lit
<1> USE DEF pos, c
<1>14. RowsAreRows'
  <2> SUFFICES ASSUME ~refused, NEW k \in 1..Len(data), k \notin overwritten
               PROVE  rows'[k] = Row(data'[k])
    BY <1>5, <1>7 DEF RowsAreRows
  <2>1. rows[k] = Row(data[k]) /\ rows[k] \in Rows /\ data[k] \in Clients
        /\ data'[k] \in Clients /\ k \in 1..Len(rows)
    BY <1>2, <1>3, <1>7 DEF RowsAreRows
  <2>2. CASE k # pos  BY <2>1, <2>2, <1>7
  <2>3. CASE k = pos
    <3>1. /\ c.name = data[k].name /\ c.ip = data[k].ip
          /\ c.count > 0 => data[k].state = "online"
      BY <1>1, <2>3 DEF TimerCopyIsClose
    <3>2. data[k].id = k - 1 /\ data'[k].id = k - 1 /\ rows[k].id = k - 1
      BY <1>2, <1>7, <2>1 DEF Numbered
    <3>3. data'[k].name = data[k].name /\ data'[k].ip = data[k].ip
      BY <1>6, <1>7, <2>3, <3>1
    <3>4. CASE c.count = 0  BY <1>5, <2>1, <3>4
    <3>5. CASE c.count = 1
      <4>1. c.id = k - 1 /\ UpdateState(c.id) /\ c.id < Len(data')
        BY <1>2, <1>4, <1>5, <1>7, <2>3, <3>5
      <4>2. rows'[k] = [id |-> c.id, name |-> rows[k].name, ip |-> rows[k].ip,
                        state |-> data'[c.id + 1].state]
        BY <4>1, <1>3, <1>6, <1>7, <2>1, <3>2, UpdateFacts
      <4>3. c.id + 1 = k  BY <4>1, <1>3
      <4>4. rows'[k] = [id |-> data[k].id, name |-> rows[k].name, ip |-> rows[k].ip,
                        state |-> data'[k].state]
        BY <4>1, <4>2, <4>3, <3>2
      <4> QED  BY <4>4, <2>1, <3>2, <3>3, RowOfWrite
    <3>6. CASE c.count \notin {0, 1}
      <4>1. rows' = rows  BY <1>5, <3>6
      <4>2. data'[k].state = data[k].state
        <5>1. data[k].state = "online"  BY <3>1, <3>6, <1>6
        <5> QED  BY <5>1, <1>6, <1>7, <2>3, <3>6
      <4> QED  BY <4>1, <4>2, <2>1, <3>2, <3>3, RowOfWrite
    <3> QED  BY <3>4, <3>5, <3>6
  <2> QED  BY <2>2, <2>3
<1>15. AbortsAreExplained'  BY <1>5 DEF AbortsAreExplained
<1> QED  BY <1>10, <1>11, <1>12, <1>13, <1>14, <1>15

\* A heartbeat keeps the invariant: the position it writes an old copy to is no longer
\* answered for (client.cpp:400-414).
LEMMA BeatWriteStep == ASSUME IInv, BeatWrite PROVE IInv'
<1> USE DEF IInv
<1> DEFINE pos == upd.pos
           c == upd.copy
           new == Beaten(c)
<1>1. upd # Idle /\ upd.op = "beat" /\ c \in Clients /\ pos \in Nat \ {0}
  BY UpdForms DEF BeatWrite, Idle, TypeOK
<1>2. mode = "run" /\ ~erased /\ Len(rows) = Len(data)  BY <1>1 DEF Stages
<1>3. data \in Seq(Clients) /\ Len(data) \in Nat /\ rows \in Seq(Rows) /\ gui \in GuiJobs
  BY DEF TypeOK
<1>4. pos \in 1..Len(data) /\ Lit(c) /\ (~refused => c.id = pos - 1)
  BY <1>1, <1>2, <1>3 DEF Placed, AllLit, Numbered
<1>5. /\ mode' = mode /\ db' = db /\ nextId' = nextId /\ deletings' = deletings
      /\ gui' = gui /\ refused' = refused /\ erased' = erased
      /\ upd' = Idle /\ sent' = {}
  BY DEF BeatWrite
<1>6. /\ data' = Replaced(pos, new)
      /\ IF c.count = 0 THEN c.id < Len(rows) /\ UpdateState(c.id) ELSE UNCHANGED rows
      /\ overwritten' = IF data[pos] = c THEN overwritten ELSE overwritten \cup {pos}
  BY DEF BeatWrite, Updatable
<1>7. /\ new \in Clients /\ Lit(new) /\ new.id = c.id /\ new.name = c.name /\ new.ip = c.ip
      /\ new.state = "online" /\ c.id \in Ids
      /\ c.count # 0 => c.state = "online"
  <2>1. c.id \in Ids /\ c.count \in Nat
    BY <1>1, ClientFacts, CountAssumption DEF Counts
  <2> QED  BY <2>1, <1>1, <1>4, CopyFacts DEF Lit
<1> HIDE DEF new
<1>8. /\ data' \in Seq(Clients) /\ Len(data') = Len(data)
      /\ \A k \in 1..Len(data) : k # pos => data'[k] = data[k]
      /\ data'[pos] \in {data[pos], new}
      /\ rows' \in Seq(Rows) /\ Len(rows') = Len(rows)
      /\ \A k \in 1..Len(data) : Lit(data'[k])
      /\ \A k \in 1..Len(rows) : rows'[k].id = rows[k].id
      /\ ~refused => /\ \A k \in 1..Len(data) : data'[k].id = k - 1
                     /\ \A k \in 1..Len(rows) : k # pos => rows'[k] = rows[k]
  <2>1. \/ UNCHANGED rows
        \/ \E id \in Ids : id < Len(rows) /\ UpdateState(id) /\ (~refused => id = pos - 1)
    BY <1>4, <1>6, <1>7
  <2>2. ~refused => new.id = pos - 1  BY <1>4, <1>7
  <2>3. data' = Replaced(pos, new)  BY <1>6
  <2> HIDE DEF pos, c
  <2> QED  BY <1>2, <1>4, <1>7, <2>1, <2>2, <2>3, WriteFacts
<1>9. Idle \in UpdJobs /\ Idle.op = "idle"  BY DEF UpdJobs, Idle
<1>10. /\ overwritten \subseteq overwritten' /\ overwritten' \in SUBSET (Nat \ {0})
       /\ pos \notin overwritten' => data[pos] = c
  BY <1>1, <1>6 DEF TypeOK
<1> HIDE DEF pos, c
<1>11. TypeOK'  BY <1>5, <1>8, <1>9, <1>10 DEF TypeOK
<1>12. Stages' /\ Placed' /\ Numbered'
  <2>1. Stages'  BY <1>2, <1>5, <1>8 DEF Stages
  <2>2. Placed'  BY <1>5, <1>8, <1>9 DEF Placed
  <2>3. Numbered'  BY <1>2, <1>5, <1>8, <1>9 DEF Numbered
  <2> QED  BY <2>1, <2>2, <2>3
<1>13. AllLit'  BY <1>5, <1>8, <1>9 DEF AllLit
<1>14. TimerCopyIsClose'
  <2> SUFFICES ASSUME gui.op = "timer", gui.pos \notin overwritten'
               PROVE  /\ gui.copy.name = data'[gui.pos].name
                      /\ gui.copy.ip = data'[gui.pos].ip
                      /\ gui.copy.count > 0 => data'[gui.pos].state = "online"
    BY <1>5 DEF TimerCopyIsClose
  <2>1. /\ gui.copy.name = data[gui.pos].name /\ gui.copy.ip = data[gui.pos].ip
        /\ gui.copy.count > 0 => data[gui.pos].state = "online"
    BY <1>10 DEF TimerCopyIsClose
  <2>2. gui # Idle /\ gui.pos \in 1..Len(data)
    <3>1. gui # Idle  BY DEF Idle
    <3> QED  BY <3>1, <1>3, GuiForms DEF Placed
  <2>3. CASE gui.pos # pos  BY <2>1, <2>2, <2>3, <1>8
  <2>4. CASE gui.pos = pos
    <3>1. data[pos] = c  BY <2>4, <1>10
    <3> QED  BY <2>1, <2>4, <3>1, <1>7, <1>8
  <2> QED  BY <2>3, <2>4
<1>15. RowsAreRows'
  <2> SUFFICES ASSUME ~refused, NEW k \in 1..Len(data), k \notin overwritten'
               PROVE  rows'[k] = Row(data'[k])
    BY <1>5, <1>8 DEF RowsAreRows
  <2>1. rows[k] = Row(data[k]) /\ rows[k] \in Rows /\ data[k] \in Clients
        /\ data'[k] \in Clients /\ k \in 1..Len(rows)
    BY <1>2, <1>3, <1>8, <1>10 DEF RowsAreRows
  <2>2. CASE k # pos  BY <2>1, <2>2, <1>8
  <2>3. CASE k = pos
    <3>1. data[k] = c  BY <2>3, <1>10
    <3>2. data[k].id = k - 1 /\ data'[k].id = k - 1 /\ rows[k].id = k - 1
      BY <1>2, <1>8, <2>1 DEF Numbered
    <3>3. data'[k].name = data[k].name /\ data'[k].ip = data[k].ip
      BY <1>7, <1>8, <2>3, <3>1
    <3>4. CASE c.count = 0
      <4>1. c.id = k - 1 /\ UpdateState(c.id) /\ c.id < Len(data')
        BY <1>2, <1>4, <1>6, <1>8, <2>3, <3>4
      <4>2. rows'[k] = [id |-> c.id, name |-> rows[k].name, ip |-> rows[k].ip,
                        state |-> data'[c.id + 1].state]
        BY <4>1, <1>3, <1>7, <1>8, <2>1, <3>2, UpdateFacts
      <4>3. c.id + 1 = k  BY <4>1, <1>3
      <4>4. rows'[k] = [id |-> data[k].id, name |-> rows[k].name, ip |-> rows[k].ip,
                        state |-> data'[k].state]
        BY <4>1, <4>2, <4>3, <3>2
      <4> QED  BY <4>4, <2>1, <3>2, <3>3, RowOfWrite
    <3>5. CASE c.count # 0
      <4>1. rows' = rows  BY <1>6, <3>5
      <4>2. data'[k].state = data[k].state  BY <1>7, <1>8, <2>3, <3>1, <3>5
      <4> QED  BY <4>1, <4>2, <2>1, <3>2, <3>3, RowOfWrite
    <3> QED  BY <3>4, <3>5
  <2> QED  BY <2>2, <2>3
<1>16. AbortsAreExplained'  BY <1>2, <1>5 DEF AbortsAreExplained
<1> QED  BY <1>11, <1>12, <1>13, <1>14, <1>15, <1>16

\* An index out of range or a failed assertion needs a refused insertion before it.
LEMMA AbortsStep ==
    ASSUME IInv, (\E k \in 1..Len(rows) : UseOutOfRange(k)) \/ TimerAborts \/ BeatAborts
    PROVE  IInv'
<1>1. /\ mode = "run" /\ Abort /\ gui \in GuiJobs /\ upd \in UpdJobs
      /\ Len(data) \in Nat /\ Len(rows) = Len(data) /\ ~erased
  <2>1. gui \in GuiJobs /\ upd \in UpdJobs /\ Len(data) \in Nat  BY DEF IInv, TypeOK
  <2>2. mode = "run"
    BY DEF IInv, Stages, UseOutOfRange, TimerAborts, BeatAborts, GuiReady, Idle
  <2>3. Abort  BY DEF UseOutOfRange, TimerAborts, BeatAborts
  <2> QED  BY <2>1, <2>2, <2>3 DEF IInv, Stages
<1>2. ASSUME ~refused PROVE FALSE
  <2>1. /\ \A k \in 1..Len(rows) : rows[k].id = k - 1
        /\ gui # Idle => gui.copy.id = gui.pos - 1
        /\ upd.op = "beat" => upd.copy.id = upd.pos - 1
    BY <1>1, <1>2 DEF IInv, Numbered
  <2>2. CASE \E k \in 1..Len(rows) : UseOutOfRange(k)
    BY <1>1, <2>1, <2>2 DEF UseOutOfRange
  <2>3. CASE TimerAborts
    <3>1. gui # Idle /\ ~(gui.copy.id < Len(rows))
      BY <2>3 DEF TimerAborts, Idle, Updatable
    <3>2. gui.pos \in Nat \ {0} /\ gui.pos <= Len(data)
      BY <3>1, <1>1, GuiForms DEF IInv, Placed
    <3> QED  BY <1>1, <2>1, <3>1, <3>2
  <2>4. CASE BeatAborts
    <3>1. upd.op = "beat" /\ ~(upd.copy.id < Len(rows))
      BY <2>4 DEF BeatAborts, Updatable
    <3>2. upd.pos \in Nat \ {0} /\ upd.pos <= Len(data)
      BY <3>1, <1>1, UpdForms DEF IInv, Placed
    <3> QED  BY <1>1, <2>1, <3>1, <3>2
  <2> QED  BY <2>2, <2>3, <2>4
<1>3. refused \/ erased  BY <1>2
<1> QED  BY <1>1, <1>3, AbortStep

\* Every step of the program keeps the invariant.
LEMMA NextIInv == ASSUME IInv, [Next]_vars PROVE IInv'
<1>1. CASE Start  BY <1>1, StartStep
<1>2. CASE Crash
  <2>1. /\ Forget /\ mode' = "off" /\ refused' = FALSE /\ erased' = FALSE
        /\ overwritten' = {} /\ sent' = {} /\ db' = db
    BY <1>2 DEF Crash
  <2>2. db' \in Seq(Saved)  BY <2>1 DEF IInv, TypeOK
  <2> QED  BY <2>1, <2>2, ForgetStep
<1>3. CASE User
  <2>1. CASE \E name \in Name, ip \in Ip : AddClient(name, ip)
    <3>1. PICK name \in Name, ip \in Ip : AddClient(name, ip)  BY <2>1
    <3>2. /\ GuiReady /\ PushBack(name, ip, 0) /\ FillData /\ sent' = {}
          /\ UNCHANGED <<mode, db, deletings, gui, erased>> /\ upd' = upd
      BY <3>1 DEF AddClient, threadVars
    <3> QED  BY <3>2, InsertStep
  <2>2. CASE Close  BY <2>2, DestructorStep
  <2>3. CASE \E k \in 1..Len(rows) : UseOutOfRange(k)  BY <2>3, AbortsStep
  <2> QED  BY <1>3, <2>1, <2>2, <2>3, GuiSteps DEF User
<1>4. CASE ModifyWrite  BY <1>4, GuiSteps
<1>5. CASE Timer  BY <1>5, GuiSteps, TimerWriteStep, AbortsStep DEF Timer
<1>6. CASE Packet  BY <1>6, PacketStep
<1>7. CASE Upstate  BY <1>7, AddDiscoveredStep, BeatWriteStep, AbortsStep DEF Upstate
<1>8. CASE Destructor  BY <1>8, DestructorStep
<1>9. CASE UNCHANGED vars
  <2>1. UNCHANGED <<mode, db, data, nextId, rows, deletings, gui, upd, sent, refused,
                    overwritten, erased>>
    BY <1>9 DEF vars, dataVars, threadVars, historyVars
  <2>2. TypeOK' /\ Stages' /\ Placed'  BY <2>1 DEF IInv, TypeOK, Stages, Placed
  <2>3. Numbered' /\ AllLit'  BY <2>1 DEF IInv, Numbered, AllLit
  <2>4. TimerCopyIsClose' /\ RowsAreRows' /\ AbortsAreExplained'
    BY <2>1 DEF IInv, TimerCopyIsClose, RowsAreRows, AbortsAreExplained
  <2> QED  BY <2>2, <2>3, <2>4 DEF IInv
<1> QED
  BY <1>1, <1>2, <1>3, <1>4, <1>5, <1>6, <1>7, <1>8, <1>9 DEF Next

\* The commands of a step name the Clients they go to: those of the constructor, of
\* discoveries and of the menu (client.cpp:88-92, 377-389, 235-293).
LEMMA NamingStep ==
    ASSUME IInv, IInv', CommandsNameTheirClient, [Next]_vars
    PROVE  CommandsNameTheirClient'
<1> USE DEF IInv
<1>1. CASE sent' = {}  BY <1>1 DEF CommandsNameTheirClient
<1>2. CASE Start
  <2>1. /\ db \in Seq(Saved) /\ Len(db) \in Nat
        /\ data' = [k \in 1..Len(db) |->
                      [id |-> k - 1, name |-> db[k].name, ip |-> db[k].ip,
                       state |-> "offline", count |-> 0]]
        /\ sent' = {[cmd |-> "HELLO", id |-> k - 1, ip |-> db[k].ip] : k \in 1..Len(db)}
    BY <1>2 DEF Start, TypeOK
  <2>2. \A k \in 1..Len(db) : data'[k].ip = db[k].ip  BY <2>1
  <2>3. Len(data') = Len(db)  BY <2>1
  <2>4. mode' = "run" /\ ~refused' =>
           \A k \in 1..Len(data') : k \notin overwritten' => rows'[k].ip = data'[k].ip
    BY ClientFacts DEF RowsAreRows, TypeOK
  <2>5. ASSUME mode' = "run", ~refused', NEW c \in sent'
        PROVE  /\ c.id \in 0..(Len(data') - 1) /\ data'[c.id + 1].ip = c.ip
               /\ c.id + 1 \notin overwritten' => rows'[c.id + 1].ip = c.ip
    <3>1. PICK k \in 1..Len(db) : c = [cmd |-> "HELLO", id |-> k - 1, ip |-> db[k].ip]
      BY <2>1, <2>5
    <3>2. c.id = k - 1 /\ c.ip = db[k].ip /\ c.id + 1 = k  BY <3>1
    <3> QED  BY <2>1, <2>2, <2>3, <2>4, <2>5, <3>2
  <2> QED  BY <2>5 DEF CommandsNameTheirClient
<1>3. ASSUME mode = "run", UNCHANGED <<mode, data, rows, refused, overwritten>>,
             NEW k \in 1..Len(data), NEW cmd, ~refused => k = data[k].id + 1,
             sent' = {[cmd |-> cmd, id |-> data[k].id, ip |-> data[k].ip]}
      PROVE  CommandsNameTheirClient'
  <2> SUFFICES ASSUME ~refused
               PROVE  /\ data[k].id \in 0..(Len(data) - 1)
                      /\ data[data[k].id + 1].ip = data[k].ip
                      /\ data[k].id + 1 \notin overwritten
                            => rows[data[k].id + 1].ip = data[k].ip
    BY <1>3 DEF CommandsNameTheirClient
  <2>1. data[k].id = k - 1 /\ data[k] \in Clients /\ Len(data) \in Nat
    BY <1>3 DEF Numbered, Stages, TypeOK
  <2>2. k \notin overwritten => rows[k].ip = data[k].ip
    BY <1>3, <2>1, ClientFacts DEF RowsAreRows
  <2> QED  BY <1>3, <2>1, <2>2
<1>4. mode = "run" /\ ~refused => \A k \in 1..Len(data) : k = data[k].id + 1
  BY DEF Numbered, Stages, TypeOK
<1>5. ASSUME NEW k \in 1..Len(data), DiscoverKnown(k) PROVE CommandsNameTheirClient'
  <2>1. /\ mode = "run" /\ UNCHANGED <<mode, data, rows, refused, overwritten>>
        /\ sent' = {[cmd |-> "HELLO", id |-> data[k].id, ip |-> data[k].ip]}
    BY <1>5 DEF DiscoverKnown, UpdReady, dataVars, historyVars
  <2> QED  BY <2>1, <1>3, <1>4
<1>6. ASSUME NEW k \in 1..Len(rows), Use(k) PROVE CommandsNameTheirClient'
  <2>1. /\ mode = "run" /\ UNCHANGED <<mode, data, rows, refused, overwritten>>
        /\ sent' = {[cmd |-> "MENU", id |-> rows[k].id, ip |-> data[rows[k].id + 1].ip]}
    BY <1>6 DEF Use, GuiReady, dataVars, historyVars
  <2>2. CASE refused  BY <2>1, <2>2 DEF CommandsNameTheirClient
  <2>3. CASE ~refused
    <3>1. k \in 1..Len(data) /\ rows[k].id = data[k].id /\ rows[k].id + 1 = k
      BY <2>1, <2>3 DEF Numbered, Stages, TypeOK
    <3> QED  BY <2>1, <3>1, <1>3, <1>4
  <2> QED  BY <2>2, <2>3 DEF TypeOK
<1>7. CASE AddDiscovered
  <2>1. /\ sent' = {[cmd |-> "HELLO", id |-> NoId, ip |-> upd.ip]}
        /\ PushBack(upd.name, upd.ip, NewCount)
    BY <1>7 DEF AddDiscovered
  <2>2. CASE refused'  BY <2>2 DEF CommandsNameTheirClient
  <2>3. CASE ~refused'
    <3>1. data' = Append(data, Created(upd.name, upd.ip, NewCount))
      BY <2>1, <2>3 DEF PushBack
    <3>2. Created(upd.name, upd.ip, NewCount).ip = upd.ip  BY DEF Created
    <3>3. data \in Seq(Clients)  BY DEF TypeOK
    <3> HIDE DEF Created
    <3>4. data' # <<>> /\ data'[Len(data')].ip = upd.ip  BY <3>1, <3>2, <3>3
    <3> QED  BY <2>1, <3>4 DEF CommandsNameTheirClient
  <2> QED  BY <2>2, <2>3
<1>10. ASSUME NEW ip \in Ip, NEW id \in Ids, UnknownBeat(ip, id)
       PROVE  CommandsNameTheirClient'
  BY <1>10 DEF UnknownBeat, CommandsNameTheirClient, dataVars
<1>8. CASE UNCHANGED vars
  BY <1>8 DEF vars, dataVars, historyVars, CommandsNameTheirClient
<1>9. CASE SaveFails  BY <1>9 DEF SaveFails, Exit, CommandsNameTheirClient
<1> QED
  BY <1>1, <1>2, <1>5, <1>6, <1>7, <1>8, <1>9, <1>10 DEF Next, Crash, User, AddClient,
     SortBy, ToggleDelete, ModifyRead, UseOutOfRange, Close, ModifyWrite, Timer, TimerRead,
     TimerWrite, TimerAborts, Packet, DiscoverNew, BeatRead, OneWord, NoNumber, Upstate,
     BeatWrite, BeatAborts, Destructor, Erase, EraseAborts, Abort, OpenFile, Save

-----------------------------------------------------------------------------
(* The results *)

\* Every state of every execution satisfies the invariant.
THEOREM Invariance == SafeSpec => []IInv
<1> QED  BY InitIInv, NextIInv, PTL DEF SafeSpec

\* Every variable keeps its type: no Client counts beyond the two constants of
\* client.cpp:384 and 405 or below zero.
THEOREM TypeCorrect == SafeSpec => []TypeOK
<1>1. IInv => TypeOK  BY DEF IInv
<1> QED  BY <1>1, Invariance, PTL

\* Every data[id] of client.cpp means the Client of that id.
THEOREM IdsAreAlwaysIndices == SafeSpec => []IdsAreIndices
<1>1. IInv => IdsAreIndices  BY DEF IInv, Stages, Numbered, IdsAreIndices
<1> QED  BY <1>1, Invariance, PTL

\* The list tells the truth of every Client over which no old copy was written.
THEOREM RowsAreAlwaysTrue == SafeSpec => []RowsAreTrue
<1>1. IInv => RowsAreTrue
  <2> SUFFICES ASSUME IInv, mode = "run", ~refused,
                      NEW k \in 1..Len(rows), k \notin overwritten
               PROVE  rows[k] = Row(data[rows[k].id + 1])
    BY DEF RowsAreTrue
  <2>1. Len(rows) = Len(data) /\ Len(data) \in Nat  BY DEF IInv, Stages, TypeOK
  <2>2. rows[k].id + 1 = k  BY <2>1 DEF IInv, Stages, Numbered
  <2> QED  BY <2>1, <2>2 DEF IInv, RowsAreRows
<1> QED  BY <1>1, Invariance, PTL

\* No assertion on an index fails and no index is out of range (client.cpp:210, 245, 271,
\* 401, 446) before an insertion was refused or a Client erased.  The assertion that a
\* packet has two words (client/cmd.cpp:164) any packet of one word fails.
THEOREM AbortsAreAlwaysExplained == SafeSpec => []AbortsAreExplained
<1>1. IInv => AbortsAreExplained  BY DEF IInv
<1> QED  BY <1>1, Invariance, PTL

\* Every command goes to the computer of the index it carries and of its row, but for the
\* HELLO with -1 to the computer just inserted (client.cpp:389) and the BYE for an index
\* that is no Client's.
THEOREM CommandsAlwaysNameTheirClient == SafeSpec => []CommandsNameTheirClient
<1>1. Init => CommandsNameTheirClient  BY DEF Init, CommandsNameTheirClient
<1> QED  BY <1>1, NamingStep, Invariance, PTL DEF SafeSpec

\* The destructor's first erasure takes exactly the Client that was marked.
THEOREM FirstErasureIsAlwaysRight == SafeSpec => FirstErasureIsRight
<1>1. ASSUME IInv, [Next]_vars
      PROVE  [mode = "closing" /\ mode' = "closing" /\ ~erased /\ ~refused =>
                \A i \in Ids : HasId(data', i) <=> HasId(data, i) /\ ~NextMark(i)]_vars
  <2> SUFFICES ASSUME Next, mode = "closing", mode' = "closing", ~erased, ~refused,
                      NEW j \in Ids
               PROVE  HasId(data', j) <=> HasId(data, j) /\ ~NextMark(j)
    BY <1>1
  <2>1. PICK i \in Ids : Erase(i)
    <3>1. gui = Idle /\ upd = Idle  BY <1>1 DEF IInv, Stages
    <3>2. Idle.op = "idle"  BY DEF Idle
    <3> QED
      BY <3>1, <3>2 DEF Next, Start, Crash, User, AddClient, SortBy, Use,
         ToggleDelete, ModifyRead, UseOutOfRange, Close, GuiReady, ModifyWrite, Timer, TimerRead, TimerWrite,
         TimerAborts, Packet, DiscoverKnown, DiscoverNew, UnknownBeat, BeatRead, UpdReady,
         Upstate, AddDiscovered, BeatWrite, BeatAborts, Destructor, EraseAborts, Abort,
         OneWord, NoNumber, OpenFile, Save, SaveFails, Exit
  <2>2. Len(data) \in Nat /\ i \in Nat /\ j \in Nat /\ i < Len(data)
    BY <1>1, <2>1, MaxIdAssumption DEF IInv, TypeOK, Ids, Erase
  <2>3. \A k \in 1..Len(data) : data[k].id = k - 1
    BY <1>1 DEF IInv, Numbered
  <2>4. data' = [k \in 1..(Len(data) - 1) |-> IF k <= i THEN data[k] ELSE data[k + 1]]
    BY <2>1 DEF Erase
  <2>5. HasId(data, j) <=> j < Len(data)
    <3>1. j < Len(data) => j + 1 \in 1..Len(data) /\ data[j + 1].id = j
      BY <2>2, <2>3
    <3> QED  BY <2>2, <2>3, <3>1 DEF HasId
  <2>6. NextMark(j) <=> j = i
    BY <2>1, <2>2, <1>1, MaxIdAssumption DEF Erase, NextMark, IInv, TypeOK, Ids
  <2>7. Len(data') = Len(data) - 1
    BY <2>2, <2>4
  <2>8. \A k \in 1..Len(data') : data'[k].id = IF k <= i THEN k - 1 ELSE k
    <3> SUFFICES ASSUME NEW k \in 1..Len(data')
                 PROVE  data'[k].id = IF k <= i THEN k - 1 ELSE k
      OBVIOUS
    <3>1. k \in 1..Len(data) /\ k + 1 \in 1..Len(data)  BY <2>2, <2>7
    <3>2. data'[k] = IF k <= i THEN data[k] ELSE data[k + 1]  BY <2>4, <2>7
    <3>3. data[k].id = k - 1 /\ data[k + 1].id = k  BY <2>2, <2>3, <3>1
    <3> QED  BY <3>2, <3>3
  <2>9. HasId(data', j) <=> j < Len(data) /\ j # i
    <3>1. ASSUME j < i PROVE j + 1 \in 1..Len(data') /\ data'[j + 1].id = j
      BY <2>2, <2>7, <2>8, <3>1
    <3>2. ASSUME j > i, j < Len(data) PROVE j \in 1..Len(data') /\ data'[j].id = j
      BY <2>2, <2>7, <2>8, <3>2
    <3>3. \A k \in 1..Len(data') : data'[k].id < Len(data) /\ data'[k].id # i
      BY <2>2, <2>7, <2>8
    <3> QED  BY <2>2, <3>1, <3>2, <3>3 DEF HasId
  <2> QED  BY <2>5, <2>6, <2>9
<1> QED  BY <1>1, Invariance, PTL DEF SafeSpec, FirstErasureIsRight

-----------------------------------------------------------------------------
(* The file *)

\* Names and addresses are unique in the container and in the file.
Distinct(s) == \A j, k \in 1..Len(s) : Clash(s[j], s[k].name, s[k].ip) => j = k

ContainerIsDistinct == Distinct(data) /\ Distinct(db)

\* replace keeps the indices of the container unique, whichever copy is written back
\* (contianer.hpp:55-64).
LEMMA ReplacedIsDistinct ==
    ASSUME data \in Seq(Clients), Distinct(data), NEW pos \in 1..Len(data), NEW c \in Clients
    PROVE  Distinct(Replaced(pos, c))
<1>1. CASE \E k \in 1..Len(data) : k # pos /\ Clash(data[k], c.name, c.ip)
  BY <1>1 DEF Replaced
<1>2. CASE \A k \in 1..Len(data) : k # pos => ~Clash(data[k], c.name, c.ip)
  <2> DEFINE r == Replaced(pos, c)
  <2>1. r = [data EXCEPT ![pos] = c]  BY <1>2 DEF Replaced
  <2>2. Len(r) = Len(data) /\ r[pos] = c /\ \A k \in 1..Len(data) : k # pos => r[k] = data[k]
    BY <2>1
  <2> HIDE DEF r
  <2>3. \A k \in 1..Len(data) : k # pos => ~Clash(c, data[k].name, data[k].ip)
    BY <1>2 DEF Clash
  <2>4. Distinct(r)  BY <1>2, <2>2, <2>3 DEF Distinct
  <2> QED  BY <2>4 DEF r
<1> QED  BY <1>1, <1>2

\* So does push_back.
LEMMA PushBackIsDistinct ==
    ASSUME data \in Seq(Clients), Distinct(data), NEW name \in Name, NEW ip \in Ip,
           NEW count \in {0, NewCount}, PushBack(name, ip, count)
    PROVE  Distinct(data')
<1> DEFINE c == Created(name, ip, count)
<1>1. CASE \E k \in 1..Len(data) : Clash(data[k], name, ip)
  BY <1>1 DEF PushBack
<1>2. CASE \A k \in 1..Len(data) : ~Clash(data[k], name, ip)
  <2>1. data' = Append(data, c)  BY <1>2 DEF PushBack
  <2>2. c.name = name /\ c.ip = ip  BY DEF Created
  <2> HIDE DEF c
  <2>3. Len(data') = Len(data) + 1 /\ data'[Len(data) + 1] = c
        /\ \A k \in 1..Len(data) : data'[k] = data[k]
    BY <2>1
  <2> QED  BY <1>2, <2>2, <2>3 DEF Distinct, Clash
<1> QED  BY <1>1, <1>2

\* Every step that changes the container or the file does so in one of these ways, or
\* takes Clients away, or copies the one to the other.
LEMMA DistinctStep ==
    ASSUME IInv, ContainerIsDistinct, [Next]_vars PROVE ContainerIsDistinct'
<1> USE DEF ContainerIsDistinct, IInv, TypeOK
<1>1. ASSUME data' = data, db' = db PROVE ContainerIsDistinct'  BY <1>1
<1>2. ASSUME Forget, db' = db PROVE ContainerIsDistinct'
  BY <1>2 DEF Forget, Distinct
<1>3. CASE Start
  <2>1. /\ data' = [k \in 1..Len(db) |-> [id |-> k - 1, name |-> db[k].name, ip |-> db[k].ip,
                                          state |-> "offline", count |-> 0]]
        /\ db' = db
    BY <1>3 DEF Start
  <2>2. Len(data') = Len(db)
        /\ \A k \in 1..Len(db) : data'[k].name = db[k].name /\ data'[k].ip = db[k].ip
    BY <2>1
  <2> QED  BY <2>1, <2>2 DEF Distinct, Clash
<1>4. CASE Crash \/ Abort
  BY <1>2, <1>4 DEF Crash, Abort
<1>5. ASSUME NEW name \in Name, NEW ip \in Ip, AddClient(name, ip) PROVE ContainerIsDistinct'
  BY <1>5, PushBackIsDistinct DEF AddClient
<1>6. CASE AddDiscovered
  <2>1. upd.name \in Name /\ upd.ip \in Ip  BY <1>6, UpdForms DEF AddDiscovered
  <2> QED  BY <1>6, <2>1, PushBackIsDistinct DEF AddDiscovered
<1>7. CASE ModifyWrite
  <2>1. /\ gui # Idle /\ gui.pos \in Nat \ {0} /\ gui.copy \in Clients
    BY <1>7, GuiForms DEF ModifyWrite, Idle
  <2>2. gui.pos \in 1..Len(data)  BY <2>1 DEF Placed
  <2> QED  BY <1>7, <2>1, <2>2, ReplacedIsDistinct DEF ModifyWrite
<1>8. CASE TimerWrite
  <2>1. /\ gui # Idle /\ gui.pos \in Nat \ {0} /\ gui.copy \in Clients
    BY <1>8, GuiForms DEF TimerWrite, Idle
  <2>2. gui.pos \in 1..Len(data)  BY <2>1 DEF Placed
  <2>3. CASE gui.copy.count = 0  BY <1>8, <2>3 DEF TimerWrite
  <2>4. CASE gui.copy.count # 0
    <3>1. gui.copy.count - 1 \in Counts
      BY <2>1, <2>4, ClientFacts, CountAssumption DEF Counts
    <3>2. Ticked(gui.copy) \in Clients
      BY <2>1, <3>1 DEF Ticked, Clients, States
    <3> QED  BY <1>8, <2>2, <2>4, <3>2, ReplacedIsDistinct DEF TimerWrite
  <2> QED  BY <2>3, <2>4
<1>9. CASE BeatWrite
  <2>1. upd.pos \in 1..Len(data) /\ upd.copy \in Clients
    BY <1>9, UpdForms DEF BeatWrite, Placed
  <2>2. Lit(upd.copy)  BY <1>9 DEF BeatWrite, AllLit
  <2>3. Beaten(upd.copy) \in Clients  BY <2>1, <2>2, CopyFacts
  <2> QED  BY <1>9, <2>1, <2>3, ReplacedIsDistinct DEF BeatWrite
<1>10. ASSUME NEW i \in Ids, Erase(i) PROVE ContainerIsDistinct'
  <2>1. /\ data' = [k \in 1..(Len(data) - 1) |-> IF k <= i THEN data[k] ELSE data[k + 1]]
        /\ db' = db /\ i < Len(data) /\ i \in Nat
    BY <1>10 DEF Erase, Ids
  <2>2. Len(data) \in Nat \ {0}  BY <2>1
  <2>3. Len(data') = Len(data) - 1  BY <2>1, <2>2
  <2> DEFINE from(k) == IF k <= i THEN k ELSE k + 1
  <2>4. ASSUME NEW k \in 1..Len(data')
        PROVE  from(k) \in 1..Len(data) /\ data'[k] = data[from(k)]
    <3>1. k \in 1..(Len(data) - 1)  BY <2>3
    <3>2. data'[k] = IF k <= i THEN data[k] ELSE data[k + 1]  BY <2>1, <3>1
    <3>3. from(k) \in 1..Len(data)  BY <2>1, <2>2, <3>1
    <3> QED  BY <3>2, <3>3
  <2>5. ASSUME NEW j \in 1..Len(data'), NEW k \in 1..Len(data'), from(j) = from(k)
        PROVE  j = k
    BY <2>1, <2>2, <2>3, <2>5
  <2> HIDE DEF from
  <2>6. Distinct(data')  BY <2>4, <2>5 DEF Distinct
  <2> QED  BY <2>1, <2>6
<1>0. Distinct(InFile)  BY InFileFacts DEF Distinct, Clash
<1>11. CASE Save
  BY <1>0, <1>11 DEF Save, Exit, Forget, Distinct
<1>19. ASSUME NEW written \in 0..Len(data), OpenFile(written) PROVE ContainerIsDistinct'
  <2>1. db' = SubSeq(InFile, 1, written) /\ data' = data  BY <1>19 DEF OpenFile, dataVars
  <2>2. Len(InFile) = Len(data) /\ Len(db') = written
        /\ \A k \in 1..written : db'[k] = InFile[k]
    BY <2>1, InFileFacts
  <2>3. \A k \in 1..written : k \in 1..Len(InFile)  BY <2>2
  <2>4. Distinct(db')  BY <1>0, <2>2, <2>3, Zenon DEF Distinct
  <2>5. Distinct(data')  BY <2>1
  <2> QED  BY <2>4, <2>5
<1>12. CASE SaveFails  BY <1>2, <1>12 DEF SaveFails, Exit
<1>13. CASE User
  <2>1. ASSUME NEW k \in 1..Len(rows), UseOutOfRange(k) PROVE ContainerIsDistinct'
    BY <1>4, <2>1 DEF UseOutOfRange
  <2>2. ASSUME NEW k \in 1..Len(rows), Use(k) \/ ToggleDelete(k) PROVE data' = data /\ db' = db
    BY <2>2 DEF Use, ToggleDelete, dataVars
  <2>3. SortBy \/ Close => data' = data /\ db' = db  BY DEF SortBy, Close, dataVars
  <2>4. ASSUME NEW k \in 1..Len(rows), NEW name \in Name, NEW ip \in Ip, ModifyRead(k, name, ip)
        PROVE  data' = data /\ db' = db
    BY <2>4 DEF ModifyRead, dataVars
  <2> QED  BY <1>1, <1>5, <1>13, <2>1, <2>2, <2>3, <2>4 DEF User
<1>14. CASE Packet
  BY <1>1, <1>2, <1>14 DEF Packet, DiscoverKnown, DiscoverNew, UnknownBeat, BeatRead, OneWord,
                           NoNumber, dataVars
<1>15. TimerRead => data' = data /\ db' = db  BY DEF TimerRead, dataVars
<1>16. TimerAborts \/ BeatAborts => Abort  BY DEF TimerAborts, BeatAborts
<1>17. ASSUME NEW i \in Ids, EraseAborts(i) PROVE Abort  BY <1>17 DEF EraseAborts
<1>18. UNCHANGED vars => data' = data /\ db' = db  BY DEF vars, dataVars
<1> QED
  BY <1>1, <1>3, <1>4, <1>6, <1>7, <1>8, <1>9, <1>10, <1>11, <1>12, <1>13, <1>14, <1>15,
     <1>16, <1>17, <1>18, <1>19
     DEF Next, Timer, Upstate, Destructor

\* For any names and addresses, whatever the two threads write back on each other, the
\* file can always be read again whole (client.cpp:103-114, contianer.hpp:55-64, 67-79).
THEOREM SavedAreAlwaysDistinct == SafeSpec => []SavedAreDistinct
<1>1. Init => ContainerIsDistinct  BY DEF Init, ContainerIsDistinct, Distinct
<1>2. ContainerIsDistinct => SavedAreDistinct
  BY DEF ContainerIsDistinct, Distinct, SavedAreDistinct
<1> QED  BY <1>1, <1>2, DistinctStep, Invariance, PTL DEF SafeSpec
=============================================================================
