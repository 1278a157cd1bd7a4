------------------------------- MODULE Semsim --------------------------------
(***************************************************************************)
(* The SEMSIM process: the main thread of semsim.py, the UDP listener      *)
(* thread of tmtc_manager.py, and the PostgreSQL database they share       *)
(* through db_manager.py.  Every database call opens its own connection    *)
(* and commits on its own, so the threads interleave between any two       *)
(* calls: each action below contains at most one database transaction or   *)
(* one datagram.  The environment sends telecommands, an operator writes   *)
(* the rtos table, the process may be killed, and the container's restart  *)
(* policy starts it again on the same database.                            *)
(***************************************************************************)
EXTENDS BcrServices

CONSTANTS
    Models,      \* the list "models" of conf_file/hw_conf_sem.json
    Datagrams,   \* what may arrive at the UDP socket
    QueueBound,  \* bound: datagrams waiting in the socket's receive buffer
    MaxControls, \* bound: writes of the operator to the rtos table
    MaxCrashes   \* bound: kills of the process

ASSUME ModelsAssumption == Models \in Seq(Units)

\* A datagram is a telecommand, an empty message, or one that the header
\* decoder or the JSON decoder rejects.
ASSUME DatagramsAssumption ==
    \A d \in Datagrams : /\ d.form \in {"tc", "empty", "garbled"}
                         /\ d.form = "tc" => WellFormed(d)

ASSUME BoundsAssumption ==
    QueueBound \in Nat /\ MaxControls \in Nat /\ MaxCrashes \in Nat

Telecommands == { d \in Datagrams : d.form = "tc" }

VARIABLES
    \* the database
    catalog,   \* how far the database sem_demo has been built
    activate,  \* rtos row 'activate'
    state,     \* state[u]: row STATE of unit u
    db,        \* db[u][r]: the other rows
    \* the main thread
    mpc,       \* where it is
    mi,        \* update_system: index into Models
    ri,        \* unit model: index into InitOrder
    \* the listener thread
    lpc,       \* where it is
    inbox,     \* the receive buffer of its socket
    tc,        \* the telecommand it handles or handled last
    ready,     \* history: the addressed unit had STATE = 1 when tc arrived
    dict,      \* the handler's copies of the rows it has read
    pos,       \* position in Reads(tc.type), then in Accesses(tc)
    outgoing,  \* messages the handler has still to send
    replies,   \* messages sent to the sender of tc, in order
    \* bounds and history
    late,      \* datagrams taken while activate = "0", since it was written
    controls,
    crashes

dbVars    == <<catalog, activate, state, db>>
mainVars  == <<mpc, mi, ri>>
handler   == <<tc, ready, dict, pos, outgoing, replies>>
listener  == <<lpc, inbox, handler, late>>
bounds    == <<controls, crashes>>
vars      == <<dbVars, mainVars, listener, bounds>>

NoTc    == [form |-> "none"]
NoDict  == [r \in RowNames |-> Raw(r)]
NoTable == [u \in Units |-> NoDict]

-----------------------------------------------------------------------------
(* The main thread: start-up                                               *)

\* create_db: CREATE DATABASE commits at once.
CreateDb ==
    /\ mpc = "boot"
    /\ catalog = "absent"
    /\ catalog' = "created"
    /\ mpc' = "tables"
    /\ UNCHANGED <<activate, state, db, mi, ri, listener, bounds>>

\* CREATE DATABASE raises if the database exists; nothing catches it, the
\* listener is not started yet, and the process exits.
CreateDbRaises ==
    /\ mpc = "boot"
    /\ catalog # "absent"
    /\ mpc' = "down"
    /\ UNCHANGED <<dbVars, mi, ri, listener, bounds>>

\* db_table_creator, db_table_filler.  Their statements commit one by one,
\* but no thread reads the tables before the last one, and after a kill in
\* between CreateDbRaises ends the next start before it looks at them.
CreateTables ==
    /\ mpc = "tables"
    /\ catalog' = "empty"
    /\ mpc' = "fill"
    /\ UNCHANGED <<activate, state, db, mi, ri, listener, bounds>>

FillTables ==
    /\ mpc = "fill"
    /\ catalog' = "filled"
    /\ activate' = "0"
    /\ state' = [u \in Units |-> 0]
    /\ db' = NoTable
    /\ mpc' = "activate"
    /\ late' = 0
    /\ UNCHANGED <<mi, ri, lpc, inbox, handler, bounds>>

\* rtos_initialisation: control_rtos(1).
RtosInitialisation ==
    /\ mpc = "activate"
    /\ activate' = "1"
    /\ mpc' = "spawn"
    /\ late' = 0
    /\ UNCHANGED <<catalog, state, db, mi, ri, lpc, inbox, handler, bounds>>

\* listen_udp_thread.start(): the listener binds its socket while the main
\* thread goes on.
StartListener ==
    /\ mpc = "spawn"
    /\ mpc' = "loop"
    /\ lpc' = "connect"
    /\ UNCHANGED <<dbVars, mi, ri, inbox, handler, late, bounds>>

-----------------------------------------------------------------------------
(* The main thread: the update loop                                        *)

\* while rtos_checker.check_rtos() == '1'
CheckRtosMain ==
    /\ mpc = "loop"
    /\ mpc' = IF activate = "1" THEN "unit" ELSE "join"
    /\ mi' = 1
    /\ UNCHANGED <<dbVars, ri, listener, bounds>>

\* update_system has gone through its models.
EndOfPass ==
    /\ mpc = "unit"
    /\ mi > Len(Models)
    /\ mpc' = "loop"
    /\ UNCHANGED <<dbVars, mi, ri, listener, bounds>>

\* Mutant: the unit models do not look at STATE.
ReadState_Always ==
    /\ mpc = "unit"
    /\ mi <= Len(Models)
    /\ mpc' = "row" /\ ri' = 1
    /\ UNCHANGED <<dbVars, mi, listener, bounds>>

\* Mutant: a unit model sets STATE before it writes its rows.
ReadState_FlagFirst ==
    /\ mpc = "unit"
    /\ mi <= Len(Models)
    /\ IF state[Models[mi]] = 0
       THEN /\ mpc' = "row" /\ ri' = 1 /\ mi' = mi
            /\ state' = [state EXCEPT ![Models[mi]] = 1]
       ELSE mpc' = "unit" /\ ri' = ri /\ mi' = mi + 1 /\ state' = state
    /\ UNCHANGED <<catalog, activate, db, listener, bounds>>

\* bcr_nominal.__init__, bcr_redundant.__init__: read STATE and skip the
\* unit unless it is 0.
ReadState ==
    /\ mpc = "unit"
    /\ mi <= Len(Models)
    /\ IF state[Models[mi]] = 0
       THEN mpc' = "row" /\ ri' = 1 /\ mi' = mi
       ELSE mpc' = "unit" /\ ri' = ri /\ mi' = mi + 1
    /\ UNCHANGED <<dbVars, listener, bounds>>

\* Mutant: one row too many.
InitRow_OffByOne ==
    /\ mpc = "row"
    /\ LET u == Models[mi]
           r == InitOrder[ri]
       IN  db' = [db EXCEPT ![u] = [@ EXCEPT ![r] = Json(DefaultRow(r))]]
    /\ IF ri > Len(InitOrder)
       THEN mpc' = "flag" /\ ri' = ri
       ELSE mpc' = "row" /\ ri' = ri + 1
    /\ UNCHANGED <<catalog, activate, state, mi, listener, bounds>>

\* Mutant: the Memory row is left out.
InitRow_NoMemory ==
    /\ mpc = "row"
    /\ LET u == Models[mi]
           r == InitOrder[ri]
       IN  db' = [db EXCEPT ![u] = [@ EXCEPT ![r] = Json(DefaultRow(r))]]
    /\ IF ri = Len(InitOrder) - 1
       THEN mpc' = "flag" /\ ri' = ri
       ELSE mpc' = "row" /\ ri' = ri + 1
    /\ UNCHANGED <<catalog, activate, state, mi, listener, bounds>>

\* Mutant: the unit model polls activate between its rows.
InitRow_PollsActivate ==
    /\ mpc = "row"
    /\ LET u == Models[mi]
           r == InitOrder[ri]
       IN  db' = [db EXCEPT ![u] = [@ EXCEPT ![r] = Json(DefaultRow(r))]]
    /\ mpc' = CASE activate = "0" -> "join"
                [] activate = "1" /\ ri = Len(InitOrder) -> "flag"
                [] OTHER -> "row"
    /\ ri' = IF mpc' = "row" THEN ri + 1 ELSE ri
    /\ UNCHANGED <<catalog, activate, state, mi, listener, bounds>>

\* init_bytes_state, one row and one transaction at a time.
InitRow ==
    /\ mpc = "row"
    /\ LET u == Models[mi]
           r == InitOrder[ri]
       IN  db' = [db EXCEPT ![u] = [@ EXCEPT ![r] = Json(DefaultRow(r))]]
    /\ IF ri = Len(InitOrder)
       THEN mpc' = "flag" /\ ri' = ri
       ELSE mpc' = "row" /\ ri' = ri + 1
    /\ UNCHANGED <<catalog, activate, state, mi, listener, bounds>>

\* Mutant: STATE is never set.
SetState_Forgotten ==
    /\ mpc = "flag"
    /\ mpc' = "unit"
    /\ mi' = mi + 1
    /\ UNCHANGED <<dbVars, ri, listener, bounds>>

\* udb.update_db(unit, "STATE", 1)
SetState ==
    /\ mpc = "flag"
    /\ state' = [state EXCEPT ![Models[mi]] = 1]
    /\ mpc' = "unit"
    /\ mi' = mi + 1
    /\ UNCHANGED <<catalog, activate, db, ri, listener, bounds>>

\* Mutant: the main thread waits for an orderly end of the listener.
JoinListener_OrderlyOnly ==
    /\ mpc = "join"
    /\ lpc = "done"
    /\ mpc' = "stopped"
    /\ UNCHANGED <<dbVars, mi, ri, listener, bounds>>

\* listen_udp_thread.join() returns once the listener has ended; then main
\* ends, and with it the process.
JoinListener ==
    /\ mpc = "join"
    /\ lpc \in {"done", "dead"}
    /\ mpc' = "stopped"
    /\ UNCHANGED <<dbVars, mi, ri, listener, bounds>>

MainStep ==
    \/ CreateDb \/ CreateDbRaises \/ CreateTables \/ FillTables
    \/ RtosInitialisation \/ StartListener \/ CheckRtosMain \/ EndOfPass
    \/ ReadState \/ InitRow \/ SetState \/ JoinListener

-----------------------------------------------------------------------------
(* The listener thread                                                     *)

\* An exception in the thread is printed and ends it; its socket is closed.
Die == lpc' = "dead" /\ inbox' = << >>

\* rtos_checker.db_connect(): the connection on which the listener polls
\* activate.
ConnectListener ==
    /\ lpc = "connect"
    /\ lpc' = "check"
    /\ UNCHANGED <<dbVars, mainVars, inbox, handler, late, bounds>>

\* Mutant: the listener looks at activate only while its buffer is empty.
CheckRtosListener_DrainsFirst ==
    /\ lpc = "check"
    /\ IF activate = "1" \/ inbox # << >>
       THEN lpc' = "recv" /\ inbox' = inbox
       ELSE lpc' = "done" /\ inbox' = << >>
    /\ UNCHANGED <<dbVars, mainVars, handler, late, bounds>>

\* while rtos_checker.check_rtos() == '1'; else the socket is closed.
CheckRtosListener ==
    /\ lpc = "check"
    /\ IF activate = "1"
       THEN lpc' = "recv" /\ inbox' = inbox
       ELSE lpc' = "done" /\ inbox' = << >>
    /\ UNCHANGED <<dbVars, mainVars, handler, late, bounds>>

\* recvfrom, and what happens to the datagram it takes.
Take ==
    /\ lpc = "recv"
    /\ inbox # << >>
    /\ late' = IF activate = "0" THEN late + 1 ELSE late
    /\ UNCHANGED <<dbVars, mainVars, bounds>>

\* "if message:" is false.
RecvEmpty ==
    /\ Take
    /\ Head(inbox).form = "empty"
    /\ inbox' = Tail(inbox)
    /\ lpc' = "check"
    /\ UNCHANGED handler

\* SpacePacketDecoder or json.loads raises.
RecvGarbled ==
    /\ Take
    /\ Head(inbox).form = "garbled"
    /\ Die
    /\ UNCHANGED handler

RecvTelecommand ==
    /\ Take
    /\ Head(inbox).form = "tc"
    /\ inbox' = Tail(inbox)
    /\ tc' = Head(inbox)
    /\ ready' = (state[Unit(Head(inbox))] = 1)
    /\ dict' = NoDict /\ pos' = 1
    /\ outgoing' = << >> /\ replies' = << >>
    /\ lpc' = "ack"

Row(r) == db[Unit(tc)][r]

\* Mutant: only commands of implemented services are accepted.
Acknowledge_ImplementedOnly ==
    /\ lpc = "ack"
    /\ replies' = IF tc.type \in Implemented
                     /\ Row("acceptanceVerificationReport").json
                  THEN << Ack(Row("acceptanceVerificationReport").val) >>
                  ELSE << >>
    /\ lpc' = IF tc.type \in Implemented THEN "read" ELSE "check"
    /\ UNCHANGED <<dbVars, mainVars, inbox, tc, ready, dict, pos, outgoing,
                   late, bounds>>

\* cmd_ack_generator: whatever it raises is caught, so that a raw row means
\* no acceptance report.  cmd_processing matches the type.
Acknowledge ==
    /\ lpc = "ack"
    /\ replies' = IF Row("acceptanceVerificationReport").json
                  THEN << Ack(Row("acceptanceVerificationReport").val) >>
                  ELSE << >>
    /\ lpc' = IF tc.type \in Implemented THEN "read" ELSE "check"
    /\ UNCHANGED <<dbVars, mainVars, inbox, tc, ready, dict, pos, outgoing,
                   late, bounds>>

\* Mutant: a handler reads a row again until its unit model has written it.
ReadRow_Waits ==
    /\ lpc = "read"
    /\ LET r == Reads(tc.type)[pos]
       IN  \/ ~Row(r).json /\ UNCHANGED vars
           \/ /\ Row(r).json
              /\ dict' = [dict EXCEPT ![r] = Row(r)]
              /\ IF pos = Len(Reads(tc.type))
                 THEN lpc' = "body" /\ pos' = 1
                 ELSE lpc' = "read" /\ pos' = pos + 1
              /\ UNCHANGED <<dbVars, mainVars, inbox, tc, ready, outgoing,
                             replies, late, bounds>>

\* udb.read_db: one of the rows the handler fetches.
ReadRow ==
    /\ lpc = "read"
    /\ LET r == Reads(tc.type)[pos]
       IN  dict' = [dict EXCEPT ![r] = Row(r)]
    /\ IF pos = Len(Reads(tc.type))
       THEN lpc' = "body" /\ pos' = 1
       ELSE lpc' = "read" /\ pos' = pos + 1
    /\ UNCHANGED <<dbVars, mainVars, inbox, tc, ready, outgoing, replies,
                   late, bounds>>

InBody == lpc = "body" /\ pos <= Len(Accesses(tc))

\* An identifier that belongs to no row.
SkipAccess ==
    /\ InBody
    /\ Accesses(tc)[pos] = "none"
    /\ pos' = pos + 1
    /\ UNCHANGED <<dbVars, mainVars, lpc, inbox, tc, ready, dict, outgoing,
                   replies, late, bounds>>

\* The body raises at an access: TypeError on a raw row, or see Fails.
Raises ==
    LET cell == dict[Accesses(tc)[pos]]
    IN  (~cell.json /\ ~RestoresUnseen(tc)) \/ Fails(tc, pos, cell.val)

BodyRaises ==
    /\ InBody
    /\ Accesses(tc)[pos] # "none"
    /\ Raises
    /\ Die
    /\ UNCHANGED <<dbVars, mainVars, handler, late, bounds>>

\* The body changes its copy and writes the whole row back, from the copy.
Access ==
    /\ InBody
    /\ Accesses(tc)[pos] # "none"
    /\ ~Raises
    /\ pos' = pos + 1
    /\ LET u    == Unit(tc)
           r    == Accesses(tc)[pos]
           cell == dict[r]
           new  == IF cell.json THEN Json(NewValue(tc, cell.val)) ELSE cell
       IN  IF Stores(tc, cell.val)
           THEN /\ dict' = [dict EXCEPT ![r] = new]
                /\ db' = [db EXCEPT ![u] = [@ EXCEPT ![r] = new]]
           ELSE UNCHANGED <<dict, db>>
    /\ UNCHANGED <<catalog, activate, state, mainVars, lpc, inbox, tc, ready,
                   outgoing, replies, late, bounds>>

\* Request_completion_verification, which nothing guards.
Verify ==
    /\ lpc = "body"
    /\ pos > Len(Accesses(tc))
    /\ Row("completionOfExecVerificationReport").json
    /\ outgoing' = Answers(tc, dict,
                           Row("completionOfExecVerificationReport").val)
    /\ lpc' = "send"
    /\ UNCHANGED <<dbVars, mainVars, inbox, tc, ready, dict, pos, replies,
                   late, bounds>>

VerifyRaises ==
    /\ lpc = "body"
    /\ pos > Len(Accesses(tc))
    /\ ~Row("completionOfExecVerificationReport").json
    /\ Die
    /\ UNCHANGED <<dbVars, mainVars, handler, late, bounds>>

\* UDPServerSocket.sendto; after the last message the handler's locals go.
SendAnswer ==
    /\ lpc = "send"
    /\ replies' = Append(replies, Head(outgoing))
    /\ outgoing' = Tail(outgoing)
    /\ IF Tail(outgoing) = << >>
       THEN lpc' = "check" /\ dict' = NoDict /\ pos' = 1
       ELSE lpc' = "send" /\ UNCHANGED <<dict, pos>>
    /\ UNCHANGED <<dbVars, mainVars, inbox, tc, ready, late, bounds>>

ListenerStep ==
    \/ ConnectListener \/ CheckRtosListener
    \/ RecvEmpty \/ RecvGarbled \/ RecvTelecommand
    \/ Acknowledge \/ ReadRow \/ SkipAccess \/ BodyRaises \/ Access
    \/ Verify \/ VerifyRaises \/ SendAnswer

-----------------------------------------------------------------------------
(* The environment                                                         *)

SocketOpen == lpc \notin {"off", "done", "dead"}

\* A client sends a datagram that reaches the socket.
Send(d) ==
    /\ SocketOpen
    /\ Len(inbox) < QueueBound
    /\ inbox' = Append(inbox, d)
    /\ UNCHANGED <<dbVars, mainVars, lpc, handler, late, bounds>>

\* control_rtos(v) by an operator of the running database.
ControlRtos(v) ==
    /\ catalog = "filled"
    /\ controls < MaxControls
    /\ activate' = v
    /\ late' = 0
    /\ controls' = controls + 1
    /\ UNCHANGED <<catalog, state, db, mainVars, lpc, inbox, handler, crashes>>

\* The threads and the socket are gone with the process; the database stays.
EndOfProcess ==
    /\ inbox' = << >> /\ lpc' = "off"
    /\ dict' = NoDict /\ pos' = 1
    /\ tc' = NoTc /\ ready' = FALSE /\ outgoing' = << >> /\ replies' = << >>
    /\ UNCHANGED <<dbVars, mi, ri, late, controls>>

\* The process is killed.
Crash ==
    /\ mpc \notin {"down", "stopped"}
    /\ crashes < MaxCrashes
    /\ crashes' = crashes + 1
    /\ mpc' = "down"
    /\ EndOfProcess

\* The restart policy starts the container again, whatever it exited with.
Restart ==
    /\ mpc \in {"down", "stopped"}
    /\ mpc' = "boot"
    /\ EndOfProcess
    /\ UNCHANGED crashes

-----------------------------------------------------------------------------
Init ==
    /\ catalog = "absent" /\ activate = "0"
    /\ state = [u \in Units |-> 0] /\ db = NoTable
    /\ mpc = "boot" /\ mi = 1 /\ ri = 1
    /\ lpc = "off" /\ inbox = << >> /\ late = 0
    /\ tc = NoTc /\ ready = FALSE /\ dict = NoDict /\ pos = 1
    /\ outgoing = << >> /\ replies = << >>
    /\ controls = 0 /\ crashes = 0

Next ==
    \/ MainStep
    \/ ListenerStep
    \/ \E d \in Datagrams : Send(d)
    \/ \E v \in {"0", "1"} : ControlRtos(v)
    \/ Crash
    \/ Restart

Spec == Init /\ [][Next]_vars

\* Each thread is scheduled as long as it can go on (no thread waits for a
\* lock), and the container engine restarts the process.  Clients and the
\* operator owe nothing.
Fairness == WF_vars(MainStep) /\ WF_vars(ListenerStep) /\ WF_vars(Restart)

FairSpec == Spec /\ Fairness

-----------------------------------------------------------------------------
(* Properties                                                              *)

MainStates == {"boot", "tables", "fill", "activate", "spawn", "loop", "unit",
               "row", "flag", "join", "stopped", "down"}
ListenerStates == {"off", "connect", "check", "recv", "ack", "read", "body",
                   "send", "done", "dead"}

RowsOK(rows) == /\ rows = [r \in RowNames |-> rows[r]]
                /\ \A r \in RowNames : rows[r] \in Cells(r)

TableOK(table) == /\ table = [u \in Units |-> table[u]]
                  /\ \A u \in Units : RowsOK(table[u])

DatabaseOK ==
    /\ catalog \in {"absent", "created", "empty", "filled"}
    /\ activate \in {"0", "1"}
    /\ state \in [Units -> {0, 1}]
    /\ TableOK(db)

MainOK ==
    /\ mpc \in MainStates
    /\ mi \in 1..(Len(Models) + 1)
    /\ ri \in 1..Len(InitOrder)
    /\ mpc \in {"row", "flag"} => mi <= Len(Models)

ListenerOK ==
    /\ lpc \in ListenerStates
    /\ inbox \in Seq(Datagrams) /\ Len(inbox) <= QueueBound
    /\ tc \in Telecommands \cup {NoTc} /\ ready \in BOOLEAN
    /\ RowsOK(dict)
    /\ pos \in Nat \ {0}
    /\ outgoing \in Seq(Messages) /\ replies \in Seq(Messages)
    /\ lpc \in {"ack", "read", "body", "send"} => tc \in Telecommands
    /\ lpc \in {"read", "body", "send"} => tc.type \in Implemented
    /\ lpc = "ack" => pos = 1
    /\ lpc = "read" => pos <= Len(Reads(tc.type))
    /\ lpc = "body" => pos <= Len(Accesses(tc)) + 1
    /\ lpc = "body" /\ tc.type = 6 /\ pos > 1 => KnownMemories(tc)
    /\ lpc = "send" => outgoing # << >>

\* Type correctness of every variable, with the ranges of the program
\* counters' indices.
TypeOK ==
    /\ DatabaseOK /\ MainOK /\ ListenerOK
    /\ late \in Nat /\ controls \in Nat /\ crashes \in Nat

\* The commands of which RestoresUnseen holds, and the row they write raw.
UnseenWriters == { d \in Telecommands : RestoresUnseen(d) }
Clobbered(r)  == r = "Memory" /\ UnseenWriters # {}

\* bcr.py writes STATE after the seven rows, so a unit that is declared
\* initialised has a dictionary in every row, whatever the listener does in
\* between and wherever the process is killed.  The one exception is the
\* Memory row under a CHANGE HEALTH to healthy taken while the row was raw.
SealedRows ==
    \A u \in Units : state[u] = 1 =>
        \A r \in RowNames : db[u][r].json \/ Clobbered(r)

\* From the read of a row to the end of the handler, the copy of a dictionary
\* is what the table holds.  The copy of a row that was raw when it was read
\* may be stale: the unit model writes the row meanwhile.
SnapshotFresh ==
    \A r \in RowNames : dict[r].json => db[Unit(tc)][r] = dict[r]

\* Handlers read a row in one transaction and write the whole row back from
\* their copy in a later one, while the main thread writes rows too.  A row
\* changes in three ways only: a unit model writes its defaults over a raw
\* row, never over what a handler has stored; a handler applies its command to
\* what the row holds at that moment, not to what it held at the read; or a
\* CHANGE HEALTH to healthy, taken before the unit was initialised, writes the
\* raw row it has read over the Memory row, and that update is lost.
UpdateKept ==
    [][ \A u \in Units, r \in RowNames :
            db'[u][r] # db[u][r] =>
                \/ ~db[u][r].json /\ db'[u][r] = Json(DefaultRow(r))
                \/ /\ InBody /\ u = Unit(tc) /\ r = Accesses(tc)[pos]
                   /\ \/ /\ db[u][r].json
                         /\ db'[u][r] = Json(NewValue(tc, db[u][r].val))
                      \/ /\ RestoresUnseen(tc) /\ ~ready
                         /\ db'[u][r] = Raw(r) ]_vars

\* The listener is back at its loop after a telecommand.
Finished == lpc = "check" /\ tc # NoTc

Sent(m) == { i \in 1..Len(replies) : replies[i].type = m.type
                                        /\ replies[i].sub = m.sub }
AckOk  == Ack([failed |-> FALSE])
DoneOk == Completion([failed |-> FALSE])

\* What the tables and the two threads are at each stage of the start-up.  No
\* row holds a dictionary before its unit model has written it, and nothing
\* but the listener's late CHANGE HEALTH can undo that.
UntouchedBefore(u) == \A r \in RowNames : ~db[u][r].json

Building == {"tables", "fill", "activate", "spawn", "loop", "unit", "row",
             "flag"}

StartupInv ==
    /\ catalog # "filled" => db = NoTable /\ state = [u \in Units |-> 0]
    /\ mpc \in {"tables", "fill"} => catalog # "filled"
    /\ mpc \notin {"boot", "tables", "fill", "down"} => catalog = "filled"
    /\ mpc \in {"boot", "tables", "fill", "activate", "spawn", "down"} =>
            lpc = "off"
    /\ \A u \in Units :
            state[u] = 0 /\ mpc \in Building
                /\ ~(mpc \in {"row", "flag"} /\ u = Models[mi])
            => UntouchedBefore(u)
    /\ mpc \in {"row", "flag"} => state[Models[mi]] = 0
    /\ mpc = "row" =>
            \A k \in 1..Len(InitOrder) :
                db[Models[mi]][InitOrder[k]].json <=> k < ri
    /\ mpc = "flag" =>
            \A r \in RowNames : db[Models[mi]][r].json \/ Clobbered(r)

\* The inductive invariant of Semsim's safety properties.
IInv == TypeOK /\ StartupInv /\ SealedRows /\ SnapshotFresh

\* A telecommand for an initialised unit that was handled to the end has been
\* answered with one acceptance report, first, and with exactly one completion
\* report if its service is implemented, which only PUS 5 sends before a
\* report of its own.
CommandAnswered ==
    Finished /\ ready =>
        /\ Sent(AckOk) = {1}
        /\ tc.type \notin Implemented => Len(replies) = 1
        /\ tc.type \in Implemented =>
              Sent(DoneOk) = IF tc.type = 5 THEN {2} ELSE {Len(replies)}

\* The list of disabled events that PUS 5 reports is the one in the tables at
\* the moment the handler ends: the report was built from copies.
EventListCurrent ==
    Finished /\ ready /\ tc.type = 5 /\ tc.subtype = 7 =>
        replies[3].ids = { e \in {2560, 2561} : ~Row(EventRow(e)).val.ev }

\* A memory unit holds data at one address at most: a LOAD or a CHANGE HEALTH
\* at a new address replaces the dictionary of the unit, and a COPY creates no
\* address.
OneAddress ==
    \A u \in Units, m \in MemIds, a, b \in Addr :
        /\ Holds(db[u]["Memory"].val, m, a)
        /\ Holds(db[u]["Memory"].val, m, b)
        => a = b

\* An address that was marked unhealthy stays so until an ERASE of it, a COPY
\* onto it, or a command that replaces the dictionary of the memory unit; in
\* particular no LOAD reaches it.
UnhealthyKept ==
    [][ \A u \in Units, m \in MemIds, a \in Addr :
            LET old == db[u]["Memory"].val[m][a]
                new == db'[u]["Memory"].val[m][a]
            IN  old = Unhealthy /\ new # Unhealthy =>
                    \/ new = Absent
                    \/ tc.subtype = 129 /\ new = Zeros
                    \/ /\ tc.subtype = 128
                       /\ tc.dstMemoryId = m /\ tc.dstAddress = a ]_vars

\* activate may be switched off while the unit models work, and on again; the
\* main thread, once it waits for the listener, never looks again.  It leaves
\* behind the units of Models either all initialised or all untouched.
AllOrNothing ==
    mpc = "join" =>
        \/ \A i \in 1..Len(Models) : state[Models[i]] = 1
        \/ \A u \in Units : state[u] = 0 /\ UntouchedBefore(u)

\* After the operator has written activate = 0, the listener, which is blocked
\* in recvfrom, serves one more datagram and no second one.
LateBound == late <= 1

\* Why a telecommand for an initialised unit can end the listener thread: an
\* identifier that no dictionary has, a checksum of nothing, or a text that is
\* too long for its row.
KillsListener(d) ==
    \/ d.type = 20 /\ \E i \in 1..Len(d.paramId) :
            ParamRow(d.paramId[i]) # "none" /\ d.paramId[i] \notin ParamIds
    \/ d.type = 6 /\ d.subtype \in MemorySubtypes /\ ~KnownMemories(d)
    \/ /\ d.type = 6 /\ d.subtype = 9
       /\ db[Unit(d)]["Memory"].val[d.memoryId][d.StartAddress] = EmptyBlock
    \/ /\ d.type \in {6, 8} /\ Accesses(d) # << >>
       /\ Overflows(d, db[Unit(d)][Accesses(d)[1]].val)

\* The listener ends only by a datagram that does not decode, a telecommand
\* for a unit that was not yet initialised when it arrived, or a telecommand
\* that KillsListener describes.  A Memory row that an UnseenWriter clobbered
\* raises too.
DeathCause ==
    \/ lpc = "recv" /\ Head(inbox).form = "garbled"
    \/ lpc = "body" /\ (\/ ~ready
                        \/ KillsListener(tc)
                        \/ tc.type = 6 /\ UnseenWriters # {})

DeathHasCause == [][ lpc' = "dead" /\ lpc # "dead" => DeathCause ]_vars

Store == INSTANCE UnitStore

\* Through all interleavings of the two threads, kills and restarts, the
\* tables change as the atomic abstract store does.
ImplementsUnitStore == Store!Spec

\* A unit model that starts to write its table finishes, unless the process
\* is killed.
UnitInitialised ==
    \A u \in Units :
        (mpc = "row" /\ Models[mi] = u) ~> (state[u] = 1 \/ mpc = "down")

\* A telecommand that was taken is handled to the end: the listener returns to
\* its loop, or its thread or process ends.
CommandFinishes == lpc = "ack" ~> lpc \in {"check", "dead", "off"}

\* A deactivated process stops if one more datagram reaches it: the listener
\* is blocked in recvfrom, and the main thread waits for the listener.
ShutdownCompletes ==
    (activate = "0" /\ inbox # << >>) ~>
        (mpc \in {"stopped", "down"} \/ activate = "1")
=============================================================================
