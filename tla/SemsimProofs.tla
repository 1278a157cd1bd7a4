----------------------------- MODULE SemsimProofs -----------------------------
(***************************************************************************)
(* Proofs about Semsim, for all sets of datagrams, all lists of models and *)
(* all bounds: the start of the process and its tables first, then what a  *)
(* telecommand leaves in the tables and what its sender is told, for all   *)
(* interleavings with the main thread, the operator, kills and restarts:   *)
(* each memory unit holds one address, an unhealthy mark stays, a handled  *)
(* command has been answered as its service answers, and the listener      *)
(* thread ends for no other cause than the datagram's own.                 *)
(***************************************************************************)
EXTENDS Semsim, BcrServicesProofs, TLAPS

LEMMA TelecommandWellFormed == \A d \in Telecommands : WellFormed(d)
  BY DatagramsAssumption DEF Telecommands

LEMMA NoDictOK == RowsOK(NoDict)
  BY DefaultRowTyped DEF NoDict, RowsOK

LEMMA NoTableOK == TableOK(NoTable)
  BY NoDictOK DEF NoTable, TableOK

\* Replacing one row keeps the rows typed.
LEMMA SetRowOK ==
    ASSUME NEW rows, RowsOK(rows), NEW r \in RowNames, NEW c \in Cells(r)
    PROVE  RowsOK([rows EXCEPT ![r] = c])
  BY DEF RowsOK

LEMMA SetTableRowOK ==
    ASSUME NEW table, TableOK(table), NEW u \in Units, NEW r \in RowNames,
           NEW c \in Cells(r)
    PROVE  TableOK([table EXCEPT ![u] = [@ EXCEPT ![r] = c]])
<1>1. RowsOK(table[u])
  BY DEF TableOK
<1>2. RowsOK([table[u] EXCEPT ![r] = c])
  BY <1>1, SetRowOK
<1> QED
  BY <1>2 DEF TableOK

LEMMA ModelTyped ==
    /\ Len(Models) \in Nat
    /\ \A i \in 1..Len(Models) : Models[i] \in Units
  BY ModelsAssumption

-----------------------------------------------------------------------------
(* Type correctness                                                        *)

LEMMA InitTypeOK == Init => TypeOK
<1> SUFFICES ASSUME Init PROVE TypeOK
  OBVIOUS
<1>1. DatabaseOK
  BY NoTableOK DEF Init, DatabaseOK
<1>2. MainOK
  BY ModelTyped, InitOrderRows DEF Init, MainOK, MainStates
<1>3. ListenerOK
  <2>1. inbox \in Seq(Datagrams) /\ Len(inbox) <= QueueBound
    BY BoundsAssumption DEF Init
  <2>2. outgoing \in Seq(Messages) /\ replies \in Seq(Messages)
    BY DEF Init
  <2>3. lpc = "off" /\ tc = NoTc /\ ready = FALSE /\ pos = 1 /\ dict = NoDict
    BY DEF Init
  <2>4. RowsOK(dict) /\ ready \in BOOLEAN
    BY <2>3, NoDictOK, Zenon
  <2>5. /\ lpc \in ListenerStates /\ tc \in Telecommands \cup {NoTc}
        /\ pos \in Nat \ {0}
    BY <2>3 DEF ListenerStates
  <2>6. lpc \notin {"ack", "read", "body", "send"}
    BY <2>3
  <2> QED
    BY <2>1, <2>2, <2>4, <2>5, <2>6, Zenon DEF ListenerOK
<1> QED
  BY <1>1, <1>2, <1>3 DEF Init, TypeOK

\* A step of the main thread leaves the listener's state alone, but for the
\* moment it starts it.
LEMMA MainStepTypeOK == TypeOK /\ MainStep => TypeOK'
<1> SUFFICES ASSUME TypeOK, MainStep PROVE TypeOK'
  OBVIOUS
<1> USE DEF TypeOK, dbVars, mainVars, handler, listener, bounds
<1> USE ModelTyped, InitOrderRows
<1>1. CASE CreateDb
  BY <1>1 DEF CreateDb, DatabaseOK, MainOK, ListenerOK, MainStates
<1>2. CASE CreateDbRaises
  BY <1>2 DEF CreateDbRaises, DatabaseOK, MainOK, ListenerOK, MainStates
<1>3. CASE CreateTables
  BY <1>3 DEF CreateTables, DatabaseOK, MainOK, ListenerOK, MainStates
<1>4. CASE FillTables
  BY <1>4, NoTableOK
     DEF FillTables, DatabaseOK, MainOK, ListenerOK, MainStates
<1>5. CASE RtosInitialisation
  BY <1>5 DEF RtosInitialisation, DatabaseOK, MainOK, ListenerOK, MainStates
<1>6. CASE StartListener
  BY <1>6
     DEF StartListener, DatabaseOK, MainOK, ListenerOK, MainStates,
         ListenerStates
<1>7. CASE CheckRtosMain
  BY <1>7 DEF CheckRtosMain, DatabaseOK, MainOK, ListenerOK, MainStates
<1>8. CASE EndOfPass
  BY <1>8 DEF EndOfPass, DatabaseOK, MainOK, ListenerOK, MainStates
<1>9. CASE ReadState
  BY <1>9 DEF ReadState, DatabaseOK, MainOK, ListenerOK, MainStates
<1>10. CASE InitRow
  <2> DEFINE u == Models[mi]
             r == InitOrder[ri]
  <2>1. u \in Units /\ r \in RowNames
    BY <1>10 DEF InitRow, MainOK
  <2>2. TableOK(db')
    BY <1>10, <2>1, SetTableRowOK, DefaultRowTyped DEF InitRow, DatabaseOK
  <2>3. DatabaseOK'
    BY <1>10, <2>2 DEF InitRow, DatabaseOK
  <2>4. MainOK' /\ ListenerOK'
    BY <1>10 DEF InitRow, MainOK, ListenerOK, MainStates
  <2> QED
    BY <1>10, <2>3, <2>4 DEF InitRow
<1>11. CASE SetState
  BY <1>11 DEF SetState, DatabaseOK, MainOK, ListenerOK, MainStates
<1>12. CASE JoinListener
  BY <1>12 DEF JoinListener, DatabaseOK, MainOK, ListenerOK, MainStates
<1> QED
  BY <1>1, <1>2, <1>3, <1>4, <1>5, <1>6, <1>7, <1>8, <1>9, <1>10, <1>11,
     <1>12 DEF MainStep

\* The telecommand being handled.
LEMMA HandledTyped ==
    ASSUME ListenerOK, lpc \in {"ack", "read", "body", "send"}
    PROVE  /\ tc \in Telecommands /\ tc \in Datagrams /\ WellFormed(tc)
           /\ Unit(tc) \in Units
           /\ lpc # "ack" => tc.type \in Implemented
  BY TelecommandWellFormed, UnitInUnits DEF ListenerOK, Telecommands

\* A row of the addressed unit.
LEMMA RowTyped ==
    ASSUME TypeOK, Unit(tc) \in Units, NEW r \in RowNames
    PROVE  Row(r) \in Cells(r) /\ dict[r] \in Cells(r)
  BY DEF TypeOK, DatabaseOK, ListenerOK, TableOK, RowsOK, Row

LEMMA ReportRowTyped ==
    ASSUME TypeOK, Unit(tc) \in Units
    PROVE  /\ Row("acceptanceVerificationReport").val \in [failed : BOOLEAN]
           /\ Row("completionOfExecVerificationReport").val
                    \in [failed : BOOLEAN]
<1>1. /\ "acceptanceVerificationReport" \in RowNames
      /\ "completionOfExecVerificationReport" \in RowNames
  BY DEF RowNames
<1>2. /\ RowValues("acceptanceVerificationReport") = [failed : BOOLEAN]
      /\ RowValues("completionOfExecVerificationReport") = [failed : BOOLEAN]
  BY DEF RowValues
<1> QED
  BY <1>1, <1>2, RowTyped DEF Cells

\* What an access of a handler's body writes.
LEMMA AccessTyped ==
    ASSUME TypeOK, InBody, Accesses(tc)[pos] # "none", ~Raises
    PROVE  LET r    == Accesses(tc)[pos]
               cell == dict[r]
               new  == IF cell.json THEN Json(NewValue(tc, cell.val)) ELSE cell
           IN  /\ r \in RowNames
               /\ Stores(tc, cell.val) => new \in Cells(r)
<1> DEFINE r    == Accesses(tc)[pos]
           cell == dict[r]
           new  == IF cell.json THEN Json(NewValue(tc, cell.val)) ELSE cell
<1>1. /\ WellFormed(tc) /\ Unit(tc) \in Units
      /\ pos \in 1..Len(Accesses(tc))
  <2>1. WellFormed(tc) /\ Unit(tc) \in Units
    BY HandledTyped DEF TypeOK, InBody
  <2> QED
    BY <2>1, AccessesTyped DEF TypeOK, ListenerOK, InBody
<1>2. r \in RowNames
  BY <1>1, AccessesTyped
<1>3. cell \in Cells(r) /\ cell.val \in RowValues(r)
  BY <1>1, <1>2, RowTyped DEF Cells
<1>4. ~Fails(tc, pos, cell.val)
  BY DEF Raises
<1>5. Stores(tc, cell.val) => NewValue(tc, cell.val) \in RowValues(r)
  BY <1>1, <1>3, <1>4, NewValueTyped
<1>6. Stores(tc, cell.val) => new \in Cells(r)
  BY <1>3, <1>5 DEF Json, Cells
<1> QED
  BY <1>2, <1>6

LEMMA ListenerStepTypeOK == TypeOK /\ ListenerStep => TypeOK'
<1> SUFFICES ASSUME TypeOK, ListenerStep PROVE TypeOK'
  OBVIOUS
<1> USE DEF TypeOK, dbVars, mainVars, handler, bounds
<1>13. CASE ConnectListener
  <2>1. ListenerOK'
    BY <1>13 DEF ConnectListener, ListenerOK, ListenerStates
  <2> QED
    BY <1>13, <2>1 DEF ConnectListener, DatabaseOK, MainOK
<1>1. CASE CheckRtosListener
  <2>1. inbox' \in Seq(Datagrams) /\ Len(inbox') <= QueueBound
    <3>1. inbox' = inbox \/ inbox' = << >>
      BY <1>1 DEF CheckRtosListener
    <3>2. << >> \in Seq(Datagrams) /\ Len(<< >>) <= QueueBound
      BY BoundsAssumption
    <3> QED
      BY <3>1, <3>2 DEF ListenerOK
  <2>2. ListenerOK'
    BY <1>1, <2>1 DEF CheckRtosListener, ListenerOK, ListenerStates
  <2> QED
    BY <1>1, <2>2 DEF CheckRtosListener, DatabaseOK, MainOK
<1>2. CASE RecvEmpty
  <2>1. inbox' \in Seq(Datagrams) /\ Len(inbox') <= QueueBound
    BY <1>2, BoundsAssumption DEF RecvEmpty, Take, ListenerOK
  <2>2. ListenerOK'
    BY <1>2, <2>1 DEF RecvEmpty, ListenerOK, ListenerStates
  <2> QED
    BY <1>2, <2>2 DEF RecvEmpty, Take, DatabaseOK, MainOK
<1>3. CASE RecvGarbled
  <2>1. ListenerOK'
    BY <1>3, BoundsAssumption DEF RecvGarbled, Die, ListenerOK, ListenerStates
  <2> QED
    BY <1>3, <2>1 DEF RecvGarbled, Take, DatabaseOK, MainOK
<1>4. CASE RecvTelecommand
  <2>1. Head(inbox) \in Telecommands
    BY <1>4 DEF RecvTelecommand, Take, ListenerOK, Telecommands
  <2>2. ready' \in BOOLEAN
    BY <1>4 DEF RecvTelecommand
  <2>3. outgoing' \in Seq(Messages) /\ replies' \in Seq(Messages)
    BY <1>4 DEF RecvTelecommand
  <2>4. RowsOK(dict')
    BY <1>4, NoDictOK DEF RecvTelecommand
  <2>5. inbox' \in Seq(Datagrams) /\ Len(inbox') <= QueueBound
    BY <1>4, BoundsAssumption DEF RecvTelecommand, Take, ListenerOK
  <2>6. ListenerOK'
    BY <1>4, <2>1, <2>2, <2>3, <2>4, <2>5
       DEF RecvTelecommand, ListenerOK, ListenerStates
  <2> QED
    BY <1>4, <2>6 DEF RecvTelecommand, Take, DatabaseOK, MainOK
<1>5. CASE Acknowledge
  <2>1. Ack(Row("acceptanceVerificationReport").val) \in Messages
    BY <1>5, HandledTyped, ReportRowTyped, VerificationTyped DEF Acknowledge
  <2>2. replies' \in Seq(Messages)
    BY <1>5, <2>1 DEF Acknowledge
  <2>3. tc.type \in Implemented => pos <= Len(Reads(tc.type))
    BY <1>5, ReadsTyped DEF Acknowledge, ListenerOK
  <2>4. ListenerOK'
    BY <1>5, <2>2, <2>3, HandledTyped
       DEF Acknowledge, ListenerOK, ListenerStates
  <2> QED
    BY <1>5, <2>4 DEF Acknowledge, DatabaseOK, MainOK
<1>6. CASE ReadRow
  <2> DEFINE r == Reads(tc.type)[pos]
  <2>1. r \in RowNames
    BY <1>6, ReadsTyped DEF ReadRow, ListenerOK
  <2>2. Row(r) \in Cells(r)
    BY <1>6, <2>1, HandledTyped, RowTyped DEF ReadRow
  <2>3. RowsOK(dict')
    BY <1>6, <2>1, <2>2, SetRowOK DEF ReadRow, ListenerOK
  <2>4. Len(Accesses(tc)) \in Nat /\ Len(Reads(tc.type)) \in Nat
    BY <1>6, HandledTyped, AccessesTyped, ReadsTyped DEF ReadRow
  <2>5. ListenerOK'
    BY <1>6, <2>3, <2>4 DEF ReadRow, ListenerOK, ListenerStates
  <2> QED
    BY <1>6, <2>5 DEF ReadRow, DatabaseOK, MainOK
<1>7. CASE SkipAccess
  <2>1. WellFormed(tc) /\ Len(Accesses(tc)) \in Nat
    BY <1>7, HandledTyped, AccessesTyped DEF SkipAccess, InBody
  <2>2. pos \in 1..Len(Accesses(tc))
    BY <1>7, <2>1 DEF SkipAccess, InBody, ListenerOK
  <2>3. tc.type # 6
    <3>1. CASE tc.type = 6 /\ tc.subtype \in MemorySubtypes
      <4>1. Accesses(tc) = <<"Memory">>
        BY <3>1, AccessesCases, Zenon
      <4> QED
        BY <1>7, <2>2, <4>1 DEF SkipAccess
    <3>2. CASE tc.type = 6 /\ tc.subtype \notin MemorySubtypes
      <4>1. tc.type # 5 /\ tc.type # 8 /\ tc.type # 20
        BY <3>2
      <4>2. Accesses(tc) = << >>
        BY <3>2, <4>1, AccessesCases, Zenon
      <4> QED
        BY <2>2, <4>2
    <3> QED
      BY <3>1, <3>2
  <2>4. ListenerOK'
    BY <1>7, <2>1, <2>2, <2>3
       DEF SkipAccess, InBody, ListenerOK, ListenerStates
  <2> QED
    BY <1>7, <2>4 DEF SkipAccess, DatabaseOK, MainOK
<1>8. CASE BodyRaises
  <2>1. ListenerOK'
    BY <1>8, BoundsAssumption DEF BodyRaises, Die, ListenerOK, ListenerStates
  <2> QED
    BY <1>8, <2>1 DEF BodyRaises, DatabaseOK, MainOK
<1>9. CASE Access
  <2> DEFINE u    == Unit(tc)
             r    == Accesses(tc)[pos]
             cell == dict[r]
             new  == IF cell.json THEN Json(NewValue(tc, cell.val)) ELSE cell
  <2>1. InBody /\ r # "none" /\ ~Raises
    BY <1>9 DEF Access
  <2>2. r \in RowNames /\ (Stores(tc, cell.val) => new \in Cells(r))
    BY <2>1, AccessTyped
  <2>3. WellFormed(tc) /\ u \in Units /\ Len(Accesses(tc)) \in Nat
    BY <2>1, HandledTyped, AccessesTyped DEF InBody
  <2>4. RowsOK(dict') /\ TableOK(db')
    <3>1. CASE Stores(tc, cell.val)
      <4>1. /\ dict' = [dict EXCEPT ![r] = new]
            /\ db' = [db EXCEPT ![u] = [@ EXCEPT ![r] = new]]
        BY <1>9, <3>1 DEF Access
      <4> QED
        BY <2>2, <2>3, <3>1, <4>1, SetRowOK, SetTableRowOK
           DEF ListenerOK, DatabaseOK
    <3>2. CASE ~Stores(tc, cell.val)
      BY <1>9, <3>2 DEF Access, ListenerOK, DatabaseOK
    <3> QED
      BY <3>1, <3>2
  <2>5. tc.type = 6 => KnownMemories(tc)
    BY <2>1 DEF Raises, Fails
  <2>6. DatabaseOK' /\ MainOK'
    BY <1>9, <2>4 DEF Access, DatabaseOK, MainOK
  <2>7. ListenerOK'
    BY <1>9, <2>1, <2>3, <2>4, <2>5
       DEF Access, InBody, ListenerOK, ListenerStates
  <2> QED
    BY <1>9, <2>6, <2>7 DEF Access
<1>10. CASE Verify
  <2>1. lpc = "body" /\ WellFormed(tc) /\ Unit(tc) \in Units
        /\ tc.type \in Implemented
    BY <1>10, HandledTyped DEF Verify
  <2>2. "Memory" \in RowNames /\ RowValues("Memory") = MemoryValues
    BY DEF RowNames, RowValues
  <2>3. dict["Memory"].val \in MemoryValues
    BY <2>1, <2>2, RowTyped DEF Cells
  <2>4. tc.type = 6 /\ tc.subtype \in MemorySubtypes => KnownMemories(tc)
    <3> SUFFICES ASSUME tc.type = 6, tc.subtype \in MemorySubtypes
                 PROVE  KnownMemories(tc)
      OBVIOUS
    <3>1. Accesses(tc) = <<"Memory">>
      BY AccessesCases, Zenon
    <3>2. pos > 1
      BY <1>10, <3>1 DEF Verify, ListenerOK
    <3> QED
      BY <2>1, <3>2 DEF ListenerOK
  <2>5. Row("completionOfExecVerificationReport").val \in [failed : BOOLEAN]
    BY <2>1, ReportRowTyped
  <2>6. outgoing' \in Seq(Messages) /\ outgoing' # << >>
    BY <1>10, <2>1, <2>3, <2>4, <2>5, AnswersTyped DEF Verify
  <2>7. ListenerOK'
    BY <1>10, <2>6 DEF Verify, ListenerOK, ListenerStates
  <2> QED
    BY <1>10, <2>7 DEF Verify, DatabaseOK, MainOK
<1>11. CASE VerifyRaises
  <2>1. ListenerOK'
    BY <1>11, BoundsAssumption
       DEF VerifyRaises, Die, ListenerOK, ListenerStates
  <2> QED
    BY <1>11, <2>1 DEF VerifyRaises, DatabaseOK, MainOK
<1>12. CASE SendAnswer
  <2>1. outgoing \in Seq(Messages) /\ outgoing # << >>
    BY <1>12 DEF SendAnswer, ListenerOK
  <2>2. outgoing' \in Seq(Messages) /\ replies' \in Seq(Messages)
    BY <1>12, <2>1 DEF SendAnswer, ListenerOK
  <2>3. RowsOK(dict') /\ pos' \in Nat \ {0}
    BY <1>12, NoDictOK DEF SendAnswer, ListenerOK
  <2>4. ListenerOK'
    BY <1>12, <2>2, <2>3 DEF SendAnswer, ListenerOK, ListenerStates
  <2> QED
    BY <1>12, <2>4 DEF SendAnswer, DatabaseOK, MainOK
<1> QED
  BY <1>1, <1>2, <1>3, <1>4, <1>5, <1>6, <1>7, <1>8, <1>9, <1>10, <1>11,
     <1>12, <1>13 DEF ListenerStep

\* Clients, the operator, kills and restarts.
LEMMA EnvironmentTypeOK ==
    ASSUME TypeOK,
           \/ \E d \in Datagrams : Send(d)
           \/ \E v \in {"0", "1"} : ControlRtos(v)
           \/ Crash
           \/ Restart
    PROVE  TypeOK'
<1> USE DEF TypeOK, dbVars, mainVars, handler
<1>1. ASSUME NEW d \in Datagrams, Send(d) PROVE TypeOK'
  <2>1. inbox' \in Seq(Datagrams) /\ Len(inbox') <= QueueBound
    BY <1>1, BoundsAssumption DEF Send, ListenerOK
  <2>2. ListenerOK'
    BY <1>1, <2>1 DEF Send, ListenerOK
  <2> QED
    BY <1>1, <2>2 DEF Send, DatabaseOK, MainOK, bounds
<1>2. ASSUME NEW v \in {"0", "1"}, ControlRtos(v) PROVE TypeOK'
  BY <1>2 DEF ControlRtos, DatabaseOK, MainOK, ListenerOK
<1>3. EndOfProcess => ListenerOK'
  <2> SUFFICES ASSUME EndOfProcess PROVE ListenerOK'
    OBVIOUS
  <2>1. /\ inbox' \in Seq(Datagrams) /\ Len(inbox') <= QueueBound
        /\ outgoing' \in Seq(Messages) /\ replies' \in Seq(Messages)
    BY BoundsAssumption DEF EndOfProcess
  <2>2. lpc' = "off" /\ tc' = NoTc /\ ready' = FALSE /\ pos' = 1
        /\ dict' = NoDict
    BY DEF EndOfProcess
  <2>3. /\ lpc' \in ListenerStates /\ tc' \in Telecommands \cup {NoTc}
        /\ pos' \in Nat \ {0}
    BY <2>2 DEF ListenerStates
  <2>4. RowsOK(dict') /\ ready' \in BOOLEAN
    BY <2>2, NoDictOK, Zenon
  <2>5. lpc' \notin {"ack", "read", "body", "send"}
    BY <2>2
  <2> QED
    BY <2>1, <2>3, <2>4, <2>5, Zenon DEF ListenerOK
<1>4. CASE Crash
  BY <1>3, <1>4 DEF Crash, EndOfProcess, DatabaseOK, MainOK, MainStates
<1>5. CASE Restart
  BY <1>3, <1>5 DEF Restart, EndOfProcess, DatabaseOK, MainOK, MainStates
<1> QED
  BY <1>1, <1>2, <1>4, <1>5

LEMMA StutterTypeOK == TypeOK /\ UNCHANGED vars => TypeOK'
  BY DEF TypeOK, DatabaseOK, MainOK, ListenerOK, vars, dbVars, mainVars,
         listener, handler, bounds

\* Every variable keeps its type: among others, no index of a program counter
\* leaves its sequence, the socket's buffer keeps its bound, and what is in the
\* tables can always be decoded into a dictionary or is raw.
THEOREM TypeCorrect == Spec => []TypeOK
<1>1. Init => TypeOK
  BY InitTypeOK
<1>2. TypeOK /\ [Next]_vars => TypeOK'
  BY MainStepTypeOK, ListenerStepTypeOK, EnvironmentTypeOK, StutterTypeOK
     DEF Next
<1> QED
  BY <1>1, <1>2, PTL DEF Spec

-----------------------------------------------------------------------------
(* The invariant of the start-up, and what follows from it                 *)

LEMMA TableRow ==
    ASSUME NEW table, TableOK(table), NEW u \in Units, NEW r \in RowNames,
           NEW c, NEW v \in Units, NEW q \in RowNames
    PROVE  [table EXCEPT ![u] = [@ EXCEPT ![r] = c]][v][q] =
                IF v = u /\ q = r THEN c ELSE table[v][q]
  BY DEF TableOK, RowsOK

LEMMA NothingWritten ==
    /\ \A r \in RowNames : ~NoDict[r].json
    /\ \A u \in Units, r \in RowNames : ~NoTable[u][r].json
  BY DEF NoDict, NoTable, Raw

LEMMA InitIInv == Init => IInv
<1> SUFFICES ASSUME Init PROVE IInv
  OBVIOUS
<1>1. TypeOK
  BY InitTypeOK
<1>2. StartupInv
  BY NothingWritten DEF Init, StartupInv, Building
<1>3. SealedRows
  BY DEF Init, SealedRows
<1>4. SnapshotFresh
  BY NothingWritten DEF Init, SnapshotFresh
<1> QED
  BY <1>1, <1>2, <1>3, <1>4 DEF IInv

\* The steps of the main thread that write no row of a unit's table.
LEMMA MainStepKeeps ==
    ASSUME IInv, MainStep, ~InitRow
    PROVE  StartupInv' /\ SealedRows' /\ SnapshotFresh'
<1> USE DEF IInv
<1> USE DEF dbVars, listener, handler, StartupInv, SealedRows, SnapshotFresh,
            Building, UntouchedBefore
<1>1. CASE CreateDb
  BY <1>1, NothingWritten DEF CreateDb
<1>2. CASE CreateDbRaises
  BY <1>2 DEF CreateDbRaises
<1>3. CASE CreateTables
  BY <1>3 DEF CreateTables
<1>4. CASE FillTables
  <2>1. db' = db /\ db = NoTable /\ dict' = dict /\ tc' = tc
    BY <1>4 DEF FillTables
  <2>2. \A u \in Units : state'[u] = 0
    BY <1>4 DEF FillTables
  <2>3. SnapshotFresh' /\ SealedRows'
    BY <2>1, <2>2
  <2> QED
    BY <1>4, <2>1, <2>3, NothingWritten DEF FillTables
<1>5. CASE RtosInitialisation
  BY <1>5 DEF RtosInitialisation
<1>6. CASE StartListener
  BY <1>6 DEF StartListener
<1>7. CASE CheckRtosMain
  BY <1>7 DEF CheckRtosMain
<1>8. CASE EndOfPass
  BY <1>8 DEF EndOfPass
<1>9. CASE ReadState
  <2>1. Models[mi] \in Units
    BY <1>9, ModelTyped DEF ReadState, TypeOK, MainOK
  <2>2. \A k \in 1..Len(InitOrder) : InitOrder[k] \in RowNames /\ ~(k < 1)
    BY InitOrderRows
  <2>3. CASE state[Models[mi]] = 0
    BY <1>9, <2>1, <2>2, <2>3 DEF ReadState
  <2>4. CASE state[Models[mi]] # 0
    BY <1>9, <2>4 DEF ReadState
  <2> QED
    BY <2>3, <2>4
<1>10. CASE SetState
  <2>1. Models[mi] \in Units
    BY <1>10, ModelTyped DEF SetState, TypeOK, MainOK
  <2>2. \A u \in Units :
            state'[u] = IF u = Models[mi] THEN 1 ELSE state[u]
    BY <1>10, <2>1 DEF SetState, TypeOK, DatabaseOK
  <2>3. /\ db' = db /\ catalog' = catalog /\ mpc' = "unit" /\ lpc' = lpc
        /\ dict' = dict /\ tc' = tc /\ mpc = "flag"
    BY <1>10 DEF SetState
  <2>4. catalog = "filled"
    BY <2>3
  <2>5. SealedRows'
    BY <2>1, <2>2, <2>3 DEF Clobbered
  <2>6. StartupInv'
    BY <2>1, <2>2, <2>3, <2>4
  <2> QED
    BY <2>3, <2>5, <2>6
<1>11. CASE JoinListener
  BY <1>11 DEF JoinListener
<1> QED
  BY <1>1, <1>2, <1>3, <1>4, <1>5, <1>6, <1>7, <1>8, <1>9, <1>10, <1>11
     DEF MainStep

\* A unit model writes a row that holds no dictionary yet, so that it destroys
\* nothing and no handler has a copy to write back.
LEMMA InitRowKeeps ==
    ASSUME IInv, InitRow
    PROVE  StartupInv' /\ SealedRows' /\ SnapshotFresh'
<1> DEFINE u == Models[mi]
           r == InitOrder[ri]
           c == Json(DefaultRow(r))
<1>1. u \in Units /\ r \in RowNames /\ ri \in 1..7 /\ mpc = "row"
  BY ModelTyped, InitOrderRows DEF IInv, InitRow, TypeOK, MainOK
<1>2. db' = [db EXCEPT ![u] = [@ EXCEPT ![r] = c]] /\ TableOK(db)
  BY DEF InitRow, IInv, TypeOK, DatabaseOK
<1>3. \A v \in Units, q \in RowNames :
          db'[v][q] = IF v = u /\ q = r THEN c ELSE db[v][q]
  <2> SUFFICES ASSUME NEW v \in Units, NEW q \in RowNames
               PROVE  db'[v][q] = IF v = u /\ q = r THEN c ELSE db[v][q]
    OBVIOUS
  <2> HIDE DEF u, r, c
  <2> QED
    BY <1>1, <1>2, TableRow
<1>4. c.json
  BY DEF Json
<1>5. /\ state[u] = 0 /\ ~db[u][r].json
      /\ \A k \in 1..7 : db[u][InitOrder[k]].json <=> k < ri
  BY <1>1, InitOrderRows DEF IInv, StartupInv
<1>6. /\ state' = state /\ catalog' = catalog /\ mi' = mi /\ lpc' = lpc
      /\ dict' = dict /\ tc' = tc
      /\ IF ri = 7 THEN mpc' = "flag" /\ ri' = ri
                   ELSE mpc' = "row" /\ ri' = ri + 1
  BY InitOrderRows DEF InitRow, listener, handler
<1>7. SealedRows'
  BY <1>1, <1>3, <1>4, <1>6 DEF IInv, SealedRows, Clobbered
<1>8. SnapshotFresh'
  <2> SUFFICES ASSUME NEW q \in RowNames, dict[q].json
               PROVE  db'[Unit(tc)][q] = dict[q]
    BY <1>6 DEF SnapshotFresh
  <2>1. Unit(tc) \in Units /\ db[Unit(tc)][q] = dict[q]
    BY UnitInUnits DEF IInv, SnapshotFresh
  <2>2. ~(Unit(tc) = u /\ q = r)
    BY <1>5, <2>1
  <2> QED
    BY <1>3, <2>1, <2>2
<1>9. catalog = "filled"
  BY <1>1 DEF IInv, StartupInv
<1>10. StartupInv'
  <2>1. \A v \in Units : v # u /\ state[v] = 0 => UntouchedBefore(v)'
    BY <1>1, <1>3 DEF IInv, StartupInv, UntouchedBefore, Building
  <2>2. CASE ri = 7
    <3>1. \A q \in RowNames : db'[u][q].json
      <4> TAKE q \in RowNames
      <4>1. PICK k \in 1..7 : InitOrder[k] = q
        BY InitOrderRows
      <4>2. CASE k = 7
        BY <1>1, <1>3, <1>4, <2>2, <4>1, <4>2
      <4>3. CASE k # 7
        <5>1. db[u][q].json /\ q # r
          BY <1>5, <2>2, <4>1, <4>3, InitOrderRows
        <5> QED
          BY <1>1, <1>3, <5>1
      <4> QED
        BY <4>2, <4>3
    <3> QED
      BY <1>1, <1>5, <1>6, <1>9, <2>1, <2>2, <3>1 DEF StartupInv, Building
  <2>3. CASE ri # 7
    <3>1. \A k \in 1..7 : db'[u][InitOrder[k]].json <=> k < ri + 1
      <4> TAKE k \in 1..7
      <4>1. InitOrder[k] \in RowNames
        BY InitOrderRows
      <4>2. CASE k = ri
        BY <1>1, <1>3, <1>4, <4>1, <4>2
      <4>3. CASE k # ri
        <5>1. InitOrder[k] # r
          BY <1>1, <4>3, InitOrderRows
        <5>2. db'[u][InitOrder[k]] = db[u][InitOrder[k]]
          BY <1>1, <1>3, <4>1, <5>1
        <5>3. k < ri + 1 <=> k < ri
          BY <1>1, <4>3
        <5> QED
          BY <1>5, <5>2, <5>3
      <4> QED
        BY <4>2, <4>3
    <3> QED
      BY <1>1, <1>5, <1>6, <1>9, <2>1, <2>3, <3>1, InitOrderRows
         DEF StartupInv, Building
  <2> QED
    BY <2>2, <2>3
<1> QED
  BY <1>7, <1>8, <1>10

\* The listener's steps that write no row.
LEMMA ListenerStepKeeps ==
    ASSUME IInv, ListenerStep, ~Access
    PROVE  StartupInv' /\ SealedRows' /\ SnapshotFresh'
<1> USE DEF IInv, dbVars, mainVars, handler
<1>1. /\ UNCHANGED <<catalog, state, db, mpc, mi, ri>>
      /\ lpc # "off"
  BY DEF ListenerStep, Take, ConnectListener, CheckRtosListener, RecvEmpty,
         RecvGarbled, RecvTelecommand, Acknowledge, ReadRow, SkipAccess, InBody,
         BodyRaises, Verify, VerifyRaises, SendAnswer
<1>2. StartupInv' /\ SealedRows'
  BY <1>1 DEF StartupInv, SealedRows, UntouchedBefore
<1>3. CASE dict' = NoDict
  BY <1>2, <1>3, NothingWritten DEF SnapshotFresh
<1>4. CASE dict' = dict /\ tc' = tc
  BY <1>1, <1>2, <1>4 DEF SnapshotFresh
<1>5. CASE ReadRow
  <2> DEFINE r == Reads(tc.type)[pos]
  <2>1. r \in RowNames
    BY <1>5, ReadsTyped DEF ReadRow, TypeOK, ListenerOK
  <2>2. \A q \in RowNames : dict'[q] = IF q = r THEN Row(r) ELSE dict[q]
    BY <1>5, <2>1 DEF ReadRow, TypeOK, ListenerOK, RowsOK
  <2>3. tc' = tc
    BY <1>5 DEF ReadRow
  <2> QED
    BY <1>1, <1>2, <2>2, <2>3 DEF SnapshotFresh, Row
<1>6. ReadRow \/ dict' = NoDict \/ (dict' = dict /\ tc' = tc)
  BY DEF ListenerStep, ConnectListener, CheckRtosListener, RecvEmpty,
         RecvGarbled, RecvTelecommand, Acknowledge, SkipAccess, BodyRaises, Verify,
         VerifyRaises, SendAnswer
<1> QED
  BY <1>2, <1>3, <1>4, <1>5, <1>6

\* A handler writes a row back from a copy that is what the row still holds;
\* the copy that holds no dictionary is written over the Memory row only.
LEMMA AccessFresh ==
    ASSUME IInv, Access
    PROVE  /\ UNCHANGED <<catalog, state, mpc, mi, ri, lpc, tc>>
           /\ lpc = "body"
           /\ SnapshotFresh'
           /\ \A v \in Units, q \in RowNames :
                 /\ db'[v][q].json => db[v][q].json
                 /\ db[v][q].json => db'[v][q].json \/ Clobbered(q)
                 /\ q # "Memory" => (db'[v][q].json <=> db[v][q].json)
<1> DEFINE u    == Unit(tc)
           r    == Accesses(tc)[pos]
           cell == dict[r]
           new  == IF cell.json THEN Json(NewValue(tc, cell.val)) ELSE cell
<1>1. /\ UNCHANGED <<catalog, state, mpc, mi, ri, lpc, tc>>
      /\ lpc = "body" /\ InBody /\ r # "none" /\ ~Raises
  BY DEF Access, InBody, mainVars
<1>2. /\ WellFormed(tc) /\ tc \in Telecommands /\ u \in Units
      /\ pos \in 1..Len(Accesses(tc))
  <2>1. WellFormed(tc) /\ tc \in Telecommands /\ u \in Units
    BY <1>1, HandledTyped DEF IInv, TypeOK
  <2> QED
    BY <1>1, <2>1, AccessesTyped DEF IInv, TypeOK, ListenerOK, InBody
<1>3. r \in RowNames
  BY <1>1, <1>2, AccessesTyped
<1>4. CASE ~Stores(tc, cell.val)
  <2>1. UNCHANGED <<dict, db>>
    BY <1>4 DEF Access
  <2> QED
    BY <1>1, <2>1 DEF IInv, SnapshotFresh
<1>5. CASE Stores(tc, cell.val)
  <2>1. /\ dict' = [dict EXCEPT ![r] = new]
        /\ db' = [db EXCEPT ![u] = [@ EXCEPT ![r] = new]]
        /\ TableOK(db) /\ RowsOK(dict)
    BY <1>5 DEF Access, IInv, TypeOK, DatabaseOK, ListenerOK
  <2>2. \A v \in Units, q \in RowNames :
            db'[v][q] = IF v = u /\ q = r THEN new ELSE db[v][q]
    BY <1>2, <1>3, <2>1, TableRow
  <2>3. \A q \in RowNames : dict'[q] = IF q = r THEN new ELSE dict[q]
    BY <1>3, <2>1 DEF RowsOK
  <2>4. SnapshotFresh'
    BY <1>1, <1>2, <2>2, <2>3 DEF IInv, SnapshotFresh
  <2>5. cell.json => new.json /\ db[u][r].json
    BY <1>3 DEF Json, IInv, SnapshotFresh
  <2>6. ~cell.json => ~new.json /\ r = "Memory" /\ Clobbered("Memory")
    <3> SUFFICES ASSUME ~cell.json
                 PROVE  r = "Memory" /\ Clobbered("Memory")
      OBVIOUS
    <3>1. RestoresUnseen(tc)
      BY <1>1 DEF Raises
    <3> QED
      BY <1>1, <1>2, <3>1, AccessRow
         DEF RestoresUnseen, Clobbered, UnseenWriters
  <2>7. \A v \in Units, q \in RowNames :
            /\ db'[v][q].json => db[v][q].json
            /\ db[v][q].json => db'[v][q].json \/ Clobbered(q)
            /\ q # "Memory" => (db'[v][q].json <=> db[v][q].json)
    BY <2>2, <2>5, <2>6
  <2> QED
    BY <1>1, <2>4, <2>7
<1> QED
  BY <1>4, <1>5

LEMMA AccessKeeps ==
    ASSUME IInv, Access
    PROVE  StartupInv' /\ SealedRows' /\ SnapshotFresh'
<1>1. /\ UNCHANGED <<catalog, state, mpc, mi, ri, lpc, tc>>
      /\ lpc = "body" /\ SnapshotFresh'
  BY AccessFresh
<1>2. \A v \in Units, q \in RowNames :
          /\ db'[v][q].json => db[v][q].json
          /\ db[v][q].json => db'[v][q].json \/ Clobbered(q)
          /\ q # "Memory" => (db'[v][q].json <=> db[v][q].json)
  BY AccessFresh
<1>3. SealedRows'
  BY <1>1, <1>2 DEF IInv, SealedRows, Clobbered
<1>4. StartupInv'
  <2>1. \A v \in Units : UntouchedBefore(v) => UntouchedBefore(v)'
    BY <1>2 DEF UntouchedBefore
  <2>2. catalog = "filled"
    BY <1>1 DEF IInv, StartupInv
  <2>3. mpc = "row" =>
            \A k \in 1..Len(InitOrder) :
                db'[Models[mi]][InitOrder[k]].json <=> k < ri
    <3> SUFFICES ASSUME mpc = "row", NEW k \in 1..7
                 PROVE  db'[Models[mi]][InitOrder[k]].json <=> k < ri
      BY InitOrderRows
    <3>1. /\ Models[mi] \in Units /\ InitOrder[k] \in RowNames
          /\ ri \in 1..7
      BY ModelTyped, InitOrderRows DEF IInv, TypeOK, MainOK
    <3>2. db[Models[mi]][InitOrder[k]].json <=> k < ri
      BY InitOrderRows DEF IInv, StartupInv
    <3>3. CASE k = 7
      BY <1>2, <3>1, <3>2, <3>3
    <3>4. CASE k # 7
      <4>1. InitOrder[k] # "Memory"
        BY <3>4, InitOrderRows
      <4> QED
        BY <1>2, <3>1, <3>2, <4>1
    <3> QED
      BY <3>3, <3>4
  <2>4. mpc = "flag" =>
            \A q \in RowNames : db'[Models[mi]][q].json \/ Clobbered(q)
    BY <1>2, ModelTyped DEF IInv, StartupInv, TypeOK, MainOK
  <2> QED
    BY <1>1, <2>1, <2>2, <2>3, <2>4 DEF IInv, StartupInv, Clobbered
<1> QED
  BY <1>1, <1>3, <1>4

\* Clients, the operator, kills and restarts.
LEMMA EnvironmentKeeps ==
    ASSUME IInv,
           \/ \E d \in Datagrams : Send(d)
           \/ \E v \in {"0", "1"} : ControlRtos(v)
           \/ Crash
           \/ Restart
    PROVE  StartupInv' /\ SealedRows' /\ SnapshotFresh'
<1> USE DEF dbVars, mainVars, handler
<1>1. UNCHANGED <<catalog, state, db, mi, ri>>
  BY DEF Send, ControlRtos, Crash, Restart, EndOfProcess
<1>2. CASE UNCHANGED <<mpc, lpc, dict, tc>>
  BY <1>1, <1>2
     DEF IInv, StartupInv, SealedRows, SnapshotFresh, UntouchedBefore
<1>3. CASE mpc' \in {"down", "boot"} /\ lpc' = "off" /\ dict' = NoDict
  BY <1>1, <1>3, NothingWritten
     DEF IInv, StartupInv, SealedRows, SnapshotFresh, UntouchedBefore,
         Building
<1> QED
  BY <1>2, <1>3 DEF Send, ControlRtos, Crash, Restart, EndOfProcess

\* The invariant is inductive.
LEMMA IInvKept == IInv /\ [Next]_vars => IInv'
<1> SUFFICES ASSUME IInv, [Next]_vars PROVE IInv'
  OBVIOUS
<1>1. TypeOK'
  BY MainStepTypeOK, ListenerStepTypeOK, EnvironmentTypeOK, StutterTypeOK
     DEF Next, IInv
<1>2. CASE Next
  BY <1>1, <1>2, MainStepKeeps, InitRowKeeps, ListenerStepKeeps, AccessKeeps,
     EnvironmentKeeps DEF Next, IInv
<1>3. CASE UNCHANGED vars
  BY <1>1, <1>3
     DEF IInv, StartupInv, SealedRows, SnapshotFresh, UntouchedBefore, vars,
         dbVars, mainVars, listener, handler, bounds
<1> QED
  BY <1>2, <1>3

\* The stages of the start-up, the sealed rows and the copies that are still
\* what the tables hold go together: none follows without the others, since a
\* handler that restores a stale copy would unseal a row, and a unit model that
\* wrote over a sealed row would make a copy stale.
THEOREM IInvInvariant == Spec => []IInv
  BY InitIInv, IInvKept, PTL DEF Spec

\* A unit with STATE = 1 holds a dictionary in every row, whatever the listener
\* does meanwhile and wherever the process is killed: init_bytes_state runs
\* before the write of STATE in bcr_nominal and bcr_redundant.
THEOREM SealedRowsHold == Spec => []SealedRows
<1>1. IInv => SealedRows
  BY DEF IInv
<1> QED
  BY <1>1, IInvInvariant, PTL

-----------------------------------------------------------------------------
(* Shutdown                                                                *)

\* Once one datagram has been taken after the deactivation, the listener looks
\* at activate before it can wait for another.
LateInv ==
    \/ late = 0
    \/ late = 1 /\ activate = "0" /\ lpc # "recv"

LEMMA LateInvKept == LateInv /\ [Next]_vars => LateInv'
<1> SUFFICES ASSUME LateInv, [Next]_vars PROVE LateInv'
  OBVIOUS
<1> USE DEF LateInv, dbVars, mainVars, listener, handler
<1>1. CASE MainStep
  BY <1>1 DEF MainStep, CreateDb, CreateDbRaises, CreateTables, FillTables,
     RtosInitialisation, StartListener, CheckRtosMain, EndOfPass, ReadState,
     InitRow, SetState, JoinListener
<1>2. CASE ConnectListener \/ CheckRtosListener
  BY <1>2 DEF ConnectListener, CheckRtosListener
<1>3. CASE RecvEmpty \/ RecvGarbled \/ RecvTelecommand
  BY <1>3 DEF RecvEmpty, RecvGarbled, RecvTelecommand, Take, Die
<1>4. CASE Acknowledge \/ ReadRow \/ SkipAccess \/ BodyRaises \/ Access
  BY <1>4 DEF Acknowledge, ReadRow, SkipAccess, BodyRaises, Access, Die,
     InBody
<1>5. CASE Verify \/ VerifyRaises \/ SendAnswer
  BY <1>5 DEF Verify, VerifyRaises, SendAnswer, Die
<1>6. CASE \E d \in Datagrams : Send(d)
  BY <1>6 DEF Send
<1>7. CASE \E v \in {"0", "1"} : ControlRtos(v)
  BY <1>7 DEF ControlRtos
<1>8. CASE Crash \/ Restart
  BY <1>8 DEF Crash, Restart, EndOfProcess
<1>9. CASE UNCHANGED vars
  BY <1>9 DEF vars
<1> QED
  BY <1>1, <1>2, <1>3, <1>4, <1>5, <1>6, <1>7, <1>8, <1>9
     DEF Next, ListenerStep

\* After activate = 0 has been written, the listener of tmtc_manager.py serves
\* at most the one datagram that recvfrom was blocked on, however the operator
\* switches activate and wherever the process is killed.
THEOREM LateBoundHolds == Spec => []LateBound
<1>1. Init => LateInv
  BY DEF Init, LateInv
<1>2. LateInv => LateBound
  BY DEF LateInv, LateBound
<1> QED
  BY <1>1, <1>2, LateInvKept, PTL DEF Spec

-----------------------------------------------------------------------------
(* The update loop                                                         *)

NoUnit    == \A u \in Units : state[u] = 0
NoRow     == \A u \in Units : UntouchedBefore(u)
AllModels == \A i \in 1..Len(Models) : state[Models[i]] = 1

\* A pass of update_system leaves every unit it has gone by initialised, and
\* nothing takes that back, so that between two passes the models are either
\* all initialised or, before the first pass, all untouched; and so they stay
\* while the main thread waits for the listener.
PassInv ==
    /\ mpc \in {"activate", "spawn"} => NoUnit
    /\ mpc = "loop" => AllModels \/ NoUnit
    /\ mpc = "join" => AllModels \/ (NoUnit /\ NoRow)
    /\ mpc \in {"unit", "row", "flag"} =>
            \A i \in 1..Len(Models) : i < mi => state[Models[i]] = 1

LEMMA PassInvKept == IInv /\ PassInv /\ [Next]_vars => PassInv'
<1> SUFFICES ASSUME IInv, PassInv, [Next]_vars PROVE PassInv'
  OBVIOUS
<1> USE DEF PassInv, NoUnit, AllModels, dbVars, mainVars, listener, handler
<1>0. /\ mi \in 1..(Len(Models) + 1) /\ state \in [Units -> {0, 1}]
      /\ mpc \in {"row", "flag"} => mi <= Len(Models)
  BY DEF IInv, TypeOK, MainOK, DatabaseOK
<1>1. CASE CreateDb \/ CreateDbRaises \/ CreateTables \/ FillTables
  BY <1>1 DEF CreateDb, CreateDbRaises, CreateTables, FillTables
<1>2. CASE RtosInitialisation \/ StartListener \/ JoinListener
  BY <1>2, ModelTyped DEF RtosInitialisation, StartListener, JoinListener
<1>10. CASE CheckRtosMain
  <2>1. /\ mpc = "loop" /\ mpc' \in {"unit", "join"} /\ mi' = 1
        /\ state' = state /\ db' = db
    BY <1>10 DEF CheckRtosMain
  <2>2. NoUnit => NoRow
    BY <2>1 DEF IInv, StartupInv, Building, NoRow
  <2>3. NoRow => NoRow'
    BY <2>1 DEF NoRow, UntouchedBefore
  <2> QED
    BY <2>1, <2>2, <2>3, ModelTyped
<1>3. CASE EndOfPass
  BY <1>0, <1>3, ModelTyped DEF EndOfPass
<1>4. CASE ReadState
  <2>1. /\ mpc = "unit" /\ mi <= Len(Models) /\ state' = state
        /\ \/ mpc' = "row" /\ mi' = mi
           \/ mpc' = "unit" /\ mi' = mi + 1 /\ state[Models[mi]] # 0
    BY <1>4 DEF ReadState
  <2>2. Models[mi] \in Units
    BY <1>0, <2>1, ModelTyped
  <2>3. state[Models[mi]] # 0 => state[Models[mi]] = 1
    BY <1>0, <2>2
  <2> QED
    BY <1>0, <2>1, <2>3, ModelTyped
<1>5. CASE InitRow
  BY <1>5 DEF InitRow
<1>6. CASE SetState
  <2>1. /\ mpc = "flag" /\ mpc' = "unit" /\ mi' = mi + 1
        /\ state' = [state EXCEPT ![Models[mi]] = 1]
    BY <1>6 DEF SetState
  <2>2. \A i \in 1..Len(Models) :
            (i = mi \/ state[Models[i]] = 1) => state'[Models[i]] = 1
    BY <1>0, <2>1, ModelTyped
  <2>3. \A i \in 1..Len(Models) : i < mi + 1 => i < mi \/ i = mi
    BY <1>0, ModelTyped
  <2> QED
    BY <2>1, <2>2, <2>3
<1>7. CASE ListenerStep
  <2>1. UNCHANGED <<mpc, mi, state>>
    BY <1>7 DEF ListenerStep, ConnectListener, CheckRtosListener, RecvEmpty,
       RecvGarbled, RecvTelecommand, Take, Acknowledge, ReadRow, SkipAccess, BodyRaises,
       Access, Verify, VerifyRaises, SendAnswer
  <2>2. Access \/ db' = db
    BY <1>7 DEF ListenerStep, ConnectListener, CheckRtosListener, RecvEmpty,
       RecvGarbled, RecvTelecommand, Take, Acknowledge, ReadRow, SkipAccess, BodyRaises,
       Verify, VerifyRaises, SendAnswer
  <2>3. NoRow => NoRow'
    BY <2>2, AccessFresh DEF NoRow, UntouchedBefore
  <2> QED
    BY <2>1, <2>3
<1>8. CASE \/ \E d \in Datagrams : Send(d)
           \/ \E v \in {"0", "1"} : ControlRtos(v)
           \/ UNCHANGED vars
  BY <1>8 DEF Send, ControlRtos, vars, NoRow, UntouchedBefore
<1>9. CASE Crash \/ Restart
  BY <1>9 DEF Crash, Restart
<1> QED
  BY <1>1, <1>2, <1>3, <1>4, <1>5, <1>6, <1>7, <1>8, <1>9, <1>10
     DEF Next, MainStep

\* However activate is switched while update_system of semsim.py runs, the main
\* thread goes on to wait for the listener with the units of Models all
\* initialised or with every unit untouched, never in between.
THEOREM AllOrNothingHolds == Spec => []AllOrNothing
<1>1. Init => PassInv
  BY DEF Init, PassInv
<1>2. PassInv => AllOrNothing
  BY DEF PassInv, NoUnit, NoRow, AllModels, AllOrNothing
<1> QED
  BY <1>1, <1>2, PassInvKept, IInvInvariant, PTL DEF Spec

-----------------------------------------------------------------------------
(* The atomic store: the interleaved process implements UnitStore, as      *)
(* long as no client sends the one command that stores a row unseen.       *)

\* UnitStore and Semsim use the same operators of BcrServices.
LEMMA SameRows ==
    /\ Store!Units = Units
    /\ Store!RowNames = RowNames
    /\ \A r : Store!Raw(r) = Raw(r)
    /\ \A r : Store!DefaultRow(r) = DefaultRow(r)
    /\ \A v : Store!Json(v) = Json(v)
<1>1. Store!Units = Units /\ Store!RowNames = RowNames
  BY DEF Store!Units, Units, Store!RowNames, RowNames
<1>2. \A r : Store!DefaultRow(r) = DefaultRow(r)
  BY DEF Store!DefaultRow, DefaultRow, Store!NoFailure, NoFailure,
         Store!Unset, Unset, Store!MemIds, MemIds, Store!Absent, Absent
<1>3. \A r : Store!Raw(r) = Raw(r)
  BY <1>2 DEF Store!Raw, Raw
<1> QED
  BY <1>1, <1>2, <1>3 DEF Store!Json, Json

LEMMA SameTexts ==
    /\ \A v : Store!RowText(v) = RowText(v)
    /\ \A d, v : Store!LeftBehind(v, d) = LeftBehind(v, d)
    /\ \A v : Store!SystemText(v) = SystemText(v)
<1>1. \A x : Store!EntryText(x) = EntryText(x)
  BY DEF Store!EntryText, EntryText, Store!BlockText, BlockText,
         Store!Zeros, Zeros, Store!Unhealthy, Unhealthy
<1>2. \A map : Store!Keys(map) = Keys(map)
  BY DEF Store!Keys, Keys, Store!Absent, Absent
<1>3. \A map : Store!EntriesText(map) = EntriesText(map)
  BY DEF Store!EntriesText, EntriesText, Store!MapThenSumSet, MapThenSumSet,
         Store!MapThenFoldSet, MapThenFoldSet, Store!Keys, Keys,
         Store!Absent, Absent, Store!EntryText, EntryText, Store!BlockText,
         BlockText, Store!Zeros, Zeros, Store!Unhealthy, Unhealthy
<1>4. \A map : Store!MemoryText(map) = MemoryText(map)
  BY <1>2, <1>3 DEF Store!MemoryText, MemoryText
<1>5. \A v : Store!RowText(v) = RowText(v)
  BY <1>4 DEF Store!RowText, RowText
<1>6. \A d, v : Store!LeftBehind(v, d) = LeftBehind(v, d)
  BY <1>1 DEF Store!LeftBehind, LeftBehind, Store!Readable, Readable,
         Store!Absent, Absent, Store!Unhealthy, Unhealthy
<1>7. \A v : Store!SystemText(v) = SystemText(v)
  BY DEF Store!SystemText, SystemText, Store!Unset, Unset
<1> QED
  BY <1>5, <1>6, <1>7

LEMMA SameCommands ==
    /\ \A d : Store!Unit(d) = Unit(d)
    /\ \A d : Store!Accesses(d) = Accesses(d)
    /\ \A d, i, v : Store!Fails(d, i, v) <=> Fails(d, i, v)
    /\ \A d, v : Store!Stores(d, v) <=> Stores(d, v)
    /\ \A d, v : Store!NewValue(d, v) = NewValue(d, v)
<1>1. \A d : Store!Unit(d) = Unit(d)
  BY DEF Store!Unit, Unit
<1>2. \A d : Store!Accesses(d) = Accesses(d)
  BY DEF Store!Accesses, Accesses, Store!EventRow, EventRow, Store!ParamRow,
         ParamRow, Store!MemorySubtypes, MemorySubtypes
<1>3. \A d, v : Store!StoresMemory(v, d) <=> StoresMemory(v, d)
  BY DEF Store!StoresMemory, StoresMemory, Store!Readable, Readable,
         Store!Holds, Holds, Store!Absent, Absent, Store!Unhealthy, Unhealthy
<1>4. \A d, v : Store!Stores(d, v) <=> Stores(d, v)
  BY <1>3 DEF Store!Stores, Stores
<1>5. \A d, v : Store!MemoryAfter(v, d) = MemoryAfter(v, d)
  BY DEF Store!MemoryAfter, MemoryAfter,
         Store!LoadMemory, LoadMemory, Store!CopyMemory, CopyMemory,
         Store!EraseMemory, EraseMemory, Store!ChangeHealth, ChangeHealth,
         Store!Put, Put, Store!PutAlone, PutAlone, Store!Holds, Holds,
         Store!Readable, Readable, Store!Absent, Absent, Store!Unhealthy,
         Unhealthy, Store!Zeros, Zeros
<1>6. \A d, v : Store!CallFunction(v, d) = CallFunction(v, d)
  BY DEF Store!CallFunction, CallFunction
<1>7. \A d, v : Store!NewValue(d, v) = NewValue(d, v)
  BY <1>5, <1>6 DEF Store!NewValue, NewValue
<1>8. \A d : Store!KnownMemories(d) <=> KnownMemories(d)
  BY DEF Store!KnownMemories, KnownMemories, Store!MemIds, MemIds
<1>9. \A d, v : Store!Overflows(d, v) <=> Overflows(d, v)
  BY <1>3, <1>5, <1>6, <1>8, SameTexts
     DEF Store!Overflows, Overflows, Store!Width, Width
<1>10. \A d, i, v : Store!Fails(d, i, v) <=> Fails(d, i, v)
  BY <1>8, <1>9
     DEF Store!Fails, Fails, Store!EmptyBlock, EmptyBlock,
         Store!ParamIds, ParamIds, Store!SystemMgrIds, SystemMgrIds,
         Store!ComMgrIds, ComMgrIds, Store!FdirMgrIds, FdirMgrIds,
         Store!SolarArraysMgrIds, SolarArraysMgrIds
<1> QED
  BY <1>1, <1>2, <1>4, <1>7, <1>10

LEMMA StoreInit == Init => Store!Init
  BY SameRows DEF Init, Store!Init, NoTable, NoDict

\* A step of the main thread: it initialises a row, seals a unit, or leaves
\* the tables alone.
LEMMA MainStepStores ==
    ASSUME UnseenWriters = {}, IInv, MainStep
    PROVE  [Store!Next]_(Store!vars)
<1> USE DEF dbVars, Store!vars
<1>1. CASE InitRow
  <2> DEFINE u == Models[mi]
             r == InitOrder[ri]
  <2>1. u \in Units /\ r \in RowNames /\ ri \in 1..7
    BY <1>1, ModelTyped, InitOrderRows DEF IInv, InitRow, TypeOK, MainOK
  <2>2. ~db[u][r].json
    BY <1>1, <2>1, InitOrderRows DEF InitRow, IInv, StartupInv
  <2>3. /\ db' = [db EXCEPT ![u] = [@ EXCEPT ![r] = Json(DefaultRow(r))]]
        /\ state' = state
    BY <1>1 DEF InitRow
  <2>4. Store!InitialiseRow(u, r)
    BY <2>2, <2>3, SameRows DEF Store!InitialiseRow
  <2> QED
    BY <2>1, <2>4, SameRows DEF Store!Next
<1>2. CASE SetState
  <2> DEFINE u == Models[mi]
  <2>1. u \in Units /\ state[u] = 0
    BY <1>2, ModelTyped
       DEF IInv, SetState, TypeOK, MainOK, StartupInv
  <2>2. \A r \in RowNames : db[u][r].json
    BY <1>2 DEF SetState, IInv, StartupInv, Clobbered
  <2>3. state' = [state EXCEPT ![u] = 1] /\ db' = db
    BY <1>2 DEF SetState
  <2>4. Store!Seal(u)
    BY <2>1, <2>2, <2>3, SameRows DEF Store!Seal
  <2> QED
    BY <2>1, <2>4, SameRows DEF Store!Next
<1>3. CASE FillTables
  <2>1. state' = state /\ db' = db
    BY <1>3 DEF FillTables, IInv, StartupInv
  <2> QED
    BY <2>1
<1>4. CASE ~(InitRow \/ SetState \/ FillTables)
  <2>1. state' = state /\ db' = db
    BY <1>4 DEF MainStep, CreateDb, CreateDbRaises, CreateTables,
       RtosInitialisation, StartListener, CheckRtosMain, EndOfPass,
       ReadState, JoinListener
  <2> QED
    BY <2>1
<1> QED
  BY <1>1, <1>2, <1>3, <1>4

\* The write of a handler is the whole effect of its access on the row's
\* current value, because the handler's copy is still fresh.
LEMMA AccessStores ==
    ASSUME UnseenWriters = {}, IInv, Access
    PROVE  [Store!Next]_(Store!vars)
<1> DEFINE u    == Unit(tc)
           r    == Accesses(tc)[pos]
           cell == dict[r]
<1>1. state' = state /\ InBody /\ lpc = "body" /\ r # "none" /\ ~Raises
  BY DEF Access, InBody
<1>2. /\ WellFormed(tc) /\ tc \in Telecommands /\ u \in Units
      /\ pos \in 1..Len(Accesses(tc))
  <2>1. WellFormed(tc) /\ tc \in Telecommands /\ u \in Units
    BY <1>1, HandledTyped DEF IInv, TypeOK
  <2> QED
    BY <1>1, <2>1, AccessesTyped DEF IInv, TypeOK, ListenerOK, InBody
<1>3. r \in RowNames
  BY <1>1, <1>2, AccessesTyped
<1>4. CASE ~Stores(tc, cell.val)
  <2>1. db' = db
    BY <1>4 DEF Access
  <2> QED
    BY <1>1, <2>1 DEF Store!vars
<1>5. CASE Stores(tc, cell.val)
  <2>1. cell.json /\ ~Fails(tc, pos, cell.val)
    BY <1>1, <1>2 DEF Raises, UnseenWriters
  <2>2. db[u][r] = cell
    BY <1>3, <2>1 DEF IInv, SnapshotFresh
  <2>3. db' = [db EXCEPT ![u] =
                  [@ EXCEPT ![r] = Json(NewValue(tc, db[u][r].val))]]
    BY <1>5, <2>1, <2>2 DEF Access
  <2>4. Store!Apply(tc, pos)
    BY <1>1, <1>3, <1>5, <2>1, <2>2, <2>3, SameRows, SameCommands
       DEF Store!Apply
  <2> QED
    BY <1>2, <2>4, SameCommands DEF Store!Next
<1> QED
  BY <1>4, <1>5

\* Every other step leaves the tables of the units alone.
LEMMA OtherSteps ==
    ASSUME [Next]_vars, ~MainStep, ~Access
    PROVE  UNCHANGED <<state, db>>
  BY DEF Next, ListenerStep, Take, ConnectListener, CheckRtosListener,
         RecvEmpty, RecvGarbled, RecvTelecommand, Acknowledge, ReadRow, SkipAccess, BodyRaises,
         Verify, VerifyRaises, SendAnswer, Send, ControlRtos, Crash, Restart,
         EndOfProcess, vars, dbVars

\* Whatever the two threads, the operator, kills and restarts do, the tables
\* change as those of the atomic store: each row is initialised once, a unit is
\* sealed after its rows, and a telecommand acts on the row's current value.
\* The condition excludes CHANGE HEALTH to healthy (bcr.py 569-583), which
\* stores a memory row back that it never looked into.
THEOREM StoreImplemented ==
    ASSUME UnseenWriters = {}
    PROVE  Spec => ImplementsUnitStore
<1>1. IInv /\ [Next]_vars => [Store!Next]_(Store!vars)
  BY MainStepStores, AccessStores, OtherSteps
     DEF Next, ListenerStep, Store!vars
<1> QED
  BY <1>1, StoreInit, IInvInvariant, PTL
     DEF Spec, Store!Spec, ImplementsUnitStore

-----------------------------------------------------------------------------
(* What ends the listener                                                  *)

\* While a telecommand that found its unit initialised is handled, the unit
\* stays initialised, and every row that was fetched holds a dictionary.
Fetched(r) == dict[r].json \/ Clobbered(r)

HandlerInv ==
    lpc \in {"ack", "read", "body", "send"} /\ ready =>
        /\ state[Unit(tc)] = 1
        /\ lpc = "read" => \A k \in 1..Len(Reads(tc.type)) :
                                k < pos => Fetched(Reads(tc.type)[k])
        /\ lpc = "body" => \A k \in 1..Len(Reads(tc.type)) :
                                Fetched(Reads(tc.type)[k])

\* The body of a handler uses rows that the handler has fetched.
LEMMA AccessesRead ==
    ASSUME NEW d, WellFormed(d), NEW i \in 1..Len(Accesses(d)),
           Accesses(d)[i] # "none"
    PROVE  \E k \in 1..Len(Reads(d.type)) : Reads(d.type)[k] = Accesses(d)[i]
<1>1. Accesses(d)[i] \in RowNames
  BY AccessesTyped
<1>2. CASE d.type = 5
  <2>1. Reads(d.type) = <<"systemMgr", "fdirMgr">>
    BY <1>2 DEF Reads
  <2> QED
    BY <1>2, <2>1, AccessRow
<1>3. CASE d.type = 6
  <2>1. Reads(d.type) = <<"Memory">>
    BY <1>3 DEF Reads
  <2> QED
    BY <1>3, <2>1, AccessRow
<1>4. CASE d.type = 8
  <2>1. Reads(d.type) = <<"systemMgr">>
    BY <1>4 DEF Reads
  <2> QED
    BY <1>4, <2>1, AccessRow
<1>5. CASE d.type = 20
  <2>1. Reads(d.type) =
            <<"systemMgr", "comMgr", "fdirMgr", "solarArraysMgr">>
    BY <1>5 DEF Reads
  <2>2. \A p : ParamRow(p) \in {"systemMgr", "comMgr", "fdirMgr",
                                "solarArraysMgr", "none"}
    BY DEF ParamRow
  <2>3. d.subtype = 1 /\ Accesses(d)[i] = ParamRow(d.paramId[i])
    BY <1>5, AccessesCases DEF Accesses
  <2>4. Accesses(d)[i] \in {"systemMgr", "comMgr", "fdirMgr",
                            "solarArraysMgr"}
    BY <2>2, <2>3
  <2> QED
    BY <2>1, <2>4
<1> QED
  BY <1>2, <1>3, <1>4, <1>5, AccessRow

\* A row of an initialised unit that is read now can be used.
LEMMA SealedRead ==
    ASSUME SealedRows, state[Unit(tc)] = 1, NEW r \in RowNames
    PROVE  Row(r).json \/ Clobbered(r)
  BY UnitInUnits DEF SealedRows, Row

LEMMA HandlerInvKept == IInv /\ HandlerInv /\ [Next]_vars => HandlerInv'
<1> SUFFICES ASSUME IInv, HandlerInv, [Next]_vars PROVE HandlerInv'
  OBVIOUS
<1> USE DEF dbVars, mainVars, listener, handler
<1>1. CASE lpc' \notin {"ack", "read", "body", "send"}
  BY <1>1 DEF HandlerInv
<1>2. CASE MainStep
  <2>1. UNCHANGED <<lpc, tc, ready, dict, pos>> \/ lpc' = "connect"
    BY <1>2 DEF MainStep, CreateDb, CreateDbRaises, CreateTables, FillTables,
       RtosInitialisation, StartListener, CheckRtosMain, EndOfPass,
       ReadState, InitRow, SetState, JoinListener
  <2>2. CASE FillTables
    BY <1>1, <2>2 DEF FillTables, IInv, StartupInv
  <2>3. CASE SetState
    <3>1. \A u \in Units : state[u] = 1 => state'[u] = 1
      BY <2>3 DEF SetState, IInv, TypeOK, DatabaseOK
    <3> QED
      BY <1>1, <2>1, <3>1, UnitInUnits DEF HandlerInv, Fetched
  <2>4. CASE ~FillTables /\ ~SetState
    <3>1. state' = state
      BY <1>2, <2>4 DEF MainStep, CreateDb, CreateDbRaises, CreateTables,
         RtosInitialisation, StartListener, CheckRtosMain, EndOfPass,
         ReadState, InitRow, JoinListener
    <3> QED
      BY <1>1, <2>1, <3>1 DEF HandlerInv, Fetched
  <2> QED
    BY <2>2, <2>3, <2>4
<1>3. CASE ConnectListener \/ CheckRtosListener \/ RecvEmpty \/ RecvGarbled
           \/ BodyRaises \/ VerifyRaises
  BY <1>1, <1>3 DEF ConnectListener, CheckRtosListener, RecvEmpty, RecvGarbled, BodyRaises,
     VerifyRaises, Die
<1>4. CASE RecvTelecommand
  <2>1. lpc' = "ack" /\ state' = state
        /\ ready' = (state[Unit(tc')] = 1)
    BY <1>4 DEF RecvTelecommand, Take
  <2> QED
    BY <2>1, Zenon DEF HandlerInv
<1>5. CASE Acknowledge
  BY <1>5, ReadsTyped DEF Acknowledge, HandlerInv, IInv, TypeOK, ListenerOK
<1>6. CASE ReadRow
  <2> DEFINE r == Reads(tc.type)[pos]
  <2>1. /\ lpc = "read" /\ tc' = tc /\ ready' = ready /\ state' = state
        /\ pos \in Nat \ {0} /\ pos <= Len(Reads(tc.type))
        /\ RowsOK(dict) /\ r \in RowNames
    BY <1>6, ReadsTyped DEF ReadRow, IInv, TypeOK, ListenerOK
  <2>2. \A q \in RowNames : dict'[q] = IF q = r THEN Row(r) ELSE dict[q]
    BY <1>6, <2>1 DEF ReadRow, RowsOK
  <2>3. CASE ~ready
    BY <2>1, <2>3 DEF HandlerInv
  <2>4. CASE ready
    <3>1. state[Unit(tc)] = 1
      BY <2>1, <2>4 DEF HandlerInv
    <3>2. Row(r).json \/ Clobbered(r)
      BY <2>1, <3>1, SealedRead DEF IInv
    <3>3. \A k \in 1..Len(Reads(tc.type)) :
              k <= pos => Fetched(Reads(tc.type)[k])'
      <4> SUFFICES ASSUME NEW k \in 1..Len(Reads(tc.type)), k <= pos
                   PROVE  Fetched(Reads(tc.type)[k])'
        OBVIOUS
      <4>1. Reads(tc.type)[k] \in RowNames
        BY ReadsTyped
      <4>2. CASE Reads(tc.type)[k] = r
        BY <2>1, <2>2, <3>2, <4>2 DEF Fetched, Clobbered
      <4>3. CASE Reads(tc.type)[k] # r
        <5>1. k < pos
          BY <2>1, <4>3
        <5>2. Fetched(Reads(tc.type)[k])
          BY <2>1, <2>4, <5>1 DEF HandlerInv
        <5> QED
          BY <2>1, <2>2, <4>1, <4>3, <5>2 DEF Fetched, Clobbered
      <4> QED
        BY <4>2, <4>3
    <3> QED
      BY <1>6, <2>1, <3>1, <3>3, ReadsTyped DEF ReadRow, HandlerInv
  <2> QED
    BY <2>1, <2>3, <2>4 DEF IInv, TypeOK, ListenerOK
<1>7. CASE SkipAccess
  BY <1>7 DEF SkipAccess, InBody, HandlerInv, Fetched
<1>8. CASE Access
  <2> DEFINE r == Accesses(tc)[pos]
  <2>1. /\ UNCHANGED <<lpc, tc, ready, state>> /\ lpc = "body"
        /\ RowsOK(dict)
    BY <1>8 DEF Access, InBody, IInv, TypeOK, ListenerOK
  <2>2. \A q \in RowNames : dict[q].json => dict'[q].json
    BY <1>8, <2>1 DEF Access, RowsOK, Json
  <2> QED
    BY <2>1, <2>2, ReadsTyped DEF HandlerInv, Fetched
<1>9. CASE Verify \/ SendAnswer
  BY <1>9 DEF Verify, SendAnswer, HandlerInv
<1>10. CASE \/ \E d \in Datagrams : Send(d)
            \/ \E v \in {"0", "1"} : ControlRtos(v)
            \/ UNCHANGED vars
  BY <1>10 DEF Send, ControlRtos, vars, HandlerInv, Fetched
<1>11. CASE Crash \/ Restart
  BY <1>1, <1>11 DEF Crash, Restart, EndOfProcess
<1> QED
  BY <1>2, <1>3, <1>4, <1>5, <1>6, <1>7, <1>8, <1>9, <1>10, <1>11
     DEF Next, ListenerStep

\* A body that raises for an initialised unit has one of the known causes.
LEMMA BodyCause ==
    ASSUME IInv, HandlerInv, BodyRaises, ready
    PROVE  KillsListener(tc) \/ (tc.type = 6 /\ UnseenWriters # {})
<1> DEFINE r    == Accesses(tc)[pos]
           cell == dict[r]
<1>1. InBody /\ lpc = "body" /\ r # "none" /\ Raises
  BY DEF BodyRaises, InBody
<1>2. WellFormed(tc) /\ Unit(tc) \in Units /\ pos \in 1..Len(Accesses(tc))
  <2>1. WellFormed(tc) /\ Unit(tc) \in Units
    BY <1>1, HandledTyped DEF IInv, TypeOK
  <2> QED
    BY <1>1, <2>1, AccessesTyped DEF IInv, TypeOK, ListenerOK, InBody
<1>3. r \in RowNames
  BY <1>1, <1>2, AccessesTyped
<1>4. cell.json \/ Clobbered(r)
  <2>1. PICK k \in 1..Len(Reads(tc.type)) : Reads(tc.type)[k] = r
    BY <1>1, <1>2, AccessesRead
  <2> QED
    BY <1>1, <2>1 DEF HandlerInv, Fetched
<1>5. CASE Clobbered(r)
  <2>1. r = "Memory" /\ UnseenWriters # {}
    BY <1>5 DEF Clobbered
  <2>2. tc.type \in {5, 6, 8, 20}
    BY <1>1, <1>2, AccessRow
  <2>3. tc.type # 5 /\ tc.type # 8
    BY <1>1, <1>2, <2>1, AccessRow
  <2>4. tc.type # 20
    <3> SUFFICES ASSUME tc.type = 20 PROVE FALSE
      OBVIOUS
    <3>1. \A p : ParamRow(p) # "Memory"
      BY DEF ParamRow
    <3>2. tc.subtype = 1
      BY <1>2, AccessesCases DEF Accesses
    <3>3. r = ParamRow(tc.paramId[pos])
      BY <1>2, <3>2, AccessesCases
    <3> QED
      BY <2>1, <3>1, <3>3
  <2> QED
    BY <2>1, <2>2, <2>3, <2>4
<1>6. CASE cell.json
  <2>1. Fails(tc, pos, cell.val)
    BY <1>1, <1>6 DEF Raises
  <2>2. db[Unit(tc)][r] = cell
    BY <1>3, <1>6 DEF IInv, SnapshotFresh
  <2>3. CASE tc.type = 20
    <3>1. tc.paramId[pos] \notin ParamIds
      BY <2>1, <2>3 DEF Fails, Overflows
    <3>2. r = ParamRow(tc.paramId[pos]) /\ Len(Accesses(tc)) = Len(tc.paramId)
      BY <1>1, <1>2, <2>3, AccessRow, AccessesCases DEF Accesses
    <3> QED
      BY <1>1, <1>2, <2>3, <3>1, <3>2 DEF KillsListener
  <2>4. CASE tc.type = 6
    <3>1. r = "Memory" /\ tc.subtype \in MemorySubtypes
      BY <1>1, <1>2, <2>4, AccessRow
    <3>2. Accesses(tc) = <<"Memory">>
      BY <2>4, <3>1, AccessesCases, Zenon
    <3>3. Accesses(tc) # << >> /\ Accesses(tc)[1] = r
      BY <3>1, <3>2
    <3> QED
      BY <2>1, <2>2, <2>4, <3>1, <3>3 DEF Fails, KillsListener
  <2>5. CASE tc.type = 8
    <3>1. Accesses(tc) = <<"systemMgr">>
      BY <1>2, <2>5, AccessesCases DEF Accesses
    <3>2. Accesses(tc) # << >> /\ Accesses(tc)[1] = r
      BY <1>2, <3>1
    <3> QED
      BY <2>1, <2>2, <2>5, <3>2 DEF Fails, KillsListener
  <2> QED
    BY <2>1, <2>3, <2>4, <2>5 DEF Fails, Overflows
<1> QED
  BY <1>4, <1>5, <1>6

LEMMA StepDies ==
    ASSUME IInv, HandlerInv, Next, lpc' = "dead", lpc # "dead"
    PROVE  DeathCause
<1>1. RecvGarbled \/ BodyRaises \/ VerifyRaises
  BY DEF Next, MainStep, CreateDb, CreateDbRaises, CreateTables, FillTables,
     RtosInitialisation, StartListener, CheckRtosMain, EndOfPass,
     ReadState, InitRow, SetState, JoinListener, ListenerStep, Take,
     ConnectListener, CheckRtosListener, RecvEmpty, RecvTelecommand,
     Acknowledge, ReadRow, SkipAccess, Access, Verify, SendAnswer, Send, ControlRtos, Crash,
     Restart, EndOfProcess, InBody, listener, handler
<1>2. CASE RecvGarbled
  BY <1>2 DEF RecvGarbled, Take, DeathCause
<1>3. CASE BodyRaises
  BY <1>3, BodyCause DEF BodyRaises, InBody, DeathCause
<1>4. CASE VerifyRaises
  <2>1. lpc = "body" /\ ~Row("completionOfExecVerificationReport").json
    BY <1>4 DEF VerifyRaises
  <2>2. "completionOfExecVerificationReport" \in RowNames
    BY DEF RowNames
  <2>3. ~ready
    BY <2>1, <2>2, SealedRead DEF IInv, HandlerInv, Clobbered
  <2> QED
    BY <2>1, <2>3 DEF DeathCause
<1> QED
  BY <1>1, <1>2, <1>3, <1>4

\* The listener thread of tmtc_manager.py dies only of a datagram that does not
\* decode, of a telecommand that came before its unit was initialised, or of
\* one that raises in bcr.py whatever the schedule: by an unknown identifier or
\* memory, the checksum of an empty block, or a text that is too long for its
\* row.
THEOREM DeathHasCauseHolds == Spec => DeathHasCause
<1>1. Init => HandlerInv
  BY DEF Init, HandlerInv
<1>2. IInv /\ HandlerInv /\ [Next]_vars
          => [lpc' = "dead" /\ lpc # "dead" => DeathCause]_vars
  BY StepDies
<1> QED
  BY <1>1, <1>2, HandlerInvKept, IInvInvariant, PTL DEF Spec, DeathHasCause

-----------------------------------------------------------------------------
(* The contents of the rows                                                *)

Verification == { "acceptanceVerificationReport",
                  "completionOfExecVerificationReport" }

\* What every cell satisfies, in the tables and in the handler's copies: a raw
\* cell is the 0 the database was filled with, a verification row is the one
\* the unit model wrote, and a memory unit has one address.
CellOK(r, c) ==
    /\ ~c.json => c = Raw(r)
    /\ r \in Verification => c.val = NoFailure
    /\ r = "Memory" => Single(c.val)

CellsOK(rows) == \A r \in RowNames : CellOK(r, rows[r])

ContentInv == CellsOK(dict) /\ \A u \in Units : CellsOK(db[u])

LEMMA DefaultCellOK ==
    ASSUME NEW r \in RowNames
    PROVE  CellOK(r, Raw(r)) /\ CellOK(r, Json(DefaultRow(r)))
<1>1. Raw(r).val = DefaultRow(r) /\ Json(DefaultRow(r)).val = DefaultRow(r)
  BY DEF Raw, Json
<1>2. Json(DefaultRow(r)).json
  BY DEF Json
<1>3. r \in Verification => DefaultRow(r) = NoFailure
  BY DEF Verification, DefaultRow
<1>4. r = "Memory" => Single(DefaultRow(r))
  <2> SUFFICES ASSUME r = "Memory" PROVE Single(DefaultRow(r))
    OBVIOUS
  <2>1. DefaultRow(r) = [m \in MemIds |-> [a \in Addr |-> Absent]]
    BY DEF DefaultRow
  <2> QED
    BY <2>1 DEF Single, Holds
<1> QED
  BY <1>1, <1>2, <1>3, <1>4 DEF CellOK

LEMMA NoDictCells == CellsOK(NoDict) /\ \A u \in Units : CellsOK(NoTable[u])
  BY DefaultCellOK DEF NoDict, NoTable, CellsOK

LEMMA SetCell ==
    ASSUME NEW rows, RowsOK(rows), CellsOK(rows), NEW r \in RowNames, NEW c,
           CellOK(r, c)
    PROVE  CellsOK([rows EXCEPT ![r] = c])
<1>1. \A q \in RowNames :
          [rows EXCEPT ![r] = c][q] = IF q = r THEN c ELSE rows[q]
  BY DEF RowsOK
<1> QED
  BY <1>1 DEF CellsOK

LEMMA SetTableCell ==
    ASSUME NEW table, TableOK(table), \A u \in Units : CellsOK(table[u]),
           NEW u \in Units, NEW r \in RowNames, NEW c, CellOK(r, c)
    PROVE  \A v \in Units :
               CellsOK([table EXCEPT ![u] = [@ EXCEPT ![r] = c]][v])
<1> TAKE v \in Units
<1>1. CellsOK([table[u] EXCEPT ![r] = c])
  BY SetCell DEF TableOK
<1>2. [table EXCEPT ![u] = [@ EXCEPT ![r] = c]][v] =
          IF v = u THEN [table[u] EXCEPT ![r] = c] ELSE table[v]
  BY DEF TableOK
<1> QED
  BY <1>1, <1>2

\* The access of a handler's body, its row, its copy and what it writes.
AccessedRow == Accesses(tc)[pos]
Copied      == dict[AccessedRow]
Written     == IF Copied.json THEN Json(NewValue(tc, Copied.val)) ELSE Copied

LEMMA AccessFacts ==
    ASSUME IInv, Access
    PROVE  /\ WellFormed(tc) /\ Unit(tc) \in Units
           /\ pos \in 1..Len(Accesses(tc))
           /\ AccessedRow \in RowNames /\ AccessedRow # "none"
           /\ ~Raises /\ Copied \in Cells(AccessedRow)
           /\ \/ UNCHANGED <<dict, db>>
              \/ /\ Stores(tc, Copied.val)
                 /\ dict' = [dict EXCEPT ![AccessedRow] = Written]
                 /\ db' = [db EXCEPT ![Unit(tc)] =
                                [@ EXCEPT ![AccessedRow] = Written]]
           /\ UNCHANGED <<catalog, state, mpc, mi, ri, lpc, tc, ready,
                          replies, outgoing>>
           /\ lpc = "body"
<1>1. InBody /\ AccessedRow # "none" /\ ~Raises /\ lpc = "body"
  BY DEF Access, InBody, AccessedRow
<1>2. WellFormed(tc) /\ Unit(tc) \in Units
  BY <1>1, HandledTyped DEF IInv, TypeOK
<1>3. pos \in 1..Len(Accesses(tc))
  BY <1>1, <1>2, AccessesTyped DEF IInv, TypeOK, ListenerOK, InBody
<1>4. AccessedRow \in RowNames
  BY <1>1, <1>2, <1>3, AccessesTyped DEF AccessedRow
<1>5. Copied \in Cells(AccessedRow)
  BY <1>2, <1>4, RowTyped DEF IInv, Copied
<1>6. \/ UNCHANGED <<dict, db>>
      \/ /\ Stores(tc, Copied.val)
         /\ dict' = [dict EXCEPT ![AccessedRow] = Written]
         /\ db' = [db EXCEPT ![Unit(tc)] =
                        [@ EXCEPT ![AccessedRow] = Written]]
  BY DEF Access, AccessedRow, Copied, Written
<1>7. UNCHANGED <<catalog, state, mpc, mi, ri, lpc, tc, ready, replies,
                  outgoing>>
  BY DEF Access, mainVars
<1> QED
  BY <1>1, <1>2, <1>3, <1>4, <1>5, <1>6, <1>7

\* What a handler stores.  No service stores a verification row, and the only
\* cell that is stored raw is the copy of a raw Memory row.
LEMMA WrittenOK ==
    ASSUME IInv, ContentInv, Access, Stores(tc, Copied.val)
    PROVE  CellOK(AccessedRow, Written)
<1>1. CellOK(AccessedRow, Copied)
  BY AccessFacts DEF ContentInv, CellsOK, Copied
<1>2. CASE ~Copied.json
  BY <1>1, <1>2 DEF Written
<1>3. CASE Copied.json
  <2>1. Written.json /\ Written.val = NewValue(tc, Copied.val)
    BY <1>3 DEF Written, Json
  <2>2. tc.type \in {5, 6, 8}
    BY DEF Stores
  <2>3. AccessedRow \notin Verification
    BY <2>2, AccessFacts, AccessRow DEF AccessedRow, Verification
  <2>4. AccessedRow = "Memory" => Single(Written.val)
    <3> SUFFICES ASSUME AccessedRow = "Memory" PROVE Single(Written.val)
      OBVIOUS
    <3>1. tc.type = 6
      BY <2>2, AccessFacts, AccessRow DEF AccessedRow
    <3>2. KnownMemories(tc) /\ StoresMemory(Copied.val, tc)
      BY <3>1, AccessFacts DEF Raises, Fails, Stores
    <3>3. Copied.val \in MemoryValues
      <4>1. RowValues("Memory") = MemoryValues
        BY DEF RowValues
      <4> QED
        BY <4>1, AccessFacts DEF Cells
    <3>4. Single(MemoryAfter(Copied.val, tc))
      BY <1>1, <3>1, <3>2, <3>3, AccessFacts, MemoryAfterSingle DEF CellOK
    <3>5. NewValue(tc, Copied.val) = MemoryAfter(Copied.val, tc)
      BY <3>1 DEF NewValue
    <3> QED
      BY <2>1, <3>4, <3>5
  <2> QED
    BY <2>1, <2>3, <2>4 DEF CellOK
<1> QED
  BY <1>2, <1>3

\* All the steps that change a table or a copy.
LEMMA StepCases ==
    ASSUME IInv, [Next]_vars
    PROVE  \/ db' = db /\ dict' = dict
           \/ db' = db /\ dict' = NoDict
           \/ InitRow
           \/ ReadRow
           \/ Access
<1> USE DEF dbVars, mainVars, listener, handler, bounds
<1>1. CASE MainStep
  <2>1. CASE FillTables
    BY <2>1 DEF FillTables, IInv, StartupInv
  <2>2. CASE ~FillTables
    BY <1>1, <2>2 DEF MainStep, CreateDb, CreateDbRaises, CreateTables,
       RtosInitialisation, StartListener, CheckRtosMain, EndOfPass,
       ReadState, SetState, JoinListener
  <2> QED
    BY <2>1, <2>2
<1>2. CASE ListenerStep
  BY <1>2 DEF ListenerStep, Take, ConnectListener, CheckRtosListener,
     RecvEmpty, RecvGarbled, RecvTelecommand, Acknowledge, SkipAccess, BodyRaises, Verify,
     VerifyRaises, SendAnswer, InBody
<1>3. CASE \/ \E d \in Datagrams : Send(d)
           \/ \E v \in {"0", "1"} : ControlRtos(v)
           \/ Crash
           \/ Restart
  BY <1>3 DEF Send, ControlRtos, Crash, Restart, EndOfProcess
<1>4. CASE UNCHANGED vars
  BY <1>4 DEF vars
<1> QED
  BY <1>1, <1>2, <1>3, <1>4 DEF Next

LEMMA ContentKept == IInv /\ ContentInv /\ [Next]_vars => ContentInv'
<1> SUFFICES ASSUME IInv, ContentInv, [Next]_vars PROVE ContentInv'
  OBVIOUS
<1>1. CASE db' = db /\ (dict' = dict \/ dict' = NoDict)
  BY <1>1, NoDictCells DEF ContentInv
<1>2. CASE InitRow
  <2> DEFINE r == InitOrder[ri]
             c == Json(DefaultRow(r))
  <2>1. Models[mi] \in Units /\ r \in RowNames /\ dict' = dict
    BY <1>2, ModelTyped, InitOrderRows
       DEF IInv, InitRow, TypeOK, MainOK, listener, handler
  <2>2. CellOK(r, c)
    BY <2>1, DefaultCellOK
  <2>3. db' = [db EXCEPT ![Models[mi]] = [@ EXCEPT ![r] = c]] /\ TableOK(db)
    BY <1>2 DEF InitRow, IInv, TypeOK, DatabaseOK
  <2> HIDE DEF r, c
  <2>4. \A v \in Units : CellsOK(db'[v])
    BY <2>1, <2>2, <2>3, SetTableCell DEF ContentInv
  <2> QED
    BY <2>1, <2>4 DEF ContentInv
<1>3. CASE ReadRow
  <2> DEFINE r == Reads(tc.type)[pos]
  <2>1. r \in RowNames /\ db' = db /\ RowsOK(dict)
    BY <1>3, ReadsTyped DEF ReadRow, IInv, TypeOK, ListenerOK, dbVars
  <2>2. dict' = [dict EXCEPT ![r] = Row(r)]
    BY <1>3 DEF ReadRow
  <2>3. CellOK(r, Row(r))
    BY <2>1, UnitInUnits DEF ContentInv, CellsOK, Row
  <2> HIDE DEF r
  <2>4. CellsOK(dict')
    BY <2>1, <2>2, <2>3, SetCell DEF ContentInv
  <2> QED
    BY <2>1, <2>4 DEF ContentInv
<1>4. CASE Access
  <2>1. CASE UNCHANGED <<dict, db>>
    BY <2>1 DEF ContentInv
  <2>2. CASE /\ Stores(tc, Copied.val)
             /\ dict' = [dict EXCEPT ![AccessedRow] = Written]
             /\ db' = [db EXCEPT ![Unit(tc)] =
                            [@ EXCEPT ![AccessedRow] = Written]]
    <3>1. CellOK(AccessedRow, Written)
      BY <1>4, <2>2, WrittenOK
    <3>2. AccessedRow \in RowNames /\ Unit(tc) \in Units
      BY <1>4, AccessFacts
    <3>3. RowsOK(dict) /\ TableOK(db)
      BY DEF IInv, TypeOK, ListenerOK, DatabaseOK
    <3>4. CellsOK(dict')
      BY <2>2, <3>1, <3>2, <3>3, SetCell DEF ContentInv
    <3>5. \A v \in Units : CellsOK(db'[v])
      BY <2>2, <3>1, <3>2, <3>3, SetTableCell DEF ContentInv
    <3> QED
      BY <3>4, <3>5 DEF ContentInv
  <2> QED
    BY <1>4, <2>1, <2>2, AccessFacts
<1> QED
  BY <1>1, <1>2, <1>3, <1>4, StepCases

LEMMA ContentInvariant == Spec => []ContentInv
<1>1. Init => ContentInv
  BY NoDictCells DEF Init, ContentInv
<1> QED
  BY <1>1, ContentKept, IInvInvariant, PTL DEF Spec

\* Each memory unit of bcr.py holds data at one address at most, after any
\* sequence of LOAD, COPY, ERASE and CHANGE HEALTH in any interleaving: a
\* handler that worked on a stale copy could bring a displaced address back.
THEOREM OneAddressHolds == Spec => []OneAddress
<1>1. ContentInv => OneAddress
  <2>1. "Memory" \in RowNames
    BY DEF RowNames
  <2> QED
    BY <2>1 DEF ContentInv, CellsOK, CellOK, Single, OneAddress
<1> QED
  BY <1>1, ContentInvariant, PTL

\* What a step may do to an address marked unhealthy.
MarkKept(u, m, a) ==
    LET old == db[u]["Memory"].val[m][a]
        new == db'[u]["Memory"].val[m][a]
    IN  old = Unhealthy /\ new # Unhealthy =>
            \/ new = Absent
            \/ tc.subtype = 129 /\ new = Zeros
            \/ /\ tc.subtype = 128
               /\ tc.dstMemoryId = m /\ tc.dstAddress = a

LEMMA DefaultMemory ==
    ASSUME NEW m \in MemIds, NEW a \in Addr
    PROVE  DefaultRow("Memory")[m][a] = Absent
<1>1. DefaultRow("Memory") = [n \in MemIds |-> [b \in Addr |-> Absent]]
  BY DEF DefaultRow
<1> QED
  BY <1>1

\* The handler's copy of the Memory row is the row, or no dictionary at all.
LEMMA AccessKeepsMark ==
    ASSUME IInv, ContentInv, Access, NEW u \in Units, NEW m \in MemIds,
           NEW a \in Addr
    PROVE  MarkKept(u, m, a)
<1> DEFINE old == db[u]["Memory"].val[m][a]
           new == db'[u]["Memory"].val[m][a]
<1> SUFFICES ASSUME old = Unhealthy, new # old
             PROVE  \/ new = Absent
                    \/ tc.subtype = 129 /\ new = Zeros
                    \/ /\ tc.subtype = 128
                       /\ tc.dstMemoryId = m /\ tc.dstAddress = a
  BY DEF MarkKept
<1>1. "Memory" \in RowNames /\ RowValues("Memory") = MemoryValues
  BY DEF RowNames, RowValues
<1>2. /\ Stores(tc, Copied.val) /\ TableOK(db)
      /\ db' = [db EXCEPT ![Unit(tc)] = [@ EXCEPT ![AccessedRow] = Written]]
  BY AccessFacts DEF IInv, TypeOK, DatabaseOK
<1>3. /\ AccessedRow = "Memory" /\ Unit(tc) = u
      /\ db'[u]["Memory"] = Written
  <2>1. db'[u]["Memory"] =
            IF u = Unit(tc) /\ "Memory" = AccessedRow THEN Written
                                                      ELSE db[u]["Memory"]
    BY <1>1, <1>2, AccessFacts, TableRow
  <2> QED
    BY <2>1
<1>4. CASE ~Copied.json
  <2>1. Copied = Raw("Memory")
    BY <1>1, <1>3, <1>4 DEF ContentInv, CellsOK, CellOK, Copied
  <2>2. db'[u]["Memory"].val = DefaultRow("Memory")
    BY <1>3, <1>4, <2>1 DEF Written, Raw
  <2> QED
    BY <2>2, DefaultMemory
<1>5. CASE Copied.json
  <2>1. db[u]["Memory"] = Copied
    BY <1>1, <1>3, <1>5 DEF IInv, SnapshotFresh, Copied
  <2>2. Copied.val \in MemoryValues /\ Copied.val[m][a] = Unhealthy
    BY <1>1, <1>3, <2>1, AccessFacts DEF Cells
  <2>3. tc.type = 6 /\ KnownMemories(tc)
    <3>1. tc.type \in {5, 6, 8}
      BY <1>2 DEF Stores
    <3>2. tc.type = 6
      BY <1>3, <3>1, AccessFacts, AccessRow DEF AccessedRow
    <3> QED
      BY <3>2, AccessFacts DEF Raises, Fails
  <2>4. db'[u]["Memory"].val = MemoryAfter(Copied.val, tc)
    BY <1>3, <1>5, <2>3 DEF Written, Json, NewValue
  <2>5. new = MemoryAfter(Copied.val, tc)[m][a]
    BY <2>4
  <2> HIDE DEF new, old
  <2>6. WellFormed(tc)
    BY AccessFacts
  <2> QED
    BY <2>2, <2>3, <2>5, <2>6, MemoryAfterUnhealthy DEF old
<1> QED
  BY <1>4, <1>5

LEMMA StepKeepsMark ==
    ASSUME IInv, ContentInv, [Next]_vars, NEW u \in Units, NEW m \in MemIds,
           NEW a \in Addr
    PROVE  MarkKept(u, m, a)
<1>1. CASE db' = db
  BY <1>1 DEF MarkKept
<1>2. CASE InitRow
  <2> DEFINE r == InitOrder[ri]
             c == Json(DefaultRow(r))
  <2>1. Models[mi] \in Units /\ r \in RowNames /\ TableOK(db)
    BY <1>2, ModelTyped, InitOrderRows
       DEF IInv, InitRow, TypeOK, MainOK, DatabaseOK
  <2>2. db' = [db EXCEPT ![Models[mi]] = [@ EXCEPT ![r] = c]]
    BY <1>2 DEF InitRow
  <2> HIDE DEF r, c
  <2>3. db'[u]["Memory"] = IF u = Models[mi] /\ "Memory" = r
                           THEN c ELSE db[u]["Memory"]
    <3>1. "Memory" \in RowNames
      BY DEF RowNames
    <3> QED
      BY <2>1, <2>2, <3>1, TableRow
  <2>4. r = "Memory" => c.val[m][a] = Absent
    BY DefaultMemory DEF c, Json
  <2> QED
    BY <2>3, <2>4 DEF MarkKept
<1>3. CASE ReadRow
  BY <1>3 DEF ReadRow, dbVars, MarkKept
<1> QED
  BY <1>1, <1>2, <1>3, StepCases, AccessKeepsMark

\* No LOAD reaches an address that was marked unhealthy, and nothing but an
\* ERASE of it, a COPY onto it or a new dictionary for the unit takes the mark
\* away: the LOAD and CHANGE HEALTH of another handler never write it back.
THEOREM UnhealthyKeptHolds == Spec => UnhealthyKept
<1> DEFINE Kept ==
        \A u \in Units, m \in MemIds, a \in Addr :
            LET old == db[u]["Memory"].val[m][a]
                new == db'[u]["Memory"].val[m][a]
            IN  old = Unhealthy /\ new # Unhealthy =>
                    \/ new = Absent
                    \/ tc.subtype = 129 /\ new = Zeros
                    \/ /\ tc.subtype = 128
                       /\ tc.dstMemoryId = m /\ tc.dstAddress = a
<1>1. IInv /\ ContentInv /\ [Next]_vars => [Kept]_vars
  <2> SUFFICES ASSUME IInv, ContentInv, [Next]_vars PROVE Kept
    OBVIOUS
  <2> QED
    BY StepKeepsMark DEF MarkKept
<1> QED
  BY <1>1, ContentInvariant, IInvInvariant, PTL DEF Spec, UnhealthyKept

-----------------------------------------------------------------------------
(* The answers                                                             *)

\* The events that the tables have as disabled for the addressed unit.
Listed == { e \in {2560, 2561} : ~Row(EventRow(e)).val.ev }

\* All that is sent for a command d of an implemented service.
Exchange(d, disabled, s) ==
    \/ s = <<AckOk, DoneOk>> /\ ~(d.type = 5 /\ d.subtype = 7)
    \/ \E m : /\ m.type # 1
              /\ s = IF d.type = 5 THEN <<AckOk, DoneOk, m>>
                                   ELSE <<AckOk, m, DoneOk>>
              /\ d.type = 5 /\ d.subtype = 7 => m.ids = disabled

\* What the sender of a command for an initialised unit has been sent, and is
\* still to be sent, at each place of the listener.  The unit stays
\* initialised, so that its rows are the listener's alone.
AnswerInv ==
    /\ lpc \in {"off", "connect"} => ~ready
    /\ ready =>
          /\ tc \in Telecommands /\ state[Unit(tc)] = 1
          /\ lpc \in {"read", "body"} => replies = <<AckOk>>
          /\ lpc = "send" => Exchange(tc, Listed, replies \o outgoing)
          /\ lpc \in {"check", "recv"} =>
                IF tc.type \in Implemented THEN Exchange(tc, Listed, replies)
                                           ELSE replies = <<AckOk>>

LEMMA SameSequence ==
    ASSUME NEW S, NEW s \in Seq(S), NEW t \in Seq(S), Len(s) = Len(t),
           \A i \in 1..Len(s) : s[i] = t[i]
    PROVE  s = t
  OBVIOUS

LEMMA Pairs ==
    ASSUME NEW a, NEW b
    PROVE  <<a>> \o <<b>> = <<a, b>> /\ Append(<<a>>, b) = <<a, b>>
<1> DEFINE S == {a, b}
           s == <<a>> \o <<b>>
           t == <<a, b>>
           u == Append(<<a>>, b)
<1>1. <<a>> \in Seq(S) /\ <<b>> \in Seq(S) /\ t \in Seq(S) /\ b \in S
  OBVIOUS
<1>2. s \in Seq(S) /\ Len(s) = 2 /\ s[1] = a /\ s[2] = b
  BY <1>1
<1>3. u \in Seq(S) /\ Len(u) = 2 /\ u[1] = a /\ u[2] = b
  BY <1>1
<1>4. Len(t) = 2 /\ t[1] = a /\ t[2] = b
  OBVIOUS
<1> HIDE DEF S, s, t, u
<1>5. s = t /\ u = t
  BY <1>1, <1>2, <1>3, <1>4, SameSequence
<1> QED
  BY <1>5 DEF s, t, u

LEMMA Triples ==
    ASSUME NEW a, NEW b, NEW c
    PROVE  <<a>> \o <<b, c>> = <<a, b, c>>
<1> DEFINE S == {a, b, c}
           s == <<a>> \o <<b, c>>
           t == <<a, b, c>>
<1>1. <<a>> \in Seq(S) /\ <<b, c>> \in Seq(S) /\ t \in Seq(S)
  OBVIOUS
<1>2. s \in Seq(S) /\ Len(s) = 3 /\ s[1] = a /\ s[2] = b /\ s[3] = c
  BY <1>1
<1>3. Len(t) = 3 /\ t[1] = a /\ t[2] = b /\ t[3] = c
  OBVIOUS
<1> HIDE DEF S, s, t
<1>4. s = t
  BY <1>1, <1>2, <1>3, SameSequence
<1> QED
  BY <1>4 DEF s, t

LEMMA Singles ==
    ASSUME NEW a
    PROVE  <<a>> \o << >> = <<a>> /\ Append(<< >>, a) = <<a>>
  OBVIOUS

LEMMA MoveHead ==
    ASSUME NEW S, NEW s \in Seq(S), NEW t \in Seq(S), t # << >>
    PROVE  /\ Append(s, Head(t)) \o Tail(t) = s \o t
           /\ Append(s, Head(t)) \o << >> = Append(s, Head(t))
  OBVIOUS

\* What cmd_processing has in hand when a handler has come to its end.
LEMMA AnswersComplete ==
    ASSUME IInv, ContentInv, HandlerInv, AnswerInv, ready, Verify
    PROVE  Exchange(tc, Listed, replies \o outgoing')
<1> DEFINE done == Row("completionOfExecVerificationReport")
           rm   == ReportMessages(tc, dict)
<1>1. /\ lpc = "body" /\ replies = <<AckOk>> /\ WellFormed(tc)
      /\ Unit(tc) \in Units
      /\ outgoing' = Answers(tc, dict, done.val)
  BY HandledTyped DEF Verify, AnswerInv, IInv, TypeOK
<1>2. done.val = NoFailure
  <2>1. "completionOfExecVerificationReport" \in RowNames
    BY DEF RowNames
  <2> QED
    BY <1>1, <2>1 DEF ContentInv, CellsOK, CellOK, Verification, Row
<1>3. Completion(done.val) = DoneOk
  BY <1>2 DEF DoneOk, NoFailure
<1>4. tc.type = 5 => DisabledEvents(dict) = Listed
  <2> SUFFICES ASSUME tc.type = 5 PROVE DisabledEvents(dict) = Listed
    OBVIOUS
  <2>1. Reads(tc.type) = <<"systemMgr", "fdirMgr">>
    BY DEF Reads
  <2>2. Fetched("systemMgr") /\ Fetched("fdirMgr")
    BY <1>1, <2>1 DEF HandlerInv
  <2>3. "systemMgr" \in RowNames /\ "fdirMgr" \in RowNames
    BY DEF RowNames
  <2>4. Row("systemMgr") = dict["systemMgr"] /\ Row("fdirMgr") = dict["fdirMgr"]
    BY <2>2, <2>3 DEF Fetched, Clobbered, IInv, SnapshotFresh, Row
  <2>5. EventRow(2560) = "systemMgr" /\ EventRow(2561) = "fdirMgr"
    BY DEF EventRow
  <2> QED
    BY <2>4, <2>5 DEF DisabledEvents, Listed
<1>5. outgoing' = IF tc.type = 5 THEN << DoneOk >> \o rm ELSE Append(rm, DoneOk)
  BY <1>1, <1>3 DEF Answers
<1>6. /\ \/ rm = << >>
         \/ \E m : m.type # 1 /\ rm = <<m>>
      /\ tc.type = 5 /\ tc.subtype = 7 =>
            rm = << Message(5, 8, DisabledEvents(dict), Absent) >>
  BY <1>1, ReportShape
<1> HIDE DEF rm, done
<1>7. CASE tc.type = 5 /\ tc.subtype = 7
  <2> DEFINE m == Message(5, 8, DisabledEvents(dict), Absent)
  <2>1. m.type = 5 /\ m.ids = Listed
    BY <1>4, <1>7 DEF Message
  <2>2. rm = <<m>>
    BY <1>6, <1>7
  <2> HIDE DEF m
  <2>3. replies \o outgoing' = <<AckOk, DoneOk, m>>
    BY <1>1, <1>5, <1>7, <2>2, Pairs, Triples
  <2> QED
    BY <1>7, <2>1, <2>3 DEF Exchange
<1>8. CASE rm = << >> /\ ~(tc.type = 5 /\ tc.subtype = 7)
  <2>1. outgoing' = <<DoneOk>>
    BY <1>5, <1>8, Singles
  <2>2. replies \o outgoing' = <<AckOk, DoneOk>>
    BY <1>1, <2>1, Pairs
  <2> QED
    BY <1>8, <2>2 DEF Exchange
<1>9. ASSUME NEW m, m.type # 1, rm = <<m>>, ~(tc.type = 5 /\ tc.subtype = 7)
      PROVE  Exchange(tc, Listed, replies \o outgoing')
  <2>1. outgoing' = IF tc.type = 5 THEN <<DoneOk, m>> ELSE <<m, DoneOk>>
    BY <1>5, <1>9, Pairs
  <2>2. replies \o outgoing' = IF tc.type = 5 THEN <<AckOk, DoneOk, m>>
                                              ELSE <<AckOk, m, DoneOk>>
    BY <1>1, <2>1, Triples
  <2> QED
    BY <1>9, <2>2 DEF Exchange
<1> QED
  BY <1>6, <1>7, <1>8, <1>9

\* While a unit is initialised, only a handler writes its rows.
LEMMA OnlyHandlerWrites ==
    ASSUME IInv, AnswerInv, ready, [Next]_vars, ~Access
    PROVE  state'[Unit(tc)] = 1 /\ db'[Unit(tc)] = db[Unit(tc)]
<1> DEFINE u == Unit(tc)
<1>1. u \in Units /\ state[u] = 1 /\ state \in [Units -> {0, 1}]
  BY UnitInUnits DEF AnswerInv, IInv, TypeOK, DatabaseOK
<1>2. lpc # "off"
  BY DEF AnswerInv
<1>3. CASE InitRow
  <2>1. state[Models[mi]] = 0
    BY <1>3 DEF InitRow, IInv, StartupInv
  <2>2. db' = [db EXCEPT ![Models[mi]] = [@ EXCEPT ![InitOrder[ri]] =
                              Json(DefaultRow(InitOrder[ri]))]]
        /\ state' = state
    BY <1>3 DEF InitRow
  <2> QED
    BY <1>1, <2>1, <2>2 DEF IInv, TypeOK, DatabaseOK, TableOK
<1>4. ~FillTables
  BY <1>2 DEF FillTables, IInv, StartupInv
<1>5. CASE SetState
  BY <1>1, <1>5 DEF SetState
<1>6. CASE ~InitRow /\ ~SetState
  <2>1. db' = db /\ state' = state
    BY <1>4, <1>6 DEF Next, MainStep, CreateDb, CreateDbRaises, CreateTables,
       RtosInitialisation, StartListener, CheckRtosMain, EndOfPass,
       ReadState, JoinListener, ListenerStep, Take, ConnectListener,
       CheckRtosListener, RecvEmpty, RecvGarbled, RecvTelecommand,
       Acknowledge, ReadRow,
       SkipAccess, BodyRaises, Verify, VerifyRaises, SendAnswer, InBody,
       Send, ControlRtos, Crash, Restart, EndOfProcess, dbVars, vars
  <2> QED
    BY <1>1, <2>1
<1> QED
  BY <1>3, <1>5, <1>6

LEMMA AnswerKept ==
    IInv /\ ContentInv /\ HandlerInv /\ AnswerInv /\ [Next]_vars => AnswerInv'
<1> SUFFICES ASSUME IInv, ContentInv, HandlerInv, AnswerInv, [Next]_vars
             PROVE  AnswerInv'
  OBVIOUS
<1> USE DEF dbVars, mainVars, listener, handler
<1>1. CASE ~ready'
  BY <1>1 DEF AnswerInv
<1>2. CASE RecvTelecommand
  <2>1. /\ tc' = Head(inbox) /\ lpc' = "ack" /\ state' = state
        /\ ready' = (state[Unit(Head(inbox))] = 1)
    BY <1>2 DEF RecvTelecommand, Take
  <2>2. Head(inbox) \in Telecommands
    BY <1>2 DEF RecvTelecommand, Take, IInv, TypeOK, ListenerOK, Telecommands
  <2>3. ready' => state'[Unit(tc')] = 1
    BY <2>1, Zenon
  <2> QED
    BY <2>1, <2>2, <2>3 DEF AnswerInv
<1>3. CASE Access
  <2>1. UNCHANGED <<state, lpc, tc, ready, replies>> /\ lpc = "body"
    BY <1>3, AccessFacts
  <2> QED
    BY <2>1 DEF AnswerInv
<1>4. ASSUME ready, ~Access, UNCHANGED <<tc, ready>>
      PROVE  AnswerInv'
  <2>1. /\ tc \in Telecommands /\ state'[Unit(tc)] = 1
        /\ lpc \notin {"off", "connect"} /\ \A r : Row(r)' = Row(r)
    BY <1>4, OnlyHandlerWrites DEF AnswerInv, Row
  <2>2. Listed' = Listed
    BY <1>4, <2>1 DEF Listed
  <2>3. SUFFICES /\ lpc' \notin {"off", "connect"}
                 /\ lpc' \in {"read", "body"} => replies' = <<AckOk>>
                 /\ lpc' = "send" => Exchange(tc, Listed, replies' \o outgoing')
                 /\ lpc' \in {"check", "recv"} =>
                        IF tc.type \in Implemented
                        THEN Exchange(tc, Listed, replies')
                        ELSE replies' = <<AckOk>>
    BY <1>4, <2>1, <2>2 DEF AnswerInv
  <2>4. CASE UNCHANGED <<lpc, replies, outgoing>>
    BY <1>4, <2>1, <2>4 DEF AnswerInv
  <2>5. CASE CheckRtosListener \/ RecvEmpty \/ ReadRow \/ SkipAccess
    BY <1>4, <2>5 DEF CheckRtosListener, RecvEmpty, Take, ReadRow,
       SkipAccess, InBody, AnswerInv
  <2>6. CASE RecvGarbled \/ BodyRaises \/ VerifyRaises
    BY <2>6 DEF RecvGarbled, BodyRaises, VerifyRaises, Die
  <2>7. CASE Acknowledge
    <3>1. "acceptanceVerificationReport" \in RowNames
      BY DEF RowNames
    <3>2. Row("acceptanceVerificationReport").json
      BY <1>4, <3>1, SealedRead DEF IInv, AnswerInv, Clobbered
    <3>3. Row("acceptanceVerificationReport").val = NoFailure
      BY <3>1, UnitInUnits DEF ContentInv, CellsOK, CellOK, Verification, Row
    <3>4. replies' = <<AckOk>>
      BY <2>7, <3>2, <3>3 DEF Acknowledge, AckOk, NoFailure
    <3>5. lpc' = IF tc.type \in Implemented THEN "read" ELSE "check"
      BY <2>7 DEF Acknowledge
    <3> QED
      BY <3>4, <3>5
  <2>8. CASE Verify
    <3>1. lpc' = "send" /\ replies' = replies
      BY <2>8 DEF Verify
    <3> QED
      BY <1>4, <2>8, <3>1, AnswersComplete
  <2>9. CASE SendAnswer
    <3>1. /\ lpc = "send" /\ replies' = Append(replies, Head(outgoing))
          /\ outgoing' = Tail(outgoing)
          /\ lpc' = IF Tail(outgoing) = << >> THEN "check" ELSE "send"
      BY <2>9 DEF SendAnswer
    <3>2. /\ outgoing \in Seq(Messages) /\ replies \in Seq(Messages)
          /\ outgoing # << >> /\ tc.type \in Implemented
      BY <3>1 DEF IInv, TypeOK, ListenerOK
    <3>3. /\ replies' \o outgoing' = replies \o outgoing
          /\ replies' \o << >> = replies'
      BY <3>1, <3>2, MoveHead
    <3>4. Exchange(tc, Listed, replies' \o outgoing')
      BY <1>4, <3>1, <3>3 DEF AnswerInv
    <3>5. Tail(outgoing) = << >> => Exchange(tc, Listed, replies')
      <4> SUFFICES ASSUME Tail(outgoing) = << >>
                   PROVE  Exchange(tc, Listed, replies')
        OBVIOUS
      <4>1. replies' \o outgoing' = replies'
        BY <3>1, <3>3
      <4> QED
        BY <3>4, <4>1
    <3> QED
      BY <3>1, <3>2, <3>4, <3>5
  <2>10. CASE MainStep
    <3>1. ~StartListener
      BY <2>1 DEF StartListener, IInv, StartupInv
    <3>2. UNCHANGED <<lpc, replies, outgoing>>
      BY <2>10, <3>1 DEF MainStep, CreateDb, CreateDbRaises, CreateTables,
         FillTables, RtosInitialisation, CheckRtosMain, EndOfPass,
         ReadState, InitRow, SetState, JoinListener
    <3> QED
      BY <2>4, <3>2
  <2>11. CASE \/ \E d \in Datagrams : Send(d)
              \/ \E v \in {"0", "1"} : ControlRtos(v)
              \/ UNCHANGED vars
    BY <2>4, <2>11 DEF Send, ControlRtos, vars
  <2>12. ~Crash /\ ~Restart /\ ~ConnectListener
    BY <1>4, <2>1 DEF Crash, Restart, EndOfProcess, ConnectListener
  <2>13. CASE RecvTelecommand
    BY <1>2, <2>13, <2>1, <2>2, <1>4 DEF AnswerInv
  <2> QED
    BY <1>4, <2>5, <2>6, <2>7, <2>8, <2>9, <2>10, <2>11, <2>12, <2>13
       DEF Next, ListenerStep
<1>5. ASSUME ready', ~RecvTelecommand PROVE ready /\ UNCHANGED <<tc, ready>>
  BY <1>5 DEF Next, MainStep, CreateDb, CreateDbRaises, CreateTables,
     FillTables, RtosInitialisation, StartListener, CheckRtosMain, EndOfPass,
     ReadState, InitRow, SetState, JoinListener, ListenerStep,
     ConnectListener, CheckRtosListener, RecvEmpty, RecvGarbled, Acknowledge,
     ReadRow,
     SkipAccess, BodyRaises, Access, Verify, VerifyRaises, SendAnswer, Send,
     ControlRtos, Crash, Restart, EndOfProcess, vars
<1> QED
  BY <1>1, <1>2, <1>3, <1>4, <1>5

LEMMA AnswerInvariant == Spec => []AnswerInv
<1>1. Init => HandlerInv /\ AnswerInv
  BY DEF Init, HandlerInv, AnswerInv
<1> QED
  BY <1>1, HandlerInvKept, AnswerKept, IInvInvariant, ContentInvariant, PTL
     DEF Spec

\* The sender of a command for an initialised unit gets one acceptance report,
\* first, and of an implemented service exactly one completion report, in the
\* place its service gives it, whatever else the process does meanwhile.
THEOREM CommandAnsweredHolds == Spec => []CommandAnswered
<1>1. ASSUME AnswerInv, Finished, ready
      PROVE  /\ Sent(AckOk) = {1}
             /\ tc.type \notin Implemented => Len(replies) = 1
             /\ tc.type \in Implemented =>
                   Sent(DoneOk) = IF tc.type = 5 THEN {2} ELSE {Len(replies)}
  <2>1. lpc = "check"
    BY <1>1 DEF Finished
  <2>2. /\ AckOk.type = 1 /\ AckOk.sub = 1
        /\ DoneOk.type = 1 /\ DoneOk.sub = 7
    BY DEF AckOk, DoneOk, Ack, Completion, Message
  <2>3. CASE tc.type \notin Implemented
    <3>1. replies = <<AckOk>>
      BY <1>1, <2>1, <2>3 DEF AnswerInv
    <3>2. Len(replies) = 1 /\ replies[1] = AckOk
      BY <3>1
    <3> QED
      BY <2>3, <3>2 DEF Sent
  <2>4. CASE tc.type \in Implemented /\ replies = <<AckOk, DoneOk>>
    <3>1. Len(replies) = 2 /\ replies[1] = AckOk /\ replies[2] = DoneOk
      BY <2>4
    <3> QED
      BY <2>2, <2>4, <3>1 DEF Sent
  <2>5. ASSUME tc.type \in Implemented, NEW m, m.type # 1,
               replies = IF tc.type = 5 THEN <<AckOk, DoneOk, m>>
                                        ELSE <<AckOk, m, DoneOk>>
        PROVE  /\ Sent(AckOk) = {1}
               /\ Sent(DoneOk) = IF tc.type = 5 THEN {2} ELSE {Len(replies)}
    <3>1. /\ Len(replies) = 3 /\ replies[1] = AckOk
          /\ tc.type = 5 => replies[2] = DoneOk /\ replies[3] = m
          /\ tc.type # 5 => replies[2] = m /\ replies[3] = DoneOk
      BY <2>5
    <3> QED
      BY <2>2, <2>5, <3>1 DEF Sent
  <2> QED
    BY <1>1, <2>1, <2>3, <2>4, <2>5 DEF AnswerInv, Exchange
<1>2. AnswerInv => CommandAnswered
  BY <1>1 DEF CommandAnswered
<1> QED
  BY <1>2, AnswerInvariant, PTL

\* The disabled events that PUS 5 reports are those of the tables when the
\* handler ends, although it took them from copies.
THEOREM EventListCurrentHolds == Spec => []EventListCurrent
<1>1. ASSUME AnswerInv, Finished, ready, tc.type = 5, tc.subtype = 7
      PROVE  replies[3].ids = Listed
  <2>1. Exchange(tc, Listed, replies)
    BY <1>1 DEF AnswerInv, Finished, Implemented
  <2> QED
    BY <1>1, <2>1 DEF Exchange
<1>2. AnswerInv => EventListCurrent
  BY <1>1 DEF EventListCurrent, Listed
<1> QED
  BY <1>2, AnswerInvariant, PTL

-----------------------------------------------------------------------------
(* Read, change and write back                                             *)

\* The copy of an initialised unit's Memory row is raw only if the row still
\* is: no unit model writes the row between the read and the write.
RawCopyInv ==
    lpc = "body" /\ ready /\ tc.type = 6 /\ ~dict["Memory"].json =>
        ~Row("Memory").json

LEMMA RawCopyKept ==
    IInv /\ AnswerInv /\ RawCopyInv /\ [Next]_vars => RawCopyInv'
<1> SUFFICES ASSUME IInv, AnswerInv, RawCopyInv, [Next]_vars,
                    lpc' = "body", ready', tc'.type = 6,
                    ~dict'["Memory"].json
             PROVE  ~Row("Memory")'.json
  BY DEF RawCopyInv
<1> USE DEF dbVars, mainVars, listener, handler
<1>1. "Memory" \in RowNames
  BY DEF RowNames
<1>2. CASE Access
  <2>1. /\ UNCHANGED <<tc, ready>> /\ lpc = "body"
        /\ AccessedRow \in RowNames /\ Unit(tc) \in Units
    BY <1>2, AccessFacts
  <2>2. CASE UNCHANGED <<dict, db>>
    BY <2>1, <2>2 DEF RawCopyInv, Row
  <2>3. CASE /\ dict' = [dict EXCEPT ![AccessedRow] = Written]
             /\ db' = [db EXCEPT ![Unit(tc)] =
                            [@ EXCEPT ![AccessedRow] = Written]]
    <3>1. db'[Unit(tc)]["Memory"] =
              IF "Memory" = AccessedRow THEN Written
                                        ELSE db[Unit(tc)]["Memory"]
      BY <1>1, <2>1, <2>3, TableRow DEF IInv, TypeOK, DatabaseOK
    <3>2. dict'["Memory"] = IF "Memory" = AccessedRow THEN Written
                                                      ELSE dict["Memory"]
      BY <1>1, <2>1, <2>3 DEF IInv, TypeOK, ListenerOK, RowsOK
    <3> QED
      BY <2>1, <3>1, <3>2 DEF RawCopyInv, Row
  <2> QED
    BY <1>2, <2>2, <2>3, AccessFacts
<1>3. CASE ReadRow
  <2>1. /\ UNCHANGED <<tc, db>> /\ pos \in 1..Len(Reads(tc.type))
        /\ dict' = [dict EXCEPT ![Reads(tc.type)[pos]] =
                        Row(Reads(tc.type)[pos])]
    BY <1>3, ReadsTyped DEF ReadRow, IInv, TypeOK, ListenerOK
  <2>2. Reads(tc.type) = <<"Memory">>
    BY <2>1 DEF Reads
  <2>3. Reads(tc.type)[pos] = "Memory"
    BY <2>1, <2>2
  <2>4. dict'["Memory"] = Row("Memory")
    BY <1>1, <2>1, <2>3 DEF IInv, TypeOK, ListenerOK, RowsOK
  <2> QED
    BY <2>1, <2>4 DEF Row
<1>4. CASE ~Access /\ ~ReadRow
  <2>1. lpc = "body" /\ UNCHANGED <<tc, ready, dict>>
    BY <1>4 DEF Next, MainStep, CreateDb, CreateDbRaises, CreateTables,
       FillTables, RtosInitialisation, StartListener, CheckRtosMain,
       EndOfPass, ReadState, InitRow, SetState, JoinListener, ListenerStep,
       Take, ConnectListener, CheckRtosListener, RecvEmpty, RecvGarbled,
       RecvTelecommand, Acknowledge, SkipAccess, BodyRaises, Die, Verify,
       VerifyRaises, SendAnswer, InBody, Send, ControlRtos, Crash, Restart,
       EndOfProcess, vars
  <2>2. db'[Unit(tc)] = db[Unit(tc)]
    BY <1>4, <2>1, OnlyHandlerWrites
  <2> QED
    BY <2>1, <2>2 DEF RawCopyInv, Row
<1> QED
  BY <1>2, <1>3, <1>4

\* What a step may do to row r of unit u.
RowKept(u, r) ==
    db'[u][r] # db[u][r] =>
        \/ ~db[u][r].json /\ db'[u][r] = Json(DefaultRow(r))
        \/ /\ InBody /\ u = Unit(tc) /\ r = Accesses(tc)[pos]
           /\ \/ /\ db[u][r].json
                 /\ db'[u][r] = Json(NewValue(tc, db[u][r].val))
              \/ /\ RestoresUnseen(tc) /\ ~ready
                 /\ db'[u][r] = Raw(r)

LEMMA InitKeepsRow ==
    ASSUME IInv, InitRow, NEW u \in Units, NEW r \in RowNames
    PROVE  RowKept(u, r)
<1> DEFINE v == Models[mi]
           q == InitOrder[ri]
           c == Json(DefaultRow(q))
<1>1. v \in Units /\ q \in RowNames /\ TableOK(db)
  BY ModelTyped, InitOrderRows
     DEF IInv, InitRow, TypeOK, MainOK, DatabaseOK
<1>2. db' = [db EXCEPT ![v] = [@ EXCEPT ![q] = c]]
  BY DEF InitRow
<1>3. ~db[v][q].json
  BY InitOrderRows DEF InitRow, IInv, StartupInv, TypeOK, MainOK
<1> HIDE DEF v, q, c
<1>4. db'[u][r] = IF u = v /\ r = q THEN c ELSE db[u][r]
  BY <1>1, <1>2, TableRow
<1> QED
  BY <1>3, <1>4 DEF RowKept, c

LEMMA AccessKeepsRow ==
    ASSUME IInv, ContentInv, RawCopyInv, Access,
           NEW u \in Units, NEW r \in RowNames
    PROVE  RowKept(u, r)
<1> SUFFICES ASSUME db'[u][r] # db[u][r] PROVE RowKept(u, r)
  BY DEF RowKept
<1>1. /\ db' = [db EXCEPT ![Unit(tc)] = [@ EXCEPT ![AccessedRow] = Written]]
      /\ AccessedRow \in RowNames /\ Unit(tc) \in Units /\ ~Raises
      /\ TableOK(db) /\ lpc = "body"
  BY AccessFacts DEF IInv, TypeOK, DatabaseOK
<1>2. u = Unit(tc) /\ r = AccessedRow /\ db'[u][r] = Written
  <2>1. db'[u][r] = IF u = Unit(tc) /\ r = AccessedRow THEN Written
                                                       ELSE db[u][r]
    BY <1>1, TableRow
  <2> QED
    BY <2>1
<1>3. InBody
  BY DEF Access
<1>4. CASE Copied.json
  <2>1. db[u][r] = Copied
    BY <1>1, <1>2, <1>4 DEF IInv, SnapshotFresh, Copied
  <2>2. db'[u][r] = Json(NewValue(tc, db[u][r].val))
    BY <1>2, <1>4, <2>1 DEF Written
  <2> QED
    BY <1>2, <1>3, <1>4, <2>1, <2>2 DEF RowKept, AccessedRow
<1>5. CASE ~Copied.json
  <2>1. RestoresUnseen(tc)
    BY <1>1, <1>5 DEF Raises, Copied, AccessedRow
  <2>2. tc.type = 6 /\ r = "Memory"
    BY <1>2, <2>1, AccessFacts, AccessRow DEF RestoresUnseen, AccessedRow
  <2>3. Copied = Raw(r)
    BY <1>1, <1>2, <1>5 DEF ContentInv, CellsOK, CellOK, Copied
  <2>4. db'[u][r] = Raw(r)
    BY <1>2, <1>5, <2>3 DEF Written
  <2>5. db[u][r].json
    <3>1. CellOK(r, db[u][r])
      BY DEF ContentInv, CellsOK
    <3> QED
      BY <2>4, <3>1 DEF CellOK
  <2>6. ~ready
    BY <1>1, <1>2, <1>5, <2>2, <2>5 DEF RawCopyInv, Copied, Row
  <2> QED
    BY <1>2, <1>3, <2>1, <2>4, <2>6 DEF RowKept, AccessedRow
<1> QED
  BY <1>4, <1>5

LEMMA StepKeepsRow ==
    ASSUME IInv, ContentInv, RawCopyInv, [Next]_vars,
           NEW u \in Units, NEW r \in RowNames
    PROVE  RowKept(u, r)
<1>1. CASE db' = db
  BY <1>1 DEF RowKept
<1>2. CASE ReadRow
  BY <1>2 DEF ReadRow, dbVars, RowKept
<1> QED
  BY <1>1, <1>2, StepCases, InitKeepsRow, AccessKeepsRow

\* A handler of bcr.py applies its command to what the row holds when it writes
\* the row back, although it works on a copy that it took earlier, and a unit
\* model writes over no dictionary.  The update that does get lost is named:
\* it is lost to a CHANGE HEALTH to healthy for a unit that was not initialised
\* when the command came.
THEOREM UpdateKeptHolds == Spec => UpdateKept
<1> DEFINE Kept == \A u \in Units, r \in RowNames :
            db'[u][r] # db[u][r] =>
                \/ ~db[u][r].json /\ db'[u][r] = Json(DefaultRow(r))
                \/ /\ InBody /\ u = Unit(tc) /\ r = Accesses(tc)[pos]
                   /\ \/ /\ db[u][r].json
                         /\ db'[u][r] = Json(NewValue(tc, db[u][r].val))
                      \/ /\ RestoresUnseen(tc) /\ ~ready
                         /\ db'[u][r] = Raw(r)
<1>1. Init => RawCopyInv
  BY DEF Init, RawCopyInv
<1>2. IInv /\ ContentInv /\ RawCopyInv /\ [Next]_vars => [Kept]_vars
  <2> SUFFICES ASSUME IInv, ContentInv, RawCopyInv, [Next]_vars PROVE Kept
    OBVIOUS
  <2> QED
    BY StepKeepsRow DEF RowKept
<1> QED
  BY <1>1, <1>2, RawCopyKept, AnswerInvariant, ContentInvariant,
     IInvInvariant, PTL DEF Spec, UpdateKept
=============================================================================
