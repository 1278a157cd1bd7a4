------------------------- MODULE DatabaseOutageProofs -------------------------
(***************************************************************************)
(* What survives when the database server goes away and comes back between *)
(* any two calls: the rows of an initialised unit, and the meaning of a    *)
(* completion report; and which threads an outage ends.                    *)
(***************************************************************************)
EXTENDS DatabaseOutage, SemsimProofs

-----------------------------------------------------------------------------
(* The steps of an outage                                                  *)

MeetsOutage == MainFails \/ AckFails \/ ListenerFails

\* A step is one of Semsim, or a thread meets the outage.
LEMMA OutageSteps ==
    ASSUME [OutageNext]_<<vars, outageVars>>
    PROVE  [Next]_vars \/ MeetsOutage
  BY DEF OutageNext, DbGone, DbBack, MainGoesOn, ListenerGoesOn, Environment,
         Next, MeetsOutage

\* A thread that meets the outage stops where it is, or goes on without an
\* acceptance report, and writes nothing.
LEMMA FailsFacts ==
    ASSUME MeetsOutage
    PROVE  /\ UNCHANGED <<catalog, activate, state, db, mi, ri, tc, ready,
                          dict, pos, outgoing, replies, late, controls,
                          crashes>>
           /\ \/ /\ mpc' = IF lpc = "off" THEN "down" ELSE "join"
                 /\ UNCHANGED <<lpc, inbox>>
              \/ /\ lpc = "ack" /\ UNCHANGED <<mpc, inbox>>
                 /\ lpc' = IF tc.type \in Implemented THEN "read" ELSE "check"
              \/ /\ lpc' = "dead" /\ inbox' = << >> /\ UNCHANGED mpc
                 /\ ~ListenerCan
  BY DEF MeetsOutage, MainFails, AckFails, ListenerFails, Die, dbVars, mainVars,
         listener, handler, bounds

LEMMA FailsTypeOK ==
    ASSUME TypeOK, MeetsOutage
    PROVE  TypeOK'
<1> USE FailsFacts
<1>1. DatabaseOK' /\ (late \in Nat /\ controls \in Nat /\ crashes \in Nat)'
  BY DEF TypeOK, DatabaseOK
<1>2. MainOK'
  BY DEF TypeOK, MainOK, MainStates
<1>3. ListenerOK'
  <2>1. CASE lpc' = lpc /\ inbox' = inbox
    BY <2>1 DEF TypeOK, ListenerOK
  <2>2. CASE /\ lpc = "ack" /\ inbox' = inbox
             /\ lpc' = IF tc.type \in Implemented THEN "read" ELSE "check"
    BY <2>2, ReadsTyped DEF TypeOK, ListenerOK, ListenerStates
  <2>3. CASE lpc' = "dead" /\ inbox' = << >>
    <3>1. << >> \in Seq(Datagrams) /\ Len(<< >>) <= QueueBound
      BY BoundsAssumption
    <3> QED
      BY <2>3, <3>1 DEF TypeOK, ListenerOK, ListenerStates
  <2> QED
    BY <2>1, <2>2, <2>3
<1> QED
  BY <1>1, <1>2, <1>3 DEF TypeOK

LEMMA FailsKeepIInv ==
    ASSUME IInv, MeetsOutage
    PROVE  IInv'
<1>1. TypeOK'
  BY FailsTypeOK DEF IInv
<1>2. SealedRows' /\ SnapshotFresh'
  BY FailsFacts DEF IInv, SealedRows, SnapshotFresh
<1>3. StartupInv'
  <2>1. CASE mpc' = mpc
    <3>1. mpc \in {"boot", "tables", "fill", "activate", "spawn", "down"} =>
              lpc = "off"
      BY DEF IInv, StartupInv
    <3>2. lpc = "off" => lpc' = "off"
      <4>1. lpc = "off" => ListenerCan
        BY DEF ListenerCan
      <4> QED
        BY <4>1, FailsFacts
    <3> QED
      BY <2>1, <3>1, <3>2, FailsFacts DEF IInv, StartupInv, UntouchedBefore
  <2>2. CASE mpc' = (IF lpc = "off" THEN "down" ELSE "join") /\ lpc' = lpc
    BY <2>2, FailsFacts DEF IInv, StartupInv, UntouchedBefore, Building
  <2> QED
    BY <2>1, <2>2, FailsFacts
<1> QED
  BY <1>1, <1>2, <1>3 DEF IInv

LEMMA OutageIInv ==
    IInv /\ [OutageNext]_<<vars, outageVars>> => IInv'
  BY OutageSteps, IInvKept, FailsKeepIInv

\* What holds without outages holds with them, the stages of the start-up
\* included: the main thread that an outage ends in the middle of a unit's rows
\* leaves that unit with STATE = 0 for good.
LEMMA OutageIInvInvariant == OutageSpec => []IInv
<1>1. OutageInit => IInv
  BY InitIInv DEF OutageInit
<1> QED
  BY <1>1, OutageIInv, PTL DEF OutageSpec

\* A unit with STATE = 1 holds a dictionary in every row, wherever the database
\* refuses or drops a connection of db_manager.py: a failed write of a row ends
\* the main thread before it can write STATE.
THEOREM OutageSealedRowsHold == OutageSpec => []SealedRows
<1>1. IInv => SealedRows
  BY DEF IInv
<1> QED
  BY <1>1, OutageIInvInvariant, PTL

-----------------------------------------------------------------------------
(* The causes of the listener's end                                        *)

LEMMA OutageHandlerInv ==
    IInv /\ HandlerInv /\ [OutageNext]_<<vars, outageVars>> => HandlerInv'
<1>1. ASSUME IInv, HandlerInv, MeetsOutage PROVE HandlerInv'
  <2>1. CASE lpc' = lpc
    BY <1>1, <2>1, FailsFacts DEF HandlerInv, Fetched
  <2>2. CASE lpc = "ack" /\ lpc' \in {"read", "check"}
    <3>1. pos' = 1 /\ tc' = tc /\ ready' = ready /\ state' = state
      BY <1>1, <2>2, FailsFacts DEF IInv, TypeOK, ListenerOK
    <3>2. lpc' # "body"
      BY <2>2
    <3>3. lpc' = "read" => \A k \in 1..Len(Reads(tc.type)) : ~(k < pos')
      BY <3>1
    <3> QED
      BY <1>1, <2>2, <3>1, <3>2, <3>3 DEF HandlerInv
  <2>3. CASE lpc' = "dead"
    BY <2>3 DEF HandlerInv
  <2> QED
    BY <1>1, <2>1, <2>2, <2>3, FailsFacts
<1> QED
  BY <1>1, OutageSteps, HandlerInvKept

\* The listener thread of tmtc_manager.py ends for a cause of the datagram's
\* own, or by a call of its own that meets an outage, its first db_connect
\* included: cmd_ack_generator catches the exception, and an outage between two
\* calls goes unnoticed.
THEOREM OutageDeathHasCauseHolds == OutageSpec => OutageDeathHasCause
<1> DEFINE Cause == lpc' = "dead" /\ lpc # "dead" =>
                        \/ DeathCause
                        \/ lpc \in {"connect", "read", "body"} /\ ~up
                        \/ lpc = "check" /\ "listener" \in broken
<1>1. OutageInit => HandlerInv
  BY DEF OutageInit, Init, HandlerInv
<1>2. IInv /\ HandlerInv /\ [OutageNext]_<<vars, outageVars>>
          => [Cause]_<<vars, outageVars>>
  <2> SUFFICES ASSUME IInv, HandlerInv, [OutageNext]_<<vars, outageVars>>,
                      lpc' = "dead", lpc # "dead"
               PROVE  Cause
    OBVIOUS
  <2>1. CASE [Next]_vars
    <3>1. Next
      BY <2>1 DEF vars, listener
    <3> QED
      BY <3>1, StepDies
  <2>2. CASE MeetsOutage
    <3>1. ~ListenerCan /\ lpc # "ack"
      BY <2>2 DEF MeetsOutage, MainFails, AckFails, ListenerFails, listener
    <3> QED
      BY <3>1 DEF ListenerCan
  <2> QED
    BY <2>1, <2>2, OutageSteps
<1> QED
  BY <1>1, <1>2, OutageHandlerInv, OutageIInvInvariant, PTL
     DEF OutageSpec, OutageDeathHasCause

-----------------------------------------------------------------------------
(* What a completion report means                                          *)

LEMMA OutageContent ==
    IInv /\ ContentInv /\ [OutageNext]_<<vars, outageVars>> => ContentInv'
<1>1. ASSUME ContentInv, MeetsOutage PROVE ContentInv'
  BY <1>1, FailsFacts DEF ContentInv
<1> QED
  BY <1>1, OutageSteps, ContentKept

\* The i-th access of the command has had its effect, and would have none a
\* second time.  A CHANGE HEALTH to healthy never has one.
Effective(i) ==
    LET r == Accesses(tc)[i]
    IN  r # "none" =>
            \/ RestoresUnseen(tc)
            \/ /\ Row(r).json
               /\ Stores(tc, Row(r).val) =>
                      Row(r).val = NewValue(tc, Row(r).val)

\* No report of the completion is sent before the last access of the body, and
\* nobody undoes an access before the next command is taken.
ReportInv ==
    /\ lpc = "ack" => replies = << >>
    /\ lpc \in {"read", "body"} => Sent(DoneOk) = {}
    /\ lpc = "body" =>
            \A i \in 1..Len(Accesses(tc)) : i < pos => Effective(i)
    /\ lpc = "send" \/ Sent(DoneOk) # {} =>
            /\ tc \in Telecommands
            /\ \A i \in 1..Len(Accesses(tc)) : Effective(i)

LEMMA AckIsNotDone == \A row : Ack(row).sub # DoneOk.sub
  BY DEF DoneOk, Completion, Ack, Message

\* An access keeps its effect in every step but that of another access: a unit
\* model writes rows that hold no dictionary.
LEMMA EffectiveKept ==
    ASSUME IInv, [Next]_vars, ~Access, tc' = tc, tc \in Telecommands,
           NEW i \in 1..Len(Accesses(tc)), Effective(i)
    PROVE  Effective(i)'
<1> DEFINE r == Accesses(tc)[i]
<1>1. CASE r = "none" \/ RestoresUnseen(tc)
  BY <1>1 DEF Effective
<1>2. CASE r # "none" /\ ~RestoresUnseen(tc)
  <2>1. Row(r).json /\ r \in RowNames /\ Unit(tc) \in Units
    BY <1>2, AccessesTyped, TelecommandWellFormed, UnitInUnits DEF Effective
  <2>2. CASE db' = db
    BY <2>2 DEF Effective, Row
  <2>3. CASE InitRow
    <3>1. ~db[Models[mi]][InitOrder[ri]].json
      BY <2>3 DEF InitRow, IInv, TypeOK, MainOK, StartupInv
    <3>2. db' = [db EXCEPT ![Models[mi]] = [@ EXCEPT ![InitOrder[ri]] =
                                Json(DefaultRow(InitOrder[ri]))]]
      BY <2>3 DEF InitRow
    <3>3. Row(r)' = Row(r)
      BY <2>1, <3>1, <3>2
         DEF IInv, TypeOK, DatabaseOK, TableOK, RowsOK, Row
    <3> QED
      BY <3>3 DEF Effective
  <2>4. ReadRow => db' = db
    BY DEF ReadRow, dbVars
  <2> QED
    BY <2>2, <2>3, <2>4, StepCases
<1> QED
  BY <1>1, <1>2

LEMMA AccessEffective ==
    ASSUME IInv, ContentInv, ReportInv, Access
    PROVE  \A i \in 1..Len(Accesses(tc)) : i < pos' => Effective(i)'
<1>1. /\ WellFormed(tc) /\ Unit(tc) \in Units /\ pos \in 1..Len(Accesses(tc))
      /\ AccessedRow \in RowNames /\ AccessedRow # "none" /\ ~Raises
      /\ Copied \in Cells(AccessedRow) /\ lpc = "body" /\ tc' = tc
  BY AccessFacts
<1>2. pos' = pos + 1
  BY DEF Access
<1> SUFFICES ASSUME NEW i \in 1..Len(Accesses(tc)), i <= pos,
                    Accesses(tc)[i] # "none", ~RestoresUnseen(tc)
             PROVE  Effective(i)'
  BY <1>1, <1>2, AccessesTyped DEF Effective
<1>3. Copied.json /\ ~Fails(tc, pos, Copied.val)
  BY <1>1 DEF Raises, Copied, AccessedRow
<1>4. Row(AccessedRow) = Copied
  BY <1>1, <1>3 DEF IInv, SnapshotFresh, Row, Copied
<1>5. Accesses(tc)[i] \in RowNames
  BY <1>1, AccessesTyped
<1>6. i # pos => Effective(i)
  BY <1>1, AccessesTyped DEF ReportInv
<1>7. CASE ~Stores(tc, Copied.val)
  <2>1. db' = db
    BY <1>7 DEF Access, Copied, AccessedRow
  <2>2. Effective(i)
    BY <1>3, <1>4, <1>6, <1>7 DEF Effective, AccessedRow
  <2> QED
    BY <1>1, <2>1, <2>2 DEF Effective, Row
<1>8. CASE Stores(tc, Copied.val)
  <2> DEFINE w == NewValue(tc, Copied.val)
  <2>1. db' = [db EXCEPT ![Unit(tc)] = [@ EXCEPT ![AccessedRow] = Json(w)]]
    BY <1>3, <1>8 DEF Access, Copied, AccessedRow
  <2>2. NewValue(tc, w) = w
    <3>1. AccessedRow = "Memory" => Single(Copied.val)
      BY <1>1 DEF ContentInv, CellsOK, CellOK, Copied
    <3>2. Copied.val \in RowValues(AccessedRow)
      BY <1>1 DEF Cells
    <3> QED
      BY <1>1, <1>3, <1>8, <3>1, <3>2, NewValueTwice DEF AccessedRow
  <2>3. \A q \in RowNames :
            Row(q)' = IF q = AccessedRow THEN Json(w) ELSE Row(q)
    <3> HIDE DEF w
    <3> QED
      BY <1>1, <2>1 DEF IInv, TypeOK, DatabaseOK, TableOK, RowsOK, Row
  <2>4. CASE Accesses(tc)[i] = AccessedRow
    <3>1. Row(Accesses(tc)[i])' = Json(w)
      BY <1>1, <1>5, <2>3, <2>4
    <3>2. Json(w).json /\ Json(w).val = w
      BY DEF Json
    <3> HIDE DEF w
    <3> QED
      BY <1>1, <2>2, <2>4, <3>1, <3>2 DEF Effective
  <2>5. CASE Accesses(tc)[i] # AccessedRow
    <3>1. Row(Accesses(tc)[i])' = Row(Accesses(tc)[i])
      BY <1>1, <1>5, <2>3, <2>5
    <3>2. Effective(i)
      BY <1>6, <2>5 DEF AccessedRow
    <3> QED
      BY <1>1, <3>1, <3>2 DEF Effective
  <2> QED
    BY <2>4, <2>5
<1> QED
  BY <1>7, <1>8

\* The steps that are no access and take no command.
LEMMA QuietReport ==
    ASSUME IInv, ReportInv, [Next]_vars, ~Access, tc' = tc
    PROVE  ReportInv'
<1> USE DEF dbVars, mainVars, listener, handler
<1> DEFINE All == \A i \in 1..Len(Accesses(tc)) : Effective(i)
<1>1. ASSUME tc \in Telecommands, All
      PROVE  \A i \in 1..Len(Accesses(tc)) : Effective(i)'
  BY <1>1, EffectiveKept
<1>2. ASSUME Sent(DoneOk)' = Sent(DoneOk),
             lpc' \notin {"ack", "read", "body", "send"}
      PROVE  ReportInv'
  BY <1>1, <1>2 DEF ReportInv
<1>3. CASE UNCHANGED <<lpc, pos, replies>>
  <2>1. Sent(DoneOk)' = Sent(DoneOk)
    BY <1>3 DEF Sent, DoneOk
  <2>2. lpc = "body" => \A i \in 1..Len(Accesses(tc)) :
                            i < pos => Effective(i)'
    BY EffectiveKept DEF ReportInv, IInv, TypeOK, ListenerOK
  <2> QED
    BY <1>1, <1>3, <2>1, <2>2 DEF ReportInv
<1>4. CASE ConnectListener \/ CheckRtosListener \/ RecvEmpty \/ RecvGarbled
           \/ BodyRaises \/ VerifyRaises
  <2>1. /\ lpc' \notin {"ack", "read", "body", "send"}
        /\ replies' = replies
    BY <1>4 DEF ConnectListener, CheckRtosListener, RecvEmpty, RecvGarbled,
       BodyRaises, VerifyRaises, Die
  <2> QED
    BY <1>2, <2>1 DEF Sent, DoneOk
<1>5. CASE Acknowledge
  <2>1. /\ lpc' \in {"read", "check"}
        /\ replies' = << >> \/ \E row : replies' = << Ack(row) >>
    BY <1>5 DEF Acknowledge
  <2>2. Sent(DoneOk)' = {}
    BY <2>1, AckIsNotDone DEF Sent, DoneOk
  <2> QED
    BY <2>1, <2>2 DEF ReportInv
<1>6. CASE ReadRow
  <2>1. /\ lpc = "read" /\ lpc' \in {"read", "body"} /\ replies' = replies
        /\ lpc' = "body" => pos' = 1
    BY <1>6 DEF ReadRow
  <2>2. Sent(DoneOk)' = {}
    BY <2>1 DEF ReportInv, Sent, DoneOk
  <2>3. lpc' = "body" => \A i \in 1..Len(Accesses(tc)) : ~(i < pos')
    BY <2>1
  <2> QED
    BY <2>1, <2>2, <2>3 DEF ReportInv
<1>7. CASE SkipAccess
  <2>1. /\ lpc = "body" /\ lpc' = "body" /\ replies' = replies
        /\ pos' = pos + 1 /\ Accesses(tc)[pos] = "none"
        /\ tc \in Telecommands /\ pos \in Nat
    BY <1>7 DEF SkipAccess, InBody, IInv, TypeOK, ListenerOK
  <2>2. Sent(DoneOk)' = {}
    BY <2>1 DEF ReportInv, Sent, DoneOk
  <2>3. ASSUME NEW i \in 1..Len(Accesses(tc)), i < pos'
        PROVE  Effective(i)'
    <3>1. CASE i = pos
      BY <2>1, <3>1 DEF Effective
    <3>2. CASE i < pos
      BY <2>1, <3>2, EffectiveKept DEF ReportInv
    <3> QED
      BY <2>1, <2>3, <3>1, <3>2
  <2> QED
    BY <2>1, <2>2, <2>3 DEF ReportInv
<1>8. CASE Verify
  <2>1. /\ lpc = "body" /\ lpc' = "send" /\ tc \in Telecommands
        /\ pos > Len(Accesses(tc)) /\ pos \in Nat
    BY <1>8 DEF Verify, IInv, TypeOK, ListenerOK
  <2>2. All
    BY <2>1, AccessesTyped, TelecommandWellFormed DEF ReportInv
  <2> QED
    BY <1>1, <2>1, <2>2 DEF ReportInv
<1>9. CASE SendAnswer
  <2>1. lpc = "send" /\ lpc' \in {"check", "send"}
    BY <1>9 DEF SendAnswer
  <2> QED
    BY <1>1, <2>1 DEF ReportInv
<1>10. CASE MainStep
  <2>1. UNCHANGED <<pos, replies>> /\ (lpc' = lpc \/ lpc' = "connect")
    BY <1>10 DEF MainStep, CreateDb, CreateDbRaises, CreateTables,
       FillTables, RtosInitialisation, StartListener, CheckRtosMain,
       EndOfPass, ReadState, InitRow, SetState, JoinListener
  <2>2. CASE lpc' = lpc
    BY <1>3, <2>1, <2>2
  <2>3. CASE lpc' = "connect"
    BY <1>2, <2>1, <2>3 DEF Sent, DoneOk
  <2> QED
    BY <2>1, <2>2, <2>3
<1>11. CASE \/ \E d \in Datagrams : Send(d)
            \/ \E v \in {"0", "1"} : ControlRtos(v)
            \/ UNCHANGED vars
  BY <1>3, <1>11 DEF Send, ControlRtos, vars
<1>12. CASE Crash \/ Restart \/ RecvTelecommand
  <2>1. replies' = << >> /\ lpc' \in {"off", "ack"}
    BY <1>12 DEF Crash, Restart, EndOfProcess, RecvTelecommand
  <2>2. Sent(DoneOk)' = {}
    BY <2>1 DEF Sent, DoneOk
  <2> QED
    BY <2>1, <2>2 DEF ReportInv
<1> QED
  BY <1>4, <1>5, <1>6, <1>7, <1>8, <1>9, <1>10, <1>11, <1>12
     DEF Next, ListenerStep

LEMMA ReportKept ==
    IInv /\ ContentInv /\ ReportInv /\ [Next]_vars => ReportInv'
<1> SUFFICES ASSUME IInv, ContentInv, ReportInv, [Next]_vars
             PROVE  ReportInv'
  OBVIOUS
<1>1. CASE Crash \/ Restart \/ RecvTelecommand
  <2>1. replies' = << >> /\ lpc' \in {"off", "ack"}
    BY <1>1 DEF Crash, Restart, EndOfProcess, RecvTelecommand
  <2>2. Sent(DoneOk)' = {}
    BY <2>1 DEF Sent, DoneOk
  <2> QED
    BY <2>1, <2>2 DEF ReportInv
<1>2. CASE Access
  <2>1. UNCHANGED <<lpc, tc, replies>> /\ lpc = "body"
    BY <1>2, AccessFacts
  <2>2. Sent(DoneOk)' = {}
    BY <2>1 DEF ReportInv, Sent, DoneOk
  <2> QED
    BY <1>2, <2>1, <2>2, AccessEffective DEF ReportInv
<1>3. CASE ~(Crash \/ Restart \/ RecvTelecommand \/ Access)
  <2>1. tc' = tc
    BY <1>3 DEF Next, MainStep, CreateDb, CreateDbRaises, CreateTables,
       FillTables, RtosInitialisation, StartListener, CheckRtosMain,
       EndOfPass, ReadState, InitRow, SetState, JoinListener, ListenerStep,
       ConnectListener, CheckRtosListener, RecvEmpty, RecvGarbled, Acknowledge,
       ReadRow, SkipAccess, BodyRaises, Verify, VerifyRaises, SendAnswer, Send,
       ControlRtos, vars, listener, handler
  <2> QED
    BY <1>3, <2>1, QuietReport
<1> QED
  BY <1>1, <1>2, <1>3

LEMMA OutageReport ==
    IInv /\ ContentInv /\ ReportInv /\ [OutageNext]_<<vars, outageVars>>
        => ReportInv'
<1>1. ASSUME IInv, ReportInv, MeetsOutage PROVE ReportInv'
  <2>1. /\ UNCHANGED <<db, tc, pos, replies>>
        /\ \/ lpc' = lpc
           \/ lpc = "ack" /\ lpc' \in {"read", "check"}
           \/ lpc' = "dead"
    BY <1>1, FailsFacts
  <2>2. Sent(DoneOk)' = Sent(DoneOk)
    BY <2>1 DEF Sent, DoneOk
  <2>3. \A i : Effective(i)' <=> Effective(i)
    BY <2>1 DEF Effective, Row
  <2>4. lpc = "ack" => Sent(DoneOk) = {}
    BY <1>1 DEF ReportInv, Sent
  <2> QED
    BY <1>1, <2>1, <2>2, <2>3, <2>4 DEF ReportInv
<1> QED
  BY <1>1, OutageSteps, ReportKept

\* A completion report of cmd_processing is never a lie, whenever the database
\* goes away: the effect of the command is in the tables when the report is
\* sent, and until the next command is taken.
THEOREM DoneMeansStoredHolds == OutageSpec => []DoneMeansStored
<1>1. OutageInit => ContentInv
  BY NoDictCells DEF OutageInit, Init, ContentInv
<1>2. OutageInit => ReportInv
  BY DEF OutageInit, Init, ReportInv, Sent
<1>3. ReportInv => DoneMeansStored
  <2> SUFFICES ASSUME ReportInv, Sent(DoneOk) # {},
                      NEW i \in 1..Len(Accesses(tc)),
                      Accesses(tc)[i] # "none",
                      Row(Accesses(tc)[i]).json,
                      Stores(tc, Row(Accesses(tc)[i]).val)
               PROVE  Row(Accesses(tc)[i]).val =
                          NewValue(tc, Row(Accesses(tc)[i]).val)
    BY DEF DoneMeansStored
  <2>1. Effective(i) /\ tc \in Telecommands
    BY DEF ReportInv
  <2>2. ASSUME RestoresUnseen(tc), NEW v PROVE NewValue(tc, v) = v
    <3>1. tc.type = 6 /\ tc.subtype = 132 /\ tc.healthy # 0
      BY <2>2 DEF RestoresUnseen
    <3>2. NewValue(tc, v) = MemoryAfter(v, tc)
      BY <3>1 DEF NewValue
    <3>3. MemoryAfter(v, tc) = ChangeHealth(v, tc)
      BY <3>1 DEF MemoryAfter
    <3>4. ChangeHealth(v, tc) = v
      BY <3>1 DEF ChangeHealth
    <3> QED
      BY <3>2, <3>3, <3>4
  <2> QED
    BY <2>1, <2>2 DEF Effective
<1> QED
  BY <1>1, <1>2, <1>3, OutageContent, OutageReport, OutageIInvInvariant, PTL
     DEF OutageSpec
=============================================================================
