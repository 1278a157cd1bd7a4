--------------------------- MODULE ClientLinkProofs ---------------------------
(***************************************************************************)
(* A client script whose numbers of packets are right never has two        *)
(* commands in hand of the listener, and blocks for known reasons only,    *)
(* whatever is lost, overtaken, killed or restarted on the way.            *)
(***************************************************************************)
EXTENDS ClientLink, SemsimProofs, FiniteSetTheorems

\* The packets on their way to the socket that the client reads.
Mine == { p \in down : p.to = ci }

\* What the listener may still send for its command.
AnswerLeft ==
    /\ lpc = "ack" => replies = << >>
    /\ lpc \in {"read", "body"} => Len(replies) <= 1
    /\ lpc = "send" => Len(replies) + Len(outgoing) <= MostPackets(tc)

\* The command of the socket that is read is in one place: on its way, in the
\* listener's buffer, in its hands, or done with.  As long as the listener has
\* not sent its last packet, the client has not received as many as it waits
\* for.
ClientOK ==
    /\ cpc \in {"send", "wait", "done"}
    /\ ci \in 1..(Len(Script) + 1)
    /\ cpc # "done" => ci <= Len(Script)
    /\ got \in Nat

LinkInv ==
    /\ ClientOK
    /\ IsFiniteSet(Mine)
    /\ \A p \in down : p.to \in 1..ci
    /\ up \subseteq {ci}
    /\ cpc # "wait" => /\ got = 0 /\ up = {} /\ inbox = << >>
                       /\ ~Handling /\ Mine = {}
    /\ inbox # << >> => inbox = << Script[ci].tc >> /\ up = {}
    /\ up # {} \/ inbox # << >> => got = 0 /\ Mine = {} /\ ~Handling
    /\ Handling => /\ tc = Script[ci].tc
                   /\ got + Cardinality(Mine) <= Len(replies)
                   /\ AnswerLeft

LEMMA ScriptTyped ==
    /\ Len(Script) \in Nat \ {0}
    /\ \A i \in 1..Len(Script) :
          /\ Script[i].tc \in Telecommands /\ Script[i].tc \in Datagrams
          /\ Script[i].tc.from = i /\ Script[i].packets \in Nat \ {0}
<1> DEFINE Entry == [tc : Telecommands, packets : Nat \ {0}]
<1>1. Script \in Seq(Entry) /\ Script # << >>
  BY ScriptAssumption
<1>2. \A i \in 1..Len(Script) :
          Script[i].tc \in Telecommands /\ Script[i].packets \in Nat \ {0}
  <2> TAKE i \in 1..Len(Script)
  <2> HIDE DEF Entry
  <2>1. Script[i] \in Entry
    BY <1>1
  <2> QED
    BY <2>1 DEF Entry
<1>3. Len(Script) \in Nat \ {0}
  BY <1>1
<1>4. \A i \in 1..Len(Script) : Script[i].tc.from = i
  BY ScriptAssumption
<1>5. Telecommands \subseteq Datagrams
  BY DEF Telecommands
<1> QED
  BY <1>2, <1>3, <1>4, <1>5

LEMMA InitLinkInv == LinkInit => LinkInv
  BY ScriptTyped, FS_EmptySet
     DEF LinkInit, Init, LinkInv, ClientOK, Mine, Handling

\* A step of the link is one of Semsim or leaves the process alone.
LEMMA LinkSteps ==
    ASSUME ClientOK, up \subseteq {ci}, cpc = "done" => up = {},
           [LinkNext]_linkVars
    PROVE  [Next]_vars
<1>1. ASSUME NEW i \in up PROVE Script[i].tc \in Datagrams
  BY <1>1, ScriptTyped DEF ClientOK
<1> QED
  BY <1>1 DEF LinkNext, ProcessStep, Arrive, Refused, LoseCommand, LosePacket,
     ClientSend, ClientReceive, Next, linkVars

\* The answers of a command, and its acceptance report, are at most so many.
LEMMA AnswersLength ==
    ASSUME NEW d, WellFormed(d), d.type \in Implemented, NEW rows, NEW row
    PROVE  /\ Len(Answers(d, rows, row)) \in Nat
           /\ Len(Answers(d, rows, row)) + 1 <= MostPackets(d)
<1> DEFINE rm == ReportMessages(d, rows)
<1>1. rm = << >> \/ \E m : rm = <<m>>
  BY ReportShape
<1>2. rm # << >> => \/ d.type = 5 /\ d.subtype = 7
                    \/ d.type = 6 /\ d.subtype \in {5, 9, 130}
  BY ReportShape
<1>3. Len(Answers(d, rows, row)) = IF rm = << >> THEN 1 ELSE 2
  <2> HIDE DEF rm
  <2>1. CASE rm = << >>
    BY <2>1 DEF Answers, rm
  <2>2. ASSUME NEW m, rm = <<m>> PROVE Len(Answers(d, rows, row)) = 2
    <3>1. Answers(d, rows, row) = IF d.type = 5
                                  THEN << Completion(row) >> \o <<m>>
                                  ELSE Append(<<m>>, Completion(row))
      BY <2>2 DEF Answers, rm
    <3> QED
      BY <3>1
  <2> QED
    BY <1>1, <2>1, <2>2
<1>4. MostPackets(d) = IF \/ d.type = 5 /\ d.subtype = 7
                          \/ d.type = 6 /\ d.subtype \in {5, 9, 130}
                       THEN 3 ELSE 2
  BY DEF MostPackets
<1> HIDE DEF rm
<1> QED
  BY <1>2, <1>3, <1>4

-----------------------------------------------------------------------------
(* The steps of the process                                                *)

\* The listener is at most where it was with the command.
LEMMA QuietKeeps ==
    ASSUME LinkInv, UNCHANGED <<client, up, down>>, inbox' \in {inbox, << >>},
           Handling' => /\ Handling /\ tc' = tc
                        /\ Len(replies') = Len(replies) /\ AnswerLeft'
    PROVE  LinkInv'
<1>1. UNCHANGED <<cpc, ci, got, up, down>>
  BY DEF client
<1>2. Mine' = Mine
  BY <1>1 DEF Mine
<1> QED
  BY <1>1, <1>2 DEF LinkInv, ClientOK

\* The listener sends a packet for the command.
LEMMA PacketKeeps ==
    ASSUME LinkInv, Handling, UNCHANGED <<client, up, tc, inbox>>,
           NEW p, p.to = ci, down' = down \cup {p},
           Len(replies) \in Nat, Len(replies') = Len(replies) + 1,
           Handling' => AnswerLeft'
    PROVE  LinkInv'
<1>1. UNCHANGED <<cpc, ci, got, up, tc, inbox>>
  BY DEF client
<1>2. Mine' = Mine \cup {p}
  BY <1>1 DEF Mine
<1>3. /\ IsFiniteSet(Mine') /\ Cardinality(Mine) \in Nat
      /\ Cardinality(Mine') \in Nat
      /\ Cardinality(Mine') <= Cardinality(Mine) + 1
  <2> HIDE DEF Mine
  <2>1. IsFiniteSet(Mine)
    BY DEF LinkInv
  <2>2. /\ IsFiniteSet(Mine')
        /\ Cardinality(Mine') = Cardinality(Mine)
           \/ Cardinality(Mine') = Cardinality(Mine) + 1
    BY <1>2, <2>1, FS_AddElement
  <2>3. Cardinality(Mine) \in Nat /\ Cardinality(Mine') \in Nat
    BY <2>1, <2>2, FS_CardinalityType
  <2> QED
    BY <2>2, <2>3
<1>4. cpc = "wait" /\ up = {} /\ inbox = << >>
  BY DEF LinkInv, ClientOK
<1>5. ci \in Nat /\ ci >= 1
  BY ScriptTyped DEF LinkInv, ClientOK
<1>6. \A q \in down' : q.to \in 1..ci
  BY <1>5 DEF LinkInv
<1>7. got + Cardinality(Mine') <= Len(replies')
  BY <1>3 DEF LinkInv, ClientOK
<1> QED
  BY <1>1, <1>3, <1>4, <1>6, <1>7 DEF LinkInv, ClientOK

LEMMA MainStepQuiet ==
    MainStep => /\ UNCHANGED <<inbox, handler>>
                /\ lpc' = lpc \/ lpc' = "connect"
  BY DEF MainStep, CreateDb, CreateDbRaises, CreateTables, FillTables,
     RtosInitialisation, StartListener, CheckRtosMain, EndOfPass, ReadState,
     InitRow, SetState, JoinListener, listener

\* Steps of the process that send nothing.
LEMMA SilentKeeps ==
    ASSUME TypeOK, LinkInv, ProcessStep,
           MainStep \/ Crash \/ Restart \/ (\E v \in {"0", "1"} : ControlRtos(v))
    PROVE  LinkInv'
<1>1. UNCHANGED <<client, up>> /\ down' = down \cup Emitted
  BY DEF ProcessStep
<1>2. CASE MainStep \/ \E v \in {"0", "1"} : ControlRtos(v)
  <2>1. /\ UNCHANGED <<inbox, tc, replies, outgoing>>
        /\ lpc' = lpc \/ lpc' = "connect"
    BY <1>2, MainStepQuiet DEF ControlRtos, handler
  <2>2. down' = down
    <3>1. Len(replies') = Len(replies) /\ Len(replies) \in Nat
      BY <2>1 DEF TypeOK, ListenerOK
    <3> QED
      BY <1>1, <3>1 DEF Emitted
  <2>3. Handling' => Handling /\ AnswerLeft'
    BY <2>1 DEF Handling, LinkInv, AnswerLeft
  <2> QED
    BY <1>1, <2>1, <2>2, <2>3, QuietKeeps
<1>3. CASE Crash \/ Restart
  <2>1. inbox' = << >> /\ lpc' = "off" /\ replies' = << >>
    BY <1>3 DEF Crash, Restart, EndOfProcess
  <2>2. down' = down
    <3>1. Len(replies') = 0 /\ Len(replies) \in Nat
      BY <2>1 DEF TypeOK, ListenerOK
    <3> QED
      BY <1>1, <3>1 DEF Emitted
  <2>3. ~Handling'
    BY <2>1 DEF Handling
  <2> QED
    BY <1>1, <2>1, <2>2, <2>3, QuietKeeps
<1> QED
  BY <1>2, <1>3

\* The step that takes the command from the buffer.
LEMMA TakeKeeps ==
    ASSUME TypeOK, LinkInv, CountsSuffice, UNCHANGED <<client, up, down>>,
           RecvTelecommand
    PROVE  LinkInv'
<1>1. /\ inbox = << Script[ci].tc >> /\ up = {} /\ got = 0 /\ Mine = {}
      /\ cpc = "wait"
  BY DEF LinkInv, RecvTelecommand, Take
<1>2. /\ inbox' = << >> /\ tc' = Script[ci].tc /\ replies' = << >>
      /\ lpc' = "ack"
  BY <1>1 DEF RecvTelecommand
<1>3. UNCHANGED <<cpc, ci, got, up, down>>
  BY DEF client
<1>4. Mine' = {}
  BY <1>1, <1>3 DEF Mine
<1>5. IsFiniteSet(Mine') /\ Cardinality(Mine') = 0
  BY <1>4, FS_EmptySet
<1>6. got' + Cardinality(Mine') <= Len(replies')
  BY <1>1, <1>2, <1>3, <1>5
<1>7. AnswerLeft'
  BY <1>2 DEF AnswerLeft
<1> QED
  BY <1>1, <1>2, <1>3, <1>4, <1>5, <1>6, <1>7 DEF LinkInv, ClientOK

LEMMA ListenerKeeps ==
    ASSUME TypeOK, LinkInv, CountsSuffice, ProcessStep, ListenerStep
    PROVE  LinkInv'
<1>1. UNCHANGED <<client, up>> /\ down' = down \cup Emitted
  BY DEF ProcessStep
<1>2. replies \in Seq(Messages) /\ outgoing \in Seq(Messages)
      /\ Len(replies) \in Nat
  BY DEF TypeOK, ListenerOK
<1>3. Handling => tc.from = ci
  BY ScriptTyped DEF LinkInv, ClientOK
<1>4. ASSUME Len(replies') = Len(replies) \/ replies' = << >>
      PROVE  down' = down
  <2>1. ~(Len(replies') > Len(replies))
    BY <1>2, <1>4
  <2> QED
    BY <1>1, <2>1 DEF Emitted
<1>5. ASSUME Len(replies') = Len(replies) + 1, Handling
      PROVE  \E p : p.to = ci /\ down' = down \cup {p}
  <2>1. Emitted = { [to |-> ci, n |-> Len(replies')] }
    BY <1>2, <1>3, <1>5 DEF Emitted
  <2> QED
    BY <1>1, <2>1
<1>6. CASE ConnectListener \/ CheckRtosListener \/ RecvEmpty \/ RecvGarbled
           \/ BodyRaises \/ VerifyRaises
  <2>1. UNCHANGED replies
    BY <1>6 DEF ConnectListener, CheckRtosListener, RecvEmpty, RecvGarbled,
       BodyRaises, VerifyRaises, handler
  <2>2. ~Handling'
    BY <1>6 DEF ConnectListener, CheckRtosListener, RecvEmpty, RecvGarbled,
       BodyRaises, VerifyRaises, Die, Handling
  <2>3. inbox' \in {inbox, << >>}
    <3>1. CASE RecvEmpty
      BY <3>1 DEF RecvEmpty, Take, LinkInv
    <3>2. CASE ~RecvEmpty
      BY <1>6, <3>2 DEF ConnectListener, CheckRtosListener, RecvGarbled,
         BodyRaises, VerifyRaises, Die
    <3> QED
      BY <3>1, <3>2
  <2> QED
    BY <1>1, <1>4, <2>1, <2>2, <2>3, QuietKeeps
<1>7. CASE RecvTelecommand
  <2>1. replies' = << >>
    BY <1>7 DEF RecvTelecommand
  <2> QED
    BY <1>1, <1>4, <1>7, <2>1, TakeKeeps
<1>8. CASE ReadRow \/ SkipAccess \/ Access
  <2>1. /\ UNCHANGED <<inbox, tc, replies>>
        /\ lpc \in {"read", "body"} /\ lpc' \in {"read", "body"}
    BY <1>8 DEF ReadRow, SkipAccess, Access, InBody
  <2>2. Handling /\ AnswerLeft'
    BY <2>1 DEF Handling, LinkInv, AnswerLeft
  <2> QED
    BY <1>1, <1>4, <2>1, <2>2, QuietKeeps
<1>9. CASE Verify
  <2>1. /\ UNCHANGED <<inbox, tc, replies>>
        /\ lpc = "body" /\ lpc' = "send"
        /\ \E row : outgoing' = Answers(tc, dict, row)
    BY <1>9 DEF Verify
  <2>2. Handling /\ Len(replies) <= 1
    BY <2>1 DEF Handling, LinkInv, AnswerLeft
  <2>3. WellFormed(tc) /\ tc.type \in Implemented
    BY <2>1, HandledTyped DEF TypeOK
  <2>4. Len(outgoing') \in Nat /\ Len(outgoing') + 1 <= MostPackets(tc)
    BY <2>1, <2>3, AnswersLength
  <2>5. MostPackets(tc) \in Nat
    BY DEF MostPackets
  <2>6. Len(replies') + Len(outgoing') <= MostPackets(tc)
    BY <1>2, <2>1, <2>2, <2>4, <2>5
  <2>7. AnswerLeft'
    <3>1. MostPackets(tc)' = MostPackets(tc)
      BY <2>1
    <3> QED
      BY <2>1, <2>6, <3>1 DEF AnswerLeft
  <2> QED
    BY <1>1, <1>4, <2>1, <2>2, <2>7, QuietKeeps
<1>10. CASE Acknowledge
  <2>1. /\ UNCHANGED <<inbox, tc>> /\ lpc = "ack"
        /\ lpc' = "read" \/ lpc' = "check"
        /\ replies' = << >> \/ \E m : replies' = <<m>>
    BY <1>10 DEF Acknowledge
  <2>2. Handling /\ replies = << >>
    BY <2>1 DEF Handling, LinkInv, AnswerLeft
  <2>3. CASE replies' = << >>
    <3>1. Handling' => AnswerLeft'
      BY <2>1, <2>3 DEF Handling, AnswerLeft
    <3> QED
      BY <1>1, <1>4, <2>1, <2>2, <2>3, <3>1, QuietKeeps
  <2>4. CASE \E m : replies' = <<m>>
    <3>1. Len(replies') = 1
      BY <2>4
    <3>2. Handling' => AnswerLeft'
      BY <2>1, <3>1 DEF Handling, AnswerLeft
    <3>3. Len(replies') = Len(replies) + 1
      BY <2>2, <3>1
    <3>4. PICK p : p.to = ci /\ down' = down \cup {p}
      BY <1>5, <2>2, <3>3
    <3> QED
      BY <1>1, <1>2, <2>1, <2>2, <3>2, <3>3, <3>4, PacketKeeps
  <2> QED
    BY <2>1, <2>3, <2>4
<1>11. CASE SendAnswer
  <2>1. /\ UNCHANGED <<inbox, tc>> /\ lpc = "send"
        /\ replies' = Append(replies, Head(outgoing))
        /\ outgoing' = Tail(outgoing)
        /\ lpc' = "send" \/ lpc' = "check"
    BY <1>11 DEF SendAnswer
  <2>2. Handling /\ outgoing # << >>
    BY <2>1 DEF Handling, TypeOK, ListenerOK
  <2>3. /\ Len(replies') = Len(replies) + 1
        /\ Len(outgoing') = Len(outgoing) - 1 /\ Len(outgoing) \in Nat
    BY <1>2, <2>1, <2>2
  <2>4. Handling' => AnswerLeft'
    <3>1. Len(replies) + Len(outgoing) <= MostPackets(tc)
      BY <2>1, <2>2 DEF LinkInv, AnswerLeft
    <3>2. MostPackets(tc)' = MostPackets(tc) /\ MostPackets(tc) \in Nat
      BY <2>1 DEF MostPackets
    <3>3. Len(replies') + Len(outgoing') <= MostPackets(tc)'
      BY <1>2, <2>3, <3>1, <3>2
    <3> QED
      BY <2>1, <3>3 DEF Handling, AnswerLeft
  <2>5. PICK p : p.to = ci /\ down' = down \cup {p}
    BY <1>5, <2>2, <2>3
  <2> QED
    BY <1>1, <1>2, <2>1, <2>2, <2>3, <2>4, <2>5, PacketKeeps
<1> QED
  BY <1>6, <1>7, <1>8, <1>9, <1>10, <1>11 DEF ListenerStep

-----------------------------------------------------------------------------
(* The steps of the link and of the client                                 *)

\* A subset of the packets is left.
LEMMA LosesKeeps ==
    ASSUME LinkInv, UNCHANGED <<vars, client>>, up' \subseteq up,
           down' \subseteq down
    PROVE  LinkInv'
<1>1. /\ UNCHANGED <<cpc, ci, got, inbox, lpc, tc, replies, outgoing>>
  BY DEF client, vars, listener, handler
<1>2. Mine' \subseteq Mine
  BY <1>1 DEF Mine
<1>3. /\ IsFiniteSet(Mine')
      /\ Cardinality(Mine) \in Nat /\ Cardinality(Mine') \in Nat
      /\ Cardinality(Mine') <= Cardinality(Mine)
  <2> HIDE DEF Mine
  <2>1. IsFiniteSet(Mine)
    BY DEF LinkInv
  <2> QED
    BY <1>2, <2>1, FS_Subset, FS_CardinalityType
<1>4. Handling' <=> Handling
  BY <1>1 DEF Handling
<1>5. AnswerLeft' <=> AnswerLeft
  BY <1>1 DEF AnswerLeft
<1>6. Handling => got' + Cardinality(Mine') <= Len(replies')
  <2>1. CASE Handling
    <3>1. got + Cardinality(Mine) <= Len(replies) /\ got \in Nat
      BY <2>1 DEF LinkInv, ClientOK
    <3> QED
      BY <1>1, <1>3, <3>1
  <2> QED
    BY <2>1
<1> QED
  BY <1>1, <1>2, <1>3, <1>4, <1>5, <1>6 DEF LinkInv, ClientOK

LEMMA ArriveKeeps ==
    ASSUME LinkInv, NEW i \in up, Arrive(i)
    PROVE  LinkInv'
<1>1. /\ i = ci /\ cpc = "wait" /\ inbox = << >> /\ got = 0 /\ Mine = {}
      /\ ~Handling /\ up \ {i} = {}
  BY DEF LinkInv
<1>2. /\ inbox' = << Script[ci].tc >> /\ up' = {}
      /\ UNCHANGED <<cpc, ci, got, down, lpc>>
  BY <1>1 DEF Arrive, Send, client
<1>3. Mine' = Mine
  BY <1>2 DEF Mine
<1>4. ~Handling'
  BY <1>1, <1>2 DEF Handling
<1> QED
  BY <1>1, <1>2, <1>3, <1>4 DEF LinkInv, ClientOK

LEMMA ClientSendKeeps ==
    ASSUME LinkInv, ClientSend
    PROVE  LinkInv'
<1>1. /\ up = {} /\ inbox = << >> /\ got = 0 /\ Mine = {} /\ ~Handling
      /\ cpc = "send"
  BY DEF LinkInv, ClientSend
<1>2. /\ cpc' = "wait" /\ up' = {ci}
      /\ UNCHANGED <<ci, got, down, lpc, inbox>>
  BY <1>1 DEF ClientSend, vars, listener
<1>3. Mine' = Mine
  BY <1>2 DEF Mine
<1>4. ~Handling'
  BY <1>1, <1>2 DEF Handling
<1> QED
  BY <1>1, <1>2, <1>3, <1>4 DEF LinkInv, ClientOK

\* The last packet that the script waits for is not received before the
\* listener has sent its last.
LEMMA LastIsLast ==
    ASSUME TypeOK, LinkInv, CountsSuffice, Handling, Mine # {}
    PROVE  got + 1 # Script[ci].packets
<1>1. /\ got \in Nat /\ ci \in 1..Len(Script) /\ tc = Script[ci].tc
      /\ got + Cardinality(Mine) <= Len(replies) /\ AnswerLeft
  BY ScriptTyped DEF LinkInv, ClientOK
<1>2. Cardinality(Mine) \in Nat /\ Cardinality(Mine) # 0
  <2> HIDE DEF Mine
  <2>1. IsFiniteSet(Mine)
    BY DEF LinkInv
  <2> QED
    BY <2>1, FS_CardinalityType, FS_EmptySet
<1>3. /\ MostPackets(tc) \in Nat /\ MostPackets(tc) >= 1
      /\ tc.type \in Implemented => MostPackets(tc) >= 2
  BY DEF MostPackets
<1>4. Len(replies) < MostPackets(tc)
  <2>1. Len(replies) \in Nat
    BY DEF TypeOK, ListenerOK
  <2>2. CASE lpc = "ack"
    BY <1>1, <1>3, <2>2 DEF AnswerLeft
  <2>3. CASE lpc \in {"read", "body"}
    <3>1. tc.type \in Implemented
      BY <2>3, HandledTyped DEF TypeOK
    <3> QED
      BY <1>1, <1>3, <2>1, <2>3, <3>1 DEF AnswerLeft
  <2>4. CASE lpc = "send"
    <3>1. Len(outgoing) \in Nat /\ Len(outgoing) # 0
      BY <2>4 DEF TypeOK, ListenerOK
    <3>2. Len(replies) + Len(outgoing) <= MostPackets(tc)
      BY <1>1, <2>4 DEF AnswerLeft
    <3> QED
      BY <1>3, <2>1, <3>1, <3>2
  <2> QED
    BY <2>2, <2>3, <2>4 DEF Handling
<1>5. Script[ci].packets \in Nat /\ Script[ci].packets >= MostPackets(tc)
  BY <1>1, ScriptTyped DEF CountsSuffice
<1>6. Len(replies) \in Nat
  BY DEF TypeOK, ListenerOK
<1> QED
  BY <1>1, <1>2, <1>3, <1>4, <1>5, <1>6

LEMMA ReceiveKeeps ==
    ASSUME TypeOK, LinkInv, CountsSuffice, NEW p \in down, ClientReceive(p)
    PROVE  LinkInv'
<1>1. p \in Mine /\ cpc = "wait" /\ ci \in 1..Len(Script)
  BY ScriptTyped DEF Mine, LinkInv, ClientOK, ClientReceive
<1>2. up = {} /\ inbox = << >>
  BY <1>1 DEF LinkInv
<1>3. /\ UNCHANGED <<inbox, lpc, tc, replies, outgoing, up>>
      /\ down' = down \ {p}
  BY DEF ClientReceive, vars, listener, handler
<1>4. (Handling' <=> Handling) /\ (AnswerLeft' <=> AnswerLeft)
  BY <1>3 DEF Handling, AnswerLeft
<1>5. CASE got + 1 = Script[ci].packets
  <2>1. ~Handling
    BY <1>1, <1>5, LastIsLast
  <2>2. /\ got' = 0 /\ ci' = ci + 1
        /\ cpc' = IF ci = Len(Script) THEN "done" ELSE "send"
    BY <1>5 DEF ClientReceive
  <2>3. \A q \in down : q.to \in 1..ci
    BY DEF LinkInv
  <2>4. Mine' = {} /\ \A q \in down' : q.to \in 1..ci'
    BY <1>1, <1>3, <2>2, <2>3, ScriptTyped DEF Mine
  <2>5. IsFiniteSet(Mine')
    BY <2>4, FS_EmptySet
  <2>6. ClientOK'
    BY <1>1, <2>2, ScriptTyped DEF ClientOK
  <2> QED
    BY <1>2, <1>3, <1>4, <2>1, <2>2, <2>4, <2>5, <2>6 DEF LinkInv
<1>6. CASE got + 1 # Script[ci].packets
  <2>1. got' = got + 1 /\ UNCHANGED <<cpc, ci>>
    BY <1>6 DEF ClientReceive
  <2>2. Mine' = Mine \ {p}
    BY <1>3, <2>1 DEF Mine
  <2>3. /\ IsFiniteSet(Mine') /\ Cardinality(Mine) \in Nat
        /\ Cardinality(Mine') = Cardinality(Mine) - 1
    <3> HIDE DEF Mine
    <3>1. IsFiniteSet(Mine)
      BY DEF LinkInv
    <3> QED
      BY <1>1, <2>2, <3>1, FS_RemoveElement, FS_CardinalityType
  <2>4. ClientOK'
    BY <2>1 DEF LinkInv, ClientOK
  <2>5. Handling => got' + Cardinality(Mine') <= Len(replies')
    <3>1. got \in Nat /\ Handling => got + Cardinality(Mine) <= Len(replies)
      BY DEF LinkInv, ClientOK
    <3>2. got' + Cardinality(Mine') = got + Cardinality(Mine)
      BY <2>1, <2>3 DEF LinkInv, ClientOK
    <3> QED
      BY <1>3, <3>1, <3>2 DEF LinkInv, ClientOK
  <2>6. \A q \in down' : q.to \in 1..ci'
    BY <1>3, <2>1 DEF LinkInv
  <2> QED
    BY <1>1, <1>2, <1>3, <1>4, <2>1, <2>3, <2>4, <2>5, <2>6 DEF LinkInv
<1> QED
  BY <1>5, <1>6

-----------------------------------------------------------------------------
(* The theorem                                                             *)

LEMMA LinkInvKept ==
    ASSUME CountsSuffice
    PROVE  IInv /\ LinkInv /\ [LinkNext]_linkVars => IInv' /\ LinkInv'
<1> SUFFICES ASSUME IInv, LinkInv, [LinkNext]_linkVars
             PROVE  IInv' /\ LinkInv'
  OBVIOUS
<1>1. TypeOK
  BY DEF IInv
<1>2. ClientOK /\ up \subseteq {ci} /\ (cpc = "done" => up = {})
  BY DEF LinkInv
<1>3. IInv'
  BY <1>2, LinkSteps, IInvKept
<1>4. CASE ProcessStep
  BY <1>1, <1>3, <1>4, SilentKeeps, ListenerKeeps DEF ProcessStep
<1>5. ASSUME NEW i \in up, Arrive(i) PROVE LinkInv'
  BY <1>5, ArriveKeeps
<1>6. ASSUME NEW i \in up, Refused(i) \/ LoseCommand(i) PROVE LinkInv'
  BY <1>6, LosesKeeps DEF Refused, LoseCommand
<1>7. ASSUME NEW p \in down, LosePacket(p) PROVE LinkInv'
  BY <1>7, LosesKeeps DEF LosePacket
<1>8. ASSUME NEW p \in down, ClientReceive(p) PROVE LinkInv'
  BY <1>1, <1>8, ReceiveKeeps
<1>9. CASE ClientSend
  BY <1>3, <1>9, ClientSendKeeps
<1>10. CASE UNCHANGED linkVars
  BY <1>3, <1>10, LosesKeeps DEF linkVars, link
<1> QED
  BY <1>3, <1>4, <1>5, <1>6, <1>7, <1>8, <1>9, <1>10 DEF LinkNext

\* If the script waits, for each of its commands, at least for as many packets
\* as the listener may send, then no command is sent, is on its way or waits
\* in the listener's buffer while the listener works on another, whatever
\* else the process does and whatever the link loses or reorders.
THEOREM NoOverlapHolds == CountsSuffice => (LinkSpec => []NoOverlap)
<1> SUFFICES ASSUME CountsSuffice PROVE LinkSpec => []NoOverlap
  OBVIOUS
<1>1. LinkInit => IInv /\ LinkInv
  BY InitIInv, InitLinkInv DEF LinkInit
<1>2. IInv /\ LinkInv /\ [LinkNext]_linkVars => IInv' /\ LinkInv'
  BY LinkInvKept
<1>3. LinkInv => NoOverlap
  <2> SUFFICES ASSUME LinkInv PROVE NoOverlap
    OBVIOUS
  <2>1. ASSUME NEW i \in 1..Len(inbox) PROVE inbox[i].from = ci
    <3>1. inbox = << Script[ci].tc >> /\ cpc # "done"
      BY <2>1 DEF LinkInv
    <3> QED
      BY <2>1, <3>1, ScriptTyped DEF LinkInv, ClientOK
  <2>2. Handling => tc.from = ci /\ cpc = "wait"
    BY ScriptTyped DEF LinkInv, ClientOK
  <2> QED
    BY <2>1, <2>2 DEF NoOverlap, LinkInv
<1> QED
  BY <1>1, <1>2, <1>3, PTL DEF LinkSpec

-----------------------------------------------------------------------------
(* Why a client blocks                                                     *)

\* The command of the socket has reached the listener, or its end.
Taken == cpc = "wait" /\ up = {} /\ inbox = << >>

Ended == lpc \in {"off", "done", "dead"}

\* What is not lost is received or on its way: of a command that was taken,
\* each packet is sent once and counted once, until the listener ends.  A
\* process that is started again ends before its listener starts.
CauseInv ==
    /\ lost \in Nat
    /\ lpc = "off" => inbox = << >>
    /\ cpc = "wait" => got < Script[ci].packets
    /\ lost = 0 /\ Taken =>
        /\ lpc = "off" => catalog = "filled" /\ mpc \in {"down", "boot"}
        /\ ~Ended => /\ tc = Script[ci].tc
                     /\ got + Cardinality(Mine) = Len(replies)
                     /\ \A p \in Mine : p.n \in 1..Len(replies)

LEMMA InitCauseInv == LinkInit => CauseInv
  BY DEF LinkInit, Init, CauseInv, Taken

\* The command is where it was, or the listener has ended.
LEMMA SameCause ==
    ASSUME CauseInv, UNCHANGED <<client, up, down, lost>>,
           lpc' = "off" => /\ inbox' = << >>
                           /\ Taken' /\ lost = 0 =>
                                catalog' = "filled" /\ mpc' \in {"down", "boot"},
           lost = 0 /\ Taken' /\ ~Ended' =>
                ~Ended /\ UNCHANGED <<inbox, tc>> /\ Len(replies') = Len(replies)
    PROVE  CauseInv'
<1>1. UNCHANGED <<cpc, ci, got, up, down, lost>>
  BY DEF client
<1>2. Mine' = Mine
  BY <1>1 DEF Mine
<1>3. CASE lost = 0 /\ Taken' /\ ~Ended'
  BY <1>1, <1>2, <1>3 DEF CauseInv, Taken, Ended
<1>4. CASE ~(lost = 0 /\ Taken' /\ ~Ended')
  BY <1>1, <1>4 DEF CauseInv
<1> QED
  BY <1>3, <1>4

LEMMA MainKeepsCause ==
    ASSUME IInv, LinkInv, CauseInv, ProcessStep, MainStep
    PROVE  CauseInv'
<1>1. UNCHANGED <<client, up, lost, inbox, tc, replies>>
  BY MainStepQuiet DEF ProcessStep, handler
<1>2. down' = down
  <2>1. Len(replies') = Len(replies) /\ Len(replies) \in Nat
    BY <1>1 DEF IInv, TypeOK, ListenerOK
  <2> QED
    BY <2>1 DEF Emitted, ProcessStep
<1>3. Taken' = Taken
  BY <1>1 DEF Taken, client
<1>4. CASE StartListener
  <2>1. lpc = "off" /\ mpc = "spawn" /\ lpc' = "connect"
    BY <1>4 DEF StartListener, IInv, StartupInv
  <2>2. ~(lost = 0 /\ Taken)
    BY <2>1 DEF CauseInv
  <2> QED
    BY <1>1, <1>2, <1>3, <2>1, <2>2, SameCause
<1>5. CASE ~StartListener
  <2>1. lpc' = lpc
    BY <1>5 DEF MainStep, CreateDb, CreateDbRaises, CreateTables, FillTables,
       RtosInitialisation, CheckRtosMain, EndOfPass, ReadState, InitRow,
       SetState, JoinListener, listener
  <2>2. mpc \in {"down", "boot"} /\ catalog = "filled" =>
            catalog' = "filled" /\ mpc' = "down"
    BY <1>5 DEF MainStep, CreateDb, CreateDbRaises, CreateTables, FillTables,
       RtosInitialisation, CheckRtosMain, EndOfPass, ReadState, InitRow,
       SetState, JoinListener, dbVars
  <2>3. Ended' = Ended
    BY <2>1 DEF Ended
  <2>4. lpc' = "off" => /\ inbox' = << >>
                        /\ Taken' /\ lost = 0 =>
                              catalog' = "filled" /\ mpc' \in {"down", "boot"}
    BY <1>1, <1>3, <2>1, <2>2 DEF CauseInv
  <2> QED
    BY <1>1, <1>2, <2>3, <2>4, SameCause
<1> QED
  BY <1>4, <1>5

LEMMA EnvironmentKeepsCause ==
    ASSUME IInv, LinkInv, CauseInv, ProcessStep,
           Crash \/ Restart \/ \E v \in {"0", "1"} : ControlRtos(v)
    PROVE  CauseInv'
<1>1. UNCHANGED <<client, up, lost>> /\ down' = down \cup Emitted
  BY DEF ProcessStep
<1>2. Len(replies) \in Nat
  BY DEF IInv, TypeOK, ListenerOK
<1>3. CASE \E v \in {"0", "1"} : ControlRtos(v)
  <2>1. UNCHANGED <<catalog, mpc, lpc, inbox, tc, replies>>
    BY <1>3 DEF ControlRtos, mainVars, handler
  <2>2. down' = down
    BY <1>1, <1>2, <2>1 DEF Emitted
  <2>3. Taken' = Taken /\ Ended' = Ended
    BY <1>1, <2>1 DEF Taken, Ended, client
  <2>4. lpc' = "off" => /\ inbox' = << >>
                        /\ Taken' /\ lost = 0 =>
                              catalog' = "filled" /\ mpc' \in {"down", "boot"}
    BY <2>1, <2>3 DEF CauseInv
  <2> QED
    BY <1>1, <2>1, <2>2, <2>3, <2>4, SameCause
<1>4. CASE Crash \/ Restart
  <2>1. /\ inbox' = << >> /\ lpc' = "off" /\ replies' = << >>
        /\ catalog' = catalog /\ mpc' \in {"down", "boot"}
    BY <1>4 DEF Crash, Restart, EndOfProcess, dbVars
  <2>2. down' = down
    <3>1. Len(replies') = 0
      BY <2>1
    <3> QED
      BY <1>1, <1>2, <3>1 DEF Emitted
  <2>3. Taken' /\ lost = 0 => catalog = "filled"
    <3>1. CASE lpc # "off"
      BY <3>1 DEF IInv, StartupInv
    <3>2. CASE lpc = "off"
      BY <1>1, <3>2 DEF CauseInv, Taken, client
    <3> QED
      BY <3>1, <3>2
  <2>4. Ended'
    BY <2>1 DEF Ended
  <2> QED
    BY <1>1, <2>1, <2>2, <2>3, <2>4, SameCause
<1> QED
  BY <1>3, <1>4

LEMMA HandlingTaken ==
    ASSUME LinkInv, Handling
    PROVE  Taken /\ ~Ended /\ tc = Script[ci].tc
  BY DEF LinkInv, Taken, Handling, Ended

LEMMA PacketKeepsCause ==
    ASSUME LinkInv, CauseInv, Handling, UNCHANGED <<client, up, lost, tc, inbox>>,
           NEW p, p.to = ci, p.n = Len(replies'), down' = down \cup {p},
           Len(replies) \in Nat, Len(replies') = Len(replies) + 1, ~Ended'
    PROVE  CauseInv'
<1>1. /\ UNCHANGED <<cpc, ci, got, up, lost, tc, inbox>>
      /\ Taken' = Taken /\ lpc' # "off"
  BY DEF client, Taken, Ended
<1>2. Mine' = Mine \cup {p}
  BY <1>1 DEF Mine
<1>3. CASE lost = 0
  <2>1. /\ tc = Script[ci].tc /\ got + Cardinality(Mine) = Len(replies)
        /\ \A q \in Mine : q.n \in 1..Len(replies)
    BY <1>3, HandlingTaken DEF CauseInv
  <2>2. p \notin Mine
    BY <2>1
  <2>3. Cardinality(Mine') = Cardinality(Mine) + 1 /\ Cardinality(Mine) \in Nat
    <3> HIDE DEF Mine
    <3>1. IsFiniteSet(Mine)
      BY DEF LinkInv
    <3> QED
      BY <1>2, <2>2, <3>1, FS_AddElement, FS_CardinalityType
  <2>4. got' + Cardinality(Mine') = Len(replies')
    BY <1>1, <2>1, <2>3 DEF LinkInv, ClientOK
  <2>5. \A q \in Mine' : q.n \in 1..Len(replies')
    BY <1>2, <2>1
  <2> QED
    BY <1>1, <2>1, <2>4, <2>5 DEF CauseInv
<1>4. CASE lost # 0
  BY <1>1, <1>4 DEF CauseInv
<1> QED
  BY <1>3, <1>4

LEMMA TakeKeepsCause ==
    ASSUME TypeOK, LinkInv, CauseInv, UNCHANGED <<client, up, down, lost>>,
           RecvTelecommand
    PROVE  CauseInv'
<1>1. /\ inbox = << Script[ci].tc >> /\ up = {} /\ got = 0 /\ Mine = {}
      /\ cpc = "wait"
  BY DEF LinkInv, RecvTelecommand, Take
<1>2. /\ inbox' = << >> /\ tc' = Script[ci].tc /\ replies' = << >>
      /\ lpc' = "ack"
  BY <1>1 DEF RecvTelecommand
<1>3. UNCHANGED <<cpc, ci, got, up, down, lost>>
  BY DEF client
<1>4. Mine' = {}
  BY <1>1, <1>3 DEF Mine
<1>5. Cardinality(Mine') = 0 /\ Len(replies') = 0
  BY <1>2, <1>4, FS_EmptySet
<1>6. /\ got' + Cardinality(Mine') = Len(replies')
      /\ \A p \in Mine' : p.n \in 1..Len(replies')
  BY <1>1, <1>3, <1>4, <1>5
<1> QED
  BY <1>2, <1>3, <1>6 DEF CauseInv

LEMMA ListenerKeepsCause ==
    ASSUME TypeOK, LinkInv, CauseInv, ProcessStep, ListenerStep
    PROVE  CauseInv'
<1>1. UNCHANGED <<client, up, lost>> /\ down' = down \cup Emitted
  BY DEF ProcessStep
<1>2. /\ replies \in Seq(Messages) /\ outgoing \in Seq(Messages)
      /\ Len(replies) \in Nat
  BY DEF TypeOK, ListenerOK
<1>3. Handling => tc.from = ci
  BY ScriptTyped DEF LinkInv, ClientOK
<1>4. ASSUME Len(replies') = Len(replies) \/ replies' = << >>
      PROVE  down' = down
  <2>1. ~(Len(replies') > Len(replies))
    BY <1>2, <1>4
  <2> QED
    BY <1>1, <2>1 DEF Emitted
<1>5. ASSUME Len(replies') = Len(replies) + 1, Handling
      PROVE  \E p : p.to = ci /\ p.n = Len(replies') /\ down' = down \cup {p}
  <2>1. Emitted = { [to |-> ci, n |-> Len(replies')] }
    BY <1>2, <1>3, <1>5 DEF Emitted
  <2> QED
    BY <1>1, <2>1
<1>6. CASE RecvGarbled \/ BodyRaises \/ VerifyRaises
  <2>1. replies' = replies /\ lpc' = "dead"
    BY <1>6 DEF RecvGarbled, BodyRaises, VerifyRaises, Die, handler
  <2> QED
    BY <1>1, <1>4, <2>1, SameCause DEF Ended
<1>7. ~RecvEmpty
  BY ScriptTyped DEF RecvEmpty, Take, LinkInv, ClientOK, Telecommands
<1>8. CASE ConnectListener \/ CheckRtosListener \/ ReadRow \/ SkipAccess
           \/ Access \/ Verify
  <2>1. UNCHANGED <<tc, replies>> /\ lpc' # "off"
    BY <1>8 DEF ConnectListener, CheckRtosListener, ReadRow, SkipAccess,
       Access, Verify, InBody, handler
  <2>2. ~Ended' => ~Ended /\ UNCHANGED inbox
    BY <1>8 DEF ConnectListener, CheckRtosListener, ReadRow, SkipAccess,
       Access, Verify, InBody, Ended
  <2> QED
    BY <1>1, <1>4, <2>1, <2>2, SameCause
<1>9. CASE RecvTelecommand
  <2>1. replies' = << >>
    BY <1>9 DEF RecvTelecommand
  <2> QED
    BY <1>1, <1>4, <1>9, <2>1, TakeKeepsCause
<1>10. CASE Acknowledge
  <2>1. /\ UNCHANGED <<inbox, tc>> /\ lpc = "ack"
        /\ lpc' = "read" \/ lpc' = "check"
        /\ replies' = << >> \/ \E m : replies' = <<m>>
    BY <1>10 DEF Acknowledge
  <2>2. Handling /\ replies = << >> /\ ~Ended /\ ~Ended' /\ lpc' # "off"
    BY <2>1 DEF Handling, LinkInv, AnswerLeft, Ended
  <2>3. CASE replies' = << >>
    BY <1>1, <1>4, <2>1, <2>2, <2>3, SameCause
  <2>4. CASE \E m : replies' = <<m>>
    <3>1. Len(replies') = Len(replies) + 1
      BY <2>2, <2>4
    <3>2. PICK p : p.to = ci /\ p.n = Len(replies') /\ down' = down \cup {p}
      BY <1>5, <2>2, <3>1
    <3> QED
      BY <1>1, <1>2, <2>1, <2>2, <3>1, <3>2, PacketKeepsCause
  <2> QED
    BY <2>1, <2>3, <2>4
<1>11. CASE SendAnswer
  <2>1. /\ UNCHANGED <<inbox, tc>> /\ lpc = "send"
        /\ replies' = Append(replies, Head(outgoing))
        /\ lpc' = "send" \/ lpc' = "check"
    BY <1>11 DEF SendAnswer
  <2>2. Handling /\ ~Ended'
    BY <2>1 DEF Handling, Ended
  <2>3. Len(replies') = Len(replies) + 1
    BY <1>2, <2>1
  <2>4. PICK p : p.to = ci /\ p.n = Len(replies') /\ down' = down \cup {p}
    BY <1>5, <2>2, <2>3
  <2> QED
    BY <1>1, <1>2, <2>1, <2>2, <2>3, <2>4, PacketKeepsCause
<1> QED
  BY <1>6, <1>7, <1>8, <1>9, <1>10, <1>11 DEF ListenerStep

\* What the link loses is counted.
LEMMA LossKeepsCause ==
    ASSUME CauseInv, UNCHANGED <<vars, client>>, lost' = lost + 1
    PROVE  CauseInv'
  BY DEF CauseInv, client, vars, listener

LEMMA ArriveKeepsCause ==
    ASSUME LinkInv, CauseInv, NEW i \in up, Arrive(i)
    PROVE  CauseInv'
<1>1. inbox = << >>
  BY DEF LinkInv
<1>2. /\ inbox' = << Script[i].tc >> /\ lpc # "off"
      /\ UNCHANGED <<cpc, ci, got, lpc, lost>>
  BY <1>1 DEF Arrive, Send, SocketOpen, client
<1>3. ~Taken'
  BY <1>2 DEF Taken
<1> QED
  BY <1>2, <1>3 DEF CauseInv

LEMMA ClientSendKeepsCause ==
    ASSUME LinkInv, CauseInv, ClientSend
    PROVE  CauseInv'
<1>1. got = 0 /\ ci \in 1..Len(Script)
  BY ScriptTyped DEF LinkInv, ClientOK, ClientSend
<1>2. UNCHANGED <<ci, got, lost, lpc, inbox>> /\ up' # {}
  BY DEF ClientSend, vars, listener
<1>3. ~Taken'
  BY <1>2 DEF Taken
<1>4. Script[ci].packets \in Nat \ {0}
  BY <1>1, ScriptTyped
<1> QED
  BY <1>1, <1>2, <1>3, <1>4 DEF CauseInv

LEMMA ReceiveKeepsCause ==
    ASSUME LinkInv, CauseInv, NEW p \in down, ClientReceive(p)
    PROVE  CauseInv'
<1>1. /\ p \in Mine /\ cpc = "wait" /\ ci \in 1..Len(Script)
      /\ got \in Nat /\ got < Script[ci].packets
      /\ Script[ci].packets \in Nat
  BY ScriptTyped DEF Mine, LinkInv, ClientOK, ClientReceive, CauseInv
<1>2. /\ UNCHANGED <<catalog, mpc, inbox, lpc, tc, replies, up, lost>>
      /\ down' = down \ {p}
  BY DEF ClientReceive, vars, dbVars, mainVars, listener, handler
<1>3. CASE got + 1 = Script[ci].packets
  <2>1. cpc' # "wait"
    BY <1>3 DEF ClientReceive
  <2> QED
    BY <1>2, <2>1 DEF CauseInv, Taken
<1>4. CASE got + 1 # Script[ci].packets
  <2>1. got' = got + 1 /\ UNCHANGED <<cpc, ci>>
    BY <1>4 DEF ClientReceive
  <2>2. Mine' = Mine \ {p}
    BY <1>2, <2>1 DEF Mine
  <2>3. /\ Cardinality(Mine) \in Nat
        /\ Cardinality(Mine') = Cardinality(Mine) - 1
    <3> HIDE DEF Mine
    <3>1. IsFiniteSet(Mine)
      BY DEF LinkInv
    <3> QED
      BY <1>1, <2>2, <3>1, FS_RemoveElement, FS_CardinalityType
  <2>4. got' + Cardinality(Mine') = got + Cardinality(Mine)
    BY <1>1, <2>1, <2>3
  <2>5. got' < Script[ci].packets
    BY <1>1, <1>4, <2>1
  <2>6. Taken' = Taken /\ Ended' = Ended
    BY <1>2, <2>1 DEF Taken, Ended
  <2> QED
    BY <1>2, <2>1, <2>2, <2>4, <2>5, <2>6 DEF CauseInv
<1> QED
  BY <1>3, <1>4

LEMMA CauseInvKept ==
    ASSUME IInv, LinkInv, CauseInv, [LinkNext]_linkVars
    PROVE  CauseInv'
<1>1. TypeOK
  BY DEF IInv
<1>2. CASE ProcessStep
  BY <1>1, <1>2, MainKeepsCause, EnvironmentKeepsCause, ListenerKeepsCause
     DEF ProcessStep
<1>3. ASSUME NEW i \in up, Arrive(i) PROVE CauseInv'
  BY <1>3, ArriveKeepsCause
<1>4. ASSUME NEW i \in up, Refused(i) \/ LoseCommand(i) PROVE CauseInv'
  BY <1>4, LossKeepsCause DEF Refused, LoseCommand
<1>5. ASSUME NEW p \in down, LosePacket(p) PROVE CauseInv'
  BY <1>5, LossKeepsCause DEF LosePacket
<1>6. ASSUME NEW p \in down, ClientReceive(p) PROVE CauseInv'
  BY <1>6, ReceiveKeepsCause
<1>7. CASE ClientSend
  BY <1>7, ClientSendKeepsCause
<1>8. CASE UNCHANGED linkVars
  <2>1. /\ UNCHANGED <<client, up, down, lost>>
        /\ UNCHANGED <<catalog, mpc, lpc, inbox, tc, replies>>
    BY <1>8 DEF linkVars, link, vars, dbVars, mainVars, listener, handler
  <2>2. Taken' = Taken /\ Ended' = Ended
    BY <2>1 DEF Taken, Ended, client
  <2>3. lpc' = "off" => /\ inbox' = << >>
                        /\ Taken' /\ lost = 0 =>
                              catalog' = "filled" /\ mpc' \in {"down", "boot"}
    BY <2>1, <2>2 DEF CauseInv
  <2> QED
    BY <2>1, <2>2, <2>3, SameCause
<1> QED
  BY <1>2, <1>3, <1>4, <1>5, <1>6, <1>7, <1>8 DEF LinkNext

\* All the invariants that say what the client of a command gets.
ClientInv ==
    IInv /\ ContentInv /\ HandlerInv /\ AnswerInv /\ LinkInv /\ CauseInv

LEMMA ClientInvInvariant ==
    ASSUME CountsExact
    PROVE  LinkSpec => []ClientInv
<1>1. CountsSuffice
  <2>1. \A i \in 1..Len(Script) : Script[i].packets \in Nat
    BY ScriptTyped
  <2> QED
    BY <2>1, CountsExact DEF CountsExact, CountsSuffice
<1>2. LinkInit => ClientInv
  <2> SUFFICES ASSUME LinkInit PROVE ClientInv
    OBVIOUS
  <2>1. IInv /\ LinkInv
    BY InitIInv, InitLinkInv DEF LinkInit
  <2>2. ContentInv /\ HandlerInv /\ AnswerInv
    BY NoDictCells DEF LinkInit, Init, ContentInv, HandlerInv, AnswerInv
  <2>3. CauseInv
    BY InitCauseInv
  <2> QED
    BY <2>1, <2>2, <2>3 DEF ClientInv
<1>3. ClientInv /\ [LinkNext]_linkVars => ClientInv'
  <2> SUFFICES ASSUME ClientInv, [LinkNext]_linkVars PROVE ClientInv'
    OBVIOUS
  <2> USE DEF ClientInv
  <2>1. IInv' /\ LinkInv'
    BY <1>1, LinkInvKept
  <2>2. [Next]_vars
    BY LinkSteps DEF LinkInv
  <2>3. ContentInv' /\ HandlerInv' /\ AnswerInv'
    BY <2>2, ContentKept, HandlerInvKept, AnswerKept
  <2>4. CauseInv'
    BY CauseInvKept
  <2> QED
    BY <2>1, <2>3, <2>4
<1> QED
  BY <1>2, <1>3, PTL DEF LinkSpec

\* The command asked for a report of the memory, which had none to give.
Unreported ==
    /\ tc # NoTc /\ tc.from = ci
    /\ tc.type = 6 /\ tc.subtype \in {5, 9, 130} /\ Len(replies) = 2

\* A client that waits for ever has lost a datagram, was too early, talks to
\* a listener that has ended, or asked for memory data that is not there.
LEMMA BlockedCauses ==
    ASSUME CountsExact, ClientInv, Blocked
    PROVE  lost > 0 \/ Early \/ lpc \in {"done", "dead", "off"} \/ Unreported
<1> SUFFICES ASSUME lost = 0, lpc = "recv", ready
             PROVE  Unreported
  <2>1. CASE lost = 0 /\ lpc = "recv" /\ ~ready
    <3>1. tc = Script[ci].tc /\ ci \in 1..Len(Script)
      BY <2>1, ScriptTyped
         DEF Blocked, ClientInv, CauseInv, Taken, Ended, LinkInv, ClientOK
    <3>2. tc # NoTc /\ tc.from = ci
      BY <3>1, ScriptTyped DEF Telecommands, NoTc
    <3> QED
      BY <2>1, <3>2 DEF Early
  <2>2. lost \in Nat
    BY DEF ClientInv, CauseInv
  <2> QED
    BY <2>1, <2>2 DEF Blocked, ClientInv
<1>1. /\ tc = Script[ci].tc /\ ci \in 1..Len(Script)
      /\ got + Cardinality(Mine) = Len(replies) /\ got < Script[ci].packets
      /\ got \in Nat
  BY ScriptTyped
     DEF Blocked, ClientInv, CauseInv, Taken, Ended, LinkInv, ClientOK
<1>2. Cardinality(Mine) = 0
  BY FS_EmptySet DEF Blocked, Mine
<1>3. Len(replies) < MostPackets(tc)
  BY <1>1, <1>2, CountsExact DEF CountsExact
<1>4. CASE tc.type \notin Implemented
  <2>1. replies = <<AckOk>>
    BY <1>4 DEF ClientInv, AnswerInv
  <2>2. MostPackets(tc) = 1
    <3>1. tc.type # 5 /\ tc.type # 6
      BY <1>4 DEF Implemented
    <3> QED
      BY <1>4, <3>1, Zenon DEF MostPackets
  <2> QED
    BY <1>3, <2>1, <2>2
<1>5. CASE tc.type \in Implemented
  <2>1. Exchange(tc, Listed, replies)
    BY <1>5 DEF ClientInv, AnswerInv
  <2>2. \/ Len(replies) = 2 /\ ~(tc.type = 5 /\ tc.subtype = 7)
        \/ Len(replies) = 3
    BY <2>1 DEF Exchange
  <2>3. MostPackets(tc) = IF \/ tc.type = 5 /\ tc.subtype = 7
                             \/ tc.type = 6 /\ tc.subtype \in {5, 9, 130}
                          THEN 3 ELSE 2
    BY <1>5 DEF MostPackets
  <2>4. Len(replies) = 2 /\ tc.type = 6 /\ tc.subtype \in {5, 9, 130}
    BY <1>3, <2>2, <2>3
  <2>5. tc # NoTc /\ tc.from = ci
    BY <1>1, ScriptTyped DEF Telecommands, NoTc
  <2> QED
    BY <2>4, <2>5 DEF Unreported
<1> QED
  BY <1>4, <1>5

\* A script whose counts are exact blocks by a lost datagram, by a command that
\* came too early, because the listener has ended, or, which the counts cannot
\* know, because the memory held nothing for the report it asked for.
THEOREM BlockedOrUnreportedHolds ==
    CountsExact => (LinkSpec => [](BlockedHasCause \/ Unreported))
<1> SUFFICES ASSUME CountsExact
             PROVE  LinkSpec => [](BlockedHasCause \/ Unreported)
  OBVIOUS
<1>1. ClientInv => BlockedHasCause \/ Unreported
  BY BlockedCauses DEF BlockedHasCause
<1> QED
  BY <1>1, ClientInvInvariant, PTL

\* Without such commands, by one of the first three.
THEOREM BlockedHasCauseHolds ==
    ASSUME CountsExact,
           \A i \in 1..Len(Script) :
              ~(Script[i].tc.type = 6 /\ Script[i].tc.subtype \in {5, 9, 130})
    PROVE  LinkSpec => []BlockedHasCause
<1>1. ASSUME ClientInv PROVE BlockedHasCause
  <2>1. ASSUME Blocked, lost = 0, lpc = "recv" PROVE ~Unreported
    <3>1. tc = Script[ci].tc /\ ci \in 1..Len(Script)
      BY <1>1, <2>1, ScriptTyped
         DEF Blocked, ClientInv, CauseInv, Taken, Ended, LinkInv, ClientOK
    <3> QED
      BY <3>1 DEF Unreported
  <2>2. lost \in Nat
    BY <1>1 DEF ClientInv, CauseInv
  <2> QED
    BY <1>1, <2>1, <2>2, BlockedCauses DEF BlockedHasCause, Blocked
<1> QED
  BY <1>1, ClientInvInvariant, PTL
=============================================================================
