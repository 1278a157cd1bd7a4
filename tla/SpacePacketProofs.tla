-------------------------- MODULE SpacePacketProofs --------------------------
(***************************************************************************)
(* What the packet header does with every value of its fields: proofs for  *)
(* all APIDs, types, counts and lengths.                                   *)
(***************************************************************************)
EXTENDS SpacePacket, TLAPS

\* Quotients and remainders of the encoder, and how the decoder puts them
\* together again.
LEMMA Split256 ==
    ASSUME NEW n \in Nat
    PROVE  /\ n \div 256 \in Nat /\ n % 256 \in 0..255
           /\ n = 256 * (n \div 256) + (n % 256)
  OBVIOUS

LEMMA Masks ==
    ASSUME NEW q \in Nat
    PROVE  /\ (24 + q) % 8 = q % 8
           /\ q < 64 => (192 + q) % 64 = q
           /\ q < 8 <=> (24 + q) \div 32 = 0
           /\ q < 8 => q % 8 = q
  OBVIOUS

LEMMA Mod2048 ==
    ASSUME NEW n \in Nat
    PROVE  /\ n % 2048 = ((n \div 256) % 8) * 256 + (n % 256)
           /\ n % 2048 = n <=> n \div 256 < 8
  OBVIOUS

\* The nine octets by name; the length field is body + 10.
LEMMA OctetsOf ==
    ASSUME NEW t \in {0, 1}, NEW f \in Fields
    PROVE  /\ Octets(t, f)[1] = 16 * t + 8 + (f.apid \div 256)
           /\ Octets(t, f)[2] = f.apid % 256
           /\ Octets(t, f)[3] = 192 + (f.count \div 256)
           /\ Octets(t, f)[4] = f.count % 256
           /\ Octets(t, f)[5] = (f.body + 10) \div 256
           /\ Octets(t, f)[6] = (f.body + 10) % 256
           /\ Octets(t, f)[8] = f.type /\ Octets(t, f)[9] = f.subtype
<1>1. HeaderSize - 6 + f.body - 2 = f.body + 10
  BY DEF HeaderSize, Fields
<1> QED
  BY <1>1 DEF Octets

LEMMA CommandDecoded ==
    ASSUME NEW f \in Fields, Encodes(1, f)
    PROVE  LET d == SpacePacketDecoder(SpacePacketCommand(1, f))
           IN  /\ d.apid = f.apid % 2048
               /\ d.type = f.type /\ d.subtype = f.subtype
               /\ d.count = f.count
               /\ d.version = 0 <=> d.apid = f.apid
               /\ d.length + 1 = f.body + 12
<1> DEFINE o == Octets(1, f)
           d == SpacePacketDecoder(SpacePacketCommand(1, f))
<1>0. f.apid \in Nat /\ f.count \in Nat /\ f.body + 10 \in Nat
  BY DEF Fields
<1>1. /\ o[1] = 24 + (f.apid \div 256) /\ o[2] = f.apid % 256
      /\ o[3] = 192 + (f.count \div 256) /\ o[4] = f.count % 256
      /\ o[5] = (f.body + 10) \div 256 /\ o[6] = (f.body + 10) % 256
      /\ o[8] = f.type /\ o[9] = f.subtype
  BY <1>0, OctetsOf, Split256
<1>2. /\ d.version = o[1] \div 32 /\ d.apid = (o[1] % 8) * 256 + o[2]
      /\ d.type = o[8] /\ d.subtype = o[9]
      /\ d.count = (o[3] % 64) * 256 + o[4]
      /\ d.length = o[5] * 256 + o[6] + 1
  BY DEF SpacePacketDecoder, SpacePacketCommand
<1>3. o[3] \in Octet
  BY DEF Encodes
<1> HIDE DEF o, d
<1>4. f.count \div 256 \in Nat /\ f.count \div 256 < 64
  BY <1>0, <1>1, <1>3, Split256 DEF Octet
<1>5. d.count = f.count
  BY <1>0, <1>1, <1>2, <1>4, Masks, Split256
<1>6. d.apid = f.apid % 2048
  <2> DEFINE q == f.apid \div 256
  <2>1. q \in Nat /\ (24 + q) % 8 = q % 8
    BY <1>0, Split256, Masks
  <2>2. f.apid % 2048 = (q % 8) * 256 + (f.apid % 256)
    BY <1>0, Mod2048
  <2>3. o[1] = 24 + q /\ o[2] = f.apid % 256
    BY <1>1
  <2> HIDE DEF q
  <2>4. o[1] % 8 = q % 8
    BY <2>1, <2>3
  <2> QED
    BY <1>2, <2>2, <2>3, <2>4
<1>7. d.version = 0 <=> f.apid \div 256 < 8
  BY <1>0, <1>1, <1>2, Masks, Split256
<1>8. d.length + 1 = f.body + 12
  <2>1. d.length = (f.body + 10) + 1
    BY <1>0, <1>1, <1>2, Split256
  <2> QED
    BY <1>0, <2>1 DEF Fields
<1>9. d.version = 0 <=> d.apid = f.apid
  BY <1>0, <1>6, <1>7, Mod2048
<1> QED
  BY <1>1, <1>2, <1>5, <1>6, <1>8, <1>9 DEF d

-----------------------------------------------------------------------------
(* The listener's answers                                                  *)

IsReport(f, a) ==
    \E n \in {0, 1}, b \in ReportLengths :
        f = [apid |-> a, type |-> 6, subtype |-> 131, count |-> n, body |-> b]

Readable(f, a) ==
    /\ f \in Fields /\ Encodes(0, f)
    /\ SpacePacketCommand(0, f).size <= ClientBuffer
    /\ SpacePacketDecoder(SpacePacketCommand(0, f)).apid = a
    /\ SpacePacketDecoder(SpacePacketCommand(0, f)).type = 6
    /\ SpacePacketDecoder(SpacePacketCommand(0, f)).subtype = 131

LEMMA ReportEncodes ==
    ASSUME NEW a \in 0..2047, NEW f, IsReport(f, a)
    PROVE  Readable(f, a)
<1> DEFINE o == Octets(0, f)
<1>1. PICK n \in {0, 1}, b \in ReportLengths :
            f = [apid |-> a, type |-> 6, subtype |-> 131, count |-> n,
                 body |-> b]
  BY DEF IsReport
<1>2. /\ b \in 1..4078 /\ f \in Fields
      /\ f.apid = a /\ f.type = 6 /\ f.subtype = 131
      /\ f.count = n /\ f.body = b
  <2>1. b \in 1..4078
    BY ReportAssumption DEF ClientBuffer, HeaderSize
  <2>2. b \in Nat /\ n \in Nat /\ a \in Nat
    BY <2>1
  <2>3. f \in Fields
    BY <1>1, <2>2 DEF Fields
  <2> QED
    BY <1>1, <2>1, <2>3
<1>3. a \div 256 \in 0..7 /\ a % 256 \in 0..255
      /\ a = (a \div 256) * 256 + (a % 256)
  OBVIOUS
<1>4. n \div 256 = 0 /\ n % 256 = n
  OBVIOUS
<1>5. (b + 10) \div 256 \in 0..255 /\ (b + 10) % 256 \in 0..255
  BY <1>2
<1>6. /\ o[1] = 8 + (a \div 256) /\ o[2] = a % 256
      /\ o[3] = 192 /\ o[4] = n
      /\ o[5] = (b + 10) \div 256 /\ o[6] = (b + 10) % 256
      /\ o[7] = 16 /\ o[8] = 6 /\ o[9] = 131
  <2>1. o[7] = 16
    BY DEF Octets
  <2> QED
    BY <1>2, <1>3, <1>4, <2>1, OctetsOf
<1>7. Encodes(0, f)
  <2>1. \A i \in 1..9 : o[i] \in 0..255
    <3> HIDE DEF o
    <3> QED
      BY <1>3, <1>5, <1>6
  <2> QED
    BY <2>1 DEF Encodes, Octet
<1>8. SpacePacketCommand(0, f).size <= ClientBuffer
  BY <1>2 DEF SpacePacketCommand, HeaderSize, ClientBuffer
<1>9. (o[1] % 8) * 256 + o[2] = a
  <2>1. (8 + (a \div 256)) % 8 = a \div 256
    BY <1>3
  <2> QED
    BY <1>3, <1>6, <2>1
<1> QED
  BY <1>2, <1>6, <1>7, <1>8, <1>9
     DEF Readable, SpacePacketDecoder, SpacePacketCommand

-----------------------------------------------------------------------------
(* The exchange                                                            *)

Meant == taken = SpacePacketDecoder(SpacePacketCommand(1, request))

\* What is on the wire, and what has been decoded, is the client's request;
\* later the wire carries an answer.
ExchangeInv ==
    /\ stage = "sent" => /\ request \in Fields /\ Encodes(1, request)
                         /\ wire = SpacePacketCommand(1, request)
    /\ Decoded => request \in Fields /\ Encodes(1, request) /\ Meant
    /\ stage = "answered" =>
            \E f : IsReport(f, taken.apid) /\ wire = SpacePacketCommand(0, f)
    /\ AnswerReadable

LEMMA TakenApid == ExchangeInv /\ Decoded => taken.apid \in 0..2047
<1> SUFFICES ASSUME ExchangeInv, Decoded PROVE taken.apid \in 0..2047
  OBVIOUS
<1>1. request \in Fields /\ Encodes(1, request) /\ Meant
  BY DEF ExchangeInv
<1>2. SpacePacketDecoder(SpacePacketCommand(1, request)).apid
          = request.apid % 2048
  BY <1>1, CommandDecoded
<1>3. request.apid \in Nat
  BY <1>1 DEF Fields
<1> QED
  <2> DEFINE d == SpacePacketDecoder(SpacePacketCommand(1, request))
  <2>1. taken = d /\ d.apid = request.apid % 2048
    BY <1>1, <1>2 DEF Meant
  <2> HIDE DEF d
  <2> QED
    BY <1>3, <2>1

LEMMA NextExchange == ExchangeInv /\ [PacketNext]_packetVars => ExchangeInv'
<1> SUFFICES ASSUME ExchangeInv, [PacketNext]_packetVars PROVE ExchangeInv'
  OBVIOUS
<1>1. ASSUME NEW f \in Fields, ClientSends(f) \/ ClientSendRaises(f)
      PROVE  ExchangeInv'
  BY <1>1 DEF ClientSends, ClientSendRaises, ExchangeInv, Decoded,
     AnswerReadable
<1>2. CASE ListenerTakes
  <2>1. stage = "sent" /\ request' = request /\ wire' = wire
    BY <1>2 DEF ListenerTakes
  <2>2. wire.size = HeaderSize + request.body
    BY <2>1 DEF ExchangeInv, SpacePacketCommand
  <2>3. CASE wire.size > ServerBuffer \/ wire.size = HeaderSize
    <3>1. stage' = "listener_dead"
      BY <1>2, <2>3 DEF ListenerTakes
    <3>2. request.body = 0 \/ request.body > ServerBuffer - HeaderSize
      BY <2>1, <2>2, <2>3 DEF ExchangeInv, Fields, ServerBuffer, HeaderSize
    <3> QED
      BY <2>1, <3>1, <3>2 DEF ExchangeInv, Decoded, AnswerReadable
  <2>4. CASE ~(wire.size > ServerBuffer \/ wire.size = HeaderSize)
    <3>1. stage' = "taken" /\ taken' = SpacePacketDecoder(wire)
      BY <1>2, <2>4 DEF ListenerTakes
    <3> QED
      BY <2>1, <3>1 DEF ExchangeInv, Decoded, Meant, AnswerReadable
  <2> QED
    BY <2>3, <2>4
<1>3. ASSUME NEW n \in {0, 1}, NEW b \in ReportLengths, ListenerAnswers(n, b)
      PROVE  ExchangeInv'
  <2>1. stage = "taken" /\ UNCHANGED <<request, taken, read>> /\ Decoded
    BY <1>3 DEF ListenerAnswers, Decoded
  <2>2. IsReport(Report(n, b), taken.apid)
    BY DEF IsReport, Report
  <2>3. Encodes(0, Report(n, b))
    <3>1. taken.apid \in 0..2047
      BY <2>1, TakenApid
    <3> QED
      <4>1. Readable(Report(n, b), taken.apid)
        <5> DEFINE a == taken.apid
                   f == Report(n, b)
        <5>1. a \in 0..2047 /\ IsReport(f, a)
          BY <2>2, <3>1
        <5> HIDE DEF a, f
        <5>2. Readable(f, a)
          BY <5>1, ReportEncodes
        <5> QED
          BY <5>2 DEF a, f
      <4> QED
        BY <4>1 DEF Readable
  <2>4. stage' = "answered" /\ wire' = SpacePacketCommand(0, Report(n, b))
    BY <1>3, <2>3 DEF ListenerAnswers
  <2>5. \E f : IsReport(f, taken.apid)' /\ wire' = SpacePacketCommand(0, f)
    BY <2>1, <2>2, <2>4 DEF IsReport
  <2> QED
    BY <2>1, <2>4, <2>5 DEF ExchangeInv, Decoded, Meant, AnswerReadable
<1>4. CASE ClientReceives
  <2>1. /\ stage = "answered" /\ UNCHANGED <<request, wire, taken>> /\ Decoded
    BY <1>4 DEF ClientReceives, Decoded
  <2>2. PICK f : IsReport(f, taken.apid) /\ wire = SpacePacketCommand(0, f)
    BY <2>1 DEF ExchangeInv
  <2>3. taken.apid \in 0..2047
    BY <2>1, TakenApid
  <2>4. /\ wire.size <= ClientBuffer
        /\ SpacePacketDecoder(wire).apid = taken.apid
        /\ SpacePacketDecoder(wire).type = 6
        /\ SpacePacketDecoder(wire).subtype = 131
        /\ wire.size \in Nat
    <3>1. Readable(f, taken.apid)
      <4> DEFINE a == taken.apid
      <4>1. a \in 0..2047 /\ IsReport(f, a)
        BY <2>2, <2>3
      <4> HIDE DEF a
      <4>2. Readable(f, a)
        BY <4>1, ReportEncodes
      <4> QED
        BY <4>2 DEF a
    <3>2. SpacePacketCommand(0, f).size \in Nat
      BY <3>1 DEF Readable, SpacePacketCommand, HeaderSize, Fields
    <3> QED
      BY <2>2, <3>1, <3>2 DEF Readable
  <2>5. stage' = "read" /\ read' = SpacePacketDecoder(wire)
    <3>1. ~(wire.size > ClientBuffer)
      BY <2>4 DEF ClientBuffer
    <3>2. ~cut'
      BY <1>4, <3>1 DEF ClientReceives
    <3> QED
      BY <1>4, <3>2 DEF ClientReceives
  <2> QED
    BY <2>1, <2>4, <2>5 DEF ExchangeInv, Decoded, Meant, AnswerReadable
<1>5. CASE UNCHANGED packetVars
  BY <1>5 DEF packetVars, ExchangeInv, Decoded, Meant, AnswerReadable, IsReport
<1> QED
  <2>1. \A a \in Apids, t \in Types, s \in Subtypes, n \in Counts,
           b \in TextLengths :
              [apid |-> a, type |-> t, subtype |-> s, count |-> n,
               body |-> b] \in Fields
    BY FieldsAssumption DEF Fields
  <2> QED
    BY <1>1, <1>2, <1>3, <1>4, <1>5, <2>1 DEF PacketNext

LEMMA ExchangeInvariant == PacketSpec => []ExchangeInv
<1>1. PacketInit => ExchangeInv
  BY DEF PacketInit, ExchangeInv, Decoded, AnswerReadable
<1> QED
  BY <1>1, NextExchange, PTL DEF PacketSpec

LEMMA ExchangeShows ==
    ExchangeInv => HeaderDecoded /\ SpillVisible /\ LengthOneShort
  BY CommandDecoded
     DEF ExchangeInv, Meant, HeaderDecoded, SpillVisible, LengthOneShort

\* Every type, subtype and count that SpacePacketCommand does not refuse is
\* decoded as it was meant by SpacePacketDecoder, and every APID modulo 2048.
THEOREM HeaderDecodedHolds == PacketSpec => []HeaderDecoded
  BY ExchangeInvariant, ExchangeShows, PTL

\* The version that SpacePacketDecoder computes tells the packets whose APID
\* has spilled from the others, for every APID.
THEOREM SpillVisibleHolds == PacketSpec => []SpillVisible
  BY ExchangeInvariant, ExchangeShows, PTL

\* The length that SpacePacketDecoder computes is one octet short of the packet
\* data field, for every length that fits its field.
THEOREM LengthOneShortHolds == PacketSpec => []LengthOneShort
  BY ExchangeInvariant, ExchangeShows, PTL

\* Under every APID that customize_listening can decode, the listener's
\* answers can be encoded, received whole and decoded.
THEOREM AnswerReadableHolds == PacketSpec => []AnswerReadable
<1>1. ExchangeInv => AnswerReadable
  BY DEF ExchangeInv
<1> QED
  BY <1>1, ExchangeInvariant, PTL
=============================================================================
