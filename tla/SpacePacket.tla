----------------------------- MODULE SpacePacket -----------------------------
(***************************************************************************)
(* The space packets between a client and SEMSIM: SpacePacketCommand and   *)
(* SpacePacketDecoder of tmtc_manager.py and their copies in the clients   *)
(* (rs422_interface.py), with what the UDP calls around them do.  A client *)
(* encodes a command, the listener decodes it and answers it under the     *)
(* APID it has decoded, and the client decodes the answer.                 *)
(*                                                                         *)
(* Of a packet the nine octets are kept that a decoder looks at, and its   *)
(* length.  Shifts and masks are divisions and remainders.                 *)
(***************************************************************************)
EXTENDS Naturals, Sequences

CONSTANTS
    Apids, Types, Subtypes, Counts,   \* what a client puts in the header
    TextLengths,                      \* lengths of the JSON text of a command
    ReportLengths                     \* lengths of the JSON text of a report

ServerBuffer == 8192    \* recvfrom in customize_listening
ClientBuffer == 4096    \* recvfrom in expecting_ack
MaxDatagram  == 65507   \* what sendto takes
HeaderSize   == 18      \* six octets, and twelve of the data field header

ASSUME FieldsAssumption ==
    /\ Apids \subseteq Nat /\ Types \subseteq Nat /\ Subtypes \subseteq Nat
    /\ Counts \subseteq Nat /\ TextLengths \subseteq Nat

\* The text of a report is about as long as a row of the table, which is a
\* varchar(4096), at most; see MemoryService.
ASSUME ReportAssumption ==
    ReportLengths \subseteq 1..(ClientBuffer - HeaderSize)

VARIABLES
    stage,    \* "client", "sent", "taken", "answered", "read", or where an
              \* exception ended the client or the listener
    request,  \* history: the fields that the client has encoded
    wire,     \* the packet on its way
    cut,      \* history: recvfrom has cut off the end of the datagram
    taken,    \* what the listener has decoded
    read      \* what the client has decoded

packetVars == <<stage, request, wire, cut, taken, read>>

Octet  == 0..255
Fields == [apid : Nat, type : Nat, subtype : Nat, count : Nat, body : Nat]
Nothing == [none |-> TRUE]

-----------------------------------------------------------------------------
(* The codec                                                               *)

\* Mutant: the sequence count is put in front of the flags.
Octets_CountShifted(tc_type, f) ==
    LET length == HeaderSize - 6 + f.body - 2
    IN  << 16 * tc_type + 8 + f.apid \div 256, f.apid % 256,
           192 + (f.count % 64), f.count \div 64,
           length \div 256, length % 256, 16, f.type, f.subtype >>

\* Mutant: the length field counts the body alone.
Octets_BodyLength(tc_type, f) ==
    << 16 * tc_type + 8 + f.apid \div 256, f.apid % 256,
       192 + f.count \div 256, f.count % 256,
       f.body \div 256, f.body % 256, 16, f.type, f.subtype >>

\* The octets of the header, before they are put into bytes.  The length of
\* the packet data field, less 2, goes into its length field.
Octets(tc_type, f) ==
    LET length == HeaderSize - 6 + f.body - 2
    IN  << 16 * tc_type + 8 + f.apid \div 256, f.apid % 256,
           192 + f.count \div 256, f.count % 256,
           length \div 256, length % 256, 16, f.type, f.subtype >>

\* bytes() and to_bytes raise on a value that does not fit an octet; the
\* packet is then the integer 0, and sendto raises.
Encodes(tc_type, f) == \A i \in 1..9 : Octets(tc_type, f)[i] \in Octet

SpacePacketCommand(tc_type, f) ==
    [octets |-> Octets(tc_type, f), size |-> HeaderSize + f.body]

\* Mutant: the APID is taken without the mask of its three high bits.
SpacePacketDecoder_NoMask(p) ==
    [ version |-> p.octets[1] \div 32,
      apid    |-> p.octets[1] * 256 + p.octets[2],
      type    |-> p.octets[8],
      subtype |-> p.octets[9],
      count   |-> (p.octets[3] % 64) * 256 + p.octets[4],
      length  |-> p.octets[5] * 256 + p.octets[6] + 1 ]

\* Mutant: the version is read from the packet type's bits.
SpacePacketDecoder_Version(p) ==
    [ version |-> p.octets[1] \div 128,
      apid    |-> (p.octets[1] % 8) * 256 + p.octets[2],
      type    |-> p.octets[8],
      subtype |-> p.octets[9],
      count   |-> (p.octets[3] % 64) * 256 + p.octets[4],
      length  |-> p.octets[5] * 256 + p.octets[6] + 1 ]

\* The version, the count and the length are computed and never used.
SpacePacketDecoder(p) ==
    [ version |-> p.octets[1] \div 32,
      apid    |-> (p.octets[1] % 8) * 256 + p.octets[2],
      type    |-> p.octets[8],
      subtype |-> p.octets[9],
      count   |-> (p.octets[3] % 64) * 256 + p.octets[4],
      length  |-> p.octets[5] * 256 + p.octets[6] + 1 ]

-----------------------------------------------------------------------------
(* A command and an answer                                                 *)

\* send_semsim_ccsds_frame; a client's packets have the type bit 1.
ClientSends(f) ==
    /\ stage = "client"
    /\ Encodes(1, f) /\ HeaderSize + f.body <= MaxDatagram
    /\ request' = f
    /\ wire' = SpacePacketCommand(1, f)
    /\ stage' = "sent"
    /\ UNCHANGED <<cut, taken, read>>

ClientSendRaises(f) ==
    /\ stage = "client"
    /\ ~Encodes(1, f) \/ HeaderSize + f.body > MaxDatagram
    /\ request' = f
    /\ stage' = "send_raised"
    /\ UNCHANGED <<wire, cut, taken, read>>

\* customize_listening: json.loads raises on a body that is empty or has been
\* cut off, which ends the thread.
ListenerTakes ==
    /\ stage = "sent"
    /\ cut' = (wire.size > ServerBuffer)
    /\ IF cut' \/ wire.size = HeaderSize
       THEN stage' = "listener_dead" /\ taken' = taken
       ELSE stage' = "taken" /\ taken' = SpacePacketDecoder(wire)
    /\ UNCHANGED <<request, wire, read>>

\* The reports of a service, under the APID of the command.  Their types and
\* subtypes are constants of bcr.py, and the count is 0 or 1.
Report(n, b) ==
    [apid |-> taken.apid, type |-> 6, subtype |-> 131, count |-> n, body |-> b]

ListenerAnswers(n, b) ==
    /\ stage = "taken"
    /\ IF Encodes(0, Report(n, b))
       THEN wire' = SpacePacketCommand(0, Report(n, b)) /\ stage' = "answered"
       ELSE stage' = "listener_dead" /\ wire' = wire
    /\ UNCHANGED <<request, cut, taken, read>>

\* receive_semsim_ccsds_frame
ClientReceives ==
    /\ stage = "answered"
    /\ cut' = (wire.size > ClientBuffer)
    /\ IF cut'
       THEN stage' = "receive_raised" /\ read' = read
       ELSE stage' = "read" /\ read' = SpacePacketDecoder(wire)
    /\ UNCHANGED <<request, wire, taken>>

PacketInit ==
    /\ stage = "client" /\ cut = FALSE
    /\ request = Nothing /\ wire = Nothing
    /\ taken = Nothing /\ read = Nothing

PacketNext ==
    \/ \E a \in Apids, t \in Types, s \in Subtypes, n \in Counts,
          b \in TextLengths :
            LET f == [apid |-> a, type |-> t, subtype |-> s, count |-> n,
                      body |-> b]
            IN  ClientSends(f) \/ ClientSendRaises(f)
    \/ ListenerTakes
    \/ \E n \in {0, 1}, b \in ReportLengths : ListenerAnswers(n, b)
    \/ ClientReceives

PacketSpec == PacketInit /\ [][PacketNext]_packetVars

-----------------------------------------------------------------------------
(* Properties                                                              *)

Decoded == stage \in {"taken", "answered", "read"}

\* What is not refused by the encoder is decoded as it was meant, but for an
\* APID of more than eleven bits: it spills into the bits in front of it, and
\* the listener takes the packet for one of another APID.
HeaderDecoded ==
    Decoded => /\ taken.apid = request.apid % 2048
               /\ taken.type = request.type
               /\ taken.subtype = request.subtype
               /\ taken.count = request.count

\* The spilled bits show in the version, which the decoder computes and nobody
\* looks at: it is 0 exactly in the packets whose APID is right.
SpillVisible ==
    Decoded => (taken.version = 0 <=> taken.apid = request.apid)

\* The encoder's length field is one less than the standard's, and the decoder
\* adds one to it: what it computes is one octet short of the packet data field
\* of every datagram that the listener handles.
LengthOneShort == Decoded => taken.length + 1 = request.body + 12

\* The listener can encode each of its answers, whatever APID it has decoded,
\* and a client can read it: a datagram ends the listener's thread only by a
\* body that is empty or longer than its buffer.
AnswerReadable ==
    /\ stage = "listener_dead" =>
            request.body = 0 \/ request.body > ServerBuffer - HeaderSize
    /\ stage # "receive_raised"
    /\ stage = "read" => /\ read.apid = taken.apid
                         /\ read.type = 6 /\ read.subtype = 131
=============================================================================
