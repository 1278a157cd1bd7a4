------------------------------ MODULE BcrFrame -------------------------------
(***************************************************************************)
(* The frame codec of bcr_frame.py and the way a frame takes to it.  A     *)
(* peer stuffs a standard interface header of one byte, a bus header of    *)
(* eight, a space packet and a CRC of two by COBS, so that no byte is 0,   *)
(* and sends it between two start bytes 0x55, over a line that may damage  *)
(* a byte.  read_command hands decode_bcr_frame all it has read, from one  *)
(* 0x55 up to and with the next, wherever that is.  encode_bcr_frame is    *)
(* used by the PUS 5 test script.  Bytes are 0..255.                       *)
(***************************************************************************)
EXTENDS Integers, Sequences

CONSTANTS
    Payloads,   \* space packets, as byte sequences
    Crcs,       \* CRC values, as pairs of bytes
    Noise,      \* bytes that the line may put in the place of one of a frame
    AckCounts   \* sequence counts of the script and the peer, of one byte

ASSUME CodecAssumption ==
    /\ Payloads \subseteq Seq(0..255) /\ Noise \subseteq 0..255
    /\ Crcs \subseteq (0..255) \X (0..255) /\ AckCounts \subseteq 0..255
    /\ \A p \in Payloads : Len(p) <= 240

VARIABLES
    frameStage,  \* "idle", "line", "done", or "raised" in the script
    payload,     \* history: the packet the peer has put in its frame
    damaged,     \* history: the line has changed a byte
    line,        \* the bytes on the line
    frame,       \* bs: the bytes that read_command has read
    result       \* what decode_bcr_frame returns

frameVars == <<frameStage, payload, damaged, line, frame, result>>

Raised == << -1 >>      \* no byte sequence: an exception

StartByte  == 85        \* 0x55
UserPacket == 165       \* STDIF_type.USER_PACKET
TcPacket   == 0         \* ASL_type.TC_PACKET
DefaultApid == 10

\* struct.pack takes "b" from -128..127 and "h" from -32768..32767.
PacksByte(x)  == x \in -128..127
PacksShort(x) == x \in -32768..32767

-----------------------------------------------------------------------------
(* COBS, the library the codec uses; for fewer than 254 bytes.             *)

\* The first of the n bytes at or after place j that is 0, or the end.
NextZero(s, j) ==
    CHOOSE k \in j..(Len(s) + 1) :
        /\ k = Len(s) + 1 \/ s[k] = 0
        /\ \A i \in j..(k - 1) : s[i] # 0

\* A length byte in front and in the place of every 0.
CobsEncode(s) ==
    [ j \in 1..(Len(s) + 1) |->
        IF j = 1 \/ (j > 1 /\ s[j - 1] = 0) THEN NextZero(s, j) - j + 1
                                            ELSE s[j - 1] ]

\* The bytes of the block whose length byte is at place i, and the 0 that its
\* end stands for.
Block(s, i)   == SubSeq(s, i + 1, i + s[i] - 1)
Stuffed(s, i) == IF s[i] < 255 THEN << 0 >> ELSE << >>

BadBlock(s, i) ==
    \/ s[i] = 0
    \/ i + s[i] > Len(s) + 1
    \/ \E k \in (i + 1)..(i + s[i] - 1) : s[k] = 0

\* What the bytes from place i on decode to, if "from" says it of later places.
DecodeBlock(s, from, i) ==
    IF i = Len(s) + 1 THEN << >>
    ELSE IF BadBlock(s, i) THEN Raised
    ELSE IF i + s[i] = Len(s) + 1 THEN Block(s, i)
    ELSE IF from[i + s[i]] = Raised THEN Raised
    ELSE Block(s, i) \o Stuffed(s, i) \o from[i + s[i]]

CobsFrom(s) ==
    LET from[i \in 1..(Len(s) + 1)] == DecodeBlock(s, from, i) IN from

CobsDecode(s) == CobsFrom(s)[1]

-----------------------------------------------------------------------------
(* The codec                                                               *)

\* encode_bcr_frame packs the value 165 as a signed byte, and takes the length
\* of a CRC that is an int.
EncodeRaises(asl_type, apid, ack_count) ==
    \/ ~PacksByte(asl_type) \/ ~PacksShort(apid) \/ ~PacksShort(ack_count)
    \/ ~PacksByte(UserPacket)

\* Mutant: the CRC is taken for one byte.
Ccsds_ShortCrc(stdif) ==
    IF stdif = Raised THEN Raised ELSE SubSeq(stdif, 10, Len(stdif) - 1)

\* What is cut out of a decoded frame: the headers and the CRC, which is not
\* compared with anything.
Ccsds(stdif) ==
    IF stdif = Raised THEN Raised ELSE SubSeq(stdif, 10, Len(stdif) - 2)

\* Mutant: the bytes 0x55 are cut off at both ends.
DecodeBcrFrame_StripsBoth(f) == Ccsds(CobsDecode(SubSeq(f, 2, Len(f) - 1)))

\* decode_bcr_frame: the last byte is cut off, the first one is not.
DecodeBcrFrame(f) == Ccsds(CobsDecode(SubSeq(f, 1, Len(f) - 1)))

\* What a peer sends that follows the layout which the codec names.
PeerFrame(p, crc, ack) ==
    << StartByte >> \o CobsEncode(<< UserPacket, TcPacket, 0, 0,
                                     0, DefaultApid, 0, ack, 0 >> \o p \o crc)
                   \o << StartByte >>

-----------------------------------------------------------------------------
\* The test script encodes a frame.
ScriptEncodes(ack) ==
    /\ frameStage = "idle"
    /\ EncodeRaises(TcPacket, DefaultApid, ack)
    /\ frameStage' = "raised"
    /\ UNCHANGED <<payload, damaged, line, frame, result>>

PeerSends(p, crc, ack) ==
    /\ frameStage = "idle"
    /\ payload' = p
    /\ line' = PeerFrame(p, crc, ack)
    /\ frameStage' = "line"
    /\ UNCHANGED <<damaged, frame, result>>

LineDamages(i, b) ==
    /\ frameStage = "line" /\ ~damaged
    /\ line[i] # b
    /\ line' = [line EXCEPT ![i] = b]
    /\ damaged' = TRUE
    /\ UNCHANGED <<frameStage, payload, frame, result>>

\* read_command: what comes before the first 0x55 is skipped, and the frame
\* ends with the next one.
ReadCommand ==
    /\ frameStage = "line"
    /\ \E i, j \in 1..Len(line) :
          /\ i < j /\ line[i] = StartByte /\ line[j] = StartByte
          /\ \A k \in 1..(j - 1) : k # i => line[k] # StartByte
          /\ frame' = SubSeq(line, i, j)
    /\ result' = DecodeBcrFrame(frame')
    /\ frameStage' = "done"
    /\ UNCHANGED <<payload, damaged, line>>

FrameInit ==
    /\ frameStage = "idle" /\ payload = << >> /\ damaged = FALSE
    /\ line = << >> /\ frame = << >> /\ result = << >>

FrameNext ==
    \/ \E a \in AckCounts : ScriptEncodes(a)
    \/ \E p \in Payloads, c \in Crcs, a \in AckCounts : PeerSends(p, c, a)
    \/ \E b \in Noise, i \in 1..Len(line) : LineDamages(i, b)
    \/ ReadCommand

FrameSpec == FrameInit /\ [][FrameNext]_frameVars

-----------------------------------------------------------------------------
(* Properties                                                              *)

FrameDecoded == frameStage = "done" /\ result # Raised

\* COBS takes the 0x55 at the front for the length of its first block, 85.
\* A shorter frame raises, which ends the reader thread, damaged or not.
ShortFrameRaises ==
    frameStage = "done" /\ Len(frame) <= StartByte => result = Raised

\* What decodes is the stuffed frame itself from its eleventh byte on, where
\* some bytes that COBS takes for lengths have become 0.
DecodedInPlace ==
    FrameDecoded =>
        /\ Len(result) = Len(frame) - 13
        /\ \A i \in 1..Len(result) : result[i] \in {frame[i + 10], 0}

\* What every packet of SpacePacketCommand has: the reserved octets of its
\* data field header are 0.
IsCommandPacket(p) ==
    /\ Len(p) >= 18
    /\ \A i \in {10} \cup 12..18 : p[i] = 0

\* So the reader never gets a command packet out of a frame, whatever the peer
\* has put in and whichever byte the line has damaged.
NeverAPacket == FrameDecoded => ~IsCommandPacket(result)

\* decode_bcr_frame is to remove the headers and the CRC and to return the
\* CCSDS packet of the frame that the reader passes to it.
PacketDecoded == frameStage = "done" /\ ~damaged => result = payload
=============================================================================
