------------------------------ MODULE MCBridge -------------------------------
(***************************************************************************)
(* The parts of the serial bridge in one model: the reader of the port,    *)
(* the frame codec it calls, and the space packets it should exchange with *)
(* SEMSIM.  Since the reader ends right after it has called the codec,     *)
(* nothing passes from one part to the next, and a behaviour exercises one *)
(* of them.  The instances are small, with values on both sides of every   *)
(* boundary of a field.                                                    *)
(***************************************************************************)
EXTENDS Rs422Reader, BcrFrame, SpacePacket

BridgeInit == Init /\ FrameInit /\ PacketInit

\* The other two parts stay where they begin.
BridgeNext ==
    \/ FrameInit /\ PacketInit /\ Next /\ UNCHANGED <<frameVars, packetVars>>
    \/ Init /\ PacketInit /\ FrameNext /\ UNCHANGED <<vars, packetVars>>
    \/ Init /\ FrameInit /\ PacketNext /\ UNCHANGED <<vars, frameVars>>

BridgeSpec ==
    /\ BridgeInit
    /\ [][BridgeNext]_<<vars, frameVars, packetVars>>
    /\ WF_vars(ReaderStep)

-----------------------------------------------------------------------------
MCBodyLengths == {0, 1, 2}

\* Packets of SpacePacketCommand with n octets, whose text is of the bytes 34
\* except for octet k.  With 72 octets the stuffed frame has 84 bytes, and the
\* first COBS block ends with it; with 73 or 106 a second block may follow; with
\* 100 the length of a block is itself 0x55.
Packet(n, k, x) ==
    [i \in 1..n |-> IF i \in {4, 10} \cup 12..18 THEN 0
                    ELSE IF i = k THEN x ELSE 34]

MCPayloads ==
    { Packet(n, 20, 34) : n \in {20, 71, 72, 73, 100, 106} }
    \cup { Packet(80, 20, 85), Packet(80, 75, 85) }
MCCrcs     == { <<0, 0>>, <<34, 1>>, <<85, 255>> }
MCNoise    == { 0, 1, 85, 255 }

MCApids   == {0, 10, 16, 255, 256, 2047, 2048, 2058, 57344, 59135, 59392}
MCTypes   == {0, 255, 256}
MCCounts  == {0, 64, 255, 256, 16383, 16384}
MCTexts   == {0, 1, 245, 246, 8174, 8175, 65490}
MCReports == {1, 245, 4078}
=============================================================================
