----------------------------- MODULE Rs422Reader -----------------------------
(***************************************************************************)
(* The serial bridge of rs422_interface.py: a port is opened (rs422_comm), *)
(* a reader thread is started on it (rs_422_listener) and splits what      *)
(* arrives into frames (read_command).  A frame begins and ends with the   *)
(* byte 0x55; the reader cannot tell a beginning from an end.  The port    *)
(* ttyUSB0 is the simulator's side, where a frame is decoded and should be *)
(* forwarded; any other port logs the frame.                               *)
(*                                                                         *)
(* The peer sends well-formed frames, whether the port is open or not.  A  *)
(* byte is [n, v]: its number on the wire, and whether the peer sent it as *)
(* the opening delimiter, as data, or as the closing delimiter.            *)
(***************************************************************************)
EXTENDS Naturals, Sequences

CONSTANTS
    BodyLengths,  \* the numbers of data bytes in the peer's frames
    MaxBytes      \* bound: bytes on the wire

ASSUME WireAssumption == BodyLengths \subseteq Nat /\ MaxBytes \in Nat

VARIABLES
    port,     \* "closed", "open", "failed" to open, or "gone" after an error
    forwards, \* "USB0" in ser_port.port, once it is open
    rpc,      \* where the reader thread is
    buf,      \* the input buffer of the port
    bs,       \* the bytes of the frame that is being read
    frames,   \* history: the frames read to their end and handled
    tx,       \* the rest of the frame that the peer is sending
    sent,     \* number of bytes the peer has sent
    clean     \* history: no byte was lost since the last frame was handled
              \* or, before the first one, since the port was opened, and
              \* the peer was between two frames then

reader == <<port, forwards, rpc, bs, frames, clean>>
peer   == <<tx, sent>>
vars   == <<reader, buf, peer>>

Kinds == {"open", "data", "close"}
Byte  == [n : 1..MaxBytes, v : Kinds]

IsDelimiter(b) == b.v # "data"    \* the byte is 0x55

-----------------------------------------------------------------------------
(* The peer                                                                *)

\* A byte reaches the buffer of an open port and is lost otherwise.
Transmit(v) ==
    /\ sent < MaxBytes
    /\ sent' = sent + 1
    /\ buf' = IF port = "open"
              THEN Append(buf, [n |-> sent + 1, v |-> v]) ELSE buf
    /\ UNCHANGED reader

BeginFrame(k) ==
    /\ tx = << >>
    /\ tx' = Append([i \in 1..k |-> "data"], "close")
    /\ Transmit("open")

ContinueFrame ==
    /\ tx # << >>
    /\ tx' = Tail(tx)
    /\ Transmit(Head(tx))

-----------------------------------------------------------------------------
(* Opening the port and starting the thread                                *)

\* rs422_comm: the port is opened, a second time if the first flush fails,
\* and its buffer is empty then.
OpenPort(usb0) ==
    /\ port = "closed"
    /\ port' = "open"
    /\ forwards' = usb0
    /\ clean' = (tx = << >>)
    /\ UNCHANGED <<rpc, buf, bs, frames, peer>>

\* serial.Serial raises: the except clause closes a port that was never
\* assigned, and the UnboundLocalError reaches the caller.
OpenPortRaises ==
    /\ port = "closed"
    /\ port' = "failed"
    /\ UNCHANGED <<forwards, rpc, buf, bs, frames, clean, peer>>

\* Mutant: the thread is started whether the port could be opened or not.
StartReader_AnyPort ==
    /\ rpc = "off"
    /\ rpc' = "start"
    /\ UNCHANGED <<port, forwards, buf, bs, frames, clean, peer>>

\* rs_422_listener starts the thread, a second after it has created it.
StartReader ==
    /\ port = "open"
    /\ rpc = "off"
    /\ rpc' = "start"
    /\ UNCHANGED <<port, forwards, buf, bs, frames, clean, peer>>

-----------------------------------------------------------------------------
(* read_command                                                            *)

\* Mutant: what has piled up in the buffer is dropped at a start byte.
ReadStart_Flushes ==
    /\ rpc = "start"
    /\ buf # << >>
    /\ IF IsDelimiter(Head(buf))
       THEN rpc' = "frame" /\ bs' = <<Head(buf)>> /\ buf' = << >>
       ELSE rpc' = "start" /\ bs' = << >> /\ buf' = Tail(buf)
    /\ UNCHANGED <<port, forwards, frames, clean, peer>>

\* Mutant: any byte starts a frame.
ReadStart_AnyByte ==
    /\ rpc = "start"
    /\ buf # << >>
    /\ rpc' = "frame" /\ bs' = <<Head(buf)>> /\ buf' = Tail(buf)
    /\ UNCHANGED <<port, forwards, frames, clean, peer>>

\* ser_port.read() blocks for a byte; one that is not 0x55 is skipped.
ReadStart ==
    /\ rpc = "start"
    /\ buf # << >>
    /\ IF IsDelimiter(Head(buf))
       THEN rpc' = "frame" /\ bs' = <<Head(buf)>>
       ELSE rpc' = "start" /\ bs' = << >>
    /\ buf' = Tail(buf)
    /\ UNCHANGED <<port, forwards, frames, clean, peer>>

\* Mutant: the reader waits until another byte follows.
ReadByte_InWaiting ==
    /\ rpc = "frame"
    /\ Len(buf) > 1
    /\ bs' = Append(bs, Head(buf))
    /\ rpc' = IF IsDelimiter(Head(buf)) THEN "handle" ELSE "frame"
    /\ buf' = Tail(buf)
    /\ UNCHANGED <<port, forwards, frames, clean, peer>>

\* Every byte up to and with the next 0x55 belongs to the frame.
ReadByte ==
    /\ rpc = "frame"
    /\ buf # << >>
    /\ bs' = Append(bs, Head(buf))
    /\ rpc' = IF IsDelimiter(Head(buf)) THEN "handle" ELSE "frame"
    /\ buf' = Tail(buf)
    /\ UNCHANGED <<port, forwards, frames, clean, peer>>

\* Mutant: the loop goes on after the exception.
ForwardFrame_Continues ==
    /\ rpc = "handle"
    /\ forwards
    /\ frames' = Append(frames, bs)
    /\ bs' = << >>
    /\ rpc' = "start"
    /\ UNCHANGED <<port, forwards, buf, clean, peer>>

\* ttyUSB0: decode_bcr_frame raises unless the bytes happen to be COBS, and
\* after it the name mid is defined nowhere.  The try is around the loop, so
\* that either exception ends the thread.
ForwardFrame ==
    /\ rpc = "handle"
    /\ forwards
    /\ frames' = Append(frames, bs)
    /\ bs' = << >>
    /\ rpc' = "dead"
    /\ UNCHANGED <<port, forwards, buf, clean, peer>>

\* Mutant: nothing is flushed, and the end of a frame is taken for the start of
\* the next one.
LogFrame_KeepsBytes ==
    /\ rpc = "handle"
    /\ ~forwards
    /\ frames' = Append(frames, bs)
    /\ bs' = <<bs[Len(bs)]>>
    /\ rpc' = "frame"
    /\ UNCHANGED <<port, forwards, buf, clean, peer>>

\* Any other port: the frame is logged and flushInput discards what has
\* arrived meanwhile.
LogFrame ==
    /\ rpc = "handle"
    /\ ~forwards
    /\ frames' = Append(frames, bs)
    /\ bs' = << >>
    /\ buf' = << >>
    /\ clean' = (buf = << >>)
    /\ rpc' = "start"
    /\ UNCHANGED <<port, forwards, peer>>

\* The device is unplugged: the pending read raises and ends the thread.
PortError ==
    /\ rpc \in {"start", "frame"}
    /\ port = "open"
    /\ port' = "gone"
    /\ rpc' = "dead"
    /\ UNCHANGED <<forwards, buf, bs, frames, clean, peer>>

ReaderStep == ReadStart \/ ReadByte \/ ForwardFrame \/ LogFrame

-----------------------------------------------------------------------------
Init ==
    /\ port = "closed" /\ forwards = FALSE /\ rpc = "off"
    /\ buf = << >> /\ bs = << >> /\ frames = << >>
    /\ tx = << >> /\ sent = 0 /\ clean = FALSE

Next ==
    \/ \E k \in BodyLengths : BeginFrame(k)
    \/ ContinueFrame
    \/ \E usb0 \in BOOLEAN : OpenPort(usb0)
    \/ OpenPortRaises \/ StartReader
    \/ ReaderStep
    \/ PortError

Spec == Init /\ [][Next]_vars

\* The reader thread runs whenever a byte is there for it; the peer and the
\* caller of rs_422_listener owe nothing.
FairSpec == Spec /\ WF_vars(ReaderStep)

-----------------------------------------------------------------------------
(* Properties                                                              *)

\* Type correctness.
TypeOK ==
    /\ port \in {"closed", "open", "failed", "gone"} /\ forwards \in BOOLEAN
    /\ rpc \in {"off", "start", "frame", "handle", "dead"}
    /\ buf \in Seq(Byte) /\ bs \in Seq(Byte) /\ frames \in Seq(Seq(Byte))
    /\ tx \in Seq(Kinds) /\ sent \in 0..MaxBytes /\ clean \in BOOLEAN
    /\ rpc \in {"start", "frame", "handle"} => port = "open"

Consecutive(s) == \A i \in 1..(Len(s) - 1) : s[i + 1].n = s[i].n + 1

\* flushInput throws bytes away while the peer goes on sending.  It never does
\* so inside a frame: what has been read of a frame and what is buffered are
\* consecutive bytes of the wire, up to the last one sent, so that no frame is
\* put together from two.
NoSplice ==
    /\ Consecutive(bs) /\ Consecutive(buf)
    /\ \A i \in 1..Len(frames) : Consecutive(frames[i])
    /\ rpc # "dead" /\ bs # << >> /\ buf # << >> =>
            buf[1].n = bs[Len(bs)].n + 1
    /\ port = "open" /\ buf # << >> => buf[Len(buf)].n = sent
    /\ rpc \in {"frame", "handle"} /\ buf = << >> => bs[Len(bs)].n = sent

InStep(f) == f[1].v = "open"

\* A reader that was opened between two frames takes the peer's first frame
\* for a frame.  From then on only a loss of bytes can change its step: out of
\* step, it takes the gap between two frames for a frame, for ever.
StepKept ==
    [][ Len(frames') > Len(frames) /\ clean =>
            (InStep(bs) <=>
                frames = << >> \/ InStep(frames[Len(frames)])) ]_vars

\* The thread ends only with the port or, on ttyUSB0, with the first frame it
\* reads; there it never handles a second one.
ReaderFate ==
    /\ rpc = "dead" => port = "gone" \/ (forwards /\ Len(frames) = 1)
    /\ forwards => Len(frames) <= 1
    /\ forwards /\ rpc # "dead" => frames = << >>

Framing == INSTANCE FrameSplitter WITH pending <- bs \o buf

\* Byte by byte, with bytes arriving and bytes flushed, the reader splits the
\* wire as the abstract splitter does.
ImplementsFraming == Framing!Spec

\* A frame whose end has arrived is read to its end, unless the port fails.
FrameRead ==
    (rpc = "frame" /\ \E i \in 1..Len(buf) : IsDelimiter(buf[i]))
        ~> (rpc = "handle" \/ port = "gone")
=============================================================================
