----------------------------- MODULE Rs422Proofs -----------------------------
(***************************************************************************)
(* Proofs about the serial bridge, for frames of any lengths and any       *)
(* number of bytes: no frame is put together from two, and how the reader  *)
(* thread ends.                                                            *)
(***************************************************************************)
EXTENDS Rs422Reader, TLAPS

LEMMA AppendFacts ==
    ASSUME NEW S, NEW s \in Seq(S), NEW x \in S
    PROVE  /\ Append(s, x) \in Seq(S) /\ Len(Append(s, x)) = Len(s) + 1
           /\ \A i \in 1..Len(s) : Append(s, x)[i] = s[i]
           /\ Append(s, x)[Len(s) + 1] = x
  OBVIOUS

LEMMA TailFacts ==
    ASSUME NEW S, NEW s \in Seq(S), s # << >>
    PROVE  /\ Tail(s) \in Seq(S) /\ Len(Tail(s)) = Len(s) - 1
           /\ \A i \in 1..(Len(s) - 1) : Tail(s)[i] = s[i + 1]
           /\ Head(s) = s[1] /\ Head(s) \in S
           /\ Len(s) \in Nat \ {0}
  OBVIOUS

LEMMA ShortSequences ==
    ASSUME NEW S
    PROVE  << >> \in Seq(S) /\ \A x \in S : <<x>> \in Seq(S)
  OBVIOUS

-----------------------------------------------------------------------------
(* Type correctness                                                        *)

\* The steps around the thread, up to its start.
Opening ==
    (\E usb0 \in BOOLEAN : OpenPort(usb0)) \/ OpenPortRaises \/ StartReader

LEMMA InitTyped == Init => TypeOK
<1>1. << >> \in Seq(Byte) /\ << >> \in Seq(Seq(Byte)) /\ << >> \in Seq(Kinds)
  BY ShortSequences
<1>2. 0 \in 0..MaxBytes
  BY WireAssumption
<1>3. SUFFICES ASSUME Init PROVE TypeOK
  OBVIOUS
<1>4. buf \in Seq(Byte) /\ bs \in Seq(Byte) /\ frames \in Seq(Seq(Byte))
      /\ tx \in Seq(Kinds)
  BY <1>1, <1>3, Zenon DEF Init
<1> QED
  BY <1>2, <1>3, <1>4 DEF Init, TypeOK

LEMMA TransmitTyped ==
    ASSUME TypeOK, NEW v \in Kinds, Transmit(v), tx' \in Seq(Kinds)
    PROVE  TypeOK'
<1>1. [n |-> sent + 1, v |-> v] \in Byte /\ sent + 1 \in 0..MaxBytes
  BY WireAssumption DEF TypeOK, Transmit, Byte
<1>2. buf' \in Seq(Byte)
  BY <1>1, AppendFacts DEF TypeOK, Transmit
<1> QED
  BY <1>1, <1>2 DEF TypeOK, Transmit, reader

LEMMA NextTyped == TypeOK /\ [Next]_vars => TypeOK'
<1> SUFFICES ASSUME TypeOK, [Next]_vars PROVE TypeOK'
  OBVIOUS
<1>1. ASSUME NEW k \in BodyLengths, BeginFrame(k) PROVE TypeOK'
  <2>1. k \in Nat
    BY WireAssumption
  <2>2. [i \in 1..k |-> "data"] \in Seq(Kinds)
    BY <2>1 DEF Kinds
  <2>3. tx' \in Seq(Kinds)
    BY <1>1, <2>2, AppendFacts DEF BeginFrame, Kinds
  <2> QED
    BY <1>1, <2>3, TransmitTyped DEF BeginFrame, Kinds
<1>2. CASE ContinueFrame
  <2>1. Head(tx) \in Kinds /\ tx' \in Seq(Kinds)
    BY <1>2, TailFacts DEF ContinueFrame, TypeOK
  <2> QED
    BY <1>2, <2>1, TransmitTyped DEF ContinueFrame
<1>3. CASE Opening \/ PortError
  BY <1>3 DEF Opening, OpenPort, OpenPortRaises, StartReader, PortError,
     TypeOK, peer
<1>4. CASE ReadStart \/ ReadByte
  <2>1. buf # << >> /\ Head(buf) \in Byte /\ Tail(buf) \in Seq(Byte)
    BY <1>4, TailFacts DEF ReadStart, ReadByte, TypeOK
  <2>2. bs' \in Seq(Byte)
    <3>1. CASE ReadStart
      BY <3>1, <2>1, ShortSequences DEF ReadStart
    <3>2. CASE ReadByte
      BY <3>2, <2>1, AppendFacts DEF ReadByte, TypeOK
    <3> QED
      BY <1>4, <3>1, <3>2
  <2> QED
    BY <1>4, <2>1, <2>2 DEF ReadStart, ReadByte, TypeOK, peer
<1>5. CASE ForwardFrame \/ LogFrame
  <2>1. frames \in Seq(Seq(Byte)) /\ bs \in Seq(Byte)
    BY DEF TypeOK
  <2>2. Append(frames, bs) \in Seq(Seq(Byte))
    BY <2>1, AppendFacts
  <2>3. << >> \in Seq(Byte)
    BY ShortSequences
  <2> QED
    BY <1>5, <2>2, <2>3 DEF ForwardFrame, LogFrame, TypeOK, peer
<1>6. CASE UNCHANGED vars
  BY <1>6 DEF vars, reader, peer, TypeOK
<1> QED
  BY <1>1, <1>2, <1>3, <1>4, <1>5, <1>6
     DEF Next, Opening, ReaderStep

\* Every variable of the bridge keeps its type, and the reader thread runs on
\* an open port alone (rs422_comm and rs_422_listener in rs422_interface.py).
THEOREM BridgeTyped == Spec => []TypeOK
  BY InitTyped, NextTyped, PTL DEF Spec

-----------------------------------------------------------------------------
(* How the thread ends                                                     *)

\* Whether a port forwards its frames is settled before it is read.
FateInv ==
    /\ TypeOK /\ ReaderFate
    /\ port \in {"closed", "failed"} => rpc = "off" /\ frames = << >>

LEMMA NextFate == FateInv /\ [Next]_vars => FateInv'
<1> SUFFICES ASSUME FateInv, [Next]_vars PROVE FateInv'
  OBVIOUS
<1>0. TypeOK'
  BY NextTyped DEF FateInv
<1> USE DEF FateInv
<1>1. CASE UNCHANGED <<port, forwards, rpc, frames>>
  BY <1>0, <1>1 DEF ReaderFate
<1>2. CASE Opening
  BY <1>0, <1>2 DEF Opening, OpenPort, OpenPortRaises, StartReader,
     ReaderFate, TypeOK
<1>3. CASE ReadStart \/ ReadByte \/ PortError
  BY <1>0, <1>3 DEF ReadStart, ReadByte, PortError, ReaderFate, TypeOK
<1>4. CASE ForwardFrame
  BY <1>0, <1>4, AppendFacts DEF ForwardFrame, ReaderFate, TypeOK
<1>5. CASE LogFrame
  BY <1>0, <1>5 DEF LogFrame, ReaderFate, TypeOK
<1> QED
  BY <1>1, <1>2, <1>3, <1>4, <1>5
     DEF Next, Opening, ReaderStep, BeginFrame, ContinueFrame, Transmit,
         reader, vars

\* read_command puts its try around the loop: on ttyUSB0 the first frame ends
\* the thread, on another port nothing but the port does.
THEOREM ReaderFateHolds == Spec => []ReaderFate
<1>1. Init => FateInv
  BY InitTyped DEF Init, FateInv, ReaderFate
<1>2. FateInv => ReaderFate
  BY DEF FateInv
<1> QED
  BY <1>1, <1>2, NextFate, PTL DEF Spec

-----------------------------------------------------------------------------
(* Frames are not put together                                             *)

\* What is known of a port that is not open, and of bs at each place of the
\* thread.
Places ==
    /\ port \in {"closed", "failed"} => buf = << >>
    /\ rpc \in {"frame", "handle"} => bs # << >>
    /\ rpc \in {"off", "start"} => bs = << >>

SpliceInv == TypeOK /\ Places /\ NoSplice

LEMMA TransmitKeepsFrames ==
    ASSUME SpliceInv, NEW v \in Kinds, Transmit(v), TypeOK'
    PROVE  SpliceInv'
<1> USE DEF SpliceInv
<1>1. UNCHANGED <<port, rpc, bs, frames>> /\ sent' = sent + 1
  BY DEF Transmit, reader
<1>2. CASE port # "open"
  <2>1. buf' = buf
    BY <1>2 DEF Transmit
  <2>2. rpc \notin {"start", "frame", "handle"}
    BY <1>2 DEF TypeOK
  <2> QED
    BY <1>1, <1>2, <2>1, <2>2 DEF NoSplice, Places, Consecutive
<1>3. CASE port = "open"
  <2> DEFINE b == [n |-> sent + 1, v |-> v]
  <2>1. b \in Byte /\ b.n = sent + 1
    BY WireAssumption DEF TypeOK, Transmit, Byte
  <2>2. buf' = Append(buf, b)
    BY <1>3 DEF Transmit
  <2> HIDE DEF b
  <2>3. /\ Len(buf') = Len(buf) + 1 /\ buf'[Len(buf) + 1] = b
        /\ \A i \in 1..Len(buf) : buf'[i] = buf[i]
        /\ Len(buf) \in Nat
    BY <2>1, <2>2, AppendFacts DEF TypeOK
  <2>4. buf # << >> => buf[Len(buf)].n = sent /\ Len(buf) > 0
    BY <1>3 DEF NoSplice, TypeOK
  <2>5. Consecutive(buf)'
    <3> SUFFICES ASSUME NEW i \in 1..Len(buf)
                 PROVE  buf'[i + 1].n = buf'[i].n + 1
      BY <2>3 DEF Consecutive
    <3>1. CASE i = Len(buf)
      BY <3>1, <2>1, <2>3, <2>4
    <3>2. CASE i # Len(buf)
      BY <3>2, <2>3 DEF NoSplice, Consecutive
    <3> QED
      BY <3>1, <3>2
  <2>6. rpc # "dead" /\ bs # << >> => buf'[1].n = bs[Len(bs)].n + 1
    <3>1. CASE buf = << >>
      <4>1. rpc # "dead" /\ bs # << >> => rpc \in {"frame", "handle"}
        BY DEF Places, TypeOK
      <4>2. Len(buf) = 0 /\ buf'[1] = b
        BY <3>1, <2>3
      <4> QED
        BY <3>1, <4>1, <4>2, <2>1 DEF NoSplice
    <3>2. CASE buf # << >>
      BY <3>2, <2>3, <2>4 DEF NoSplice
    <3> QED
      BY <3>1, <3>2
  <2>7. buf' # << >>
    BY <2>3
  <2> QED
    BY <1>1, <1>3, <2>1, <2>3, <2>5, <2>6, <2>7 DEF NoSplice, Places,
       Consecutive
<1> QED
  BY <1>2, <1>3

LEMMA ReadKeepsFrames ==
    ASSUME SpliceInv, ReadStart \/ ReadByte, TypeOK'
    PROVE  SpliceInv'
<1> USE DEF SpliceInv
<1>1. /\ buf # << >> /\ buf' = Tail(buf) /\ port = "open"
      /\ UNCHANGED <<port, frames, sent>>
  BY DEF ReadStart, ReadByte, TypeOK, peer
<1>2. /\ Len(buf) \in Nat \ {0} /\ Len(buf') = Len(buf) - 1
      /\ \A i \in 1..(Len(buf) - 1) : buf'[i] = buf[i + 1]
      /\ Head(buf) = buf[1] /\ Head(buf) \in Byte
  BY <1>1, TailFacts DEF TypeOK
<1>3. Consecutive(buf)'
  BY <1>2 DEF NoSplice, Consecutive
<1>4. buf' # << >> => /\ buf'[Len(buf')].n = sent
                      /\ buf'[1].n = buf[1].n + 1
  <2> SUFFICES ASSUME buf' # << >>
               PROVE  /\ buf'[Len(buf')].n = sent
                      /\ buf'[1].n = buf[1].n + 1
    OBVIOUS
  <2>1. Len(buf') > 0
    BY <1>2 DEF TypeOK
  <2> QED
    BY <1>1, <1>2, <2>1 DEF NoSplice, Consecutive
<1>5. buf' = << >> => buf[1].n = sent
  <2> SUFFICES ASSUME buf' = << >> PROVE buf[1].n = sent
    OBVIOUS
  <2>1. Len(buf') = 0
    OBVIOUS
  <2>2. Len(buf) = 1
    BY <1>2, <2>1
  <2>3. buf[Len(buf)].n = sent
    BY <1>1 DEF NoSplice
  <2> QED
    BY <2>2, <2>3
<1>6. CASE ReadStart
  <2>1. bs' = << >> \/ bs' = <<buf[1]>>
    BY <1>6, <1>2 DEF ReadStart
  <2>2. Consecutive(bs)' /\ (bs' # << >> => bs'[Len(bs')] = buf[1])
    BY <2>1 DEF Consecutive
  <2>3. (rpc' = "start" /\ bs' = << >>) \/ (rpc' = "frame" /\ bs' # << >>)
    <3>1. <<Head(buf)>> # << >>
      OBVIOUS
    <3> QED
      BY <1>6, <3>1 DEF ReadStart
  <2> QED
    BY <1>1, <1>3, <1>4, <1>5, <2>2, <2>3 DEF NoSplice, Places, Consecutive
<1>7. CASE ReadByte
  <2>1. bs # << >> /\ bs' = Append(bs, buf[1]) /\ buf[1].n = bs[Len(bs)].n + 1
    BY <1>1, <1>2, <1>7 DEF ReadByte, Places, NoSplice
  <2>2. /\ Len(bs') = Len(bs) + 1 /\ bs'[Len(bs) + 1] = buf[1]
        /\ \A i \in 1..Len(bs) : bs'[i] = bs[i]
        /\ Len(bs) \in Nat
    BY <1>2, <2>1, AppendFacts DEF TypeOK
  <2>3. Consecutive(bs)'
    BY <2>1, <2>2 DEF NoSplice, Consecutive
  <2>4. bs' # << >> /\ rpc' \in {"frame", "handle"}
    BY <1>7, <2>2 DEF ReadByte
  <2> QED
    BY <1>1, <1>3, <1>4, <1>5, <2>2, <2>3, <2>4
       DEF NoSplice, Places, Consecutive
<1> QED
  BY <1>6, <1>7

LEMMA HandleKeepsFrames ==
    ASSUME SpliceInv, ForwardFrame \/ LogFrame, TypeOK'
    PROVE  SpliceInv'
<1> USE DEF SpliceInv
<1>1. /\ rpc = "handle" /\ frames' = Append(frames, bs) /\ bs' = << >>
      /\ UNCHANGED <<port, sent>> /\ port = "open"
      /\ rpc' \in {"dead", "start"} /\ (buf' = buf \/ buf' = << >>)
  BY DEF ForwardFrame, LogFrame, peer, TypeOK
<1>2. \A i \in 1..Len(frames') : Consecutive(frames'[i])
  BY <1>1, AppendFacts DEF TypeOK, NoSplice
<1>3. Consecutive(bs)' /\ Consecutive(buf)'
  BY <1>1 DEF NoSplice, Consecutive
<1> QED
  BY <1>1, <1>2, <1>3 DEF NoSplice, Places, Consecutive

LEMMA NextSplice == SpliceInv /\ [Next]_vars => SpliceInv'
<1> SUFFICES ASSUME SpliceInv, [Next]_vars PROVE SpliceInv'
  OBVIOUS
<1>0. TypeOK'
  BY NextTyped DEF SpliceInv
<1>1. ASSUME NEW k \in BodyLengths, BeginFrame(k) PROVE SpliceInv'
  BY <1>0, <1>1, TransmitKeepsFrames DEF BeginFrame, Kinds
<1>2. CASE ContinueFrame
  <2>1. Head(tx) \in Kinds
    BY <1>2, TailFacts DEF ContinueFrame, SpliceInv, TypeOK
  <2> QED
    BY <1>0, <1>2, <2>1, TransmitKeepsFrames DEF ContinueFrame
<1>3. CASE Opening \/ PortError
  BY <1>0, <1>3 DEF Opening, OpenPort, OpenPortRaises, StartReader, PortError,
     SpliceInv, TypeOK, Places, NoSplice, Consecutive, peer
<1>4. CASE ReaderStep
  BY <1>0, <1>4, ReadKeepsFrames, HandleKeepsFrames DEF ReaderStep
<1>5. CASE UNCHANGED vars
  BY <1>0, <1>5 DEF vars, reader, peer, SpliceInv, Places, NoSplice,
     Consecutive
<1> QED
  BY <1>1, <1>2, <1>3, <1>4, <1>5 DEF Next, Opening

\* However the peer's bytes, the reader and flushInput interleave, every frame
\* that read_command handles is one run of consecutive bytes of the wire.
THEOREM NoSpliceHolds == Spec => []NoSplice
<1>1. Init => SpliceInv
  BY InitTyped DEF Init, SpliceInv, Places, NoSplice, Consecutive
<1>2. SpliceInv => NoSplice
  BY DEF SpliceInv
<1> QED
  BY <1>1, <1>2, NextSplice, PTL DEF Spec

-----------------------------------------------------------------------------
(* The reader implements the abstract splitter                             *)

LEMMA ConcatFacts ==
    ASSUME NEW S, NEW s \in Seq(S), NEW t \in Seq(S), NEW x \in S
    PROVE  /\ << >> \o s = s /\ s \o << >> = s
           /\ s \o Append(t, x) = Append(s \o t, x)
           /\ t # << >> => /\ Append(s, Head(t)) \o Tail(t) = s \o t
                           /\ <<Head(t)>> \o Tail(t) = t
<1>1. << >> \o s = s /\ s \o << >> = s
  OBVIOUS
<1>2. s \o Append(t, x) = Append(s \o t, x)
  OBVIOUS
<1>3. t # << >> => Append(s, Head(t)) \o Tail(t) = s \o t
  OBVIOUS
<1>4. t # << >> => <<Head(t)>> \o Tail(t) = t
  OBVIOUS
<1> QED
  BY <1>1, <1>2, <1>3, <1>4

LEMMA ConcatEmpty == \A S : \A t \in Seq(S) : << >> \o t = t
  OBVIOUS

LEMMA SplitFacts ==
    ASSUME NEW S, NEW s \in Seq(S), NEW t \in Seq(S)
    PROVE  /\ SubSeq(s \o t, 1, Len(s)) = s
           /\ SubSeq(s \o t, Len(s) + 1, Len(s \o t)) = t
           /\ Len(s) \in Nat /\ Len(t) \in Nat
           /\ Len(s \o t) = Len(s) + Len(t)
  OBVIOUS

\* What the thread has of a frame: the bytes from a delimiter on, and in
\* "handle" to the next one.
Partial ==
    /\ bs # << >> => IsDelimiter(bs[1])
    /\ rpc = "frame" => \A i \in 2..Len(bs) : ~IsDelimiter(bs[i])
    /\ rpc = "handle" =>
          /\ Len(bs) > 1
          /\ \A i \in 1..Len(bs) : IsDelimiter(bs[i]) <=> i \in {1, Len(bs)}

FrameInv == TypeOK /\ Places /\ Partial

LEMMA ReadKeepsPartial ==
    ASSUME FrameInv, ReadStart \/ ReadByte
    PROVE  Places' /\ Partial'
<1> USE DEF FrameInv
<1>1. /\ buf # << >> /\ buf' = Tail(buf) /\ port' = port /\ port = "open"
      /\ Head(buf) \in Byte
  BY TailFacts DEF ReadStart, ReadByte, TypeOK
<1>2. CASE ReadStart
  <2>1. <<Head(buf)>> # << >> /\ Len(<<Head(buf)>>) = 1
        /\ <<Head(buf)>>[1] = Head(buf)
    OBVIOUS
  <2>2. \/ bs' = << >> /\ rpc' = "start"
        \/ bs' = <<Head(buf)>> /\ rpc' = "frame" /\ IsDelimiter(Head(buf))
    BY <1>2 DEF ReadStart
  <2> QED
    BY <1>1, <2>1, <2>2 DEF Places, Partial
<1>3. CASE ReadByte
  <2> DEFINE b == Head(buf)
  <2>1. bs \in Seq(Byte) /\ bs # << >> /\ bs' = Append(bs, b)
    BY <1>3 DEF ReadByte, Places, TypeOK
  <2> HIDE DEF b
  <2>2. /\ Len(bs') = Len(bs) + 1 /\ bs'[Len(bs) + 1] = b
        /\ \A i \in 1..Len(bs) : bs'[i] = bs[i]
        /\ Len(bs) \in Nat \ {0}
    BY <1>1, <2>1, AppendFacts DEF b
  <2>3. rpc' = IF IsDelimiter(b) THEN "handle" ELSE "frame"
    BY <1>3 DEF ReadByte, b
  <2>4. IsDelimiter(bs'[1]) /\ bs' # << >>
    BY <2>1, <2>2 DEF Partial
  <2>5. \A i \in 2..Len(bs) : ~IsDelimiter(bs'[i])
    BY <1>3, <2>2 DEF Partial, ReadByte
  <2>6. CASE IsDelimiter(b)
    <3>1. \A i \in 1..Len(bs') : IsDelimiter(bs'[i]) <=> i \in {1, Len(bs')}
      BY <2>2, <2>4, <2>5, <2>6
    <3> QED
      BY <1>1, <2>2, <2>3, <2>4, <2>6, <3>1 DEF Places, Partial
  <2>7. CASE ~IsDelimiter(b)
    <3>1. \A i \in 2..Len(bs') : ~IsDelimiter(bs'[i])
      BY <2>2, <2>5, <2>7
    <3> QED
      BY <1>1, <2>3, <2>4, <2>7, <3>1 DEF Places, Partial
  <2> QED
    BY <2>6, <2>7
<1> QED
  BY <1>2, <1>3

LEMMA NextFrameInv == FrameInv /\ [Next]_vars => FrameInv'
<1> SUFFICES ASSUME FrameInv, [Next]_vars PROVE FrameInv'
  OBVIOUS
<1>0. TypeOK'
  BY NextTyped DEF FrameInv
<1>1. ASSUME NEW v \in Kinds, Transmit(v) PROVE Places' /\ Partial'
  BY <1>1 DEF Transmit, reader, FrameInv, Places, Partial
<1>2. CASE Opening \/ PortError
  BY <1>0, <1>2 DEF Opening, OpenPort, OpenPortRaises, StartReader, PortError,
     FrameInv, TypeOK, Places, Partial
<1>3. CASE ForwardFrame \/ LogFrame
  BY <1>0, <1>3 DEF ForwardFrame, LogFrame, FrameInv, TypeOK, Places, Partial
<1>4. CASE UNCHANGED vars
  BY <1>0, <1>4 DEF vars, reader, FrameInv, Places, Partial
<1>5. CASE ContinueFrame
  <2>1. Head(tx) \in Kinds
    BY <1>5, TailFacts DEF ContinueFrame, FrameInv, TypeOK
  <2> QED
    BY <1>0, <1>1, <1>5, <2>1 DEF ContinueFrame, FrameInv
<1>6. ASSUME NEW k \in BodyLengths, BeginFrame(k) PROVE FrameInv'
  BY <1>0, <1>1, <1>6 DEF BeginFrame, Kinds, FrameInv
<1> QED
  BY <1>0, <1>2, <1>3, <1>4, <1>5, <1>6, ReadKeepsPartial
     DEF Next, Opening, ReaderStep, FrameInv

LEMMA SameDelimiter == \A b : Framing!IsDelimiter(b) <=> IsDelimiter(b)
  BY DEF Framing!IsDelimiter, IsDelimiter

LEMMA TransmitSplits ==
    ASSUME FrameInv, NEW v \in Kinds, Transmit(v)
    PROVE  [Framing!Next]_<<bs \o buf, frames>>
<1>1. bs' = bs /\ frames' = frames
  BY DEF Transmit, reader
<1>2. CASE port # "open"
  BY <1>1, <1>2 DEF Transmit
<1>3. CASE port = "open"
  <2> DEFINE b == [n |-> sent + 1, v |-> v]
  <2>1. b \in Byte
    BY WireAssumption DEF FrameInv, TypeOK, Transmit, Byte
  <2>2. buf' = Append(buf, b)
    BY <1>3 DEF Transmit
  <2> HIDE DEF b
  <2>3. bs \o buf' = Append(bs \o buf, b)
    BY <2>1, <2>2, ConcatFacts DEF FrameInv, TypeOK
  <2>4. Framing!Receive(b)
    BY <1>1, <2>3 DEF Framing!Receive
  <2> QED
    BY <2>1, <2>4 DEF Framing!Next
<1> QED
  BY <1>2, <1>3

LEMMA ReadSplits ==
    ASSUME FrameInv, ReadStart \/ ReadByte
    PROVE  [Framing!Next]_<<bs \o buf, frames>>
<1> USE DEF FrameInv
<1>1. /\ buf # << >> /\ buf' = Tail(buf) /\ frames' = frames
      /\ buf \in Seq(Byte) /\ bs \in Seq(Byte) /\ Head(buf) \in Byte
      /\ Tail(buf) \in Seq(Byte)
  BY TailFacts DEF ReadStart, ReadByte, TypeOK
<1>2. CASE ReadByte
  <2>1. Append(bs, Head(buf)) \o Tail(buf) = bs \o buf
    BY <1>1, ConcatFacts
  <2> QED
    BY <1>1, <1>2, <2>1 DEF ReadByte
<1>3. CASE ReadStart
  <2>1. bs = << >> /\ bs \o buf = buf
    BY <1>1, <1>3, ConcatFacts DEF ReadStart, Places
  <2>2. CASE IsDelimiter(Head(buf))
    <3>1. bs' \o buf' = buf
      BY <1>1, <1>3, <2>2, ConcatFacts DEF ReadStart
    <3> QED
      BY <1>1, <2>1, <3>1
  <2>3. CASE ~IsDelimiter(Head(buf))
    <3>1. bs' = << >>
      BY <1>3, <2>3 DEF ReadStart
    <3>2. bs' \o buf' = Tail(buf)
      BY <1>1, <3>1, ConcatFacts
    <3>3. Framing!SkipNoise
      BY <1>1, <2>1, <2>3, <3>2, SameDelimiter DEF Framing!SkipNoise
    <3> QED
      BY <3>3 DEF Framing!Next
  <2> QED
    BY <2>2, <2>3
<1> QED
  BY <1>2, <1>3

LEMMA HandleSplits ==
    ASSUME FrameInv, ForwardFrame \/ LogFrame
    PROVE  [Framing!Next]_<<bs \o buf, frames>>
<1> USE DEF FrameInv
<1> DEFINE k == Len(bs)
<1>1. /\ rpc = "handle" /\ frames' = Append(frames, bs) /\ bs' = << >>
      /\ (buf' = buf \/ buf' = << >>)
      /\ buf \in Seq(Byte) /\ bs \in Seq(Byte)
  BY DEF ForwardFrame, LogFrame, TypeOK
<1>2. /\ SubSeq(bs \o buf, 1, k) = bs
      /\ SubSeq(bs \o buf, k + 1, Len(bs \o buf)) = buf
      /\ k \in 1..Len(bs \o buf)
  <2>1. k > 1
    BY <1>1 DEF Partial
  <2> QED
    BY <1>1, <2>1, SplitFacts
<1>3. bs' \o buf' = buf'
  <2>1. << >> \in Seq(Byte) /\ buf' \in Seq(Byte)
    BY <1>1, ShortSequences
  <2> QED
    BY <1>1, <2>1, ConcatEmpty
<1>4. Framing!IsFrame(bs)
  BY <1>1, SameDelimiter DEF Framing!IsFrame, Partial
<1>5. Framing!TakeFrame(k)
  BY <1>1, <1>2, <1>3, <1>4 DEF Framing!TakeFrame
<1> QED
  BY <1>2, <1>5 DEF Framing!Next

LEMMA NextSplits ==
    FrameInv /\ [Next]_vars => [Framing!Next]_<<bs \o buf, frames>>
<1> SUFFICES ASSUME FrameInv, [Next]_vars
             PROVE  [Framing!Next]_<<bs \o buf, frames>>
  OBVIOUS
<1>1. ASSUME NEW k \in BodyLengths, BeginFrame(k)
      PROVE  [Framing!Next]_<<bs \o buf, frames>>
  BY <1>1, TransmitSplits DEF BeginFrame, Kinds
<1>2. CASE ContinueFrame
  <2>1. Head(tx) \in Kinds
    BY <1>2, TailFacts DEF ContinueFrame, FrameInv, TypeOK
  <2> QED
    BY <1>2, <2>1, TransmitSplits DEF ContinueFrame
<1>3. CASE Opening \/ PortError
  BY <1>3 DEF Opening, OpenPort, OpenPortRaises, StartReader, PortError
<1>4. CASE UNCHANGED vars
  BY <1>4 DEF vars, reader
<1> QED
  BY <1>1, <1>2, <1>3, <1>4, ReadSplits, HandleSplits
     DEF Next, Opening, ReaderStep

\* Reading byte by byte while bytes arrive and are flushed, read_command cuts
\* the wire into frames as the abstract splitter does, whatever their lengths.
THEOREM FramingImplemented == Spec => ImplementsFraming
<1>1. Init => FrameInv
  BY InitTyped DEF Init, FrameInv, Places, Partial
<1>2. Init => Framing!Init
  <2>1. << >> \o << >> = << >>
    BY ShortSequences, ConcatEmpty
  <2> QED
    BY <2>1 DEF Init, Framing!Init
<1>3. Spec => []FrameInv
  BY <1>1, NextFrameInv, PTL DEF Spec
<1> QED
  BY <1>2, <1>3, NextSplits, PTL DEF Spec, Framing!Spec, ImplementsFraming
-----------------------------------------------------------------------------
(* The step of the reader                                                  *)

\* The next frame should begin as the last one did, the first one in step.
Expected == frames = << >> \/ InStep(frames[Len(frames)])

\* The next byte for the reader opens a frame of the peer.
NextOpens == IF buf = << >> THEN tx = << >> ELSE buf[1].v = "open"

\* What the peer has left of a frame is data and then the closing delimiter.
PeerInv ==
    \A i \in 1..Len(tx) :
        tx[i] # "open" /\ (tx[i] = "close" <=> i = Len(tx))

\* In the buffer an opening delimiter follows every closing one and no other
\* byte; after its last byte the peer begins a frame just if that one closes.
WireInv ==
    port = "open" =>
        /\ \A i \in 1..(Len(buf) - 1) :
                buf[i + 1].v = "open" <=> buf[i].v = "close"
        /\ buf # << >> => (buf[Len(buf)].v = "close" <=> tx = << >>)

\* Out of step, a frame is a closing delimiter and the opening one after it.
StepInv ==
    port = "open" =>
        /\ rpc \in {"off", "start"} /\ clean => (NextOpens <=> Expected)
        /\ rpc \in {"frame", "handle"} =>
              /\ NextOpens <=> bs[Len(bs)].v = "close"
              /\ clean => (InStep(bs) <=> Expected)
        /\ rpc = "frame" => (bs[Len(bs)].v = "close" <=> ~InStep(bs))
        /\ rpc = "handle" => (bs[Len(bs)].v = "close" <=> InStep(bs))

PhaseInv == FrameInv /\ FateInv /\ PeerInv /\ WireInv /\ StepInv

LEMMA TransmitKeepsPhase ==
    ASSUME PhaseInv, NEW v \in Kinds, Transmit(v),
           v = "open" <=> tx = << >>, v = "close" <=> tx' = << >>
    PROVE  WireInv' /\ StepInv'
<1> USE DEF PhaseInv, FrameInv
<1>1. UNCHANGED <<port, rpc, bs, frames, clean>> /\ sent' = sent + 1
  BY DEF Transmit, reader
<1>2. CASE port # "open"
  BY <1>1, <1>2 DEF WireInv, StepInv
<1>3. CASE port = "open"
  <2> DEFINE b == [n |-> sent + 1, v |-> v]
  <2>1. b \in Byte /\ b.v = v
    BY WireAssumption DEF TypeOK, Transmit, Byte
  <2>2. buf' = Append(buf, b)
    BY <1>3 DEF Transmit
  <2> HIDE DEF b
  <2>3. /\ Len(buf') = Len(buf) + 1 /\ buf'[Len(buf) + 1] = b
        /\ \A i \in 1..Len(buf) : buf'[i] = buf[i]
        /\ Len(buf) \in Nat
    BY <2>1, <2>2, AppendFacts DEF TypeOK
  <2>4. (Len(buf) > 0 <=> buf # << >>) /\ buf' # << >>
    BY <2>3 DEF TypeOK
  <2>5. WireInv'
    <3>1. \A i \in 1..Len(buf) : buf'[i + 1].v = "open" <=> buf'[i].v = "close"
      <4> SUFFICES ASSUME NEW i \in 1..Len(buf)
                   PROVE  buf'[i + 1].v = "open" <=> buf'[i].v = "close"
        OBVIOUS
      <4>1. CASE i = Len(buf)
        BY <4>1, <1>3, <2>1, <2>3, <2>4 DEF WireInv
      <4>2. CASE i # Len(buf)
        BY <4>2, <1>3, <2>3 DEF WireInv
      <4> QED
        BY <4>1, <4>2
    <3>2. buf'[Len(buf')].v = "close" <=> tx' = << >>
      BY <2>1, <2>3
    <3> QED
      BY <2>3, <3>1, <3>2 DEF WireInv
  <2>6. NextOpens' <=> NextOpens
    <3>1. CASE buf = << >>
      BY <3>1, <2>1, <2>3, <2>4, Len(<< >>) = 0 DEF NextOpens
    <3>2. CASE buf # << >>
      BY <3>2, <2>3, <2>4 DEF NextOpens
    <3> QED
      BY <3>1, <3>2
  <2>7. (Expected' <=> Expected) /\ (InStep(bs)' <=> InStep(bs))
    BY <1>1 DEF Expected, InStep
  <2> QED
    BY <1>1, <1>3, <2>5, <2>6, <2>7 DEF StepInv
<1> QED
  BY <1>2, <1>3

LEMMA ReadKeepsPhase ==
    ASSUME PhaseInv, ReadStart \/ ReadByte
    PROVE  WireInv' /\ StepInv'
<1> USE DEF PhaseInv, FrameInv
<1>1. /\ buf # << >> /\ buf' = Tail(buf) /\ port = "open"
      /\ UNCHANGED <<port, frames, clean, tx>>
  BY DEF ReadStart, ReadByte, TypeOK, peer
<1>2. /\ Len(buf) \in Nat \ {0} /\ Len(buf') = Len(buf) - 1
      /\ \A i \in 1..(Len(buf) - 1) : buf'[i] = buf[i + 1]
      /\ Head(buf) = buf[1] /\ Head(buf) \in Byte
      /\ buf' \in Seq(Byte)
  BY <1>1, TailFacts DEF TypeOK
<1>3. Len(buf') > 0 <=> buf' # << >>
  BY <1>2
<1>4. WireInv'
  BY <1>1, <1>2, <1>3 DEF WireInv
<1>5. NextOpens' <=> buf[1].v = "close"
  BY <1>1, <1>2, <1>3 DEF NextOpens, WireInv
<1>6. NextOpens <=> buf[1].v = "open"
  BY <1>1 DEF NextOpens
<1>7. buf[1].v \in Kinds /\ (Expected' <=> Expected)
  BY <1>1, <1>2 DEF Byte, Expected
<1>8. CASE ReadStart
  <2>1. rpc = "start" /\ (clean => (buf[1].v = "open" <=> Expected))
    BY <1>1, <1>6, <1>8 DEF ReadStart, StepInv
  <2>2. CASE IsDelimiter(buf[1])
    <3>1. rpc' = "frame" /\ bs' = <<buf[1]>>
      BY <1>2, <1>8, <2>2 DEF ReadStart
    <3>2. Len(bs') = 1 /\ bs'[1] = buf[1] /\ (InStep(bs)' <=> buf[1].v = "open")
      BY <3>1 DEF InStep
    <3>3. buf[1].v = "open" \/ buf[1].v = "close"
      BY <1>7, <2>2 DEF IsDelimiter, Kinds
    <3> QED
      BY <1>1, <1>4, <1>5, <1>7, <2>1, <3>1, <3>2, <3>3 DEF StepInv
  <2>3. CASE ~IsDelimiter(buf[1])
    <3>1. rpc' = "start"
      BY <1>2, <1>8, <2>3 DEF ReadStart
    <3>2. buf[1].v = "data"
      BY <2>3 DEF IsDelimiter
    <3> QED
      BY <1>1, <1>4, <1>5, <1>7, <2>1, <3>1, <3>2 DEF StepInv
  <2> QED
    BY <2>2, <2>3
<1>9. CASE ReadByte
  <2>1. bs \in Seq(Byte) /\ bs # << >> /\ bs' = Append(bs, buf[1])
    BY <1>2, <1>9 DEF ReadByte, Places, TypeOK
  <2>2. /\ Len(bs') = Len(bs) + 1 /\ bs'[Len(bs) + 1] = buf[1]
        /\ \A i \in 1..Len(bs) : bs'[i] = bs[i]
        /\ Len(bs) \in Nat \ {0}
    BY <1>2, <2>1, AppendFacts
  <2>3. bs'[Len(bs')] = buf[1] /\ (InStep(bs)' <=> InStep(bs))
    BY <2>2 DEF InStep
  <2>4. /\ rpc = "frame"
        /\ rpc' = IF buf[1].v = "data" THEN "frame" ELSE "handle"
    BY <1>2, <1>9 DEF ReadByte, IsDelimiter
  <2>5. /\ clean => (InStep(bs) <=> Expected)
        /\ buf[1].v = "open" <=> ~InStep(bs)
    BY <1>1, <1>6, <2>4 DEF StepInv
  <2>6. /\ rpc' = "frame" => buf[1].v = "data"
        /\ rpc' = "handle" => buf[1].v \in {"open", "close"}
    BY <1>7, <2>4 DEF Kinds
  <2> QED
    BY <1>1, <1>4, <1>5, <1>7, <2>3, <2>4, <2>5, <2>6 DEF StepInv
<1> QED
  BY <1>8, <1>9

LEMMA HandleKeepsPhase ==
    ASSUME PhaseInv, ForwardFrame \/ LogFrame
    PROVE  WireInv' /\ StepInv'
<1> USE DEF PhaseInv, FrameInv
<1>1. CASE ForwardFrame
  BY <1>1 DEF ForwardFrame, WireInv, StepInv, peer
<1>2. CASE LogFrame
  <2>1. /\ rpc = "handle" /\ port = "open" /\ frames' = Append(frames, bs)
        /\ buf' = << >> /\ (clean' <=> buf = << >>) /\ rpc' = "start"
        /\ UNCHANGED <<port, tx>>
    BY <1>2 DEF LogFrame, TypeOK, peer
  <2>2. /\ Len(frames') = Len(frames) + 1 /\ Len(frames) \in Nat
        /\ frames'[Len(frames) + 1] = bs
    <3>1. frames \in Seq(Seq(Byte)) /\ bs \in Seq(Byte)
      BY DEF TypeOK
    <3>2. /\ Len(Append(frames, bs)) = Len(frames) + 1
          /\ Append(frames, bs)[Len(frames) + 1] = bs
      BY <3>1, AppendFacts
    <3> QED
      BY <2>1, <3>1, <3>2
  <2>3. Expected' <=> InStep(bs)
    <3>1. frames' # << >>
      BY <2>2
    <3> QED
      BY <2>2, <3>1 DEF Expected, InStep
  <2>4. buf = << >> => (tx = << >> <=> InStep(bs))
    BY <2>1 DEF StepInv, NextOpens
  <2>5. NextOpens' <=> tx = << >>
    BY <2>1 DEF NextOpens
  <2> QED
    BY <2>1, <2>3, <2>4, <2>5 DEF WireInv, StepInv
<1> QED
  BY <1>1, <1>2

LEMMA NextPhase == PhaseInv /\ [Next]_vars => PhaseInv'
<1> SUFFICES ASSUME PhaseInv, [Next]_vars PROVE PhaseInv'
  OBVIOUS
<1>0. FrameInv' /\ FateInv'
  BY NextFrameInv, NextFate DEF PhaseInv
<1>1. ASSUME NEW k \in BodyLengths, BeginFrame(k) PROVE PhaseInv'
  <2>1. k \in Nat
    BY WireAssumption
  <2> DEFINE body == [i \in 1..k |-> "data"]
  <2>2. /\ body \in Seq(Kinds) /\ Len(body) = k
        /\ \A i \in 1..k : body[i] = "data"
    BY <2>1 DEF Kinds
  <2>3. tx' = Append(body, "close") /\ tx = << >> /\ Transmit("open")
    BY <1>1 DEF BeginFrame
  <2> HIDE DEF body
  <2>4. /\ Len(tx') = k + 1 /\ tx'[k + 1] = "close"
        /\ \A i \in 1..k : tx'[i] = "data"
    BY <2>2, <2>3, AppendFacts DEF Kinds
  <2>5. tx' # << >> /\ PeerInv'
    BY <2>1, <2>4 DEF PeerInv
  <2> QED
    BY <1>0, <2>3, <2>5, TransmitKeepsPhase DEF PhaseInv, Kinds
<1>2. CASE ContinueFrame
  <2>1. /\ tx # << >> /\ tx' = Tail(tx) /\ Transmit(Head(tx))
        /\ tx \in Seq(Kinds)
    BY <1>2 DEF ContinueFrame, PhaseInv, FrameInv, TypeOK
  <2>2. /\ Len(tx) \in Nat \ {0} /\ Len(tx') = Len(tx) - 1
        /\ \A i \in 1..(Len(tx) - 1) : tx'[i] = tx[i + 1]
        /\ Head(tx) = tx[1] /\ Head(tx) \in Kinds /\ tx' \in Seq(Kinds)
    BY <2>1, TailFacts
  <2>3. PeerInv' /\ Head(tx) # "open" /\ (Head(tx) = "close" <=> Len(tx) = 1)
    BY <2>2 DEF PhaseInv, PeerInv
  <2>4. tx' = << >> <=> Len(tx) = 1
    BY <2>2
  <2> QED
    BY <1>0, <2>1, <2>2, <2>3, <2>4, TransmitKeepsPhase DEF PhaseInv
<1>3. ASSUME NEW usb0 \in BOOLEAN, OpenPort(usb0) PROVE PhaseInv'
  <2>1. /\ port = "closed" /\ (clean' <=> tx = << >>)
        /\ UNCHANGED <<rpc, buf, bs, frames, tx>>
    BY <1>3 DEF OpenPort, peer
  <2>2. buf = << >> /\ Len(buf) = 0
    BY <2>1 DEF PhaseInv, FrameInv, Places
  <2>3. rpc = "off" /\ frames = << >>
    BY <2>1 DEF PhaseInv, FateInv
  <2> QED
    BY <1>0, <2>1, <2>2, <2>3
       DEF PhaseInv, PeerInv, WireInv, StepInv, NextOpens, Expected
<1>4. CASE OpenPortRaises \/ PortError
  BY <1>0, <1>4 DEF OpenPortRaises, PortError, PhaseInv, PeerInv, WireInv,
     StepInv, peer
<1>5. CASE StartReader
  BY <1>0, <1>5 DEF StartReader, PhaseInv, PeerInv, WireInv, StepInv,
     NextOpens, Expected, InStep, peer
<1>6. CASE ReaderStep
  <2>1. tx' = tx
    BY <1>6 DEF ReaderStep, ReadStart, ReadByte, ForwardFrame, LogFrame, peer
  <2>2. PeerInv'
    BY <2>1 DEF PhaseInv, PeerInv
  <2> QED
    BY <1>0, <1>6, <2>2, ReadKeepsPhase, HandleKeepsPhase
       DEF ReaderStep, PhaseInv
<1>7. CASE UNCHANGED vars
  BY <1>0, <1>7 DEF vars, reader, peer, PhaseInv, PeerInv, WireInv, StepInv,
     NextOpens, Expected, InStep
<1> QED
  BY <1>1, <1>2, <1>3, <1>4, <1>5, <1>6, <1>7 DEF Next

\* Whatever the lengths of the frames and wherever the reader begins: a frame
\* that is handled with no byte lost before it is in step just if the frame
\* before it was (read_command in rs422_interface.py).
THEOREM StepKeptHolds == Spec => StepKept
<1>1. Init => PhaseInv
  <2>1. Init => FrameInv
    BY InitTyped DEF Init, FrameInv, Places, Partial
  <2>2. Init => PeerInv /\ WireInv /\ StepInv
    BY DEF Init, PeerInv, WireInv, StepInv
  <2>3. Init => FateInv
    BY InitTyped DEF Init, FateInv, ReaderFate
  <2> QED
    BY <2>1, <2>2, <2>3 DEF PhaseInv
<1>2. PhaseInv /\ [Next]_vars =>
          [ Len(frames') > Len(frames) /\ clean =>
               (InStep(bs) <=>
                   frames = << >> \/ InStep(frames[Len(frames)])) ]_vars
  <2> SUFFICES ASSUME PhaseInv, Next, Len(frames') > Len(frames), clean
               PROVE  InStep(bs) <=> Expected
    BY DEF Expected
  <2>1. frames' # frames
    BY DEF PhaseInv, FrameInv, TypeOK
  <2>2. ForwardFrame \/ LogFrame
    BY <2>1 DEF Next, BeginFrame, ContinueFrame, Transmit, reader, OpenPort,
       OpenPortRaises, StartReader, ReaderStep, ReadStart, ReadByte, PortError
  <2>3. rpc = "handle"
    BY <2>2 DEF ForwardFrame, LogFrame
  <2> QED
    BY <2>3 DEF PhaseInv, FrameInv, TypeOK, StepInv
<1> QED
  BY <1>1, <1>2, NextPhase, PTL DEF Spec, StepKept
=============================================================================
