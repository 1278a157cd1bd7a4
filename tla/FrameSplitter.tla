---------------------------- MODULE FrameSplitter ----------------------------
(***************************************************************************)
(* What the framing of the serial bridge promises: of the bytes that have  *)
(* arrived, those before a delimiter are noise, and the bytes from a       *)
(* delimiter to the next one are a frame.  A byte can only be lost when it *)
(* follows a frame that is being taken.  Rs422Reader, which collects a     *)
(* frame byte by byte while more bytes arrive, implements this.            *)
(***************************************************************************)
EXTENDS Naturals, Sequences

CONSTANT Byte     \* records with a field v; all but "data" are delimiters

VARIABLES
    pending,   \* bytes that have arrived and belong to no frame yet
    frames     \* the frames taken so far

IsDelimiter(b) == b.v # "data"

IsFrame(f) ==
    /\ Len(f) > 1
    /\ \A i \in 1..Len(f) : IsDelimiter(f[i]) <=> i \in {1, Len(f)}

Receive(b) ==
    /\ pending' = Append(pending, b)
    /\ UNCHANGED frames

SkipNoise ==
    /\ pending # << >>
    /\ ~IsDelimiter(Head(pending))
    /\ pending' = Tail(pending)
    /\ UNCHANGED frames

TakeFrame(k) ==
    /\ IsFrame(SubSeq(pending, 1, k))
    /\ frames' = Append(frames, SubSeq(pending, 1, k))
    /\ pending' \in {SubSeq(pending, k + 1, Len(pending)), << >>}

Init == pending = << >> /\ frames = << >>

Next ==
    \/ \E b \in Byte : Receive(b)
    \/ SkipNoise
    \/ \E k \in 1..Len(pending) : TakeFrame(k)

Spec == Init /\ [][Next]_<<pending, frames>>
=============================================================================
