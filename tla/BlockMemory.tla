----------------------------- MODULE BlockMemory -----------------------------
(***************************************************************************)
(* What PUS 6 amounts to: each memory of a unit holds nothing, or one      *)
(* block at one address.  A command is executed on that block or refused.  *)
(* MemoryService, where a memory is a dictionary that is stored as a JSON  *)
(* text with keys that may occur twice, implements this.                   *)
(***************************************************************************)
EXTENDS BcrServices

VARIABLE held    \* held[m]: the block memory m holds

Nothing == [addr |-> "none", data |-> Absent]
At(a, x) == [addr |-> a, data |-> x]

\* A new address displaces the old one; an unhealthy block stays.
Load(m, a, x) ==
    /\ held[m] # At(a, Unhealthy)
    /\ held' = [held EXCEPT ![m] = At(a, x)]

Erase(m, a) ==
    /\ held[m].addr = a
    /\ held' = [held EXCEPT ![m] = At(a, Zeros)]

MarkUnhealthy(m, a) == held' = [held EXCEPT ![m] = At(a, Unhealthy)]

\* A COPY needs a block to copy and a block to replace, and heals the latter.
Copy(m, a, n, b) ==
    /\ held[m].addr = a /\ held[m].data # Unhealthy
    /\ held[n].addr = b
    /\ held' = [held EXCEPT ![n] = At(b, held[m].data)]

Init == held = [m \in MemIds |-> Nothing]

Next ==
    \E m \in MemIds, a \in Addr :
        \/ \E x \in Blocks \cup {EmptyBlock} : Load(m, a, x)
        \/ Erase(m, a)
        \/ MarkUnhealthy(m, a)
        \/ \E n \in MemIds, b \in Addr : Copy(m, a, n, b)

Spec == Init /\ [][Next]_held
=============================================================================
