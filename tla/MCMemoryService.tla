--------------------------- MODULE MCMemoryService ---------------------------
(***************************************************************************)
(* PUS 6 commands on two memories and two addresses for TLC.  The long     *)
(* block fits the row once and not twice; the longest one just fits alone, *)
(* and the huge one not even so.                                           *)
(***************************************************************************)
EXTENDS MemoryService

MCAddr   == {"a", "b"}
MCBlocks == {"short", "long", "longest", "huge"}
MCText   == [x \in MCBlocks |->
                CASE x = "short"   -> 18
                  [] x = "long"    -> 2100
                  [] x = "longest" -> 3994
                  [] x = "huge"    -> 4000]

Command(sub, m, a, x, m2, a2, healthy, numeric) ==
    [apid |-> 10, type |-> 6, subtype |-> sub, memoryId |-> m,
     StartAddress |-> a, dataToLoad |-> x, dstMemoryId |-> m2,
     dstAddress |-> a2, healthy |-> healthy, numeric |-> numeric]

Load0(a, x, numeric) == Command(2, 0, a, x, 0, "a", 0, numeric)
At(sub, m, a) == Command(sub, m, a, EmptyBlock, 0, "a", 0, TRUE)

MCCommands ==
    { Load0("a", x, TRUE) : x \in MCBlocks \cup {EmptyBlock} }
    \cup { Load0("a", "long", FALSE), Load0("b", "short", TRUE),
           Command(2, 1, "a", "short", 0, "a", 0, TRUE),
           Command(128, 0, "a", EmptyBlock, 1, "a", 0, TRUE),
           Command(128, 1, "a", EmptyBlock, 0, "a", 0, FALSE),
           Command(128, 0, "b", EmptyBlock, 0, "a", 0, TRUE) }
    \cup { At(sub, 0, "a") : sub \in {5, 9, 129, 130, 132} }
    \cup { At(132, 1, "b"), Command(132, 0, "a", EmptyBlock, 0, "a", 1, TRUE),
           At(5, 7, "a"), Command(128, 0, "a", EmptyBlock, 9, "a", 0, TRUE) }
=============================================================================
