------------------------------ MODULE UnitStore ------------------------------
(***************************************************************************)
(* What the tables of the two unit models promise to a telecommand: every  *)
(* row is initialised exactly once, a unit is declared initialised only    *)
(* when all its rows are, and from then on a row changes only by the whole *)
(* effect of one access of one telecommand on the row's current value.     *)
(* There are no threads, no copies and no intermediate steps here; Semsim, *)
(* where a handler reads rows in some transactions and writes them back in *)
(* others while the main thread initialises the table, implements this.    *)
(***************************************************************************)
EXTENDS BcrServices

CONSTANT Telecommands

VARIABLES
    state,   \* state[u]: the STATE row of unit u, 0 or 1
    db       \* db[u][r]: the cell of row r of unit u

vars == <<state, db>>

Init ==
    /\ state = [u \in Units |-> 0]
    /\ db = [u \in Units |-> [r \in RowNames |-> Raw(r)]]

\* The one and only initialisation of a row.
InitialiseRow(u, r) ==
    /\ ~db[u][r].json
    /\ db' = [db EXCEPT ![u] = [@ EXCEPT ![r] = Json(DefaultRow(r))]]
    /\ UNCHANGED state

\* A unit is initialised once every one of its rows is.
Seal(u) ==
    /\ state[u] = 0
    /\ \A r \in RowNames : db[u][r].json
    /\ state' = [state EXCEPT ![u] = 1]
    /\ UNCHANGED db

\* One access of a telecommand, atomically on the current value.
Apply(tc, i) ==
    LET u == Unit(tc)
        r == Accesses(tc)[i]
    IN  /\ r \in RowNames
        /\ db[u][r].json
        /\ ~Fails(tc, i, db[u][r].val)
        /\ Stores(tc, db[u][r].val)
        /\ db' = [db EXCEPT ![u] =
                    [@ EXCEPT ![r] = Json(NewValue(tc, db[u][r].val))]]
        /\ UNCHANGED state

Next ==
    \/ \E u \in Units, r \in RowNames : InitialiseRow(u, r)
    \/ \E u \in Units : Seal(u)
    \/ \E tc \in Telecommands :
            \E i \in 1..Len(Accesses(tc)) : Apply(tc, i)

Spec == Init /\ [][Next]_vars
=============================================================================
