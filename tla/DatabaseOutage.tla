---------------------------- MODULE DatabaseOutage ----------------------------
(***************************************************************************)
(* Semsim with a database server that refuses connections or stops, and    *)
(* comes back.  db_manager.py opens a connection for every call and        *)
(* catches nothing, so a call fails while the server is away.  The two     *)
(* polls of activate use a connection that each thread keeps open; a stop  *)
(* of the server breaks it for good.  A write that commits just before the *)
(* server goes is a step of Semsim followed by DbGone.                     *)
(***************************************************************************)
EXTENDS Semsim

CONSTANT MaxOutages   \* bound: times that the server goes away

ASSUME OutagesAssumption == MaxOutages \in Nat

VARIABLES
    up,      \* the server takes connections
    broken,  \* the threads whose open connection a stop of the server broke
    outages

outageVars == <<up, broken, outages>>

\* too many clients: the open connections go on; or a stop: they break.
DbGone ==
    /\ up /\ outages < MaxOutages
    /\ up' = FALSE
    /\ outages' = outages + 1
    /\ broken' \in { broken, {"main", "listener"} }
    /\ UNCHANGED vars

DbBack ==
    /\ ~up
    /\ up' = TRUE
    /\ UNCHANGED <<vars, broken, outages>>

-----------------------------------------------------------------------------
(* The main thread                                                         *)

\* All its states but these use the database, through a connection of their
\* own; in "loop" it is the open one, which it opens in "spawn".
MainCan ==
    CASE mpc = "loop" -> "main" \notin broken
      [] mpc = "unit" -> mi <= Len(Models) => up
      [] mpc \in {"join", "stopped", "down"} -> TRUE
      [] OTHER -> up

MainGoesOn ==
    /\ MainCan
    /\ MainStep
    /\ broken' = IF mpc = "spawn" THEN broken \ {"main"} ELSE broken
    /\ UNCHANGED <<up, outages>>

\* Mutant: a failed write of a row is ignored.
MainFails_IgnoresRow ==
    /\ ~MainCan
    /\ mpc' = CASE mpc = "row" /\ ri = Len(InitOrder) -> "flag"
                [] mpc = "row" /\ ri < Len(InitOrder) -> "row"
                [] mpc # "row" /\ lpc = "off" -> "down"
                [] OTHER -> "join"
    /\ ri' = IF mpc = "row" /\ ri < Len(InitOrder) THEN ri + 1 ELSE ri
    /\ UNCHANGED <<dbVars, mi, listener, bounds, outageVars>>

\* The exception ends the main thread.  Without a listener that is the end of
\* the process; else the interpreter waits for the listener, as join does.
MainFails ==
    /\ ~MainCan
    /\ mpc' = IF lpc = "off" THEN "down" ELSE "join"
    /\ UNCHANGED <<dbVars, mi, ri, listener, bounds, outageVars>>

-----------------------------------------------------------------------------
(* The listener thread                                                     *)

Writes == InBody /\ Accesses(tc)[pos] # "none" /\ ~Raises
                 /\ Stores(tc, dict[Accesses(tc)[pos]].val)

\* In "check" it uses the open connection, which it opens in "connect".
ListenerCan ==
    /\ lpc = "connect" => up
    /\ lpc = "check" => "listener" \notin broken
    /\ lpc \in {"ack", "read"} => up
    /\ lpc = "body" /\ (Writes \/ pos > Len(Accesses(tc))) => up

ListenerGoesOn ==
    /\ ListenerCan
    /\ ListenerStep
    /\ broken' = IF lpc = "connect" THEN broken \ {"listener"} ELSE broken
    /\ UNCHANGED <<up, outages>>

\* Mutant: the exception is not caught.
AckFails_Uncaught ==
    /\ lpc = "ack" /\ ~up
    /\ Die
    /\ UNCHANGED <<dbVars, mainVars, handler, late, bounds, outageVars>>

\* cmd_ack_generator catches the exception: the command is handled without an
\* acceptance report.
AckFails ==
    /\ lpc = "ack" /\ ~up
    /\ lpc' = IF tc.type \in Implemented THEN "read" ELSE "check"
    /\ UNCHANGED <<dbVars, mainVars, inbox, handler, late, bounds, outageVars>>

\* Mutant: a failed write of a handler is ignored.
ListenerFails_IgnoresWrite ==
    /\ ~ListenerCan /\ lpc # "ack"
    /\ IF Writes
       THEN pos' = pos + 1 /\ UNCHANGED <<lpc, inbox>>
       ELSE Die /\ UNCHANGED pos
    /\ UNCHANGED <<dbVars, mainVars, tc, ready, dict, outgoing, replies, late,
                   bounds, outageVars>>

\* Everywhere else it ends the thread.
ListenerFails ==
    /\ ~ListenerCan /\ lpc # "ack"
    /\ Die
    /\ UNCHANGED <<dbVars, mainVars, handler, late, bounds, outageVars>>

-----------------------------------------------------------------------------
(* The environment, which needs the server for control_rtos.               *)

Environment ==
    /\ \/ \E d \in Datagrams : Send(d)
       \/ up /\ \E v \in {"0", "1"} : ControlRtos(v)
       \/ Crash
       \/ Restart
    /\ UNCHANGED outageVars

OutageInit == Init /\ up = TRUE /\ broken = {} /\ outages = 0

OutageNext ==
    \/ DbGone \/ DbBack
    \/ MainGoesOn \/ MainFails
    \/ ListenerGoesOn \/ AckFails \/ ListenerFails
    \/ Environment

OutageSpec == OutageInit /\ [][OutageNext]_<<vars, outageVars>>

-----------------------------------------------------------------------------
(* Properties                                                              *)

\* A completion report is only sent for a command whose effect is in the
\* tables: the report reads its own row after the writes, so no failed write
\* of a handler is ever reported as done, and nothing undoes the effect before
\* the next command.  The effect is there when the command would change
\* nothing any more.
DoneMeansStored ==
    Sent(DoneOk) # {} =>
        \A i \in 1..Len(Accesses(tc)) :
            LET r == Accesses(tc)[i]
            IN  r # "none" /\ Row(r).json /\ Stores(tc, Row(r).val) =>
                    Row(r).val = NewValue(tc, Row(r).val)

\* The listener ends for the causes that DeathHasCause names, or when the
\* server was away at a call of its own, the connection it opens before its
\* loop included, or has broken its open connection: an outage that it does not
\* meet leaves it alone.
OutageDeathHasCause ==
    [][ lpc' = "dead" /\ lpc # "dead" =>
            \/ DeathCause
            \/ lpc \in {"connect", "read", "body"} /\ ~up
            \/ lpc = "check" /\ "listener" \in broken ]_<<vars, outageVars>>
=============================================================================
