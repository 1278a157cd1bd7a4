----------------------------- MODULE ClientLink ------------------------------
(***************************************************************************)
(* A client script next to the SEMSIM process.  The scripts of tests/ send *)
(* a command from a new UDP socket, wait for a fixed number of packets on  *)
(* it, without a timeout, and then send the next command.  A datagram may  *)
(* be lost on its way, and it is lost when it meets a closed socket or a   *)
(* full buffer; packets on their way to the client may overtake each       *)
(* other.  What arrives at the socket of an earlier command is never read. *)
(***************************************************************************)
EXTENDS Semsim

CONSTANTS
    Script,   \* the commands of the script, each with its number of packets
    MaxLost   \* bound: datagrams lost on their way

\* A command carries the number of the socket it is sent from.
ASSUME ScriptAssumption ==
    /\ Script \in Seq([tc : Telecommands, packets : Nat \ {0}])
    /\ Script # << >>
    /\ \A i \in 1..Len(Script) : Script[i].tc.from = i

ASSUME LossAssumption == MaxLost \in Nat

VARIABLES
    cpc,    \* "send", "wait" in recvfrom, or "done"
    ci,     \* index into Script, and the number of the socket
    got,    \* packets received on this socket
    up,     \* commands on their way to the listener
    down,   \* packets on their way: [to : socket, n : place among the replies]
    lost    \* history: datagrams lost

client   == <<cpc, ci, got>>
link     == <<up, down, lost>>
linkVars == <<vars, client, link>>

-----------------------------------------------------------------------------
(* The SEMSIM process                                                      *)

\* The packet that a step of the listener sends, if it does.
Emitted ==
    IF Len(replies') > Len(replies)
    THEN { [to |-> tc.from, n |-> Len(replies')] } ELSE {}

ProcessStep ==
    /\ \/ MainStep \/ ListenerStep \/ Crash \/ Restart
       \/ \E v \in {"0", "1"} : ControlRtos(v)
    /\ down' = down \cup Emitted
    /\ UNCHANGED <<client, up, lost>>

-----------------------------------------------------------------------------
(* The link                                                                *)

Arrive(i) ==
    /\ Send(Script[i].tc)
    /\ up' = up \ {i}
    /\ UNCHANGED <<client, down, lost>>

\* No socket is bound to the port, or its buffer is full.
Refused(i) ==
    /\ ~SocketOpen \/ Len(inbox) = QueueBound
    /\ up' = up \ {i}
    /\ lost' = lost + 1
    /\ UNCHANGED <<vars, client, down>>

LoseCommand(i) ==
    /\ lost < MaxLost
    /\ up' = up \ {i}
    /\ lost' = lost + 1
    /\ UNCHANGED <<vars, client, down>>

LosePacket(p) ==
    /\ lost < MaxLost
    /\ down' = down \ {p}
    /\ lost' = lost + 1
    /\ UNCHANGED <<vars, client, up>>

-----------------------------------------------------------------------------
(* The client                                                              *)

\* send_message, with a socket of its own.
ClientSend ==
    /\ cpc = "send"
    /\ cpc' = "wait"
    /\ up' = up \cup {ci}
    /\ UNCHANGED <<vars, ci, got, down, lost>>

\* Mutant: one packet less is waited for.
ClientReceive_OneShort(p) ==
    /\ cpc = "wait" /\ p.to = ci
    /\ down' = down \ {p}
    /\ IF got + 2 >= Script[ci].packets
       THEN /\ got' = 0 /\ ci' = ci + 1
            /\ cpc' = IF ci = Len(Script) THEN "done" ELSE "send"
       ELSE got' = got + 1 /\ UNCHANGED <<cpc, ci>>
    /\ UNCHANGED <<vars, up, lost>>

\* expecting_ack on the socket of the command, for i in [0, 1, ...].  What the
\* packet says is decoded and not looked at.
ClientReceive(p) ==
    /\ cpc = "wait" /\ p.to = ci
    /\ down' = down \ {p}
    /\ IF got + 1 = Script[ci].packets
       THEN /\ got' = 0 /\ ci' = ci + 1
            /\ cpc' = IF ci = Len(Script) THEN "done" ELSE "send"
       ELSE got' = got + 1 /\ UNCHANGED <<cpc, ci>>
    /\ UNCHANGED <<vars, up, lost>>

-----------------------------------------------------------------------------
LinkInit ==
    /\ Init
    /\ cpc = "send" /\ ci = 1 /\ got = 0
    /\ up = {} /\ down = {} /\ lost = 0

LinkNext ==
    \/ ProcessStep
    \/ \E i \in up : Arrive(i) \/ Refused(i) \/ LoseCommand(i)
    \/ \E p \in down : LosePacket(p) \/ ClientReceive(p)
    \/ ClientSend

LinkSpec == LinkInit /\ [][LinkNext]_linkVars

\* The threads run as in Semsim, the client goes on when it can, and what is
\* not lost arrives.
LinkFairness ==
    /\ WF_linkVars(ProcessStep /\ MainStep)
    /\ WF_linkVars(ProcessStep /\ ListenerStep)
    /\ WF_linkVars(ClientSend)
    /\ WF_linkVars(\E i \in up : Arrive(i) \/ Refused(i))
    /\ WF_linkVars(\E p \in down : ClientReceive(p))

FairLinkSpec == LinkSpec /\ LinkFairness

-----------------------------------------------------------------------------
(* Properties                                                              *)

\* The most packets that a telecommand is answered with: the acceptance
\* report, the completion report of an implemented service, and one report of
\* the subtypes that ask for one (cmd_processing drops those of subtype 0).
MostPackets(d) ==
    CASE d.type \notin Implemented -> 1
      [] d.type = 5 /\ d.subtype = 7 -> 3
      [] d.type = 6 /\ d.subtype \in {5, 9, 130} -> 3
      [] OTHER -> 2

\* The script waits at least for these, or for exactly these.
CountsSuffice ==
    \A i \in 1..Len(Script) : Script[i].packets >= MostPackets(Script[i].tc)
CountsExact ==
    \A i \in 1..Len(Script) : Script[i].packets = MostPackets(Script[i].tc)

Handling == lpc \in {"ack", "read", "body", "send"}

\* The numbers of packets that the script waits for are right: it never sends
\* a command while the listener still works on the one before, which would
\* change the tables under it and mix the answers up.
NoOverlap ==
    /\ up \subseteq {ci}
    /\ \A i \in 1..Len(inbox) : inbox[i].from = ci
    /\ Handling => tc.from = ci /\ cpc = "wait"

\* The command was taken before its unit was initialised.
Early == tc # NoTc /\ tc.from = ci /\ ~ready

\* Nothing will ever reach the waiting client any more.
Blocked ==
    /\ cpc = "wait"
    /\ up = {} /\ inbox = << >>
    /\ { p \in down : p.to = ci } = {}
    /\ lpc \in {"recv", "done", "dead", "off"}

\* The client blocks for ever only by a lost datagram, by a command that came
\* too early, or because the listener has ended.
BlockedHasCause ==
    Blocked => lost > 0 \/ Early \/ lpc \in {"done", "dead", "off"}

\* But for these causes, a client that waits gets all its packets.
ClientGoesOn ==
    cpc = "wait" ~> \/ cpc # "wait"
                    \/ lost > 0 \/ Early \/ lpc \in {"done", "dead", "off"}
=============================================================================
