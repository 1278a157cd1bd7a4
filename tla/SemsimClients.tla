---------------------------- MODULE SemsimClients ----------------------------
(***************************************************************************)
(* What the client scripts of the repository and its deployment expect of  *)
(* the SEMSIM process, stated as the scripts and the compose file do.      *)
(* A script sends a command and then blocks until it has received a fixed  *)
(* number of packets, so a missing packet stops it for ever.  Semsim does  *)
(* not meet these expectations: a run of TLC shows how each one fails.     *)
(***************************************************************************)
EXTENDS Semsim

\* The listener will send nothing more for the telecommand it took last.
Over == tc # NoTc /\ lpc \in {"check", "recv", "done", "dead"}

\* tests/test_bcr_memory_management_PUS6.py reads two packets, acceptance and
\* completion, for every command (lines 154-158): a command that completes
\* has been accepted.
AcceptedBeforeCompleted == Over /\ Sent(DoneOk) # {} => Sent(AckOk) # {}

\* The same script reads three packets for every DUMP (lines 149-153), here of
\* an address that the memory holds.
DumpGetsThreePackets ==
    Over /\ ready /\ tc.type = 6 /\ tc.subtype = 5
         /\ Holds(Row("Memory").val, tc.memoryId, tc.StartAddress)
    => Len(replies) = 3

\* The same script reads two packets for every LOAD (lines 154-158).
LoadGetsTwoPackets ==
    Over /\ ready /\ tc.type = 6 /\ tc.subtype = 2 => Len(replies) = 2

\* test_bcr_onboard_param_management_PUS20.py line 7 lists the parameters of a
\* unit, range(2560, 2602): a request for listed parameters is completed.
ListedParametersCompleted ==
    Over /\ ready /\ tc.type = 20 /\ tc.subtype = 1
         /\ (\A i \in 1..Len(tc.paramId) : tc.paramId[i] \in 2560..2601)
    => Sent(DoneOk) # {}

\* docker-compose-paysim.yaml line 32, "restart: unless-stopped": a process
\* that was killed is brought back to its loop.
RestartRecovers == mpc = "down" ~> mpc = "loop"
=============================================================================
