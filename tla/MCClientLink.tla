---------------------------- MODULE MCClientLink -----------------------------
(***************************************************************************)
(* Scripts for the model checking of ClientLink: commands of the client    *)
(* scripts, each with the packets they wait for.                           *)
(***************************************************************************)
EXTENDS ClientLink, MCSemsim, TLC

Command(command, n) == [tc |-> command, packets |-> n]

\* Each command is sent from a socket of its own.
FromOwnSocket(script) ==
    [i \in 1..Len(script) |->
        [script[i] EXCEPT !.tc = @ @@ [from |-> i]]]

\* tests/test_bcr_memory_management_PUS6.py, the whole of it.
MemoryScript ==
    << Command(Load(0, "a", "d1"), 2), Command(Dump(0, "a"), 3),
       Command(CheckMem(0, "a"), 3), Command(Copy(0, "a", 1, "b"), 2),
       Command(Erase(0, "a"), 2), Command(Dump(0, "a"), 3),
       Command(ReportMem(0, "a"), 3), Command(Health(0, "a", 0), 2) >>

\* Commands of test_bcr_event_reporting_PUS5.py (with the counts it has in its
\* comments) and of tests/test_bcr_function_management_PUS8.py.
MixedScript ==
    << Command(Events(Nominal, 6, <<2560>>), 2),
       Command(Events(Nominal, 7, << >>), 3),
       Command(Function(Nominal, 513, "v1"), 2),
       Command(Function(Nominal, 514, "v2"), 2) >>

\* One after the other.
MCScript == FromOwnSocket(MixedScript \o MemoryScript)

\* The theorems about ClientLink are about scripts like this one.
ASSUME MCCountsAssumption == CountsSuffice /\ CountsExact

MCScriptDatagrams == { MCScript[i].tc : i \in 1..Len(MCScript) }
=============================================================================
