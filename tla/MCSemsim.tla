------------------------------ MODULE MCSemsim -------------------------------
(***************************************************************************)
(* Small sets of datagrams for the model checking of Semsim and of what    *)
(* its clients expect.                                                     *)
(***************************************************************************)
EXTENDS SemsimClients

MCAddr   == {"a", "b"}
MCBlocks == {"d1", "d2"}
MCArg    == {"v1", "v2", "v3"}

\* Block d2 fits the Memory row once and not twice; argument v3 is a number of
\* so many digits that it does not fit the systemMgr row.
MCText ==
    [x \in MCBlocks \cup MCArg |->
        CASE x = "d1" -> 18
          [] x = "d2" -> 2100
          [] x = "v1" -> 1
          [] x = "v2" -> 10
          [] x = "v3" -> 2100]

BothModels == <<"bcr_nominal", "bcr_redundant">>
OneModel   == <<"bcr_nominal">>

Empty   == [form |-> "empty"]
Garbled == [form |-> "garbled"]

Nominal   == 10
Redundant == 16

Events(apid, sub, list) ==
    [form |-> "tc", apid |-> apid, type |-> 5, subtype |-> sub,
     EventId |-> list]

MemoryCommand(sub, m, a, data, m2, a2, healthy) ==
    [form |-> "tc", apid |-> Nominal, type |-> 6, subtype |-> sub,
     memoryId |-> m, StartAddress |-> a, dataToLoad |-> data,
     dstMemoryId |-> m2, dstAddress |-> a2, healthy |-> healthy,
     numeric |-> TRUE]

Load(m, a, data)     == MemoryCommand(2, m, a, data, 0, "a", 0)
Dump(m, a)           == MemoryCommand(5, m, a, EmptyBlock, 0, "a", 0)
CheckMem(m, a)       == MemoryCommand(9, m, a, EmptyBlock, 0, "a", 0)
Copy(m, a, m2, a2)   == MemoryCommand(128, m, a, EmptyBlock, m2, a2, 0)
Erase(m, a)          == MemoryCommand(129, m, a, EmptyBlock, 0, "a", 0)
ReportMem(m, a)      == MemoryCommand(130, m, a, EmptyBlock, 0, "a", 0)
Health(m, a, h)      == MemoryCommand(132, m, a, EmptyBlock, 0, "a", h)

Function(apid, fun, arg) ==
    [form |-> "tc", apid |-> apid, type |-> 8, subtype |-> 1,
     funId |-> fun, argValues |-> arg]

Versions(apid, sub, ids) ==
    [form |-> "tc", apid |-> apid, type |-> 17, subtype |-> sub,
     VersionedItemIds |-> ids]

Parameters(apid, ids) ==
    [form |-> "tc", apid |-> apid, type |-> 20, subtype |-> 1,
     paramId |-> ids]

Housekeeping == [form |-> "tc", apid |-> Redundant, type |-> 2, subtype |-> 1]

-----------------------------------------------------------------------------
EventDatagrams ==
    { Events(Nominal, 5, <<2560>>), Events(Nominal, 6, <<2561, 7, 2560>>),
      Events(Nominal, 7, << >>), Events(Redundant, 6, <<2560>>), Empty }

MemoryDatagrams ==
    { Load(0, "a", "d1"), Load(0, "b", EmptyBlock), Copy(0, "b", 0, "a"),
      Copy(0, "a", 1, "a"), Load(1, "a", "d2"), Health(0, "a", 0),
      Health(1, "b", 0), Erase(0, "a"), ReportMem(0, "a"), Dump(0, "a"),
      CheckMem(0, "b"), Dump(5, "a") }

\* A late CHANGE HEALTH to healthy, next to a command that needs the memory.
UnseenDatagrams == { Health(0, "a", 1), Load(0, "a", "d1") }

LifecycleDatagrams == { Events(Nominal, 5, <<7, 2560>>), Garbled }

TestDumpDatagrams ==
    { Load(0, "a", "d1"), Dump(0, "a"), Health(0, "a", 0) }

TestParameterDatagrams == { Parameters(Redundant, <<2583, 2584>>) }

ServiceDatagrams ==
    { Function(Nominal, 513, "v1"), Function(Nominal, 514, "v2"),
      Function(Redundant, 514, "v3"), Versions(Nominal, 128, <<1, 2>>),
      Parameters(Nominal, <<2560, 2590>>),
      Parameters(Redundant, <<2585>>), Housekeeping, Garbled }
=============================================================================
