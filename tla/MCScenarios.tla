----------------------------- MODULE MCScenarios -----------------------------
(***************************************************************************)
(* Several small environments of Semsim in one model: a behaviour picks a  *)
(* scenario and keeps to it, so that the commands of one service meet each *)
(* other, the initialisation, and as many kills and operator writes as the *)
(* scenario allows, without the product of all services.                   *)
(***************************************************************************)
EXTENDS MCSemsim

CONSTANT Scenarios   \* name -> its datagrams and its bounds

VARIABLE scenario

Scenario(datagrams, queue, controlWrites, kills) ==
    [datagrams |-> datagrams, queue |-> queue, controls |-> controlWrites,
     crashes |-> kills]

ScenarioInit == Init /\ scenario \in DOMAIN Scenarios

ScenarioNext ==
    /\ Next
    /\ LET bound == Scenarios[scenario]
       IN  /\ inbox' \in Seq(bound.datagrams) /\ Len(inbox') <= bound.queue
           /\ controls' <= bound.controls
           /\ crashes' <= bound.crashes
    /\ UNCHANGED scenario

ScenarioSpec == ScenarioInit /\ [][ScenarioNext]_<<vars, scenario>>

\* Neither thread nor the restart is held up by a scenario's bounds.
FairScenarioSpec == ScenarioSpec /\ Fairness

-----------------------------------------------------------------------------
\* PUS 8 writes a row of PUS 5, and PUS 20 reads it.
SharedRowDatagrams ==
    ServiceDatagrams
        \cup { Events(Nominal, 6, <<2560>>), Events(Nominal, 7, << >>) }

\* The events with a kill and an operator.
ServiceScenarios ==
    [ events   |-> Scenario(EventDatagrams, 1, 1, 1),
      memory   |-> Scenario(MemoryDatagrams, 1, 0, 0),
      services |-> Scenario(SharedRowDatagrams, 1, 0, 0) ]

ServiceScenarioDatagrams ==
    EventDatagrams \cup MemoryDatagrams \cup SharedRowDatagrams

\* Start and stop, and a CHANGE HEALTH that stores the memory row unseen.
LifecycleScenarios ==
    [ lifecycle |-> Scenario(LifecycleDatagrams, 2, 2, 1),
      unseen    |-> Scenario(UnseenDatagrams, 2, 1, 1) ]

LifecycleScenarioDatagrams == LifecycleDatagrams \cup UnseenDatagrams
=============================================================================
