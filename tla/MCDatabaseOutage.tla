-------------------------- MODULE MCDatabaseOutage ---------------------------
(***************************************************************************)
(* Commands that write one row, several rows, and nothing, for the model   *)
(* checking of DatabaseOutage.                                             *)
(***************************************************************************)
EXTENDS DatabaseOutage, MCSemsim

OutageDatagrams ==
    { Events(Nominal, 6, <<2560, 2561>>), Load(0, "a", "d1"),
      Function(Nominal, 513, "v1"), Housekeeping }
=============================================================================
