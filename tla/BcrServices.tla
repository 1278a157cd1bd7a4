----------------------------- MODULE BcrServices -----------------------------
(***************************************************************************)
(* The PUS services of the two BCR unit models (units/bcr.py), as pure     *)
(* operators: which rows of the unit's table a handler reads, which rows   *)
(* its body then accesses and in which order, when the body raises, what   *)
(* it stores and what it reports.  Semsim runs a handler step by step with *)
(* these operators, one database transaction at a time.                    *)
(*                                                                         *)
(* A row of a unit's table is a varchar.  The database is filled with the  *)
(* integer 0 in every row, so a row that its unit model has not written    *)
(* yet decodes to an int, and every subscript of it raises TypeError.  A   *)
(* cell is [json, val]: json says whether the row holds the JSON of a      *)
(* dictionary; val is that dictionary, and is not looked at before.        *)
(***************************************************************************)
EXTENDS Naturals, Sequences, FiniteSetsExt

CONSTANTS
    Addr,    \* memory addresses, the StartAddress of a PUS 6 command
    Blocks,  \* non-empty byte lists that a command can load
    Arg,     \* argument values of a PUS 8 function
    Text,    \* Text[x]: length of the JSON text of a block or an argument
    KeyText  \* length of the text of an address

EmptyBlock == "[]"      \* the byte list of length 0
Zeros      == "zeros"   \* [0, 0, 0, 0], what ERASE writes
Unhealthy  == "X"       \* the mark CHANGE HEALTH writes in place of the data
Absent     == "absent"  \* the address is not a key of the memory

ASSUME BlocksAssumption ==
    Blocks \cap {EmptyBlock, Zeros, Unhealthy, Absent} = {}

\* The shortest list that is not empty is "[0]".
ASSUME TextAssumption ==
    /\ Text \in [Blocks \cup Arg -> Nat] /\ KeyText \in Nat
    /\ \A x \in Blocks : Text[x] > 2

Data == Blocks \cup {EmptyBlock, Zeros, Unhealthy, Absent}

Unset == "unset"        \* a key PUS 8 has not added to ONBOARD_PARAMETERS yet

Units == {"bcr_nominal", "bcr_redundant"}

\* Only APID 0x0A is the nominal unit; every other APID is the redundant one.
Unit(tc) == IF tc.apid = 10 THEN "bcr_nominal" ELSE "bcr_redundant"

-----------------------------------------------------------------------------
(* The rows of a unit's table, in the order the unit model writes them.    *)

InitOrder == << "systemMgr", "comMgr", "fdirMgr", "solarArraysMgr",
                "acceptanceVerificationReport",
                "completionOfExecVerificationReport", "Memory" >>

RowNames == { "systemMgr", "comMgr", "fdirMgr", "solarArraysMgr",
              "acceptanceVerificationReport",
              "completionOfExecVerificationReport", "Memory" }

MemIds == 0..3   \* Mem_Dict: swdb, dataFRAM, programFRAM, MAX

MemoryValues == [MemIds -> [Addr -> Data]]

\* The dictionaries that row r can hold.
RowValues(r) ==
    CASE r = "systemMgr" -> [ev : BOOLEAN, mode : Arg \cup {Unset},
                             obt : Arg \cup {Unset}]
      [] r = "fdirMgr"   -> [ev : BOOLEAN]
      [] r = "Memory"    -> MemoryValues
      [] r \in {"acceptanceVerificationReport",
                "completionOfExecVerificationReport"} -> [failed : BOOLEAN]
      [] OTHER           -> {"default"}

\* A verification row: of its contents only the failure code is looked at.
NoFailure == [failed |-> FALSE]

\* The dictionary a unit model puts in row r when it initialises its table.
DefaultRow(r) ==
    CASE r = "systemMgr" -> [ev |-> TRUE, mode |-> Unset, obt |-> Unset]
      [] r = "fdirMgr"   -> [ev |-> FALSE]
      [] r = "Memory"    -> [m \in MemIds |-> [a \in Addr |-> Absent]]
      [] r \in {"acceptanceVerificationReport",
                "completionOfExecVerificationReport"} -> NoFailure
      [] OTHER           -> "default"

Raw(r)  == [json |-> FALSE, val |-> DefaultRow(r)]
Json(v) == [json |-> TRUE, val |-> v]

Cells(r) == [json : BOOLEAN, val : RowValues(r)]

-----------------------------------------------------------------------------
(* Telecommands.  A telecommand has an apid, a type and a subtype, and the *)
(* fields of its JSON body, which depend on the service type.  A field     *)
(* that may be a number or a list is a sequence here.                      *)

Implemented == {5, 6, 8, 17, 20}    \* the cases of cmd_processing

WellFormed(tc) ==
    /\ tc.apid \in 0..2047 /\ tc.type \in 0..255 /\ tc.subtype \in 0..255
    /\ tc.type = 5 => tc.EventId \in Seq(Nat)
    /\ tc.type = 6 =>
          /\ tc.memoryId \in Nat /\ tc.StartAddress \in Addr
          /\ tc.dstMemoryId \in Nat /\ tc.dstAddress \in Addr  \* of a COPY
          /\ tc.dataToLoad \in Blocks \cup {EmptyBlock}
          /\ tc.healthy \in Nat
          /\ tc.numeric \in BOOLEAN  \* the addresses are numbers in the JSON
    /\ tc.type = 8 => tc.funId \in Nat /\ tc.argValues \in Arg
    /\ tc.type = 17 => tc.VersionedItemIds \in Seq(Nat)
    /\ tc.type = 20 => tc.paramId \in Seq(Nat) /\ tc.paramId # << >>

EventRow(e) == CASE e = 2560 -> "systemMgr"
                 [] e = 2561 -> "fdirMgr"
                 [] OTHER    -> "none"

\* The row whose identifier range holds parameter p.
ParamRow(p) == CASE p \in 2560..2585 -> "systemMgr"
                 [] p \in 2586..2595 -> "comMgr"
                 [] p \in 2596..2601 -> "fdirMgr"
                 [] p = 2602         -> "solarArraysMgr"
                 [] OTHER            -> "none"

\* The identifiers the dictionaries define.
SystemMgrIds      == 2560..2583
ComMgrIds         == 2586..2595
FdirMgrIds        == 2596..2601
SolarArraysMgrIds == {2602}

ParamIds == SystemMgrIds \cup ComMgrIds \cup FdirMgrIds \cup SolarArraysMgrIds

MemorySubtypes == {2, 5, 9, 128, 129, 130, 132}

\* The rows a handler fetches before its body, in order.
Reads(type) ==
    CASE type = 5  -> <<"systemMgr", "fdirMgr">>
      [] type = 6  -> <<"Memory">>
      [] type = 20 -> <<"systemMgr", "comMgr", "fdirMgr", "solarArraysMgr">>
      [] OTHER     -> <<"systemMgr">>

\* The rows the body of the handler uses, in order.
Accesses(tc) ==
    CASE tc.type = 5 /\ tc.subtype \in {5, 6} ->
            [i \in 1..Len(tc.EventId) |-> EventRow(tc.EventId[i])]
      [] tc.type = 5 /\ tc.subtype = 7 -> <<"systemMgr", "fdirMgr">>
      [] tc.type = 6 /\ tc.subtype \in MemorySubtypes -> <<"Memory">>
      [] tc.type = 8 /\ tc.subtype = 1 /\ tc.funId \in {513, 514} ->
            <<"systemMgr">>
      [] tc.type = 20 /\ tc.subtype = 1 ->
            [i \in 1..Len(tc.paramId) |-> ParamRow(tc.paramId[i])]
      [] OTHER -> << >>

\* CHANGE HEALTH to healthy stores the memory back without looking into it.
RestoresUnseen(tc) == tc.type = 6 /\ tc.subtype = 132 /\ tc.healthy # 0

-----------------------------------------------------------------------------
(* PUS 6.  A memory unit is a dictionary from addresses to data; the list  *)
(* it is initialised with has no key.  Storing under the int address adds  *)
(* a second JSON key with the same text, and loading keeps the later one.  *)

KnownMemories(tc) ==
    tc.memoryId \in MemIds /\ (tc.subtype = 128 => tc.dstMemoryId \in MemIds)

Holds(mem, m, a)    == mem[m][a] # Absent
Readable(mem, m, a) == mem[m][a] \notin {Absent, Unhealthy}

\* "systemMemory[memId][address] = x"
Put(mem, m, a, x) == [mem EXCEPT ![m] = [@ EXCEPT ![a] = x]]

\* "systemMemory[memId] = {str(address): x}": a new dictionary with one key.
PutAlone(mem, m, a, x) ==
    [mem EXCEPT ![m] = [b \in Addr |-> IF b = a THEN x ELSE Absent]]

\* Mutant: the health of the address is not looked at.
LoadMemory_Unhealthy(mem, tc) ==
    IF Holds(mem, tc.memoryId, tc.StartAddress)
    THEN Put(mem, tc.memoryId, tc.StartAddress, tc.dataToLoad)
    ELSE PutAlone(mem, tc.memoryId, tc.StartAddress, tc.dataToLoad)

LoadMemory(mem, tc) ==
    LET m == tc.memoryId
        a == tc.StartAddress
    IN  CASE ~Holds(mem, m, a)   -> PutAlone(mem, m, a, tc.dataToLoad)
          [] Readable(mem, m, a) -> Put(mem, m, a, tc.dataToLoad)
          [] OTHER               -> mem

CopyMemory(mem, tc) ==
    LET src == mem[tc.memoryId][tc.StartAddress]
        m   == tc.dstMemoryId
        a   == tc.dstAddress
    IN  CASE Readable(mem, m, a)    -> Put(mem, m, a, src)
          [] mem[m][a] = Unhealthy  -> PutAlone(mem, m, a, src)
          [] OTHER                  -> mem

EraseMemory(mem, tc) == Put(mem, tc.memoryId, tc.StartAddress, Zeros)

ChangeHealth(mem, tc) ==
    LET m == tc.memoryId
        a == tc.StartAddress
    IN  CASE tc.healthy # 0  -> mem
          [] tc.healthy = 0 /\ Holds(mem, m, a)  -> Put(mem, m, a, Unhealthy)
          [] tc.healthy = 0 /\ ~Holds(mem, m, a) ->
                PutAlone(mem, m, a, Unhealthy)

MemoryAfter(mem, tc) ==
    CASE tc.subtype = 2   -> LoadMemory(mem, tc)
      [] tc.subtype = 128 -> CopyMemory(mem, tc)
      [] tc.subtype = 129 -> EraseMemory(mem, tc)
      [] OTHER            -> ChangeHealth(mem, tc)

\* Whether the command updates the Memory row at all.
StoresMemory(mem, tc) ==
    \/ tc.subtype \in {2, 132}
    \/ tc.subtype = 128 /\ Readable(mem, tc.memoryId, tc.StartAddress)
    \/ tc.subtype = 129 /\ Holds(mem, tc.memoryId, tc.StartAddress)

-----------------------------------------------------------------------------
(* The length of the text of a row.  The column is a varchar(4096), and    *)
(* update_db raises on a longer text.                                      *)

\* Mutant: a column of twice the width.
Width_Double == 8192

Width == 4096

Keys(map) == { a \in Addr : map[a] # Absent }

BlockText(x) == CASE x \in Blocks   -> Text[x]
                  [] x = Zeros      -> 12
                  [] x = Unhealthy  -> 3
                  [] OTHER          -> 2

\* "address": data, with its share of the braces and separators.
EntryText(x) == KeyText + 6 + BlockText(x)

EntriesText(map) ==
    LET Entry(a) == EntryText(map[a])
    IN  MapThenSumSet(Entry, Keys(map))

\* A memory unit that has no address is the list of four zeros.
MemoryText(map) == IF Keys(map) = {} THEN 12 ELSE EntriesText(map)

\* The names of the four memory units and what separates them.
RowText(mem) ==
    50 + MemoryText(mem[0]) + MemoryText(mem[1]) + MemoryText(mem[2])
       + MemoryText(mem[3])

\* The old entry, which a LOAD or COPY under a number leaves in the text
\* beside the new one.
LeftBehind(mem, tc) ==
    CASE tc.numeric /\ tc.subtype = 2
            /\ Readable(mem, tc.memoryId, tc.StartAddress) ->
                EntryText(mem[tc.memoryId][tc.StartAddress])
      [] tc.numeric /\ tc.subtype = 128
            /\ Readable(mem, tc.dstMemoryId, tc.dstAddress) ->
                EntryText(mem[tc.dstMemoryId][tc.dstAddress])
      [] OTHER -> 0

\* The dictionary of systemMgr, and the two keys that PUS 8 adds to it.
SystemText(v) ==
    2043 + (IF v.mode = Unset THEN 0 ELSE 30 + Text[v.mode])
         + (IF v.obt = Unset THEN 0 ELSE 35 + Text[v.obt])

-----------------------------------------------------------------------------
(* The i-th access of the body of a handler to a dictionary whose value is *)
(* v: does it raise although v is a dictionary, does it store, and what.   *)

Stores(tc, v) ==
    \/ tc.type = 5 /\ tc.subtype \in {5, 6}
    \/ tc.type = 6 /\ StoresMemory(v, tc)
    \/ tc.type = 8

\* PUS 8 adds its argument to ONBOARD_PARAMETERS under a name, beside the
\* identifiers, where PUS 20 does not look.
CallFunction(v, tc) ==
    IF tc.funId = 513 THEN [v EXCEPT !.mode = tc.argValues]
                      ELSE [v EXCEPT !.obt = tc.argValues]

NewValue(tc, v) ==
    CASE tc.type = 5 -> [v EXCEPT !.ev = (tc.subtype = 5)]
      [] tc.type = 6 -> MemoryAfter(v, tc)
      [] OTHER       -> CallFunction(v, tc)

\* The text that the body hands to update_db does not fit the column.  An
\* event is enabled and disabled by one digit.
Overflows(tc, v) ==
    \/ /\ tc.type = 6 /\ KnownMemories(tc) /\ StoresMemory(v, tc)
       /\ RowText(MemoryAfter(v, tc)) + LeftBehind(v, tc) > Width
    \/ tc.type = 8 /\ SystemText(CallFunction(v, tc)) > Width

\* An identifier inside a range that no dictionary defines, and a memory
\* that Mem_Dict does not name, are KeyErrors; compute_crc returns an
\* unassigned variable for an empty block; the server rejects a long text.
Fails(tc, i, v) ==
    \/ tc.type = 20 /\ tc.paramId[i] \notin ParamIds
    \/ tc.type = 6 /\ ~KnownMemories(tc)
    \/ /\ tc.type = 6 /\ tc.subtype = 9
       /\ v[tc.memoryId][tc.StartAddress] = EmptyBlock
    \/ Overflows(tc, v)

-----------------------------------------------------------------------------
(* Messages.  Of a report's body only the identifiers or the memory data   *)
(* it is about are kept.  dict is the handler's copy of the rows it read.  *)

Messages == [type : Nat, sub : Nat, ids : SUBSET Nat, data : Data]

Message(t, s, ids, data) == [type |-> t, sub |-> s, ids |-> ids, data |-> data]

\* The PUS 1 reports: acceptance is subtype 1 or 2, completion 7 or 8.
Ack(row)        == Message(1, IF row.failed THEN 2 ELSE 1, {}, Absent)
Completion(row) == Message(1, IF row.failed THEN 8 ELSE 7, {}, Absent)

\* Mutant: the two tests of Event_reporting are an if and an elif.
DisabledEvents_Elif(dict) ==
    IF ~dict["systemMgr"].val.ev THEN {2560}
    ELSE { e \in {2561} : ~dict["fdirMgr"].val.ev }

DisabledEvents(dict) == { e \in {2560, 2561} : ~dict[EventRow(e)].val.ev }

MemoryReport(tc, mem) ==
    LET x == mem[tc.memoryId][tc.StartAddress] IN
    CASE tc.subtype = 5 /\ x \notin {Absent, Unhealthy} ->
            << Message(6, 6, {}, x) >>     \* the dumped data
      [] tc.subtype = 9 /\ x \notin {Absent, Unhealthy} ->
            << Message(6, 10, {}, x) >>    \* the checksum of the data
      [] tc.subtype = 130 /\ x # Absent ->
            << Message(6, 131, {1}, Absent) >>  \* always "healthy": 0x01
      [] OTHER -> << >>

\* PUS 17 and 20 answer with type 8 and leave the subtype at 0.  One message
\* for each item; of several parameters only the last one.
VersionReport(tc) ==
    [i \in 1..Len(tc.VersionedItemIds) |->
        Message(8, 0, {tc.VersionedItemIds[i]}, Absent)]

ParameterReport(tc) ==
    << Message(8, 0, {tc.paramId[Len(tc.paramId)]}, Absent) >>

\* What the handler returns, message by message.
Report(tc, dict) ==
    CASE tc.type = 5 /\ tc.subtype = 7 ->
            << Message(5, 8, DisabledEvents(dict), Absent) >>
      [] tc.type = 6 /\ tc.subtype \in {5, 9, 130} ->
            MemoryReport(tc, dict["Memory"].val)
      [] tc.type = 17 /\ tc.subtype = 128 -> VersionReport(tc)
      [] tc.type = 20 /\ tc.subtype = 1   -> ParameterReport(tc)
      [] OTHER -> << >>

\* cmd_processing sends a report only when its subtype is not 0; all the
\* messages of a report have the same subtype.
ReportMessages(tc, dict) ==
    LET r == Report(tc, dict)
    IN  IF r # << >> /\ r[1].sub = 0 THEN << >> ELSE r

\* Mutant: the completion report last for every service.
Answers_CompletionLast(tc, dict, completionRow) ==
    Append(ReportMessages(tc, dict), Completion(completionRow))

\* Mutant: a report takes the place of the completion report.
Answers_ReportOnly(tc, dict, completionRow) ==
    IF ReportMessages(tc, dict) = << >> THEN << Completion(completionRow) >>
                                        ELSE ReportMessages(tc, dict)

\* Everything cmd_processing sends after a handler, in its order: PUS 5
\* sends the completion report first, the other services send it last.
Answers(tc, dict, completionRow) ==
    IF tc.type = 5
    THEN << Completion(completionRow) >> \o ReportMessages(tc, dict)
    ELSE Append(ReportMessages(tc, dict), Completion(completionRow))
=============================================================================
