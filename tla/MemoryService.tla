---------------------------- MODULE MemoryService ----------------------------
(***************************************************************************)
(* PUS 6 (Memory_management in units/bcr.py) down to the text of the row   *)
(* that it stores.  A handler decodes the row, changes the dictionaries    *)
(* and encodes them again.  The keys it has decoded are strings; a LOAD or *)
(* COPY onto an address that is there writes under the address as it came  *)
(* in the command, and a number is a second key of the same text.  Loading *)
(* keeps the later of two equal keys.  The row is a varchar(4096), and a   *)
(* text that is too long raises in update_db, which ends the listener.     *)
(*                                                                         *)
(* One listener handles one command at a time, and the row is initialised: *)
(* a command is one step.  Semsim models the interleavings, with this row  *)
(* decoded.                                                                *)
(***************************************************************************)
EXTENDS BcrServices

CONSTANTS
    Commands,   \* PUS 6 telecommands
    LengthText  \* length of the number in the field "length"

ASSUME CommandsAssumption == \A c \in Commands : WellFormed(c) /\ c.type = 6

\* Ten digits are enough for lengths of 32 bits.
ASSUME LengthAssumption == LengthText \in 0..10

VARIABLES
    row,      \* row[m]: the text of memory m, as two maps, see Unkeyed
    up,       \* the listener thread is alive
    tc,       \* history: the last command
    reports   \* the messages its handler has sent, without those of PUS 1

vars == <<row, up, tc, reports>>

NoKeys == [a \in Addr |-> Absent]

\* The text of a memory lists first the keys that were strings, then those
\* that were numbers.  At the start it is a list and has no keys.
Unkeyed == [str |-> NoKeys, num |-> NoKeys]

\* Mutant: of two equal keys the first one counts.
Decode_First(t) ==
    [a \in Addr |-> IF t.str[a] # Absent THEN t.str[a] ELSE t.num[a]]

\* json.loads of a memory: the last of two equal keys counts.
Decode(t) == [a \in Addr |-> IF t.num[a] # Absent THEN t.num[a] ELSE t.str[a]]

Memory == [m \in MemIds |-> Decode(row[m])]

\* The length of the text of a memory, with every key that is in it, and of
\* the row; compare MemoryText and RowText, which count what decodes.
KeyedText(t) ==
    IF Keys(t.str) = {} /\ Keys(t.num) = {} THEN 12
    ELSE EntriesText(t.str) + EntriesText(t.num)

StoredText(r) ==
    50 + KeyedText(r[0]) + KeyedText(r[1]) + KeyedText(r[2]) + KeyedText(r[3])

-----------------------------------------------------------------------------
(* The handlers                                                            *)

Strings == [m \in MemIds |-> [str |-> Memory[m], num |-> NoKeys]]

\* The dictionary "{str(address): x}" in the place of memory m.
Alone(m, a, x) ==
    [Strings EXCEPT ![m] =
        [str |-> [b \in Addr |-> IF b = a THEN x ELSE Absent],
         num |-> NoKeys]]

UnderString(m, a, x) == [Strings EXCEPT ![m].str[a] = x]

UnderNumber(m, a, x) == [Strings EXCEPT ![m].num[a] = x]

\* Mutant: the address is stored as a string, as in ERASE.
AsSent_String(c, m, a, x) == UnderString(m, a, x)

\* Under the address as it came in the command.
AsSent(c, m, a, x) ==
    IF c.numeric THEN UnderNumber(m, a, x) ELSE UnderString(m, a, x)

\* init_bytes_state: update_db raises on a text that is too long.
Store(r) == IF StoredText(r) <= Width THEN row' = r /\ up' = up
                                      ELSE row' = row /\ up' = FALSE

Take(c, sub) ==
    /\ up
    /\ c.subtype = sub
    /\ KnownMemories(c)
    /\ tc' = c

\* Mutant: a LOAD at an address that is not there keeps what is.
Load_Keeps(c) ==
    /\ Take(c, 2)
    /\ reports' = << >>
    /\ LET m == c.memoryId
           a == c.StartAddress
           old == Memory[m][a]
       IN  \/ old = Absent /\ Store(UnderString(m, a, c.dataToLoad))
           \/ old = Unhealthy /\ Store(Strings)
           \/ old \notin {Absent, Unhealthy}
                /\ Store(AsSent(c, m, a, c.dataToLoad))

Load(c) ==
    /\ Take(c, 2)
    /\ reports' = << >>
    /\ LET m == c.memoryId
           a == c.StartAddress
           old == Memory[m][a]
       IN  \/ old = Absent /\ Store(Alone(m, a, c.dataToLoad))
           \/ old = Unhealthy /\ Store(Strings)
           \/ old \notin {Absent, Unhealthy}
                /\ Store(AsSent(c, m, a, c.dataToLoad))

\* DUMP, CHECK and REPORT look and change nothing.
Look(c) ==
    /\ \E sub \in {5, 9, 130} : Take(c, sub)
    /\ IF c.subtype = 9 /\ Memory[c.memoryId][c.StartAddress] = EmptyBlock
       THEN up' = FALSE /\ reports' = << >>
       ELSE up' = up /\ reports' = MemoryReport(c, Memory)
    /\ UNCHANGED row

\* Nothing is stored unless the source is there and healthy.
Copy(c) ==
    /\ Take(c, 128)
    /\ reports' = << >>
    /\ LET src == Memory[c.memoryId][c.StartAddress]
           m   == c.dstMemoryId
           a   == c.dstAddress
           old == Memory[m][a]
       IN  \/ src \in {Absent, Unhealthy} /\ UNCHANGED <<row, up>>
           \/ src \notin {Absent, Unhealthy} /\ old = Absent /\ Store(Strings)
           \/ src \notin {Absent, Unhealthy} /\ old = Unhealthy
                /\ Store(Alone(m, a, src))
           \/ src \notin {Absent, Unhealthy} /\ old \notin {Absent, Unhealthy}
                /\ Store(AsSent(c, m, a, src))

\* Mutant: ERASE writes under the address as it came.
Erase_AsSent(c) ==
    /\ Take(c, 129)
    /\ reports' = << >>
    /\ IF Memory[c.memoryId][c.StartAddress] = Absent
       THEN UNCHANGED <<row, up>>
       ELSE Store(AsSent(c, c.memoryId, c.StartAddress, Zeros))

Erase(c) ==
    /\ Take(c, 129)
    /\ reports' = << >>
    /\ IF Memory[c.memoryId][c.StartAddress] = Absent
       THEN UNCHANGED <<row, up>>
       ELSE Store(UnderString(c.memoryId, c.StartAddress, Zeros))

\* Mutant: the command's own 0 is stored as the mark.
ChangeHealthOf_Digit(c) ==
    /\ Take(c, 132)
    /\ reports' = << >>
    /\ Store(IF c.healthy # 0 THEN Strings
             ELSE Alone(c.memoryId, c.StartAddress, "0"))

ChangeHealthOf(c) ==
    /\ Take(c, 132)
    /\ reports' = << >>
    /\ LET m == c.memoryId
           a == c.StartAddress
       IN  \/ c.healthy # 0 /\ Store(Strings)
           \/ c.healthy = 0 /\ Memory[m][a] = Absent
                /\ Store(Alone(m, a, Unhealthy))
           \/ c.healthy = 0 /\ Memory[m][a] # Absent
                /\ Store(UnderString(m, a, Unhealthy))

\* A memory that Mem_Dict does not name: KeyError.
UnknownMemory(c) ==
    /\ up
    /\ c.subtype \in MemorySubtypes
    /\ ~KnownMemories(c)
    /\ tc' = c /\ reports' = << >>
    /\ up' = FALSE
    /\ UNCHANGED row

Init ==
    /\ row = [m \in MemIds |-> Unkeyed]
    /\ up = TRUE /\ tc = [form |-> "none"] /\ reports = << >>

Next ==
    \E c \in Commands :
        \/ Load(c) \/ Look(c) \/ Copy(c) \/ Erase(c) \/ ChangeHealthOf(c)
        \/ UnknownMemory(c)

Spec == Init /\ [][Next]_vars

-----------------------------------------------------------------------------
(* Properties                                                              *)

Maps == [Addr -> Data]

\* Type correctness.
TypeOK ==
    /\ row \in [MemIds -> [str : Maps, num : Maps]]
    /\ up \in BOOLEAN
    /\ tc \in Commands \cup {[form |-> "none"]}
    /\ reports \in Seq(Messages)

\* All keys of a memory are the same address, in whatever form, so that its
\* text never has more than two: what LOADs leave behind does not pile up.
OneAddressPerMemory ==
    \A m \in MemIds : \A a, b \in Addr :
        /\ row[m].str[a] # Absent \/ row[m].num[a] # Absent
        /\ row[m].str[b] # Absent \/ row[m].num[b] # Absent
        => a = b

\* A second key hides the first one for good: decoded, the row changes as the
\* services of BcrServices say, which know nothing of texts and keys.
DecodesAsStored ==
    [][ row' # row => Memory' = MemoryAfter(Memory, tc') ]_vars

\* The text that a command leaves is too long only if what it stores is, or if
\* a numeric address leaves the old block in the text beside the new one.
OverflowHasCause ==
    [][ up /\ ~up' /\ KnownMemories(tc') /\ tc'.subtype # 9 =>
            \/ tc'.numeric /\ tc'.subtype \in {2, 128}
            \/ RowText(MemoryAfter(Memory, tc')) > Width ]_vars

\* The listener ends exactly where Fails says so, which looks at the decoded
\* memories alone: the text beyond them, a second key of the address that is
\* there, never outlasts the next store.
EndsAsModelled == [][ up => (~up' <=> Fails(tc', 1, Memory)) ]_vars

\* The report of a DUMP repeats the block with 61 characters around it, its
\* address, perhaps in quotes, and its length.  With the header of the packet
\* it fits the buffer of 4096 octets into which every client receives it: the
\* block once fitted the column, beside the same address in a longer row.  (An
\* address of less than four digits could make the report longer than that.)
DumpText(x) == 18 + 61 + KeyText + 2 + LengthText + BlockText(x)

DumpFits ==
    \A m \in MemIds, a \in Addr :
        Readable(Memory, m, a) => DumpText(Memory[m][a]) <= 4096

Block(t) ==
    LET keys == Keys(Decode(t))
    IN  IF keys = {} THEN [addr |-> "none", data |-> Absent]
        ELSE LET a == CHOOSE k \in keys : TRUE
             IN  [addr |-> a, data |-> Decode(t)[a]]

Blockwise == INSTANCE BlockMemory WITH held <- [m \in MemIds |-> Block(row[m])]

\* Dictionaries, keys and texts together hold one block per memory.
ImplementsBlockMemory == Blockwise!Spec
=============================================================================
