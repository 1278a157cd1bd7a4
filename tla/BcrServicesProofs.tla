-------------------------- MODULE BcrServicesProofs --------------------------
(***************************************************************************)
(* What the operators of BcrServices return, for all telecommands and all  *)
(* contents of the rows: the lemmas the proofs about Semsim rest on.       *)
(***************************************************************************)
EXTENDS BcrServices, TLAPS

\* The rows of a table and the order of their initialisation agree.
LEMMA InitOrderRows ==
    /\ Len(InitOrder) = 7
    /\ \A k \in 1..7 : InitOrder[k] \in RowNames
    /\ \A r \in RowNames : \E k \in 1..7 : InitOrder[k] = r
    /\ InitOrder[7] = "Memory"
    /\ \A j, k \in 1..7 : InitOrder[j] = InitOrder[k] => j = k
  BY DEF InitOrder, RowNames

LEMMA UnitInUnits == \A d : Unit(d) \in Units
  BY DEF Unit, Units

LEMMA AbsentIsData == Absent \in Data
  BY DEF Data

\* The initial dictionary of a row is one of its values.
LEMMA DefaultRowTyped ==
    ASSUME NEW r \in RowNames
    PROVE  /\ DefaultRow(r) \in RowValues(r)
           /\ Raw(r) \in Cells(r)
           /\ Json(DefaultRow(r)) \in Cells(r)
<1>1. CASE r = "Memory"
  BY <1>1 DEF DefaultRow, RowValues, MemoryValues, Data, Raw, Json, Cells
<1>2. CASE r = "systemMgr"
  BY <1>2 DEF DefaultRow, RowValues, Raw, Json, Cells
<1>3. CASE r = "fdirMgr"
  BY <1>3 DEF DefaultRow, RowValues, Raw, Json, Cells
<1>4. CASE r \in {"acceptanceVerificationReport",
                  "completionOfExecVerificationReport"}
  BY <1>4 DEF DefaultRow, NoFailure, RowValues, Raw, Json, Cells
<1>5. CASE r \in {"comMgr", "solarArraysMgr"}
  BY <1>5 DEF DefaultRow, RowValues, Raw, Json, Cells
<1> QED
  BY <1>1, <1>2, <1>3, <1>4, <1>5 DEF RowNames

\* A handler fetches at least one row, and only rows of the unit's table.
LEMMA ReadsTyped ==
    \A type : /\ Len(Reads(type)) \in Nat \ {0}
              /\ \A i \in 1..Len(Reads(type)) : Reads(type)[i] \in RowNames
  BY DEF Reads, RowNames

\* The cases of Accesses.
LEMMA AccessesCases ==
    ASSUME NEW d
    PROVE  /\ d.type = 5 /\ d.subtype \in {5, 6} =>
                Accesses(d) = [i \in 1..Len(d.EventId) |->
                                    EventRow(d.EventId[i])]
           /\ d.type = 5 /\ d.subtype = 7 =>
                Accesses(d) = <<"systemMgr", "fdirMgr">>
           /\ d.type = 6 /\ d.subtype \in MemorySubtypes =>
                Accesses(d) = <<"Memory">>
           /\ d.type = 8 /\ d.subtype = 1 /\ d.funId \in {513, 514} =>
                Accesses(d) = <<"systemMgr">>
           /\ d.type = 20 /\ d.subtype = 1 =>
                Accesses(d) = [i \in 1..Len(d.paramId) |->
                                    ParamRow(d.paramId[i])]
           /\ ~ (\/ d.type = 5 /\ d.subtype \in {5, 6, 7}
                 \/ d.type = 6 /\ d.subtype \in MemorySubtypes
                 \/ d.type = 8 /\ d.subtype = 1 /\ d.funId \in {513, 514}
                 \/ d.type = 20 /\ d.subtype = 1)
              => Accesses(d) = << >>
<1> DEFINE A == d.type = 5 /\ d.subtype \in {5, 6}
           B == d.type = 5 /\ d.subtype = 7
           C == d.type = 6 /\ d.subtype \in MemorySubtypes
           D == d.type = 8 /\ d.subtype = 1 /\ d.funId \in {513, 514}
           E == d.type = 20 /\ d.subtype = 1
<1>0. Accesses(d) = CASE A -> [i \in 1..Len(d.EventId) |->
                                    EventRow(d.EventId[i])]
                      [] B -> <<"systemMgr", "fdirMgr">>
                      [] C -> <<"Memory">>
                      [] D -> <<"systemMgr">>
                      [] E -> [i \in 1..Len(d.paramId) |->
                                    ParamRow(d.paramId[i])]
                      [] OTHER -> << >>
  BY Zenon DEF Accesses
<1>1. /\ A => ~B /\ ~C /\ ~D /\ ~E
      /\ B => ~A /\ ~C /\ ~D /\ ~E
      /\ C => ~A /\ ~B /\ ~D /\ ~E
      /\ D => ~A /\ ~B /\ ~C /\ ~E
      /\ E => ~A /\ ~B /\ ~C /\ ~D
  OBVIOUS
<1> HIDE DEF A, B, C, D, E
<1>2. /\ A => Accesses(d) = [i \in 1..Len(d.EventId) |->
                                    EventRow(d.EventId[i])]
      /\ B => Accesses(d) = <<"systemMgr", "fdirMgr">>
      /\ C => Accesses(d) = <<"Memory">>
      /\ D => Accesses(d) = <<"systemMgr">>
      /\ E => Accesses(d) = [i \in 1..Len(d.paramId) |->
                                    ParamRow(d.paramId[i])]
      /\ ~A /\ ~B /\ ~C /\ ~D /\ ~E => Accesses(d) = << >>
  BY <1>0, <1>1, Zenon
<1> QED
  BY <1>2, Zenon DEF A, B, C, D, E

\* A body uses rows of the table, or skips an identifier.
LEMMA AccessesTyped ==
    ASSUME NEW d, WellFormed(d)
    PROVE  /\ Len(Accesses(d)) \in Nat
           /\ \A i \in 1..Len(Accesses(d)) :
                 Accesses(d)[i] \in RowNames \cup {"none"}
<1>1. CASE d.type = 5 /\ d.subtype \in {5, 6}
  <2>1. \A e : EventRow(e) \in RowNames \cup {"none"}
    BY DEF EventRow, RowNames
  <2>2. Len(d.EventId) \in Nat
    BY <1>1 DEF WellFormed
  <2> QED
    BY <1>1, <2>1, <2>2, AccessesCases
<1>2. CASE d.type = 20 /\ d.subtype = 1
  <2>1. \A p \in Nat : ParamRow(p) \in RowNames \cup {"none"}
    BY DEF ParamRow, RowNames
  <2>2. /\ Len(d.paramId) \in Nat
        /\ \A i \in 1..Len(d.paramId) : d.paramId[i] \in Nat
    BY <1>2 DEF WellFormed
  <2> QED
    BY <1>2, <2>1, <2>2, AccessesCases
<1>3. CASE d.type = 5 /\ d.subtype = 7
  <2>1. Accesses(d) = <<"systemMgr", "fdirMgr">>
    BY <1>3, AccessesCases, Zenon
  <2> QED
    BY <2>1 DEF RowNames
<1>4. CASE d.type = 6 /\ d.subtype \in MemorySubtypes
  <2>1. Accesses(d) = <<"Memory">>
    BY <1>4, AccessesCases, Zenon
  <2> QED
    BY <2>1 DEF RowNames
<1>5. CASE d.type = 8 /\ d.subtype = 1 /\ d.funId \in {513, 514}
  <2>1. Accesses(d) = <<"systemMgr">>
    BY <1>5, AccessesCases, Zenon
  <2> QED
    BY <2>1 DEF RowNames
<1>6. CASE Accesses(d) = << >>
  BY <1>6
<1>7. \/ d.type = 5 /\ d.subtype \in {5, 6}
      \/ d.type = 5 /\ d.subtype = 7
      \/ d.type = 6 /\ d.subtype \in MemorySubtypes
      \/ d.type = 8 /\ d.subtype = 1 /\ d.funId \in {513, 514}
      \/ d.type = 20 /\ d.subtype = 1
      \/ Accesses(d) = << >>
  BY AccessesCases, Zenon
<1> QED
  BY <1>1, <1>2, <1>3, <1>4, <1>5, <1>6, <1>7

\* The row that the i-th access uses, by service.
LEMMA AccessRow ==
    ASSUME NEW d, WellFormed(d), NEW i \in 1..Len(Accesses(d)),
           Accesses(d)[i] # "none"
    PROVE  /\ d.type \in {5, 6, 8, 20}
           /\ d.type = 5 => Accesses(d)[i] \in {"systemMgr", "fdirMgr"}
           /\ d.type = 6 => /\ Accesses(d)[i] = "Memory" /\ i = 1
                            /\ Len(Accesses(d)) = 1
                            /\ d.subtype \in MemorySubtypes
           /\ d.type = 8 => /\ Accesses(d)[i] = "systemMgr"
                            /\ d.funId \in {513, 514}
<1>1. CASE d.type = 5 /\ d.subtype \in {5, 6}
  <2>1. \A e : EventRow(e) \in {"systemMgr", "fdirMgr", "none"}
    BY DEF EventRow
  <2>2. Len(d.EventId) \in Nat
    BY <1>1 DEF WellFormed
  <2>3. Accesses(d) = [j \in 1..Len(d.EventId) |-> EventRow(d.EventId[j])]
    BY <1>1, AccessesCases, Zenon
  <2>4. i \in 1..Len(d.EventId)
    BY <2>2, <2>3
  <2>5. Accesses(d)[i] \in {"systemMgr", "fdirMgr", "none"}
    BY <2>1, <2>3, <2>4
  <2> QED
    BY <1>1, <2>5
<1>2. CASE d.type = 20 /\ d.subtype = 1
  BY <1>2
<1>3. CASE d.type = 5 /\ d.subtype = 7
  <2>1. Accesses(d) = <<"systemMgr", "fdirMgr">>
    BY <1>3, AccessesCases, Zenon
  <2> QED
    BY <1>3, <2>1
<1>4. CASE d.type = 6 /\ d.subtype \in MemorySubtypes
  <2>1. Accesses(d) = <<"Memory">>
    BY <1>4, AccessesCases, Zenon
  <2> QED
    BY <1>4, <2>1
<1>5. CASE d.type = 8 /\ d.subtype = 1 /\ d.funId \in {513, 514}
  <2>1. Accesses(d) = <<"systemMgr">>
    BY <1>5, AccessesCases, Zenon
  <2> QED
    BY <1>5, <2>1
<1>6. CASE Accesses(d) = << >>
  BY <1>6
<1>7. \/ d.type = 5 /\ d.subtype \in {5, 6}
      \/ d.type = 5 /\ d.subtype = 7
      \/ d.type = 6 /\ d.subtype \in MemorySubtypes
      \/ d.type = 8 /\ d.subtype = 1 /\ d.funId \in {513, 514}
      \/ d.type = 20 /\ d.subtype = 1
      \/ Accesses(d) = << >>
  BY AccessesCases, Zenon
<1> QED
  BY <1>1, <1>2, <1>3, <1>4, <1>5, <1>6, <1>7

-----------------------------------------------------------------------------
(* The memory                                                              *)

LEMMA PutTyped ==
    ASSUME NEW mem \in MemoryValues, NEW m \in MemIds, NEW a \in Addr,
           NEW x \in Data
    PROVE  Put(mem, m, a, x) \in MemoryValues
  BY DEF Put, MemoryValues

LEMMA PutAloneTyped ==
    ASSUME NEW mem \in MemoryValues, NEW m \in MemIds, NEW a \in Addr,
           NEW x \in Data
    PROVE  PutAlone(mem, m, a, x) \in MemoryValues
  BY AbsentIsData DEF PutAlone, MemoryValues

\* Every command leaves a memory.
LEMMA MemoryAfterTyped ==
    ASSUME NEW mem \in MemoryValues, NEW d, WellFormed(d), d.type = 6,
           KnownMemories(d)
    PROVE  MemoryAfter(mem, d) \in MemoryValues
<1>1. /\ d.memoryId \in MemIds /\ d.StartAddress \in Addr
      /\ d.dstAddress \in Addr /\ d.dataToLoad \in Data
      /\ d.healthy \in Nat
      /\ d.subtype = 128 => d.dstMemoryId \in MemIds
  BY DEF WellFormed, KnownMemories, Data
<1>2. mem[d.memoryId][d.StartAddress] \in Data
  BY <1>1 DEF MemoryValues
<1>3. Zeros \in Data /\ Unhealthy \in Data
  BY DEF Data
<1>4. LoadMemory(mem, d) \in MemoryValues
  BY <1>1, PutTyped, PutAloneTyped DEF LoadMemory, Holds, Readable
<1>5. d.subtype = 128 => CopyMemory(mem, d) \in MemoryValues
  BY <1>1, <1>2, PutTyped, PutAloneTyped DEF CopyMemory
<1>6. EraseMemory(mem, d) \in MemoryValues
  BY <1>1, <1>3, PutTyped DEF EraseMemory
<1>7. ChangeHealth(mem, d) \in MemoryValues
  BY <1>1, <1>3, PutTyped, PutAloneTyped DEF ChangeHealth
<1> QED
  BY <1>4, <1>5, <1>6, <1>7 DEF MemoryAfter

\* What Put and PutAlone leave at each address.
LEMMA PutAt ==
    ASSUME NEW mem \in MemoryValues, NEW m \in MemIds, NEW a \in Addr, NEW x,
           NEW n \in MemIds, NEW b \in Addr
    PROVE  /\ Put(mem, m, a, x)[n][b] =
                    IF n = m /\ b = a THEN x ELSE mem[n][b]
           /\ PutAlone(mem, m, a, x)[n][b] =
                    IF n # m THEN mem[n][b] ELSE IF b = a THEN x ELSE Absent
  BY DEF Put, PutAlone, MemoryValues

\* Each memory unit holds data at one address at most.
Single(mem) ==
    \A m \in MemIds, a, b \in Addr :
        Holds(mem, m, a) /\ Holds(mem, m, b) => a = b

LEMMA PutSingle ==
    ASSUME NEW mem \in MemoryValues, NEW m \in MemIds, NEW a \in Addr, NEW x,
           Single(mem)
    PROVE  /\ Holds(mem, m, a) => Single(Put(mem, m, a, x))
           /\ Single(PutAlone(mem, m, a, x))
<1>1. ASSUME Holds(mem, m, a) PROVE Single(Put(mem, m, a, x))
  BY <1>1, PutAt DEF Single, Holds
<1>2. Single(PutAlone(mem, m, a, x))
  BY PutAt DEF Single, Holds
<1> QED
  BY <1>1, <1>2

\* A command that stores the memory leaves one address in each unit.  An ERASE
\* of an address that is not there would not, and does not store.
LEMMA MemoryAfterSingle ==
    ASSUME NEW mem \in MemoryValues, NEW d, WellFormed(d), d.type = 6,
           KnownMemories(d), StoresMemory(mem, d), Single(mem)
    PROVE  Single(MemoryAfter(mem, d))
<1>1. /\ d.memoryId \in MemIds /\ d.StartAddress \in Addr
      /\ d.dstAddress \in Addr
      /\ d.subtype = 128 => d.dstMemoryId \in MemIds
  BY DEF WellFormed, KnownMemories
<1>2. Single(LoadMemory(mem, d))
  BY <1>1, PutSingle DEF LoadMemory, Holds, Readable
<1>3. d.subtype = 128 => Single(CopyMemory(mem, d))
  BY <1>1, PutSingle DEF CopyMemory, Holds, Readable
<1>4. d.subtype = 129 => Single(EraseMemory(mem, d))
  BY <1>1, PutSingle DEF EraseMemory, StoresMemory
<1>5. d.healthy \in Nat => Single(ChangeHealth(mem, d))
  BY <1>1, PutSingle DEF ChangeHealth
<1> QED
  BY <1>2, <1>3, <1>4, <1>5 DEF MemoryAfter, WellFormed

\* What can become of the mark of an unhealthy address.
LEMMA MemoryAfterUnhealthy ==
    ASSUME NEW mem \in MemoryValues, NEW d, WellFormed(d), d.type = 6,
           KnownMemories(d), NEW m \in MemIds, NEW a \in Addr,
           mem[m][a] = Unhealthy
    PROVE  \/ MemoryAfter(mem, d)[m][a] \in {Unhealthy, Absent}
           \/ d.subtype = 129 /\ MemoryAfter(mem, d)[m][a] = Zeros
           \/ d.subtype = 128 /\ d.dstMemoryId = m /\ d.dstAddress = a
<1>1. /\ d.memoryId \in MemIds /\ d.StartAddress \in Addr
      /\ d.dstAddress \in Addr /\ d.healthy \in Nat
      /\ d.subtype = 128 => d.dstMemoryId \in MemIds
  BY DEF WellFormed, KnownMemories
<1>2. LoadMemory(mem, d)[m][a] \in {Unhealthy, Absent}
  <2> DEFINE n == d.memoryId
             b == d.StartAddress
             x == d.dataToLoad
  <2>1. \/ LoadMemory(mem, d) = PutAlone(mem, n, b, x) /\ ~Holds(mem, n, b)
        \/ LoadMemory(mem, d) = Put(mem, n, b, x) /\ Readable(mem, n, b)
        \/ LoadMemory(mem, d) = mem
    BY DEF LoadMemory, Holds, Readable
  <2>2. /\ PutAlone(mem, n, b, x)[m][a] =
                IF m # n THEN mem[m][a] ELSE IF a = b THEN x ELSE Absent
        /\ Put(mem, n, b, x)[m][a] =
                IF m = n /\ a = b THEN x ELSE mem[m][a]
    BY <1>1, PutAt
  <2> HIDE DEF n, b, x
  <2> QED
    BY <2>1, <2>2 DEF Holds, Readable, Unhealthy, Absent
<1>3. d.subtype = 128 =>
          \/ CopyMemory(mem, d)[m][a] \in {Unhealthy, Absent}
          \/ d.dstMemoryId = m /\ d.dstAddress = a
  BY <1>1, PutAt DEF CopyMemory, Readable
<1>4. EraseMemory(mem, d)[m][a] \in {Unhealthy, Zeros}
  BY <1>1, PutAt DEF EraseMemory
<1>5. ChangeHealth(mem, d)[m][a] \in {Unhealthy, Absent}
  BY <1>1, PutAt DEF ChangeHealth, Holds
<1> QED
  BY <1>2, <1>3, <1>4, <1>5 DEF MemoryAfter

\* Storing what is there changes nothing.
LEMMA PutSame ==
    ASSUME NEW mem \in MemoryValues, NEW m \in MemIds, NEW a \in Addr
    PROVE  Put(mem, m, a, mem[m][a]) = mem
  BY DEF Put, MemoryValues

LEMMA PutTwice ==
    ASSUME NEW mem \in MemoryValues, NEW m \in MemIds, NEW a \in Addr,
           NEW x \in Data
    PROVE  /\ Put(Put(mem, m, a, x), m, a, x) = Put(mem, m, a, x)
           /\ Put(PutAlone(mem, m, a, x), m, a, x) = PutAlone(mem, m, a, x)
           /\ Put(mem, m, a, x)[m][a] = x
           /\ PutAlone(mem, m, a, x)[m][a] = x
<1>1. /\ Put(mem, m, a, x) \in MemoryValues
      /\ PutAlone(mem, m, a, x) \in MemoryValues
  BY PutTyped, PutAloneTyped
<1>2. /\ Put(mem, m, a, x)[m][a] = x
      /\ PutAlone(mem, m, a, x)[m][a] = x
  BY PutAt
<1>3. Put(Put(mem, m, a, x), m, a, x) = Put(mem, m, a, x)
  BY <1>1, <1>2, PutSame
<1>4. Put(PutAlone(mem, m, a, x), m, a, x) = PutAlone(mem, m, a, x)
  BY <1>1, <1>2, PutSame
<1> QED
  BY <1>2, <1>3, <1>4

\* A command has no effect a second time.
LEMMA MemoryAfterTwice ==
    ASSUME NEW mem \in MemoryValues, NEW d, WellFormed(d), d.type = 6,
           KnownMemories(d), StoresMemory(mem, d), Single(mem)
    PROVE  MemoryAfter(MemoryAfter(mem, d), d) = MemoryAfter(mem, d)
<1> DEFINE n == d.memoryId
           b == d.StartAddress
           m == d.dstMemoryId
           a == d.dstAddress
<1>1. /\ n \in MemIds /\ b \in Addr /\ a \in Addr
      /\ d.subtype = 128 => m \in MemIds
      /\ d.dataToLoad \in Data \ {Absent, Unhealthy} /\ d.healthy \in Nat
  BY BlocksAssumption
     DEF WellFormed, KnownMemories, Data, EmptyBlock, Absent, Unhealthy
<1>2. Zeros \in Data /\ Unhealthy \in Data /\ Unhealthy # Absent
  BY DEF Data, Unhealthy, Absent
<1>3. LoadMemory(LoadMemory(mem, d), d) = LoadMemory(mem, d)
  <2> DEFINE x == d.dataToLoad
             w == LoadMemory(mem, d)
  <2>1. CASE w = mem
    BY <2>1
  <2>2. CASE w = PutAlone(mem, n, b, x) \/ w = Put(mem, n, b, x)
    <3>1. w[n][b] = x /\ Put(w, n, b, x) = w
      BY <1>1, <2>2, PutTwice
    <3>2. Readable(w, n, b)
      BY <1>1, <3>1 DEF Readable
    <3>3. LoadMemory(w, d) = Put(w, n, b, x)
      <4> HIDE DEF w
      <4> QED
        BY <3>2 DEF LoadMemory, Holds, Readable
    <3> QED
      BY <3>1, <3>3
  <2>3. \/ w = mem
        \/ w = PutAlone(mem, n, b, x)
        \/ w = Put(mem, n, b, x)
    BY DEF LoadMemory
  <2> QED
    BY <2>1, <2>2, <2>3
<1>4. ASSUME d.subtype = 128
      PROVE  CopyMemory(CopyMemory(mem, d), d) = CopyMemory(mem, d)
  <2> DEFINE x == mem[n][b]
             w == CopyMemory(mem, d)
  <2>1. x \in Data \ {Absent, Unhealthy} /\ m \in MemIds
    BY <1>1, <1>4 DEF StoresMemory, Readable, MemoryValues
  <2>2. \/ w = mem
        \/ w = Put(mem, m, a, x)
        \/ w = PutAlone(mem, m, a, x) /\ mem[m][a] = Unhealthy
    BY DEF CopyMemory
  <2>3. CASE w = mem
    BY <2>3
  <2>4. ASSUME w[m][a] = x, w[n][b] = x, Put(w, m, a, x) = w
        PROVE  CopyMemory(w, d) = w
    <3>1. Readable(w, m, a)
      BY <2>1, <2>4 DEF Readable
    <3>2. CopyMemory(w, d) = Put(w, m, a, w[n][b])
      <4> HIDE DEF w
      <4> QED
        BY <3>1 DEF CopyMemory, Readable
    <3> QED
      BY <2>4, <3>2
  <2>5. CASE w = Put(mem, m, a, x)
    <3>1. w[m][a] = x /\ w[n][b] = x /\ Put(w, m, a, x) = w
      BY <1>1, <2>1, <2>5, PutTwice, PutAt
    <3> QED
      BY <2>4, <3>1
  <2>6. CASE w = PutAlone(mem, m, a, x) /\ mem[m][a] = Unhealthy
    <3>1. n # m
      BY <1>1, <1>2, <2>1, <2>6 DEF Single, Holds
    <3>2. w[m][a] = x /\ w[n][b] = x /\ Put(w, m, a, x) = w
      BY <1>1, <2>1, <2>6, <3>1, PutTwice, PutAt
    <3> QED
      BY <2>4, <3>2
  <2> QED
    BY <2>2, <2>3, <2>5, <2>6
<1>5. EraseMemory(EraseMemory(mem, d), d) = EraseMemory(mem, d)
  BY <1>1, <1>2, PutTwice DEF EraseMemory
<1>6. ChangeHealth(ChangeHealth(mem, d), d) = ChangeHealth(mem, d)
  <2> DEFINE w == ChangeHealth(mem, d)
  <2>1. CASE d.healthy # 0
    BY <2>1 DEF ChangeHealth
  <2>2. CASE d.healthy = 0
    <3>1. \/ w = Put(mem, n, b, Unhealthy)
          \/ w = PutAlone(mem, n, b, Unhealthy)
      BY <2>2 DEF ChangeHealth
    <3>2. w[n][b] = Unhealthy /\ Put(w, n, b, Unhealthy) = w
      BY <1>1, <1>2, <3>1, PutTwice
    <3>3. ChangeHealth(w, d) = Put(w, n, b, Unhealthy)
      <4> HIDE DEF w
      <4> QED
        BY <1>2, <2>2, <3>2 DEF ChangeHealth, Holds
    <3> QED
      BY <3>2, <3>3
  <2> QED
    BY <1>1, <2>1, <2>2
<1>7. CASE d.subtype = 2
  BY <1>3, <1>7 DEF MemoryAfter
<1>8. CASE d.subtype = 128
  BY <1>4, <1>8 DEF MemoryAfter
<1>9. CASE d.subtype = 129
  BY <1>5, <1>9 DEF MemoryAfter
<1>10. CASE d.subtype = 132
  BY <1>6, <1>10 DEF MemoryAfter
<1> QED
  BY <1>7, <1>8, <1>9, <1>10 DEF StoresMemory

-----------------------------------------------------------------------------
\* What an access stores in a row is one of the row's values.
LEMMA NewValueTyped ==
    ASSUME NEW d, WellFormed(d), NEW i \in 1..Len(Accesses(d)),
           Accesses(d)[i] # "none",
           NEW v \in RowValues(Accesses(d)[i]),
           ~Fails(d, i, v), Stores(d, v)
    PROVE  NewValue(d, v) \in RowValues(Accesses(d)[i])
<1>1. CASE d.type = 5
  <2>0. d.type # 6 /\ d.type # 8
    BY <1>1
  <2>1. NewValue(d, v) = [v EXCEPT !.ev = (d.subtype = 5)]
    BY <1>1, <2>0, Zenon DEF NewValue
  <2>2. (d.subtype = 5) \in BOOLEAN
    OBVIOUS
  <2>3. CASE Accesses(d)[i] = "systemMgr"
    BY <2>1, <2>2, <2>3 DEF RowValues
  <2>4. CASE Accesses(d)[i] = "fdirMgr"
    BY <2>1, <2>2, <2>4 DEF RowValues
  <2> QED
    BY <1>1, <2>3, <2>4, AccessRow
<1>2. CASE d.type = 6
  <2>1. /\ Accesses(d)[i] = "Memory" /\ KnownMemories(d)
        /\ RowValues("Memory") = MemoryValues
    BY <1>2, AccessRow DEF Fails, RowValues
  <2> QED
    BY <1>2, <2>1, MemoryAfterTyped DEF NewValue
<1>3. CASE d.type = 8
  <2>1. /\ Accesses(d)[i] = "systemMgr" /\ d.argValues \in Arg
        /\ v \in [ev : BOOLEAN, mode : Arg \cup {Unset},
                  obt : Arg \cup {Unset}]
    BY <1>3, AccessRow DEF WellFormed, RowValues
  <2> QED
    BY <1>3, <2>1 DEF NewValue, CallFunction, RowValues
<1> QED
  BY <1>1, <1>2, <1>3, AccessRow DEF Stores

\* What an access stores, the access would store again.
LEMMA NewValueTwice ==
    ASSUME NEW d, WellFormed(d), NEW i \in 1..Len(Accesses(d)),
           Accesses(d)[i] # "none",
           NEW v \in RowValues(Accesses(d)[i]),
           Accesses(d)[i] = "Memory" => Single(v),
           ~Fails(d, i, v), Stores(d, v)
    PROVE  NewValue(d, NewValue(d, v)) = NewValue(d, v)
<1>1. CASE d.type = 5
  <2>0. d.type # 6
    BY <1>1
  <2>1. \A w : NewValue(d, w) = [w EXCEPT !.ev = (d.subtype = 5)]
    BY <1>1, <2>0, Zenon DEF NewValue
  <2>2. CASE Accesses(d)[i] = "systemMgr"
    <3>1. v \in [ev : BOOLEAN, mode : Arg \cup {Unset},
                 obt : Arg \cup {Unset}]
      BY <2>2 DEF RowValues
    <3> QED
      BY <2>1, <3>1
  <2>3. CASE Accesses(d)[i] = "fdirMgr"
    <3>1. v \in [ev : BOOLEAN]
      BY <2>3 DEF RowValues
    <3> QED
      BY <2>1, <3>1
  <2> QED
    BY <1>1, <2>2, <2>3, AccessRow
<1>2. CASE d.type = 6
  <2>1. /\ Accesses(d)[i] = "Memory" /\ KnownMemories(d)
        /\ RowValues("Memory") = MemoryValues
    BY <1>2, AccessRow DEF Fails, RowValues
  <2>2. StoresMemory(v, d)
    BY <1>2 DEF Stores
  <2>3. \A w : NewValue(d, w) = MemoryAfter(w, d)
    BY <1>2 DEF NewValue
  <2> QED
    BY <1>2, <2>1, <2>2, <2>3, MemoryAfterTwice
<1>3. CASE d.type = 8
  <2>1. v \in [ev : BOOLEAN, mode : Arg \cup {Unset},
               obt : Arg \cup {Unset}]
    BY <1>3, AccessRow DEF RowValues
  <2>2. \A w : NewValue(d, w) = CallFunction(w, d)
    BY <1>3 DEF NewValue
  <2> QED
    BY <2>1, <2>2 DEF CallFunction
<1> QED
  BY <1>1, <1>2, <1>3, AccessRow DEF Stores

-----------------------------------------------------------------------------
(* Messages                                                                *)

LEMMA MessageTyped ==
    ASSUME NEW t \in Nat, NEW s \in Nat, NEW ids \in SUBSET Nat,
           NEW x \in Data
    PROVE  Message(t, s, ids, x) \in Messages
  BY DEF Message, Messages

LEMMA VerificationTyped ==
    ASSUME NEW row \in [failed : BOOLEAN]
    PROVE  Ack(row) \in Messages /\ Completion(row) \in Messages
<1>1. {} \in SUBSET Nat
  OBVIOUS
<1> QED
  BY <1>1, AbsentIsData, MessageTyped DEF Ack, Completion

\* A handler that got to its end returns messages.
LEMMA ReportTyped ==
    ASSUME NEW d, WellFormed(d), d.type \in Implemented, NEW dict,
           dict["Memory"].val \in MemoryValues,
           d.type = 6 /\ d.subtype \in MemorySubtypes => KnownMemories(d)
    PROVE  Report(d, dict) \in Seq(Messages)
<1>1. << >> \in Seq(Messages)
  OBVIOUS
<1>2. \A m \in Messages : <<m>> \in Seq(Messages)
  OBVIOUS
<1>3. CASE d.type = 5 /\ d.subtype = 7
  <2>1. DisabledEvents(dict) \in SUBSET Nat
    BY DEF DisabledEvents
  <2>2. Message(5, 8, DisabledEvents(dict), Absent) \in Messages
    BY <2>1, AbsentIsData, MessageTyped
  <2>3. Report(d, dict) = << Message(5, 8, DisabledEvents(dict), Absent) >>
    <3>1. d.type # 6 /\ d.type # 17 /\ d.type # 20
      BY <1>3
    <3> QED
      BY <1>3, <3>1, Zenon DEF Report
  <2> QED
    BY <1>2, <2>2, <2>3
<1>4. CASE d.type = 6 /\ d.subtype \in {5, 9, 130}
  <2> DEFINE mem == dict["Memory"].val
             x == mem[d.memoryId][d.StartAddress]
  <2>1. KnownMemories(d)
    BY <1>4 DEF MemorySubtypes
  <2>2. d.memoryId \in MemIds /\ d.StartAddress \in Addr
    BY <1>4, <2>1 DEF KnownMemories, WellFormed
  <2>3. x \in Data
    BY <2>2 DEF MemoryValues
  <2>4. {} \in SUBSET Nat /\ {1} \in SUBSET Nat
    OBVIOUS
  <2>5. /\ Message(6, 6, {}, x) \in Messages
        /\ Message(6, 10, {}, x) \in Messages
        /\ Message(6, 131, {1}, Absent) \in Messages
    BY <2>3, <2>4, AbsentIsData, MessageTyped
  <2>6. MemoryReport(d, mem) \in { << Message(6, 6, {}, x) >>,
                                   << Message(6, 10, {}, x) >>,
                                   << Message(6, 131, {1}, Absent) >>, << >> }
    BY Zenon DEF MemoryReport
  <2>7. Report(d, dict) = MemoryReport(d, mem)
    <3>1. d.type # 5 /\ d.type # 17 /\ d.type # 20
      BY <1>4
    <3> QED
      BY <1>4, <3>1, Zenon DEF Report
  <2> QED
    BY <1>1, <1>2, <2>5, <2>6, <2>7
<1>5. CASE d.type = 17 /\ d.subtype = 128
  <2> DEFINE ids == d.VersionedItemIds
  <2>1. Len(ids) \in Nat /\ \A i \in 1..Len(ids) : ids[i] \in Nat
    BY <1>5 DEF WellFormed
  <2>2. \A i \in 1..Len(ids) : Message(8, 0, {ids[i]}, Absent) \in Messages
    BY <2>1, AbsentIsData, MessageTyped
  <2>3. Report(d, dict) =
            [i \in 1..Len(ids) |-> Message(8, 0, {ids[i]}, Absent)]
    <3>1. d.type # 5 /\ d.type # 6 /\ d.type # 20
      BY <1>5
    <3> QED
      BY <1>5, <3>1, Zenon DEF Report, VersionReport
  <2> QED
    BY <2>1, <2>2, <2>3
<1>6. CASE d.type = 20 /\ d.subtype = 1
  <2> DEFINE p == d.paramId[Len(d.paramId)]
  <2>1. d.paramId \in Seq(Nat) /\ d.paramId # << >>
    BY <1>6 DEF WellFormed
  <2>2. p \in Nat
    BY <2>1
  <2>3. Message(8, 0, {p}, Absent) \in Messages
    BY <2>2, AbsentIsData, MessageTyped
  <2>4. Report(d, dict) = << Message(8, 0, {p}, Absent) >>
    <3>1. d.type # 5 /\ d.type # 6 /\ d.type # 17
      BY <1>6
    <3> QED
      BY <1>6, <3>1, Zenon DEF Report, ParameterReport
  <2> QED
    BY <1>2, <2>3, <2>4
<1>7. CASE /\ ~(d.type = 5 /\ d.subtype = 7)
           /\ ~(d.type = 6 /\ d.subtype \in {5, 9, 130})
           /\ ~(d.type = 17 /\ d.subtype = 128)
           /\ ~(d.type = 20 /\ d.subtype = 1)
  BY <1>1, <1>7, Zenon DEF Report
<1> QED
  BY <1>3, <1>4, <1>5, <1>6, <1>7

\* A handler returns at most one message, and none of the verification
\* service, but for the messages that cmd_processing does not send: all of PUS
\* 17 and 20 have subtype 0.
LEMMA ReportShape ==
    ASSUME NEW d, WellFormed(d), NEW dict
    PROVE  /\ \/ ReportMessages(d, dict) = << >>
              \/ \E m : m.type # 1 /\ ReportMessages(d, dict) = <<m>>
           /\ d.type = 5 /\ d.subtype = 7 =>
                ReportMessages(d, dict) =
                    << Message(5, 8, DisabledEvents(dict), Absent) >>
           /\ ~(d.type = 5 /\ d.subtype = 7)
              /\ ~(d.type = 6 /\ d.subtype \in {5, 9, 130})
                => ReportMessages(d, dict) = << >>
<1>0. \A t, s, ids, x : /\ Message(t, s, ids, x).type = t
                        /\ Message(t, s, ids, x).sub = s
  BY DEF Message
<1>1. CASE d.type = 5 /\ d.subtype = 7
  <2> DEFINE m == Message(5, 8, DisabledEvents(dict), Absent)
  <2>1. d.type # 6 /\ d.type # 17 /\ d.type # 20
    BY <1>1
  <2>2. Report(d, dict) = <<m>>
    BY <1>1, <2>1, Zenon DEF Report
  <2>3. m.type = 5 /\ m.sub = 8
    BY <1>0
  <2> HIDE DEF m
  <2>4. ReportMessages(d, dict) = <<m>> /\ m.type # 1
    BY <2>2, <2>3 DEF ReportMessages
  <2> QED
    BY <1>1, <2>1, <2>4, Zenon DEF m
<1>2. CASE d.type = 6 /\ d.subtype \in {5, 9, 130}
  <2> DEFINE x  == dict["Memory"].val[d.memoryId][d.StartAddress]
             m1 == Message(6, 6, {}, x)
             m2 == Message(6, 10, {}, x)
             m3 == Message(6, 131, {1}, Absent)
  <2>1. d.type # 5 /\ d.type # 17 /\ d.type # 20
    BY <1>2
  <2>2. Report(d, dict) = MemoryReport(d, dict["Memory"].val)
    BY <1>2, <2>1, Zenon DEF Report
  <2>3. Report(d, dict) \in { <<m1>>, <<m2>>, <<m3>>, << >> }
    BY <2>2, Zenon DEF MemoryReport
  <2>4. /\ m1.type = 6 /\ m2.type = 6 /\ m3.type = 6
        /\ m1.sub # 0 /\ m2.sub # 0 /\ m3.sub # 0
    BY <1>0
  <2> HIDE DEF m1, m2, m3
  <2>5. ReportMessages(d, dict) \in { <<m1>>, <<m2>>, <<m3>>, << >> }
    BY <2>3 DEF ReportMessages
  <2>6. \/ ReportMessages(d, dict) = << >>
        \/ \E m : m.type # 1 /\ ReportMessages(d, dict) = <<m>>
    <3>1. m1.type # 1 /\ m2.type # 1 /\ m3.type # 1
      BY <2>4
    <3> QED
      BY <2>5, <3>1, Zenon
  <2> QED
    BY <1>2, <2>1, <2>6, Zenon
<1>3. CASE d.type = 17 /\ d.subtype = 128
  <2> DEFINE ids == d.VersionedItemIds
             r   == [i \in 1..Len(ids) |-> Message(8, 0, {ids[i]}, Absent)]
  <2>1. d.type # 5 /\ d.type # 6 /\ d.type # 20
    BY <1>3
  <2>2. Report(d, dict) = r
    BY <1>3, <2>1, Zenon DEF Report, VersionReport
  <2>3. Len(ids) \in Nat
    BY <1>3 DEF WellFormed
  <2>4. Len(ids) # 0 => r[1] = Message(8, 0, {ids[1]}, Absent)
    BY <2>3
  <2>5. Len(ids) = 0 => r = << >>
    BY <2>3
  <2>6. r # << >> => r[1].sub = 0
    BY <1>0, <2>4, <2>5
  <2> HIDE DEF r
  <2>7. ReportMessages(d, dict) = << >>
    BY <2>2, <2>6 DEF ReportMessages
  <2> QED
    BY <1>3, <2>7
<1>4. CASE d.type = 20 /\ d.subtype = 1
  <2> DEFINE m == Message(8, 0, {d.paramId[Len(d.paramId)]}, Absent)
  <2>1. d.type # 5 /\ d.type # 6 /\ d.type # 17
    BY <1>4
  <2>2. Report(d, dict) = <<m>>
    BY <1>4, <2>1, Zenon DEF Report, ParameterReport
  <2>3. m.sub = 0
    BY <1>0
  <2> HIDE DEF m
  <2>4. ReportMessages(d, dict) = << >>
    BY <2>2, <2>3 DEF ReportMessages
  <2> QED
    BY <1>4, <2>4
<1>5. CASE /\ ~(d.type = 5 /\ d.subtype = 7)
           /\ ~(d.type = 6 /\ d.subtype \in {5, 9, 130})
           /\ ~(d.type = 17 /\ d.subtype = 128)
           /\ ~(d.type = 20 /\ d.subtype = 1)
  <2>1. Report(d, dict) = << >>
    BY <1>5, Zenon DEF Report
  <2> QED
    BY <1>5, <2>1 DEF ReportMessages
<1> QED
  BY <1>1, <1>2, <1>3, <1>4, <1>5

\* cmd_processing has something to send for every implemented service.
LEMMA AnswersTyped ==
    ASSUME NEW d, WellFormed(d), d.type \in Implemented, NEW dict,
           dict["Memory"].val \in MemoryValues,
           d.type = 6 /\ d.subtype \in MemorySubtypes => KnownMemories(d),
           NEW row \in [failed : BOOLEAN]
    PROVE  /\ Answers(d, dict, row) \in Seq(Messages)
           /\ Answers(d, dict, row) # << >>
<1>1. ReportMessages(d, dict) \in Seq(Messages)
  BY ReportTyped DEF ReportMessages
<1>2. Completion(row) \in Messages
  BY VerificationTyped
<1> QED
  BY <1>1, <1>2 DEF Answers
=============================================================================
