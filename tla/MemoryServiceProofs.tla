------------------------- MODULE MemoryServiceProofs -------------------------
(***************************************************************************)
(* Proofs about PUS 6 and the text of its row, for any addresses, blocks   *)
(* and commands: the text decodes to what the services store, it holds one *)
(* address per memory, and its length is what the column and the clients   *)
(* take.                                                                   *)
(***************************************************************************)
EXTENDS MemoryService, BcrServicesProofs, FiniteSetTheorems

-----------------------------------------------------------------------------
(* Encoding and decoding                                                   *)

Texts == [MemIds -> [str : Maps, num : Maps]]

Decoded(r) == [m \in MemIds |-> Decode(r[m])]

LEMMA DecodeTyped ==
    ASSUME NEW r \in Texts
    PROVE  /\ Decoded(r) \in MemoryValues
           /\ \A m \in MemIds, a \in Addr :
                /\ Decoded(r)[m][a] = IF r[m].num[a] # Absent
                                      THEN r[m].num[a] ELSE r[m].str[a]
                /\ Decoded(r)[m] = Decode(r[m])
  BY DEF Texts, Maps, Decoded, Decode, MemoryValues

LEMMA MemoryTyped == TypeOK => Memory \in MemoryValues /\ Memory = Decoded(row)
  BY DecodeTyped DEF TypeOK, Texts, Memory, Decoded

LEMMA StringsAt ==
    ASSUME TypeOK
    PROVE  /\ Strings \in Texts
           /\ \A m \in MemIds : Strings[m] = [str |-> Memory[m], num |-> NoKeys]
           /\ \A m \in MemIds, a \in Addr : /\ Strings[m].str[a] = Memory[m][a]
                                            /\ Strings[m].num[a] = Absent
  BY MemoryTyped, AbsentIsData
     DEF Strings, Texts, Maps, NoKeys, MemoryValues

\* The text of memory m that each way of encoding leaves.
LEMMA FormsOf ==
    ASSUME TypeOK, NEW m \in MemIds, NEW a \in Addr, NEW x \in Data
    PROVE  /\ UnderString(m, a, x) =
                  [Strings EXCEPT ![m] =
                      [str |-> [Memory[m] EXCEPT ![a] = x], num |-> NoKeys]]
           /\ UnderNumber(m, a, x) =
                  [Strings EXCEPT ![m] =
                      [str |-> Memory[m], num |-> [NoKeys EXCEPT ![a] = x]]]
<1>1. Strings[m] = [str |-> Memory[m], num |-> NoKeys] /\ Strings \in Texts
  BY StringsAt
<1>2. UnderString(m, a, x) =
          [Strings EXCEPT ![m] =
              [Strings[m] EXCEPT !.str = [Strings[m].str EXCEPT ![a] = x]]]
  BY <1>1 DEF UnderString, Texts
<1>3. UnderNumber(m, a, x) =
          [Strings EXCEPT ![m] =
              [Strings[m] EXCEPT !.num = [Strings[m].num EXCEPT ![a] = x]]]
  BY <1>1 DEF UnderNumber, Texts
<1>4. UnderString(m, a, x) =
          [Strings EXCEPT ![m] =
              [str |-> [Memory[m] EXCEPT ![a] = x], num |-> NoKeys]]
  <2>1. [Strings[m] EXCEPT !.str = [Strings[m].str EXCEPT ![a] = x]] =
            [str |-> [Memory[m] EXCEPT ![a] = x], num |-> NoKeys]
    BY <1>1
  <2> QED
    BY <1>2, <2>1, Zenon
<1>5. UnderNumber(m, a, x) =
          [Strings EXCEPT ![m] =
              [str |-> Memory[m], num |-> [NoKeys EXCEPT ![a] = x]]]
  <2>1. [Strings[m] EXCEPT !.num = [Strings[m].num EXCEPT ![a] = x]] =
            [str |-> Memory[m], num |-> [NoKeys EXCEPT ![a] = x]]
    BY <1>1
  <2> QED
    BY <1>3, <2>1, Zenon
<1> QED
  BY <1>4, <1>5

LEMMA FormsTyped ==
    ASSUME TypeOK, NEW m \in MemIds, NEW a \in Addr, NEW x \in Data
    PROVE  /\ Alone(m, a, x) \in Texts
           /\ UnderString(m, a, x) \in Texts
           /\ UnderNumber(m, a, x) \in Texts
<1>1. Memory[m] \in Maps /\ Strings \in Texts
  BY MemoryTyped, StringsAt DEF MemoryValues, Maps
<1>2. /\ [b \in Addr |-> IF b = a THEN x ELSE Absent] \in Maps
      /\ NoKeys \in Maps
  BY AbsentIsData DEF NoKeys, Maps
<1>3. [Memory[m] EXCEPT ![a] = x] \in Maps /\ [NoKeys EXCEPT ![a] = x] \in Maps
  BY <1>1, <1>2 DEF Maps
<1>4. ASSUME NEW s \in Maps, NEW t \in Maps
      PROVE  [Strings EXCEPT ![m] = [str |-> s, num |-> t]] \in Texts
  BY <1>1, <1>4 DEF Texts
<1>5. UnderString(m, a, x) \in Texts /\ UnderNumber(m, a, x) \in Texts
  <2>1. /\ [Strings EXCEPT ![m] =
                [str |-> [Memory[m] EXCEPT ![a] = x], num |-> NoKeys]] \in Texts
        /\ [Strings EXCEPT ![m] =
                [str |-> Memory[m], num |-> [NoKeys EXCEPT ![a] = x]]] \in Texts
    BY <1>1, <1>2, <1>3, <1>4
  <2> QED
    BY <2>1, FormsOf, Zenon
<1>6. Alone(m, a, x) \in Texts
  BY <1>2, <1>4 DEF Alone
<1> QED
  BY <1>5, <1>6

LEMMA FormsAt ==
    ASSUME TypeOK, NEW m \in MemIds, NEW a \in Addr, NEW x \in Data,
           NEW n \in MemIds, NEW b \in Addr
    PROVE  /\ Alone(m, a, x)[n].str[b] =
                  IF n # m THEN Memory[n][b] ELSE IF b = a THEN x ELSE Absent
           /\ Alone(m, a, x)[n].num[b] = Absent
           /\ UnderString(m, a, x)[n].str[b] =
                  IF n = m /\ b = a THEN x ELSE Memory[n][b]
           /\ UnderString(m, a, x)[n].num[b] = Absent
           /\ UnderNumber(m, a, x)[n].str[b] = Memory[n][b]
           /\ UnderNumber(m, a, x)[n].num[b] =
                  IF n = m /\ b = a THEN x ELSE Absent
<1>1. /\ Strings \in Texts /\ Memory[m] \in Maps
      /\ Strings[n].str[b] = Memory[n][b] /\ Strings[n].num[b] = Absent
  BY MemoryTyped, StringsAt DEF MemoryValues, Maps
<1>2. NoKeys[b] = Absent /\ NoKeys \in Maps
  BY AbsentIsData DEF NoKeys, Maps
<1>3. ASSUME NEW t
      PROVE  [Strings EXCEPT ![m] = t][n] = IF n = m THEN t ELSE Strings[n]
  BY <1>1 DEF Texts
<1>4. ASSUME NEW f \in Maps
      PROVE  [f EXCEPT ![a] = x][b] = IF b = a THEN x ELSE f[b]
  BY <1>4 DEF Maps
<1>5. /\ Alone(m, a, x)[n].str[b] =
             IF n # m THEN Memory[n][b] ELSE IF b = a THEN x ELSE Absent
      /\ Alone(m, a, x)[n].num[b] = Absent
  BY <1>1, <1>2, <1>3 DEF Alone
<1>6. /\ UnderString(m, a, x)[n].str[b] =
             IF n = m /\ b = a THEN x ELSE Memory[n][b]
      /\ UnderString(m, a, x)[n].num[b] = Absent
  <2>1. UnderString(m, a, x)[n] =
            IF n = m
            THEN [str |-> [Memory[m] EXCEPT ![a] = x], num |-> NoKeys]
            ELSE Strings[n]
    <3> DEFINE t == [str |-> [Memory[m] EXCEPT ![a] = x], num |-> NoKeys]
    <3>1. UnderString(m, a, x) = [Strings EXCEPT ![m] = t]
      BY FormsOf
    <3> HIDE DEF t
    <3>2. [Strings EXCEPT ![m] = t][n] = IF n = m THEN t ELSE Strings[n]
      BY <1>3
    <3> QED
      BY <3>1, <3>2 DEF t
  <2>2. [Memory[m] EXCEPT ![a] = x][b] = IF b = a THEN x ELSE Memory[m][b]
    BY <1>1, <1>4
  <2>3. CASE n = m
    <3>1. /\ UnderString(m, a, x)[n].str = [Memory[m] EXCEPT ![a] = x]
          /\ UnderString(m, a, x)[n].num = NoKeys
      BY <2>1, <2>3
    <3> QED
      BY <1>2, <2>2, <2>3, <3>1
  <2>4. CASE n # m
    BY <1>1, <2>1, <2>4
  <2> QED
    BY <2>3, <2>4
<1>7. /\ UnderNumber(m, a, x)[n].str[b] = Memory[n][b]
      /\ UnderNumber(m, a, x)[n].num[b] =
             IF n = m /\ b = a THEN x ELSE Absent
  <2>1. UnderNumber(m, a, x)[n] =
            IF n = m
            THEN [str |-> Memory[m], num |-> [NoKeys EXCEPT ![a] = x]]
            ELSE Strings[n]
    <3> DEFINE t == [str |-> Memory[m], num |-> [NoKeys EXCEPT ![a] = x]]
    <3>1. UnderNumber(m, a, x) = [Strings EXCEPT ![m] = t]
      BY FormsOf
    <3> HIDE DEF t
    <3>2. [Strings EXCEPT ![m] = t][n] = IF n = m THEN t ELSE Strings[n]
      BY <1>3
    <3> QED
      BY <3>1, <3>2 DEF t
  <2>2. [NoKeys EXCEPT ![a] = x][b] = IF b = a THEN x ELSE Absent
    BY <1>2, <1>4
  <2>3. CASE n = m
    <3>1. /\ UnderNumber(m, a, x)[n].str = Memory[m]
          /\ UnderNumber(m, a, x)[n].num = [NoKeys EXCEPT ![a] = x]
      BY <2>1, <2>3
    <3> QED
      BY <2>2, <2>3, <3>1
  <2>4. CASE n # m
    BY <1>1, <2>1, <2>4
  <2> QED
    BY <2>3, <2>4
<1> QED
  BY <1>5, <1>6, <1>7

LEMMA SameMemory ==
    ASSUME NEW v \in MemoryValues, NEW w \in MemoryValues,
           \A n \in MemIds, b \in Addr : v[n][b] = w[n][b]
    PROVE  v = w
  BY DEF MemoryValues

LEMMA StringsDecode == TypeOK => Decoded(Strings) = Memory
<1> SUFFICES ASSUME TypeOK PROVE Decoded(Strings) = Memory
  OBVIOUS
<1>1. Memory \in MemoryValues /\ Decoded(Strings) \in MemoryValues
  BY MemoryTyped, StringsAt, DecodeTyped
<1>2. \A n \in MemIds, b \in Addr : Decoded(Strings)[n][b] = Memory[n][b]
  BY StringsAt, DecodeTyped
<1> QED
  BY <1>1, <1>2, SameMemory

\* What the other ways of encoding decode to.
LEMMA FormsDecode ==
    ASSUME TypeOK, NEW m \in MemIds, NEW a \in Addr, NEW x \in Data \ {Absent}
    PROVE  /\ Decoded(Alone(m, a, x)) = PutAlone(Memory, m, a, x)
           /\ Decoded(UnderString(m, a, x)) = Put(Memory, m, a, x)
           /\ Decoded(UnderNumber(m, a, x)) = Put(Memory, m, a, x)
<1>1. Memory \in MemoryValues
  BY MemoryTyped
<1>2. /\ Put(Memory, m, a, x) \in MemoryValues
      /\ PutAlone(Memory, m, a, x) \in MemoryValues
  BY <1>1, PutTyped, PutAloneTyped
<1>3. Decoded(Alone(m, a, x)) = PutAlone(Memory, m, a, x)
  <2>1. Decoded(Alone(m, a, x)) \in MemoryValues
    BY FormsTyped, DecodeTyped
  <2>2. ASSUME NEW n \in MemIds, NEW b \in Addr
        PROVE  Decoded(Alone(m, a, x))[n][b] = PutAlone(Memory, m, a, x)[n][b]
    BY <1>1, FormsTyped, FormsAt, DecodeTyped, PutAt
  <2> QED
    BY <1>2, <2>1, <2>2, SameMemory
<1>4. Decoded(UnderString(m, a, x)) = Put(Memory, m, a, x)
  <2>1. Decoded(UnderString(m, a, x)) \in MemoryValues
    BY FormsTyped, DecodeTyped
  <2>2. ASSUME NEW n \in MemIds, NEW b \in Addr
        PROVE  Decoded(UnderString(m, a, x))[n][b] = Put(Memory, m, a, x)[n][b]
    BY <1>1, FormsTyped, FormsAt, DecodeTyped, PutAt
  <2> QED
    BY <1>2, <2>1, <2>2, SameMemory
<1>5. Decoded(UnderNumber(m, a, x)) = Put(Memory, m, a, x)
  <2>1. Decoded(UnderNumber(m, a, x)) \in MemoryValues
    BY FormsTyped, DecodeTyped
  <2>2. ASSUME NEW n \in MemIds, NEW b \in Addr
        PROVE  Decoded(UnderNumber(m, a, x))[n][b] = Put(Memory, m, a, x)[n][b]
    BY <1>1, FormsTyped, FormsAt, DecodeTyped, PutAt
  <2> QED
    BY <1>2, <2>1, <2>2, SameMemory
<1> QED
  BY <1>3, <1>4, <1>5
-----------------------------------------------------------------------------
(* What a command does                                                     *)

\* Command c puts x at address a of memory m.
Writes(c, m, a, x) ==
    \/ /\ c.subtype = 2 /\ m = c.memoryId /\ a = c.StartAddress
       /\ x = c.dataToLoad /\ Memory[m][a] # Unhealthy
    \/ /\ c.subtype = 128 /\ m = c.dstMemoryId /\ a = c.dstAddress
       /\ Readable(Memory, c.memoryId, c.StartAddress)
       /\ x = Memory[c.memoryId][c.StartAddress] /\ Holds(Memory, m, a)
    \/ /\ c.subtype = 129 /\ m = c.memoryId /\ a = c.StartAddress
       /\ x = Zeros /\ Holds(Memory, m, a)
    \/ /\ c.subtype = 132 /\ m = c.memoryId /\ a = c.StartAddress
       /\ x = Unhealthy

\* r is what update_db is given, with x alone in memory m ...
Renewed(r, c, m, a, x) ==
    /\ r = Alone(m, a, x)
    /\ MemoryAfter(Memory, c) = PutAlone(Memory, m, a, x)
    /\ LeftBehind(Memory, c) = 0

\* ... or in the place of what is there, perhaps under a second key.
Replaced(r, c, m, a, x) ==
    /\ Holds(Memory, m, a)
    /\ MemoryAfter(Memory, c) = Put(Memory, m, a, x)
    /\ \/ r = UnderString(m, a, x) /\ LeftBehind(Memory, c) = 0
       \/ /\ r = UnderNumber(m, a, x)
          /\ LeftBehind(Memory, c) = EntryText(Memory[m][a])

Encodes(r, c) ==
    \/ /\ r = Strings /\ MemoryAfter(Memory, c) = Memory
       /\ LeftBehind(Memory, c) = 0
    \/ \E m \in MemIds, a \in Addr, x \in Data \ {Absent} :
           Writes(c, m, a, x) /\ (Renewed(r, c, m, a, x)
                                     \/ Replaced(r, c, m, a, x))

LEMMA WriteEncodes ==
    ASSUME NEW c, NEW m \in MemIds, NEW a \in Addr, NEW x \in Data \ {Absent},
           NEW r, Writes(c, m, a, x),
           Renewed(r, c, m, a, x) \/ Replaced(r, c, m, a, x)
    PROVE  Encodes(r, c)
  BY DEF Encodes

LEMMA AfterCases ==
    ASSUME NEW mem, NEW d
    PROVE  /\ d.subtype = 2   => MemoryAfter(mem, d) = LoadMemory(mem, d)
           /\ d.subtype = 128 => MemoryAfter(mem, d) = CopyMemory(mem, d)
           /\ d.subtype = 129 => MemoryAfter(mem, d) = EraseMemory(mem, d)
           /\ d.subtype = 132 => MemoryAfter(mem, d) = ChangeHealth(mem, d)
  BY DEF MemoryAfter

\* What each command leaves behind.
LEMMA LeftCases ==
    ASSUME NEW mem, NEW d, d.numeric \in BOOLEAN
    PROVE  /\ d.subtype = 2 => LeftBehind(mem, d) =
                  IF d.numeric /\ Readable(mem, d.memoryId, d.StartAddress)
                  THEN EntryText(mem[d.memoryId][d.StartAddress]) ELSE 0
           /\ d.subtype = 128 => LeftBehind(mem, d) =
                  IF d.numeric /\ Readable(mem, d.dstMemoryId, d.dstAddress)
                  THEN EntryText(mem[d.dstMemoryId][d.dstAddress]) ELSE 0
           /\ d.subtype \notin {2, 128} => LeftBehind(mem, d) = 0
           /\ ~d.numeric => LeftBehind(mem, d) = 0
<1>1. CASE d.subtype = 2
  <2>1. LeftBehind(mem, d) =
            IF d.numeric /\ Readable(mem, d.memoryId, d.StartAddress)
            THEN EntryText(mem[d.memoryId][d.StartAddress]) ELSE 0
    <3>1. d.subtype # 128
      BY <1>1
    <3> QED
      BY <1>1, <3>1, Zenon DEF LeftBehind
  <2> QED
    BY <1>1, <2>1
<1>2. CASE d.subtype = 128
  <2>1. d.subtype # 2
    BY <1>2
  <2> QED
    BY <1>2, <2>1, Zenon DEF LeftBehind
<1>3. CASE d.subtype \notin {2, 128}
  <2>1. d.subtype # 2 /\ d.subtype # 128
    BY <1>3
  <2> QED
    BY <1>3, <2>1, Zenon DEF LeftBehind
<1> QED
  BY <1>1, <1>2, <1>3

LEMMA CommandFields ==
    ASSUME NEW c \in Commands, KnownMemories(c)
    PROVE  /\ c.memoryId \in MemIds /\ c.StartAddress \in Addr
           /\ c.dstAddress \in Addr
           /\ c.subtype = 128 => c.dstMemoryId \in MemIds
           /\ c.dataToLoad \in Blocks \cup {EmptyBlock}
           /\ c.dataToLoad \in Data \ {Absent} /\ c.healthy \in Nat
           /\ WellFormed(c) /\ c.type = 6 /\ c.numeric \in BOOLEAN
  BY CommandsAssumption, BlocksAssumption
     DEF WellFormed, KnownMemories, Data, EmptyBlock, Absent

LEMMA LoadEncodes ==
    ASSUME TypeOK, NEW c \in Commands, Load(c)
    PROVE  StoresMemory(Memory, c) /\ \E r : Encodes(r, c) /\ Store(r)
<1> DEFINE m == c.memoryId
           a == c.StartAddress
           x == c.dataToLoad
<1>1. /\ c.subtype = 2 /\ m \in MemIds /\ a \in Addr
      /\ x \in Data \ {Absent} /\ c.numeric \in BOOLEAN
  BY CommandFields DEF Load, Take
<1>2. /\ MemoryAfter(Memory, c) = LoadMemory(Memory, c)
      /\ LeftBehind(Memory, c) =
             IF c.numeric /\ Readable(Memory, m, a)
             THEN EntryText(Memory[m][a]) ELSE 0
  <2>1. c.subtype = 2 /\ c.numeric \in BOOLEAN
    BY <1>1
  <2> QED
    BY <2>1, AfterCases, LeftCases
<1> HIDE DEF m, a, x
<1> SUFFICES \E r : Encodes(r, c) /\ Store(r)
  BY <1>1 DEF StoresMemory
<1>3. CASE Memory[m][a] = Absent
  <2>1. Store(Alone(m, a, x))
    BY <1>3 DEF Load, Absent, Unhealthy, m, a, x
  <2>2. LoadMemory(Memory, c) = PutAlone(Memory, m, a, x)
    BY <1>3 DEF LoadMemory, Holds, Readable, m, a, x
  <2>3. Writes(c, m, a, x)
    BY <1>1, <1>3 DEF Writes, Absent, Unhealthy, m, a, x
  <2>4. Renewed(Alone(m, a, x), c, m, a, x)
    BY <1>2, <1>3, <2>2 DEF Renewed, Readable
  <2>5. Encodes(Alone(m, a, x), c)
    BY <1>1, <2>3, <2>4, WriteEncodes
  <2> QED
    BY <2>1, <2>5
<1>4. CASE Memory[m][a] = Unhealthy
  <2>1. Store(Strings)
    BY <1>4 DEF Load, Absent, Unhealthy, m, a, x
  <2>2. LoadMemory(Memory, c) = Memory
    BY <1>4 DEF LoadMemory, Holds, Readable, Absent, Unhealthy, m, a, x
  <2> QED
    BY <1>2, <1>4, <2>1, <2>2 DEF Encodes, Readable
<1>5. CASE Memory[m][a] \notin {Absent, Unhealthy}
  <2>1. Store(AsSent(c, m, a, x))
    BY <1>5 DEF Load, m, a, x
  <2>2. LoadMemory(Memory, c) = Put(Memory, m, a, x) /\ Holds(Memory, m, a)
    BY <1>5 DEF LoadMemory, Holds, Readable, m, a, x
  <2>3. Writes(c, m, a, x)
    BY <1>1, <1>5 DEF Writes, m, a, x
  <2>4. Replaced(AsSent(c, m, a, x), c, m, a, x)
    BY <1>1, <1>2, <1>5, <2>2 DEF Replaced, AsSent, Readable
  <2>5. Encodes(AsSent(c, m, a, x), c)
    BY <1>1, <2>3, <2>4, WriteEncodes
  <2> QED
    BY <2>1, <2>5
<1> QED
  BY <1>3, <1>4, <1>5

LEMMA CopyEncodes ==
    ASSUME TypeOK, NEW c \in Commands, Copy(c)
    PROVE  IF StoresMemory(Memory, c)
           THEN \E r : Encodes(r, c) /\ Store(r) ELSE UNCHANGED <<row, up>>
<1> DEFINE src == Memory[c.memoryId][c.StartAddress]
           m   == c.dstMemoryId
           a   == c.dstAddress
<1>1. /\ c.subtype = 128 /\ m \in MemIds /\ a \in Addr
      /\ c.numeric \in BOOLEAN
      /\ c.memoryId \in MemIds /\ c.StartAddress \in Addr
  BY CommandFields DEF Copy, Take
<1>2. /\ MemoryAfter(Memory, c) = CopyMemory(Memory, c)
      /\ LeftBehind(Memory, c) =
             IF c.numeric /\ Readable(Memory, m, a)
             THEN EntryText(Memory[m][a]) ELSE 0
  <2>1. c.subtype = 128 /\ c.numeric \in BOOLEAN
    BY <1>1
  <2> QED
    BY <2>1, AfterCases, LeftCases
<1>3. src \in Data
  BY <1>1, MemoryTyped DEF MemoryValues
<1>4. CASE src \in {Absent, Unhealthy}
  BY <1>1, <1>4 DEF Copy, StoresMemory, Readable
<1>stores. src \notin {Absent, Unhealthy} => StoresMemory(Memory, c)
  BY <1>1 DEF StoresMemory, Readable
<1>5. CASE src \notin {Absent, Unhealthy} /\ Memory[m][a] = Absent
  <2>1. Store(Strings)
    BY <1>5 DEF Copy, Absent, Unhealthy
  <2>2. CopyMemory(Memory, c) = Memory
    BY <1>5 DEF CopyMemory, Readable, Absent, Unhealthy
  <2> QED
    BY <1>2, <1>5, <1>stores, <2>1, <2>2 DEF Encodes, Readable
<1>6. CASE src \notin {Absent, Unhealthy} /\ Memory[m][a] # Absent
  <2>1. Writes(c, m, a, src)
    BY <1>1, <1>6 DEF Writes, Readable, Holds
  <2>2. src \in Data \ {Absent}
    BY <1>3, <1>6
  <2>3. CASE Memory[m][a] = Unhealthy
    <3>1. Store(Alone(m, a, src))
      BY <1>6, <2>3 DEF Copy, Absent, Unhealthy
    <3>2. CopyMemory(Memory, c) = PutAlone(Memory, m, a, src)
      BY <2>3 DEF CopyMemory, Readable, Absent, Unhealthy
    <3>3. Renewed(Alone(m, a, src), c, m, a, src)
      BY <1>2, <2>3, <3>2 DEF Renewed, Readable
    <3>4. Encodes(Alone(m, a, src), c)
      BY <1>1, <2>1, <2>2, <3>3, WriteEncodes
    <3> QED
      BY <1>6, <1>stores, <3>1, <3>4
  <2>4. CASE Memory[m][a] # Unhealthy
    <3>1. Store(AsSent(c, m, a, src))
      BY <1>6, <2>4 DEF Copy
    <3>2. CopyMemory(Memory, c) = Put(Memory, m, a, src) /\ Holds(Memory, m, a)
      BY <1>6, <2>4 DEF CopyMemory, Readable, Holds
    <3>3. Replaced(AsSent(c, m, a, src), c, m, a, src)
      BY <1>1, <1>2, <1>6, <2>4, <3>2 DEF Replaced, AsSent, Readable
    <3>4. Encodes(AsSent(c, m, a, src), c)
      BY <1>1, <2>1, <2>2, <3>3, WriteEncodes
    <3> QED
      BY <1>6, <1>stores, <3>1, <3>4
  <2> QED
    BY <2>3, <2>4
<1> QED
  BY <1>4, <1>5, <1>6

LEMMA EraseEncodes ==
    ASSUME TypeOK, NEW c \in Commands, Erase(c)
    PROVE  IF StoresMemory(Memory, c)
           THEN \E r : Encodes(r, c) /\ Store(r) ELSE UNCHANGED <<row, up>>
<1> DEFINE m == c.memoryId
           a == c.StartAddress
<1>1. c.subtype = 129 /\ m \in MemIds /\ a \in Addr
  BY CommandFields DEF Erase, Take
<1>left. LeftBehind(Memory, c) = 0
  <2>1. c.subtype \notin {2, 128} /\ c.numeric \in BOOLEAN
    BY CommandFields DEF Erase, Take
  <2> QED
    BY <2>1, LeftCases
<1>2. CASE Memory[m][a] = Absent
  BY <1>1, <1>2 DEF Erase, StoresMemory, Holds
<1>3. CASE Memory[m][a] # Absent
  <2>1. Store(UnderString(m, a, Zeros)) /\ Holds(Memory, m, a)
    BY <1>3 DEF Erase, Holds
  <2>2. MemoryAfter(Memory, c) = Put(Memory, m, a, Zeros)
    BY <1>1, AfterCases DEF EraseMemory
  <2>3. Writes(c, m, a, Zeros) /\ Zeros \in Data \ {Absent}
    BY <1>1, <2>1 DEF Writes, Data, Zeros, Absent
  <2>4. Replaced(UnderString(m, a, Zeros), c, m, a, Zeros)
    BY <2>1, <2>2, <1>left DEF Replaced
  <2>5. Encodes(UnderString(m, a, Zeros), c)
    BY <1>1, <2>3, <2>4, WriteEncodes
  <2> QED
    BY <1>1, <2>1, <2>5 DEF StoresMemory
<1> QED
  BY <1>2, <1>3

LEMMA ChangeHealthEncodes ==
    ASSUME TypeOK, NEW c \in Commands, ChangeHealthOf(c)
    PROVE  StoresMemory(Memory, c) /\ \E r : Encodes(r, c) /\ Store(r)
<1> DEFINE m == c.memoryId
           a == c.StartAddress
<1>1. c.subtype = 132 /\ m \in MemIds /\ a \in Addr
  BY CommandFields DEF ChangeHealthOf, Take
<1>2. MemoryAfter(Memory, c) = ChangeHealth(Memory, c)
  BY <1>1, AfterCases
<1>left. LeftBehind(Memory, c) = 0
  <2>1. c.subtype \notin {2, 128} /\ c.numeric \in BOOLEAN
    BY CommandFields DEF ChangeHealthOf, Take
  <2> QED
    BY <2>1, LeftCases
<1> SUFFICES \E r : Encodes(r, c) /\ Store(r)
  BY <1>1 DEF StoresMemory
<1>3. Writes(c, m, a, Unhealthy) /\ Unhealthy \in Data \ {Absent}
  BY <1>1 DEF Writes, Data, Unhealthy, Absent
<1>4. CASE c.healthy # 0
  <2>1. Store(Strings)
    BY <1>4 DEF ChangeHealthOf
  <2>2. ChangeHealth(Memory, c) = Memory
    BY <1>4 DEF ChangeHealth
  <2> QED
    BY <1>2, <1>left, <2>1, <2>2 DEF Encodes
<1>5. CASE c.healthy = 0 /\ Memory[m][a] = Absent
  <2>1. Store(Alone(m, a, Unhealthy))
    BY <1>5 DEF ChangeHealthOf
  <2>2. ChangeHealth(Memory, c) = PutAlone(Memory, m, a, Unhealthy)
    BY <1>5 DEF ChangeHealth, Holds
  <2>3. Renewed(Alone(m, a, Unhealthy), c, m, a, Unhealthy)
    BY <1>2, <1>left, <2>2 DEF Renewed
  <2>4. Encodes(Alone(m, a, Unhealthy), c)
    BY <1>1, <1>3, <2>3, WriteEncodes
  <2> QED
    BY <2>1, <2>4
<1>6. CASE c.healthy = 0 /\ Memory[m][a] # Absent
  <2>1. Store(UnderString(m, a, Unhealthy)) /\ Holds(Memory, m, a)
    BY <1>6 DEF ChangeHealthOf, Holds
  <2>2. ChangeHealth(Memory, c) = Put(Memory, m, a, Unhealthy)
    BY <1>6 DEF ChangeHealth, Holds
  <2>3. Replaced(UnderString(m, a, Unhealthy), c, m, a, Unhealthy)
    BY <1>2, <1>left, <2>1, <2>2 DEF Replaced
  <2>4. Encodes(UnderString(m, a, Unhealthy), c)
    BY <1>1, <1>3, <2>3, WriteEncodes
  <2> QED
    BY <2>1, <2>4
<1> QED
  BY <1>4, <1>5, <1>6

LEMMA EncodesFacts ==
    ASSUME TypeOK, Single(Memory), NEW c, NEW r, Encodes(r, c)
    PROVE  /\ r \in Texts
           /\ Decoded(r) = MemoryAfter(Memory, c)
           /\ Single(Decoded(r))
<1>1. Memory \in MemoryValues
  BY MemoryTyped
<1>2. CASE r = Strings /\ MemoryAfter(Memory, c) = Memory
  BY <1>2, StringsAt, StringsDecode
<1>3. ASSUME NEW m \in MemIds, NEW a \in Addr, NEW x \in Data \ {Absent},
             Renewed(r, c, m, a, x) \/ Replaced(r, c, m, a, x)
      PROVE  /\ r \in Texts
             /\ Decoded(r) = MemoryAfter(Memory, c)
             /\ Single(Decoded(r))
  <2>1. /\ Single(PutAlone(Memory, m, a, x))
        /\ Holds(Memory, m, a) => Single(Put(Memory, m, a, x))
    BY <1>1, PutSingle
  <2>2. CASE Renewed(r, c, m, a, x)
    BY <2>1, <2>2, FormsTyped, FormsDecode DEF Renewed
  <2>3. CASE Replaced(r, c, m, a, x)
    BY <2>1, <2>3, FormsTyped, FormsDecode DEF Replaced
  <2> QED
    BY <1>3, <2>2, <2>3
<1> QED
  BY <1>2, <1>3 DEF Encodes

\* Every command ends the listener or leaves it alive, and hands update_db an
\* encoding just when StoresMemory says that it stores.
LEMMA StepFacts ==
    ASSUME TypeOK, Next
    PROVE  \E c \in Commands :
              /\ tc' = c
              /\ \/ UNCHANGED row /\ Look(c)
                 \/ UNCHANGED row /\ UnknownMemory(c)
                 \/ /\ KnownMemories(c) /\ c.subtype \in {2, 128, 129, 132}
                    /\ reports' = << >>
                    /\ IF StoresMemory(Memory, c)
                       THEN \E r : Encodes(r, c) /\ Store(r)
                       ELSE UNCHANGED <<row, up>>
<1>1. PICK c \in Commands : \/ Load(c) \/ Look(c) \/ Copy(c) \/ Erase(c)
                            \/ ChangeHealthOf(c) \/ UnknownMemory(c)
  BY DEF Next
<1>2. CASE Look(c) \/ UnknownMemory(c)
  BY <1>2 DEF Look, UnknownMemory, Take
<1>3. CASE Load(c) \/ Copy(c) \/ Erase(c) \/ ChangeHealthOf(c)
  <2>1. /\ tc' = c /\ KnownMemories(c) /\ c.subtype \in {2, 128, 129, 132}
        /\ reports' = << >>
    BY <1>3 DEF Load, Copy, Erase, ChangeHealthOf, Take
  <2>2. IF StoresMemory(Memory, c)
        THEN \E r : Encodes(r, c) /\ Store(r) ELSE UNCHANGED <<row, up>>
    BY <1>3, LoadEncodes, CopyEncodes, EraseEncodes, ChangeHealthEncodes
  <2> QED
    BY <2>1, <2>2
<1> QED
  BY <1>1, <1>2, <1>3

-----------------------------------------------------------------------------
(* Type correctness and the keys of a memory                               *)

MemInv == TypeOK /\ Single(Memory)

LEMMA ReportedTyped ==
    ASSUME TypeOK, NEW c \in Commands, KnownMemories(c)
    PROVE  MemoryReport(c, Memory) \in Seq(Messages)
<1> DEFINE x == Memory[c.memoryId][c.StartAddress]
<1>1. x \in Data
  BY CommandFields, MemoryTyped DEF MemoryValues
<1>2. {} \in SUBSET Nat /\ {1} \in SUBSET Nat
  OBVIOUS
<1>3. /\ Message(6, 6, {}, x) \in Messages
      /\ Message(6, 10, {}, x) \in Messages
      /\ Message(6, 131, {1}, Absent) \in Messages
  BY <1>1, <1>2, AbsentIsData, MessageTyped
<1>4. MemoryReport(c, Memory) \in { << Message(6, 6, {}, x) >>,
                                    << Message(6, 10, {}, x) >>,
                                    << Message(6, 131, {1}, Absent) >>, << >> }
  BY Zenon DEF MemoryReport
<1>5. << >> \in Seq(Messages) /\ \A m \in Messages : <<m>> \in Seq(Messages)
  OBVIOUS
<1> QED
  BY <1>3, <1>4, <1>5

LEMMA InitMem == Init => MemInv /\ \A m \in MemIds : row[m] = Unkeyed
<1> SUFFICES ASSUME Init PROVE MemInv /\ \A m \in MemIds : row[m] = Unkeyed
  OBVIOUS
<1>1. NoKeys \in Maps
  BY AbsentIsData DEF NoKeys, Maps
<1>2. TypeOK
  BY <1>1 DEF Init, TypeOK, Unkeyed
<1>3. \A m \in MemIds, a \in Addr : Memory[m][a] = Absent
  BY DEF Init, Unkeyed, Memory, Decode, NoKeys
<1> QED
  BY <1>2, <1>3 DEF MemInv, Single, Holds, Init

LEMMA MemKept == MemInv /\ [Next]_vars => MemInv'
<1> SUFFICES ASSUME MemInv, [Next]_vars PROVE MemInv'
  OBVIOUS
<1>1. CASE UNCHANGED vars
  BY <1>1 DEF MemInv, TypeOK, vars, Single, Holds, Memory
<1>2. CASE Next
  <2>1. << >> \in Seq(Messages)
    OBVIOUS
  <2>2. PICK c \in Commands :
            /\ tc' = c
            /\ \/ UNCHANGED row /\ Look(c)
               \/ UNCHANGED row /\ UnknownMemory(c)
               \/ /\ KnownMemories(c) /\ c.subtype \in {2, 128, 129, 132}
                  /\ reports' = << >>
                  /\ IF StoresMemory(Memory, c)
                     THEN \E r : Encodes(r, c) /\ Store(r)
                     ELSE UNCHANGED <<row, up>>
    BY <1>2, StepFacts DEF MemInv
  <2>3. up' \in BOOLEAN /\ reports' \in Seq(Messages)
    <3>1. CASE Look(c)
      BY <2>1, <3>1, ReportedTyped DEF Look, Take, MemInv, TypeOK
    <3>2. CASE ~Look(c)
      BY <2>1, <2>2, <3>2 DEF UnknownMemory, Store, MemInv, TypeOK
    <3> QED
      BY <3>1, <3>2
  <2>4. CASE row' = row
    <3>1. Memory' = Memory
      BY <2>4 DEF Memory
    <3> QED
      BY <2>2, <2>3, <2>4, <3>1 DEF MemInv, TypeOK, Single, Holds
  <2>5. CASE row' # row
    <3>1. PICK r : Encodes(r, c) /\ Store(r)
      BY <2>2, <2>5
    <3>2. row' = r
      BY <2>5, <3>1 DEF Store
    <3>3. r \in Texts /\ Single(Decoded(r))
      BY <3>1, EncodesFacts DEF MemInv
    <3>4. TypeOK'
      BY <2>2, <2>3, <3>2, <3>3 DEF TypeOK, Texts
    <3>5. Memory' = Decoded(r)
      BY <3>2 DEF Memory, Decoded
    <3> QED
      BY <3>3, <3>4, <3>5 DEF MemInv, Single, Holds
  <2> QED
    BY <2>4, <2>5
<1> QED
  BY <1>1, <1>2

LEMMA MemInvariant == Spec => []MemInv
<1>1. Init => MemInv
  BY InitMem
<1> QED
  BY <1>1, MemKept, PTL DEF Spec

\* The row holds texts of the four memories, whatever the commands carry, and
\* every report is a message (Memory_management in units/bcr.py).
THEOREM MemoryTypedHolds == Spec => []TypeOK
<1>1. MemInv => TypeOK
  BY DEF MemInv
<1> QED
  BY <1>1, MemInvariant, PTL

\* All keys of a memory's text are one address, as strings or as numbers.
THEOREM OneAddressPerMemoryHolds == Spec => []OneAddressPerMemory
<1>1. MemInv => OneAddressPerMemory
  <2> SUFFICES ASSUME MemInv, NEW m \in MemIds, NEW a \in Addr, NEW b \in Addr,
                      row[m].str[a] # Absent \/ row[m].num[a] # Absent,
                      row[m].str[b] # Absent \/ row[m].num[b] # Absent
               PROVE  a = b
    BY DEF OneAddressPerMemory
  <2>1. row \in Texts /\ Memory = Decoded(row)
    BY MemoryTyped DEF MemInv, TypeOK, Texts
  <2>2. Holds(Memory, m, a) /\ Holds(Memory, m, b)
    BY <2>1, DecodeTyped DEF Holds
  <2> QED
    BY <2>2 DEF MemInv, Single
<1> QED
  BY <1>1, MemInvariant, PTL

\* Decoded, the row changes as MemoryAfter says, whichever keys the handler has
\* written and left behind.
THEOREM DecodesAsStoredHolds == Spec => DecodesAsStored
<1>1. MemInv /\ [Next]_vars =>
          [ row' # row => Memory' = MemoryAfter(Memory, tc') ]_vars
  <2> SUFFICES ASSUME MemInv, Next, row' # row
               PROVE  Memory' = MemoryAfter(Memory, tc')
    OBVIOUS
  <2>1. PICK c \in Commands : tc' = c /\ \E r : Encodes(r, c) /\ Store(r)
    BY StepFacts DEF MemInv
  <2>2. PICK r : Encodes(r, c) /\ Store(r)
    BY <2>1
  <2>3. Memory' = Decoded(r)
    BY <2>2 DEF Store, Memory, Decoded
  <2> QED
    BY <2>1, <2>2, <2>3, EncodesFacts DEF MemInv
<1> QED
  BY <1>1, MemInvariant, PTL DEF Spec, DecodesAsStored
-----------------------------------------------------------------------------
(* The length of the text                                                  *)

LEMMA BlockTextTyped == \A x \in Data : BlockText(x) \in Nat /\ BlockText(x) > 1
<1> SUFFICES ASSUME NEW x \in Data
             PROVE  BlockText(x) \in Nat /\ BlockText(x) > 1
  OBVIOUS
<1>1. x \in Blocks => Text[x] \in Nat /\ Text[x] > 2
  BY TextAssumption
<1>2. BlockText(x) \in {2, 3, 12} \/ (x \in Blocks /\ BlockText(x) = Text[x])
  <2>1. CASE x \in Blocks
    <3>1. x # Zeros /\ x # Unhealthy
      BY <2>1, BlocksAssumption
    <3> QED
      BY <2>1, <3>1, Zenon DEF BlockText
  <2>2. CASE x \notin Blocks /\ x = Zeros
    BY <2>2 DEF BlockText, Zeros, Unhealthy
  <2>3. CASE x \notin Blocks /\ x = Unhealthy
    BY <2>3 DEF BlockText, Zeros, Unhealthy
  <2>4. CASE x \notin Blocks /\ x # Zeros /\ x # Unhealthy
    BY <2>4 DEF BlockText
  <2> QED
    BY <2>1, <2>2, <2>3, <2>4
<1> QED
  BY <1>1, <1>2

LEMMA EntryTextTyped ==
    \A x \in Data : /\ EntryText(x) \in Nat
                    /\ EntryText(x) = KeyText + 6 + BlockText(x)
                    /\ BlockText(x) \in Nat
                    /\ KeyText > 3 => EntryText(x) > 11
  BY BlockTextTyped, TextAssumption DEF EntryText

\* The sum over the keys, unfolded where there is no key ...
LEMMA EntriesNone ==
    ASSUME NEW map, Keys(map) = {}
    PROVE  EntriesText(map) = 0
  BY DEF EntriesText, MapThenSumSet, MapThenFoldSet

\* ... and where there is one.
LEMMA EntriesOne ==
    ASSUME NEW map, NEW a, Keys(map) = {a}, EntryText(map[a]) \in Nat
    PROVE  EntriesText(map) = EntryText(map[a])
<1> DEFINE Entry(k) == EntryText(map[k])
           Sum(f) == [s \in SUBSET {a} |->
                         IF s = {} THEN 0
                         ELSE Entry(CHOOSE k \in s : TRUE)
                                  + f[s \ {CHOOSE k \in s : TRUE}]]
           g == [s \in SUBSET {a} |-> IF s = {} THEN 0 ELSE Entry(a) + 0]
           h == CHOOSE f : f = Sum(f)
<1>1. (CHOOSE k \in {a} : TRUE) = a
  OBVIOUS
<1>2. g = Sum(g)
  <2>1. \A s \in SUBSET {a} : s = {} \/ s = {a}
    OBVIOUS
  <2>2. \A s \in SUBSET {a} : Sum(g)[s] = g[s]
    BY <1>1, <2>1
  <2> QED
    BY <2>2
<1>3. h = Sum(h)
  BY <1>2, Zenon
<1>4. h[{}] = 0 /\ h[{a}] = Entry(a) + h[{}]
  BY <1>1, <1>3
<1>5. EntriesText(map) = h[Keys(map)]
  BY DEF EntriesText, MapThenSumSet, MapThenFoldSet
<1>6. Entry(a) \in Nat
  OBVIOUS
<1> QED
  BY <1>4, <1>5, <1>6

LEMMA EntriesFacts ==
    ASSUME NEW map \in Maps, NEW a \in Addr, Keys(map) \subseteq {a}
    PROVE  /\ map[a] = Absent => Keys(map) = {} /\ EntriesText(map) = 0
           /\ map[a] # Absent => /\ Keys(map) = {a}
                                 /\ EntriesText(map) = EntryText(map[a])
           /\ EntryText(map[a]) \in Nat
<1>1. EntryText(map[a]) \in Nat
  BY EntryTextTyped DEF Maps
<1>2. CASE map[a] = Absent
  <2>1. Keys(map) = {}
    BY <1>2 DEF Keys
  <2> QED
    BY <1>1, <1>2, <2>1, EntriesNone
<1>3. CASE map[a] # Absent
  <2>1. Keys(map) = {a}
    BY <1>3 DEF Keys
  <2> QED
    BY <1>1, <1>3, <2>1, EntriesOne
<1> QED
  BY <1>2, <1>3

\* The text of a memory whose keys are one address, perhaps twice.
LEMMA KeyedTextIs ==
    ASSUME NEW s \in Maps, NEW t \in Maps, NEW a \in Addr,
           Keys(s) \subseteq {a}, Keys(t) \subseteq {a}
    PROVE  /\ EntryText(s[a]) \in Nat /\ EntryText(t[a]) \in Nat
           /\ KeyedText([str |-> s, num |-> t]) =
                  IF s[a] = Absent
                  THEN IF t[a] = Absent THEN 12 ELSE EntryText(t[a])
                  ELSE EntryText(s[a])
                          + (IF t[a] = Absent THEN 0 ELSE EntryText(t[a]))
<1>1. KeyedText([str |-> s, num |-> t]) =
          IF Keys(s) = {} /\ Keys(t) = {} THEN 12
          ELSE EntriesText(s) + EntriesText(t)
  BY DEF KeyedText
<1>2. /\ s[a] = Absent => Keys(s) = {} /\ EntriesText(s) = 0
      /\ s[a] # Absent => Keys(s) = {a} /\ EntriesText(s) = EntryText(s[a])
      /\ EntryText(s[a]) \in Nat
  BY EntriesFacts
<1>3. /\ t[a] = Absent => Keys(t) = {} /\ EntriesText(t) = 0
      /\ t[a] # Absent => Keys(t) = {a} /\ EntriesText(t) = EntryText(t[a])
      /\ EntryText(t[a]) \in Nat
  BY EntriesFacts
<1> QED
  BY <1>1, <1>2, <1>3

LEMMA MemoryTextIs ==
    ASSUME NEW map \in Maps, NEW a \in Addr, Keys(map) \subseteq {a}
    PROVE  MemoryText(map) = IF map[a] = Absent THEN 12 ELSE EntryText(map[a])
  BY EntriesFacts DEF MemoryText

LEMMA NoKeysText ==
    NoKeys \in Maps /\ Keys(NoKeys) = {} /\ \A a \in Addr : NoKeys[a] = Absent
  BY AbsentIsData DEF NoKeys, Maps, Keys

\* Without keys that are numbers a text is as long as what it decodes to.
LEMMA PlainText ==
    ASSUME NEW map \in Maps,
           \A a, b \in Addr : map[a] # Absent /\ map[b] # Absent => a = b
    PROVE  /\ KeyedText([str |-> map, num |-> NoKeys]) = MemoryText(map)
           /\ MemoryText(map) \in Nat
<1>1. CASE Keys(map) = {}
  <2>1. KeyedText([str |-> map, num |-> NoKeys]) = 12
    BY <1>1, NoKeysText DEF KeyedText
  <2> QED
    BY <1>1, <2>1 DEF MemoryText
<1>2. CASE Keys(map) # {}
  <2>1. PICK a \in Addr : map[a] # Absent
    BY <1>2 DEF Keys
  <2>2. Keys(map) \subseteq {a} /\ Keys(NoKeys) \subseteq {a}
    BY <2>1, NoKeysText DEF Keys
  <2>3. KeyedText([str |-> map, num |-> NoKeys]) = EntryText(map[a]) + 0
        /\ EntryText(map[a]) \in Nat
    BY <2>1, <2>2, KeyedTextIs, NoKeysText
  <2>4. MemoryText(map) = EntryText(map[a])
    BY <2>1, <2>2, MemoryTextIs
  <2> QED
    BY <2>3, <2>4
<1> QED
  BY <1>1, <1>2

\* The dictionaries of an encoding without a second key.
Plain(mem) == [m \in MemIds |-> [str |-> mem[m], num |-> NoKeys]]

LEMMA EncodingForms ==
    ASSUME MemInv, NEW c, NEW r, Encodes(r, c)
    PROVE  \/ r = Plain(MemoryAfter(Memory, c)) /\ LeftBehind(Memory, c) = 0
           \/ \E m \in MemIds, a \in Addr, x \in Data \ {Absent} :
                 /\ Holds(Memory, m, a) /\ r = UnderNumber(m, a, x)
                 /\ MemoryAfter(Memory, c) = Put(Memory, m, a, x)
                 /\ LeftBehind(Memory, c) = EntryText(Memory[m][a])
<1>1. Memory \in MemoryValues /\ Strings \in Texts
  BY MemoryTyped, StringsAt DEF MemInv
<1>2. Strings = Plain(Memory)
  BY DEF Strings, Plain
<1>3. CASE /\ r = Strings /\ MemoryAfter(Memory, c) = Memory
           /\ LeftBehind(Memory, c) = 0
  BY <1>2, <1>3
<1>4. ASSUME NEW m \in MemIds, NEW a \in Addr, NEW x \in Data \ {Absent},
             Renewed(r, c, m, a, x)
      PROVE  r = Plain(MemoryAfter(Memory, c)) /\ LeftBehind(Memory, c) = 0
  <2>1. \A n \in MemIds :
            PutAlone(Memory, m, a, x)[n] =
                IF n = m THEN [b \in Addr |-> IF b = a THEN x ELSE Absent]
                ELSE Memory[n]
    BY <1>1 DEF PutAlone, MemoryValues
  <2>2. Alone(m, a, x) = Plain(PutAlone(Memory, m, a, x))
    BY <2>1 DEF Alone, Plain, Strings
  <2> QED
    BY <1>4, <2>2 DEF Renewed
<1>5. ASSUME NEW m \in MemIds, NEW a \in Addr, NEW x \in Data \ {Absent},
             Replaced(r, c, m, a, x), r = UnderString(m, a, x),
             LeftBehind(Memory, c) = 0
      PROVE  r = Plain(MemoryAfter(Memory, c)) /\ LeftBehind(Memory, c) = 0
  <2>1. \A n \in MemIds :
            Put(Memory, m, a, x)[n] =
                IF n = m THEN [Memory[m] EXCEPT ![a] = x] ELSE Memory[n]
    BY <1>1 DEF Put, MemoryValues
  <2>2. UnderString(m, a, x) = Plain(Put(Memory, m, a, x))
    <3> DEFINE new == [Memory[m] EXCEPT ![a] = x]
    <3>1. UnderString(m, a, x) =
              [Strings EXCEPT ![m] = [str |-> new, num |-> NoKeys]]
      BY FormsOf DEF MemInv
    <3>2. \A n \in MemIds : Put(Memory, m, a, x)[n] =
                                IF n = m THEN new ELSE Memory[n]
      BY <2>1
    <3> HIDE DEF new
    <3> QED
      BY <3>1, <3>2 DEF Plain, Strings
  <2> QED
    BY <1>5, <2>2 DEF Replaced
<1> QED
  BY <1>3, <1>4, <1>5 DEF Encodes, Replaced

\* A text that has every memory as one of its keys says is as long as the row
\* that it decodes to.
LEMMA StoredPlain ==
    ASSUME NEW v \in MemoryValues, Single(v)
    PROVE  /\ \A m \in MemIds :
                 /\ KeyedText(Plain(v)[m]) = MemoryText(v[m])
                 /\ MemoryText(v[m]) \in Nat
           /\ StoredText(Plain(v)) = RowText(v) /\ RowText(v) \in Nat
<1>1. ASSUME NEW m \in MemIds
      PROVE  /\ KeyedText(Plain(v)[m]) = MemoryText(v[m])
             /\ MemoryText(v[m]) \in Nat
  <2>1. /\ v[m] \in Maps
        /\ \A a, b \in Addr : v[m][a] # Absent /\ v[m][b] # Absent => a = b
    BY DEF MemoryValues, Maps, Single, Holds
  <2>2. /\ KeyedText([str |-> v[m], num |-> NoKeys]) = MemoryText(v[m])
        /\ MemoryText(v[m]) \in Nat
    BY <2>1, PlainText
  <2>3. Plain(v)[m] = [str |-> v[m], num |-> NoKeys]
    BY DEF Plain
  <2> QED
    BY <2>2, <2>3
<1>2. 0 \in MemIds /\ 1 \in MemIds /\ 2 \in MemIds /\ 3 \in MemIds
  BY DEF MemIds
<1> QED
  BY <1>1, <1>2 DEF StoredText, RowText

\* A block stored under a number is beside the block that was there.
LEMMA NumberText ==
    ASSUME MemInv, NEW m \in MemIds, NEW a \in Addr, NEW x \in Data \ {Absent},
           Holds(Memory, m, a)
    PROVE  /\ StoredText(UnderNumber(m, a, x)) =
                  RowText(Put(Memory, m, a, x)) + EntryText(Memory[m][a])
           /\ RowText(Put(Memory, m, a, x)) \in Nat
           /\ EntryText(Memory[m][a]) \in Nat
<1> DEFINE r == UnderNumber(m, a, x)
           v == Put(Memory, m, a, x)
<1>1. Memory \in MemoryValues /\ Strings \in Texts /\ TypeOK /\ Single(Memory)
  BY MemoryTyped, StringsAt DEF MemInv
<1>2. v \in MemoryValues /\ Single(v) /\ v[m][a] = x
  BY <1>1, PutTyped, PutSingle, PutAt
<1>3. r = [Strings EXCEPT ![m] =
              [str |-> Memory[m], num |-> [NoKeys EXCEPT ![a] = x]]]
  BY <1>1, FormsOf
<1>4. KeyedText(r[m]) = MemoryText(v[m]) + EntryText(Memory[m][a])
      /\ EntryText(Memory[m][a]) \in Nat
  <2> DEFINE s == Memory[m]
             t == [NoKeys EXCEPT ![a] = x]
  <2>1. s \in Maps /\ t \in Maps /\ v[m] \in Maps
    BY <1>1, <1>2, NoKeysText DEF MemoryValues, Maps
  <2>2. \A b \in Addr : s[b] # Absent => b = a
    BY <1>1 DEF Single, Holds
  <2>3. \A b \in Addr : t[b] # Absent => b = a
    BY NoKeysText DEF Maps
  <2>4. \A b \in Addr : v[m][b] # Absent => b = a
    BY <1>2 DEF Single, Holds
  <2>5. t[a] = x /\ s[a] # Absent /\ x # Absent
    BY NoKeysText DEF Maps, Holds
  <2>6. r[m] = [str |-> s, num |-> t]
    BY <1>1, <1>3 DEF Texts
  <2> HIDE DEF s, t, r, v
  <2>7. Keys(s) \subseteq {a} /\ Keys(t) \subseteq {a} /\ Keys(v[m]) \subseteq {a}
    BY <2>2, <2>3, <2>4 DEF Keys
  <2>8. /\ EntryText(s[a]) \in Nat /\ EntryText(t[a]) \in Nat
        /\ KeyedText([str |-> s, num |-> t]) = EntryText(s[a]) + EntryText(t[a])
    BY <2>1, <2>5, <2>7, KeyedTextIs
  <2>9. MemoryText(v[m]) = EntryText(x)
    BY <1>2, <2>1, <2>5, <2>7, MemoryTextIs
  <2>10. KeyedText(r[m]) = MemoryText(v[m]) + EntryText(s[a])
         /\ EntryText(s[a]) \in Nat
    BY <2>5, <2>6, <2>8, <2>9
  <2> QED
    BY <2>10 DEF s
<1>5. \A n \in MemIds : n # m => r[n] = Plain(v)[n]
  <2>1. \A n \in MemIds : n # m => r[n] = Strings[n]
    BY <1>1, <1>3 DEF Texts
  <2>2. \A n \in MemIds : n # m => v[n] = Memory[n]
    BY <1>1 DEF Put, MemoryValues
  <2> HIDE DEF r, v
  <2> QED
    BY <2>1, <2>2 DEF Plain, Strings
<1> HIDE DEF r, v
<1>6. /\ \A n \in MemIds : /\ KeyedText(Plain(v)[n]) = MemoryText(v[n])
                           /\ MemoryText(v[n]) \in Nat
      /\ RowText(v) \in Nat
  BY <1>2, StoredPlain
<1>7. StoredText(r) = RowText(v) + EntryText(Memory[m][a])
  <2>1. \A n \in MemIds : /\ MemoryText(v[n]) \in Nat
                          /\ n # m => KeyedText(r[n]) = MemoryText(v[n])
    BY <1>5, <1>6
  <2>2. m = 0 \/ m = 1 \/ m = 2 \/ m = 3
    BY DEF MemIds
  <2>3. 0 \in MemIds /\ 1 \in MemIds /\ 2 \in MemIds /\ 3 \in MemIds
    BY DEF MemIds
  <2> QED
    BY <1>4, <2>1, <2>2, <2>3 DEF StoredText, RowText
<1> QED
  BY <1>4, <1>6, <1>7 DEF r, v

\* What update_db is given is as long as Overflows of BcrServices says.
LEMMA EncodedText ==
    ASSUME MemInv, NEW c, NEW r, Encodes(r, c)
    PROVE  /\ StoredText(r) = RowText(MemoryAfter(Memory, c))
                                 + LeftBehind(Memory, c)
           /\ RowText(MemoryAfter(Memory, c)) \in Nat
           /\ LeftBehind(Memory, c) \in Nat
<1>1. CASE r = Plain(MemoryAfter(Memory, c)) /\ LeftBehind(Memory, c) = 0
  <2>1. Decoded(r) = MemoryAfter(Memory, c) /\ Single(Decoded(r)) /\ r \in Texts
    BY EncodesFacts DEF MemInv
  <2>2. Decoded(r) \in MemoryValues
    BY <2>1, DecodeTyped
  <2>3. /\ StoredText(Plain(Decoded(r))) = RowText(Decoded(r))
        /\ RowText(Decoded(r)) \in Nat
    BY <2>1, <2>2, StoredPlain
  <2> QED
    BY <1>1, <2>1, <2>3
<1>2. ASSUME NEW m \in MemIds, NEW a \in Addr, NEW x \in Data \ {Absent},
             Holds(Memory, m, a), r = UnderNumber(m, a, x),
             MemoryAfter(Memory, c) = Put(Memory, m, a, x),
             LeftBehind(Memory, c) = EntryText(Memory[m][a])
      PROVE  /\ StoredText(r) = RowText(MemoryAfter(Memory, c))
                                   + LeftBehind(Memory, c)
             /\ RowText(MemoryAfter(Memory, c)) \in Nat
             /\ LeftBehind(Memory, c) \in Nat
  BY <1>2, NumberText
<1> QED
  BY <1>1, <1>2, EncodingForms

\* A command of PUS 6 has no parameters to be unknown.
LEMMA FailsOfMemory ==
    ASSUME NEW c \in Commands
    PROVE  Fails(c, 1, Memory) <=>
              \/ ~KnownMemories(c)
              \/ c.subtype = 9 /\ Memory[c.memoryId][c.StartAddress] = EmptyBlock
              \/ /\ KnownMemories(c) /\ StoresMemory(Memory, c)
                 /\ RowText(MemoryAfter(Memory, c)) + LeftBehind(Memory, c)
                       > Width
<1>1. c.type = 6
  BY CommandsAssumption
<1>2. c.type # 20 /\ c.type # 8
  BY <1>1
<1> QED
  BY <1>1, <1>2, Zenon DEF Fails, Overflows

LEMMA StepEnds ==
    ASSUME MemInv, Next, up
    PROVE  /\ ~up' <=> Fails(tc', 1, Memory)
           /\ tc' \in Commands
           /\ ~up' /\ KnownMemories(tc') /\ tc'.subtype # 9 =>
                 /\ RowText(MemoryAfter(Memory, tc')) \in Nat
                 /\ RowText(MemoryAfter(Memory, tc')) + LeftBehind(Memory, tc')
                       > Width
<1>1. PICK c \in Commands :
          /\ tc' = c
          /\ \/ UNCHANGED row /\ Look(c)
             \/ UNCHANGED row /\ UnknownMemory(c)
             \/ /\ KnownMemories(c) /\ c.subtype \in {2, 128, 129, 132}
                /\ reports' = << >>
                /\ IF StoresMemory(Memory, c)
                   THEN \E r : Encodes(r, c) /\ Store(r)
                   ELSE UNCHANGED <<row, up>>
  BY StepFacts DEF MemInv
<1> DEFINE over == RowText(MemoryAfter(Memory, c)) + LeftBehind(Memory, c)
                      > Width
           none == c.subtype = 9
                      /\ Memory[c.memoryId][c.StartAddress] = EmptyBlock
<1>2. Fails(c, 1, Memory) <=>
          \/ ~KnownMemories(c)
          \/ none
          \/ KnownMemories(c) /\ StoresMemory(Memory, c) /\ over
  BY FailsOfMemory
<1> SUFFICES /\ ~up' <=> Fails(c, 1, Memory)
             /\ ~up' /\ KnownMemories(c) /\ c.subtype # 9 =>
                   RowText(MemoryAfter(Memory, c)) \in Nat /\ over
  BY <1>1
<1>3. CASE Look(c)
  <2>1. KnownMemories(c) /\ c.subtype \in {5, 9, 130} /\ (~up' <=> none)
    BY <1>3 DEF Look, Take
  <2>2. ~StoresMemory(Memory, c)
    BY <2>1 DEF StoresMemory
  <2> HIDE DEF over
  <2> QED
    BY <1>2, <2>1, <2>2
<1>4. CASE UnknownMemory(c)
  <2>1. ~KnownMemories(c) /\ ~up'
    BY <1>4 DEF UnknownMemory
  <2> HIDE DEF over, none
  <2> QED
    BY <1>2, <2>1
<1>5. CASE /\ KnownMemories(c) /\ c.subtype \in {2, 128, 129, 132}
           /\ ~StoresMemory(Memory, c) /\ UNCHANGED <<row, up>>
  <2>1. ~none /\ up'
    BY <1>5
  <2> HIDE DEF over, none
  <2> QED
    BY <1>2, <1>5, <2>1
<1>6. CASE /\ KnownMemories(c) /\ c.subtype \in {2, 128, 129, 132}
           /\ StoresMemory(Memory, c) /\ \E r : Encodes(r, c) /\ Store(r)
  <2>1. PICK r : Encodes(r, c) /\ Store(r)
    BY <1>6
  <2>2. /\ StoredText(r) = RowText(MemoryAfter(Memory, c))
                              + LeftBehind(Memory, c)
        /\ RowText(MemoryAfter(Memory, c)) \in Nat
        /\ LeftBehind(Memory, c) \in Nat
    BY <2>1, EncodedText
  <2>3. ~up' <=> ~(StoredText(r) <= Width)
    BY <2>1 DEF Store
  <2>4. ~up' <=> over
    BY <2>2, <2>3 DEF Width
  <2>5. ~none
    BY <1>6
  <2> HIDE DEF over, none
  <2> QED
    BY <1>2, <1>6, <2>2, <2>4, <2>5
<1> QED
  BY <1>1, <1>3, <1>4, <1>5, <1>6, Zenon

\* The decoded row, which is all that Semsim keeps, tells when update_db
\* raises: the second key that a LOAD or COPY may leave is gone at the next
\* store (Memory_management and init_bytes_state in units/bcr.py).
THEOREM EndsAsModelledHolds == Spec => EndsAsModelled
<1>1. MemInv /\ [Next]_vars =>
          [ up => (~up' <=> Fails(tc', 1, Memory)) ]_vars
  BY StepEnds
<1> QED
  BY <1>1, MemInvariant, PTL DEF Spec, EndsAsModelled

\* A text that fits no more means a block that does not fit, or a LOAD or COPY
\* under a number with the old block beside the new one.
THEOREM OverflowHasCauseHolds == Spec => OverflowHasCause
<1>1. MemInv /\ [Next]_vars =>
        [ up /\ ~up' /\ KnownMemories(tc') /\ tc'.subtype # 9 =>
            \/ tc'.numeric /\ tc'.subtype \in {2, 128}
            \/ RowText(MemoryAfter(Memory, tc')) > Width ]_vars
  <2> SUFFICES ASSUME MemInv, Next, up, ~up', KnownMemories(tc'),
                      tc'.subtype # 9,
                      ~(tc'.numeric /\ tc'.subtype \in {2, 128})
               PROVE  RowText(MemoryAfter(Memory, tc')) > Width
    OBVIOUS
  <2>1. /\ tc' \in Commands
        /\ RowText(MemoryAfter(Memory, tc')) \in Nat
        /\ RowText(MemoryAfter(Memory, tc')) + LeftBehind(Memory, tc') > Width
    BY StepEnds
  <2>2. PICK c \in Commands : c = tc'
    BY <2>1
  <2>3. LeftBehind(Memory, c) = 0
    <3>1. KnownMemories(c) /\ ~(c.numeric /\ c.subtype \in {2, 128})
      BY <2>2
    <3>2. c.numeric \in BOOLEAN
      BY <3>1, CommandFields
    <3> QED
      BY <3>1, <3>2, LeftCases
  <2> QED
    BY <2>1, <2>2, <2>3 DEF Width
<1> QED
  BY <1>1, MemInvariant, PTL DEF Spec, OverflowHasCause

TextInv == StoredText(row) <= Width

LEMMA RowFits == Spec => [](MemInv /\ TextInv)
<1>1. Init => TextInv
  <2> SUFFICES ASSUME Init PROVE StoredText(row) <= Width
    BY DEF TextInv
  <2>1. KeyedText(Unkeyed) = 12
    BY NoKeysText DEF KeyedText, Unkeyed
  <2>2. row[0] = Unkeyed /\ row[1] = Unkeyed /\ row[2] = Unkeyed
        /\ row[3] = Unkeyed
    BY InitMem DEF MemIds
  <2> QED
    BY <2>1, <2>2 DEF StoredText, Width
<1>2. MemInv /\ TextInv /\ [Next]_vars => TextInv'
  <2> SUFFICES ASSUME MemInv, [Next]_vars, row' # row
               PROVE  StoredText(row') <= Width
    BY DEF TextInv
  <2>1. PICK c \in Commands :
            IF StoresMemory(Memory, c)
            THEN \E r : Encodes(r, c) /\ Store(r) ELSE UNCHANGED <<row, up>>
    BY StepFacts DEF MemInv, vars
  <2>2. PICK r : row' = r /\ StoredText(r) <= Width
    BY <2>1 DEF Store
  <2> QED
    BY <2>2
<1> QED
  BY <1>1, <1>2, MemInvariant, PTL DEF Spec

\* The least that the text of a memory and of a row can be.
LEMMA KeyedTextLeast ==
    ASSUME MemInv, KeyText > 3, NEW m \in MemIds
    PROVE  /\ KeyedText(row[m]) \in Nat /\ KeyedText(row[m]) > 11
           /\ \A a \in Addr : Holds(Memory, m, a) =>
                 KeyedText(row[m]) >= EntryText(Memory[m][a])
<1> DEFINE s == row[m].str
           t == row[m].num
<1>1. s \in Maps /\ t \in Maps /\ row[m] = [str |-> s, num |-> t]
  BY DEF MemInv, TypeOK
<1>2. \A a \in Addr : Memory[m][a] = IF t[a] # Absent THEN t[a] ELSE s[a]
  BY DEF Memory, Decode
<1>3. \A a, b \in Addr : Memory[m][a] # Absent /\ Memory[m][b] # Absent => a = b
  BY DEF MemInv, Single, Holds
<1> HIDE DEF s, t
<1>4. CASE \A a \in Addr : Memory[m][a] = Absent
  <2>1. Keys(s) = {} /\ Keys(t) = {}
    BY <1>2, <1>4 DEF Keys
  <2>2. KeyedText([str |-> s, num |-> t]) = 12
    BY <2>1 DEF KeyedText
  <2> QED
    BY <1>1, <1>4, <2>2 DEF Holds
<1>5. ASSUME NEW a \in Addr, Memory[m][a] # Absent
      PROVE  /\ KeyedText(row[m]) \in Nat /\ KeyedText(row[m]) > 11
             /\ KeyedText(row[m]) >= EntryText(Memory[m][a])
  <2>1. Keys(s) \subseteq {a} /\ Keys(t) \subseteq {a}
    BY <1>2, <1>3, <1>5 DEF Keys
  <2>2. /\ EntryText(s[a]) \in Nat /\ EntryText(t[a]) \in Nat
        /\ KeyedText(row[m]) =
               IF s[a] = Absent
               THEN IF t[a] = Absent THEN 12 ELSE EntryText(t[a])
               ELSE EntryText(s[a])
                       + (IF t[a] = Absent THEN 0 ELSE EntryText(t[a]))
    BY <1>1, <2>1, KeyedTextIs
  <2>3. EntryText(s[a]) > 11 /\ EntryText(t[a]) > 11
    BY <1>1, EntryTextTyped DEF Maps
  <2> QED
    BY <1>2, <1>5, <2>2, <2>3
<1> QED
  BY <1>4, <1>5 DEF Holds

\* A block that is in the row fits its DUMP report, if an address has four
\* digits or more: the text of the row has the block and that of at least
\* three more memories.
THEOREM DumpFitsHolds == KeyText > 3 => (Spec => []DumpFits)
<1> SUFFICES ASSUME KeyText > 3 PROVE Spec => []DumpFits
  OBVIOUS
<1>1. MemInv /\ TextInv => DumpFits
  <2> SUFFICES ASSUME MemInv, StoredText(row) <= Width, NEW m \in MemIds,
                      NEW a \in Addr, Readable(Memory, m, a)
               PROVE  DumpText(Memory[m][a]) <= 4096
    BY DEF DumpFits, TextInv
  <2>1. Holds(Memory, m, a) /\ Memory[m][a] \in Data
    BY MemoryTyped DEF MemInv, Readable, Holds, MemoryValues
  <2>2. \A n \in MemIds : KeyedText(row[n]) \in Nat /\ KeyedText(row[n]) > 11
    BY KeyedTextLeast
  <2>3. KeyedText(row[m]) >= EntryText(Memory[m][a])
    BY <2>1, KeyedTextLeast
  <2>4. StoredText(row) >= 86 + KeyedText(row[m]) /\ StoredText(row) \in Nat
    <3>1. m = 0 \/ m = 1 \/ m = 2 \/ m = 3
      BY DEF MemIds
    <3>2. 0 \in MemIds /\ 1 \in MemIds /\ 2 \in MemIds /\ 3 \in MemIds
      BY DEF MemIds
    <3> QED
      BY <2>2, <3>1, <3>2 DEF StoredText
  <2>5. /\ EntryText(Memory[m][a]) = KeyText + 6 + BlockText(Memory[m][a])
        /\ BlockText(Memory[m][a]) \in Nat
    BY <2>1, EntryTextTyped
  <2> QED
    BY <2>2, <2>3, <2>4, <2>5, TextAssumption, LengthAssumption
       DEF DumpText, Width
<1> QED
  BY <1>1, RowFits, PTL
-----------------------------------------------------------------------------
(* One block per memory                                                    *)

Held == [m \in MemIds |-> Block(row[m])]

\* Of a text with one address, Block is what it holds there.
LEMMA BlockIs ==
    ASSUME NEW t, NEW a \in Addr, Decode(t)[a] # Absent,
           \A b \in Addr : Decode(t)[b] # Absent => b = a
    PROVE  Block(t) = [addr |-> a, data |-> Decode(t)[a]]
<1>1. Keys(Decode(t)) = {a}
  BY DEF Keys
<1>2. (CHOOSE k \in {a} : TRUE) = a /\ {a} # {}
  OBVIOUS
<1> QED
  BY <1>1, <1>2 DEF Block

LEMMA BlockNone ==
    ASSUME NEW t, \A a \in Addr : Decode(t)[a] = Absent
    PROVE  Block(t) = [addr |-> "none", data |-> Absent]
<1>1. Keys(Decode(t)) = {}
  BY DEF Keys
<1> QED
  BY <1>1 DEF Block

LEMMA HeldBlock ==
    ASSUME MemInv, NEW m \in MemIds, NEW a \in Addr, Holds(Memory, m, a)
    PROVE  Held[m].addr = a /\ Held[m].data = Memory[m][a]
<1>1. Memory[m] = Decode(row[m])
  BY DEF Memory
<1>2. \A b \in Addr : Memory[m][b] # Absent => b = a
  BY DEF MemInv, Single, Holds
<1>3. Held[m] = [addr |-> a, data |-> Memory[m][a]]
  BY <1>1, <1>2, BlockIs DEF Held, Holds
<1> QED
  BY <1>3

LEMMA HeldNone ==
    ASSUME MemInv, NEW m \in MemIds, \A a \in Addr : ~Holds(Memory, m, a)
    PROVE  Held[m] = [addr |-> "none", data |-> Absent]
<1>1. Memory[m] = Decode(row[m])
  BY DEF Memory
<1> QED
  BY <1>1, BlockNone DEF Held, Holds

\* When x is put at address a of memory m, alone or in the place of what is
\* there, memory m holds that block and the others what they held.
LEMMA HeldAfter ==
    ASSUME MemInv, MemInv', NEW m \in MemIds, NEW a \in Addr,
           NEW x \in Data \ {Absent},
           \/ Memory' = PutAlone(Memory, m, a, x)
           \/ Memory' = Put(Memory, m, a, x)
    PROVE  Held' = [Held EXCEPT ![m] = [addr |-> a, data |-> x]]
<1>1. Memory \in MemoryValues /\ row' \in Texts
  BY MemoryTyped DEF MemInv, TypeOK, Texts
<1>2. \A n \in MemIds : /\ Memory[n] = Decode(row[n])
                        /\ Memory'[n] = Decode(row'[n])
  BY DEF Memory
<1>3. Memory'[m][a] = x
  BY <1>1, PutAt
<1>4. \A b \in Addr : Memory'[m][b] # Absent => b = a
  BY <1>3 DEF MemInv, Single, Holds
<1>5. Held'[m] = [addr |-> a, data |-> x]
  BY <1>2, <1>3, <1>4, BlockIs DEF Held
<1>6. ASSUME NEW n \in MemIds, n # m PROVE Held'[n] = Held[n]
  <2>1. Memory'[n] = Memory[n]
    BY <1>1, <1>6 DEF Put, PutAlone, MemoryValues
  <2>2. Decode(row'[n]) = Decode(row[n])
    BY <1>2, <2>1
  <2>3. Block(row'[n]) = Block(row[n])
    BY <2>2 DEF Block
  <2> QED
    BY <2>3 DEF Held
<1> QED
  BY <1>5, <1>6 DEF Held

LEMMA StepHeld ==
    MemInv /\ MemInv' /\ [Next]_vars => [Blockwise!Next]_Held
<1> SUFFICES ASSUME MemInv, MemInv', [Next]_vars, row' # row
             PROVE  Blockwise!Next \/ Held' = Held
  BY DEF Held
<1>1. PICK c \in Commands :
          /\ KnownMemories(c)
          /\ \E r : Encodes(r, c) /\ Store(r)
  BY StepFacts DEF MemInv, vars
<1>2. PICK r : Encodes(r, c) /\ row' = r
  BY <1>1 DEF Store
<1>3. Memory' = MemoryAfter(Memory, c)
  <2>1. Memory' = Decoded(r)
    BY <1>2 DEF Memory, Decoded
  <2> QED
    BY <1>2, <2>1, EncodesFacts DEF MemInv
<1>4. CASE r = Strings /\ MemoryAfter(Memory, c) = Memory
  <2>1. \A m \in MemIds : Decode(row'[m]) = Decode(row[m])
    BY <1>3, <1>4 DEF Memory
  <2>2. \A m \in MemIds : Block(row'[m]) = Block(row[m])
    BY <2>1 DEF Block
  <2> QED
    BY <2>2 DEF Held
<1>5. ASSUME NEW m \in MemIds, NEW a \in Addr, NEW x \in Data \ {Absent},
             Writes(c, m, a, x),
             Renewed(r, c, m, a, x) \/ Replaced(r, c, m, a, x)
      PROVE  Blockwise!Next
  <2>1. Held' = [Held EXCEPT ![m] = Blockwise!At(a, x)]
    BY <1>3, <1>5, HeldAfter DEF Renewed, Replaced, Blockwise!At
  <2>2. m \in Blockwise!MemIds
    BY DEF MemIds, Blockwise!MemIds
  <2>3. c.dataToLoad \in Blocks \cup {Blockwise!EmptyBlock}
    <3>1. KnownMemories(c)
      BY <1>1
    <3>2. c.dataToLoad \in Blocks \cup {EmptyBlock}
      BY <3>1, CommandFields
    <3>3. Blockwise!EmptyBlock = EmptyBlock
      BY DEF EmptyBlock, Blockwise!EmptyBlock
    <3> QED
      BY <3>2, <3>3
  <2>4. Holds(Memory, m, a) => Held[m].addr = a
    BY HeldBlock
  <2>5. CASE c.subtype = 2 /\ x = c.dataToLoad /\ Memory[m][a] # Unhealthy
    <3>1. Held[m] # [addr |-> a, data |-> Unhealthy]
      <4>1. CASE \A b \in Addr : ~Holds(Memory, m, b)
        BY <4>1, HeldNone DEF Absent, Unhealthy
      <4>2. ASSUME NEW b \in Addr, Holds(Memory, m, b)
            PROVE  Held[m] # [addr |-> a, data |-> Unhealthy]
        <5>1. Held[m].addr = b /\ Held[m].data = Memory[m][b]
          BY <1>5, <4>2, HeldBlock
        <5>2. b # a \/ Memory[m][b] # Unhealthy
          BY <2>5
        <5> QED
          BY <5>1, <5>2
      <4> QED
        BY <4>1, <4>2
    <3>2. Blockwise!Load(m, a, x)
      BY <2>1, <3>1 DEF Blockwise!Load, Blockwise!At, Held, Blockwise!Unhealthy, Unhealthy
    <3> QED
      BY <2>2, <2>3, <2>5, <3>2 DEF Blockwise!Next
  <2>6. CASE /\ c.subtype = 128 /\ Holds(Memory, m, a)
             /\ Readable(Memory, c.memoryId, c.StartAddress)
             /\ x = Memory[c.memoryId][c.StartAddress]
    <3> DEFINE n == c.memoryId
               b == c.StartAddress
    <3>1. n \in MemIds /\ b \in Addr
      BY <1>1, CommandFields
    <3>2. Held[n].addr = b /\ Held[n].data = x /\ x # Unhealthy
      <4>1. Holds(Memory, n, b) /\ x = Memory[n][b] /\ x # Unhealthy
        BY <2>6, <3>1 DEF Holds, Readable
      <4> HIDE DEF n, b
      <4>2. Held[n].addr = b /\ Held[n].data = Memory[n][b]
        BY <3>1, <4>1, HeldBlock
      <4> QED
        BY <4>1, <4>2
    <3>3. Held' = [Held EXCEPT ![m] = Blockwise!At(a, Held[n].data)]
      BY <2>1, <3>2
    <3>4. Held[m].addr = a
      BY <2>4, <2>6
    <3>5. Blockwise!Copy(n, b, m, a)
      <4> HIDE DEF n, b
      <4> QED
        BY <3>2, <3>3, <3>4
           DEF Blockwise!Copy, Held, Blockwise!Unhealthy, Unhealthy
    <3>6. n \in Blockwise!MemIds
      BY <3>1 DEF MemIds, Blockwise!MemIds
    <3> QED
      BY <2>2, <3>1, <3>5, <3>6 DEF Blockwise!Next
  <2>7. CASE c.subtype = 129 /\ x = Zeros /\ Holds(Memory, m, a)
    <3>1. Blockwise!Erase(m, a)
      BY <2>1, <2>4, <2>7 DEF Blockwise!Erase, Held, Zeros, Blockwise!Zeros
    <3> QED
      BY <2>2, <3>1 DEF Blockwise!Next
  <2>8. CASE c.subtype = 132 /\ x = Unhealthy
    <3>1. Blockwise!MarkUnhealthy(m, a)
      BY <2>1, <2>8
         DEF Blockwise!MarkUnhealthy, Held, Unhealthy, Blockwise!Unhealthy
    <3> QED
      BY <2>2, <3>1 DEF Blockwise!Next
  <2> QED
    BY <1>5, <2>5, <2>6, <2>7, <2>8 DEF Writes
<1> QED
  BY <1>2, <1>4, <1>5 DEF Encodes

\* Dictionaries with keys in two forms, stored as one text, amount to one block
\* per memory: every command is one step of BlockMemory, or none.
THEOREM BlockMemoryImplemented == Spec => ImplementsBlockMemory
<1>1. Init => Blockwise!Init
  <2> SUFFICES ASSUME Init PROVE Blockwise!Init
    OBVIOUS
  <2>1. \A m \in MemIds : Held[m] = [addr |-> "none", data |-> Absent]
    BY InitMem, BlockNone DEF Held, Unkeyed, Decode, NoKeys
  <2> QED
    BY <2>1 DEF Blockwise!Init, Blockwise!Nothing, Blockwise!MemIds, MemIds,
       Held, Blockwise!Absent, Absent
<1> QED
  BY <1>1, StepHeld, MemInvariant, PTL
     DEF Spec, ImplementsBlockMemory, Blockwise!Spec, Held
=============================================================================
