--------------------------- MODULE HashMapProofs ----------------------------
(***************************************************************************)
(* Proofs about HashMap, for every set of keys and values, every hash      *)
(* function and every initial capacity.                                    *)
(*                                                                         *)
(* The argument rests on Reachable (every key lies on its own probe path,  *)
(* with no empty slot before it) and Unique (no key is stored twice).  The *)
(* first part shows what findEntry returns in a table that has both, and   *)
(* that storing into or removing from the slot it returns keeps both.      *)
(***************************************************************************)
EXTENDS HashMap, FiniteSetTheorems, TLAPS

\* A table of the given size with the two properties a probe relies on.
Sound(table, size) ==
    /\ table \in [0 .. size - 1 -> Slot]
    /\ Reachable(table, size)
    /\ Unique(table)

-----------------------------------------------------------------------------
(* The circular probe path. *)

\* A hash is masked into the table.
LEMMA HomeInTable ==
    ASSUME NEW k \in Key, NEW size \in Nat \ {0}
    PROVE  Home(k, size) \in 0 .. size - 1
<1>1. Hash[k] \in Nat
    BY ConstantsAssumption
<1> QED
    BY <1>1 DEF Home

\* Positions on the path from h are strictly ordered by OnPath.
LEMMA PathOrder ==
    ASSUME NEW size \in Nat,
           NEW h \in 0 .. size - 1, NEW i \in 0 .. size - 1, NEW j \in 0 .. size - 1
    PROVE  /\ ~OnPath(h, i, i)
           /\ i # j => OnPath(h, i, j) \/ OnPath(h, j, i)
           /\ ~(OnPath(h, i, j) /\ OnPath(h, j, i))
    BY DEF OnPath

LEMMA PathTransitive ==
    ASSUME NEW size \in Nat, NEW h \in 0 .. size - 1,
           NEW i \in 0 .. size - 1, NEW j \in 0 .. size - 1, NEW k \in 0 .. size - 1,
           OnPath(h, i, j), OnPath(h, j, k)
    PROVE  OnPath(h, i, k)
    BY DEF OnPath

\* The loop of findEntry stops at one slot only.
LEMMA ProbeEndUnique ==
    ASSUME NEW table, NEW k \in Key, NEW size \in Nat \ {0},
           NEW i, NEW j, ProbeEnd(table, k, size, i), ProbeEnd(table, k, size, j)
    PROVE  i = j
<1>1. Home(k, size) \in 0 .. size - 1
    BY HomeInTable
<1>2. i \in 0 .. size - 1 /\ j \in 0 .. size - 1
    BY DEF ProbeEnd
<1> QED
    BY <1>1, <1>2, PathOrder DEF ProbeEnd

-----------------------------------------------------------------------------
(* What findEntry returns. *)

\* A probe for a stored key returns the slot that stores it, and only that.
LEMMA FindsStored ==
    ASSUME NEW table, NEW size \in Nat \ {0}, Sound(table, size),
           NEW i \in Occupied(table), NEW j \in 0 .. size - 1
    PROVE  Finds(table, table[i].key, size, j) <=> j = i
<1> DEFINE k == table[i].key
<1>1. i \in 0 .. size - 1 /\ k \in Key
    BY DEF Sound, Occupied, Slot, Empty, Tombstone
<1>2. Home(k, size) \in 0 .. size - 1
    BY <1>1, HomeInTable
<1>3. ProbeEnd(table, k, size, i)
    <2>1. SUFFICES ASSUME NEW m \in 0 .. size - 1, OnPath(Home(k, size), i, m)
                   PROVE  ~Exits(table, k, m)
        BY <1>1 DEF ProbeEnd, Exits
    <2>2. table[m] # Empty
        BY <2>1 DEF Sound, Reachable
    <2>3. m # i
        BY <1>1, <1>2, <2>1, PathOrder
    <2>4. table[m].key # k
        BY <1>1, <2>3, ConstantsAssumption DEF Sound, Unique, Occupied
    <2> QED
        BY <2>2, <2>4 DEF Exits
<1>4. \A end \in 0 .. size - 1 : ProbeEnd(table, k, size, end) => end = i
    BY <1>1, <1>3, ProbeEndUnique
<1>5. ASSUME Finds(table, k, size, j) PROVE j = i
    BY <1>4, <1>5 DEF Finds
<1>6. Finds(table, k, size, i)
    BY <1>1, <1>3 DEF Finds
<1> QED
    BY <1>5, <1>6

\* The slot findEntry returns for any key: it holds the key, or it is free
\* and no slot holds the key; the path up to it has no empty slot.
LEMMA FindsSlot ==
    ASSUME NEW table, NEW size \in Nat \ {0}, Sound(table, size),
           NEW k \in Key, NEW i, Finds(table, k, size, i)
    PROVE  /\ i \in 0 .. size - 1
           /\ \/ table[i].key = k
              \/ table[i].key = NULL /\ \A m \in 0 .. size - 1 : table[m].key # k
           /\ \A j \in 0 .. size - 1 : OnPath(Home(k, size), i, j) => table[j] # Empty
<1> DEFINE h == Home(k, size)
<1>1. h \in 0 .. size - 1
    BY HomeInTable
<1>2. PICK end \in 0 .. size - 1 :
        /\ ProbeEnd(table, k, size, end)
        /\ \/ i = end
           \/ /\ table[end].key # k
              /\ i \in 0 .. size - 1
              /\ OnPath(h, end, i)
              /\ table[i] = Tombstone
    BY DEF Finds
<1>3. i \in 0 .. size - 1
    BY <1>2
<1>4. ASSUME table[end].key # k, NEW m \in 0 .. size - 1 PROVE table[m].key # k
    <2>1. SUFFICES ASSUME table[m].key = k PROVE FALSE
        OBVIOUS
    <2>2. table[end] = Empty /\ end # m
        BY <1>2, <1>4, <2>1 DEF ProbeEnd, Exits
    <2>3. m \in Occupied(table)
        BY <2>1, ConstantsAssumption DEF Sound, Occupied
    <2>4. ~OnPath(h, m, end)
        BY <2>1, <2>2, <2>3 DEF Sound, Reachable
    <2>5. OnPath(h, end, m)
        BY <1>1, <2>2, <2>4, PathOrder
    <2> QED
        BY <1>2, <2>1, <2>5 DEF ProbeEnd, Exits
<1>5. \/ table[i].key = k
      \/ table[i].key = NULL /\ \A m \in 0 .. size - 1 : table[m].key # k
    BY <1>2, <1>4 DEF ProbeEnd, Exits, Empty, Tombstone
<1>6. ASSUME NEW j \in 0 .. size - 1, OnPath(h, i, j) PROVE table[j] # Empty
    <2>1. OnPath(h, end, j)
        BY <1>1, <1>2, <1>3, <1>6, PathTransitive
    <2> QED
        BY <1>2, <2>1 DEF ProbeEnd, Exits
<1> QED
    BY <1>3, <1>5, <1>6

-----------------------------------------------------------------------------
(* Changing a table through the slot findEntry returns. *)

\* The table new is table with the given slot at i.
Replaced(table, size, i, slot, new) ==
    /\ new \in [0 .. size - 1 -> Slot]
    /\ new[i] = slot
    /\ \A m \in 0 .. size - 1 : m # i => new[m] = table[m]

LEMMA ExceptReplaces ==
    ASSUME NEW table, NEW size \in Nat \ {0}, Sound(table, size),
           NEW slot \in Slot, NEW i \in 0 .. size - 1
    PROVE  Replaced(table, size, i, slot, [table EXCEPT ![i] = slot])
    BY DEF Sound, Replaced

\* Storing a key there keeps every key on its path and stored once.
LEMMA StoreKeepsSound ==
    ASSUME NEW table, NEW size \in Nat \ {0}, Sound(table, size),
           NEW slot \in Slot, slot.key \in Key,
           NEW i \in 0 .. size - 1, Finds(table, slot.key, size, i),
           NEW new, Replaced(table, size, i, slot, new)
    PROVE  Sound(new, size) /\ Occupied(new) = Occupied(table) \cup {i}
<1> DEFINE k == slot.key
<1>1. /\ i \in 0 .. size - 1
      /\ \/ table[i].key = k
         \/ table[i].key = NULL /\ \A m \in 0 .. size - 1 : table[m].key # k
      /\ \A j \in 0 .. size - 1 : OnPath(Home(k, size), i, j) => table[j] # Empty
    BY FindsSlot
<1>2. /\ new \in [0 .. size - 1 -> Slot]
      /\ new[i] = slot
      /\ \A m \in 0 .. size - 1 : m # i => new[m] = table[m]
    BY <1>1 DEF Replaced
<1>3. k # NULL
    BY ConstantsAssumption
<1>4. Occupied(new) = Occupied(table) \cup {i}
    BY <1>1, <1>2, <1>3 DEF Sound, Occupied
<1>5. slot # Empty
    BY <1>3 DEF Empty
<1>6. Reachable(new, size)
    <2>1. SUFFICES ASSUME NEW m \in Occupied(new), NEW j \in 0 .. size - 1,
                          OnPath(Home(new[m].key, size), m, j)
                   PROVE  new[j] # Empty
        BY <1>2 DEF Reachable
    <2>2. CASE j = i
        BY <1>2, <1>5, <2>2
    <2>3. CASE j # i /\ m = i
        BY <1>1, <1>2, <2>1, <2>3
    <2>4. CASE j # i /\ m # i
        <3>1. m \in Occupied(table) /\ new[m] = table[m] /\ new[j] = table[j]
            BY <1>2, <1>4, <2>4 DEF Sound, Occupied
        <3> QED
            BY <2>1, <3>1 DEF Sound, Reachable
    <2> QED
        BY <2>2, <2>3, <2>4
<1>7. Unique(new)
    <2>1. SUFFICES ASSUME NEW m \in Occupied(new), NEW n \in Occupied(new),
                          new[m].key = new[n].key, m # n
                   PROVE  FALSE
        BY DEF Unique
    <2>2. m \in 0 .. size - 1 /\ n \in 0 .. size - 1
        BY <1>2 DEF Occupied
    <2>3. CASE m # i /\ n # i
        BY <1>2, <1>4, <2>1, <2>2, <2>3 DEF Sound, Unique
    <2>4. CASE m = i
        BY <1>1, <1>2, <1>3, <1>4, <2>1, <2>2, <2>4 DEF Sound, Unique, Occupied
    <2>5. CASE n = i
        BY <1>1, <1>2, <1>3, <1>4, <2>1, <2>2, <2>5 DEF Sound, Unique, Occupied
    <2> QED
        BY <2>3, <2>4, <2>5
<1> QED
    BY <1>2, <1>4, <1>6, <1>7 DEF Sound

\* A tombstone cuts no path.
LEMMA RemoveKeepsSound ==
    ASSUME NEW table, NEW size \in Nat \ {0}, Sound(table, size),
           NEW i \in 0 .. size - 1,
           NEW new, Replaced(table, size, i, Tombstone, new)
    PROVE  Sound(new, size) /\ Occupied(new) = Occupied(table) \ {i}
<1>1. Tombstone \in Slot /\ Tombstone # Empty /\ Tombstone.key = NULL
    BY ConstantsAssumption DEF Tombstone, Empty, Slot
<1>2. /\ new \in [0 .. size - 1 -> Slot]
      /\ new[i] = Tombstone
      /\ \A m \in 0 .. size - 1 : m # i => new[m] = table[m]
    BY <1>1 DEF Replaced
<1>3. Occupied(new) = Occupied(table) \ {i}
    BY <1>1, <1>2 DEF Sound, Occupied
<1>4. \A m \in Occupied(new) : m \in Occupied(table) /\ new[m] = table[m]
    BY <1>2, <1>3 DEF Sound, Occupied
<1>5. Reachable(new, size)
    BY <1>1, <1>2, <1>4 DEF Sound, Reachable
<1>6. Unique(new)
    BY <1>4 DEF Sound, Unique
<1> QED
    BY <1>2, <1>3, <1>5, <1>6 DEF Sound

LEMMA EmptyTableSound ==
    ASSUME NEW size \in Nat
    PROVE  Sound(EmptyTable(size), size) /\ Occupied(EmptyTable(size)) = {}
    BY ConstantsAssumption
    DEF Sound, EmptyTable, Empty, Slot, Occupied, Reachable, Unique

-----------------------------------------------------------------------------
(* The inductive invariant. *)

\* While increaseCapacity runs: the new table holds exactly the entries that
\* its loop has passed.
Moved ==
    /\ \A i \in Occupied(entries) : i < scan =>
            \E m \in Occupied(newEntries) : newEntries[m] = entries[i]
    /\ \A m \in Occupied(newEntries) :
            \E i \in Occupied(entries) : i < scan /\ newEntries[m] = entries[i]

IInv ==
    /\ TypeOK
    /\ Sound(entries, capacity)
    /\ CountMatches
    /\ status = "growing" => Sound(newEntries, 2 * capacity) /\ Moved

LEMMA OccupiedFinite ==
    ASSUME NEW table, NEW size \in Nat, Sound(table, size)
    PROVE  IsFiniteSet(Occupied(table)) /\ Cardinality(Occupied(table)) \in Nat
<1>1. IsFiniteSet(0 .. size - 1)
    BY FS_Interval
<1>2. Occupied(table) \subseteq 0 .. size - 1
    BY DEF Sound, Occupied
<1> QED
    BY <1>1, <1>2, FS_Subset, FS_CardinalityType

LEMMA InitEstablishes == Init => IInv
<1> SUFFICES ASSUME Init PROVE IInv
    OBVIOUS
<1>1. INITIAL_CAPACITY \in Nat \ {0}
    BY ConstantsAssumption
<1>2. Sound(entries, capacity) /\ Occupied(entries) = {}
    BY <1>1, EmptyTableSound DEF Init
<1>3. TypeOK
    BY <1>1, <1>2 DEF Init, TypeOK, Sound, NoCall, NoTable
<1>4. CountMatches
    BY <1>2, FS_EmptySet DEF Init, CountMatches
<1> QED
    BY <1>2, <1>3, <1>4 DEF IInv, Init

LEMMA DivergePreserves == IInv /\ status # "growing" /\ Diverge => IInv'
<1> SUFFICES ASSUME IInv, status # "growing", Diverge PROVE IInv'
    OBVIOUS
<1>1. TypeOK'
    BY DEF IInv, Diverge, TypeOK
<1>2. Sound(entries, capacity)' /\ CountMatches'
    BY DEF IInv, Diverge, Sound, CountMatches, Reachable, Unique, Occupied
<1> QED
    BY <1>1, <1>2 DEF IInv, Diverge

LEMMA CallPutPreserves ==
    ASSUME IInv, NEW k \in Key, NEW v \in Value \cup {NULL}, CallPut(k, v)
    PROVE  IInv'
<1>1. CASE MustGrow
    <2>1. 2 * capacity \in Nat \ {0}
        BY DEF IInv, TypeOK, CallPut
    <2>2. Sound(newEntries, 2 * capacity)' /\ Occupied(newEntries)' = {}
        BY <1>1, <2>1, EmptyTableSound DEF CallPut
    <2>3. TypeOK'
        BY <1>1, <2>2 DEF IInv, TypeOK, CallPut, Sound
    <2>4. CountMatches'
        BY <1>1, <2>2, FS_EmptySet DEF CallPut, CountMatches
    <2>5. Moved'
        BY <1>1, <2>2, <2>3 DEF CallPut, Moved, Occupied, TypeOK
    <2>6. Sound(entries, capacity)'
        BY DEF IInv, CallPut
    <2> QED
        BY <2>2, <2>3, <2>4, <2>5, <2>6 DEF IInv
<1>2. CASE ~MustGrow
    <2>1. TypeOK'
        BY <1>2 DEF IInv, TypeOK, CallPut
    <2>2. CountMatches'
        BY <1>2 DEF IInv, CountMatches, CallPut
    <2> QED
        BY <1>2, <2>1, <2>2 DEF IInv, CallPut
<1> QED
    BY <1>1, <1>2

LEMMA MoveEntryPreserves == IInv /\ MoveEntry => IInv'
<1> SUFFICES ASSUME IInv, MoveEntry PROVE IInv'
    OBVIOUS
<1>1. /\ TypeOK /\ Sound(entries, capacity) /\ Sound(newEntries, 2 * capacity)
      /\ Moved /\ CountMatches
      /\ status = "growing" /\ scan \in 0 .. capacity - 1
      /\ capacity \in Nat \ {0} /\ 2 * capacity \in Nat \ {0}
    BY DEF IInv, MoveEntry, TypeOK
<1>2. CASE entries[scan].key = NULL
    <2>1. TypeOK'
        BY <1>1, <1>2 DEF MoveEntry, TypeOK
    <2>2. CountMatches'
        BY <1>1, <1>2 DEF MoveEntry, CountMatches
    <2>3. \A i \in Occupied(entries) : i < scan + 1 <=> i < scan
        BY <1>1, <1>2 DEF Sound, Occupied
    <2>4. Moved'
        BY <1>1, <1>2, <2>3 DEF MoveEntry, Moved
    <2> QED
        BY <1>1, <1>2, <2>1, <2>2, <2>4 DEF IInv, MoveEntry
<1>3. CASE entries[scan].key # NULL
    <2> DEFINE slot == entries[scan]
    <2>1. scan \in Occupied(entries) /\ slot \in Slot /\ slot.key \in Key
        BY <1>1, <1>3 DEF Sound, Occupied, Slot, Empty, Tombstone
    <2>2. PICK i \in 0 .. 2 * capacity - 1 :
            /\ Finds(newEntries, slot.key, 2 * capacity, i)
            /\ newEntries' = [newEntries EXCEPT ![i] = slot]
            /\ count' = count + 1
        BY <1>3 DEF MoveEntry
    <2>3. Sound(newEntries', 2 * capacity) /\ Occupied(newEntries') = Occupied(newEntries) \cup {i}
        <3>1. Replaced(newEntries, 2 * capacity, i, slot, newEntries')
            BY <1>1, <2>1, <2>2, ExceptReplaces
        <3>2. Finds(newEntries, slot.key, 2 * capacity, i)
            BY <2>2
        <3>3. 2 * capacity \in Nat \ {0} /\ Sound(newEntries, 2 * capacity)
            BY <1>1
        <3> HIDE DEF slot
        <3> QED
            BY <2>1, <3>1, <3>2, <3>3, StoreKeepsSound
    <2>4. \A m \in Occupied(newEntries) : newEntries[m].key # slot.key
        BY <1>1, <2>1 DEF Moved, Sound, Unique, Occupied
    <2>5. i \notin Occupied(newEntries)
        BY <1>1, <2>1, <2>2, <2>4, FindsSlot DEF Occupied
    <2>6. TypeOK'
        BY <1>1, <2>2, <2>3 DEF MoveEntry, TypeOK, Sound
    <2>7. CountMatches'
        BY <1>1, <2>2, <2>3, <2>5, OccupiedFinite, FS_AddElement DEF MoveEntry, CountMatches
    <2>8. Moved'
        <3>1. /\ newEntries'[i] = entries[scan]
              /\ \A m \in Occupied(newEntries) : newEntries'[m] = newEntries[m]
            BY <1>1, <2>2, <2>5 DEF Sound, Occupied
        <3>2. \A j \in Occupied(entries) : j < scan + 1 => j < scan \/ j = scan
            BY <1>1 DEF Sound, Occupied
        <3>3. \A j \in Occupied(entries) : j < scan + 1 =>
                \E m \in Occupied(newEntries') : newEntries'[m] = entries[j]
            BY <1>1, <2>3, <3>1, <3>2 DEF Moved
        <3>4. \A m \in Occupied(newEntries') :
                \E j \in Occupied(entries) : j < scan + 1 /\ newEntries'[m] = entries[j]
            <4>1. \A j \in Occupied(entries) : j < scan => j < scan + 1
                BY <1>1 DEF Sound, Occupied
            <4>2. scan < scan + 1
                BY <1>1
            <4> QED
                BY <1>1, <2>1, <2>3, <3>1, <4>1, <4>2 DEF Moved
        <3> QED
            BY <3>3, <3>4 DEF Moved, MoveEntry
    <2> QED
        BY <1>1, <2>3, <2>6, <2>7, <2>8 DEF IInv, MoveEntry
<1> QED
    BY <1>2, <1>3

LEMMA FinishGrowPreserves == IInv /\ FinishGrow => IInv'
<1> SUFFICES ASSUME IInv, FinishGrow PROVE IInv'
    OBVIOUS
<1>1. Sound(entries, capacity)'
    BY DEF IInv, FinishGrow
<1>2. TypeOK'
    BY <1>1 DEF IInv, FinishGrow, TypeOK, Sound, NoTable
<1>3. CountMatches'
    BY DEF IInv, FinishGrow, CountMatches
<1> QED
    BY <1>1, <1>2, <1>3 DEF IInv, FinishGrow

LEMMA StorePreserves == IInv /\ Store => IInv'
<1> SUFFICES ASSUME IInv, Store PROVE IInv'
    OBVIOUS
<1>1. CASE Loops(entries, call.key, capacity) /\ Diverge
    BY <1>1, DivergePreserves DEF Store
<1>2. ASSUME NEW i \in 0 .. capacity - 1,
             Finds(entries, call.key, capacity, i),
             entries' = [entries EXCEPT ![i] = call],
             count' = (IF entries[i].key = NULL THEN count + 1 ELSE count),
             status' = "idle",
             call' = NoCall,
             UNCHANGED <<capacity, newEntries, scan, ret>>
      PROVE  IInv'
    <2>1. /\ TypeOK /\ Sound(entries, capacity) /\ CountMatches
          /\ capacity \in Nat \ {0} /\ call \in Slot /\ call.key \in Key
          /\ status = "storing"
        BY DEF IInv, Store, TypeOK, Slot
    <2>2. Sound(entries', capacity) /\ Occupied(entries') = Occupied(entries) \cup {i}
        <3>1. Replaced(entries, capacity, i, call, entries')
            BY <1>2, <2>1, ExceptReplaces
        <3>2. Finds(entries, call.key, capacity, i)
            BY <1>2
        <3>3. /\ capacity \in Nat \ {0} /\ Sound(entries, capacity)
              /\ call \in Slot /\ call.key \in Key
            BY <2>1
        <3> QED
            BY <3>1, <3>2, <3>3, StoreKeepsSound
    <2>3. TypeOK'
        BY <1>2, <2>1, <2>2 DEF TypeOK, Sound, NoCall
    <2>4. CountMatches'
        <3>1. CASE entries[i].key = NULL
            <4>1. i \notin Occupied(entries)
                BY <3>1 DEF Occupied
            <4>2. Cardinality(Occupied(entries')) = Cardinality(Occupied(entries)) + 1
                BY <2>1, <2>2, <4>1, OccupiedFinite, FS_AddElement
            <4> QED
                BY <1>2, <2>1, <3>1, <4>2 DEF CountMatches
        <3>2. CASE entries[i].key # NULL
            <4>1. Occupied(entries') = Occupied(entries)
                BY <1>2, <2>1, <2>2, <3>2 DEF Occupied, Sound
            <4> QED
                BY <1>2, <2>1, <3>2, <4>1 DEF CountMatches
        <3> QED
            BY <3>1, <3>2
    <2> QED
        BY <1>2, <2>2, <2>3, <2>4 DEF IInv
<1> QED
    BY <1>1, <1>2 DEF Store

LEMMA GetPreserves ==
    ASSUME IInv, NEW k \in Key, Get(k)
    PROVE  IInv'
<1>1. CASE count # 0 /\ Loops(entries, k, capacity) /\ Diverge
    BY <1>1, DivergePreserves DEF Get
<1>2. CASE UNCHANGED <<entries, capacity, count, status, call, newEntries, scan>>
    <2>1. ret' \in Value \cup {NULL} \cup BOOLEAN
        <3>1. CASE ret' = NULL
            BY <3>1
        <3>2. ASSUME NEW i \in 0 .. capacity - 1,
                     ret' = (IF entries[i].key = NULL THEN NULL ELSE entries[i].value)
              PROVE  ret' \in Value \cup {NULL} \cup BOOLEAN
            BY <3>2 DEF IInv, Sound, Slot, Empty, Tombstone
        <3> QED
            BY <1>2, <3>1, <3>2 DEF Get, Diverge
    <2>2. TypeOK'
        BY <1>2, <2>1 DEF IInv, TypeOK
    <2> QED
        BY <1>2, <2>2 DEF IInv, Sound, CountMatches, Moved, Reachable, Unique, Occupied
<1> QED
    BY <1>1, <1>2 DEF Get

LEMMA HasPreserves ==
    ASSUME IInv, NEW k \in Key, Has(k)
    PROVE  IInv'
<1>1. CASE count # 0 /\ Loops(entries, k, capacity) /\ Diverge
    BY <1>1, DivergePreserves DEF Has
<1>2. CASE UNCHANGED <<entries, capacity, count, status, call, newEntries, scan>>
    <2>1. ret' \in Value \cup {NULL} \cup BOOLEAN
        BY <1>2 DEF Has, Diverge
    <2>2. TypeOK'
        BY <1>2, <2>1 DEF IInv, TypeOK
    <2> QED
        BY <1>2, <2>2 DEF IInv, Sound, CountMatches, Moved, Reachable, Unique, Occupied
<1> QED
    BY <1>1, <1>2 DEF Has

LEMMA RemovePreserves ==
    ASSUME IInv, NEW k \in Key, Remove(k)
    PROVE  IInv'
<1>1. CASE Loops(entries, k, capacity) /\ Diverge
    BY <1>1, DivergePreserves DEF Remove
<1>2. ASSUME NEW i \in 0 .. capacity - 1,
             entries[i].key # NULL,
             entries' = [entries EXCEPT ![i] = Tombstone],
             count' = count - 1,
             UNCHANGED <<capacity, status, call, newEntries, scan, ret>>
      PROVE  IInv'
    <2>1. /\ TypeOK /\ Sound(entries, capacity) /\ CountMatches
          /\ capacity \in Nat \ {0} /\ status = "idle"
        BY DEF IInv, Remove, TypeOK
    <2>2. Replaced(entries, capacity, i, Tombstone, entries')
        BY <1>2, <2>1, ExceptReplaces DEF Slot
    <2>3. Sound(entries', capacity) /\ Occupied(entries') = Occupied(entries) \ {i}
        BY <2>1, <2>2, RemoveKeepsSound
    <2>4. count' \in Nat /\ CountMatches'
        <3>1. i \in Occupied(entries)
            BY <1>2, <2>1 DEF Occupied, Sound
        <3>2. Cardinality(Occupied(entries')) = Cardinality(Occupied(entries)) - 1
            BY <2>1, <2>3, <3>1, OccupiedFinite, FS_RemoveElement
        <3>3. Cardinality(Occupied(entries')) \in Nat
            BY <2>1, <2>3, OccupiedFinite
        <3> QED
            BY <1>2, <2>1, <3>2, <3>3 DEF CountMatches
    <2>5. TypeOK'
        BY <1>2, <2>1, <2>3, <2>4 DEF TypeOK, Sound
    <2> QED
        BY <1>2, <2>1, <2>3, <2>4, <2>5 DEF IInv
<1> QED
    BY <1>1, <1>2 DEF Remove

LEMMA FreePreserves == IInv /\ Free => IInv'
<1> SUFFICES ASSUME IInv, Free PROVE IInv'
    OBVIOUS
<1>1. Sound(entries, capacity)' /\ Occupied(entries)' = {}
    BY DEF Free, NoTable, Sound, Occupied, Reachable, Unique
<1>2. CountMatches'
    BY <1>1, FS_EmptySet DEF Free, CountMatches
<1>3. TypeOK'
    BY <1>1 DEF IInv, Free, TypeOK, Sound
<1> QED
    BY <1>1, <1>2, <1>3 DEF IInv, Free

LEMMA StepPreserves == IInv /\ [ApiNext]_vars => IInv'
<1> SUFFICES ASSUME IInv, [ApiNext]_vars PROVE IInv'
    OBVIOUS
<1>1. ASSUME NEW k \in Key, NEW v \in Value \cup {NULL}, CallPut(k, v) PROVE IInv'
    BY <1>1, CallPutPreserves
<1>2. CASE Progress
    BY <1>2, MoveEntryPreserves, FinishGrowPreserves, StorePreserves DEF Progress
<1>3. ASSUME NEW k \in Key, Get(k) \/ Has(k) \/ Remove(k) PROVE IInv'
    BY <1>3, GetPreserves, HasPreserves, RemovePreserves
<1>4. CASE Free
    BY <1>4, FreePreserves
<1>5. CASE UNCHANGED vars
    <2>1. TypeOK'
        BY <1>5 DEF IInv, TypeOK, vars
    <2> QED
        BY <1>5, <2>1 DEF IInv, vars, Sound, CountMatches, Moved, Reachable, Unique, Occupied
<1> QED
    BY <1>1, <1>2, <1>3, <1>4, <1>5 DEF ApiNext, Next

\* Whatever functions of the header are called, with or without mapRemove,
\* the inductive invariant holds at every step.
THEOREM Invariance == ApiSpec => []IInv
    BY InitEstablishes, StepPreserves, PTL DEF ApiSpec

\* Every variable keeps its type; in particular no slot holds a value without
\* a key, the case findEntry reports as unreachable.
THEOREM TypeCorrect == ApiSpec => []TypeOK
<1>1. IInv => TypeOK
    BY DEF IInv
<1> QED
    BY <1>1, Invariance, PTL

\* map->count is the number of keys in the table, also while it grows.
THEOREM CountIsCardinality == ApiSpec => []CountMatches
<1>1. IInv => CountMatches
    BY DEF IInv
<1> QED
    BY <1>1, Invariance, PTL

\* A probe for a stored key ends in its slot, in the table in use and in the
\* one increaseCapacity fills, after any sequence of calls.
THEOREM KeysAreFound == ApiSpec => []StoredKeysAreFound
<1>1. IInv => StoredKeysAreFound
    <2>1. SUFFICES ASSUME IInv PROVE StoredKeysAreFound
        OBVIOUS
    <2>2. Sound(entries, capacity) /\ capacity \in Nat
        BY <2>1 DEF IInv, TypeOK
    <2>3. ASSUME NEW i \in Occupied(entries), NEW j \in 0 .. capacity - 1
          PROVE  Finds(entries, entries[i].key, capacity, j) <=> j = i
        <3>1. capacity \in Nat \ {0}
            BY <2>2
        <3> QED
            BY <2>2, <2>3, <3>1, FindsStored
    <2>4. ASSUME status = "growing",
                 NEW i \in Occupied(newEntries), NEW j \in 0 .. 2 * capacity - 1
          PROVE  Finds(newEntries, newEntries[i].key, 2 * capacity, j) <=> j = i
        <3>1. Sound(newEntries, 2 * capacity) /\ 2 * capacity \in Nat \ {0}
            BY <2>1, <2>4 DEF IInv, TypeOK
        <3> QED
            BY <2>4, <3>1, FindsStored
    <2> QED
        BY <2>3, <2>4 DEF StoredKeysAreFound
<1> QED
    BY <1>1, Invariance, PTL

-----------------------------------------------------------------------------
(* The table implements the dictionary. *)

LEMMA ContentsStored ==
    ASSUME NEW table, NEW size \in Nat, Sound(table, size), NEW i \in Occupied(table)
    PROVE  /\ table[i].key \in Key /\ table[i].value \in Value \cup {NULL}
           /\ Contents(table)[table[i].key] = table[i].value
<1>1. table[i].key \in Key /\ table[i].value \in Value \cup {NULL}
    BY DEF Sound, Occupied, Slot, Empty, Tombstone
<1> DEFINE j == CHOOSE j \in Occupied(table) : table[j].key = table[i].key
<1>2. j \in Occupied(table) /\ table[j].key = table[i].key
    OBVIOUS
<1>3. j = i
    BY <1>2 DEF Sound, Unique
<1> QED
    BY <1>1, <1>3 DEF Contents

LEMMA ContentsMissing ==
    ASSUME NEW table, NEW k \in Key,
           \A i \in Occupied(table) : table[i].key # k
    PROVE  Contents(table)[k] = Absent
    BY DEF Contents

\* The slot findEntry returns shows what the dictionary holds.
LEMMA ContentsFound ==
    ASSUME NEW table, NEW size \in Nat \ {0}, Sound(table, size),
           NEW k \in Key, NEW i, Finds(table, k, size, i)
    PROVE  /\ i \in 0 .. size - 1
           /\ table[i].key = NULL => Contents(table)[k] = Absent
           /\ table[i].key # NULL =>
                /\ table[i].key = k
                /\ Contents(table)[k] = table[i].value
                /\ table[i].value \in Value \cup {NULL}
<1>1. /\ i \in 0 .. size - 1
      /\ \/ table[i].key = k
         \/ table[i].key = NULL /\ \A m \in 0 .. size - 1 : table[m].key # k
    BY FindsSlot
<1>2. CASE table[i].key = NULL
    <2>1. \A m \in Occupied(table) : table[m].key # k
        BY <1>1, <1>2, ConstantsAssumption DEF Sound, Occupied
    <2> QED
        BY <1>1, <1>2, <2>1, ContentsMissing
<1>3. CASE table[i].key # NULL
    <2>1. table[i].key = k /\ i \in Occupied(table)
        BY <1>1, <1>3 DEF Sound, Occupied
    <2> QED
        BY <1>1, <1>3, <2>1, ContentsStored
<1> QED
    BY <1>2, <1>3

\* Two tables with the same entries stand for the same dictionary.
LEMMA ContentsSame ==
    ASSUME NEW t, NEW m \in Nat, Sound(t, m), NEW u, NEW n \in Nat, Sound(u, n),
           \A i \in Occupied(t) : \E j \in Occupied(u) : u[j] = t[i],
           \A j \in Occupied(u) : \E i \in Occupied(t) : u[j] = t[i]
    PROVE  Contents(t) = Contents(u)
<1>1. SUFFICES ASSUME NEW k \in Key PROVE Contents(t)[k] = Contents(u)[k]
    BY DEF Contents
<1>2. CASE \E i \in Occupied(t) : t[i].key = k
    <2>1. PICK i \in Occupied(t) : t[i].key = k
        BY <1>2
    <2>2. PICK j \in Occupied(u) : u[j] = t[i]
        OBVIOUS
    <2> QED
        BY <2>1, <2>2, ContentsStored
<1>3. CASE \A i \in Occupied(t) : t[i].key # k
    <2>1. \A j \in Occupied(u) : u[j].key # k
        BY <1>3
    <2> QED
        BY <1>3, <2>1, ContentsMissing
<1> QED
    BY <1>2, <1>3

\* No slot but the one findEntry returns holds the key.
LEMMA OneSlot ==
    ASSUME NEW table, NEW size \in Nat \ {0}, Sound(table, size),
           NEW k \in Key, NEW i, Finds(table, k, size, i)
    PROVE  /\ table[i].key \in {NULL, k}
           /\ \A m \in 0 .. size - 1 : m # i => table[m].key # k
<1>1. /\ i \in 0 .. size - 1
      /\ \/ table[i].key = k
         \/ table[i].key = NULL /\ \A m \in 0 .. size - 1 : table[m].key # k
    BY FindsSlot
<1>2. ASSUME table[i].key = k, NEW m \in 0 .. size - 1, table[m].key = k PROVE m = i
    BY <1>1, <1>2, ConstantsAssumption DEF Sound, Unique, Occupied
<1> QED
    BY <1>1, <1>2

\* Changing the slot of one key changes the dictionary at that key.
LEMMA ContentsChanged ==
    ASSUME NEW table, NEW size \in Nat, Sound(table, size),
           NEW slot \in Slot, NEW k \in Key, NEW i \in 0 .. size - 1,
           NEW new, Replaced(table, size, i, slot, new), Sound(new, size),
           \A m \in 0 .. size - 1 : m # i => table[m].key # k,
           table[i].key \in {NULL, k},
           slot.key \in {NULL, k}
    PROVE  Contents(new) = [Contents(table) EXCEPT ![k] =
                                IF slot.key = NULL THEN Absent ELSE slot.value]
<1>1. SUFFICES ASSUME NEW l \in Key
               PROVE  Contents(new)[l] =
                        IF l # k THEN Contents(table)[l]
                        ELSE IF slot.key = NULL THEN Absent ELSE slot.value
    <2>1. /\ Contents(new) = [l \in Key |-> Contents(new)[l]]
          /\ Contents(table) = [l \in Key |-> Contents(table)[l]]
        BY DEF Contents
    <2> QED
        BY <1>1, <2>1
<1>2. \A m \in 0 .. size - 1 : m # i =>
        /\ new[m] = table[m]
        /\ m \in Occupied(new) <=> m \in Occupied(table)
    BY DEF Replaced, Occupied, Sound
<1>3. Occupied(new) \subseteq 0 .. size - 1 /\ Occupied(table) \subseteq 0 .. size - 1
    BY DEF Occupied, Sound
<1>4. new[i] = slot /\ (i \in Occupied(new) <=> slot.key # NULL)
    BY DEF Replaced, Occupied
<1>5. CASE l = k
    <2>1. CASE slot.key = NULL
        <3>1. \A m \in Occupied(new) : new[m].key # k
            BY <1>2, <1>3, <1>4, <2>1
        <3> QED
            BY <1>5, <2>1, <3>1, ContentsMissing
    <2>2. CASE slot.key # NULL
        BY <1>4, <1>5, <2>2, ContentsStored
    <2> QED
        BY <2>1, <2>2
<1>6. CASE l # k
    <2>1. CASE \E m \in Occupied(table) : table[m].key = l
        <3>1. PICK m \in Occupied(table) : table[m].key = l
            BY <2>1
        <3>2. m # i
            BY <1>6, <3>1, ConstantsAssumption
        <3>3. m \in Occupied(new) /\ new[m] = table[m]
            BY <1>2, <1>3, <3>2
        <3> QED
            BY <1>6, <3>1, <3>3, ContentsStored
    <2>2. CASE \A m \in Occupied(table) : table[m].key # l
        <3>1. \A m \in Occupied(new) : new[m].key # l
            BY <1>2, <1>3, <1>4, <1>6, <2>2, ConstantsAssumption
        <3> QED
            BY <1>6, <2>2, <3>1, ContentsMissing
    <2> QED
        BY <2>1, <2>2
<1> QED
    BY <1>5, <1>6

LEMMA InitImplements == Init => Dict!Init
<1> SUFFICES ASSUME Init PROVE Dict!Init
    OBVIOUS
<1>1. Occupied(entries) = {}
    BY EmptyTableSound, ConstantsAssumption DEF Init
<1> QED
    BY <1>1 DEF Contents, Init, Dict!Init

LEMMA FinishGrowImplements == IInv /\ FinishGrow => UNCHANGED Dict!vars
<1> SUFFICES ASSUME IInv, FinishGrow PROVE UNCHANGED Dict!vars
    OBVIOUS
<1>1. /\ Sound(entries, capacity) /\ Sound(newEntries, 2 * capacity) /\ Moved
      /\ scan = capacity /\ capacity \in Nat /\ 2 * capacity \in Nat
    BY DEF IInv, FinishGrow, TypeOK
<1>2. \A i \in Occupied(entries) : i < scan
    BY <1>1 DEF Occupied, Sound
<1>3. \A i \in Occupied(entries) : \E j \in Occupied(newEntries) : newEntries[j] = entries[i]
    BY <1>1, <1>2 DEF Moved
<1>4. \A j \in Occupied(newEntries) : \E i \in Occupied(entries) : newEntries[j] = entries[i]
    BY <1>1 DEF Moved
<1>5. Contents(entries) = Contents(newEntries)
    BY <1>1, <1>3, <1>4, ContentsSame
<1> QED
    BY <1>5 DEF FinishGrow, Dict!vars

LEMMA StoreImplements == IInv /\ Store => Dict!Next \/ UNCHANGED Dict!vars
<1> SUFFICES ASSUME IInv, Store PROVE Dict!Next \/ UNCHANGED Dict!vars
    OBVIOUS
<1>1. CASE Diverge
    BY <1>1 DEF Diverge, Dict!vars
<1>2. ASSUME NEW i \in 0 .. capacity - 1,
             Finds(entries, call.key, capacity, i),
             entries' = [entries EXCEPT ![i] = call],
             UNCHANGED ret
      PROVE  Dict!Next
    <2>1. /\ Sound(entries, capacity) /\ capacity \in Nat \ {0}
          /\ call \in Slot /\ call.key \in Key /\ call.value \in Value \cup {NULL}
        BY DEF IInv, Store, TypeOK, Slot
    <2>2. Finds(entries, call.key, capacity, i)
        BY <1>2
    <2>3. Replaced(entries, capacity, i, call, entries')
        BY <1>2, <2>1, ExceptReplaces
    <2>4. Sound(entries', capacity)
        BY <2>1, <2>2, <2>3, StoreKeepsSound
    <2>5. /\ entries[i].key \in {NULL, call.key}
          /\ \A m \in 0 .. capacity - 1 : m # i => entries[m].key # call.key
        BY <2>1, <2>2, OneSlot
    <2>6. Contents(entries') = [Contents(entries) EXCEPT ![call.key] = call.value]
        <3>1. call.key # NULL
            BY <2>1, ConstantsAssumption
        <3> QED
            BY <2>1, <2>3, <2>4, <2>5, <3>1, ContentsChanged
    <2>7. Dict!Put(call.key, call.value)
        BY <1>2, <2>6 DEF Dict!Put
    <2> QED
        BY <2>1, <2>7 DEF Dict!Next
<1> QED
    BY <1>1, <1>2 DEF Store

LEMMA EmptyWhenCountZero ==
    ASSUME IInv, status = "idle", count = 0
    PROVE  Occupied(entries) = {}
<1>1. Sound(entries, capacity) /\ capacity \in Nat /\ Cardinality(Occupied(entries)) = 0
    BY DEF IInv, TypeOK, CountMatches
<1> QED
    BY <1>1, OccupiedFinite, FS_EmptySet

LEMMA EmptyTableHasNoKeys ==
    ASSUME IInv, status = "idle", capacity = 0
    PROVE  count = 0
<1>1. Occupied(entries) = {} /\ count = Cardinality(Occupied(entries))
    BY DEF IInv, CountMatches, Sound, Occupied
<1> QED
    BY <1>1, FS_EmptySet

LEMMA GetImplements ==
    ASSUME IInv, NEW k \in Key, Get(k)
    PROVE  Dict!Next \/ UNCHANGED Dict!vars
<1>1. CASE Diverge
    BY <1>1 DEF Diverge, Dict!vars
<1>2. CASE count = 0 /\ ret' = NULL /\ UNCHANGED entries
    <2>1. Contents(entries)[k] = Absent
        BY <1>2, EmptyWhenCountZero, ContentsMissing DEF Get
    <2> QED
        BY <1>2, <2>1 DEF Dict!Get, Dict!Next
<1>3. ASSUME NEW i \in 0 .. capacity - 1,
             Finds(entries, k, capacity, i),
             ret' = (IF entries[i].key = NULL THEN NULL ELSE entries[i].value),
             UNCHANGED entries
      PROVE  Dict!Next
    <2>1. Sound(entries, capacity) /\ capacity \in Nat \ {0}
        BY <1>3 DEF IInv, TypeOK
    <2>2. ret' = IF Contents(entries)[k] = Absent THEN NULL ELSE Contents(entries)[k]
        BY <1>3, <2>1, ContentsFound, ConstantsAssumption
    <2> QED
        BY <1>3, <2>2 DEF Dict!Get, Dict!Next
<1> QED
    BY <1>1, <1>2, <1>3 DEF Get

LEMMA HasImplements ==
    ASSUME IInv, NEW k \in Key, Has(k)
    PROVE  Dict!Next \/ UNCHANGED Dict!vars
<1>1. CASE Diverge
    BY <1>1 DEF Diverge, Dict!vars
<1>2. CASE count = 0 /\ ret' = FALSE /\ UNCHANGED entries
    <2>1. Contents(entries)[k] = Absent
        BY <1>2, EmptyWhenCountZero, ContentsMissing DEF Has
    <2> QED
        BY <1>2, <2>1 DEF Dict!Has, Dict!Next
<1>3. ASSUME NEW i \in 0 .. capacity - 1,
             Finds(entries, k, capacity, i),
             ret' = (entries[i].key # NULL /\ entries[i].value # NULL),
             UNCHANGED entries
      PROVE  Dict!Next
    <2>1. Sound(entries, capacity) /\ capacity \in Nat \ {0}
        BY <1>3 DEF IInv, TypeOK
    <2>2. ret' = (Contents(entries)[k] \notin {Absent, NULL})
        BY <1>3, <2>1, ContentsFound, ConstantsAssumption
    <2> QED
        BY <1>3, <2>2 DEF Dict!Has, Dict!Next
<1> QED
    BY <1>1, <1>2, <1>3 DEF Has

LEMMA RemoveImplements ==
    ASSUME IInv, NEW k \in Key, Remove(k)
    PROVE  Dict!Next \/ UNCHANGED Dict!vars
<1>1. CASE Diverge
    BY <1>1 DEF Diverge, Dict!vars
<1>2. ASSUME NEW i \in 0 .. capacity - 1,
             Finds(entries, k, capacity, i),
             entries' = [entries EXCEPT ![i] = Tombstone],
             UNCHANGED ret
      PROVE  Dict!Next
    <2>1. /\ Sound(entries, capacity) /\ capacity \in Nat \ {0}
          /\ Tombstone \in Slot /\ Tombstone.key = NULL
        BY DEF IInv, Remove, TypeOK, Slot, Tombstone
    <2>2. Finds(entries, k, capacity, i)
        BY <1>2
    <2>3. Replaced(entries, capacity, i, Tombstone, entries')
        BY <1>2, <2>1, ExceptReplaces
    <2>4. Sound(entries', capacity)
        BY <2>1, <2>3, RemoveKeepsSound
    <2>5. /\ entries[i].key \in {NULL, k}
          /\ \A m \in 0 .. capacity - 1 : m # i => entries[m].key # k
        BY <2>1, <2>2, OneSlot
    <2>6. Contents(entries') = [Contents(entries) EXCEPT ![k] = Absent]
        BY <2>1, <2>3, <2>4, <2>5, ContentsChanged
    <2> QED
        BY <1>2, <2>6 DEF Dict!Remove, Dict!Next
<1> QED
    BY <1>1, <1>2 DEF Remove

LEMMA FreeImplements == Free => Dict!Next
<1> SUFFICES ASSUME Free PROVE Dict!Next
    OBVIOUS
<1>1. Occupied(entries)' = {}
    BY DEF Free, NoTable, Occupied
<1>2. Contents(entries)' = [k \in Key |-> Absent]
    BY <1>1 DEF Contents
<1> QED
    BY <1>2 DEF Free, Dict!Free, Dict!Next

LEMMA StepImplements == IInv /\ [ApiNext]_vars => [Dict!Next]_(Dict!vars)
<1> SUFFICES ASSUME IInv, [ApiNext]_vars PROVE Dict!Next \/ UNCHANGED Dict!vars
    OBVIOUS
<1>1. ASSUME NEW k \in Key, NEW v \in Value \cup {NULL}, CallPut(k, v)
      PROVE  UNCHANGED Dict!vars
    BY <1>1 DEF CallPut, Dict!vars
<1>2. CASE MoveEntry
    BY <1>2 DEF MoveEntry, Dict!vars
<1>3. CASE FinishGrow \/ Store
    BY <1>3, FinishGrowImplements, StoreImplements
<1>4. ASSUME NEW k \in Key, Get(k) \/ Has(k) \/ Remove(k)
      PROVE  Dict!Next \/ UNCHANGED Dict!vars
    BY <1>4, GetImplements, HasImplements, RemoveImplements
<1>5. CASE Free
    BY <1>5, FreeImplements
<1>6. CASE UNCHANGED vars
    BY <1>6 DEF vars, Dict!vars
<1> QED
    BY <1>1, <1>2, <1>3, <1>4, <1>5, <1>6 DEF ApiNext, Next, Progress

\* The hash table implements the dictionary: probing, tombstones, resizing and
\* the moves in between are invisible to the callers of hashmap.c.
THEOREM Refinement == ApiSpec => ImplementsDictionary
    BY InitImplements, StepImplements, Invariance, PTL
    DEF ApiSpec, ImplementsDictionary, Dict!Spec

-----------------------------------------------------------------------------
(* As the compiler uses the table, without mapRemove, it never fills up. *)

NoTombstone(table) == \A i \in DOMAIN table : table[i] # Tombstone

\* The entries increaseCapacity has passed.
Passed == {i \in Occupied(entries) : i < scan}

Load ==
    /\ status # "diverged"
    /\ NoTombstone(entries)
    /\ 2 * Cardinality(Occupied(entries)) <= capacity
    /\ status = "storing" => 2 * (count + 1) <= capacity
    /\ status = "growing" => NoTombstone(newEntries) /\ count = Cardinality(Passed)

LEMMA FilledIsOccupied ==
    ASSUME NEW table, NEW size \in Nat, Sound(table, size), NoTombstone(table)
    PROVE  {i \in DOMAIN table : table[i] # Empty} = Occupied(table)
    BY ConstantsAssumption DEF Sound, NoTombstone, Slot, Occupied, Empty, Tombstone

\* A table that is half empty ends every probe.
LEMMA HalfEmptyEndsProbes ==
    ASSUME NEW table, NEW size \in Nat \ {0}, Sound(table, size), NoTombstone(table),
           2 * Cardinality(Occupied(table)) <= size, NEW k
    PROVE  ~Loops(table, k, size)
<1>1. SUFFICES ASSUME \A i \in 0 .. size - 1 : table[i] # Empty PROVE FALSE
    BY DEF Loops, Exits
<1>2. Occupied(table) = 0 .. size - 1
    BY <1>1, FilledIsOccupied DEF Sound
<1>3. Cardinality(0 .. size - 1) = size
    BY FS_Interval
<1> QED
    BY <1>2, <1>3

LEMMA CallPutLoads ==
    ASSUME IInv, Load, NEW k \in Key, NEW v \in Value \cup {NULL}, CallPut(k, v)
    PROVE  Load'
<1>1. CASE MustGrow
    <2>1. NoTombstone(EmptyTable(2 * capacity))
        BY ConstantsAssumption DEF NoTombstone, EmptyTable, Empty, Tombstone
    <2>2. Passed' = {}
        BY <1>1 DEF Passed, CallPut, IInv, Sound, TypeOK, Occupied
    <2> QED
        BY <1>1, <2>1, <2>2, FS_EmptySet DEF Load, CallPut
<1>2. CASE ~MustGrow
    BY <1>2 DEF Load, CallPut, MustGrow, IInv, TypeOK
<1> QED
    BY <1>1, <1>2

LEMMA MoveEntryLoads == IInv /\ Load /\ MoveEntry => Load'
<1> SUFFICES ASSUME IInv, Load, MoveEntry PROVE Load'
    OBVIOUS
<1>1. /\ Sound(entries, capacity) /\ Sound(newEntries, 2 * capacity)
      /\ status = "growing" /\ capacity \in Nat \ {0} /\ scan \in 0 .. capacity - 1
    BY DEF IInv, MoveEntry, TypeOK
<1>2. IsFiniteSet(Passed)
    BY <1>1, OccupiedFinite, FS_Subset DEF Passed
<1>3. CASE entries[scan].key = NULL
    <2>1. Passed' = Passed
        BY <1>1, <1>3 DEF Passed, MoveEntry, Occupied, Sound
    <2> QED
        BY <1>3, <2>1 DEF Load, MoveEntry
<1>4. CASE entries[scan].key # NULL
    <2>1. Passed' = Passed \cup {scan} /\ scan \notin Passed
        BY <1>1, <1>4 DEF Passed, MoveEntry, Occupied, Sound
    <2>2. Cardinality(Passed') = Cardinality(Passed) + 1
        BY <1>2, <2>1, FS_AddElement
    <2>3. NoTombstone(newEntries')
        BY <1>1, <1>4 DEF MoveEntry, Load, NoTombstone, Sound, Tombstone
    <2> QED
        BY <1>4, <2>2, <2>3 DEF Load, MoveEntry
<1> QED
    BY <1>3, <1>4

LEMMA FinishGrowLoads == IInv /\ Load /\ FinishGrow => Load'
<1> SUFFICES ASSUME IInv, Load, FinishGrow PROVE Load'
    OBVIOUS
<1>1. /\ Sound(entries, capacity) /\ capacity \in Nat \ {0} /\ scan = capacity
      /\ status = "growing"
    BY DEF IInv, FinishGrow, TypeOK
<1>2. Passed = Occupied(entries)
    BY <1>1 DEF Passed, Occupied, Sound
<1>3. count = Cardinality(Occupied(entries)) /\ count = Cardinality(Occupied(newEntries))
    BY <1>1, <1>2 DEF Load, IInv, CountMatches
<1>4. count \in Nat /\ 2 * count <= capacity
    BY <1>3 DEF Load, IInv, TypeOK
<1>5. 2 * (count + 1) <= 2 * capacity
    BY <1>1, <1>4
<1> QED
    BY <1>1, <1>3, <1>4, <1>5 DEF Load, FinishGrow

LEMMA StoreLoads == IInv /\ Load /\ Store => Load'
<1> SUFFICES ASSUME IInv, Load, Store PROVE Load'
    OBVIOUS
<1>1. /\ Sound(entries, capacity) /\ capacity \in Nat \ {0} /\ count \in Nat
      /\ status = "storing" /\ CountMatches /\ call.key \in Key /\ NoTombstone(entries)
    BY DEF IInv, Store, TypeOK, Load
<1>2. ~Loops(entries, call.key, capacity)
    BY <1>1, HalfEmptyEndsProbes DEF Load
<1>3. PICK i \in 0 .. capacity - 1 :
        /\ entries' = [entries EXCEPT ![i] = call]
        /\ count' = IF entries[i].key = NULL THEN count + 1 ELSE count
        /\ status' = "idle"
        /\ UNCHANGED <<capacity, newEntries, scan, ret>>
    BY <1>2 DEF Store
<1>4. CountMatches'
    BY StorePreserves DEF IInv
<1>5. 2 * Cardinality(Occupied(entries')) <= capacity'
    BY <1>1, <1>3, <1>4 DEF Load, CountMatches
<1>6. NoTombstone(entries')
    <2>1. call # Tombstone
        BY <1>1, ConstantsAssumption DEF Tombstone
    <2> QED
        BY <1>1, <1>3, <2>1 DEF NoTombstone, Sound
<1> QED
    BY <1>3, <1>5, <1>6 DEF Load

LEMMA StepLoads == IInv /\ Load /\ [Next]_vars => Load'
<1> SUFFICES ASSUME IInv, Load, [Next]_vars PROVE Load'
    OBVIOUS
<1>1. ASSUME NEW k \in Key, NEW v \in Value \cup {NULL}, CallPut(k, v) PROVE Load'
    BY <1>1, CallPutLoads
<1>2. CASE Progress
    BY <1>2, MoveEntryLoads, FinishGrowLoads, StoreLoads DEF Progress
<1>3. ASSUME NEW k \in Key, Get(k) \/ Has(k) PROVE Load'
    <2>1. CASE count # 0 /\ Loops(entries, k, capacity) /\ status = "idle"
        <3>1. capacity # 0
            BY <2>1, EmptyTableHasNoKeys
        <3>2. Sound(entries, capacity) /\ capacity \in Nat \ {0}
            BY <3>1 DEF IInv, TypeOK
        <3> QED
            BY <2>1, <3>2, HalfEmptyEndsProbes DEF Load
    <2>2. CASE UNCHANGED <<entries, capacity, count, status, newEntries, scan>>
        BY <2>2 DEF Load, Passed
    <2> QED
        BY <1>3, <2>1, <2>2 DEF Get, Has
<1>4. CASE Free
    <2>1. NoTombstone(entries') /\ Occupied(entries') = {}
        BY <1>4 DEF Free, NoTable, NoTombstone, Occupied
    <2> QED
        BY <1>4, <2>1, FS_EmptySet DEF Free, Load
<1>5. CASE UNCHANGED vars
    BY <1>5 DEF vars, Load, Passed
<1> QED
    BY <1>1, <1>2, <1>3, <1>4, <1>5 DEF Next

LEMMA InitLoads == Init => Load
<1> SUFFICES ASSUME Init PROVE Load
    OBVIOUS
<1>1. Occupied(entries) = {}
    BY EmptyTableSound, ConstantsAssumption DEF Init
<1>2. NoTombstone(entries)
    BY ConstantsAssumption DEF Init, NoTombstone, EmptyTable, Empty, Tombstone
<1> QED
    BY <1>1, <1>2, FS_EmptySet, ConstantsAssumption DEF Init, Load

\* The compiler's use of the table is one of the uses the header allows.
LEMMA SpecIsApiSpec == Spec => ApiSpec
<1>1. [Next]_vars => [ApiNext]_vars
    BY DEF ApiNext
<1> QED
    BY <1>1, PTL DEF Spec, ApiSpec

LEMMA LoadInvariance == Spec => [](IInv /\ Load)
<1>1. IInv /\ Load /\ IInv' /\ [Next]_vars => (IInv /\ Load)'
    BY StepLoads
<1> QED
    BY <1>1, InitLoads, SpecIsApiSpec, Invariance, PTL DEF Spec

\* Without mapRemove no more than MAX_LOAD of the table is ever in use.
THEOREM LoadStaysBounded == Spec => []LoadBounded
<1>1. IInv /\ Load => LoadBounded
    <2>1. SUFFICES ASSUME IInv, Load PROVE LoadBounded
        OBVIOUS
    <2>2. {i \in DOMAIN entries : entries[i] # Empty} = Occupied(entries)
        BY <2>1, FilledIsOccupied DEF IInv, Load, TypeOK
    <2> QED
        BY <2>1, <2>2 DEF LoadBounded, Load
<1> QED
    BY <1>1, LoadInvariance, PTL

\* Without mapRemove no call runs forever inside findEntry.
THEOREM ProbesEnd == Spec => []NeverDiverges
<1>1. Load => NeverDiverges
    BY DEF Load, NeverDiverges
<1> QED
    BY <1>1, LoadInvariance, PTL

=============================================================================
