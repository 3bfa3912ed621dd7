------------------------------ MODULE HashMap -------------------------------
(***************************************************************************)
(* The open-addressing hash table of scc/src/hashmap.c: linear probing, a  *)
(* tombstone (key NULL, value CAIRO) for a removed entry, and doubling     *)
(* when the next insertion would pass the load limit of one half.          *)
(*                                                                         *)
(* Calls are sequential, so findEntry is one step: the relation Finds says *)
(* which slot its loop returns, and a call whose loop has no exit moves to *)
(* the status "diverged".  mapPut is cut into its check, the iterations of *)
(* increaseCapacity and the final store, so that every intermediate table  *)
(* is a state.                                                             *)
(*                                                                         *)
(* A key is the text it points at: two lexer tokens with the same start    *)
(* have the same length, so the pointer comparison of findEntry adds       *)
(* nothing to the comparison of texts.                                     *)
(***************************************************************************)
EXTENDS Integers, FiniteSets

CONSTANTS
    Key,                \* the texts used as keys
    Value,              \* the non-NULL values
    NULL,               \* the null pointer
    CAIRO,              \* the sentinel value of a tombstone
    Absent,             \* the dictionary's "no such key"
    Hash,               \* hashKey
    INITIAL_CAPACITY    \* 16 in the code; a power of two

ASSUME ConstantsAssumption ==
    /\ NULL \notin Key \cup Value
    /\ CAIRO \notin Value \cup {NULL}
    /\ Absent \notin Value \cup {NULL}
    /\ Hash \in [Key -> Nat]
    /\ INITIAL_CAPACITY \in Nat \ {0}

VARIABLES
    entries,    \* map->entries, a function 0 .. capacity - 1 -> slot
    capacity,   \* map->capacity, 0 once freed
    count,      \* map->count
    status,     \* "idle", or where the running mapPut is, or "diverged"
    call,       \* the arguments of the running mapPut
    newEntries, \* the table increaseCapacity fills
    scan,       \* its loop counter
    ret         \* what the last mapGet or mapHas returned

vars == <<entries, capacity, count, status, call, newEntries, scan, ret>>

Empty == [key |-> NULL, value |-> NULL]
Tombstone == [key |-> NULL, value |-> CAIRO]

\* The case findEntry calls unreachable, a value without a key, is no Slot.
Slot == [key : Key, value : Value \cup {NULL}] \cup {Empty, Tombstone}

EmptyTable(size) == [i \in 0 .. size - 1 |-> Empty]
NoTable == [i \in {} |-> Empty]

NoCall == [key |-> NULL, value |-> NULL]

Occupied(table) == {i \in DOMAIN table : table[i].key # NULL}

-----------------------------------------------------------------------------
(* findEntry *)

\* The masked hash: capacities are powers of two, so & (capacity - 1) is %.
Home(k, size) == Hash[k] % size

\* Slot j comes before slot i on the circular probe path that starts at h.
OnPath(h, i, j) == IF h <= i THEN h <= j /\ j < i ELSE h <= j \/ j < i

\* The loop returns at slot i: it is empty or holds the key.
Exits(table, k, i) == table[i] = Empty \/ table[i].key = k

\* The first slot of k's probe path at which the loop returns.
ProbeEnd(table, k, size, i) ==
    /\ i \in 0 .. size - 1
    /\ Exits(table, k, i)
    /\ \A j \in 0 .. size - 1 : OnPath(Home(k, size), i, j) => ~Exits(table, k, j)

\* A mutation of Finds: returns the first tombstone without probing on.
FindsFirstTombstone(table, k, size, i) ==
    /\ i \in 0 .. size - 1
    /\ table[i].key \in {NULL, k}
    /\ \A j \in 0 .. size - 1 :
        OnPath(Home(k, size), i, j) => table[j].key \notin {NULL, k}

\* findEntry returns slot i: the key's slot if the key is on the path, and
\* else the first tombstone passed, or the empty slot if none was.
Finds(table, k, size, i) ==
    \E end \in 0 .. size - 1 :
        LET passed(j) == OnPath(Home(k, size), end, j) /\ table[j] = Tombstone
        IN  /\ ProbeEnd(table, k, size, end)
            /\ \/ /\ table[end].key = k \/ \A j \in 0 .. size - 1 : ~passed(j)
                  /\ i = end
               \/ /\ table[end].key # k
                  /\ i \in 0 .. size - 1
                  /\ passed(i)
                  /\ \A j \in 0 .. size - 1 :
                        OnPath(Home(k, size), i, j) => table[j] # Tombstone

\* The loop of findEntry has no exit.
Loops(table, k, size) == \A i \in 0 .. size - 1 : ~Exits(table, k, i)

-----------------------------------------------------------------------------
Init ==
    /\ entries = EmptyTable(INITIAL_CAPACITY)
    /\ capacity = INITIAL_CAPACITY
    /\ count = 0
    /\ status = "idle"
    /\ call = NoCall
    /\ newEntries = NoTable
    /\ scan = 0
    /\ ret = NULL

\* The call never returns, and the program is inside it for good.
Diverge ==
    /\ status' = "diverged"
    /\ UNCHANGED <<entries, capacity, count, call, newEntries, scan, ret>>

\* A mutation of MustGrow: grows only when the table is full.
MustGrowWhenFull == count + 1 > capacity

\* count + 1 > capacity * MAX_LOAD
MustGrow == 2 * (count + 1) > capacity

\* mapPut up to the load check.  A freed map (capacity 0) is never put into:
\* leaveScope frees a map together with the only pointer to it.
CallPut(k, v) ==
    /\ status = "idle"
    /\ capacity > 0
    /\ call' = [key |-> k, value |-> v]
    /\ IF MustGrow
       THEN /\ status' = "growing"
            /\ newEntries' = EmptyTable(2 * capacity)
            /\ scan' = 0
            /\ count' = 0
       ELSE /\ status' = "storing"
            /\ UNCHANGED <<newEntries, scan, count>>
    /\ UNCHANGED <<entries, capacity, ret>>

\* A mutation of MoveEntry: copies the slot to the same index.
MoveEntryInPlace ==
    /\ status = "growing"
    /\ scan < capacity
    /\ newEntries' = [newEntries EXCEPT ![scan] = entries[scan]]
    /\ count' = IF entries[scan].key = NULL THEN count ELSE count + 1
    /\ scan' = scan + 1
    /\ UNCHANGED <<entries, capacity, status, call, ret>>

\* A mutation of MoveEntry: forgets to recount the moved entries.
MoveEntryUncounted ==
    /\ status = "growing"
    /\ scan < capacity
    /\ IF entries[scan].key = NULL
       THEN UNCHANGED newEntries
       ELSE \E i \in 0 .. 2 * capacity - 1 :
                /\ Finds(newEntries, entries[scan].key, 2 * capacity, i)
                /\ newEntries' = [newEntries EXCEPT ![i] = entries[scan]]
    /\ scan' = scan + 1
    /\ UNCHANGED <<entries, capacity, count, status, call, ret>>

\* A mutation of MoveEntry: an empty slot is skipped without advancing.
MoveEntryStuck ==
    /\ status = "growing"
    /\ scan < capacity
    /\ IF entries[scan].key = NULL
       THEN UNCHANGED <<newEntries, count, scan>>
       ELSE \E i \in 0 .. 2 * capacity - 1 :
                /\ Finds(newEntries, entries[scan].key, 2 * capacity, i)
                /\ newEntries' = [newEntries EXCEPT ![i] = entries[scan]]
                /\ count' = count + 1
                /\ scan' = scan + 1
    /\ UNCHANGED <<entries, capacity, status, call, ret>>

\* One iteration of increaseCapacity: skip the slot, or re-insert its key.
MoveEntry ==
    /\ status = "growing"
    /\ scan < capacity
    /\ IF entries[scan].key = NULL
       THEN UNCHANGED <<newEntries, count>>
       ELSE \E i \in 0 .. 2 * capacity - 1 :
                /\ Finds(newEntries, entries[scan].key, 2 * capacity, i)
                /\ newEntries' = [newEntries EXCEPT ![i] = entries[scan]]
                /\ count' = count + 1
    /\ scan' = scan + 1
    /\ UNCHANGED <<entries, capacity, status, call, ret>>

\* A mutation of FinishGrow: installs the table but keeps the old capacity.
FinishGrowStaleCapacity ==
    /\ status = "growing"
    /\ scan = capacity
    /\ entries' = newEntries
    /\ status' = "storing"
    /\ newEntries' = NoTable
    /\ scan' = 0
    /\ UNCHANGED <<capacity, count, call, ret>>

\* The end of increaseCapacity: the new table takes the place of the old one.
FinishGrow ==
    /\ status = "growing"
    /\ scan = capacity
    /\ entries' = newEntries
    /\ capacity' = 2 * capacity
    /\ status' = "storing"
    /\ newEntries' = NoTable
    /\ scan' = 0
    /\ UNCHANGED <<count, call, ret>>

\* mapPut after the load check.
Store ==
    /\ status = "storing"
    /\ \/ \E i \in 0 .. capacity - 1 :
            /\ Finds(entries, call.key, capacity, i)
            /\ entries' = [entries EXCEPT ![i] = call]
            /\ count' = IF entries[i].key = NULL THEN count + 1 ELSE count
            /\ status' = "idle"
            /\ call' = NoCall
            /\ UNCHANGED <<capacity, newEntries, scan, ret>>
       \/ Loops(entries, call.key, capacity) /\ Diverge

\* The entry a lookup ends in; count = 0 answers without a probe.
Get(k) ==
    /\ status = "idle"
    /\ \/ /\ count = 0
          /\ ret' = NULL
          /\ UNCHANGED <<entries, capacity, count, status, call, newEntries, scan>>
       \/ /\ count # 0
          /\ \E i \in 0 .. capacity - 1 :
                /\ Finds(entries, k, capacity, i)
                /\ ret' = IF entries[i].key = NULL THEN NULL ELSE entries[i].value
          /\ UNCHANGED <<entries, capacity, count, status, call, newEntries, scan>>
       \/ count # 0 /\ Loops(entries, k, capacity) /\ Diverge

Has(k) ==
    /\ status = "idle"
    /\ \/ /\ count = 0
          /\ ret' = FALSE
          /\ UNCHANGED <<entries, capacity, count, status, call, newEntries, scan>>
       \/ /\ count # 0
          /\ \E i \in 0 .. capacity - 1 :
                /\ Finds(entries, k, capacity, i)
                /\ ret' = (entries[i].key # NULL /\ entries[i].value # NULL)
          /\ UNCHANGED <<entries, capacity, count, status, call, newEntries, scan>>
       \/ count # 0 /\ Loops(entries, k, capacity) /\ Diverge

\* A mutation of Remove: leaves an empty slot instead of a tombstone.
RemoveWithoutTombstone(k) ==
    /\ status = "idle"
    /\ count # 0
    /\ \E i \in 0 .. capacity - 1 :
        /\ Finds(entries, k, capacity, i)
        /\ entries[i].key # NULL
        /\ entries' = [entries EXCEPT ![i] = Empty]
        /\ count' = count - 1
    /\ UNCHANGED <<capacity, status, call, newEntries, scan, ret>>

\* mapRemove of a key that is there; of any other key it changes nothing.
Remove(k) ==
    /\ status = "idle"
    /\ count # 0
    /\ \/ \E i \in 0 .. capacity - 1 :
            /\ Finds(entries, k, capacity, i)
            /\ entries[i].key # NULL
            /\ entries' = [entries EXCEPT ![i] = Tombstone]
            /\ count' = count - 1
            /\ UNCHANGED <<capacity, status, call, newEntries, scan, ret>>
       \/ Loops(entries, k, capacity) /\ Diverge

Free ==
    /\ status = "idle"
    /\ entries' = NoTable
    /\ capacity' = 0
    /\ count' = 0
    /\ UNCHANGED <<status, call, newEntries, scan, ret>>

-----------------------------------------------------------------------------
Progress == MoveEntry \/ FinishGrow \/ Store

\* The calls the compiler makes: mapRemove is never called.
Next ==
    \/ \E k \in Key, v \in Value \cup {NULL} : CallPut(k, v)
    \/ Progress
    \/ \E k \in Key : Get(k) \/ Has(k)
    \/ Free

\* Every function the header declares.
ApiNext == Next \/ \E k \in Key : Remove(k)

\* A call, once made, runs: the program is one thread.
Spec == Init /\ [][Next]_vars /\ WF_vars(Progress)

ApiSpec == Init /\ [][ApiNext]_vars /\ WF_vars(Progress)

-----------------------------------------------------------------------------
TypeOK ==
    /\ capacity \in Nat
    /\ entries \in [0 .. capacity - 1 -> Slot]
    /\ count \in Nat
    /\ status \in {"idle", "growing", "storing", "diverged"}
    /\ call \in [key : Key \cup {NULL}, value : Value \cup {NULL}]
    /\ status \in {"growing", "storing"} => call.key \in Key /\ capacity > 0
    /\ newEntries \in [0 .. (IF status = "growing" THEN 2 * capacity ELSE 0) - 1 -> Slot]
    /\ scan \in Nat
    /\ status = "growing" => scan <= capacity
    /\ ret \in Value \cup {NULL} \cup BOOLEAN

\* Every key on its own probe path, with no empty slot before it, and once.
Reachable(table, size) ==
    \A i \in Occupied(table), j \in DOMAIN table :
        OnPath(Home(table[i].key, size), i, j) => table[j] # Empty

Unique(table) ==
    \A i, j \in Occupied(table) : table[i].key = table[j].key => i = j

\* Whatever sequence of insertions, removals and resizes came before, a probe
\* for a stored key ends in the slot that stores it, in the table in use and
\* in the one increaseCapacity is filling: no removal cuts a probe path and
\* no insertion leaves a second, stale copy of a key (findEntry, mapPut,
\* mapRemove, increaseCapacity).
StoredKeysAreFound ==
    /\ \A i \in Occupied(entries) : \A j \in 0 .. capacity - 1 :
            Finds(entries, entries[i].key, capacity, j) <=> j = i
    /\ status = "growing" =>
        \A i \in Occupied(newEntries) : \A j \in 0 .. 2 * capacity - 1 :
            Finds(newEntries, newEntries[i].key, 2 * capacity, j) <=> j = i

\* map->count is the number of stored keys between calls, and the number of
\* keys moved so far while the table grows (mapPut, mapRemove and
\* increaseCapacity each update it by hand).
CountMatches ==
    count = Cardinality(Occupied(IF status = "growing" THEN newEntries ELSE entries))

\* Live entries and tombstones together never fill more than MAX_LOAD, one
\* half, of the table: the reason why findEntry's loop ends.
LoadBounded == 2 * Cardinality({i \in DOMAIN entries : entries[i] # Empty}) <= capacity

\* No call runs forever inside findEntry.
NeverDiverges == status # "diverged"

\* A running mapPut returns, however many entries it has to move first.
PutReturns == status # "idle" ~> status = "idle"

-----------------------------------------------------------------------------
\* The dictionary a table stands for.
Contents(table) ==
    [k \in Key |->
        IF \E i \in Occupied(table) : table[i].key = k
        THEN table[CHOOSE i \in Occupied(table) : table[i].key = k].value
        ELSE Absent]

Dict == INSTANCE Dictionary WITH dict <- Contents(entries)

\* The table behaves as a dictionary at every call: what mapGet and mapHas
\* return, and what mapPut, mapRemove and mapFree change, whichever slots,
\* tombstones and resizes are behind it.
ImplementsDictionary == Dict!Spec

=============================================================================
