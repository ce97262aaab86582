--------------------------- MODULE RawStoreProofs ---------------------------
(***************************************************************************)
(* Proofs about RawStore, for every number of threads, keys and values and *)
(* every limit; and, behind them, about RawRestart: what a key may be      *)
(* after a restart, for any number of snapshots and crashes.               *)
(***************************************************************************)
EXTENDS RawRestart, FiniteSetTheorems, TLAPS

USE RawAssumption

-----------------------------------------------------------------------------
(* The inductive invariant *)

\* The write guard belongs to the thread inside put_raw.
GuardOK == \A t \in Thread : pc[t] \in InPut <=> guard = t

\* A running call has a key, a running put has a value.
ArgOK ==
    \A t \in Thread :
        /\ pc[t] # "idle" => KeyOf(t) \in Key
        /\ pc[t] \in InPut => arg[t].val \in Value

Holder(labels) == guard \in Thread /\ pc[guard] \in labels

\* The entry in hand is neither in memory nor, yet, on disk.
CarriedOK ==
    /\ Holder({"create", "write"}) =>
           /\ carried.key \in Key /\ carried.val \in Value
           /\ mem[carried.key] = None /\ file[carried.key] \notin Value
           /\ carried.key \notin toEvict
    /\ ~Holder({"create", "write"}) => carried = Nothing

\* What is still to be evicted is in memory: nobody can have removed it.
EvictOK ==
    /\ toEvict \subseteq InMemory(mem)
    /\ ~Holder({"evict", "create", "write"}) => toEvict = {}

\* Between the two halves of put_raw the key has no file.
UnspillOK == Holder({"insert"}) => file[KeyOf(guard)] = None

\* A remove between its two halves that has had no effect yet will not find the
\* key in memory again.
SettledOK ==
    \A t \in Thread :
        /\ settled[t] => pc[t] \in {"removeMem", "removeFile"}
        /\ pc[t] = "removeFile" /\ ~settled[t] =>
               /\ mem[KeyOf(t)] = None /\ carried.key # KeyOf(t)
               /\ ~(Holder({"insert"}) /\ KeyOf(guard) = KeyOf(t))

\* The entries that are to stay are within the limit.
LimitOK ==
    MaxEntries > 0 /\ spilled /\ ~Holder({"unspill", "insert"}) =>
        Cardinality(InMemory(mem) \ toEvict) <= MaxEntries

Inv == /\ TypeOK /\ GuardOK /\ ArgOK /\ CarriedOK /\ EvictOK /\ UnspillOK
       /\ SettledOK /\ NoStaleCopy

-----------------------------------------------------------------------------
(* Type correctness *)

\* A new table has its types.
LEMMA InitType == Init => TypeOK
  BY DEF Init, TypeOK, Empty, Nothing, Pcs, Args, MaybeValue

\* Every step of the API keeps the types.
LEMMA StepType == TypeOK /\ Step => TypeOK'
<1> SUFFICES ASSUME TypeOK, Step PROVE TypeOK'
  OBVIOUS
<1> USE DEF TypeOK, Pcs, Args, MaybeValue, dataVars, KeyOf, Goto, Called,
        Returns, Nothing
<1>1. ASSUME NEW t \in Thread, NEW k \in Key, NEW v \in Value, PutStart(t, k, v)
      PROVE  TypeOK'
  BY <1>1 DEF PutStart
<1>2. ASSUME NEW t \in Thread, Unspill(t) PROVE TypeOK'
  BY <1>2 DEF Unspill
<1>3. ASSUME NEW t \in Thread, Insert(t) PROVE TypeOK'
  BY <1>3 DEF Insert, InMemory
<1>4. ASSUME NEW t \in Thread, NEW k \in Key, Take(t, k) PROVE TypeOK'
  BY <1>4 DEF Take
<1>5. ASSUME NEW t \in Thread, CreateFile(t) PROVE TypeOK'
  BY <1>5 DEF CreateFile
<1>6. ASSUME NEW t \in Thread, WriteFile(t) PROVE TypeOK'
  BY <1>6 DEF WriteFile
<1>7. ASSUME NEW t \in Thread, SpillFails(t) PROVE TypeOK'
  BY <1>7 DEF SpillFails
<1>8. ASSUME NEW t \in Thread, PutReturn(t) PROVE TypeOK'
  BY <1>8 DEF PutReturn
<1>9. ASSUME NEW t \in Thread, NEW k \in Key, RemoveStart(t, k) PROVE TypeOK'
  BY <1>9 DEF RemoveStart
<1>10. ASSUME NEW t \in Thread, RemoveMem(t) PROVE TypeOK'
  BY <1>10 DEF RemoveMem
<1>11. ASSUME NEW t \in Thread, RemoveFile(t) PROVE TypeOK'
  BY <1>11 DEF RemoveFile
<1>12. ASSUME NEW t \in Thread, NEW k \in Key, GetMem(t, k) PROVE TypeOK'
  BY <1>12 DEF GetMem
<1>13. ASSUME NEW t \in Thread, GetFile(t) PROVE TypeOK'
  BY <1>13 DEF GetFile
<1> QED
  BY <1>1, <1>2, <1>3, <1>4, <1>5, <1>6, <1>7, <1>8, <1>9, <1>10, <1>11,
     <1>12, <1>13 DEF Step, Put, Remove, Get

-----------------------------------------------------------------------------
(* The invariant *)

\* An empty table satisfies the invariant.
LEMMA InitInv == Init => Inv
  BY InitType DEF Init, Inv, GuardOK, ArgOK, CarriedOK, EvictOK, UnspillOK,
     SettledOK, NoStaleCopy, Holder, InMemory, InPut, Empty, Nothing

\* Every step of the API preserves the invariant; under each action come first
\* the conjuncts that follow from their own value before the step.
LEMMA StepInv == Inv /\ Step => Inv'
<1> SUFFICES ASSUME Inv, Step PROVE Inv'
  OBVIOUS
<1> USE DEF Inv
<1>0. TypeOK'
  BY StepType
<1> USE DEF TypeOK, Pcs, Args, MaybeValue, dataVars, KeyOf, Goto, Called,
        Returns, Busy, InPut, Holder, InMemory, Nothing
<1>1. ASSUME NEW t \in Thread, NEW k \in Key, NEW v \in Value, PutStart(t, k, v)
      PROVE  Inv'
  BY <1>0, <1>1 DEF PutStart, GuardOK, ArgOK, CarriedOK, EvictOK, UnspillOK,
     SettledOK, NoStaleCopy
<1>2. ASSUME NEW t \in Thread, Unspill(t) PROVE Inv'
  BY <1>0, <1>2 DEF Unspill, GuardOK, ArgOK, CarriedOK, EvictOK, UnspillOK,
     SettledOK, NoStaleCopy
<1>3. ASSUME NEW t \in Thread, Insert(t) PROVE Inv'
  <2>1. GuardOK' /\ ArgOK' /\ UnspillOK'
    BY <1>0, <1>3 DEF Insert, GuardOK, ArgOK, UnspillOK
  <2>2. CarriedOK'
    BY <1>0, <1>3 DEF Insert, CarriedOK, GuardOK
  <2>3. EvictOK'
    BY <1>0, <1>3 DEF Insert, EvictOK, GuardOK
  \* Unspill has settled every remove of the key that was running.
  <2>4. SettledOK'
    BY <1>0, <1>3 DEF Insert, SettledOK, GuardOK
  \* put_raw deleted the file of the key before it put the key in memory.
  <2>5. NoStaleCopy'
    BY <1>0, <1>3 DEF Insert, NoStaleCopy, GuardOK, UnspillOK
  <2> QED
    BY <1>0, <2>1, <2>2, <2>3, <2>4, <2>5
<1>4. ASSUME NEW t \in Thread, NEW k \in Key, Take(t, k) PROVE Inv'
  <2>1. GuardOK' /\ ArgOK' /\ EvictOK' /\ UnspillOK' /\ NoStaleCopy'
    BY <1>0, <1>4 DEF Take, GuardOK, ArgOK, EvictOK, UnspillOK, NoStaleCopy
  \* The key was in memory, hence had no value on disk, and is no longer
  \* listed.
  <2>2. CarriedOK'
    BY <1>0, <1>4 DEF Take, CarriedOK, GuardOK, EvictOK, NoStaleCopy
  \* A remove that is still to have its effect saw its key absent; this one is
  \* present.
  <2>3. SettledOK'
    BY <1>0, <1>4 DEF Take, SettledOK, GuardOK, EvictOK
  <2> QED
    BY <1>0, <2>1, <2>2, <2>3
<1>5. ASSUME NEW t \in Thread, CreateFile(t) PROVE Inv'
  <2>1. GuardOK' /\ ArgOK' /\ CarriedOK' /\ EvictOK' /\ SettledOK' /\
        NoStaleCopy'
    BY <1>0, <1>5 DEF CreateFile, GuardOK, ArgOK, CarriedOK, EvictOK,
       SettledOK, NoStaleCopy
  <2>2. UnspillOK'
    BY <1>0, <1>5 DEF CreateFile, UnspillOK, GuardOK
  <2> QED
    BY <1>0, <2>1, <2>2
<1>6. ASSUME NEW t \in Thread, WriteFile(t) PROVE Inv'
  <2>1. GuardOK' /\ ArgOK' /\ EvictOK'
    BY <1>0, <1>6 DEF WriteFile, GuardOK, ArgOK, EvictOK
  <2>2. CarriedOK'
    BY <1>0, <1>6 DEF WriteFile, CarriedOK, GuardOK
  <2>3. UnspillOK'
    BY <1>0, <1>6 DEF WriteFile, UnspillOK, GuardOK
  \* Nothing in hand is the entry of no key.
  <2>4. SettledOK'
    BY <1>0, <1>6 DEF WriteFile, SettledOK, GuardOK, ArgOK
  \* The key that now has a file has left memory.
  <2>5. NoStaleCopy'
    BY <1>0, <1>6 DEF WriteFile, NoStaleCopy, GuardOK, CarriedOK
  <2> QED
    BY <1>0, <2>1, <2>2, <2>3, <2>4, <2>5
<1>7. ASSUME NEW t \in Thread, SpillFails(t) PROVE Inv'
  <2>1. GuardOK' /\ ArgOK' /\ UnspillOK'
    BY <1>0, <1>7 DEF SpillFails, GuardOK, ArgOK, UnspillOK
  <2>2. CarriedOK'
    BY <1>0, <1>7 DEF SpillFails, CarriedOK, GuardOK
  <2>3. EvictOK'
    BY <1>0, <1>7 DEF SpillFails, EvictOK, GuardOK, CarriedOK
  \* The entry in hand is of no key whose remove is waiting.
  <2>4. SettledOK'
    BY <1>0, <1>7 DEF SpillFails, SettledOK, GuardOK, ArgOK
  \* The key that is put back still has no value on disk.
  <2>5. NoStaleCopy'
    BY <1>0, <1>7 DEF SpillFails, NoStaleCopy, GuardOK, CarriedOK
  <2> QED
    BY <1>0, <2>1, <2>2, <2>3, <2>4, <2>5
<1>8. ASSUME NEW t \in Thread, PutReturn(t) PROVE Inv'
  <2>1. GuardOK' /\ ArgOK' /\ EvictOK' /\ UnspillOK' /\ SettledOK' /\
        NoStaleCopy'
    BY <1>0, <1>8 DEF PutReturn, GuardOK, ArgOK, EvictOK, UnspillOK,
       SettledOK, NoStaleCopy
  <2>2. CarriedOK'
    BY <1>0, <1>8 DEF PutReturn, CarriedOK, GuardOK
  <2> QED
    BY <1>0, <2>1, <2>2
<1>9. ASSUME NEW t \in Thread, NEW k \in Key, RemoveStart(t, k) PROVE Inv'
  BY <1>0, <1>9 DEF RemoveStart, GuardOK, ArgOK, CarriedOK, EvictOK,
     UnspillOK, SettledOK, NoStaleCopy
<1>10. ASSUME NEW t \in Thread, RemoveMem(t) PROVE Inv'
  <2>1. GuardOK' /\ ArgOK' /\ CarriedOK' /\ EvictOK' /\ UnspillOK' /\
        NoStaleCopy'
    BY <1>0, <1>10 DEF RemoveMem, GuardOK, ArgOK, CarriedOK, EvictOK,
       UnspillOK, NoStaleCopy
  \* Nobody is inside put_raw, so nothing is in hand.
  <2>2. SettledOK'
    BY <1>0, <1>10 DEF RemoveMem, SettledOK, GuardOK, CarriedOK
  <2> QED
    BY <1>0, <2>1, <2>2
<1>11. ASSUME NEW t \in Thread, RemoveFile(t) PROVE Inv'
  BY <1>0, <1>11 DEF RemoveFile, GuardOK, ArgOK, CarriedOK, EvictOK,
     UnspillOK, SettledOK, NoStaleCopy
<1>12. ASSUME NEW t \in Thread, NEW k \in Key, GetMem(t, k) PROVE Inv'
  <2>1. CASE mem[k] # None
    BY <1>0, <1>12, <2>1 DEF GetMem, GuardOK, ArgOK, CarriedOK, EvictOK,
       UnspillOK, SettledOK, NoStaleCopy
  <2>2. CASE mem[k] = None
    BY <1>0, <1>12, <2>2 DEF GetMem, GuardOK, ArgOK, CarriedOK, EvictOK,
       UnspillOK, SettledOK, NoStaleCopy
  <2> QED
    BY <2>1, <2>2
<1>13. ASSUME NEW t \in Thread, GetFile(t) PROVE Inv'
  BY <1>0, <1>13 DEF GetFile, GuardOK, ArgOK, CarriedOK, EvictOK, UnspillOK,
     SettledOK, NoStaleCopy
<1> QED
  BY <1>1, <1>2, <1>3, <1>4, <1>5, <1>6, <1>7, <1>8, <1>9, <1>10, <1>11,
     <1>12, <1>13 DEF Step, Put, Remove, Get

\* Observing a step changes nothing the invariant speaks of, and so does
\* standing still.
LEMMA Unchanged ==
  ASSUME UNCHANGED <<dataVars, threadVars, settled, spilled>>
  PROVE  (Inv => Inv') /\ (LimitOK => LimitOK')
<1> USE DEF dataVars, threadVars
<1>1. (Inv => Inv')
  BY DEF Inv, TypeOK, GuardOK, ArgOK, CarriedOK, EvictOK, UnspillOK, SettledOK,
     NoStaleCopy, Holder, KeyOf, InMemory
<1>2. (LimitOK => LimitOK')
  BY DEF LimitOK, Holder, InMemory
<1> QED
  BY <1>1, <1>2

-----------------------------------------------------------------------------
(* The limit *)

\* What Excess is for: with that many entries gone, the rest fits.
LEMMA ExcessFits ==
  ASSUME MaxEntries > 0, NEW m, NEW E \in SUBSET InMemory(m),
         Cardinality(E) = Excess(m)
  PROVE  Cardinality(InMemory(m) \ E) <= MaxEntries
<1> DEFINE M == InMemory(m)
           R == M \ E
<1>1. IsFiniteSet(M) /\ IsFiniteSet(E) /\ IsFiniteSet(R)
  BY FS_Subset DEF InMemory
<1>2. /\ Cardinality(M) \in Nat /\ Cardinality(E) \in Nat
      /\ Cardinality(R) \in Nat
  BY <1>1, FS_CardinalityType
<1>3. Cardinality(M) = Cardinality(R) + Cardinality(E)
  <2>1. R \union E = M /\ R \intersect E = {}
    OBVIOUS
  <2>2. Cardinality({}) = 0
    BY FS_EmptySet
  <2>3. Cardinality(R \union E)
           = Cardinality(R) + Cardinality(E) - Cardinality(R \intersect E)
    BY <1>1, FS_Union
  <2>4. Cardinality(R \union E) = Cardinality(M)
    BY <2>1, Zenon
  <2>5. Cardinality(R \intersect E) = 0
    BY <2>1, <2>2, Zenon
  <2> QED
    BY <1>2, <2>3, <2>4, <2>5
<1> QED
  BY <1>2, <1>3 DEF Excess

\* An empty table is within any limit.
LEMMA InitLimit == Init => LimitOK
<1> SUFFICES ASSUME Init PROVE LimitOK
  OBVIOUS
<1>1. InMemory(mem) \ toEvict = {}
  BY DEF Init, InMemory, Empty
<1> QED
  BY <1>1, FS_EmptySet DEF LimitOK

\* put_raw evicts down to the limit, remove_raw only makes room, and the other
\* steps leave memory alone.
LEMMA StepLimit == Inv /\ LimitOK /\ Step => LimitOK'
<1> SUFFICES ASSUME Inv, LimitOK, Step, MaxEntries > 0, spilled',
                    ~Holder({"unspill", "insert"})'
             PROVE  Cardinality(InMemory(mem') \ toEvict') <= MaxEntries
  BY DEF LimitOK, InMemory
<1> USE DEF Inv, TypeOK, dataVars, KeyOf, Goto, Called, Returns, Busy, InPut,
        Holder
<1>1. ASSUME NEW t \in Thread, NEW k \in Key, NEW v \in Value, PutStart(t, k, v)
      PROVE  FALSE
  BY <1>1 DEF PutStart
<1>2. ASSUME NEW t \in Thread, Unspill(t) PROVE FALSE
  BY <1>2 DEF Unspill, GuardOK
<1>3. ASSUME NEW t \in Thread, Insert(t)
      PROVE  Cardinality(InMemory(mem') \ toEvict') <= MaxEntries
  BY <1>3, ExcessFits DEF Insert
\* An entry leaves memory and the list at once.
<1>4. ASSUME NEW t \in Thread, NEW k \in Key, Take(t, k)
      PROVE  Cardinality(InMemory(mem') \ toEvict') <= MaxEntries
  <2>1. InMemory(mem') \ toEvict' = InMemory(mem) \ toEvict
    BY <1>4 DEF Take, InMemory
  <2> QED
    BY <1>4, <2>1 DEF Take, LimitOK, GuardOK
<1>5. ASSUME NEW t \in Thread, SpillFails(t) PROVE FALSE
  BY <1>5 DEF SpillFails
<1>6. ASSUME NEW t \in Thread, RemoveMem(t)
      PROVE  Cardinality(InMemory(mem') \ toEvict') <= MaxEntries
  <2>1. toEvict = {} /\ toEvict' = {}
    BY <1>6 DEF RemoveMem, EvictOK
  <2>2. InMemory(mem') \in SUBSET InMemory(mem)
    BY <1>6 DEF RemoveMem, InMemory
  <2>3. IsFiniteSet(InMemory(mem))
    BY FS_Subset DEF InMemory
  <2>4. /\ Cardinality(InMemory(mem')) <= Cardinality(InMemory(mem))
        /\ IsFiniteSet(InMemory(mem'))
    BY <2>2, <2>3, FS_Subset
  <2>5. /\ Cardinality(InMemory(mem)) \in Nat
        /\ Cardinality(InMemory(mem')) \in Nat
    BY <2>3, <2>4, FS_CardinalityType
  <2>6. Cardinality(InMemory(mem)) <= MaxEntries
    <3>1. InMemory(mem) \ toEvict = InMemory(mem)
      BY <2>1
    <3> QED
      BY <1>6, <3>1 DEF RemoveMem, LimitOK
  <2>7. InMemory(mem') \ toEvict' = InMemory(mem')
    BY <2>1
  <2>8. Cardinality(InMemory(mem')) <= MaxEntries
    BY <2>4, <2>5, <2>6
  <2> QED
    BY <2>7, <2>8
\* The other steps touch neither memory nor the list, and none of them leaves
\* the first half of put_raw.
<1>7. ASSUME mem' = mem, toEvict' = toEvict, spilled' = spilled,
             ~Holder({"unspill", "insert"})
      PROVE  Cardinality(InMemory(mem') \ toEvict') <= MaxEntries
  BY <1>7 DEF LimitOK
<1>8. ASSUME NEW t \in Thread, CreateFile(t) \/ WriteFile(t) \/ PutReturn(t)
      PROVE  Cardinality(InMemory(mem') \ toEvict') <= MaxEntries
  <2>1. ~Holder({"unspill", "insert"})
    BY <1>8 DEF CreateFile, WriteFile, PutReturn, GuardOK
  <2> QED
    BY <1>7, <1>8, <2>1 DEF CreateFile, WriteFile, PutReturn
<1>9. ASSUME NEW t \in Thread, NEW k \in Key, RemoveStart(t, k)
      PROVE  Cardinality(InMemory(mem') \ toEvict') <= MaxEntries
  <2>1. guard' = guard /\ (guard \in Thread => guard # t)
    BY <1>9 DEF RemoveStart, GuardOK
  <2>2. ~Holder({"unspill", "insert"})
    BY <1>9, <2>1 DEF RemoveStart
  <2> QED
    BY <1>7, <1>9, <2>2 DEF RemoveStart
<1>10. ASSUME NEW t \in Thread, NEW k \in Key, GetMem(t, k)
       PROVE  Cardinality(InMemory(mem') \ toEvict') <= MaxEntries
  <2>1. ~Holder({"unspill", "insert"})
    BY <1>10 DEF GetMem
  <2> QED
    BY <1>7, <1>10, <2>1 DEF GetMem
<1>11. ASSUME NEW t \in Thread, RemoveFile(t) \/ GetFile(t)
       PROVE  Cardinality(InMemory(mem') \ toEvict') <= MaxEntries
  <2>1. guard' = guard /\ (guard \in Thread => guard # t)
    BY <1>11 DEF RemoveFile, GetFile, GuardOK
  <2>2. ~Holder({"unspill", "insert"})
    BY <1>11, <2>1 DEF RemoveFile, GetFile
  <2> QED
    BY <1>7, <1>11, <2>2 DEF RemoveFile, GetFile
<1> QED
  BY <1>1, <1>2, <1>3, <1>4, <1>5, <1>6, <1>8, <1>9, <1>10, <1>11
     DEF Step, Put, Remove, Get

-----------------------------------------------------------------------------
(* The theorems *)

\* The invariant holds in every reachable state, the limit included.
THEOREM Invariance == Spec => [](Inv /\ LimitOK)
<1>1. Init => Inv /\ LimitOK
  BY InitInv, InitLimit
<1>2. Inv /\ LimitOK /\ [Next]_vars => (Inv /\ LimitOK)'
  BY StepInv, StepLimit, Unchanged DEF Next, vars
<1> QED
  BY <1>1, <1>2, PTL DEF Spec

\* put_raw, get_raw and remove_raw keep every variable within its type.
THEOREM TypeCorrect == Spec => []TypeOK
<1>1. Inv => TypeOK
  BY DEF Inv
<1> QED
  BY <1>1, Invariance, PTL

\* put_raw deletes the spilled copy before it inserts, and evict_to_disk writes
\* a file only for a key it has taken out of memory: no key is in both places.
THEOREM NeverStale == Spec => []NoStaleCopy
<1>1. Inv => NoStaleCopy
  BY DEF Inv
<1> QED
  BY <1>1, Invariance, PTL

\* evict_to_disk takes out as many entries as there are too many, so a put whose
\* spills all work leaves the table within max_entries_per_table.
THEOREM LimitIsKept == Spec => []LimitKept
<1>1. Inv /\ LimitOK => LimitKept
  <2> SUFFICES ASSUME Inv, LimitOK, guard = NoThread
               PROVE  LimitKept
    BY DEF LimitKept
  <2>1. ~Holder({"unspill", "insert"}) /\ toEvict = {}
    BY DEF Inv, EvictOK, Holder
  <2>2. InMemory(mem) \ toEvict = InMemory(mem)
    BY <2>1
  <2> QED
    BY <2>1, <2>2 DEF LimitOK, LimitKept
<1> QED
  BY <1>1, Invariance, PTL

-----------------------------------------------------------------------------
(* A get that nobody crosses *)

\* A file without contents belongs to a key that is in memory, on its way to disk or
\* about to lose its file.
TornOK ==
    \A k \in Key : file[k] = Torn =>
        \/ mem[k] # None \/ carried.key = k
        \/ \E t \in Thread : pc[t] = "removeFile" /\ KeyOf(t) = k

\* A get that has gone past memory has seen what its key is now; if no call has
\* crossed it the key is still not in memory.
AloneOK ==
    \A t \in Thread : pc[t] = "getFile" =>
        /\ Content[KeyOf(t)] \in seen[t]
        /\ ~crossed[t] => /\ mem[KeyOf(t)] = None
                          /\ \A u \in Thread \ {t} : pc[u] = "idle"

\* An empty table has no such file.
LEMMA InitTorn == Init => TornOK
  BY DEF Init, TornOK, Empty

\* Every step of the API keeps TornOK.
LEMMA StepTorn == Inv /\ TornOK /\ Step => TornOK'
<1> SUFFICES ASSUME Inv, TornOK, Step PROVE TornOK'
  OBVIOUS
<1> USE DEF Inv, TypeOK, TornOK, KeyOf, Goto, Called, Returns, Busy, dataVars,
        Pcs, Args, MaybeValue
<1>1. ASSUME NEW t \in Thread, NEW k \in Key, NEW v \in Value, PutStart(t, k, v)
      PROVE  TornOK'
  BY <1>1 DEF PutStart
<1>2. ASSUME NEW t \in Thread, Unspill(t) PROVE TornOK'
  BY <1>2 DEF Unspill
<1>3. ASSUME NEW t \in Thread, Insert(t) PROVE TornOK'
  <2>1. arg[t].val # None
    BY <1>3 DEF Insert, ArgOK, InPut
  <2> QED
    BY <1>3, <2>1 DEF Insert
<1>4. ASSUME NEW t \in Thread, NEW k \in Key, Take(t, k) PROVE TornOK'
  <2>1. carried.key \notin Key
    BY <1>4 DEF Take, CarriedOK, GuardOK, Holder, InPut, Nothing
  <2> QED
    BY <1>4, <2>1 DEF Take
<1>5. ASSUME NEW t \in Thread, CreateFile(t) PROVE TornOK'
  BY <1>5 DEF CreateFile
<1>6. ASSUME NEW t \in Thread, WriteFile(t) PROVE TornOK'
  <2>1. carried.val \in Value
    BY <1>6 DEF WriteFile, CarriedOK, GuardOK, Holder, InPut
  <2> QED
    BY <1>6, <2>1 DEF WriteFile
<1>7. ASSUME NEW t \in Thread, SpillFails(t) PROVE TornOK'
  <2>1. carried.val \in Value
    BY <1>7 DEF SpillFails, CarriedOK, GuardOK, Holder, InPut
  <2> QED
    BY <1>7, <2>1 DEF SpillFails
<1>8. ASSUME NEW t \in Thread, PutReturn(t) PROVE TornOK'
  BY <1>8 DEF PutReturn
<1>9. ASSUME NEW t \in Thread, NEW k \in Key, RemoveStart(t, k) PROVE TornOK'
  BY <1>9 DEF RemoveStart
<1>10. ASSUME NEW t \in Thread, RemoveMem(t) PROVE TornOK'
  BY <1>10 DEF RemoveMem
<1>11. ASSUME NEW t \in Thread, RemoveFile(t) PROVE TornOK'
  BY <1>11 DEF RemoveFile
<1>12. ASSUME NEW t \in Thread, NEW k \in Key, GetMem(t, k) PROVE TornOK'
  <2>1. CASE mem[k] # None
    BY <1>12, <2>1 DEF GetMem
  <2>2. CASE mem[k] = None
    BY <1>12, <2>2 DEF GetMem
  <2> QED
    BY <2>1, <2>2
<1>13. ASSUME NEW t \in Thread, GetFile(t) PROVE TornOK'
  BY <1>13 DEF GetFile
<1> QED
  BY <1>1, <1>2, <1>3, <1>4, <1>5, <1>6, <1>7, <1>8, <1>9, <1>10, <1>11,
     <1>12, <1>13 DEF Step, Put, Remove, Get

\* A step is one thread's.  If that thread is idle afterwards memory is as it was, and
\* if it is on its way to disk it has just not found its key there.
OneThread(t) ==
    /\ \A u \in Thread \ {t} : pc'[u] = pc[u] /\ arg'[u] = arg[u]
    /\ pc'[t] = "idle" => mem' = mem
    /\ pc'[t] = "getFile" => mem' = mem /\ mem[arg'[t].key] = None

\* Every step of the API is one thread's.
LEMMA StepIsOneThread == TypeOK /\ Step => \E t \in Thread : OneThread(t)
<1> SUFFICES ASSUME TypeOK, Step PROVE \E t \in Thread : OneThread(t)
  OBVIOUS
<1> USE DEF TypeOK, OneThread, Goto, Called, Returns, Busy, dataVars, Pcs, Args
<1>1. ASSUME NEW t \in Thread,
             \/ \E k \in Key : \E v \in Value : PutStart(t, k, v)
             \/ Unspill(t) \/ Insert(t) \/ \E k \in Key : Take(t, k)
             \/ CreateFile(t) \/ WriteFile(t) \/ SpillFails(t) \/ PutReturn(t)
      PROVE  OneThread(t)
  BY <1>1 DEF PutStart, Unspill, Insert, Take, CreateFile, WriteFile, SpillFails, PutReturn
<1>2. ASSUME NEW t \in Thread,
             (\E k \in Key : RemoveStart(t, k)) \/ RemoveMem(t) \/ RemoveFile(t)
      PROVE  OneThread(t)
  BY <1>2 DEF RemoveStart, RemoveMem, RemoveFile
<1>3. ASSUME NEW t \in Thread, NEW k \in Key, GetMem(t, k)
      PROVE  OneThread(t)
  BY <1>3 DEF GetMem
<1>4. ASSUME NEW t \in Thread, GetFile(t)
      PROVE  OneThread(t)
  BY <1>4 DEF GetFile
<1> QED
  BY <1>1, <1>2, <1>3, <1>4 DEF Step, Put, Remove, Get

\* Observing a step keeps AloneOK.
LEMMA StepAlone == TypeOK /\ AloneOK /\ Step /\ Observe => AloneOK'
<1> SUFFICES ASSUME TypeOK, AloneOK, Step, Observe,
                    NEW t \in Thread, pc'[t] = "getFile"
             PROVE  /\ Content'[arg'[t].key] \in seen'[t]
                    /\ ~crossed'[t] => /\ mem'[arg'[t].key] = None
                                       /\ \A u \in Thread \ {t} : pc'[u] = "idle"
  BY DEF AloneOK, KeyOf
<1>1. Content'[arg'[t].key] \in seen'[t]
  BY DEF Observe
<1>2. ASSUME ~crossed'[t]
      PROVE  ~crossed[t] /\ \A u \in Thread \ {t} : pc'[u] = "idle"
  BY <1>2 DEF Observe
<1>3. ASSUME ~crossed'[t]
      PROVE  mem'[arg'[t].key] = None
  <2>1. PICK u \in Thread : OneThread(u)
    BY StepIsOneThread
  <2>2. CASE u = t
    BY <2>1, <2>2 DEF OneThread
  <2>3. CASE u # t
    <3>1. pc[t] = "getFile" /\ arg'[t] = arg[t] /\ mem' = mem
      BY <1>2, <1>3, <2>1, <2>3 DEF OneThread
    <3> QED
      BY <1>2, <1>3, <3>1 DEF AloneOK, KeyOf
  <2> QED
    BY <2>2, <2>3
<1> QED
  BY <1>1, <1>2, <1>3

\* A get that was never crossed reads the value of its key.
LEMMA AloneReads ==
  ASSUME Inv, TornOK, AloneOK, NEW t \in Thread, pc[t] = "getFile", ~crossed[t]
  PROVE  file[KeyOf(t)] \in seen[t]
<1>1. /\ \A u \in Thread : pc[u] \in {"idle", "getFile"}
      /\ KeyOf(t) \in Key /\ mem[KeyOf(t)] = None
  BY DEF AloneOK, Inv, ArgOK
<1>2. guard = NoThread
  BY <1>1 DEF Inv, TypeOK, GuardOK, InPut
<1>3. carried = Nothing
  BY <1>2 DEF Inv, CarriedOK, Holder
<1>4. file[KeyOf(t)] # Torn
  BY <1>1, <1>3 DEF TornOK, Nothing
<1>5. Content[KeyOf(t)] = file[KeyOf(t)]
  BY <1>1, <1>2, <1>3, <1>4 DEF Content, Nothing, Inv, TypeOK, MaybeValue
<1> QED
  BY <1>5 DEF AloneOK

\* get_raw looks into the map and, after letting go of its guard, on disk: alone, it
\* finds the value in one of the two, and never a file that a failed spill cut short.
THEOREM GetIsRightAlone == Spec => []GetAlone
<1> DEFINE I == Inv /\ LimitOK
           J == TornOK /\ AloneOK /\ GetAlone
<1>1. Init => J
  BY InitTorn DEF Init, AloneOK, GetAlone
<1>2. I /\ J /\ [Next]_vars => J'
  <2> SUFFICES ASSUME I, J, [Next]_vars PROVE J'
    OBVIOUS
  <2>1. CASE Next
    <3>1. Step /\ Observe
      BY <2>1 DEF Next
    <3>2. TornOK' /\ AloneOK'
      BY <3>1, StepTorn, StepAlone DEF Inv
    <3>3. GetAlone'
      <4>1. CASE \E t \in Thread : pc[t] = "getFile" /\ pc'[t] = "idle"
        <5> DEFINE t == CHOOSE u \in Thread : pc[u] = "getFile" /\ pc'[u] = "idle"
        <5>1. t \in Thread /\ pc[t] = "getFile"
          BY <4>1
        <5>2. lastGet' = [right |-> file[KeyOf(t)] \in seen[t], crossed |-> crossed[t]]
          BY <3>1, <4>1 DEF Observe
        <5> HIDE DEF t
        <5>3. ~crossed[t] => file[KeyOf(t)] \in seen[t]
          BY <5>1, AloneReads
        <5> QED
          BY <5>2, <5>3, Zenon DEF GetAlone
      <4>2. CASE ~\E t \in Thread : pc[t] = "getFile" /\ pc'[t] = "idle"
        BY <3>1, <4>2 DEF Observe, GetAlone
      <4> QED
        BY <4>1, <4>2
    <3> QED
      BY <3>2, <3>3
  <2>2. CASE UNCHANGED vars
    BY <2>2 DEF vars, dataVars, threadVars, readVars, TornOK, AloneOK, GetAlone, Content, KeyOf
  <2> QED
    BY <2>1, <2>2
<1>3. J => GetAlone
  OBVIOUS
<1> HIDE DEF I, J
<1>4. Spec => []I
  BY Invariance DEF I
<1> QED
  BY <1>1, <1>2, <1>3, <1>4, PTL DEF Spec

-----------------------------------------------------------------------------
(* Refinement: to its writers the table is one map *)

\* Spilling moves entries, it never changes what a key is.
LEMMA ContentStays ==
  ASSUME Inv, NEW t \in Thread,
         \/ \E k \in Key : \E v \in Value : PutStart(t, k, v)
         \/ Insert(t) \/ \E k \in Key : Take(t, k)
         \/ CreateFile(t) \/ WriteFile(t) \/ SpillFails(t) \/ PutReturn(t)
         \/ \E k \in Key : RemoveStart(t, k) \/ GetMem(t, k)
         \/ GetFile(t)
  PROVE  Content' = Content
<1> USE DEF Inv, TypeOK, Pcs, Args, MaybeValue, dataVars, KeyOf, Goto, Called,
        Returns, Busy, InPut, Holder, InMemory, Nothing, GuardOK, Content
<1>1. ASSUME NEW k \in Key, NEW v \in Value, PutStart(t, k, v)
      PROVE  Content' = Content
  BY <1>1 DEF PutStart, CarriedOK, EvictOK, ArgOK
<1>2. ASSUME Insert(t) PROVE Content' = Content
  BY <1>2 DEF Insert, CarriedOK, EvictOK, ArgOK
<1>3. ASSUME NEW k \in Key, Take(t, k) PROVE Content' = Content
  BY <1>3 DEF Take, CarriedOK, EvictOK, ArgOK
<1>4. ASSUME CreateFile(t) PROVE Content' = Content
  BY <1>4 DEF CreateFile, CarriedOK, EvictOK, ArgOK
<1>5. ASSUME WriteFile(t) PROVE Content' = Content
  BY <1>5 DEF WriteFile, CarriedOK, EvictOK, ArgOK
<1>6. ASSUME SpillFails(t) PROVE Content' = Content
  BY <1>6 DEF SpillFails, CarriedOK, EvictOK, ArgOK
<1>7. ASSUME PutReturn(t) PROVE Content' = Content
  BY <1>7 DEF PutReturn, CarriedOK, EvictOK, ArgOK
<1>8. ASSUME NEW k \in Key, RemoveStart(t, k) PROVE Content' = Content
  BY <1>8 DEF RemoveStart, CarriedOK, EvictOK, ArgOK
<1>9. ASSUME NEW k \in Key, GetMem(t, k) PROVE Content' = Content
  BY <1>9 DEF GetMem, CarriedOK, EvictOK, ArgOK
<1>10. ASSUME GetFile(t) PROVE Content' = Content
  BY <1>10 DEF GetFile, CarriedOK, EvictOK, ArgOK
<1> QED
  BY <1>1, <1>2, <1>3, <1>4, <1>5, <1>6, <1>7, <1>8, <1>9, <1>10

\* Deleting the file of a key makes the new value of a put, or nothing at all,
\* the content of the key; the others stay.
LEMMA UnspillContent ==
  ASSUME Inv, NEW t \in Thread, Unspill(t)
  PROVE  Content' = [Content EXCEPT ![KeyOf(t)] = arg[t].val]
BY DEF Inv, TypeOK, Args, MaybeValue, dataVars, KeyOf, Goto, InPut, GuardOK,
   ArgOK, Content, Unspill

\* The memory half of remove_raw makes its key absent if it finds it there, and
\* is invisible if it does not.
LEMMA RemoveMemContent ==
  ASSUME Inv, NEW t \in Thread, RemoveMem(t)
  PROVE  Content' = IF mem[KeyOf(t)] # None
                    THEN [Content EXCEPT ![KeyOf(t)] = None] ELSE Content
BY DEF Inv, TypeOK, Args, MaybeValue, dataVars, KeyOf, Goto, InPut, GuardOK,
   ArgOK, CarriedOK, Holder, Nothing, NoStaleCopy, Content, RemoveMem

\* The file half of remove_raw makes its key absent, or is invisible because a
\* put has come in between; only a remove that is settled can be so overtaken.
LEMMA RemoveFileContent ==
  ASSUME Inv, NEW t \in Thread, RemoveFile(t)
  PROVE  \/ settled[t] /\ Content' = Content
         \/ Content' = [Content EXCEPT ![KeyOf(t)] = None]
<1> DEFINE j == KeyOf(t)
<1> USE DEF Inv, TypeOK, Args, MaybeValue, dataVars, KeyOf, Goto, Returns,
        InPut, Content, RemoveFile
<1>1. j \in Key
  BY DEF ArgOK
<1>2. \A k \in Key \ {j} : Content'[k] = Content[k]
  BY DEF GuardOK
<1>3. Content'[j] \in {Content[j], None}
  BY <1>1 DEF GuardOK
<1>4. ~settled[t] => Content'[j] = None
  BY <1>1 DEF GuardOK, SettledOK, Holder
<1>5. CASE Content'[j] = None
  <2>1. Content' = [k \in Key |-> IF k = j THEN None ELSE Content[k]]
    <3>1. Content' = [k \in Key |-> Content'[k]]
      OBVIOUS
    <3> HIDE DEF Content, j
    <3> QED
      BY <1>2, <1>5, <3>1
  <2>2. [Content EXCEPT ![j] = None]
           = [k \in Key |-> IF k = j THEN None ELSE Content[k]]
    BY Zenon
  <2> QED
    BY <2>1, <2>2
<1>6. CASE Content'[j] # None
  <2>1. settled[t] /\ Content'[j] = Content[j]
    BY <1>3, <1>4, <1>6, Zenon
  <2>2. \A k \in Key : Content'[k] = Content[k]
    BY <1>2, <2>1, Zenon
  <2>3. /\ Content = [k \in Key |-> Content[k]]
        /\ Content' = [k \in Key |-> Content'[k]]
    OBVIOUS
  <2> HIDE DEF Content
  <2>4. [k \in Key |-> Content[k]] = [k \in Key |-> Content'[k]]
    BY <2>2
  <2>5. Content' = Content
    BY <2>3, <2>4, Zenon
  <2> QED
    BY <2>1, <2>5
<1> QED
  BY <1>5, <1>6

Calls == [t \in Thread |-> CallOf(t)]

\* The call of a thread depends on its own variables only.
LEMMA CallStays ==
  ASSUME NEW t \in Thread, pc'[t] = pc[t], arg'[t] = arg[t],
         settled'[t] = settled[t]
  PROVE  CallOf(t)' = CallOf(t)
BY DEF CallOf, KeyOf, InPut

\* The calls after a step in which one thread moves.
LEMMA CallsAfter ==
  ASSUME NEW t \in Thread,
         \A u \in Thread \ {t} : /\ pc'[u] = pc[u] /\ arg'[u] = arg[u]
                                 /\ settled'[u] = settled[u]
  PROVE  Calls' = [Calls EXCEPT ![t] = CallOf(t)']
<1>1. \A u \in Thread \ {t} : CallOf(u)' = CallOf(u)
  BY CallStays
<1> QED
  BY <1>1 DEF Calls

\* A step that is invisible in the call of the thread that moves.
LEMMA CallsStay ==
  ASSUME NEW t \in Thread, CallOf(t)' = CallOf(t),
         \A u \in Thread \ {t} : /\ pc'[u] = pc[u] /\ arg'[u] = arg[u]
                                 /\ settled'[u] = settled[u]
  PROVE  Calls' = Calls
<1>1. \A u \in Thread \ {t} : CallOf(u)' = CallOf(u)
  BY CallStays
<1>2. \A u \in Thread : CallOf(u)' = CallOf(u)
  BY <1>1
<1> QED
  BY <1>2 DEF Calls

\* The record of a remove that has had its effect.
LEMMA MarkDone ==
  ASSUME NEW k, NEW d, NEW x
  PROVE  [[op |-> "remove", key |-> k, done |-> d] EXCEPT !.done = x]
            = [op |-> "remove", key |-> k, done |-> x]
OBVIOUS

\* An empty table is an empty map with no call running.
LEMMA InitRefines == Init => Map!Init
BY DEF Init, Map!Init, Map!Idle, Content, CallOf, Empty, InPut, Nothing

\* Every step is a step of the abstract map, or invisible.
LEMMA StepRefines == Inv /\ Step => Map!Next \/ UNCHANGED <<Content, Calls>>
<1> SUFFICES ASSUME Inv, Step
             PROVE  Map!Next \/ UNCHANGED <<Content, Calls>>
  OBVIOUS
<1> USE DEF Inv, TypeOK, Pcs, Args, dataVars, KeyOf, Goto, Called, Returns,
        Busy, InPut
\* The call begins.
<1>1. ASSUME NEW t \in Thread, NEW k \in Key, NEW v \in Value, PutStart(t, k, v)
      PROVE  Map!Start(t)
  <2>1. Calls' = [Calls EXCEPT ![t] = CallOf(t)']
    BY <1>1, CallsAfter DEF PutStart
  <2>2. CallOf(t) = [op |-> "idle"]
    BY <1>1 DEF PutStart, CallOf
  <2>3. CallOf(t)' = [op |-> "put", key |-> k, val |-> v, done |-> FALSE]
    BY <1>1 DEF PutStart, CallOf
  <2>4. Content' = Content
    BY <1>1, ContentStays
  <2> QED
    BY <2>1, <2>2, <2>3, <2>4 DEF Map!Start, Map!Calls, Map!Idle, Calls
<1>2. ASSUME NEW t \in Thread, NEW k \in Key, RemoveStart(t, k)
      PROVE  Map!Start(t)
  <2>1. Calls' = [Calls EXCEPT ![t] = CallOf(t)']
    BY <1>2, CallsAfter DEF RemoveStart
  <2>2. CallOf(t) = [op |-> "idle"]
    BY <1>2 DEF RemoveStart, CallOf
  <2>3. CallOf(t)' = [op |-> "remove", key |-> k, done |-> FALSE]
    BY <1>2 DEF RemoveStart, CallOf, SettledOK
  <2>4. Content' = Content
    BY <1>2, ContentStays
  <2> QED
    BY <2>1, <2>2, <2>3, <2>4 DEF Map!Start, Map!Calls, Map!Idle, Calls
\* A put takes effect when it deletes the file, and overtakes every remove of
\* its key that is running.
<1>3. ASSUME NEW t \in Thread, Unspill(t)
      PROVE  Map!PutEffect(t)
  <2>1. Content' = [Content EXCEPT ![KeyOf(t)] = arg[t].val]
    BY <1>3, UnspillContent
  <2>2. CallOf(t) = [op |-> "put", key |-> KeyOf(t), val |-> arg[t].val,
                     done |-> FALSE]
    BY <1>3 DEF Unspill, CallOf
  <2>3. ASSUME NEW u \in Thread
        PROVE  CallOf(u)' = IF \/ u = t
                               \/ /\ CallOf(u).op = "remove"
                                  /\ CallOf(u).key = CallOf(t).key
                            THEN [CallOf(u) EXCEPT !.done = TRUE]
                            ELSE CallOf(u)
    <3>1. CASE u = t
      BY <1>3, <2>2, <3>1 DEF Unspill, CallOf
    <3>2. CASE pc[u] \in {"removeMem", "removeFile"}
      BY <1>3, <2>2, <3>2 DEF Unspill, CallOf
    <3>3. CASE u # t /\ pc[u] \notin {"removeMem", "removeFile"}
      BY <1>3, <2>2, <3>3 DEF Unspill, CallOf
    <3> QED
      BY <3>1, <3>2, <3>3
  <2>4. Calls[t].op = "put" /\ ~Calls[t].done
    BY <2>2 DEF Calls
  <2>5. Content' = [Content EXCEPT ![Calls[t].key] = Calls[t].val]
    <3>1. Calls[t].key = KeyOf(t) /\ Calls[t].val = arg[t].val
      BY <2>2 DEF Calls
    <3> QED
      BY <2>1, <3>1, Zenon
  <2>6. Calls' = [u \in Thread |->
                     IF \/ u = t
                        \/ Calls[u].op = "remove" /\ Calls[u].key = Calls[t].key
                     THEN [Calls[u] EXCEPT !.done = TRUE] ELSE Calls[u]]
    BY <2>3 DEF Calls
  <2> QED
    BY <2>4, <2>5, <2>6, Zenon DEF Map!PutEffect, Calls
<1>4. ASSUME NEW t \in Thread, PutReturn(t)
      PROVE  Map!PutReturn(t)
  <2>1. Calls' = [Calls EXCEPT ![t] = CallOf(t)']
    BY <1>4, CallsAfter DEF PutReturn
  <2>2. CallOf(t).op = "put" /\ CallOf(t).done
    BY <1>4 DEF PutReturn, CallOf
  <2>3. CallOf(t)' = [op |-> "idle"]
    BY <1>4 DEF PutReturn, CallOf
  <2>4. Content' = Content
    BY <1>4, ContentStays
  <2> QED
    BY <2>1, <2>2, <2>3, <2>4 DEF Map!PutReturn, Map!Idle, Calls
\* A remove takes effect where it finds the entry.
<1>5. ASSUME NEW t \in Thread, RemoveMem(t), mem[KeyOf(t)] # None
      PROVE  Map!RemoveEffect(t)
  <2>1. Calls' = [Calls EXCEPT ![t] = CallOf(t)']
    BY <1>5, CallsAfter DEF RemoveMem
  <2>2. CallOf(t) = [op |-> "remove", key |-> KeyOf(t), done |-> settled[t]]
    BY <1>5 DEF RemoveMem, CallOf
  <2>3. CallOf(t)' = [op |-> "remove", key |-> KeyOf(t), done |-> TRUE]
    BY <1>5 DEF RemoveMem, CallOf
  <2>4. Content' = [Content EXCEPT ![KeyOf(t)] = None]
    BY <1>5, RemoveMemContent
  <2>5. Calls[t].op = "remove"
    BY <2>2 DEF Calls
  <2>6. Content' = [Content EXCEPT ![Calls[t].key] = None]
    <3>1. Calls[t].key = KeyOf(t)
      BY <2>2 DEF Calls
    <3> QED
      BY <2>4, <3>1, Zenon
  <2>7. Calls' = [Calls EXCEPT ![t].done = TRUE]
    <3>1. Calls[t] = [op |-> "remove", key |-> KeyOf(t), done |-> settled[t]]
      BY <2>2 DEF Calls
    <3>2. CallOf(t)' = [Calls[t] EXCEPT !.done = TRUE]
      <4>1. [[op |-> "remove", key |-> KeyOf(t), done |-> settled[t]]
                EXCEPT !.done = TRUE]
               = [op |-> "remove", key |-> KeyOf(t), done |-> TRUE]
        BY MarkDone, Zenon
      <4>2. [Calls[t] EXCEPT !.done = TRUE]
               = [op |-> "remove", key |-> KeyOf(t), done |-> TRUE]
        BY <3>1, <4>1, Zenon
      <4> QED
        BY <2>3, <4>2, Zenon
    <3>3. [Calls EXCEPT ![t].done = TRUE]
             = [Calls EXCEPT ![t] = [Calls[t] EXCEPT !.done = TRUE]]
      OBVIOUS
    <3> QED
      BY <2>1, <3>2, <3>3, Zenon
  <2> QED
    BY <2>5, <2>6, <2>7, Zenon DEF Map!RemoveEffect, Calls
<1>6. ASSUME NEW t \in Thread, RemoveMem(t), mem[KeyOf(t)] = None
      PROVE  UNCHANGED <<Content, Calls>>
  <2>1. Content' = Content
    BY <1>6, RemoveMemContent
  <2>2. CallOf(t)' = CallOf(t)
    BY <1>6 DEF RemoveMem, CallOf
  <2>3. Calls' = Calls
    BY <1>6, <2>2, CallsStay DEF RemoveMem
  <2> QED
    BY <2>1, <2>3
\* By the time it returns the key is gone, or it may count as having been.
<1>7. ASSUME NEW t \in Thread, RemoveFile(t)
      PROVE  Map!RemoveReturn(t)
  <2>1. Calls' = [Calls EXCEPT ![t] = CallOf(t)']
    BY <1>7, CallsAfter DEF RemoveFile
  <2>2. CallOf(t) = [op |-> "remove", key |-> KeyOf(t), done |-> settled[t]]
    BY <1>7 DEF RemoveFile, CallOf
  <2>3. CallOf(t)' = [op |-> "idle"]
    BY <1>7 DEF RemoveFile, CallOf
  <2>4. \/ settled[t] /\ Content' = Content
        \/ Content' = [Content EXCEPT ![KeyOf(t)] = None]
    BY <1>7, RemoveFileContent
  <2> QED
    BY <2>1, <2>2, <2>3, <2>4 DEF Map!RemoveReturn, Map!Idle, Calls
\* Everything else is invisible.
<1>8. ASSUME NEW t \in Thread,
             \/ Insert(t) \/ \E k \in Key : Take(t, k)
             \/ CreateFile(t) \/ WriteFile(t) \/ SpillFails(t)
             \/ \E k \in Key : GetMem(t, k)
             \/ GetFile(t)
      PROVE  UNCHANGED <<Content, Calls>>
  <2>1. Content' = Content
    BY <1>8, ContentStays
  <2>2. CallOf(t)' = CallOf(t)
    <3>1. CASE Insert(t)
      BY <3>1 DEF Insert, CallOf
    <3>2. CASE \E k \in Key : Take(t, k)
      BY <3>2 DEF Take, CallOf
    <3>3. CASE CreateFile(t)
      BY <3>3 DEF CreateFile, CallOf
    <3>4. CASE WriteFile(t)
      BY <3>4 DEF WriteFile, CallOf
    <3>5. CASE SpillFails(t)
      BY <3>5 DEF SpillFails, CallOf
    <3>6. CASE \E k \in Key : GetMem(t, k)
      BY <3>6 DEF GetMem, CallOf
    <3>7. CASE GetFile(t)
      BY <3>7 DEF GetFile, CallOf
    <3> QED
      BY <1>8, <3>1, <3>2, <3>3, <3>4, <3>5, <3>6, <3>7
  <2>3. Calls' = Calls
    BY <1>8, <2>2, CallsStay DEF Insert, Take, CreateFile, WriteFile,
       SpillFails, GetMem, GetFile
  <2> QED
    BY <2>1, <2>3
<1> QED
  BY <1>1, <1>2, <1>3, <1>4, <1>5, <1>6, <1>7, <1>8
     DEF Step, Put, Remove, Get, Map!Next

\* put_raw and remove_raw, with spilling, torn files and two threads, implement
\* the abstract map: a put takes effect once, a remove leaves the key absent
\* unless a put overlapped it, and no entry is lost on its way to disk.
THEOREM OneMap == Spec => IsOneMap
<1>1. Init => Map!Init
  BY InitRefines
<1>2. Inv /\ [Next]_vars => [Map!Next]_<<Content, Calls>>
  <2>1. Inv /\ Next => Map!Next \/ UNCHANGED <<Content, Calls>>
    BY StepRefines DEF Next
  <2>2. UNCHANGED vars => UNCHANGED <<Content, Calls>>
    BY DEF vars, dataVars, threadVars, Content, Calls, CallOf, KeyOf
  <2> QED
    BY <2>1, <2>2
<1> QED
  BY <1>1, <1>2, Invariance, PTL DEF Spec, IsOneMap, Map!Spec, Calls

-----------------------------------------------------------------------------
(* Restarts: the inductive invariant *)

\* What of CarriedOK outlives a crash.  NoStaleCopy does not: raw.bin may bring a
\* key back into memory that has a file.
InHandOK ==
    /\ Holder({"create", "write"}) =>
           /\ carried.key \in Key /\ carried.val \in Value
           /\ mem[carried.key] = None /\ carried.key \notin toEvict
    /\ ~Holder({"create", "write"}) => carried = Nothing

CallsOK == TypeOK /\ GuardOK /\ ArgOK /\ InHandOK /\ EvictOK

Past == [Key -> SUBSET MaybeValue]

SnapshotTypeOK ==
    /\ saved \in [Key -> MaybeValue] /\ dump \in [Key -> MaybeValue]
    /\ reading \in BOOLEAN /\ unread \in SUBSET Key /\ crashes \in Nat
    /\ recent \in Past /\ fresh \in Past

\* The histories contain the present.
HistoryOK ==
    \A k \in Key : /\ Content[k] \in recent[k]
                   /\ reading => Content[k] \in fresh[k]

\* A key the snapshot has read is in the dump as it was at some time since the
\* snapshot began; one it did not find is still not in memory, and what a file
\* holds for it is what the key was when the snapshot looked.
DumpOK ==
    reading =>
        /\ guard = NoThread
        /\ \A k \in Key \ unread :
              IF dump[k] # None THEN dump[k] \in fresh[k]
              ELSE mem[k] = None /\ (file[k] \in Value => file[k] \in fresh[k])

\* raw.bin, and behind it the files, hold nothing older than the snapshot.
SavedOK ==
    \A k \in Key :
        IF saved[k] # None THEN saved[k] \in recent[k]
        ELSE file[k] \in Value => file[k] \in recent[k]

RestartInv ==
    CallsOK /\ SnapshotTypeOK /\ HistoryOK /\ DumpOK /\ SavedOK

-----------------------------------------------------------------------------
(* Restarts: the calls *)

\* Every step of the API preserves what the calls rely on, with files left over
\* from before a crash.
LEMMA StepCalls == CallsOK /\ Step => CallsOK'
<1> SUFFICES ASSUME CallsOK, Step PROVE CallsOK'
  OBVIOUS
<1> USE DEF CallsOK
<1>0. TypeOK'
  BY StepType
<1> USE DEF TypeOK, Pcs, Args, MaybeValue, dataVars, KeyOf, Goto, Called,
        Returns, Busy, InPut, Holder, InMemory, Nothing
<1>1. ASSUME NEW t \in Thread, NEW k \in Key, NEW v \in Value, PutStart(t, k, v)
      PROVE  CallsOK'
  BY <1>0, <1>1 DEF PutStart, GuardOK, ArgOK, InHandOK, EvictOK
<1>2. ASSUME NEW t \in Thread, Unspill(t) PROVE CallsOK'
  BY <1>0, <1>2 DEF Unspill, GuardOK, ArgOK, InHandOK, EvictOK
<1>3. ASSUME NEW t \in Thread, Insert(t) PROVE CallsOK'
  <2>1. GuardOK' /\ ArgOK'
    BY <1>0, <1>3 DEF Insert, GuardOK, ArgOK
  <2>2. InHandOK'
    BY <1>0, <1>3 DEF Insert, InHandOK, GuardOK
  <2>3. EvictOK'
    BY <1>0, <1>3 DEF Insert, EvictOK, GuardOK
  <2> QED
    BY <1>0, <2>1, <2>2, <2>3
<1>4. ASSUME NEW t \in Thread, NEW k \in Key, Take(t, k) PROVE CallsOK'
  <2>1. GuardOK' /\ ArgOK' /\ EvictOK'
    BY <1>0, <1>4 DEF Take, GuardOK, ArgOK, EvictOK
  <2>2. InHandOK'
    BY <1>0, <1>4 DEF Take, InHandOK, GuardOK, EvictOK
  <2> QED
    BY <1>0, <2>1, <2>2
<1>5. ASSUME NEW t \in Thread, CreateFile(t) PROVE CallsOK'
  BY <1>0, <1>5 DEF CreateFile, GuardOK, ArgOK, InHandOK, EvictOK
<1>6. ASSUME NEW t \in Thread, WriteFile(t) PROVE CallsOK'
  <2>1. GuardOK' /\ ArgOK' /\ EvictOK'
    BY <1>0, <1>6 DEF WriteFile, GuardOK, ArgOK, EvictOK
  <2>2. InHandOK'
    BY <1>0, <1>6 DEF WriteFile, InHandOK, GuardOK
  <2> QED
    BY <1>0, <2>1, <2>2
<1>7. ASSUME NEW t \in Thread, SpillFails(t) PROVE CallsOK'
  <2>1. GuardOK' /\ ArgOK'
    BY <1>0, <1>7 DEF SpillFails, GuardOK, ArgOK
  <2>2. InHandOK'
    BY <1>0, <1>7 DEF SpillFails, InHandOK, GuardOK
  <2>3. EvictOK'
    BY <1>0, <1>7 DEF SpillFails, EvictOK, GuardOK, InHandOK
  <2> QED
    BY <1>0, <2>1, <2>2, <2>3
<1>8. ASSUME NEW t \in Thread, PutReturn(t) PROVE CallsOK'
  <2>1. GuardOK' /\ ArgOK' /\ EvictOK'
    BY <1>0, <1>8 DEF PutReturn, GuardOK, ArgOK, EvictOK
  <2>2. InHandOK'
    BY <1>0, <1>8 DEF PutReturn, InHandOK, GuardOK
  <2> QED
    BY <1>0, <2>1, <2>2
<1>9. ASSUME NEW t \in Thread, NEW k \in Key, RemoveStart(t, k) PROVE CallsOK'
  BY <1>0, <1>9 DEF RemoveStart, GuardOK, ArgOK, InHandOK, EvictOK
<1>10. ASSUME NEW t \in Thread, RemoveMem(t) PROVE CallsOK'
  BY <1>0, <1>10 DEF RemoveMem, GuardOK, ArgOK, InHandOK, EvictOK
<1>11. ASSUME NEW t \in Thread, RemoveFile(t) PROVE CallsOK'
  BY <1>0, <1>11 DEF RemoveFile, GuardOK, ArgOK, InHandOK, EvictOK
<1>12. ASSUME NEW t \in Thread, NEW k \in Key, GetMem(t, k) PROVE CallsOK'
  BY <1>0, <1>12 DEF GetMem, GuardOK, ArgOK, InHandOK, EvictOK
<1>13. ASSUME NEW t \in Thread, GetFile(t) PROVE CallsOK'
  BY <1>0, <1>13 DEF GetFile, GuardOK, ArgOK, InHandOK, EvictOK
<1> QED
  BY <1>1, <1>2, <1>3, <1>4, <1>5, <1>6, <1>7, <1>8, <1>9, <1>10, <1>11,
     <1>12, <1>13 DEF Step, Put, Remove, Get

\* A step of the API gives a key's file a value only by writing the entry in hand,
\* and brings nothing into memory while nobody holds the guard.
LEMMA StepFiles ==
    ASSUME CallsOK, Step
    PROVE  /\ \A k \in Key : file'[k] \in Value =>
                  file'[k] = file[k] \/ file'[k] = Content[k]
           /\ guard = NoThread /\ guard' = NoThread =>
                  \A k \in Key : /\ mem[k] = None => mem'[k] = None
                                 /\ file'[k] \in {file[k], None}
<1> USE DEF CallsOK, TypeOK, dataVars, KeyOf, InPut, Holder, GuardOK, ArgOK
<1>1. ASSUME NEW t \in Thread, WriteFile(t)
      PROVE  /\ \A k \in Key : file'[k] = file[k] \/ file'[k] = Content[k]
             /\ guard # NoThread
  BY <1>1 DEF WriteFile, InHandOK, Content, Goto
<1>2. ASSUME NEW t \in Thread, Insert(t) \/ SpillFails(t) \/ (\E k \in Key : Take(t, k))
      PROVE  guard # NoThread /\ file' = file
  BY <1>2 DEF Insert, SpillFails, Take
<1>3. ASSUME NEW t \in Thread, Unspill(t) \/ CreateFile(t)
      PROVE  guard # NoThread /\ \A k \in Key : file'[k] \in {file[k], None, Torn}
  BY <1>3 DEF Unspill, CreateFile
<1>4. ASSUME NEW t \in Thread, RemoveMem(t)
      PROVE  file' = file /\ \A k \in Key : mem[k] = None => mem'[k] = None
  BY <1>4 DEF RemoveMem
<1>5. ASSUME NEW t \in Thread, RemoveFile(t)
      PROVE  mem' = mem /\ \A k \in Key : file'[k] \in {file[k], None}
  BY <1>5 DEF RemoveFile
<1>6. ASSUME NEW t \in Thread,
             \/ \E k \in Key : \E v \in Value : PutStart(t, k, v)
             \/ PutReturn(t) \/ (\E k \in Key : RemoveStart(t, k))
             \/ (\E k \in Key : GetMem(t, k)) \/ GetFile(t)
      PROVE  mem' = mem /\ file' = file
  BY <1>6 DEF PutStart, PutReturn, RemoveStart, GetMem, GetFile
<1> QED
  BY <1>1, <1>2, <1>3, <1>4, <1>5, <1>6 DEF Step, Put, Remove, Get

-----------------------------------------------------------------------------
(* Restarts: every step *)

\* Every key will have a value or none.
LEMMA ContentType == CallsOK' => Content' \in [Key -> MaybeValue]
BY DEF CallsOK, TypeOK, Content, GuardOK, ArgOK, InHandOK, Holder, KeyOf, InPut,
       MaybeValue, Args, Nothing

\* What a key is does not depend on what only observes it.
LEMMA SameContent ==
    ASSUME UNCHANGED <<mem, file, guard, pc, arg, carried>>
    PROVE  Content' = Content
BY DEF Content, KeyOf

\* The empty store.
LEMMA InitRestart == RestartInit => RestartInv
<1> SUFFICES ASSUME RestartInit PROVE RestartInv
  OBVIOUS
<1>1. CallsOK
  BY InitInv DEF RestartInit, Inv, CallsOK, InHandOK, CarriedOK
<1>2. Content = Empty
  BY DEF RestartInit, Init, Content, Empty, Nothing
<1> QED
  BY <1>1, <1>2 DEF RestartInit, RestartInv, SnapshotTypeOK, HistoryOK, DumpOK,
     SavedOK, Init, Empty, Past, MaybeValue

\* Remember keeps the histories' types, and the present in them.
LEMMA RememberKeeps ==
    ASSUME RestartInv, CallsOK', reading' \in BOOLEAN, Remember
    PROVE  /\ recent' \in Past /\ fresh' \in Past /\ HistoryOK'
           /\ \A k \in Key : fresh[k] \subseteq fresh'[k] \/ ~reading'
<1>1. Content' \in [Key -> MaybeValue]
  BY ContentType
<1>2. \A p \in Past : /\ Add(p, Content') \in Past
                      /\ \A k \in Key : /\ Content'[k] \in Add(p, Content')[k]
                                        /\ p[k] \subseteq Add(p, Content')[k]
  BY <1>1 DEF Add, Past
<1>3. recent \in Past /\ fresh \in Past
  BY DEF RestartInv, SnapshotTypeOK
<1>4. /\ recent' = Add(fresh, Content') \/ recent' = Add(recent, Content')
      /\ reading' => fresh' = Add(fresh, Content')
      /\ ~reading' => fresh' = [k \in Key |-> {}]
  BY DEF Remember
<1>5. recent' \in Past /\ \A k \in Key : Content'[k] \in recent'[k]
  BY <1>2, <1>3, <1>4
<1>6. CASE reading'
  BY <1>2, <1>3, <1>4, <1>5, <1>6 DEF HistoryOK
<1>7. CASE ~reading'
  BY <1>4, <1>5, <1>7 DEF HistoryOK, Past
<1> QED
  BY <1>6, <1>7

\* A step that does not replace raw.bin forgets nothing.
LEMMA NothingForgotten ==
    ASSUME RestartInv, CallsOK', Remember,
           ~SnapshotWrite
    PROVE  \A k \in Key : recent[k] \subseteq recent'[k]
<1>1. Content' \in [Key -> MaybeValue]
  BY ContentType
<1> QED
  BY <1>1 DEF Remember, Add, RestartInv, SnapshotTypeOK, Past

\* The calls of the API.
LEMMA ApiKeeps == ASSUME RestartInv, ApiStep, Remember PROVE RestartInv'
<1>1. CallsOK'
  BY StepCalls DEF RestartInv, ApiStep, Next
<1>2. SnapshotTypeOK' /\ HistoryOK'
  BY <1>1, RememberKeeps DEF RestartInv, ApiStep, snapVars, SnapshotTypeOK
<1>3. \A k \in Key : recent[k] \subseteq recent'[k]
  BY <1>1, NothingForgotten DEF ApiStep, snapVars, SnapshotWrite
<1>4. SavedOK'
  <2>1. \A k \in Key : file'[k] \in Value => file'[k] = file[k] \/ file'[k] = Content[k]
    BY StepFiles DEF RestartInv, ApiStep, Next
  <2> QED
    BY <1>3, <2>1 DEF RestartInv, ApiStep, snapVars, SavedOK, HistoryOK
<1>5. DumpOK'
  <2> SUFFICES ASSUME reading' PROVE DumpOK'
    BY DEF DumpOK
  <2>1. reading /\ guard = NoThread /\ guard' = NoThread
        /\ UNCHANGED <<dump, unread>>
    BY DEF RestartInv, DumpOK, ApiStep, snapVars
  <2>2. \A k \in Key : /\ mem[k] = None => mem'[k] = None
                       /\ file'[k] \in {file[k], None}
    BY <2>1, StepFiles DEF RestartInv, ApiStep, Next
  <2>3. \A k \in Key : fresh[k] \subseteq fresh'[k]
    BY <1>1, RememberKeeps DEF RestartInv, ApiStep, snapVars, SnapshotTypeOK
  <2> QED
    BY <2>1, <2>2, <2>3 DEF RestartInv, DumpOK
<1> QED
  BY <1>1, <1>2, <1>4, <1>5 DEF RestartInv

\* The snapshot begins, reads a key, or replaces raw.bin.
LEMMA SnapshotKeeps == ASSUME RestartInv, Snapshot, Remember PROVE RestartInv'
<1>1. CallsOK' /\ UNCHANGED vars /\ reading' \in BOOLEAN
  <2>1. UNCHANGED vars /\ reading' \in BOOLEAN
    BY DEF Snapshot, SnapshotStart, SnapshotRead, SnapshotWrite, SnapshotFails, RestartInv,
       SnapshotTypeOK
  <2> QED
    BY <2>1 DEF RestartInv, CallsOK, vars, dataVars, threadVars, TypeOK, GuardOK, ArgOK,
       InHandOK, EvictOK, Holder, KeyOf, InMemory
<1>2. /\ recent' \in Past /\ fresh' \in Past /\ HistoryOK'
      /\ \A k \in Key : fresh[k] \subseteq fresh'[k] \/ ~reading'
  BY <1>1, RememberKeeps
<1>3. UNCHANGED <<mem, file, guard, carried, pc, arg>> /\ Content' = Content
  BY <1>1, SameContent DEF vars, dataVars, threadVars
<1>4. CASE SnapshotStart
  <2>1. SnapshotTypeOK' /\ DumpOK'
    BY <1>2, <1>3, <1>4 DEF SnapshotStart, RestartInv, SnapshotTypeOK, DumpOK, Empty, MaybeValue
  <2>2. SavedOK'
    BY <1>1, <1>3, <1>4, NothingForgotten DEF SnapshotStart, SnapshotWrite, RestartInv, SavedOK
  <2> QED
    BY <1>1, <1>2, <2>1, <2>2 DEF RestartInv
<1>5. ASSUME NEW k \in Key, SnapshotRead(k) PROVE RestartInv'
  <2>1. SnapshotTypeOK'
    BY <1>2, <1>3, <1>5 DEF SnapshotRead, RestartInv, SnapshotTypeOK, CallsOK, TypeOK
  <2>2. SavedOK'
    BY <1>1, <1>3, <1>5, NothingForgotten DEF SnapshotRead, SnapshotWrite, RestartInv, SavedOK
  <2>3. guard = NoThread /\ carried = Nothing
    BY <1>5 DEF SnapshotRead, RestartInv, DumpOK, CallsOK, InHandOK, Holder
  <2>4. Content[k] = IF mem[k] # None THEN mem[k] ELSE IF file[k] \in Value THEN file[k] ELSE None
    BY <2>3 DEF Content, Nothing
  <2>5. Content[k] \in fresh'[k]
    BY <1>2, <1>3, <1>5 DEF SnapshotRead, HistoryOK
  <2>6. DumpOK'
    BY <1>2, <1>3, <1>5, <2>3, <2>4, <2>5
       DEF SnapshotRead, RestartInv, DumpOK, SnapshotTypeOK
  <2> QED
    BY <1>1, <1>2, <2>1, <2>2, <2>6 DEF RestartInv
<1>6. CASE SnapshotWrite
  <2>1. SnapshotTypeOK' /\ DumpOK'
    BY <1>2, <1>3, <1>6 DEF SnapshotWrite, RestartInv, SnapshotTypeOK, DumpOK, Empty, MaybeValue
  <2>2. \A k \in Key : fresh[k] \subseteq recent'[k]
    <3>1. recent' = Add(fresh, Content')
      BY <1>6 DEF SnapshotWrite, Remember
    <3>2. fresh \in Past
      BY DEF RestartInv, SnapshotTypeOK
    <3> QED
      BY <3>1, <3>2 DEF Add, Past
  <2>3. SavedOK'
    BY <1>3, <1>6, <2>2 DEF SnapshotWrite, RestartInv, DumpOK, SavedOK
  <2> QED
    BY <1>1, <1>2, <2>1, <2>3 DEF RestartInv
<1>7. CASE SnapshotFails /\ ~SnapshotWrite
  <2>1. SnapshotTypeOK' /\ DumpOK'
    BY <1>2, <1>3, <1>7 DEF SnapshotFails, RestartInv, SnapshotTypeOK, DumpOK, Empty, MaybeValue
  <2>2. SavedOK'
    BY <1>1, <1>3, <1>7, NothingForgotten DEF SnapshotFails, RestartInv, SavedOK
  <2> QED
    BY <1>1, <1>2, <2>1, <2>2 DEF RestartInv
<1> QED
  BY <1>4, <1>5, <1>6, <1>7 DEF Snapshot

\* After a crash every call is gone.
LEMMA CrashCalls == ASSUME RestartInv, Crash PROVE CallsOK'
BY DEF RestartInv, SnapshotTypeOK, Crash, CallsOK, TypeOK, GuardOK, ArgOK, InHandOK,
       EvictOK, Holder, InPut, Pcs, Args, MaybeValue, Nothing, InMemory, KeyOf

\* A crash keeps raw.bin and the files, and what they have to do with the past.
LEMMA CrashKeeps == ASSUME RestartInv, Crash, Remember PROVE RestartInv'
<1>1. CallsOK'
  BY CrashCalls
<1>2. crashes' # crashes /\ crashes' \in Nat /\ ~reading'
  BY DEF Crash, RestartInv, SnapshotTypeOK
<1>3. SnapshotTypeOK' /\ HistoryOK'
  BY <1>1, <1>2, RememberKeeps DEF RestartInv, Crash, SnapshotTypeOK, Empty, MaybeValue
<1>4. SavedOK'
  BY <1>1, <1>2, NothingForgotten DEF RestartInv, Crash, SnapshotWrite, SavedOK
<1> QED
  BY <1>1, <1>2, <1>3, <1>4 DEF RestartInv, DumpOK

\* What a crash makes of a key is in raw.bin, or else in its file.
LEMMA CrashHonest ==
    ASSUME RestartInv, Crash, NEW k \in Key
    PROVE  Content'[k] \in recent[k] \union {None}
<1>1. mem' = saved /\ file' = file /\ guard' = NoThread /\ carried' = Nothing
  BY DEF Crash
<1>2. Content'[k] = IF saved[k] # None THEN saved[k]
                    ELSE IF file[k] \in Value THEN file[k] ELSE None
  BY <1>1 DEF Content, Nothing
<1> QED
  BY <1>2 DEF RestartInv, SavedOK

-----------------------------------------------------------------------------
(* Restarts: the theorems *)

\* The invariant holds in every reachable state, across restarts.
THEOREM RestartInvariance == RestartSpec => []RestartInv
<1>1. RestartInv /\ UNCHANGED allVars => RestartInv'
  <2> SUFFICES ASSUME RestartInv, UNCHANGED allVars PROVE RestartInv'
    OBVIOUS
  <2>1. Content' = Content
    BY SameContent DEF allVars, vars, dataVars, threadVars
  <2> QED
    BY <2>1 DEF allVars, vars, dataVars, threadVars, snapVars, RestartInv, CallsOK, TypeOK,
       GuardOK, ArgOK, InHandOK, EvictOK, Holder, KeyOf, InMemory, SnapshotTypeOK,
       HistoryOK, DumpOK, SavedOK
<1>2. RestartInv /\ [RestartNext]_allVars => RestartInv'
  BY <1>1, ApiKeeps, SnapshotKeeps, CrashKeeps DEF RestartNext
<1> QED
  BY <1>2, InitRestart, PTL DEF RestartSpec

\* load_sql_snapshot and the files left over bring back what a key was since the
\* snapshot in raw.bin began, or nothing: raw.bin is replaced as a whole, its keys go
\* before the files, and a file that raw.bin does not hide is younger than raw.bin.
THEOREM RestartsAreHonest == RestartSpec => RestartHonest
<1>1. RestartInv =>
        [Crash => \A k \in Key : Content'[k] \in recent[k] \union {None}]_allVars
  BY CrashHonest
<1> QED
  BY <1>1, RestartInvariance, PTL DEF RestartHonest
=============================================================================
