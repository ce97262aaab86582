------------------------------ MODULE RawStore ------------------------------
(***************************************************************************)
(* One raw key/value table (state.rs, put_raw to remove_raw): a map in     *)
(* memory that spills what exceeds its limit into one file per key.        *)
(*                                                                         *)
(* Two threads use it without knowing of each other: Node's main thread    *)
(* (put, get and remove of lib.rs) and the replication receiver, which     *)
(* puts and removes what the peer sends.  put_raw holds the write guard of *)
(* the table from its first line to its last; get_raw and remove_raw take  *)
(* a guard for the memory half only and reach for the file without one.    *)
(* A step is what happens between two points where the other thread can    *)
(* come in.                                                                *)
(***************************************************************************)
EXTENDS Integers, FiniteSets

CONSTANTS
    Thread,      \* threads that call the API
    Reader,      \* those that also call get
    Key, Value,
    None,        \* no value, no file
    Torn,        \* a file created but not written: it reads as empty
    NoThread,    \* nobody holds the write guard
    MaxEntries   \* max_entries_per_table, 0 for no limit

ASSUME RawAssumption ==
    /\ None \notin Value \union Key /\ Torn \notin Value /\ None # Torn
    /\ NoThread \notin Thread /\ Reader \subseteq Thread
    /\ MaxEntries \in Nat /\ IsFiniteSet(Key)

VARIABLES
    mem,      \* raw_stores: key -> value in memory, or None
    file,     \* overflow files: key -> what a read of the file returns
    guard,    \* the thread inside put_raw
    pc,       \* thread -> where it is
    arg,      \* thread -> key and value it was called with
    toEvict,  \* to_evict of the running put
    carried   \* the entry evict_to_disk has in hand: taken out, not yet written

\* History variables, read by no guard.
VARIABLES
    settled,  \* thread -> its remove has had its effect
    spilled,  \* every spill of the last put worked
    seen,     \* thread -> values its key has had since its get began
    crossed,  \* thread -> another thread was busy meanwhile
    lastGet   \* the last get that looked on disk: did it return one of them?

dataVars    == <<mem, file>>
threadVars  == <<guard, pc, arg, toEvict, carried>>
readVars    == <<seen, crossed, lastGet>>
vars        == <<dataVars, threadVars, settled, spilled, readVars>>

InMemory(m)  == {k \in Key : m[k] # None}
Empty        == [k \in Key |-> None]
Nothing      == [key |-> None, val |-> None]

KeyOf(t) == arg[t].key
Busy(t)  == pc[t] # "idle"

\* The value of a key, wherever it is.  An entry on its way to disk counts, and
\* a put counts from the moment it deletes the spilled copy.
Content ==
    [k \in Key |->
        IF guard # NoThread /\ pc[guard] = "insert" /\ KeyOf(guard) = k
            THEN arg[guard].val
        ELSE IF mem[k] # None THEN mem[k]
        ELSE IF carried.key = k THEN carried.val
        ELSE IF file[k] \in Value THEN file[k]
        ELSE None]

Goto(t, label) == pc' = [pc EXCEPT ![t] = label]
Called(t, k, v) == arg' = [arg EXCEPT ![t] = [key |-> k, val |-> v]]
Returns(t) ==
    /\ Goto(t, "idle")
    /\ arg' = [arg EXCEPT ![t] = Nothing]

-----------------------------------------------------------------------------
(* put_raw and evict_to_disk *)

PutStart(t, k, v) ==
    /\ ~Busy(t) /\ guard = NoThread
    /\ guard' = t
    /\ Goto(t, "unspill") /\ Called(t, k, v)
    /\ UNCHANGED <<dataVars, toEvict, carried, settled, spilled>>

\* Mutant: the spilled copy is left where it is.
UnspillNothing(t) ==
    /\ pc[t] = "unspill"
    /\ Goto(t, "insert")
    /\ UNCHANGED <<dataVars, guard, arg, toEvict, carried, settled, spilled>>

\* "A key that was previously spilled to disk is now fresh again."
Unspill(t) ==
    /\ pc[t] = "unspill"
    /\ file' = [file EXCEPT ![KeyOf(t)] = None]
    /\ settled' = [u \in Thread |-> \/ settled[u]
                                    \/ /\ pc[u] \in {"removeMem", "removeFile"}
                                       /\ KeyOf(u) = KeyOf(t)]
    /\ Goto(t, "insert")
    /\ UNCHANGED <<mem, guard, arg, toEvict, carried, spilled>>

\* Mutant: a put makes room for itself only.
ExcessOne(m) ==
    IF MaxEntries > 0 /\ Cardinality(InMemory(m)) > MaxEntries THEN 1 ELSE 0

\* The entries to evict are the first the map's iterator yields: any of them,
\* the new one included.
Excess(m) ==
    IF MaxEntries > 0 /\ Cardinality(InMemory(m)) > MaxEntries
    THEN Cardinality(InMemory(m)) - MaxEntries ELSE 0

Insert(t) ==
    /\ pc[t] = "insert"
    /\ mem' = [mem EXCEPT ![KeyOf(t)] = arg[t].val]
    /\ toEvict' \in {E \in SUBSET InMemory(mem') : Cardinality(E) = Excess(mem')}
    /\ spilled' = TRUE
    /\ Goto(t, "evict")
    /\ UNCHANGED <<file, guard, arg, carried, settled>>

Take(t, k) ==
    /\ pc[t] = "evict" /\ k \in toEvict
    /\ mem' = [mem EXCEPT ![k] = None]
    /\ carried' = [key |-> k, val |-> mem[k]]
    /\ toEvict' = toEvict \ {k}
    /\ Goto(t, "create")
    /\ UNCHANGED <<file, guard, arg, settled, spilled>>

\* std::fs::write creates or truncates the file, then writes.
CreateFile(t) ==
    /\ pc[t] = "create"
    /\ file' = [file EXCEPT ![carried.key] = Torn]
    /\ Goto(t, "write")
    /\ UNCHANGED <<mem, guard, arg, toEvict, carried, settled, spilled>>

WriteFile(t) ==
    /\ pc[t] = "write"
    /\ file' = [file EXCEPT ![carried.key] = carried.val]
    /\ carried' = Nothing
    /\ Goto(t, "evict")
    /\ UNCHANGED <<mem, guard, arg, toEvict, settled, spilled>>

\* Mutant: the entry that could not be written is dropped.
SpillLosesEntry(t) ==
    /\ pc[t] \in {"create", "write"}
    /\ carried' = Nothing
    /\ spilled' = FALSE
    /\ Goto(t, "evict")
    /\ UNCHANGED <<dataVars, guard, arg, toEvict, settled>>

\* "Failed to spill key to disk, keeping it in memory": before the file was
\* created, or after.
SpillFails(t) ==
    /\ pc[t] \in {"create", "write"}
    /\ mem' = [mem EXCEPT ![carried.key] = carried.val]
    /\ carried' = Nothing
    /\ spilled' = FALSE
    /\ Goto(t, "evict")
    /\ UNCHANGED <<file, guard, arg, toEvict, settled>>

PutReturn(t) ==
    /\ pc[t] = "evict" /\ toEvict = {}
    /\ guard' = NoThread
    /\ Returns(t)
    /\ UNCHANGED <<dataVars, toEvict, carried, settled, spilled>>

-----------------------------------------------------------------------------
(* remove_raw *)

RemoveStart(t, k) ==
    /\ ~Busy(t)
    /\ Goto(t, "removeMem") /\ Called(t, k, None)
    /\ UNCHANGED <<dataVars, guard, toEvict, carried, settled, spilled>>

RemoveMem(t) ==
    /\ pc[t] = "removeMem" /\ guard = NoThread
    /\ mem' = [mem EXCEPT ![KeyOf(t)] = None]
    /\ settled' = [settled EXCEPT ![t] = @ \/ mem[KeyOf(t)] # None]
    /\ Goto(t, "removeFile")
    /\ UNCHANGED <<file, guard, arg, toEvict, carried, spilled>>

\* Mutant: remove_raw forgets the overflow file.
RemoveMemoryOnly(t) ==
    /\ pc[t] = "removeFile"
    /\ settled' = [settled EXCEPT ![t] = FALSE]
    /\ Returns(t)
    /\ UNCHANGED <<dataVars, guard, toEvict, carried, spilled>>

RemoveFile(t) ==
    /\ pc[t] = "removeFile"
    /\ file' = [file EXCEPT ![KeyOf(t)] = None]
    /\ settled' = [settled EXCEPT ![t] = FALSE]
    /\ Returns(t)
    /\ UNCHANGED <<mem, guard, toEvict, carried, spilled>>

-----------------------------------------------------------------------------
(* get_raw *)

GetMem(t, k) ==
    /\ ~Busy(t) /\ guard = NoThread
    /\ IF mem[k] # None THEN UNCHANGED <<pc, arg>>
                        ELSE Goto(t, "getFile") /\ Called(t, k, None)
    /\ UNCHANGED <<dataVars, guard, toEvict, carried, settled, spilled>>

GetFile(t) ==
    /\ pc[t] = "getFile"
    /\ Returns(t)
    /\ UNCHANGED <<dataVars, guard, toEvict, carried, settled, spilled>>

\* History of the gets that have gone past memory.
Observe ==
    /\ seen' = [t \in Thread |->
           IF pc'[t] # "getFile" THEN {}
           ELSE seen[t] \union {Content[arg'[t].key], Content'[arg'[t].key]}]
    /\ crossed' = [t \in Thread |->
           /\ pc'[t] = "getFile"
           /\ crossed[t] \/ \E u \in Thread \ {t} : pc'[u] # "idle"]
    /\ lastGet' =
           IF \E t \in Thread : pc[t] = "getFile" /\ pc'[t] = "idle"
           THEN LET t == CHOOSE u \in Thread : pc[u] = "getFile" /\ pc'[u] = "idle"
                IN [right |-> file[KeyOf(t)] \in seen[t], crossed |-> crossed[t]]
           ELSE lastGet

-----------------------------------------------------------------------------
Init ==
    /\ mem = Empty /\ file = Empty
    /\ guard = NoThread /\ toEvict = {} /\ carried = Nothing
    /\ pc = [t \in Thread |-> "idle"] /\ arg = [t \in Thread |-> Nothing]
    /\ settled = [t \in Thread |-> FALSE] /\ spilled = TRUE
    /\ seen = [t \in Thread |-> {}] /\ crossed = [t \in Thread |-> FALSE]
    /\ lastGet = [right |-> TRUE, crossed |-> FALSE]

Put(t) ==
    \/ \E k \in Key : \E v \in Value : PutStart(t, k, v)
    \/ Unspill(t)
    \/ Insert(t)
    \/ \E k \in Key : Take(t, k)
    \/ CreateFile(t)
    \/ WriteFile(t)
    \/ SpillFails(t)
    \/ PutReturn(t)

Remove(t) == (\E k \in Key : RemoveStart(t, k)) \/ RemoveMem(t) \/ RemoveFile(t)

Get(t) == (\E k \in Key : GetMem(t, k)) \/ GetFile(t)

Step == (\E t \in Thread : Put(t) \/ Remove(t)) \/ (\E t \in Reader : Get(t))
Next == Step /\ Observe
Spec == Init /\ [][Next]_vars

-----------------------------------------------------------------------------
(* Properties *)

Pcs == {"idle", "unspill", "insert", "evict", "create", "write",
        "removeMem", "removeFile", "getFile"}
InPut == {"unspill", "insert", "evict", "create", "write"}
MaybeValue == Value \union {None}
Args == [key : Key \union {None}, val : MaybeValue]

TypeOK ==
    /\ mem \in [Key -> MaybeValue] /\ file \in [Key -> MaybeValue \union {Torn}]
    /\ guard \in Thread \union {NoThread} /\ toEvict \in SUBSET Key
    /\ pc \in [Thread -> Pcs] /\ arg \in [Thread -> Args] /\ carried \in Args
    /\ settled \in [Thread -> BOOLEAN] /\ spilled \in BOOLEAN

\* A key in memory has no spilled value on disk.  If it had, a remove would
\* bring the old value back between its two halves, and a crash for good.
NoStaleCopy == \A k \in Key : mem[k] # None => file[k] \notin Value

\* Once a put has returned the table is within its limit, whatever earlier
\* puts could not spill, unless a spill of this very put failed.
LimitKept ==
    guard = NoThread /\ MaxEntries > 0 /\ spilled
        => Cardinality(InMemory(mem)) <= MaxEntries

\* A get that no call of another thread crosses returns the value of the key,
\* in memory or on disk.
GetAlone == ~lastGet.crossed => lastGet.right

\* To its writers the table is one map, and spilling is invisible.
CallOf(t) ==
    CASE pc[t] \in {"unspill"} ->
             [op |-> "put", key |-> KeyOf(t), val |-> arg[t].val, done |-> FALSE]
      [] pc[t] \in InPut \ {"unspill"} ->
             [op |-> "put", key |-> KeyOf(t), val |-> arg[t].val, done |-> TRUE]
      [] pc[t] \in {"removeMem", "removeFile"} ->
             [op |-> "remove", key |-> KeyOf(t), done |-> settled[t]]
      [] OTHER -> [op |-> "idle"]

Map == INSTANCE KvMap WITH content <- Content, call <- [t \in Thread |-> CallOf(t)]

IsOneMap == Map!Spec
=============================================================================
