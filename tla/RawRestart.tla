----------------------------- MODULE RawRestart -----------------------------
(***************************************************************************)
(* The raw store across restarts: RawStore, the part of save_sql_snapshot  *)
(* that writes raw.bin, a crash, and the part of load_sql_snapshot that    *)
(* reads raw.bin back.  Overflow files are not part of any snapshot: they  *)
(* stay as the crash left them.                                            *)
(***************************************************************************)
EXTENDS RawStore

CONSTANT MaxCrash    \* bound on the crashes of a behaviour

VARIABLES
    saved,     \* raw.bin
    reading,   \* the snapshot task holds its read guard on raw_stores
    unread,    \* keys it has not come to yet
    dump,      \* raw_dump, as far as it has got
    crashes

\* History variables, read by no guard.
VARIABLES
    recent,    \* what each key has been since the last complete snapshot began
    fresh      \* the same since the running snapshot began

snapVars == <<saved, reading, unread, dump, crashes>>
allVars  == <<vars, snapVars, recent, fresh>>

\* put_raw cannot get its write guard while the snapshot task reads; get_raw and
\* remove_raw can.
ApiStep ==
    /\ Next
    /\ reading => guard' = NoThread
    /\ UNCHANGED snapVars

SnapshotStart ==
    /\ ~reading /\ guard = NoThread
    /\ reading' = TRUE /\ unread' = Key /\ dump' = Empty
    /\ UNCHANGED <<vars, saved, crashes>>

SnapshotRead(k) ==
    /\ reading /\ k \in unread
    /\ dump' = [dump EXCEPT ![k] = mem[k]]
    /\ unread' = unread \ {k}
    /\ UNCHANGED <<vars, saved, reading, crashes>>

\* Mutant: keys the snapshot did not find keep what raw.bin had for them.
SnapshotMerge ==
    /\ reading /\ unread = {}
    /\ saved' = [k \in Key |-> IF dump[k] = None THEN saved[k] ELSE dump[k]]
    /\ reading' = FALSE /\ dump' = Empty
    /\ UNCHANGED <<vars, unread, crashes>>

\* Written to a temporary file and renamed: all of it or nothing.
SnapshotWrite ==
    /\ reading /\ unread = {}
    /\ saved' = dump
    /\ reading' = FALSE /\ dump' = Empty
    /\ UNCHANGED <<vars, unread, crashes>>

\* An error leaves the old raw.bin.
SnapshotFails ==
    /\ reading /\ unread = {}
    /\ reading' = FALSE /\ dump' = Empty
    /\ UNCHANGED <<vars, saved, unread, crashes>>

\* The process dies and comes back with what raw.bin and the files hold.
Crash ==
    /\ crashes < MaxCrash /\ crashes' = crashes + 1
    /\ mem' = saved
    /\ guard' = NoThread /\ toEvict' = {} /\ carried' = Nothing
    /\ pc' = [t \in Thread |-> "idle"] /\ arg' = [t \in Thread |-> Nothing]
    /\ reading' = FALSE /\ unread' = {} /\ dump' = Empty
    /\ settled' = [t \in Thread |-> FALSE] /\ spilled' = TRUE
    /\ seen' = [t \in Thread |-> {}] /\ crossed' = [t \in Thread |-> FALSE]
    /\ UNCHANGED <<file, saved, lastGet>>

-----------------------------------------------------------------------------
(* History *)

\* What a key is, added to what it has been.
Add(past, now) == [k \in Key |-> past[k] \union {now[k]}]

Remember ==
    /\ recent' = Add(IF SnapshotWrite THEN fresh ELSE recent, Content')
    /\ fresh' = IF reading' THEN Add(fresh, Content') ELSE [k \in Key |-> {}]

RestartInit ==
    /\ Init
    /\ saved = Empty /\ reading = FALSE /\ unread = {} /\ dump = Empty
    /\ crashes = 0
    /\ recent = [k \in Key |-> {None}] /\ fresh = [k \in Key |-> {}]

Snapshot ==
    \/ SnapshotStart
    \/ \E k \in Key : SnapshotRead(k)
    \/ SnapshotWrite \/ SnapshotFails

RestartNext == (ApiStep \/ Snapshot \/ Crash) /\ Remember
RestartSpec == RestartInit /\ [][RestartNext]_allVars

-----------------------------------------------------------------------------
(* Properties *)

\* After a restart a get returns nothing, or a value it could have returned at
\* some time since the last complete snapshot began: never an older one, from
\* raw.bin or from a forgotten file.  (The crash may have cut a spill short;
\* the file then reads as empty, here as nothing.)
RestartHonest ==
    [][Crash => \A k \in Key : Content'[k] \in recent[k] \union {None}]_allVars

\* "raw put/get/remove key-value tables ... survive a process restart": a key
\* that was there throughout since the last complete snapshot began is there
\* after a restart, with one of its values.
KeysSurvive ==
    [][Crash => \A k \in Key : None \notin recent[k] => Content'[k] # None]_allVars
=============================================================================
