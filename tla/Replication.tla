----------------------------- MODULE Replication -----------------------------
(***************************************************************************)
(* Two servers, the WAL task of each (wal.rs, start and write_batch) and   *)
(* the datagrams between them (replication.rs).                            *)
(*                                                                         *)
(* put and remove of lib.rs change the raw store and then queue the        *)
(* operation.  The WAL task collects queued operations into a batch, and   *)
(* on a tick, on a flush or when the batch is full appends it to wal.bin   *)
(* and sends it to the peer in one datagram.  The peer applies what it     *)
(* receives to its own store and queues nothing.  The store is a plain map *)
(* here: RawStore implements it.                                           *)
(***************************************************************************)
EXTENDS Integers, SequencesExt

CONSTANTS
    Server,
    Key, Value,
    None,          \* no value; the value of a Delete
    Torn,          \* in wal.bin: a record cut short
    Writes,        \* server -> keys its clients put and remove
    BatchSize,     \* wal.batch_size
    MaxCalls,      \* bound on the calls to one server
    MaxDiskFault,  \* bound on failed writes of wal.bin
    MaxNetFault    \* bound on lost, repeated and overtaken datagrams

ASSUME ReplicationAssumption ==
    /\ \E a, b \in Server : a # b /\ Server = {a, b}
    /\ None \notin Value
    /\ Writes \in [Server -> SUBSET Key]
    /\ BatchSize \in Nat \ {0} /\ MaxCalls \in Nat
    /\ MaxDiskFault \in Nat /\ MaxNetFault \in Nat

Op == [key : Key, val : Value \union {None}]

ASSUME TornIsNoOp == Torn \notin Op

VARIABLES
    store,     \* server -> raw store
    unsent,    \* server -> the operation put or remove has yet to queue
    queue,     \* server -> the channel to the WAL task
    batch,     \* server -> the WAL task's batch
    permit,    \* server -> flush_trigger holds a permit
    log,       \* server -> wal.bin
    net,       \* server -> datagrams on their way to it
    incoming   \* server -> what is left of the datagram it is applying

\* Bounds and history, read by no guard of the program.
VARIABLES
    called,     \* server -> the operations its clients asked for
    diskFaults, netFaults,
    hurt        \* keys whose operations the network has lost, repeated or swapped

taskVars == <<queue, batch, permit, log>>
vars == <<store, unsent, taskVars, net, incoming, called, diskFaults, netFaults, hurt>>

Peer(s) == CHOOSE p \in Server : p # s

\* The value of key k after the operations ops, if it was v before.
ValueAfter(ops, k, v) ==
    LET at == {i \in DOMAIN ops : ops[i].key = k}
    IN IF at = {} THEN v ELSE ops[CHOOSE i \in at : \A j \in at : j <= i].val

KeysOf(ops) == {ops[i].key : i \in DOMAIN ops}

\* The same for datagrams, one after the other.
ValueAfterAll(datagrams, k, v) ==
    LET at == {i \in DOMAIN datagrams : k \in KeysOf(datagrams[i])}
    IN IF at = {} THEN v
       ELSE ValueAfter(datagrams[CHOOSE i \in at : \A j \in at : j <= i], k, v)

KeysIn(datagrams) == UNION {KeysOf(datagrams[i]) : i \in DOMAIN datagrams}

-----------------------------------------------------------------------------
(* The clients: put, remove and flush, on Node's main thread *)

Call(s, k, v) ==
    /\ unsent[s] = <<>> /\ Len(called[s]) < MaxCalls
    /\ store' = [store EXCEPT ![s][k] = v]
    /\ unsent' = [unsent EXCEPT ![s] = <<[key |-> k, val |-> v]>>]
    /\ called' = [called EXCEPT ![s] = Append(@, [key |-> k, val |-> v])]
    /\ UNCHANGED <<taskVars, net, incoming, diskFaults, netFaults, hurt>>

SendOperation(s) ==
    /\ unsent[s] # <<>>
    /\ queue' = [queue EXCEPT ![s] = @ \o unsent[s]]
    /\ unsent' = [unsent EXCEPT ![s] = <<>>]
    /\ UNCHANGED <<store, batch, permit, log, net, incoming, called, diskFaults,
                   netFaults, hurt>>

Flush(s) ==
    /\ unsent[s] = <<>> /\ ~permit[s]
    /\ permit' = [permit EXCEPT ![s] = TRUE]
    /\ UNCHANGED <<store, unsent, queue, batch, log, net, incoming, called,
                   diskFaults, netFaults, hurt>>

-----------------------------------------------------------------------------
(* The WAL task *)

\* What a failed write of ops can leave behind.
CutShort(ops) ==
    {SubSeq(ops, 1, n) : n \in 0 .. Len(ops) - 1}
    \union {Append(SubSeq(ops, 1, n), Torn) : n \in 0 .. Len(ops) - 1}

WriteLog(s, ops) ==
    \/ /\ log' = [log EXCEPT ![s] = @ \o ops]
       /\ UNCHANGED diskFaults
    \/ /\ diskFaults < MaxDiskFault /\ diskFaults' = diskFaults + 1
       /\ \E rest \in CutShort(ops) : log' = [log EXCEPT ![s] = @ \o rest]

\* Mutant: the batch is not cleared.
WriteAndKeep(s, ops) ==
    /\ WriteLog(s, ops)
    /\ net' = [net EXCEPT ![Peer(s)] = Append(@, ops)]
    /\ batch' = [batch EXCEPT ![s] = ops]

\* Mutant: the batch is logged and not sent.
WriteOnly(s, ops) ==
    /\ WriteLog(s, ops)
    /\ batch' = [batch EXCEPT ![s] = <<>>]
    /\ UNCHANGED net

\* Errors of write_batch are printed, those of send_batch ignored; the batch is
\* cleared whatever happened.
WriteAndSend(s, ops) ==
    /\ WriteLog(s, ops)
    /\ net' = [net EXCEPT ![Peer(s)] = Append(@, ops)]
    /\ batch' = [batch EXCEPT ![s] = <<>>]

\* Mutant: the tick leaves a batch that is not full alone.
TickIfFull(s) ==
    /\ Len(batch[s]) >= BatchSize
    /\ WriteAndSend(s, batch[s])
    /\ UNCHANGED <<store, unsent, queue, permit, incoming, called, netFaults, hurt>>

Tick(s) ==
    /\ batch[s] # <<>>
    /\ WriteAndSend(s, batch[s])
    /\ UNCHANGED <<store, unsent, queue, permit, incoming, called, netFaults, hurt>>

\* select! may take the permit before it has received what was queued earlier.
Flushed(s) ==
    /\ permit[s]
    /\ permit' = [permit EXCEPT ![s] = FALSE]
    /\ IF batch[s] # <<>> THEN WriteAndSend(s, batch[s])
                          ELSE UNCHANGED <<batch, log, net, diskFaults>>
    /\ UNCHANGED <<store, unsent, queue, incoming, called, netFaults, hurt>>

Receive(s) ==
    /\ queue[s] # <<>>
    /\ queue' = [queue EXCEPT ![s] = Tail(@)]
    /\ LET ops == Append(batch[s], Head(queue[s]))
       IN IF Len(ops) >= BatchSize THEN WriteAndSend(s, ops)
          ELSE /\ batch' = [batch EXCEPT ![s] = ops]
               /\ UNCHANGED <<log, net, diskFaults>>
    /\ UNCHANGED <<store, unsent, permit, incoming, called, netFaults, hurt>>

-----------------------------------------------------------------------------
(* The receiver *)

RecvFrom(s) ==
    /\ incoming[s] = <<>> /\ net[s] # <<>>
    /\ incoming' = [incoming EXCEPT ![s] = Head(net[s])]
    /\ net' = [net EXCEPT ![s] = Tail(@)]
    /\ UNCHANGED <<store, unsent, taskVars, called, diskFaults, netFaults, hurt>>

\* Mutant: the operations of a datagram are applied from the last to the first.
ApplyLastFirst(s) ==
    /\ incoming[s] # <<>>
    /\ store' = [store EXCEPT ![s][(incoming[s][Len(incoming[s])]).key] =
                     (incoming[s][Len(incoming[s])]).val]
    /\ incoming' = [incoming EXCEPT ![s] = SubSeq(@, 1, Len(@) - 1)]
    /\ UNCHANGED <<unsent, taskVars, net, called, diskFaults, netFaults, hurt>>

Apply(s) ==
    /\ incoming[s] # <<>>
    /\ store' = [store EXCEPT ![s][Head(incoming[s]).key] = Head(incoming[s]).val]
    /\ incoming' = [incoming EXCEPT ![s] = Tail(@)]
    /\ UNCHANGED <<unsent, taskVars, net, called, diskFaults, netFaults, hurt>>

-----------------------------------------------------------------------------
(* The network (UDP) *)

NetFault(s, datagrams, keys) ==
    /\ netFaults < MaxNetFault /\ netFaults' = netFaults + 1
    /\ net' = [net EXCEPT ![s] = datagrams]
    /\ hurt' = hurt \union keys
    /\ UNCHANGED <<store, unsent, taskVars, incoming, called, diskFaults>>

\* Also a datagram that cannot be sent: too long, for instance.
Lose(s, i) == NetFault(s, RemoveAt(net[s], i), KeysOf(net[s][i]))

\* A second copy arrives behind what is on its way: harmless to keys that no
\* later datagram writes.
Repeat(s, i) ==
    NetFault(s, Append(net[s], net[s][i]),
             KeysOf(net[s][i]) \intersect KeysIn(SubSeq(net[s], i + 1, Len(net[s]))))

\* A datagram arrives before those sent earlier.
Overtake(s, i) ==
    NetFault(s, <<net[s][i]>> \o RemoveAt(net[s], i),
             KeysOf(net[s][i]) \intersect KeysIn(SubSeq(net[s], 1, i - 1)))

-----------------------------------------------------------------------------
Init ==
    /\ store = [s \in Server |-> [k \in Key |-> None]]
    /\ permit = [s \in Server |-> FALSE]
    /\ unsent = [s \in Server |-> <<>>] /\ queue = [s \in Server |-> <<>>]
    /\ batch = [s \in Server |-> <<>>] /\ log = [s \in Server |-> <<>>]
    /\ net = [s \in Server |-> <<>>] /\ incoming = [s \in Server |-> <<>>]
    /\ called = [s \in Server |-> <<>>]
    /\ diskFaults = 0 /\ netFaults = 0 /\ hurt = {}

Client(s) ==
    \/ \E k \in Writes[s] : \E v \in Value \union {None} : Call(s, k, v)
    \/ SendOperation(s)
    \/ Flush(s)

WalTask(s) == Tick(s) \/ Flushed(s) \/ Receive(s)

Receiver(s) == RecvFrom(s) \/ Apply(s)

Network(s) == \E i \in DOMAIN net[s] : Lose(s, i) \/ Repeat(s, i) \/ Overtake(s, i)

Next == \E s \in Server : Client(s) \/ WalTask(s) \/ Receiver(s) \/ Network(s)

Spec == Init /\ [][Next]_vars

\* A call returns; the interval ticks for ever; select! takes a random branch of
\* those that are ready; the receiver loops.  Clients need not call.
Fairness ==
    \A s \in Server :
        /\ WF_vars(SendOperation(s)) /\ WF_vars(Tick(s)) /\ WF_vars(Receive(s))
        /\ WF_vars(RecvFrom(s)) /\ WF_vars(Apply(s))

FairSpec == Spec /\ Fairness

-----------------------------------------------------------------------------
(* Properties *)

TypeOK ==
    /\ store \in [Server -> [Key -> Value \union {None}]]
    /\ unsent \in [Server -> Seq(Op)] /\ queue \in [Server -> Seq(Op)]
    /\ batch \in [Server -> Seq(Op)] /\ log \in [Server -> Seq(Op \union {Torn})]
    /\ permit \in [Server -> BOOLEAN]
    /\ net \in [Server -> Seq(Seq(Op))] /\ incoming \in [Server -> Seq(Op)]
    /\ called \in [Server -> Seq(Op)] /\ hurt \in SUBSET Key
    /\ \A s \in Server : Len(unsent[s]) <= 1 /\ Len(batch[s]) < BatchSize

\* Every operation is in exactly one place and in order, whichever of tick,
\* flush and full batch wrote it, as long as wal.bin could be written.
LoggedOnce ==
    diskFaults = 0 => \A s \in Server :
        called[s] = log[s] \o batch[s] \o queue[s] \o unsent[s]

\* Keys that the clients of one server only write.
WrittenBy(s) == Writes[s] \ Writes[Peer(s)]

\* What key k of server s will be at its peer once everything on its way is there.
ValueAtPeer(s, k) ==
    LET p == Peer(s)
    IN ValueAfter(batch[s] \o queue[s] \o unsent[s], k,
           ValueAfterAll(net[p], k, ValueAfter(incoming[p], k, store[p][k])))

\* A key with one writer that no network fault has touched: the peer is behind,
\* and by exactly what is on its way.  A wal.bin that cannot be written makes no
\* difference.
CatchesUp ==
    \A s \in Server : \A k \in WrittenBy(s) \ hurt :
        ValueAtPeer(s, k) = store[s][k]

\* Replication is "designed around eventual consistency" (README): when clients
\* stop, the servers come to agree on every key that no network fault touched.
Agree == \A k \in Key \ hurt : \A s, p \in Server : store[s][k] = store[p][k]
EventuallyConsistent == <>[]Agree

\* When clients stop, wal.bin comes to hold every operation.
EventuallyLogged == <>[](diskFaults = 0 => log = called)
=============================================================================
