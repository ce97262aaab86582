-------------------------- MODULE ReplicationProofs --------------------------
(***************************************************************************)
(* Proofs about Replication, for any number of keys, values, calls and     *)
(* faults and every batch size: no operation is lost, repeated or          *)
(* reordered between the call and wal.bin, and a peer is behind by exactly *)
(* what is on its way to it.                                               *)
(***************************************************************************)
EXTENDS Replication, SequenceTheorems, WellFoundedInduction, TLAPS

USE ReplicationAssumption, TornIsNoOp

\* What wal.bin is made of.
Record == Op \union {Torn}

Inv == TypeOK /\ LoggedOnce /\ diskFaults \in Nat

-----------------------------------------------------------------------------
(* Sequences *)

\* Sequences of operations are sequences of records.
LEMMA OpsAreRecords == Seq(Op) \subseteq Seq(Record)
BY SeqMonotonic DEF Record

\* A sequence with an element is its first element and the rest.
LEMMA FirstAndRest ==
    ASSUME NEW S, NEW q \in Seq(S), q # <<>>
    PROVE  /\ Head(q) \in S /\ Tail(q) \in Seq(S)
           /\ q = <<Head(q)>> \o Tail(q)
<1>. DEFINE h == Head(q)
<1>1. h \in S /\ Tail(q) \in Seq(S) /\ Len(Tail(q)) = Len(q) - 1
      /\ \A i \in 1 .. Len(Tail(q)) : Tail(q)[i] = q[i + 1]
  BY HeadTailProperties
<1>2. <<h>> \in Seq(S) /\ Len(<<h>>) = 1 /\ <<h>>[1] = h
  BY <1>1
<1>3. <<h>> \o Tail(q) \in Seq(S) /\ Len(<<h>> \o Tail(q)) = Len(q)
  BY <1>1, <1>2, ConcatProperties, LenProperties
<1>4. \A i \in 1 .. Len(q) : (<<h>> \o Tail(q))[i] = q[i]
  BY <1>1, <1>2, ConcatProperties, LenProperties
<1>5. q = <<h>> \o Tail(q)
  BY <1>3, <1>4, SeqEqual
<1> QED
  BY <1>1, <1>5

\* Moving the first of a queue to the end of a batch changes nothing about both.
LEMMA MoveOne ==
    ASSUME NEW S, NEW l \in Seq(S), NEW b \in Seq(S), NEW h \in S, NEW t \in Seq(S)
    PROVE  (l \o (b \o <<h>>)) \o t = (l \o b) \o (<<h>> \o t)
<1>2. <<h>> \in Seq(S)
  OBVIOUS
<1>5. l \o b \in Seq(S)
  BY ConcatProperties
<1>6. l \o (b \o <<h>>) = (l \o b) \o <<h>>
  BY <1>2, ConcatAssociative
<1>7. ((l \o b) \o <<h>>) \o t = (l \o b) \o (<<h>> \o t)
  BY <1>2, <1>5, ConcatAssociative
<1> QED
  BY <1>6, <1>7

\* Moving all that is to be sent to the end of a queue changes nothing about both.
LEMMA MoveAll ==
    ASSUME NEW S, NEW l \in Seq(S), NEW b \in Seq(S), NEW q \in Seq(S), NEW o \in Seq(S)
    PROVE  ((l \o b) \o (q \o o)) \o <<>> = ((l \o b) \o q) \o o
<1>. DEFINE lb == l \o b
<1>1. lb \in Seq(S) /\ q \o o \in Seq(S)
  BY ConcatProperties
<1>. HIDE DEF lb
<1>2. (lb \o q) \o o = lb \o (q \o o)
  BY <1>1, ConcatAssociative, SMTT(40)
<1>3. lb \o (q \o o) \in Seq(S)
  BY <1>1, ConcatProperties
<1>4. (lb \o (q \o o)) \o <<>> = lb \o (q \o o)
  BY <1>3, ConcatEmptySeq
<1> QED
  BY <1>2, <1>4 DEF lb

\* An element is taken out of a sequence.
LEMMA RemovedIsSeq ==
    ASSUME NEW S, NEW q \in Seq(S), NEW i \in DOMAIN q
    PROVE  RemoveAt(q, i) \in Seq(S)
<1>1. DOMAIN q = 1 .. Len(q) /\ Len(q) \in Nat
  BY LenProperties
<1>2. \A j \in 1 .. Len(q) : q[j] \in S
  BY ElementOfSeq
<1>3. SubSeq(q, 1, i - 1) \in Seq(S)
  BY <1>1, <1>2, SubSeqProperties
<1>4. SubSeq(q, i + 1, Len(q)) \in Seq(S)
  BY <1>1, <1>2, SubSeqProperties
<1> QED
  BY <1>3, <1>4, ConcatProperties DEF RemoveAt

\* What a failed write leaves behind is made of records.
LEMMA CutShortIsRecords ==
    ASSUME NEW ops \in Seq(Op), NEW rest \in CutShort(ops)
    PROVE  rest \in Seq(Record)
<1>1. Len(ops) \in Nat /\ \A j \in 1 .. Len(ops) : ops[j] \in Record
  BY LenProperties, ElementOfSeq DEF Record
<1>2. ASSUME NEW n \in 0 .. Len(ops) - 1
      PROVE  SubSeq(ops, 1, n) \in Seq(Record)
  BY <1>1, SubSeqProperties
<1>3. ASSUME NEW n \in 0 .. Len(ops) - 1
      PROVE  Append(SubSeq(ops, 1, n), Torn) \in Seq(Record)
  BY <1>2, AppendProperties DEF Record
<1> QED
  BY <1>2, <1>3 DEF CutShort

-----------------------------------------------------------------------------
(* The WAL task *)

\* Each server has a peer.
LEMMA PeerIsServer == \A s \in Server : Peer(s) \in Server
<1>. TAKE s \in Server
<1>1. \E p \in Server : p # s
  OBVIOUS
<1> QED
  BY <1>1 DEF Peer

\* wal.bin is longer by the operations, or a fault is counted.
LEMMA LogWritten ==
    ASSUME Inv, NEW s \in Server, NEW ops \in Seq(Op), WriteLog(s, ops)
    PROVE  /\ log' \in [Server -> Seq(Record)] /\ diskFaults' \in Nat
           /\ diskFaults' = 0 => diskFaults = 0 /\ log' = [log EXCEPT ![s] = @ \o ops]
<1>1. log \in [Server -> Seq(Record)] /\ ops \in Seq(Record) /\ log[s] \in Seq(Record)
  BY OpsAreRecords DEF Inv, TypeOK, Record
<1>2. CASE log' = [log EXCEPT ![s] = @ \o ops] /\ diskFaults' = diskFaults
  <2>1. log[s] \o ops \in Seq(Record)
    BY <1>1, ConcatProperties
  <2> QED
    BY <1>1, <1>2, <2>1 DEF Inv
<1>3. ASSUME NEW rest \in CutShort(ops), log' = [log EXCEPT ![s] = @ \o rest],
             diskFaults' = diskFaults + 1
      PROVE  log' \in [Server -> Seq(Record)] /\ diskFaults' \in Nat /\ diskFaults' # 0
  <2>1. rest \in Seq(Record)
    BY CutShortIsRecords
  <2>2. log[s] \o rest \in Seq(Record)
    BY <1>1, <2>1, ConcatProperties
  <2> QED
    BY <1>1, <1>3, <2>2 DEF Inv
<1> QED
  BY <1>2, <1>3 DEF WriteLog

\* The batch is in wal.bin and on its way, and the next one is empty.
LEMMA WrittenAndSent ==
    ASSUME Inv, NEW s \in Server, NEW ops \in Seq(Op), WriteAndSend(s, ops)
    PROVE  /\ log' \in [Server -> Seq(Record)] /\ diskFaults' \in Nat
           /\ net' \in [Server -> Seq(Seq(Op))]
           /\ batch' \in [Server -> Seq(Op)]
           /\ \A u \in Server : Len(batch'[u]) < BatchSize
           /\ diskFaults' = 0 =>
                 /\ diskFaults = 0
                 /\ log' = [log EXCEPT ![s] = @ \o ops]
                 /\ batch' = [batch EXCEPT ![s] = <<>>]
<1>1. WriteLog(s, ops)
  BY DEF WriteAndSend
<1>2. net' \in [Server -> Seq(Seq(Op))]
  <2>1. net[Peer(s)] \in Seq(Seq(Op))
    BY PeerIsServer DEF Inv, TypeOK
  <2>2. Append(net[Peer(s)], ops) \in Seq(Seq(Op))
    BY <2>1, AppendProperties
  <2> QED
    BY <2>2 DEF WriteAndSend, Inv, TypeOK
<1>3. batch' \in [Server -> Seq(Op)] /\ \A u \in Server : Len(batch'[u]) < BatchSize
  <2>1. <<>> \in Seq(Op) /\ Len(<<>>) = 0
    BY EmptySeq
  <2>2. PICK none \in Seq(Op) : none = <<>> /\ Len(none) = 0
    BY <2>1
  <2>3. /\ batch \in [Server -> Seq(Op)] /\ \A u \in Server : Len(batch[u]) < BatchSize
        /\ BatchSize \in Nat \ {0} /\ batch' = [batch EXCEPT ![s] = none]
    BY <2>2, ReplicationAssumption DEF WriteAndSend, Inv, TypeOK
  <2> QED
    BY <2>2, <2>3
<1> QED
  BY <1>1, <1>2, <1>3, LogWritten DEF WriteAndSend

\* Where every operation of s is.
InOrder(s) == called[s] = log[s] \o batch[s] \o queue[s] \o unsent[s]

\* What LoggedOnce relates is made of records.
LEMMA AllRecords ==
    ASSUME TypeOK, NEW s \in Server
    PROVE  /\ log[s] \in Seq(Record) /\ batch[s] \in Seq(Record)
           /\ queue[s] \in Seq(Record) /\ unsent[s] \in Seq(Record)
           /\ called[s] \in Seq(Record)
           /\ log[s] \o batch[s] \in Seq(Record)
           /\ (log[s] \o batch[s]) \o queue[s] \in Seq(Record)
<1>1. /\ log[s] \in Seq(Record) /\ batch[s] \in Seq(Record)
      /\ queue[s] \in Seq(Record) /\ unsent[s] \in Seq(Record)
      /\ called[s] \in Seq(Record)
  BY OpsAreRecords DEF TypeOK, Record
<1>2. log[s] \o batch[s] \in Seq(Record)
  BY <1>1, ConcatProperties
<1> QED
  BY <1>1, <1>2, ConcatProperties

\* Writing a batch that the WAL task has, as tick and flush do.
LEMMA BatchWritten ==
    ASSUME Inv, NEW s \in Server, WriteAndSend(s, batch[s]),
           UNCHANGED <<store, unsent, queue, incoming, called, hurt>>,
           permit' \in [Server -> BOOLEAN]
    PROVE  Inv'
<1>1. batch[s] \in Seq(Op)
  BY DEF Inv, TypeOK
<1>2. TypeOK' /\ diskFaults' \in Nat
  BY <1>1, WrittenAndSent DEF Inv, TypeOK, Record
<1>3. ASSUME diskFaults' = 0, NEW u \in Server
      PROVE  InOrder(u)'
  <2>1. diskFaults = 0 /\ log' = [log EXCEPT ![s] = @ \o batch[s]]
        /\ batch' = [batch EXCEPT ![s] = <<>>]
    BY <1>1, <1>3, WrittenAndSent
  <2>2. InOrder(u)
    BY <2>1 DEF Inv, LoggedOnce, InOrder
  <2>3. CASE u = s
    <3>1. log'[s] = log[s] \o batch[s] /\ batch'[s] = <<>>
      BY <2>1 DEF Inv, TypeOK
    <3>2. (log[s] \o batch[s]) \o <<>> = log[s] \o batch[s]
      BY AllRecords, ConcatEmptySeq DEF Inv
    <3> QED
      BY <2>2, <2>3, <3>1, <3>2 DEF InOrder
  <2>4. CASE u # s
    BY <2>1, <2>2, <2>4 DEF InOrder, Inv, TypeOK
  <2> QED
    BY <2>3, <2>4
<1> QED
  BY <1>2, <1>3 DEF Inv, LoggedOnce, InOrder

\* A step that moves no operation between the client and wal.bin.
LEMMA NothingMoves ==
    ASSUME Inv, TypeOK', UNCHANGED <<called, log, batch, queue, unsent, diskFaults>>
    PROVE  Inv'
BY DEF Inv, LoggedOnce

-----------------------------------------------------------------------------
(* One lemma per action *)

\* put or remove changes the store and has the operation in hand.
LEMMA CallKeeps ==
    ASSUME Inv, NEW s \in Server, NEW k \in Writes[s], NEW v \in Value \union {None},
           Call(s, k, v)
    PROVE  Inv'
<1>. DEFINE op == [key |-> k, val |-> v]
<1>1. k \in Key
  OBVIOUS
<1>2. op \in Op
  BY <1>1 DEF Op
<1>3. <<op>> \in Seq(Op) /\ Len(<<op>>) = 1 /\ Append(called[s], op) \in Seq(Op)
  BY <1>2, AppendProperties DEF Inv, TypeOK
<1>. HIDE DEF op
<1>4. TypeOK'
  <2>1. store' \in [Server -> [Key -> Value \union {None}]]
    BY <1>1 DEF Call, Inv, TypeOK
  <2>2. /\ unsent' \in [Server -> Seq(Op)] /\ called' \in [Server -> Seq(Op)]
        /\ \A u \in Server : Len(unsent'[u]) <= 1
    <3>1. /\ unsent' = [unsent EXCEPT ![s] = <<op>>]
          /\ called' = [called EXCEPT ![s] = Append(called[s], op)]
      BY DEF Call, op
    <3>2. /\ unsent \in [Server -> Seq(Op)] /\ called \in [Server -> Seq(Op)]
          /\ \A u \in Server : Len(unsent[u]) <= 1
      BY DEF Inv, TypeOK
    <3>3. \A u \in Server : unsent'[u] = IF u = s THEN <<op>> ELSE unsent[u]
      BY <3>1, <3>2
    <3>4. \A u \in Server : Len(unsent'[u]) <= 1
      <4>. TAKE u \in Server
      <4>1. CASE u = s
        <5>1. Len(unsent'[u]) = 1
          BY <1>3, <3>3, <4>1, Zenon
        <5> QED
          BY <5>1
      <4>2. CASE u # s
        BY <3>2, <3>3, <4>2
      <4> QED
        BY <4>1, <4>2
    <3> QED
      BY <1>3, <3>1, <3>2, <3>4
  <2> QED
    BY <2>1, <2>2 DEF Call, Inv, TypeOK, taskVars
<1>5. ASSUME diskFaults' = 0, NEW u \in Server
      PROVE  InOrder(u)'
  <2>1. InOrder(u) /\ UNCHANGED <<log, batch, queue>>
    BY <1>5 DEF Call, Inv, LoggedOnce, InOrder, taskVars
  <2>2. CASE u # s
    BY <2>1, <2>2 DEF Call, InOrder, Inv, TypeOK
  <2>3. CASE u = s
    <3>1. unsent[s] = <<>> /\ unsent'[s] = <<op>> /\ called'[s] = Append(called[s], op)
      BY DEF Call, Inv, TypeOK, op
    <3>2. called[s] = log[s] \o batch[s] \o queue[s]
      BY <2>1, <2>3, <3>1, AllRecords, ConcatEmptySeq DEF InOrder, Inv
    <3>3. Append(called[s], op) = called[s] \o <<op>>
      BY <1>2, AppendIsConcat DEF Inv, TypeOK
    <3> QED
      BY <2>1, <2>3, <3>1, <3>2, <3>3 DEF InOrder
  <2> QED
    BY <2>2, <2>3
<1>6. diskFaults' \in Nat
  BY DEF Call, Inv
<1> QED
  BY <1>4, <1>5, <1>6 DEF Inv, LoggedOnce, InOrder

\* It queues the operation.
LEMMA SendOperationKeeps ==
    ASSUME Inv, NEW s \in Server, SendOperation(s)
    PROVE  Inv'
<1>1. queue[s] \in Seq(Op) /\ unsent[s] \in Seq(Op)
  BY DEF Inv, TypeOK
<1>2. queue[s] \o unsent[s] \in Seq(Op) /\ <<>> \in Seq(Op) /\ Len(<<>>) = 0
  BY <1>1, ConcatProperties, EmptySeq
<1>3. TypeOK'
  <2>. DEFINE m == queue[s] \o unsent[s]
              e == <<>>
  <2>1. m \in Seq(Op) /\ e \in Seq(Op) /\ Len(e) = 0
    BY <1>2
  <2>2. /\ queue' = [queue EXCEPT ![s] = m] /\ unsent' = [unsent EXCEPT ![s] = e]
        /\ UNCHANGED <<store, batch, permit, log, net, incoming, called, diskFaults,
                       netFaults, hurt>>
    BY DEF SendOperation
  <2>. HIDE DEF m, e
  <2>3. queue' \in [Server -> Seq(Op)] /\ unsent' \in [Server -> Seq(Op)]
    BY <2>1, <2>2 DEF Inv, TypeOK
  <2>4. \A u \in Server : Len(unsent'[u]) <= 1
    <3>1. unsent \in [Server -> Seq(Op)] /\ \A u \in Server : Len(unsent[u]) <= 1
      BY DEF Inv, TypeOK
    <3> QED
      BY <2>1, <2>2, <3>1
  <2> QED
    BY <2>2, <2>3, <2>4 DEF Inv, TypeOK
<1>4. ASSUME diskFaults' = 0, NEW u \in Server
      PROVE  InOrder(u)'
  <2>1. InOrder(u) /\ UNCHANGED <<log, batch, called>>
    BY <1>4 DEF SendOperation, Inv, LoggedOnce, InOrder
  <2>2. CASE u # s
    BY <2>1, <2>2 DEF SendOperation, InOrder, Inv, TypeOK
  <2>3. CASE u = s
    <3>1. queue'[s] = queue[s] \o unsent[s] /\ unsent'[s] = <<>>
      BY DEF SendOperation, Inv, TypeOK
    <3>2. PICK l, b, q, o : l = log[s] /\ b = batch[s] /\ q = queue[s] /\ o = unsent[s]
      OBVIOUS
    <3>3. /\ l \in Seq(Record) /\ b \in Seq(Record)
          /\ q \in Seq(Record) /\ o \in Seq(Record)
      BY <3>2, AllRecords DEF Inv
    <3>4. ((l \o b) \o (q \o o)) \o <<>> = ((l \o b) \o q) \o o
      BY <3>3, MoveAll, SMTT(40)
    <3>5. called[s] = ((l \o b) \o q) \o o
      BY <2>1, <2>3, <3>2 DEF InOrder
    <3> QED
      BY <2>1, <2>3, <3>1, <3>2, <3>4, <3>5 DEF InOrder
  <2> QED
    BY <2>2, <2>3
<1>5. diskFaults' \in Nat
  BY DEF SendOperation, Inv
<1> QED
  BY <1>3, <1>4, <1>5 DEF Inv, LoggedOnce, InOrder

\* The WAL task takes an operation from the channel.
LEMMA ReceiveKeeps ==
    ASSUME Inv, NEW s \in Server, Receive(s)
    PROVE  Inv'
<1>. DEFINE ops == Append(batch[s], Head(queue[s]))
<1>1. queue[s] \in Seq(Op) /\ queue[s] # <<>> /\ batch[s] \in Seq(Op)
  BY DEF Receive, Inv, TypeOK
<1>2. Head(queue[s]) \in Op /\ Tail(queue[s]) \in Seq(Op)
  BY <1>1, HeadTailProperties
<1>3. ops \in Seq(Op) /\ Len(ops) \in Nat
  BY <1>1, <1>2, AppendProperties, LenProperties
<1>4. queue' = [queue EXCEPT ![s] = Tail(queue[s])] /\ queue' \in [Server -> Seq(Op)]
  BY <1>2 DEF Receive, Inv, TypeOK
<1>5. \/ WriteAndSend(s, ops)
      \/ /\ Len(ops) < BatchSize /\ batch' = [batch EXCEPT ![s] = ops]
         /\ UNCHANGED <<log, net, diskFaults>>
  BY <1>3 DEF Receive
<1>6. UNCHANGED <<store, unsent, permit, incoming, called, netFaults, hurt>>
  BY DEF Receive
<1>7. (log[s] \o ops) \o Tail(queue[s]) = (log[s] \o batch[s]) \o queue[s]
  <2>1. /\ log[s] \in Seq(Record) /\ batch[s] \in Seq(Record)
        /\ queue[s] \in Seq(Record) /\ queue[s] # <<>>
    BY <1>1, AllRecords DEF Inv
  <2>2. queue[s] = <<Head(queue[s])>> \o Tail(queue[s])
    BY <2>1, FirstAndRest
  <2>3. PICK l, b, h, t : /\ l = log[s] /\ b = batch[s]
                          /\ h = Head(queue[s]) /\ t = Tail(queue[s])
    OBVIOUS
  <2>4. l \in Seq(Record) /\ b \in Seq(Record) /\ h \in Record /\ t \in Seq(Record)
    BY <2>1, <2>3, FirstAndRest
  <2>5. (l \o (b \o <<h>>)) \o t = (l \o b) \o (<<h>> \o t)
    BY <2>4, MoveOne, SMTT(40)
  <2>6. Append(b, h) = b \o <<h>>
    BY <2>4, AppendIsConcat
  <2> QED
    BY <2>2, <2>3, <2>5, <2>6
<1>8. log[s] \o ops \in Seq(Record) /\ (log[s] \o ops) \o <<>> = log[s] \o ops
  <2>1. log[s] \in Seq(Record) /\ ops \in Seq(Record)
    BY <1>3, AllRecords, OpsAreRecords DEF Inv
  <2> QED
    BY <2>1, ConcatProperties, ConcatEmptySeq
<1>. HIDE DEF ops
<1>9. CASE WriteAndSend(s, ops)
  <2>1. TypeOK' /\ diskFaults' \in Nat
    BY <1>3, <1>4, <1>6, <1>9, WrittenAndSent DEF Inv, TypeOK, Record
  <2>2. ASSUME diskFaults' = 0, NEW u \in Server
        PROVE  InOrder(u)'
    <3>1. diskFaults = 0 /\ log' = [log EXCEPT ![s] = @ \o ops]
          /\ batch' = [batch EXCEPT ![s] = <<>>]
      BY <1>3, <1>9, <2>2, WrittenAndSent
    <3>2. InOrder(u)
      BY <3>1 DEF Inv, LoggedOnce, InOrder
    <3>3. CASE u = s
      <4>1. log'[s] = log[s] \o ops /\ batch'[s] = <<>> /\ queue'[s] = Tail(queue[s])
        BY <1>4, <3>1 DEF Inv, TypeOK
      <4> QED
        BY <1>6, <1>7, <1>8, <3>2, <3>3, <4>1 DEF InOrder
    <3>4. CASE u # s
      BY <1>4, <1>6, <3>1, <3>2, <3>4 DEF InOrder, Inv, TypeOK
    <3> QED
      BY <3>3, <3>4
  <2> QED
    BY <2>1, <2>2 DEF Inv, LoggedOnce, InOrder
<1>10. CASE /\ Len(ops) < BatchSize /\ batch' = [batch EXCEPT ![s] = ops]
            /\ UNCHANGED <<log, net, diskFaults>>
  <2>1. TypeOK' /\ diskFaults' \in Nat
    BY <1>3, <1>4, <1>6, <1>10 DEF Inv, TypeOK
  <2>2. ASSUME diskFaults' = 0, NEW u \in Server
        PROVE  InOrder(u)'
    <3>1. InOrder(u)
      BY <1>10, <2>2 DEF Inv, LoggedOnce, InOrder
    <3>2. CASE u = s
      <4>1. log'[s] = log[s] /\ batch'[s] = ops /\ queue'[s] = Tail(queue[s])
        BY <1>4, <1>10 DEF Inv, TypeOK
      <4> QED
        BY <1>6, <1>7, <3>1, <3>2, <4>1 DEF InOrder
    <3>3. CASE u # s
      BY <1>4, <1>6, <1>10, <3>1, <3>3 DEF InOrder, Inv, TypeOK
    <3> QED
      BY <3>2, <3>3
  <2> QED
    BY <2>1, <2>2 DEF Inv, LoggedOnce, InOrder
<1> QED
  BY <1>5, <1>9, <1>10

\* Tick, flush, and the flush that finds an empty batch.
LEMMA TickKeeps ==
    ASSUME Inv, NEW s \in Server, Tick(s) \/ Flushed(s) \/ Flush(s)
    PROVE  Inv'
<1>1. CASE Tick(s)
  BY <1>1, BatchWritten DEF Tick, Inv, TypeOK
<1>2. CASE Flushed(s)
  <2>1. permit' \in [Server -> BOOLEAN]
    BY <1>2 DEF Flushed, Inv, TypeOK
  <2>2. CASE batch[s] # <<>>
    BY <1>2, <2>1, <2>2, BatchWritten DEF Flushed
  <2>3. CASE batch[s] = <<>>
    <3>1. TypeOK'
      BY <1>2, <2>1, <2>3 DEF Flushed, Inv, TypeOK
    <3> QED
      BY <1>2, <2>3, <3>1, NothingMoves DEF Flushed
  <2> QED
    BY <2>2, <2>3
<1>3. CASE Flush(s)
  <2>1. TypeOK'
    BY <1>3 DEF Flush, Inv, TypeOK
  <2> QED
    BY <1>3, <2>1, NothingMoves DEF Flush
<1> QED
  BY <1>1, <1>2, <1>3

\* The receiver takes a datagram, or applies one of its operations.
LEMMA ReceiverKeeps ==
    ASSUME Inv, NEW s \in Server, Receiver(s)
    PROVE  Inv'
<1>1. CASE RecvFrom(s)
  <2>1. net[s] \in Seq(Seq(Op)) /\ net[s] # <<>>
    BY <1>1 DEF RecvFrom, Inv, TypeOK
  <2>2. Head(net[s]) \in Seq(Op) /\ Tail(net[s]) \in Seq(Seq(Op))
    BY <2>1, HeadTailProperties
  <2>3. TypeOK'
    BY <1>1, <2>2 DEF RecvFrom, Inv, TypeOK, taskVars
  <2> QED
    BY <1>1, <2>3, NothingMoves DEF RecvFrom, taskVars
<1>2. CASE Apply(s)
  <2>1. incoming[s] \in Seq(Op) /\ incoming[s] # <<>>
    BY <1>2 DEF Apply, Inv, TypeOK
  <2>2. Head(incoming[s]) \in Op /\ Tail(incoming[s]) \in Seq(Op)
    BY <2>1, HeadTailProperties
  <2>3. Head(incoming[s]).key \in Key /\ Head(incoming[s]).val \in Value \union {None}
    BY <2>2 DEF Op
  <2>4. store' \in [Server -> [Key -> Value \union {None}]]
    BY <1>2, <2>3 DEF Apply, Inv, TypeOK
  <2>5. TypeOK'
    BY <1>2, <2>2, <2>4 DEF Apply, Inv, TypeOK, taskVars
  <2> QED
    BY <1>2, <2>5, NothingMoves DEF Apply, taskVars
<1> QED
  BY <1>1, <1>2 DEF Receiver

\* The network loses, repeats or reorders datagrams.
LEMMA NetworkKeeps ==
    ASSUME Inv, NEW s \in Server, NEW i \in DOMAIN net[s],
           Lose(s, i) \/ Repeat(s, i) \/ Overtake(s, i)
    PROVE  Inv'
<1>1. net[s] \in Seq(Seq(Op)) /\ net[s][i] \in Seq(Op)
  BY ElementOfSeq, LenProperties DEF Inv, TypeOK
<1>2. KeysOf(net[s][i]) \subseteq Key
  <2>1. \A j \in DOMAIN net[s][i] : net[s][i][j] \in Op
    BY <1>1, ElementOfSeq, LenProperties
  <2> QED
    BY <2>1 DEF KeysOf, Op
<1>3. RemoveAt(net[s], i) \in Seq(Seq(Op))
  BY <1>1, RemovedIsSeq
<1>4. Append(net[s], net[s][i]) \in Seq(Seq(Op))
  BY <1>1, AppendProperties
<1>5. <<net[s][i]>> \o RemoveAt(net[s], i) \in Seq(Seq(Op))
  <2>1. <<net[s][i]>> \in Seq(Seq(Op))
    BY <1>1
  <2> QED
    BY <1>3, <2>1, ConcatProperties
<1>6. \E datagrams \in Seq(Seq(Op)) : \E keys \in SUBSET Key : NetFault(s, datagrams, keys)
  BY <1>2, <1>3, <1>4, <1>5 DEF Lose, Repeat, Overtake
<1>7. TypeOK'
  <2>1. PICK datagrams \in Seq(Seq(Op)), keys \in SUBSET Key : NetFault(s, datagrams, keys)
    BY <1>6
  <2>2. net' \in [Server -> Seq(Seq(Op))] /\ hurt' \in SUBSET Key
    BY <2>1 DEF NetFault, Inv, TypeOK
  <2> QED
    BY <2>1, <2>2 DEF NetFault, Inv, TypeOK, taskVars
<1> QED
  BY <1>6, <1>7, NothingMoves DEF NetFault, taskVars

-----------------------------------------------------------------------------
(* The theorems about wal.bin *)

\* Nothing has been called.
LEMMA InitInv == Init => Inv
<1>1. <<>> \in Seq(Op) /\ <<>> \in Seq(Record) /\ <<>> \in Seq(Seq(Op)) /\ Len(<<>>) = 0
  BY EmptySeq
<1>2. <<>> \o <<>> = <<>>
  BY ConcatEmptySeq, EmptySeq
<1>3. ASSUME Init
      PROVE  TypeOK
  BY <1>1, <1>3 DEF Init, TypeOK, Record
<1>4. ASSUME Init
      PROVE  LoggedOnce
  BY <1>2, <1>4 DEF Init, LoggedOnce
<1> QED
  BY <1>3, <1>4 DEF Init, Inv

\* Types, and the order of operations, hold in every reachable state.
THEOREM Invariance == Spec => []Inv
<1>1. Init => Inv
  BY InitInv
<1>2. Inv /\ [Next]_vars => Inv'
  <2>. SUFFICES ASSUME Inv, [Next]_vars
                PROVE  Inv'
    OBVIOUS
  <2>1. ASSUME NEW s \in Server, Client(s)
        PROVE  Inv'
    BY <2>1, CallKeeps, SendOperationKeeps, TickKeeps DEF Client
  <2>2. ASSUME NEW s \in Server, WalTask(s)
        PROVE  Inv'
    BY <2>2, TickKeeps, ReceiveKeeps DEF WalTask
  <2>3. ASSUME NEW s \in Server, Receiver(s)
        PROVE  Inv'
    BY <2>3, ReceiverKeeps
  <2>4. ASSUME NEW s \in Server, Network(s)
        PROVE  Inv'
    BY <2>4, NetworkKeeps DEF Network
  <2>5. CASE UNCHANGED vars
    BY <2>5 DEF vars, taskVars, Inv, TypeOK, LoggedOnce
  <2> QED
    BY <2>1, <2>2, <2>3, <2>4, <2>5 DEF Next
<1> QED
  BY <1>1, <1>2, PTL DEF Spec

\* put, remove, the WAL task, the receiver and a faulty network keep every variable
\* within its type, and a batch never stays full.
THEOREM TypeCorrect == Spec => []TypeOK
<1>1. Inv => TypeOK
  BY DEF Inv
<1> QED
  BY <1>1, Invariance, PTL

\* Channel, batch and wal.bin hold every operation once and in the order of the calls,
\* whether a tick, a flush or a full batch wrote it, as long as wal.bin can be written.
THEOREM LoggedExactlyOnce == Spec => []LoggedOnce
<1>1. Inv => LoggedOnce
  BY DEF Inv
<1> QED
  BY <1>1, Invariance, PTL

-----------------------------------------------------------------------------
(* The last operation on a key *)

\* A set of positions has a last one.
LEMMA LastPosition ==
    ASSUME NEW n \in Nat, NEW T \in SUBSET (1 .. n), T # {}
    PROVE  \E m \in T : \A x \in T : x <= m
<1>. DEFINE Below == {n - x : x \in T}
<1>1. Below \subseteq Nat /\ Below # {}
  <2>1. \A x \in T : n - x \in Nat
    OBVIOUS
  <2>2. PICK x \in T : TRUE
    OBVIOUS
  <2>3. n - x \in Below
    BY <2>2
  <2> QED
    BY <2>1, <2>3
<1>. HIDE DEF Below
<1>2. PICK d \in Below : \A y \in Below : ~ (<<y, d>> \in OpToRel(<, Nat))
  BY <1>1, WFMin, NatLessThanWellFounded
<1>3. ASSUME NEW y \in Below PROVE d <= y
  <2>1. d \in Nat /\ y \in Nat
    BY <1>1
  <2>2. y < d => <<y, d>> \in {ss \in Nat \X Nat : ss[1] < ss[2]}
    BY <2>1
  <2>3. ~ (y < d)
    BY <1>2, <2>2 DEF OpToRel
  <2> QED
    BY <2>1, <2>3
<1>4. PICK m \in T : d = n - m
  BY DEF Below
<1>5. \A x \in T : n - m <= n - x
  BY <1>3, <1>4 DEF Below
<1> QED
  BY <1>4, <1>5

\* Operation i is the last one on k.
IsLast(ops, k, i) ==
    /\ i \in 1 .. Len(ops) /\ ops[i].key = k
    /\ \A j \in 1 .. Len(ops) : i < j => ops[j].key # k

\* The value after operations is that of the last on the key.
LEMMA AfterLast ==
    ASSUME NEW ops \in Seq(Op), NEW k, NEW v, NEW i, IsLast(ops, k, i)
    PROVE  ValueAfter(ops, k, v) = ops[i].val
<1>. DEFINE at == {j \in DOMAIN ops : ops[j].key = k}
<1>1. DOMAIN ops = 1 .. Len(ops) /\ Len(ops) \in Nat
  BY LenProperties
<1>2. i \in at /\ \A j \in at : j <= i
  BY <1>1 DEF IsLast
<1>3. \A m \in at : (\A j \in at : j <= m) => m = i
  BY <1>1, <1>2
<1>4. i = CHOOSE m \in at : \A j \in at : j <= m
  BY <1>2, <1>3
<1> QED
  BY <1>2, <1>4 DEF ValueAfter

\* Operations on other keys leave the value as it was.
LEMMA AfterAbsent ==
    ASSUME NEW ops, NEW k, NEW v, k \notin KeysOf(ops)
    PROVE  ValueAfter(ops, k, v) = v
BY DEF ValueAfter, KeysOf

\* A key that is written is written a last time.
LEMMA HasLast ==
    ASSUME NEW ops \in Seq(Op), NEW k \in KeysOf(ops)
    PROVE  \E i \in 1 .. Len(ops) : IsLast(ops, k, i)
<1>. DEFINE at == {i \in 1 .. Len(ops) : ops[i].key = k}
<1>1. DOMAIN ops = 1 .. Len(ops) /\ Len(ops) \in Nat
  BY LenProperties
<1>2. at # {} /\ at \in SUBSET (1 .. Len(ops))
  BY <1>1 DEF KeysOf
<1>3. PICK m \in at : \A x \in at : x <= m
  BY <1>1, <1>2, LastPosition
<1> QED
  BY <1>1, <1>3 DEF IsLast

\* An operation decides about its key, whatever the value was.
LEMMA AfterPresent ==
    ASSUME NEW ops \in Seq(Op), NEW k \in KeysOf(ops), NEW v, NEW w
    PROVE  ValueAfter(ops, k, v) = ValueAfter(ops, k, w)
<1>1. PICK i \in 1 .. Len(ops) : IsLast(ops, k, i)
  BY HasLast
<1>2. ValueAfter(ops, k, v) = ops[i].val
  BY <1>1, AfterLast
<1>3. ValueAfter(ops, k, w) = ops[i].val
  BY <1>1, AfterLast
<1> QED
  BY <1>2, <1>3

\* Operations in two parts, one part after the other.
LEMMA AfterBoth ==
    ASSUME NEW p \in Seq(Op), NEW q \in Seq(Op), NEW k, NEW v
    PROVE  ValueAfter(p \o q, k, v) = ValueAfter(q, k, ValueAfter(p, k, v))
<1>. DEFINE w == ValueAfter(p, k, v)
            pq == p \o q
<1>1. /\ Len(p) \in Nat /\ Len(q) \in Nat
      /\ pq \in Seq(Op) /\ Len(pq) = Len(p) + Len(q)
      /\ \A i \in 1 .. Len(p) + Len(q) :
             pq[i] = IF i <= Len(p) THEN p[i] ELSE q[i - Len(p)]
  BY LenProperties, ConcatProperties
<1>. SUFFICES ValueAfter(pq, k, v) = ValueAfter(q, k, w)
  OBVIOUS
<1>. HIDE DEF pq
<1>2. CASE k \in KeysOf(q)
  <2>1. PICK i \in 1 .. Len(q) : IsLast(q, k, i)
    BY <1>2, HasLast
  <2>2. IsLast(pq, k, Len(p) + i) /\ pq[Len(p) + i] = q[i]
    <3>1. i \in 1 .. Len(q) /\ q[i].key = k
      BY <2>1 DEF IsLast
    <3>2. Len(p) + i \in 1 .. Len(p) + Len(q) /\ ~ (Len(p) + i <= Len(p))
          /\ (Len(p) + i) - Len(p) = i
      BY <1>1, <3>1
    <3>3. pq[Len(p) + i] = q[i]
      BY <1>1, <3>2
    <3>4. ASSUME NEW j \in 1 .. Len(p) + Len(q), Len(p) + i < j
          PROVE  pq[j].key # k
      <4>1. j - Len(p) \in 1 .. Len(q) /\ i < j - Len(p) /\ ~ (j <= Len(p))
        BY <1>1, <3>1, <3>4
      <4>2. q[j - Len(p)].key # k
        BY <2>1, <4>1 DEF IsLast
      <4> QED
        BY <1>1, <4>1, <4>2
    <3> QED
      BY <1>1, <3>1, <3>2, <3>3, <3>4 DEF IsLast
  <2>3. ValueAfter(pq, k, v) = pq[Len(p) + i].val
    BY <1>1, <2>2, AfterLast
  <2>4. ValueAfter(q, k, w) = q[i].val
    BY <2>1, AfterLast
  <2> QED
    BY <2>2, <2>3, <2>4
<1>3. CASE k \notin KeysOf(q) /\ k \in KeysOf(p)
  <2>1. PICK i \in 1 .. Len(p) : IsLast(p, k, i)
    BY <1>3, HasLast
  <2>2. IsLast(pq, k, i) /\ pq[i] = p[i]
    <3>1. i \in 1 .. Len(p) /\ p[i].key = k
      BY <2>1 DEF IsLast
    <3>2. i \in 1 .. Len(p) + Len(q) /\ pq[i] = p[i]
      BY <1>1, <3>1
    <3>3. ASSUME NEW j \in 1 .. Len(p) + Len(q), i < j
          PROVE  pq[j].key # k
      <4>1. CASE j <= Len(p)
        <5>1. j \in 1 .. Len(p) /\ pq[j] = p[j]
          BY <1>1, <4>1
        <5> QED
          BY <2>1, <3>3, <5>1 DEF IsLast
      <4>2. CASE ~ (j <= Len(p))
        <5>1. j - Len(p) \in 1 .. Len(q) /\ pq[j] = q[j - Len(p)]
          BY <1>1, <4>2
        <5>2. DOMAIN q = 1 .. Len(q)
          BY LenProperties
        <5> QED
          BY <1>3, <5>1, <5>2 DEF KeysOf
      <4> QED
        BY <4>1, <4>2
    <3> QED
      BY <1>1, <3>1, <3>2, <3>3 DEF IsLast
  <2>3. ValueAfter(pq, k, v) = pq[i].val
    BY <1>1, <2>2, AfterLast
  <2>4. w = p[i].val
    BY <2>1, AfterLast
  <2>5. ValueAfter(q, k, w) = w
    BY <1>3, AfterAbsent
  <2> QED
    BY <2>2, <2>3, <2>4, <2>5
<1>4. CASE k \notin KeysOf(q) /\ k \notin KeysOf(p)
  <2>1. k \notin KeysOf(pq)
    <3>1. DOMAIN p = 1 .. Len(p) /\ DOMAIN q = 1 .. Len(q)
          /\ DOMAIN pq = 1 .. Len(p) + Len(q)
      BY <1>1, LenProperties
    <3>2. ASSUME NEW j \in 1 .. Len(p) + Len(q)
          PROVE  pq[j].key # k
      <4>1. CASE j <= Len(p)
        <5>1. j \in 1 .. Len(p) /\ pq[j] = p[j]
          BY <1>1, <4>1
        <5> QED
          BY <1>4, <3>1, <5>1 DEF KeysOf
      <4>2. CASE ~ (j <= Len(p))
        <5>1. j - Len(p) \in 1 .. Len(q) /\ pq[j] = q[j - Len(p)]
          BY <1>1, <4>2
        <5> QED
          BY <1>4, <3>1, <5>1 DEF KeysOf
      <4> QED
        BY <4>1, <4>2
    <3> QED
      BY <3>1, <3>2 DEF KeysOf
  <2>2. ValueAfter(pq, k, v) = v
    BY <2>1, AfterAbsent
  <2>3. w = v
    BY <1>4, AfterAbsent
  <2>4. ValueAfter(q, k, w) = w
    BY <1>4, AfterAbsent
  <2> QED
    BY <2>2, <2>3, <2>4
<1> QED
  BY <1>2, <1>3, <1>4

\* One operation.
LEMMA AfterOne ==
    ASSUME NEW o \in Op, NEW k, NEW v
    PROVE  ValueAfter(<<o>>, k, v) = IF o.key = k THEN o.val ELSE v
<1>1. <<o>> \in Seq(Op) /\ Len(<<o>>) = 1 /\ <<o>>[1] = o /\ DOMAIN <<o>> = {1}
  OBVIOUS
<1>2. CASE o.key = k
  <2>1. IsLast(<<o>>, k, 1)
    BY <1>1, <1>2 DEF IsLast
  <2> QED
    BY <1>1, <1>2, <2>1, AfterLast
<1>3. CASE o.key # k
  <2>1. k \notin KeysOf(<<o>>)
    BY <1>1, <1>3 DEF KeysOf
  <2> QED
    BY <1>3, <2>1, AfterAbsent
<1> QED
  BY <1>2, <1>3

-----------------------------------------------------------------------------
(* The last datagram with an operation on a key *)

\* Datagram i is the last one that writes k.
IsLastDatagram(ds, k, i) ==
    /\ i \in 1 .. Len(ds) /\ k \in KeysOf(ds[i])
    /\ \A j \in 1 .. Len(ds) : i < j => k \notin KeysOf(ds[j])

\* The value after datagrams is the value after the last that writes the key.
LEMMA AllLast ==
    ASSUME NEW ds \in Seq(Seq(Op)), NEW k, NEW v, NEW i, IsLastDatagram(ds, k, i)
    PROVE  ValueAfterAll(ds, k, v) = ValueAfter(ds[i], k, v)
<1>. DEFINE at == {j \in DOMAIN ds : k \in KeysOf(ds[j])}
<1>1. DOMAIN ds = 1 .. Len(ds) /\ Len(ds) \in Nat
  BY LenProperties
<1>2. i \in at /\ \A j \in at : j <= i
  BY <1>1 DEF IsLastDatagram
<1>3. \A m \in at : (\A j \in at : j <= m) => m = i
  BY <1>1, <1>2
<1>4. i = CHOOSE m \in at : \A j \in at : j <= m
  BY <1>2, <1>3
<1> QED
  BY <1>2, <1>4 DEF ValueAfterAll

\* Datagrams that do not write the key leave the value as it was.
LEMMA AllAbsent ==
    ASSUME NEW ds, NEW k, NEW v, k \notin KeysIn(ds)
    PROVE  ValueAfterAll(ds, k, v) = v
BY DEF ValueAfterAll, KeysIn

\* A key that datagrams write is written by a last one.
LEMMA HasLastDatagram ==
    ASSUME NEW ds \in Seq(Seq(Op)), NEW k \in KeysIn(ds)
    PROVE  \E i \in 1 .. Len(ds) : IsLastDatagram(ds, k, i)
<1>. DEFINE at == {i \in 1 .. Len(ds) : k \in KeysOf(ds[i])}
<1>1. DOMAIN ds = 1 .. Len(ds) /\ Len(ds) \in Nat
  BY LenProperties
<1>2. at # {} /\ at \in SUBSET (1 .. Len(ds))
  BY <1>1 DEF KeysIn
<1>3. PICK m \in at : \A x \in at : x <= m
  BY <1>1, <1>2, LastPosition
<1> QED
  BY <1>1, <1>3 DEF IsLastDatagram

\* Datagrams in two parts, one part after the other.
LEMMA AllBoth ==
    ASSUME NEW p \in Seq(Seq(Op)), NEW q \in Seq(Seq(Op)), NEW k, NEW v
    PROVE  ValueAfterAll(p \o q, k, v) = ValueAfterAll(q, k, ValueAfterAll(p, k, v))
<1>. DEFINE w == ValueAfterAll(p, k, v)
            pq == p \o q
<1>1. /\ Len(p) \in Nat /\ Len(q) \in Nat
      /\ pq \in Seq(Seq(Op)) /\ Len(pq) = Len(p) + Len(q)
      /\ \A i \in 1 .. Len(p) + Len(q) :
             pq[i] = IF i <= Len(p) THEN p[i] ELSE q[i - Len(p)]
      /\ DOMAIN p = 1 .. Len(p) /\ DOMAIN q = 1 .. Len(q)
  BY LenProperties, ConcatProperties
<1>. SUFFICES ValueAfterAll(pq, k, v) = ValueAfterAll(q, k, w)
  OBVIOUS
<1>. HIDE DEF pq, w
<1>5. pq \in Seq(Seq(Op))
  BY <1>1
<1>6. Len(p) \in Nat /\ Len(q) \in Nat
  BY <1>1
<1>2. CASE k \in KeysIn(q)
  <2>1. PICK i \in 1 .. Len(q) : IsLastDatagram(q, k, i)
    BY <1>2, HasLastDatagram
  <2>2. IsLastDatagram(pq, k, Len(p) + i) /\ pq[Len(p) + i] = q[i]
    <3>1. k \in KeysOf(q[i])
      BY <2>1 DEF IsLastDatagram
    <3>2. Len(p) + i \in 1 .. Len(p) + Len(q) /\ ~ (Len(p) + i <= Len(p))
          /\ (Len(p) + i) - Len(p) = i
      BY <1>1
    <3>3. pq[Len(p) + i] = q[i]
      BY <1>1, <3>2
    <3>4. ASSUME NEW j \in 1 .. Len(p) + Len(q), Len(p) + i < j
          PROVE  k \notin KeysOf(pq[j])
      <4>1. j - Len(p) \in 1 .. Len(q) /\ i < j - Len(p) /\ ~ (j <= Len(p))
        BY <1>6, <3>4
      <4>2. k \notin KeysOf(q[j - Len(p)])
        BY <2>1, <4>1 DEF IsLastDatagram
      <4> QED
        BY <1>1, <4>1, <4>2
    <3> QED
      BY <1>1, <3>1, <3>2, <3>3, <3>4 DEF IsLastDatagram
  <2>. DEFINE at == Len(p) + i
  <2>. HIDE DEF at
  <2>0. IsLastDatagram(pq, k, at) /\ pq[at] = q[i]
    BY <2>2 DEF at
  <2>7. ValueAfterAll(pq, k, v) = ValueAfter(pq[at], k, v)
    BY <1>5, <2>0, AllLast
  <2>3. ValueAfterAll(pq, k, v) = ValueAfter(q[i], k, v)
    BY <2>0, <2>7
  <2>4. ValueAfterAll(q, k, w) = ValueAfter(q[i], k, w)
    BY <2>1, AllLast
  <2>5. q[i] \in Seq(Op) /\ k \in KeysOf(q[i])
    BY <2>1, ElementOfSeq DEF IsLastDatagram
  <2>6. ValueAfter(q[i], k, v) = ValueAfter(q[i], k, w)
    BY <2>5, AfterPresent
  <2> QED
    BY <2>3, <2>4, <2>6
<1>3. CASE k \notin KeysIn(q) /\ k \in KeysIn(p)
  <2>1. PICK i \in 1 .. Len(p) : IsLastDatagram(p, k, i)
    BY <1>3, HasLastDatagram
  <2>2. IsLastDatagram(pq, k, i) /\ pq[i] = p[i]
    <3>1. k \in KeysOf(p[i])
      BY <2>1 DEF IsLastDatagram
    <3>2. i \in 1 .. Len(p) + Len(q) /\ pq[i] = p[i]
      BY <1>1
    <3>3. ASSUME NEW j \in 1 .. Len(p) + Len(q), i < j
          PROVE  k \notin KeysOf(pq[j])
      <4>1. CASE j <= Len(p)
        <5>1. j \in 1 .. Len(p) /\ pq[j] = p[j]
          BY <1>1, <4>1
        <5> QED
          BY <2>1, <3>3, <5>1 DEF IsLastDatagram
      <4>2. CASE ~ (j <= Len(p))
        <5>0. j - Len(p) \in 1 .. Len(q)
          BY <1>6, <4>2
        <5>1. j - Len(p) \in 1 .. Len(q) /\ pq[j] = q[j - Len(p)]
          BY <1>1, <4>2, <5>0
        <5>2. k \notin KeysOf(q[j - Len(p)])
          BY <1>1, <1>3, <5>1 DEF KeysIn
        <5> QED
          BY <5>1, <5>2
      <4> QED
        BY <4>1, <4>2
    <3> QED
      BY <1>1, <3>1, <3>2, <3>3 DEF IsLastDatagram
  <2>7. ValueAfterAll(pq, k, v) = ValueAfter(pq[i], k, v)
    BY <1>5, <2>2, AllLast
  <2>3. ValueAfterAll(pq, k, v) = ValueAfter(p[i], k, v)
    BY <2>2, <2>7
  <2>4. w = ValueAfter(p[i], k, v)
    BY <2>1, AllLast DEF w
  <2>5. ValueAfterAll(q, k, w) = w
    BY <1>3, AllAbsent
  <2> QED
    BY <2>3, <2>4, <2>5
<1>4. CASE k \notin KeysIn(q) /\ k \notin KeysIn(p)
  <2>1. k \notin KeysIn(pq)
    <3>1. DOMAIN pq = 1 .. Len(p) + Len(q)
      BY <1>1, LenProperties
    <3>2. ASSUME NEW j \in 1 .. Len(p) + Len(q)
          PROVE  k \notin KeysOf(pq[j])
      <4>1. CASE j <= Len(p)
        <5>1. j \in 1 .. Len(p) /\ pq[j] = p[j]
          BY <1>1, <4>1
        <5> QED
          BY <1>1, <1>4, <5>1 DEF KeysIn
      <4>2. CASE ~ (j <= Len(p))
        <5>1. j - Len(p) \in 1 .. Len(q) /\ pq[j] = q[j - Len(p)]
          BY <1>1, <4>2
        <5> QED
          BY <1>1, <1>4, <5>1 DEF KeysIn
      <4> QED
        BY <4>1, <4>2
    <3> QED
      BY <3>1, <3>2 DEF KeysIn
  <2>2. ValueAfterAll(pq, k, v) = v
    BY <2>1, AllAbsent
  <2>3. w = v
    BY <1>4, AllAbsent DEF w
  <2>4. ValueAfterAll(q, k, w) = w
    BY <1>4, AllAbsent
  <2> QED
    BY <2>2, <2>3, <2>4
<1> QED
  BY <1>2, <1>3, <1>4

\* One datagram.
LEMMA AllOne ==
    ASSUME NEW d \in Seq(Op), NEW k, NEW v
    PROVE  ValueAfterAll(<<d>>, k, v) = ValueAfter(d, k, v)
<1>. DEFINE one == <<d>>
<1>1. /\ one \in Seq(Seq(Op)) /\ Len(one) = 1
      /\ one[1] = d /\ DOMAIN one = {1}
  OBVIOUS
<1>. SUFFICES ValueAfterAll(one, k, v) = ValueAfter(d, k, v)
  OBVIOUS
<1>. HIDE DEF one
<1>2. CASE k \in KeysOf(d)
  <2>1. IsLastDatagram(one, k, 1)
    BY <1>1, <1>2 DEF IsLastDatagram
  <2>2. ValueAfterAll(one, k, v) = ValueAfter(one[1], k, v)
    BY <1>1, <2>1, AllLast
  <2> QED
    BY <1>1, <2>2
<1>3. CASE k \notin KeysOf(d)
  <2>1. k \notin KeysIn(one)
    BY <1>1, <1>3 DEF KeysIn
  <2> QED
    BY <1>3, <2>1, AllAbsent, AfterAbsent
<1> QED
  BY <1>2, <1>3

\* A sequence is what is before a position, the position, and what is after it.
LEMMA SplitAt ==
    ASSUME NEW S, NEW q \in Seq(S), NEW i \in 1 .. Len(q)
    PROVE  /\ SubSeq(q, 1, i - 1) \in Seq(S) /\ SubSeq(q, i + 1, Len(q)) \in Seq(S)
           /\ q[i] \in S
           /\ q = SubSeq(q, 1, i - 1) \o (<<q[i]>> \o SubSeq(q, i + 1, Len(q)))
<1>. DEFINE a == SubSeq(q, 1, i - 1)
            c == SubSeq(q, i + 1, Len(q))
            d == q[i]
<1>1. Len(q) \in Nat /\ \A j \in 1 .. Len(q) : q[j] \in S
  BY LenProperties, ElementOfSeq
<1>2. /\ a \in Seq(S) /\ Len(a) = i - 1
      /\ \A j \in 1 .. i - 1 : a[j] = q[j]
  BY <1>1, SubSeqProperties
<1>3. /\ c \in Seq(S) /\ Len(c) = Len(q) - i
      /\ \A j \in 1 .. Len(q) - i : c[j] = q[i + j]
  BY <1>1, SubSeqProperties
<1>4. d \in S /\ <<d>> \in Seq(S) /\ Len(<<d>>) = 1 /\ <<d>>[1] = d
  BY <1>1
<1>. SUFFICES q = a \o (<<d>> \o c)
  BY <1>2, <1>3, <1>4
<1>7. d = q[i]
  OBVIOUS
<1>. HIDE DEF a, c, d
<1>. DEFINE one == <<d>>
            dc == one \o c
<1>9. one \in Seq(S) /\ Len(one) = 1 /\ one[1] = d
  BY <1>4
<1>. HIDE DEF one
<1>5. /\ dc \in Seq(S) /\ Len(dc) = Len(q) - i + 1
      /\ \A j \in 1 .. Len(q) - i + 1 :
             dc[j] = IF j = 1 THEN d ELSE c[j - 1]
  <2>4. /\ dc \in Seq(S) /\ Len(dc) = Len(one) + Len(c)
        /\ \A j \in 1 .. Len(one) + Len(c) :
               dc[j] = IF j <= Len(one) THEN one[j] ELSE c[j - Len(one)]
    <3>1. PICK x \in Seq(S), y \in Seq(S) : x = one /\ y = c
      BY <1>3, <1>9
    <3>2. /\ x \o y \in Seq(S) /\ Len(x \o y) = Len(x) + Len(y)
          /\ \A j \in 1 .. Len(x) + Len(y) :
                 (x \o y)[j] = IF j <= Len(x) THEN x[j] ELSE y[j - Len(x)]
      BY ConcatProperties, SMTT(40)
    <3> QED
      BY <3>1, <3>2
  <2>1. /\ dc \in Seq(S) /\ Len(dc) = 1 + Len(c)
        /\ \A j \in 1 .. 1 + Len(c) :
               dc[j] = IF j <= 1 THEN one[j] ELSE c[j - 1]
    BY <1>9, <2>4
  <2>2. 1 + Len(c) = Len(q) - i + 1
    BY <1>1, <1>3
  <2>3. \A j \in 1 .. 1 + Len(c) : j <= 1 <=> j = 1
    BY <1>1, <1>3
  <2> QED
    BY <1>9, <2>1, <2>2, <2>3
<1>. HIDE DEF dc
<1>. DEFINE all == a \o dc
<1>6. /\ all \in Seq(S) /\ Len(all) = Len(q)
      /\ \A j \in 1 .. Len(q) :
             all[j] = IF j <= i - 1 THEN a[j] ELSE dc[j - (i - 1)]
  BY <1>1, <1>2, <1>5, ConcatProperties
<1>. HIDE DEF all
<1>8. ASSUME NEW j \in 1 .. Len(q)
      PROVE  all[j] = q[j]
  <2>1. CASE j <= i - 1
    BY <1>1, <1>2, <1>6, <2>1
  <2>2. CASE j = i
    <3>1. ~ (j <= i - 1) /\ j - (i - 1) = 1 /\ 1 \in 1 .. Len(q) - i + 1
      BY <1>1, <2>2
    <3>2. all[j] = dc[1]
      BY <1>6, <3>1
    <3> QED
      BY <1>5, <1>7, <2>2, <3>1, <3>2
  <2>3. CASE i < j
    <3>1. j - (i - 1) \in 1 .. Len(q) - i + 1 /\ j - (i - 1) # 1
          /\ (j - (i - 1)) - 1 = j - i
      BY <1>1, <2>3
    <3>4. ~ (j <= i - 1)
      BY <1>1, <2>3
    <3>5. all[j] = dc[j - (i - 1)]
      BY <1>6, <3>4
    <3>6. dc[j - (i - 1)] = c[(j - (i - 1)) - 1]
      BY <1>5, <3>1
    <3>2. all[j] = c[j - i]
      BY <3>1, <3>5, <3>6
    <3>3. j - i \in 1 .. Len(q) - i /\ i + (j - i) = j
      BY <1>1, <2>3
    <3> QED
      BY <1>3, <3>2, <3>3
  <2> QED
    BY <1>1, <2>1, <2>2, <2>3
<1> QED
  BY <1>6, <1>8, SeqEqual DEF all, dc, one

\* A datagram among others: first those before it, then it, then those after it.
LEMMA AllSplit ==
    ASSUME NEW a \in Seq(Seq(Op)), NEW d \in Seq(Op), NEW c \in Seq(Seq(Op)), NEW k, NEW v
    PROVE  ValueAfterAll(a \o (<<d>> \o c), k, v) =
               ValueAfterAll(c, k, ValueAfter(d, k, ValueAfterAll(a, k, v)))
<1>. DEFINE one == <<d>>
            dc == one \o c
            w == ValueAfterAll(a, k, v)
<1>1. one \in Seq(Seq(Op))
  OBVIOUS
<1>4. ValueAfterAll(one, k, w) = ValueAfter(d, k, w)
  BY AllOne
<1>. HIDE DEF one
<1>2. dc \in Seq(Seq(Op))
  BY <1>1, ConcatProperties
<1>3. ValueAfterAll(dc, k, w) = ValueAfterAll(c, k, ValueAfterAll(one, k, w))
  BY <1>1, AllBoth
<1>. HIDE DEF dc
<1>5. ValueAfterAll(a \o dc, k, v) = ValueAfterAll(dc, k, w)
  BY <1>2, AllBoth
<1> QED
  BY <1>3, <1>4, <1>5 DEF dc, one

\* A lost datagram makes a difference to its own keys only.
LEMMA LosingKeeps ==
    ASSUME NEW a \in Seq(Seq(Op)), NEW d \in Seq(Op), NEW c \in Seq(Seq(Op)), NEW k, NEW v,
           k \notin KeysOf(d)
    PROVE  ValueAfterAll(a \o c, k, v) = ValueAfterAll(a \o (<<d>> \o c), k, v)
<1>. DEFINE w == ValueAfterAll(a, k, v)
<1>1. ValueAfterAll(a \o c, k, v) = ValueAfterAll(c, k, w)
  BY AllBoth
<1>2. ValueAfter(d, k, w) = w
  BY AfterAbsent
<1>3. ValueAfterAll(a \o (<<d>> \o c), k, v) = ValueAfterAll(c, k, ValueAfter(d, k, w))
  BY AllSplit
<1> QED
  BY <1>1, <1>2, <1>3

\* A repeated datagram makes a difference to those of its keys that a later one writes.
LEMMA RepeatingKeeps ==
    ASSUME NEW a \in Seq(Seq(Op)), NEW d \in Seq(Op), NEW c \in Seq(Seq(Op)), NEW k, NEW v,
           k \notin KeysOf(d) \intersect KeysIn(c)
    PROVE  ValueAfterAll((a \o (<<d>> \o c)) \o <<d>>, k, v) =
               ValueAfterAll(a \o (<<d>> \o c), k, v)
<1>. DEFINE ds == a \o (<<d>> \o c)
            w == ValueAfterAll(a, k, v)
            x == ValueAfterAll(ds, k, v)
<1>1. <<d>> \in Seq(Seq(Op)) /\ <<d>> \o c \in Seq(Seq(Op))
  BY ConcatProperties
<1>2. ds \in Seq(Seq(Op))
  BY <1>1, ConcatProperties
<1>3. x = ValueAfterAll(c, k, ValueAfter(d, k, w))
  BY AllSplit
<1>. HIDE DEF ds, w
<1>. DEFINE one == <<d>>
<1>5. one \in Seq(Seq(Op)) /\ ValueAfterAll(one, k, x) = ValueAfter(d, k, x)
  BY <1>1, AllOne
<1>. HIDE DEF one
<1>4. ValueAfterAll(ds \o one, k, v) = ValueAfterAll(one, k, x)
  BY <1>2, <1>5, AllBoth
<1>6. ValueAfter(d, k, x) = x
  <2>1. CASE k \notin KeysOf(d)
    BY <2>1, AfterAbsent
  <2>2. CASE k \in KeysOf(d)
    <3>1. x = ValueAfter(d, k, w)
      BY <1>3, <2>2, AllAbsent
    <3>2. ValueAfter(d, k, x) = ValueAfter(d, k, w)
      BY <2>2, AfterPresent
    <3> QED
      BY <3>1, <3>2
  <2> QED
    BY <2>1, <2>2
<1>7. ValueAfterAll(ds \o one, k, v) = ValueAfterAll(ds, k, v)
  BY <1>4, <1>5, <1>6
<1> QED
  BY <1>7 DEF ds, one

\* A datagram that overtakes makes a difference to those of its keys that one it overtook writes.
LEMMA OvertakingKeeps ==
    ASSUME NEW a \in Seq(Seq(Op)), NEW d \in Seq(Op), NEW c \in Seq(Seq(Op)), NEW k, NEW v,
           k \notin KeysOf(d) \intersect KeysIn(a)
    PROVE  ValueAfterAll(<<d>> \o (a \o c), k, v) =
               ValueAfterAll(a \o (<<d>> \o c), k, v)
<1>. DEFINE ac == a \o c
            w == ValueAfter(d, k, v)
            one == <<d>>
<1>1. one \in Seq(Seq(Op)) /\ ac \in Seq(Seq(Op))
  BY ConcatProperties
<1>2. ValueAfterAll(ac, k, w) = ValueAfterAll(c, k, ValueAfterAll(a, k, w))
  BY AllBoth
<1>3. ValueAfterAll(one, k, v) = w
  BY AllOne
<1>. HIDE DEF ac, w, one
<1>4. ValueAfterAll(one \o ac, k, v) = ValueAfterAll(ac, k, w)
  BY <1>1, <1>3, AllBoth
<1>5. ValueAfterAll(a, k, w) = ValueAfter(d, k, ValueAfterAll(a, k, v))
  <2>1. CASE k \notin KeysOf(d)
    BY <2>1, AfterAbsent DEF w
  <2>2. CASE k \in KeysOf(d)
    BY <2>2, AllAbsent DEF w
  <2> QED
    BY <2>1, <2>2
<1>6. ValueAfterAll(a \o (<<d>> \o c), k, v) =
          ValueAfterAll(c, k, ValueAfter(d, k, ValueAfterAll(a, k, v)))
  BY AllSplit
<1>7. ValueAfterAll(one \o ac, k, v) = ValueAfterAll(a \o (<<d>> \o c), k, v)
  BY <1>2, <1>4, <1>5, <1>6
<1> QED
  BY <1>7 DEF ac, one

-----------------------------------------------------------------------------
(* What a key will be at the peer, from the pieces on their way to it *)

\* b, q, o: batch, channel and operation in hand; n, c: the datagrams on their way
\* and the one that is being applied; x: the value at the peer.
AtPeer(b, q, o, n, c, x, k) ==
    ValueAfter((b \o q) \o o, k, ValueAfterAll(n, k, ValueAfter(c, k, x)))

\* The operation of a call comes last.
LEMMA AtPeerCall ==
    ASSUME NEW b \in Seq(Op), NEW q \in Seq(Op), NEW op \in Op,
           NEW n, NEW c, NEW x, NEW k
    PROVE  AtPeer(b, q, <<op>>, n, c, x, k) =
               IF op.key = k THEN op.val ELSE AtPeer(b, q, <<>>, n, c, x, k)
<1>. DEFINE bq == b \o q
            one == <<op>>
            v == ValueAfterAll(n, k, ValueAfter(c, k, x))
            w == ValueAfter(bq, k, v)
<1>1. one \in Seq(Op)
  OBVIOUS
<1>2. ValueAfter(one, k, w) = IF op.key = k THEN op.val ELSE w
  BY AfterOne
<1>3. bq \in Seq(Op)
  BY ConcatProperties
<1>. HIDE DEF bq, one, v
<1>4. ValueAfter(bq \o one, k, v) = ValueAfter(one, k, w)
  BY <1>1, <1>3, AfterBoth
<1>5. bq \o <<>> = bq
  BY <1>3, ConcatEmptySeq
<1> QED
  BY <1>2, <1>4, <1>5 DEF AtPeer, bq, one, v

\* Queueing the operation in hand leaves the order as it was.
LEMMA AtPeerSend ==
    ASSUME NEW b \in Seq(Op), NEW q \in Seq(Op), NEW o \in Seq(Op),
           NEW n, NEW c, NEW x, NEW k
    PROVE  AtPeer(b, q \o o, <<>>, n, c, x, k) = AtPeer(b, q, o, n, c, x, k)
<1>. DEFINE qo == q \o o
<1>1. qo \in Seq(Op) /\ (b \o q) \o o = b \o qo
  BY ConcatProperties, ConcatAssociative
<1>. HIDE DEF qo
<1>. DEFINE all == b \o qo
<1>2. all \in Seq(Op)
  BY <1>1, ConcatProperties
<1>. HIDE DEF all
<1>3. all \o <<>> = all
  BY <1>2, ConcatEmptySeq
<1> QED
  BY <1>1, <1>3 DEF AtPeer, all, qo

\* So does taking the first of the channel into the batch.
LEMMA AtPeerTake ==
    ASSUME NEW b \in Seq(Op), NEW h \in Op, NEW t \in Seq(Op),
           NEW o, NEW n, NEW c, NEW x, NEW k
    PROVE  AtPeer(b \o <<h>>, t, o, n, c, x, k) = AtPeer(b, <<h>> \o t, o, n, c, x, k)
<1>. DEFINE one == <<h>>
<1>1. one \in Seq(Op)
  OBVIOUS
<1>. HIDE DEF one
<1>2. (b \o one) \o t = b \o (one \o t)
  BY <1>1, ConcatAssociative, SMTT(40)
<1> QED
  BY <1>2 DEF AtPeer, one

\* And sending the batch as one datagram.
LEMMA AtPeerDatagram ==
    ASSUME NEW ops \in Seq(Op), NEW q \in Seq(Op), NEW o \in Seq(Op),
           NEW n \in Seq(Seq(Op)), NEW c, NEW x, NEW k
    PROVE  AtPeer(<<>>, q, o, n \o <<ops>>, c, x, k) = AtPeer(ops, q, o, n, c, x, k)
<1>. DEFINE qo == q \o o
            one == <<ops>>
            v == ValueAfter(c, k, x)
            w == ValueAfterAll(n, k, v)
<1>1. one \in Seq(Seq(Op)) /\ ValueAfterAll(one, k, w) = ValueAfter(ops, k, w)
  BY AllOne
<1>2. qo \in Seq(Op) /\ (ops \o q) \o o = ops \o qo /\ <<>> \o q = q
  BY ConcatProperties, ConcatAssociative, ConcatEmptySeq
<1>. HIDE DEF qo, one, v
<1>3. ValueAfterAll(n \o one, k, v) = ValueAfterAll(one, k, w)
  BY <1>1, AllBoth
<1>4. ValueAfter(ops \o qo, k, w) = ValueAfter(qo, k, ValueAfter(ops, k, w))
  BY <1>2, AfterBoth
<1> QED
  BY <1>1, <1>2, <1>3, <1>4 DEF AtPeer, qo, one, v

\* And taking the first datagram from the network.
LEMMA AtPeerRecv ==
    ASSUME NEW d \in Seq(Op), NEW t \in Seq(Seq(Op)), NEW b, NEW q, NEW o, NEW x, NEW k
    PROVE  AtPeer(b, q, o, t, d, x, k) = AtPeer(b, q, o, <<d>> \o t, <<>>, x, k)
<1>. DEFINE one == <<d>>
<1>1. one \in Seq(Seq(Op)) /\ ValueAfterAll(one, k, x) = ValueAfter(d, k, x)
  BY AllOne
<1>. HIDE DEF one
<1>2. ValueAfterAll(one \o t, k, x) = ValueAfterAll(t, k, ValueAfterAll(one, k, x))
  BY <1>1, AllBoth
<1>3. k \notin KeysOf(<<>>)
  BY DEF KeysOf
<1>4. ValueAfter(<<>>, k, x) = x
  BY <1>3, AfterAbsent
<1> QED
  BY <1>1, <1>2, <1>4 DEF AtPeer, one

\* And applying the first operation of the datagram.
LEMMA AtPeerApply ==
    ASSUME NEW h \in Op, NEW t \in Seq(Op), NEW b, NEW q, NEW o, NEW n, NEW x, NEW k
    PROVE  AtPeer(b, q, o, n, t, IF h.key = k THEN h.val ELSE x, k) =
               AtPeer(b, q, o, n, <<h>> \o t, x, k)
<1>. DEFINE one == <<h>>
            y == IF h.key = k THEN h.val ELSE x
<1>1. one \in Seq(Op) /\ ValueAfter(one, k, x) = y
  BY AfterOne
<1>. HIDE DEF one, y
<1>2. ValueAfter(one \o t, k, x) = ValueAfter(t, k, ValueAfter(one, k, x))
  BY <1>1, AfterBoth
<1> QED
  BY <1>1, <1>2 DEF AtPeer, one, y

-----------------------------------------------------------------------------
(* The keys on their way *)

\* The keys of two parts.
LEMMA KeysOfBoth ==
    ASSUME NEW p \in Seq(Op), NEW q \in Seq(Op)
    PROVE  KeysOf(p \o q) = KeysOf(p) \union KeysOf(q)
<1>. DEFINE pq == p \o q
<1>1. /\ Len(p) \in Nat /\ Len(q) \in Nat
      /\ pq \in Seq(Op) /\ Len(pq) = Len(p) + Len(q)
      /\ \A i \in 1 .. Len(p) + Len(q) :
             pq[i] = IF i <= Len(p) THEN p[i] ELSE q[i - Len(p)]
      /\ DOMAIN p = 1 .. Len(p) /\ DOMAIN q = 1 .. Len(q)
  BY LenProperties, ConcatProperties
<1>. SUFFICES KeysOf(pq) = KeysOf(p) \union KeysOf(q)
  OBVIOUS
<1>. HIDE DEF pq
<1>2. DOMAIN pq = 1 .. Len(p) + Len(q)
  BY <1>1, LenProperties
<1>3. Len(p) \in Nat /\ Len(q) \in Nat
  BY <1>1
<1>4. ASSUME NEW i \in 1 .. Len(p)
      PROVE  i \in DOMAIN pq /\ pq[i] = p[i]
  BY <1>1, <1>2
<1>5. ASSUME NEW i \in 1 .. Len(q)
      PROVE  Len(p) + i \in DOMAIN pq /\ pq[Len(p) + i] = q[i]
  <2>1. Len(p) + i \in 1 .. Len(p) + Len(q) /\ ~ (Len(p) + i <= Len(p))
        /\ (Len(p) + i) - Len(p) = i
    BY <1>3
  <2> QED
    BY <1>1, <1>2, <2>1
<1>6. ASSUME NEW j \in DOMAIN pq
      PROVE  pq[j].key \in KeysOf(p) \union KeysOf(q)
  <2>1. CASE j <= Len(p)
    BY <1>1, <1>2, <2>1 DEF KeysOf
  <2>2. CASE ~ (j <= Len(p))
    <3>1. j - Len(p) \in 1 .. Len(q)
      BY <1>2, <1>3, <2>2
    <3>2. pq[j] = q[j - Len(p)]
      BY <1>1, <1>2, <2>2
    <3> QED
      BY <1>1, <3>1, <3>2 DEF KeysOf
  <2> QED
    BY <2>1, <2>2
<1>7. ASSUME NEW i \in DOMAIN p
      PROVE  p[i].key \in KeysOf(pq)
  BY <1>1, <1>4 DEF KeysOf
<1>8. ASSUME NEW i \in DOMAIN q
      PROVE  q[i].key \in KeysOf(pq)
  <2>1. Len(p) + i \in DOMAIN pq /\ pq[Len(p) + i] = q[i]
    BY <1>1, <1>5
  <2> QED
    BY <2>1 DEF KeysOf
<1>9. KeysOf(pq) \subseteq KeysOf(p) \union KeysOf(q)
  BY <1>6 DEF KeysOf
<1>10. KeysOf(p) \subseteq KeysOf(pq) /\ KeysOf(q) \subseteq KeysOf(pq)
  BY <1>7, <1>8 DEF KeysOf
<1> QED
  BY <1>9, <1>10

\* The key of one operation.
LEMMA KeysOfOne ==
    ASSUME NEW o \in Op
    PROVE  KeysOf(<<o>>) = {o.key}
<1>1. DOMAIN <<o>> = {1} /\ <<o>>[1] = o
  OBVIOUS
<1> QED
  BY <1>1 DEF KeysOf

\* The keys of datagrams in two parts.
LEMMA KeysInBoth ==
    ASSUME NEW p \in Seq(Seq(Op)), NEW q \in Seq(Seq(Op))
    PROVE  KeysIn(p \o q) = KeysIn(p) \union KeysIn(q)
<1>. DEFINE pq == p \o q
<1>1. /\ Len(p) \in Nat /\ Len(q) \in Nat
      /\ pq \in Seq(Seq(Op)) /\ Len(pq) = Len(p) + Len(q)
      /\ \A i \in 1 .. Len(p) + Len(q) :
             pq[i] = IF i <= Len(p) THEN p[i] ELSE q[i - Len(p)]
      /\ DOMAIN p = 1 .. Len(p) /\ DOMAIN q = 1 .. Len(q)
  BY LenProperties, ConcatProperties
<1>. SUFFICES KeysIn(pq) = KeysIn(p) \union KeysIn(q)
  OBVIOUS
<1>. HIDE DEF pq
<1>2. DOMAIN pq = 1 .. Len(p) + Len(q)
  BY <1>1, LenProperties
<1>3. Len(p) \in Nat /\ Len(q) \in Nat
  BY <1>1
<1>4. ASSUME NEW i \in 1 .. Len(p)
      PROVE  i \in DOMAIN pq /\ pq[i] = p[i]
  BY <1>1, <1>2
<1>5. ASSUME NEW i \in 1 .. Len(q)
      PROVE  Len(p) + i \in DOMAIN pq /\ pq[Len(p) + i] = q[i]
  <2>1. Len(p) + i \in 1 .. Len(p) + Len(q) /\ ~ (Len(p) + i <= Len(p))
        /\ (Len(p) + i) - Len(p) = i
    BY <1>3
  <2> QED
    BY <1>1, <1>2, <2>1
<1>6. ASSUME NEW j \in DOMAIN pq
      PROVE  KeysOf(pq[j]) \subseteq KeysIn(p) \union KeysIn(q)
  <2>1. CASE j <= Len(p)
    <3>1. j \in DOMAIN p /\ pq[j] = p[j]
      BY <1>1, <1>2, <2>1
    <3> QED
      BY <3>1 DEF KeysIn
  <2>2. CASE ~ (j <= Len(p))
    <3>1. j - Len(p) \in 1 .. Len(q)
      BY <1>2, <1>3, <2>2
    <3>2. pq[j] = q[j - Len(p)]
      BY <1>1, <1>2, <2>2
    <3>3. KeysOf(q[j - Len(p)]) \subseteq KeysIn(q)
      BY <1>1, <3>1 DEF KeysIn
    <3> QED
      BY <3>2, <3>3
  <2> QED
    BY <2>1, <2>2
<1>7. ASSUME NEW i \in DOMAIN p
      PROVE  KeysOf(p[i]) \subseteq KeysIn(pq)
  <2>1. i \in DOMAIN pq /\ pq[i] = p[i]
    BY <1>1, <1>4
  <2> QED
    BY <2>1 DEF KeysIn
<1>8. ASSUME NEW i \in DOMAIN q
      PROVE  KeysOf(q[i]) \subseteq KeysIn(pq)
  <2>1. Len(p) + i \in DOMAIN pq /\ pq[Len(p) + i] = q[i]
    BY <1>1, <1>5
  <2>2. KeysOf(pq[Len(p) + i]) \subseteq KeysIn(pq)
    BY <2>1 DEF KeysIn
  <2> QED
    BY <2>1, <2>2
<1>9. KeysIn(pq) \subseteq KeysIn(p) \union KeysIn(q)
  BY <1>6 DEF KeysIn
<1>10. KeysIn(p) \subseteq KeysIn(pq) /\ KeysIn(q) \subseteq KeysIn(pq)
  BY <1>7, <1>8 DEF KeysIn
<1> QED
  BY <1>9, <1>10

\* The keys of one datagram.
LEMMA KeysInOne ==
    ASSUME NEW d \in Seq(Op)
    PROVE  KeysIn(<<d>>) = KeysOf(d)
<1>1. DOMAIN <<d>> = {1} /\ <<d>>[1] = d
  OBVIOUS
<1> QED
  BY <1>1 DEF KeysIn

-----------------------------------------------------------------------------
(* The peer of s is behind by exactly what is on its way *)

\* X and Y are the stores of the peer and of s, H the keys the network has hurt.
\* What is on its way are operations of s on keys that s writes.
Behind(s, b, q, o, n, c, X, Y, H) ==
    /\ \A k \in WrittenBy(s) \ H : AtPeer(b, q, o, n, c, X[k], k) = Y[k]
    /\ KeysOf(b) \subseteq Writes[s] /\ KeysOf(q) \subseteq Writes[s]
    /\ KeysOf(o) \subseteq Writes[s] /\ KeysIn(n) \subseteq Writes[s]
    /\ KeysOf(c) \subseteq Writes[s]

PairBehind(s) ==
    Behind(s, batch[s], queue[s], unsent[s], net[Peer(s)], incoming[Peer(s)],
           store[Peer(s)], store[s], hurt)

\* The invariant of replication.
CaughtUp == Inv /\ \A s \in Server : PairBehind(s)

\* Nothing on its way has no keys.
LEMMA NoKeys == KeysOf(<<>>) = {} /\ KeysIn(<<>>) = {}
BY DEF KeysOf, KeysIn

\* The two servers are each other's peers.
LEMMA Peers ==
    ASSUME NEW s \in Server
    PROVE  /\ Peer(s) \in Server /\ Peer(s) # s /\ Peer(Peer(s)) = s
           /\ \A t \in Server : t = s \/ t = Peer(s)
<1>1. \A u \in Server : Peer(u) \in Server /\ Peer(u) # u
  <2>. TAKE u \in Server
  <2>1. \E p \in Server : p # u
    OBVIOUS
  <2> QED
    BY <2>1 DEF Peer
<1> QED
  BY <1>1

\* put or remove.
LEMMA BehindCall ==
    ASSUME NEW s \in Server, NEW b \in Seq(Op), NEW q \in Seq(Op), NEW n, NEW c, NEW X,
           NEW Y \in [Key -> Value \union {None}], NEW H,
           NEW op \in Op, op.key \in Writes[s], Behind(s, b, q, <<>>, n, c, X, Y, H)
    PROVE  Behind(s, b, q, <<op>>, n, c, X, [Y EXCEPT ![op.key] = op.val], H)
<1>1. op.key \in Key
  BY DEF Op
<1>2. ASSUME NEW k \in WrittenBy(s) \ H
      PROVE  AtPeer(b, q, <<op>>, n, c, X[k], k) = [Y EXCEPT ![op.key] = op.val][k]
  <2>1. AtPeer(b, q, <<op>>, n, c, X[k], k) =
            IF op.key = k THEN op.val ELSE AtPeer(b, q, <<>>, n, c, X[k], k)
    BY AtPeerCall
  <2>2. AtPeer(b, q, <<>>, n, c, X[k], k) = Y[k]
    BY DEF Behind
  <2>3. k \in Key
    BY DEF WrittenBy
  <2> QED
    BY <1>1, <2>1, <2>2, <2>3
<1>3. KeysOf(<<op>>) \subseteq Writes[s]
  BY KeysOfOne
<1> QED
  BY <1>2, <1>3 DEF Behind

\* The operation in hand is queued.
LEMMA BehindSend ==
    ASSUME NEW s \in Server, NEW b \in Seq(Op), NEW q \in Seq(Op), NEW o \in Seq(Op),
           NEW n, NEW c, NEW X, NEW Y, NEW H, Behind(s, b, q, o, n, c, X, Y, H)
    PROVE  Behind(s, b, q \o o, <<>>, n, c, X, Y, H)
<1>1. ASSUME NEW k \in WrittenBy(s) \ H
      PROVE  AtPeer(b, q \o o, <<>>, n, c, X[k], k) = Y[k]
  <2>1. AtPeer(b, q \o o, <<>>, n, c, X[k], k) = AtPeer(b, q, o, n, c, X[k], k)
    BY AtPeerSend
  <2> QED
    BY <2>1 DEF Behind
<1>2. KeysOf(q \o o) \subseteq Writes[s]
  BY KeysOfBoth DEF Behind
<1> QED
  BY <1>1, <1>2, NoKeys DEF Behind

\* The first of the channel goes to the batch.
LEMMA BehindTake ==
    ASSUME NEW s \in Server, NEW b \in Seq(Op), NEW h \in Op, NEW t \in Seq(Op), NEW o,
           NEW n, NEW c, NEW X, NEW Y, NEW H,
           Behind(s, b, <<h>> \o t, o, n, c, X, Y, H)
    PROVE  Behind(s, b \o <<h>>, t, o, n, c, X, Y, H)
<1>1. ASSUME NEW k \in WrittenBy(s) \ H
      PROVE  AtPeer(b \o <<h>>, t, o, n, c, X[k], k) = Y[k]
  <2>1. AtPeer(b \o <<h>>, t, o, n, c, X[k], k) = AtPeer(b, <<h>> \o t, o, n, c, X[k], k)
    BY AtPeerTake
  <2> QED
    BY <2>1 DEF Behind
<1>. DEFINE one == <<h>>
<1>2. one \in Seq(Op)
  OBVIOUS
<1>. HIDE DEF one
<1>3. KeysOf(one \o t) = KeysOf(one) \union KeysOf(t)
      /\ KeysOf(b \o one) = KeysOf(b) \union KeysOf(one)
  BY <1>2, KeysOfBoth
<1>4. KeysOf(one \o t) \subseteq Writes[s] /\ KeysOf(b) \subseteq Writes[s]
  BY DEF Behind, one
<1>5. KeysOf(b \o <<h>>) \subseteq Writes[s] /\ KeysOf(t) \subseteq Writes[s]
  BY <1>3, <1>4 DEF one
<1> QED
  BY <1>1, <1>5 DEF Behind

\* The batch goes out as one datagram.
LEMMA BehindDatagram ==
    ASSUME NEW s \in Server, NEW ops \in Seq(Op), NEW q \in Seq(Op), NEW o \in Seq(Op),
           NEW n \in Seq(Seq(Op)), NEW c, NEW X, NEW Y, NEW H,
           Behind(s, ops, q, o, n, c, X, Y, H)
    PROVE  Behind(s, <<>>, q, o, n \o <<ops>>, c, X, Y, H)
<1>1. ASSUME NEW k \in WrittenBy(s) \ H
      PROVE  AtPeer(<<>>, q, o, n \o <<ops>>, c, X[k], k) = Y[k]
  <2>1. AtPeer(<<>>, q, o, n \o <<ops>>, c, X[k], k) = AtPeer(ops, q, o, n, c, X[k], k)
    BY AtPeerDatagram
  <2> QED
    BY <2>1 DEF Behind
<1>. DEFINE one == <<ops>>
<1>2. one \in Seq(Seq(Op)) /\ KeysIn(one) = KeysOf(ops)
  BY KeysInOne
<1>. HIDE DEF one
<1>3. KeysIn(n \o one) = KeysIn(n) \union KeysIn(one)
  BY <1>2, KeysInBoth
<1>4. KeysIn(n \o <<ops>>) \subseteq Writes[s]
  BY <1>2, <1>3 DEF Behind, one
<1> QED
  BY <1>1, <1>4, NoKeys DEF Behind

\* The receiver takes the first datagram.
LEMMA BehindRecv ==
    ASSUME NEW s \in Server, NEW b, NEW q, NEW o, NEW d \in Seq(Op),
           NEW t \in Seq(Seq(Op)), NEW X, NEW Y, NEW H,
           Behind(s, b, q, o, <<d>> \o t, <<>>, X, Y, H)
    PROVE  Behind(s, b, q, o, t, d, X, Y, H)
<1>1. ASSUME NEW k \in WrittenBy(s) \ H
      PROVE  AtPeer(b, q, o, t, d, X[k], k) = Y[k]
  <2>1. AtPeer(b, q, o, t, d, X[k], k) = AtPeer(b, q, o, <<d>> \o t, <<>>, X[k], k)
    BY AtPeerRecv
  <2> QED
    BY <2>1 DEF Behind
<1>. DEFINE one == <<d>>
<1>2. one \in Seq(Seq(Op)) /\ KeysIn(one) = KeysOf(d)
  BY KeysInOne
<1>. HIDE DEF one
<1>3. KeysIn(one \o t) = KeysIn(one) \union KeysIn(t)
  BY <1>2, KeysInBoth
<1>4. KeysIn(one \o t) \subseteq Writes[s]
  BY DEF Behind, one
<1>5. KeysOf(d) \subseteq Writes[s] /\ KeysIn(t) \subseteq Writes[s]
  BY <1>2, <1>3, <1>4
<1> QED
  BY <1>1, <1>5 DEF Behind

\* The receiver applies the first operation of its datagram.
LEMMA BehindApply ==
    ASSUME NEW s \in Server, NEW b, NEW q, NEW o, NEW n, NEW h \in Op, NEW t \in Seq(Op),
           NEW X \in [Key -> Value \union {None}], NEW Y, NEW H,
           Behind(s, b, q, o, n, <<h>> \o t, X, Y, H)
    PROVE  Behind(s, b, q, o, n, t, [X EXCEPT ![h.key] = h.val], Y, H)
<1>1. ASSUME NEW k \in WrittenBy(s) \ H
      PROVE  AtPeer(b, q, o, n, t, [X EXCEPT ![h.key] = h.val][k], k) = Y[k]
  <2>1. k \in Key
    BY DEF WrittenBy
  <2>2. [X EXCEPT ![h.key] = h.val][k] = IF h.key = k THEN h.val ELSE X[k]
    BY <2>1
  <2>3. AtPeer(b, q, o, n, t, IF h.key = k THEN h.val ELSE X[k], k) =
            AtPeer(b, q, o, n, <<h>> \o t, X[k], k)
    BY AtPeerApply
  <2> QED
    BY <2>2, <2>3 DEF Behind
<1>. DEFINE one == <<h>>
<1>2. one \in Seq(Op)
  OBVIOUS
<1>. HIDE DEF one
<1>3. KeysOf(one \o t) = KeysOf(one) \union KeysOf(t)
  BY <1>2, KeysOfBoth
<1>4. KeysOf(one \o t) \subseteq Writes[s]
  BY DEF Behind, one
<1>5. KeysOf(t) \subseteq Writes[s]
  BY <1>3, <1>4
<1> QED
  BY <1>1, <1>5 DEF Behind

\* A change of keys that the peer writes too, at either server, is no matter.
LEMMA BehindOthers ==
    ASSUME NEW s \in Server, NEW b, NEW q, NEW o, NEW n, NEW c,
           NEW X, NEW Y, NEW X1, NEW Y1, NEW H,
           \A k \in WrittenBy(s) : X1[k] = X[k] /\ Y1[k] = Y[k],
           Behind(s, b, q, o, n, c, X, Y, H)
    PROVE  Behind(s, b, q, o, n, c, X1, Y1, H)
BY DEF Behind

\* A fault of the network that hurts the keys it makes a difference to.
LEMMA BehindFault ==
    ASSUME NEW s \in Server, NEW b, NEW q, NEW o, NEW n, NEW m, NEW c, NEW X, NEW Y, NEW H,
           NEW hit, KeysIn(m) \subseteq Writes[s],
           \A k \in WrittenBy(s) \ hit : \A v : ValueAfterAll(m, k, v) = ValueAfterAll(n, k, v),
           Behind(s, b, q, o, n, c, X, Y, H)
    PROVE  Behind(s, b, q, o, m, c, X, Y, H \union hit)
<1>1. ASSUME NEW k \in WrittenBy(s) \ (H \union hit)
      PROVE  AtPeer(b, q, o, m, c, X[k], k) = Y[k]
  <2>1. ValueAfterAll(m, k, ValueAfter(c, k, X[k])) = ValueAfterAll(n, k, ValueAfter(c, k, X[k]))
    OBVIOUS
  <2>2. AtPeer(b, q, o, n, c, X[k], k) = Y[k]
    BY DEF Behind
  <2> QED
    BY <2>1, <2>2 DEF AtPeer
<1> QED
  BY <1>1 DEF Behind

\* Faults elsewhere hurt more keys.
LEMMA BehindHurt ==
    ASSUME NEW s \in Server, NEW b, NEW q, NEW o, NEW n, NEW c, NEW X, NEW Y, NEW H,
           NEW hit, Behind(s, b, q, o, n, c, X, Y, H)
    PROVE  Behind(s, b, q, o, n, c, X, Y, H \union hit)
BY DEF Behind

-----------------------------------------------------------------------------
(* One lemma per action, for the server s that sends to its peer *)

\* put or remove at s comes last; at its peer it is on a key that both write.
LEMMA CallCatchesUp ==
    ASSUME CaughtUp, NEW t \in Server, NEW k \in Writes[t], NEW v \in Value \union {None},
           Call(t, k, v), NEW s \in Server
    PROVE  PairBehind(s)'
<1>. DEFINE op == [key |-> k, val |-> v]
<1>1. op \in Op /\ op.key = k /\ op.val = v /\ k \in Key
  BY DEF Op
<1>2. /\ store' = [store EXCEPT ![t] = [store[t] EXCEPT ![op.key] = op.val]]
      /\ unsent' = [unsent EXCEPT ![t] = <<op>>] /\ unsent[t] = <<>>
      /\ UNCHANGED <<batch, queue, net, incoming, hurt>>
  BY <1>1 DEF Call, taskVars, CaughtUp, Inv, TypeOK
<1>. HIDE DEF op
<1>3. /\ store \in [Server -> [Key -> Value \union {None}]]
      /\ unsent \in [Server -> Seq(Op)]
  BY DEF CaughtUp, Inv, TypeOK
<1>4. PairBehind(s)
  BY DEF CaughtUp
<1>5. CASE s = t
  <2>1. /\ store'[s] = [store[s] EXCEPT ![op.key] = op.val]
        /\ store'[Peer(s)] = store[Peer(s)] /\ unsent'[s] = <<op>>
    BY <1>2, <1>3, <1>5, Peers
  <2>2. batch[s] \in Seq(Op) /\ queue[s] \in Seq(Op) /\ op.key \in Writes[s]
        /\ store[s] \in [Key -> Value \union {None}]
    BY <1>1, <1>5 DEF CaughtUp, Inv, TypeOK
  <2>3. Behind(s, batch[s], queue[s], <<>>, net[Peer(s)], incoming[Peer(s)],
               store[Peer(s)], store[s], hurt)
    BY <1>2, <1>4, <1>5 DEF PairBehind
  <2>4. Behind(s, batch[s], queue[s], <<op>>, net[Peer(s)], incoming[Peer(s)],
               store[Peer(s)], [store[s] EXCEPT ![op.key] = op.val], hurt)
    BY <1>1, <2>2, <2>3, BehindCall
  <2> QED
    BY <1>2, <2>1, <2>4 DEF PairBehind
<1>6. CASE s # t
  <2>1. t = Peer(s)
    BY <1>6, Peers
  <2>2. /\ store'[Peer(s)] = [store[Peer(s)] EXCEPT ![op.key] = op.val]
        /\ store'[s] = store[s] /\ unsent'[s] = unsent[s]
    BY <1>2, <1>3, <1>6, <2>1
  <2>3. \A x \in WrittenBy(s) : store'[Peer(s)][x] = store[Peer(s)][x]
                                /\ store'[s][x] = store[s][x]
    <3>1. \A x \in WrittenBy(s) : x \in Key /\ x # op.key
      BY <1>1, <2>1 DEF WrittenBy
    <3>2. store[Peer(s)] \in [Key -> Value \union {None}]
      BY <1>3, <2>1
    <3> QED
      BY <2>2, <3>1, <3>2
  <2>4. Behind(s, batch[s], queue[s], unsent[s], net[Peer(s)], incoming[Peer(s)],
               store'[Peer(s)], store'[s], hurt)
    BY <1>4, <2>3, BehindOthers DEF PairBehind
  <2> QED
    BY <1>2, <2>2, <2>4 DEF PairBehind
<1> QED
  BY <1>5, <1>6

\* put or remove queues its operation.
LEMMA SendCatchesUp ==
    ASSUME CaughtUp, NEW t \in Server, SendOperation(t), NEW s \in Server
    PROVE  PairBehind(s)'
<1>1. /\ queue' = [queue EXCEPT ![t] = queue[t] \o unsent[t]]
      /\ unsent' = [unsent EXCEPT ![t] = <<>>]
      /\ UNCHANGED <<batch, net, incoming, store, hurt>>
  BY DEF SendOperation
<1>2. /\ batch \in [Server -> Seq(Op)] /\ queue \in [Server -> Seq(Op)]
      /\ unsent \in [Server -> Seq(Op)]
  BY DEF CaughtUp, Inv, TypeOK
<1>3. PairBehind(s)
  BY DEF CaughtUp
<1>4. CASE s = t
  <2>1. queue'[s] = queue[s] \o unsent[s] /\ unsent'[s] = <<>>
    BY <1>1, <1>2, <1>4
  <2>2. batch[s] \in Seq(Op) /\ queue[s] \in Seq(Op) /\ unsent[s] \in Seq(Op)
    BY <1>2
  <2>3. Behind(s, batch[s], queue[s] \o unsent[s], <<>>, net[Peer(s)], incoming[Peer(s)],
               store[Peer(s)], store[s], hurt)
    BY <1>3, <2>2, BehindSend DEF PairBehind
  <2> QED
    BY <1>1, <2>1, <2>3 DEF PairBehind
<1>5. CASE s # t
  <2>1. queue'[s] = queue[s] /\ unsent'[s] = unsent[s]
    BY <1>1, <1>2, <1>5
  <2> QED
    BY <1>1, <1>3, <2>1 DEF PairBehind
<1> QED
  BY <1>4, <1>5

\* A batch goes out to the peer of the server that wrote it, and to nobody else.
LEMMA SentElsewhere ==
    ASSUME CaughtUp, NEW t \in Server, NEW ops \in Seq(Op), WriteAndSend(t, ops)
    PROVE  /\ batch'[t] = <<>> /\ net'[Peer(t)] = net[Peer(t)] \o <<ops>>
           /\ \A s \in Server : s # t => batch'[s] = batch[s]
                                         /\ net'[Peer(s)] = net[Peer(s)]
<1>1. /\ net' = [net EXCEPT ![Peer(t)] = Append(net[Peer(t)], ops)]
      /\ batch' = [batch EXCEPT ![t] = <<>>]
  BY DEF WriteAndSend
<1>2. batch \in [Server -> Seq(Op)] /\ net \in [Server -> Seq(Seq(Op))]
  BY DEF CaughtUp, Inv, TypeOK
<1>3. Peer(t) \in Server /\ \A s \in Server : s # t => Peer(s) \in Server /\ Peer(s) # Peer(t)
  BY Peers
<1>4. Append(net[Peer(t)], ops) = net[Peer(t)] \o <<ops>>
  <2>1. PICK n : n = net[Peer(t)]
    OBVIOUS
  <2>2. n \in Seq(Seq(Op))
    BY <1>2, <1>3, <2>1
  <2>3. Append(n, ops) = n \o <<ops>>
    BY <2>2, AppendIsConcat
  <2> QED
    BY <2>1, <2>3
<1>5. net'[Peer(t)] = net[Peer(t)] \o <<ops>>
  <2>1. net'[Peer(t)] = Append(net[Peer(t)], ops)
    BY <1>1, <1>2, <1>3
  <2> QED
    BY <1>4, <2>1
<1>6. batch'[t] = <<>>
  BY <1>1, <1>2
<1>7. \A s \in Server : s # t => batch'[s] = batch[s]
  BY <1>1, <1>2
<1>8. \A s \in Server : s # t => net'[Peer(s)] = net[Peer(s)]
  BY <1>1, <1>2, <1>3
<1> QED
  BY <1>5, <1>6, <1>7, <1>8

\* A tick or a flush writes the batch, a flush may find it empty.
LEMMA TickCatchesUp ==
    ASSUME CaughtUp, NEW t \in Server, Tick(t) \/ Flushed(t) \/ Flush(t), NEW s \in Server
    PROVE  PairBehind(s)'
<1>1. PairBehind(s) /\ UNCHANGED <<queue, unsent, incoming, store, hurt>>
  BY DEF CaughtUp, Tick, Flushed, Flush
<1>2. WriteAndSend(t, batch[t]) \/ UNCHANGED <<batch, net>>
  BY DEF Tick, Flushed, Flush
<1>3. CASE UNCHANGED <<batch, net>>
  BY <1>1, <1>3 DEF PairBehind
<1>4. CASE WriteAndSend(t, batch[t]) /\ s # t
  <2>1. batch[t] \in Seq(Op)
    BY DEF CaughtUp, Inv, TypeOK
  <2>2. batch'[s] = batch[s] /\ net'[Peer(s)] = net[Peer(s)]
    BY <1>4, <2>1, SentElsewhere
  <2> QED
    BY <1>1, <2>2 DEF PairBehind
<1>5. CASE WriteAndSend(t, batch[t]) /\ s = t
  <2>1. /\ batch[s] \in Seq(Op) /\ queue[s] \in Seq(Op) /\ unsent[s] \in Seq(Op)
        /\ net[Peer(s)] \in Seq(Seq(Op))
    BY Peers DEF CaughtUp, Inv, TypeOK
  <2>2. batch'[s] = <<>> /\ net'[Peer(s)] = net[Peer(s)] \o <<batch[s]>>
    BY <1>5, <2>1, SentElsewhere
  <2>3. Behind(s, <<>>, queue[s], unsent[s], net[Peer(s)] \o <<batch[s]>>,
               incoming[Peer(s)], store[Peer(s)], store[s], hurt)
    BY <1>1, <2>1, BehindDatagram DEF PairBehind
  <2> QED
    BY <1>1, <2>2, <2>3 DEF PairBehind
<1> QED
  BY <1>2, <1>3, <1>4, <1>5

\* The WAL task takes the first of the channel, and writes the batch if it is full.
LEMMA ReceiveCatchesUp ==
    ASSUME CaughtUp, NEW t \in Server, Receive(t), NEW s \in Server
    PROVE  PairBehind(s)'
<1>. DEFINE ops == Append(batch[t], Head(queue[t]))
<1>1. /\ queue[t] \in Seq(Op) /\ queue[t] # <<>> /\ batch[t] \in Seq(Op)
      /\ queue \in [Server -> Seq(Op)] /\ batch \in [Server -> Seq(Op)]
  BY DEF Receive, CaughtUp, Inv, TypeOK
<1>2. /\ Head(queue[t]) \in Op /\ Tail(queue[t]) \in Seq(Op)
      /\ queue[t] = <<Head(queue[t])>> \o Tail(queue[t])
  BY <1>1, FirstAndRest
<1>3. ops \in Seq(Op) /\ ops = batch[t] \o <<Head(queue[t])>>
  <2>1. PICK b, h : b = batch[t] /\ h = Head(queue[t])
    OBVIOUS
  <2>2. b \in Seq(Op) /\ h \in Op
    BY <1>1, <1>2, <2>1
  <2>3. Append(b, h) \in Seq(Op) /\ Append(b, h) = b \o <<h>>
    BY <2>2, AppendProperties, AppendIsConcat
  <2> QED
    BY <2>1, <2>3
<1>4. /\ queue' = [queue EXCEPT ![t] = Tail(queue[t])]
      /\ UNCHANGED <<unsent, incoming, store, hurt>>
  BY DEF Receive
<1>5. \/ WriteAndSend(t, ops)
      \/ batch' = [batch EXCEPT ![t] = ops] /\ UNCHANGED net
  BY DEF Receive
<1>6. PairBehind(s)
  BY DEF CaughtUp
<1>. HIDE DEF ops
<1>7. CASE s # t
  <2>1. batch'[s] = batch[s] /\ net'[Peer(s)] = net[Peer(s)]
    <3>1. CASE WriteAndSend(t, ops)
      BY <1>3, <1>7, <3>1, SentElsewhere
    <3>2. CASE batch' = [batch EXCEPT ![t] = ops] /\ UNCHANGED net
      BY <1>1, <1>7, <3>2
    <3> QED
      BY <1>5, <3>1, <3>2
  <2>2. queue'[s] = queue[s]
    BY <1>1, <1>4, <1>7
  <2> QED
    BY <1>4, <1>6, <2>1, <2>2 DEF PairBehind
<1>8. CASE s = t
  <2>1. PICK h, r : h = Head(queue[s]) /\ r = Tail(queue[s])
    OBVIOUS
  <2>2. /\ h \in Op /\ r \in Seq(Op) /\ batch[s] \in Seq(Op)
        /\ queue[s] = <<h>> \o r /\ ops = batch[s] \o <<h>>
    BY <1>1, <1>2, <1>3, <1>8, <2>1
  <2>3. queue'[s] = r
    BY <1>1, <1>4, <1>8, <2>1
  <2>4. Behind(s, batch[s], <<h>> \o r, unsent[s], net[Peer(s)], incoming[Peer(s)],
               store[Peer(s)], store[s], hurt)
    BY <1>6, <2>2 DEF PairBehind
  <2>5. Behind(s, batch[s] \o <<h>>, r, unsent[s], net[Peer(s)], incoming[Peer(s)],
               store[Peer(s)], store[s], hurt)
    BY <2>2, <2>4, BehindTake
  <2>6. Behind(s, ops, r, unsent[s], net[Peer(s)], incoming[Peer(s)],
               store[Peer(s)], store[s], hurt)
    BY <2>2, <2>5
  <2>7. CASE batch' = [batch EXCEPT ![t] = ops] /\ UNCHANGED net
    <3>1. batch'[s] = ops
      BY <1>1, <1>8, <2>7
    <3> QED
      BY <1>4, <2>3, <2>6, <2>7, <3>1 DEF PairBehind
  <2>8. CASE WriteAndSend(t, ops)
    <3>1. batch'[s] = <<>> /\ net'[Peer(s)] = net[Peer(s)] \o <<ops>>
      BY <1>3, <1>8, <2>8, SentElsewhere
    <3>2. unsent[s] \in Seq(Op) /\ net[Peer(s)] \in Seq(Seq(Op))
      BY Peers DEF CaughtUp, Inv, TypeOK
    <3>3. Behind(s, <<>>, r, unsent[s], net[Peer(s)] \o <<ops>>, incoming[Peer(s)],
                 store[Peer(s)], store[s], hurt)
      BY <1>3, <2>2, <2>6, <3>2, BehindDatagram
    <3> QED
      BY <1>4, <2>3, <3>1, <3>3 DEF PairBehind
  <2> QED
    BY <1>5, <2>7, <2>8
<1> QED
  BY <1>7, <1>8

\* The receiver takes a datagram, or applies an operation of one.
LEMMA ReceiverCatchesUp ==
    ASSUME CaughtUp, NEW t \in Server, Receiver(t), NEW s \in Server
    PROVE  PairBehind(s)'
<1>1. /\ net \in [Server -> Seq(Seq(Op))] /\ incoming \in [Server -> Seq(Op)]
      /\ store \in [Server -> [Key -> Value \union {None}]]
  BY DEF CaughtUp, Inv, TypeOK
<1>2. PairBehind(s)
  BY DEF CaughtUp
<1>3. t = Peer(s) \/ (t # Peer(s) /\ t = s)
  BY Peers
<1>4. ASSUME RecvFrom(t)
      PROVE  PairBehind(s)'
  <2>1. /\ incoming' = [incoming EXCEPT ![t] = Head(net[t])]
        /\ net' = [net EXCEPT ![t] = Tail(net[t])]
        /\ incoming[t] = <<>> /\ net[t] # <<>>
        /\ UNCHANGED <<store, unsent, queue, batch, hurt>>
    BY <1>4 DEF RecvFrom, taskVars
  <2>2. CASE t # Peer(s)
    <3>1. incoming'[Peer(s)] = incoming[Peer(s)] /\ net'[Peer(s)] = net[Peer(s)]
      BY <1>1, <2>1, <2>2, Peers
    <3> QED
      BY <1>2, <2>1, <3>1 DEF PairBehind
  <2>3. CASE t = Peer(s)
    <3>1. PICK d, r : d = Head(net[t]) /\ r = Tail(net[t])
      OBVIOUS
    <3>2. d \in Seq(Op) /\ r \in Seq(Seq(Op)) /\ net[t] = <<d>> \o r
      <4>1. net[t] \in Seq(Seq(Op)) /\ net[t] # <<>>
        BY <1>1, <2>1
      <4> QED
        BY <3>1, <4>1, FirstAndRest
    <3>3. incoming'[Peer(s)] = d /\ net'[Peer(s)] = r
      BY <1>1, <2>1, <2>3, <3>1
    <3>4. Behind(s, batch[s], queue[s], unsent[s], <<d>> \o r, <<>>,
                 store[Peer(s)], store[s], hurt)
      BY <1>2, <2>1, <2>3, <3>2 DEF PairBehind
    <3>5. Behind(s, batch[s], queue[s], unsent[s], r, d, store[Peer(s)], store[s], hurt)
      BY <3>2, <3>4, BehindRecv
    <3> QED
      BY <2>1, <3>3, <3>5 DEF PairBehind
  <2> QED
    BY <2>2, <2>3
<1>5. ASSUME Apply(t)
      PROVE  PairBehind(s)'
  <2>1. PICK h, r : h = Head(incoming[t]) /\ r = Tail(incoming[t])
    OBVIOUS
  <2>2. h \in Op /\ r \in Seq(Op) /\ incoming[t] = <<h>> \o r
    <3>1. incoming[t] \in Seq(Op) /\ incoming[t] # <<>>
      BY <1>1, <1>5 DEF Apply
    <3> QED
      BY <2>1, <3>1, FirstAndRest
  <2>3. h.key \in Key
    BY <2>2 DEF Op
  <2>4. /\ store' = [store EXCEPT ![t] = [store[t] EXCEPT ![h.key] = h.val]]
        /\ incoming' = [incoming EXCEPT ![t] = r]
        /\ UNCHANGED <<unsent, queue, batch, net, hurt>>
    BY <1>1, <1>5, <2>1, <2>3 DEF Apply, taskVars
  <2>5. CASE t = Peer(s)
    <3>1. /\ store'[Peer(s)] = [store[Peer(s)] EXCEPT ![h.key] = h.val]
          /\ store'[s] = store[s] /\ incoming'[Peer(s)] = r
      BY <1>1, <2>4, <2>5, Peers
    <3>2. Behind(s, batch[s], queue[s], unsent[s], net[Peer(s)], <<h>> \o r,
                 store[Peer(s)], store[s], hurt)
      BY <1>2, <2>2, <2>5 DEF PairBehind
    <3>3. store[Peer(s)] \in [Key -> Value \union {None}]
      BY <1>1, <2>5
    <3>4. Behind(s, batch[s], queue[s], unsent[s], net[Peer(s)], r,
                 [store[Peer(s)] EXCEPT ![h.key] = h.val], store[s], hurt)
      BY <2>2, <3>2, <3>3, BehindApply
    <3> QED
      BY <2>4, <3>1, <3>4 DEF PairBehind
  <2>6. CASE t # Peer(s) /\ t = s
    <3>1. /\ store'[Peer(s)] = store[Peer(s)] /\ incoming'[Peer(s)] = incoming[Peer(s)]
          /\ store'[s] = [store[s] EXCEPT ![h.key] = h.val]
      BY <1>1, <2>4, <2>6, Peers
    <3>2. h.key \in Writes[Peer(s)]
      <4>1. KeysOf(<<h>> \o r) \subseteq Writes[Peer(s)]
        <5>1. PairBehind(Peer(s)) /\ Peer(Peer(s)) = s
          BY Peers DEF CaughtUp
        <5> QED
          BY <2>2, <2>6, <5>1 DEF PairBehind, Behind
      <4>. DEFINE one == <<h>>
      <4>2. one \in Seq(Op) /\ KeysOf(one) = {h.key}
        BY <2>2, KeysOfOne
      <4>. HIDE DEF one
      <4>3. KeysOf(one \o r) = KeysOf(one) \union KeysOf(r)
        BY <2>2, <4>2, KeysOfBoth
      <4>4. KeysOf(one \o r) \subseteq Writes[Peer(s)]
        BY <4>1 DEF one
      <4> QED
        BY <4>2, <4>3, <4>4
    <3>3. \A x \in WrittenBy(s) : store'[Peer(s)][x] = store[Peer(s)][x]
                                  /\ store'[s][x] = store[s][x]
      <4>1. \A x \in WrittenBy(s) : x \in Key /\ x # h.key
        BY <3>2 DEF WrittenBy
      <4>2. store[s] \in [Key -> Value \union {None}]
        BY <1>1
      <4> QED
        BY <3>1, <4>1, <4>2
    <3>4. Behind(s, batch[s], queue[s], unsent[s], net[Peer(s)], incoming[Peer(s)],
                 store'[Peer(s)], store'[s], hurt)
      BY <1>2, <3>3, BehindOthers DEF PairBehind
    <3> QED
      BY <2>4, <3>1, <3>4 DEF PairBehind
  <2> QED
    BY <1>3, <2>5, <2>6
<1> QED
  BY <1>4, <1>5 DEF Receiver

\* Lost, repeated or overtaking: m is what a fault makes of the datagrams n, hit the
\* keys it hurts.
Faulty(n, i, m, hit) ==
    \/ m = RemoveAt(n, i) /\ hit = KeysOf(n[i])
    \/ /\ m = Append(n, n[i])
       /\ hit = KeysOf(n[i]) \intersect KeysIn(SubSeq(n, i + 1, Len(n)))
    \/ /\ m = <<n[i]>> \o RemoveAt(n, i)
       /\ hit = KeysOf(n[i]) \intersect KeysIn(SubSeq(n, 1, i - 1))

\* The keys of the faulty datagram are hurt where the fault makes a difference.
LEMMA FaultHurts ==
    ASSUME NEW n \in Seq(Seq(Op)), NEW i \in 1 .. Len(n), NEW m, NEW hit,
           Faulty(n, i, m, hit), NEW k, NEW v, k \notin hit
    PROVE  ValueAfterAll(m, k, v) = ValueAfterAll(n, k, v)
<1>1. PICK a, c, d : a = SubSeq(n, 1, i - 1) /\ c = SubSeq(n, i + 1, Len(n)) /\ d = n[i]
  OBVIOUS
<1>2. a \in Seq(Seq(Op)) /\ c \in Seq(Seq(Op)) /\ d \in Seq(Op) /\ n = a \o (<<d>> \o c)
  <2>1. /\ SubSeq(n, 1, i - 1) \in Seq(Seq(Op))
        /\ SubSeq(n, i + 1, Len(n)) \in Seq(Seq(Op)) /\ n[i] \in Seq(Op)
        /\ n = SubSeq(n, 1, i - 1) \o (<<n[i]>> \o SubSeq(n, i + 1, Len(n)))
    BY SplitAt
  <2> QED
    BY <1>1, <2>1
<1>3. RemoveAt(n, i) = a \o c
  BY <1>1 DEF RemoveAt
<1>4. CASE m = RemoveAt(n, i) /\ hit = KeysOf(n[i])
  <2>1. m = a \o c /\ k \notin KeysOf(d)
    BY <1>1, <1>3, <1>4
  <2>2. ValueAfterAll(a \o c, k, v) = ValueAfterAll(a \o (<<d>> \o c), k, v)
    BY <1>2, <2>1, LosingKeeps
  <2> QED
    BY <1>2, <2>1, <2>2
<1>5. CASE m = Append(n, n[i]) /\ hit = KeysOf(n[i]) \intersect KeysIn(SubSeq(n, i + 1, Len(n)))
  <2>1. Append(n, d) = n \o <<d>>
    BY <1>2, AppendIsConcat
  <2>2. m = (a \o (<<d>> \o c)) \o <<d>> /\ k \notin KeysOf(d) \intersect KeysIn(c)
    BY <1>1, <1>2, <1>5, <2>1
  <2>3. ValueAfterAll((a \o (<<d>> \o c)) \o <<d>>, k, v) =
            ValueAfterAll(a \o (<<d>> \o c), k, v)
    BY <1>2, <2>2, RepeatingKeeps
  <2> QED
    BY <1>2, <2>2, <2>3
<1>6. CASE /\ m = <<n[i]>> \o RemoveAt(n, i)
           /\ hit = KeysOf(n[i]) \intersect KeysIn(SubSeq(n, 1, i - 1))
  <2>1. m = <<d>> \o (a \o c) /\ k \notin KeysOf(d) \intersect KeysIn(a)
    BY <1>1, <1>3, <1>6
  <2>2. ValueAfterAll(<<d>> \o (a \o c), k, v) = ValueAfterAll(a \o (<<d>> \o c), k, v)
    BY <1>2, <2>1, OvertakingKeeps
  <2> QED
    BY <1>2, <2>1, <2>2
<1> QED
  BY <1>4, <1>5, <1>6 DEF Faulty

\* It brings no key that was not on its way.
LEMMA FaultBringsNoKey ==
    ASSUME NEW n \in Seq(Seq(Op)), NEW i \in 1 .. Len(n), NEW m,
           m = RemoveAt(n, i) \/ m = Append(n, n[i]) \/ m = <<n[i]>> \o RemoveAt(n, i)
    PROVE  KeysIn(m) \subseteq KeysIn(n)
<1>1. PICK a, c, d : a = SubSeq(n, 1, i - 1) /\ c = SubSeq(n, i + 1, Len(n)) /\ d = n[i]
  OBVIOUS
<1>2. a \in Seq(Seq(Op)) /\ c \in Seq(Seq(Op)) /\ d \in Seq(Op) /\ n = a \o (<<d>> \o c)
  <2>1. /\ SubSeq(n, 1, i - 1) \in Seq(Seq(Op))
        /\ SubSeq(n, i + 1, Len(n)) \in Seq(Seq(Op)) /\ n[i] \in Seq(Op)
        /\ n = SubSeq(n, 1, i - 1) \o (<<n[i]>> \o SubSeq(n, i + 1, Len(n)))
    BY SplitAt
  <2> QED
    BY <1>1, <2>1
<1>3. RemoveAt(n, i) = a \o c
  BY <1>1 DEF RemoveAt
<1>4. Append(n, d) = n \o <<d>>
  BY <1>2, AppendIsConcat
<1>. DEFINE one == <<d>>
            ac == a \o c
            oc == one \o c
<1>5. one \in Seq(Seq(Op)) /\ KeysIn(one) = KeysOf(d)
  BY <1>2, KeysInOne
<1>6. m = ac \/ m = n \o one \/ m = one \o ac
  BY <1>1, <1>3, <1>4
<1>7. n = a \o oc
  BY <1>2
<1>. HIDE DEF one
<1>8. ac \in Seq(Seq(Op)) /\ oc \in Seq(Seq(Op))
  BY <1>2, <1>5, ConcatProperties
<1>9. KeysIn(ac) = KeysIn(a) \union KeysIn(c) /\ KeysIn(oc) = KeysIn(one) \union KeysIn(c)
  BY <1>2, <1>5, KeysInBoth
<1>. HIDE DEF ac, oc
<1>10. KeysIn(a \o oc) = KeysIn(a) \union KeysIn(oc)
  BY <1>2, <1>8, KeysInBoth
<1>11. KeysIn(n \o one) = KeysIn(n) \union KeysIn(one)
  BY <1>5, KeysInBoth
<1>12. KeysIn(one \o ac) = KeysIn(one) \union KeysIn(ac)
  BY <1>5, <1>8, KeysInBoth
<1>13. KeysIn(n) = KeysIn(a) \union (KeysIn(one) \union KeysIn(c))
  BY <1>7, <1>9, <1>10
<1> QED
  BY <1>6, <1>9, <1>11, <1>12, <1>13

\* The network loses, repeats or reorders datagrams.
LEMMA NetworkCatchesUp ==
    ASSUME CaughtUp, NEW t \in Server, NEW i \in DOMAIN net[t],
           Lose(t, i) \/ Repeat(t, i) \/ Overtake(t, i), NEW s \in Server
    PROVE  PairBehind(s)'
<1>1. PICK n : n = net[t]
  OBVIOUS
<1>2. net \in [Server -> Seq(Seq(Op))] /\ n \in Seq(Seq(Op)) /\ i \in 1 .. Len(n)
  BY <1>1, LenProperties DEF CaughtUp, Inv, TypeOK
<1>3. PICK m, hit : NetFault(t, m, hit) /\ Faulty(n, i, m, hit)
  BY <1>1 DEF Lose, Repeat, Overtake, Faulty
<1>4. /\ net' = [net EXCEPT ![t] = m] /\ hurt' = hurt \union hit
      /\ UNCHANGED <<store, unsent, queue, batch, incoming>>
  BY <1>3 DEF NetFault, taskVars
<1>5. PairBehind(s)
  BY DEF CaughtUp
<1>6. CASE t = Peer(s)
  <2>1. net'[Peer(s)] = m
    BY <1>2, <1>4, <1>6
  <2>2. \A k \in WrittenBy(s) \ hit : \A v : ValueAfterAll(m, k, v) = ValueAfterAll(n, k, v)
    <3>. TAKE k \in WrittenBy(s) \ hit
    <3>. TAKE v
    <3>1. k \notin hit
      OBVIOUS
    <3>2. Faulty(n, i, m, hit)
      BY <1>3
    <3>3. n \in Seq(Seq(Op)) /\ i \in 1 .. Len(n)
      BY <1>2
    <3> QED
      BY <3>1, <3>2, <3>3, FaultHurts
  <2>3. Behind(s, batch[s], queue[s], unsent[s], n, incoming[Peer(s)],
               store[Peer(s)], store[s], hurt)
    BY <1>1, <1>5, <1>6 DEF PairBehind
  <2>4. KeysIn(m) \subseteq KeysIn(n)
    BY <1>2, <1>3, FaultBringsNoKey DEF Faulty
  <2>5. KeysIn(m) \subseteq Writes[s]
    BY <2>3, <2>4 DEF Behind
  <2>6. Behind(s, batch[s], queue[s], unsent[s], m, incoming[Peer(s)],
               store[Peer(s)], store[s], hurt \union hit)
    BY <2>2, <2>3, <2>5, BehindFault
  <2> QED
    BY <1>4, <2>1, <2>6 DEF PairBehind
<1>7. CASE t # Peer(s)
  <2>1. net'[Peer(s)] = net[Peer(s)]
    BY <1>2, <1>4, <1>7, Peers
  <2>2. Behind(s, batch[s], queue[s], unsent[s], net[Peer(s)], incoming[Peer(s)],
               store[Peer(s)], store[s], hurt \union hit)
    BY <1>5, BehindHurt DEF PairBehind
  <2> QED
    BY <1>4, <2>1, <2>2 DEF PairBehind
<1> QED
  BY <1>6, <1>7

-----------------------------------------------------------------------------
(* The theorem of replication *)

\* Nothing is on its way between equal stores.
LEMMA InitCaughtUp == Init => CaughtUp
<1>. SUFFICES ASSUME Init
              PROVE  CaughtUp
  OBVIOUS
<1>1. Inv
  BY InitInv
<1>2. ASSUME NEW s \in Server
      PROVE  Behind(s, <<>>, <<>>, <<>>, <<>>, <<>>, store[Peer(s)], store[s], hurt)
  <2>1. ASSUME NEW k \in WrittenBy(s)
        PROVE  AtPeer(<<>>, <<>>, <<>>, <<>>, <<>>, store[Peer(s)][k], k) = store[s][k]
    <3>1. k \in Key /\ store[Peer(s)][k] = None /\ store[s][k] = None
      BY Peers DEF WrittenBy, Init
    <3>2. (<<>> \o <<>>) \o <<>> = <<>>
      BY ConcatEmptySeq, EmptySeq
    <3>3. \A v : ValueAfter(<<>>, k, v) = v /\ ValueAfterAll(<<>>, k, v) = v
      BY NoKeys, AfterAbsent, AllAbsent
    <3> QED
      BY <3>1, <3>2, <3>3 DEF AtPeer
  <2> QED
    BY <2>1, NoKeys DEF Behind
<1>3. ASSUME NEW s \in Server
      PROVE  PairBehind(s)
  <2>1. /\ batch[s] = <<>> /\ queue[s] = <<>> /\ unsent[s] = <<>>
        /\ net[Peer(s)] = <<>> /\ incoming[Peer(s)] = <<>>
    BY Peers DEF Init
  <2> QED
    BY <1>2, <2>1 DEF PairBehind
<1> QED
  BY <1>1, <1>3 DEF CaughtUp

\* Every pair of servers is behind by exactly what is on its way, in every state.
THEOREM ReplicationInvariance == Spec => []CaughtUp
<1>1. Init => CaughtUp
  BY InitCaughtUp
<1>2. CaughtUp /\ Inv' /\ [Next]_vars => CaughtUp'
  <2>. SUFFICES ASSUME CaughtUp, Inv', [Next]_vars, NEW s \in Server
                PROVE  PairBehind(s)'
    BY DEF CaughtUp
  <2>1. ASSUME NEW t \in Server, Client(t)
        PROVE  PairBehind(s)'
    BY <2>1, CallCatchesUp, SendCatchesUp, TickCatchesUp DEF Client
  <2>2. ASSUME NEW t \in Server, WalTask(t)
        PROVE  PairBehind(s)'
    BY <2>2, TickCatchesUp, ReceiveCatchesUp DEF WalTask
  <2>3. ASSUME NEW t \in Server, Receiver(t)
        PROVE  PairBehind(s)'
    BY <2>3, ReceiverCatchesUp
  <2>4. ASSUME NEW t \in Server, Network(t)
        PROVE  PairBehind(s)'
    BY <2>4, NetworkCatchesUp DEF Network
  <2>5. CASE UNCHANGED vars
    BY <2>5 DEF vars, taskVars, CaughtUp, PairBehind
  <2> QED
    BY <2>1, <2>2, <2>3, <2>4, <2>5 DEF Next
<1>3. Spec => []Inv
  BY Invariance
<1> QED
  BY <1>1, <1>2, <1>3, PTL DEF Spec

\* On a key that one server writes and no network fault touched, the peer's store is
\* behind by exactly the operations in hand, in the channel, in the batch and in
\* datagrams: whatever the interleaving of clients, ticks, flushes and receivers, and
\* whether or not wal.bin could be written.
THEOREM PeerCatchesUp == Spec => []CatchesUp
<1>1. CaughtUp => CatchesUp
  BY DEF CaughtUp, PairBehind, Behind, AtPeer, CatchesUp, ValueAtPeer
<1> QED
  BY <1>1, ReplicationInvariance, PTL
=============================================================================
