-------------------------- MODULE TxnEngineProofs --------------------------
(***************************************************************************)
(* Proofs about TxnEngine, for every table, every number of transactions   *)
(* and every length of statement.                                          *)
(***************************************************************************)
EXTENDS TxnEngine, SequenceTheorems, TLAPS

USE RowAssumption, BoundAssumption

-----------------------------------------------------------------------------
(* The inductive invariant, one conjunct per idea *)

Statements == {"insert", "update", "delete"}

\* Which variables of the running call are in use, and that the rowids an
\* INSERT is going to take exist.
CallOK ==
    /\ pc = "insert" => nextRowid + Len(inserts) - 1 <= MaxRowid
    /\ pc # "insert" => inserts = <<>>
    /\ pc \notin {"update", "delete"} => todo = NoRows
    /\ pc = "idle" => tx = Stale /\ ~shadow
    /\ pc \in Statements => tx \in active \union {Stale}
    /\ pc \in Statements /\ shadow => tx \in active
    /\ pc = "undo" => tx \in TxId \ active

\* Transactions whose journal still counts: the open ones and the one being
\* undone.
Unfinished == {t \in TxId : t \in active \/ (pc = "undo" /\ tx = t)}

\* An id is fresh until it is handed out, and nothing is left of a finished one.
IdsOK ==
    \A t \in TxId :
        /\ t \in Unfinished => t < nextTx
        /\ t \notin Unfinished => journal[t] = <<>> /\ foreign[t] = {}

\* A rowid not handed out yet occurs nowhere.
FreshOK ==
    /\ \A r \in RowId : r >= nextRowid => store[r] = NoRow
    /\ \A t \in TxId : \A i \in 1 .. Len(journal[t]) :
           journal[t][i].rowid < nextRowid

\* The rows UPDATE and DELETE copied before their first write are still what
\* the table holds when their turn comes.
PendingCurrent == \A r \in RowId : todo[r] # NoRow => todo[r] = store[r]

\* Nobody else writes while an autocommit statement runs.
ShadowAlone == shadow => foreign[tx] = {}

\* Outside the rows F, undoing journal j on table s ends in table b: the first
\* entry about a row holds what b has, and a row without entry is as in b.
Restores(j, s, b, F) ==
    \A r \in RowId \ F :
        /\ (\A i \in 1 .. Len(j) : j[i].rowid # r) => s[r] = b[r]
        /\ \A i \in 1 .. Len(j) :
               j[i].rowid = r /\ (\A k \in 1 .. i - 1 : j[k].rowid # r)
                   => j[i].old = b[r]

\* A deleted row, foreign writers aside, stays away and is not touched again.
DeletesLast(j, s, F) ==
    \A i \in 1 .. Len(j) : j[i].op = "Delete" /\ j[i].rowid \notin F =>
        /\ s[j[i].rowid] = NoRow
        /\ \A k \in i + 1 .. Len(j) : j[k].rowid # j[i].rowid

JournalsOK ==
    \A t \in Unfinished :
        /\ Restores(journal[t], store, base[t], foreign[t])
        /\ DeletesLast(journal[t], store, foreign[t])

\* Index ix against table s, whose rows in c have clashed.
IndexAgrees(ix, s, c) ==
    /\ Indexed => \A v \in Row : \A r \in RowId : s[r] = v => r \in ix[v]
    /\ \A v \in Row : \A r \in ix[v] : s[r] # v => r \in c
    /\ ~Indexed => \A v \in Row : ix[v] = {}

IndexOK == IndexAgrees(index, store, clashed)

\* Table b is what s becomes when all entries of j after the k-th are undone.
Rewound(j, s, k, b) ==
    \A r \in RowId :
        /\ (\A i \in k + 1 .. Len(j) : j[i].rowid # r) => b[r] = s[r]
        /\ \A i \in k + 1 .. Len(j) :
               j[i].rowid = r /\ (\A m \in k + 1 .. i - 1 : j[m].rowid # r)
                   => b[r] = j[i].old

UniqueTable(s) ==
    \A p, q \in RowId : p # q /\ s[p] = s[q] => s[p] \in {Null, NoRow}

\* Every table that undoing a transaction alone on the engine passes through
\* has no duplicates.
UniqueOK ==
    Unique /\ ~interfered =>
        /\ UniqueTable(store)
        /\ pc = "undo" => foreign[tx] = {}
        /\ \A t \in Unfinished : foreign[t] = {} =>
               \A k \in 0 .. Len(journal[t]) : \A b \in Rows :
                   Rewound(journal[t], store, k, b) => UniqueTable(b)

\* What concerns transactions and what concerns the row at hand.
TxnInv == IdsOK /\ FreshOK /\ ShadowAlone /\ JournalsOK /\ UniqueOK
Inv    == TypeOK /\ CallOK /\ TxnInv /\ PendingCurrent /\ IndexOK

-----------------------------------------------------------------------------
(* Type correctness *)

\* What the two halves of a call that end it leave behind has its type.
LEMMA BackToIdleType ==
  ASSUME BackToIdle
  PROVE  /\ pc' \in Pcs /\ tx' \in TxId \union {Stale} /\ shadow' \in BOOLEAN
         /\ inserts' \in Seq(Row) /\ todo' \in Rows /\ setf' \in [Row -> Row]
<1>1. /\ pc' \in Pcs /\ tx' \in TxId \union {Stale} /\ shadow' \in BOOLEAN
      /\ inserts' \in Seq(Row)
  BY EmptySeq DEF BackToIdle, Pcs
<1>2. todo' \in Rows
  BY DEF BackToIdle, Rows, NoRows
<1>3. setf' \in [Row -> Row]
  BY DEF BackToIdle, NoSet
<1> QED
  BY <1>1, <1>2, <1>3

\* A finished transaction leaves the transaction variables with their type.
LEMMA ForgetType ==
  ASSUME TypeOK, NEW t, Forget(t)
  PROVE  /\ active' \in SUBSET TxId /\ journal' \in [TxId -> Seq(UndoOp)]
         /\ base' \in [TxId -> Rows] /\ foreign' \in [TxId -> SUBSET RowId]
<1>1. /\ active' \in SUBSET TxId
      /\ foreign' \in [TxId -> SUBSET RowId]
  BY DEF Forget, TypeOK
<1>2. journal' \in [TxId -> Seq(UndoOp)]
  BY EmptySeq DEF Forget, TypeOK
<1>3. NoRows \in Rows
  BY DEF NoRows, Rows
<1>4. base' \in [TxId -> Rows]
  BY <1>3 DEF Forget, TypeOK
<1> QED
  BY <1>1, <1>2, <1>4

\* Journaling a write keeps the journals well typed.
LEMMA RecordType ==
  ASSUME TypeOK, NEW op \in {"Insert", "Delete", "Update"}, NEW r \in RowId,
         NEW old \in Row \union {NoRow}, op = "Insert" <=> old = NoRow,
         Record(op, r, old)
  PROVE  journal' \in [TxId -> Seq(UndoOp)]
<1> DEFINE e == [op |-> op, rowid |-> r, old |-> old]
<1>1. e \in UndoOp
  BY RowAssumption DEF UndoOp
<1>2. \A t \in TxId : Append(journal[t], e) \in Seq(UndoOp)
  BY <1>1 DEF TypeOK
<1> HIDE DEF e
<1>3. journal' = IF tx \in active THEN [journal EXCEPT ![tx] = Append(@, e)]
                                  ELSE journal
  BY DEF Record, e
<1> QED
  BY <1>2, <1>3 DEF TypeOK

\* Noting a write as foreign to the others keeps the type.
LEMMA TouchType ==
  ASSUME TypeOK, NEW r \in RowId, Touch(r)
  PROVE  foreign' \in [TxId -> SUBSET RowId]
BY DEF Touch, TypeOK

\* The three index operations return indexes.
LEMMA IndexType ==
  ASSUME NEW ix \in [Row -> SUBSET RowId], NEW row \in Row, NEW r \in RowId,
         NEW old \in Row \union {NoRow}
  PROVE  /\ AddToIndex(ix, row, r) \in [Row -> SUBSET RowId]
         /\ RemoveFromIndex(ix, row, r) \in [Row -> SUBSET RowId]
         /\ MoveInIndex(ix, old, row, r) \in [Row -> SUBSET RowId]
BY DEF AddToIndex, RemoveFromIndex, MoveInIndex

\* The last entry of a nonempty sequence and the sequence without it.
LEMMA LastFrontType ==
  ASSUME NEW S, NEW s \in Seq(S), s # <<>>
  PROVE  /\ Last(s) \in S /\ Last(s) = s[Len(s)]
         /\ Front(s) \in Seq(S) /\ Len(Front(s)) = Len(s) - 1
         /\ \A i \in 1 .. Len(s) - 1 : Front(s)[i] = s[i]
<1>1. Len(s) \in Nat \ {0}
  BY EmptySeq
<1>2. \A i \in 1 .. Len(s) - 1 : s[i] \in S
  BY <1>1, ElementOfSeq
<1>3. s[Len(s)] \in S
  BY <1>1, ElementOfSeq
<1>4. /\ SubSeq(s, 1, Len(s) - 1) \in Seq(S)
      /\ Len(SubSeq(s, 1, Len(s) - 1)) = Len(s) - 1
      /\ \A i \in 1 .. Len(s) - 1 : SubSeq(s, 1, Len(s) - 1)[i] = s[i]
  <2> DEFINE n == Len(s) - 1
  <2>1. n \in Int /\ \A i \in 1 .. n : s[i] \in S
    BY <1>1, <1>2
  <2> HIDE DEF n
  <2>2. /\ SubSeq(s, 1, n) \in Seq(S)
        /\ Len(SubSeq(s, 1, n)) = IF 1 <= n THEN n - 1 + 1 ELSE 0
        /\ \A i \in 1 .. n - 1 + 1 : SubSeq(s, 1, n)[i] = s[1 + i - 1]
    BY <2>1, SubSeqProperties
  <2>3. n >= 0 /\ \A i \in 1 .. n : 1 + i - 1 = i
    BY <1>1 DEF n
  <2>4. Len(SubSeq(s, 1, n)) = n /\ \A i \in 1 .. n : SubSeq(s, 1, n)[i] = s[i]
    BY <2>1, <2>2, <2>3
  <2> QED
    BY <2>2, <2>4 DEF n
<1> QED
  BY <1>3, <1>4 DEF Last, Front

\* A SET clause yields a row.
LEMMA SetfType ==
  ASSUME TypeOK, NEW old \in Row
  PROVE  setf[old] \in Row
BY DEF TypeOK

\* A row that fails validation.
LEMMA FailType ==
  ASSUME TypeOK, CallOK, pc \in Statements, Fail
  PROVE  /\ nextTx' = nextTx /\ active' \subseteq active
         /\ journal' = journal /\ base' = base
         /\ foreign' = foreign /\ clashed' = clashed
         /\ interfered' \in BOOLEAN
         /\ pc' \in Pcs \ Statements
         /\ pc' = "idle" => tx' = Stale /\ ~shadow'
         /\ pc' = "undo" => tx' = tx /\ tx \in active /\ active' = active \ {tx}
         /\ tx' \in TxId \union {Stale} /\ shadow' \in BOOLEAN
         /\ inserts' = <<>> /\ todo' = NoRows /\ setf' = NoSet
<1>1. CASE shadow
  <2>1. tx \in active /\ active \subseteq TxId
    BY <1>1 DEF CallOK, TypeOK
  <2> QED
    BY <1>1, <2>1 DEF Fail, StartUndo, TypeOK, Pcs, Statements
<1>2. CASE ~shadow
  BY <1>2 DEF Fail, BackToIdle, TypeOK, Pcs, Statements, txnVars, ghostVars
<1> QED
  BY <1>1, <1>2

\* The values the call variables have between two calls.
LEMMA RestType ==
  /\ NoRows \in Rows /\ NoSet \in [Row -> Row]
  /\ <<>> \in Seq(Row) /\ <<>> \in Seq(UndoOp)
BY EmptySeq DEF NoRows, Rows, NoSet

\* A new transaction has a free id and keeps the types.
LEMMA OpenType ==
  ASSUME TypeOK, nextTx <= MaxTx, Open(nextTx)
  PROVE  /\ nextTx \in TxId /\ nextTx' \in 1 .. MaxTx + 1
         /\ active' \in SUBSET TxId /\ nextTx \in active'
         /\ base' \in [TxId -> Rows]
BY DEF TypeOK, Open, TxId

\* What a statement finds and leaves when it starts.
LEMMA StartType ==
  ASSUME TypeOK, CallOK, NEW n, StartStatement(n)
  PROVE  /\ nextTx' \in 1 .. MaxTx + 1 /\ active' \in SUBSET TxId
         /\ base' \in [TxId -> Rows]
         /\ tx' \in TxId \union {Stale} /\ shadow' \in BOOLEAN
         /\ tx' \in active' \union {Stale} /\ (shadow' => tx' \in active')
         /\ UNCHANGED <<store, index, nextRowid, journal, foreign, clashed,
                       interfered>>
         /\ pc = "idle" /\ inserts = <<>> /\ todo = NoRows
<1>1. CASE Autocommit
  BY <1>1, OpenType DEF StartStatement, Autocommit, TypeOK, CallOK, tableVars
<1>2. CASE \E t \in TxId \union {Stale} : Under(t, n)
  BY <1>2 DEF StartStatement, Under, TypeOK, CallOK, tableVars
<1> QED
  BY <1>1, <1>2 DEF StartStatement

\* TypeOK and CallOK together are preserved by every step.
LEMMA TypeStep ==
  ASSUME TypeOK, CallOK, Next
  PROVE  TypeOK' /\ CallOK'
<1> USE DEF Statements, Pcs
<1>1. CASE Begin
  BY <1>1, OpenType DEF Begin, TypeOK, CallOK, tableVars, callVars
<1>2. ASSUME NEW t \in TxId, Commit(t)  PROVE TypeOK' /\ CallOK'
  <2>1. /\ active' \in SUBSET TxId /\ journal' \in [TxId -> Seq(UndoOp)]
        /\ base' \in [TxId -> Rows] /\ foreign' \in [TxId -> SUBSET RowId]
    BY <1>2, ForgetType DEF Commit
  <2> QED
    BY <1>2, <2>1 DEF Commit, TypeOK, CallOK, tableVars, callVars
<1>3. ASSUME NEW t \in TxId, Rollback(t)  PROVE TypeOK' /\ CallOK'
  BY <1>3 DEF Rollback, StartUndo, TypeOK, CallOK, tableVars
<1>4. ASSUME NEW n \in 1 .. MaxInsert, NEW rows \in [1 .. n -> Row],
             ExecuteInsert(rows)
      PROVE  TypeOK' /\ CallOK'
  <2>1. rows \in Seq(Row)
    BY <1>4
  <2>2. StartStatement(Len(rows))
    BY <1>4 DEF ExecuteInsert
  <2> QED
    BY <1>4, <2>1, <2>2, StartType DEF ExecuteInsert, TypeOK, CallOK
<1>5. ASSUME NEW match \in SUBSET Live, Collect(match)
      PROVE  /\ StartStatement(Cardinality(match)) /\ todo' \in Rows
             /\ inserts' = inserts
  BY <1>5 DEF Collect, TypeOK, Rows
<1>6. ASSUME NEW match \in SUBSET Live, NEW f \in SetExprs,
             ExecuteUpdate(match, f)
      PROVE  TypeOK' /\ CallOK'
  <2>1. f \in [Row -> Row]
    BY RowAssumption
  <2> QED
    BY <1>5, <1>6, <2>1, StartType DEF ExecuteUpdate, TypeOK, CallOK
<1>7. ASSUME NEW match \in SUBSET Live, ExecuteDelete(match)
      PROVE  TypeOK' /\ CallOK'
  BY <1>5, <1>7, StartType DEF ExecuteDelete, TypeOK, CallOK
<1>8. ASSUME NEW r \in RowId, NEW x \in Row \union {NoRow}
      PROVE  [store EXCEPT ![r] = x] \in Rows /\ [todo EXCEPT ![r] = x] \in Rows
  BY DEF TypeOK, Rows
<1>9. CASE InsertRow
  <2>1. /\ nextRowid \in RowId /\ nextRowid' \in 1 .. MaxRowid + 1
        /\ Head(inserts) \in Row /\ Tail(inserts) \in Seq(Row)
        /\ Len(Tail(inserts)) = Len(inserts) - 1 /\ Len(inserts) \in Nat
    BY <1>9, EmptySeq, HeadTailProperties DEF InsertRow, TypeOK, CallOK, RowId
  <2>2. CASE Validates(Head(inserts), nextRowid)
    <3>1. store' \in Rows
      BY <1>8, <1>9, <2>1, <2>2 DEF InsertRow
    <3>2. index' \in [Row -> SUBSET RowId]
      <4>1. index' = AddToIndex(index, Head(inserts), nextRowid)
        BY <1>9, <2>2 DEF InsertRow
      <4> QED
        BY <2>1, <4>1, IndexType DEF TypeOK
    <3>3. journal' \in [TxId -> Seq(UndoOp)]
      BY <1>9, <2>1, <2>2, RecordType DEF InsertRow
    <3>4. foreign' \in [TxId -> SUBSET RowId]
      BY <1>9, <2>1, <2>2, TouchType DEF InsertRow
    <3>5. TypeOK'
      BY <1>9, <2>1, <2>2, <3>1, <3>2, <3>3, <3>4 DEF InsertRow, TypeOK
    <3>6. CallOK'
      BY <1>9, <2>1, <2>2 DEF InsertRow, TypeOK, CallOK
    <3> QED
      BY <3>5, <3>6
  <2>3. CASE ~Validates(Head(inserts), nextRowid)
    <3>1. Fail /\ UNCHANGED <<store, index>>
      BY <1>9, <2>3 DEF InsertRow
    <3> QED
      BY <1>9, <2>1, <3>1, FailType, RestType DEF InsertRow, TypeOK, CallOK
  <2> QED
    BY <2>2, <2>3
<1>10. ASSUME NEW r \in RowId, UpdateRow(r)  PROVE TypeOK' /\ CallOK'
  <2>1. todo[r] \in Row /\ setf[todo[r]] \in Row
    BY <1>10 DEF UpdateRow, TypeOK, Rows
  <2>2. CASE Validates(setf[todo[r]], r)
    <3>1. store' \in Rows /\ todo' \in Rows
      <4>1. /\ store' = [store EXCEPT ![r] = setf[todo[r]]]
            /\ todo' = [todo EXCEPT ![r] = NoRow]
        BY <1>10, <2>2 DEF UpdateRow
      <4> QED
        BY <1>8, <2>1, <4>1
    <3>2. index' \in [Row -> SUBSET RowId]
      <4>1. index' = MoveInIndex(index, todo[r], setf[todo[r]], r)
        BY <1>10, <2>2 DEF UpdateRow
      <4> QED
        BY <2>1, <4>1, IndexType DEF TypeOK
    <3>3. journal' \in [TxId -> Seq(UndoOp)]
      BY <1>10, <2>1, <2>2, RecordType, RowAssumption DEF UpdateRow
    <3>4. foreign' \in [TxId -> SUBSET RowId]
      BY <1>10, <2>1, <2>2, TouchType DEF UpdateRow
    <3> QED
      BY <1>10, <2>1, <2>2, <3>1, <3>2, <3>3, <3>4 DEF UpdateRow, TypeOK, CallOK
  <2>3. CASE ~Validates(setf[todo[r]], r)
    <3>1. Fail /\ UNCHANGED <<store, index, nextRowid>>
      BY <1>10, <2>3 DEF UpdateRow
    <3> QED
      BY <1>10, <2>1, <3>1, FailType, RestType DEF UpdateRow, TypeOK, CallOK
  <2> QED
    BY <2>2, <2>3
<1>11. ASSUME NEW r \in RowId, DeleteRow(r)  PROVE TypeOK' /\ CallOK'
  <2>1. todo[r] \in Row
    BY <1>11 DEF DeleteRow, TypeOK, Rows
  <2>2. /\ store' \in Rows /\ todo' \in Rows
        /\ index' \in [Row -> SUBSET RowId]
        /\ journal' \in [TxId -> Seq(UndoOp)]
        /\ foreign' \in [TxId -> SUBSET RowId]
    BY <1>8, <1>11, <2>1, IndexType, RecordType, TouchType, RowAssumption
       DEF DeleteRow, TypeOK
  <2> QED
    BY <1>11, <2>2 DEF DeleteRow, TypeOK, CallOK
<1>12. CASE StatementDone
  <2>1. /\ active' \in SUBSET TxId /\ journal' \in [TxId -> Seq(UndoOp)]
        /\ base' \in [TxId -> Rows] /\ foreign' \in [TxId -> SUBSET RowId]
    <3>1. CASE shadow
      BY <1>12, <3>1, ForgetType DEF StatementDone
    <3>2. CASE ~shadow
      BY <1>12, <3>2 DEF StatementDone, TypeOK
    <3> QED
      BY <3>1, <3>2
  <2>2. BackToIdle /\ UNCHANGED <<store, index, nextRowid, nextTx, clashed, interfered>>
    BY <1>12 DEF StatementDone, tableVars
  <2> QED
    BY <2>1, <2>2, BackToIdleType DEF BackToIdle, TypeOK, CallOK
<1>13. CASE UndoStep
  <2> DEFINE e == Last(journal[tx])
  <2>1. /\ tx \in TxId /\ journal[tx] \in Seq(UndoOp) /\ journal[tx] # <<>>
    BY <1>13 DEF UndoStep, TypeOK, CallOK
  <2>2. e \in UndoOp /\ Front(journal[tx]) \in Seq(UndoOp)
    BY <2>1, LastFrontType
  <2>3. /\ e.rowid \in RowId /\ e.old \in Row \union {NoRow}
        /\ e.op # "Insert" => e.old \in Row
        /\ store[e.rowid] \in Row \union {NoRow}
    BY <2>2 DEF UndoOp, TypeOK, Rows
  <2> HIDE DEF e
  <2>4. store' \in Rows /\ index' \in [Row -> SUBSET RowId]
    <3>1. CASE e.op = "Insert" /\ UndoInsert(e.rowid)
      BY <1>8, <2>3, <3>1, IndexType DEF UndoInsert, TypeOK
    <3>2. CASE e.op = "Delete" /\ UndoDelete(e.rowid, e.old)
      BY <1>8, <2>3, <3>2, IndexType DEF UndoDelete, TypeOK
    <3>3. CASE e.op = "Update" /\ UndoUpdate(e.rowid, e.old)
      BY <1>8, <2>3, <3>3, IndexType DEF UndoUpdate, TypeOK
    <3> QED
      BY <1>13, <3>1, <3>2, <3>3 DEF UndoStep, e
  <2>5. foreign' \in [TxId -> SUBSET RowId] /\ clashed' \in SUBSET RowId
    BY <1>13, <2>3, TouchType DEF UndoStep, TypeOK, e
  <2>6. journal' \in [TxId -> Seq(UndoOp)]
    BY <1>13, <2>2 DEF UndoStep, TypeOK
  <2> QED
    BY <1>13, <2>4, <2>5, <2>6 DEF UndoStep, TypeOK, CallOK, callVars
<1>14. CASE UndoDone
  <2>1. /\ active' \in SUBSET TxId /\ journal' \in [TxId -> Seq(UndoOp)]
        /\ base' \in [TxId -> Rows] /\ foreign' \in [TxId -> SUBSET RowId]
    BY <1>14, ForgetType DEF UndoDone
  <2>2. BackToIdle /\ UNCHANGED <<store, index, nextRowid, nextTx, clashed, interfered>>
    BY <1>14 DEF UndoDone, tableVars
  <2> QED
    BY <2>1, <2>2, BackToIdleType DEF BackToIdle, TypeOK, CallOK
<1> QED
  BY <1>1, <1>2, <1>3, <1>4, <1>6, <1>7, <1>9, <1>10, <1>11, <1>12, <1>13, <1>14
     DEF Next

\* TypeOK and CallOK hold at first.
LEMMA TypeInit == Init => TypeOK /\ CallOK
<1> SUFFICES ASSUME Init PROVE TypeOK /\ CallOK
  OBVIOUS
<1>1. {} \in SUBSET RowId /\ {} \in SUBSET TxId
  OBVIOUS
<1>2. 1 \in 1 .. MaxRowid + 1 /\ 1 \in 1 .. MaxTx + 1
  BY BoundAssumption
<1>3. TypeOK
  BY <1>1, <1>2, RestType DEF Init, TypeOK, Pcs
<1> QED
  BY <1>3 DEF Init, CallOK, Statements

\* TypeOK and CallOK survive a stuttering step.
LEMMA TypeStutter == TypeOK /\ CallOK /\ UNCHANGED vars => TypeOK' /\ CallOK'
BY DEF vars, tableVars, txnVars, callVars, ghostVars, TypeOK, CallOK

\* Every variable keeps its type, and in particular no statement and no
\* rollback reaches a rowid or a transaction id that was never handed out.
THEOREM TypeCorrect == Spec => []TypeOK
<1>1. TypeOK /\ CallOK /\ [Next]_vars => (TypeOK /\ CallOK)'
  BY TypeStep, TypeStutter
<1> QED
  BY TypeInit, <1>1, PTL DEF Spec

-----------------------------------------------------------------------------
(* Lemmas about journals: what one write by the owner, one write by somebody *)
(* else and one undo do to the three predicates.                             *)

\* A journal with one entry more.
LEMMA AppendFacts ==
  ASSUME NEW j \in Seq(UndoOp), NEW e \in UndoOp
  PROVE  /\ Append(j, e) \in Seq(UndoOp) /\ Len(j) \in Nat
         /\ Len(Append(j, e)) = Len(j) + 1 /\ Append(j, e)[Len(j) + 1] = e
         /\ \A i \in 1 .. Len(j) : Append(j, e)[i] = j[i]
BY AppendProperties

\* A journal without its last entry.
LEMMA FrontFacts ==
  ASSUME NEW j \in Seq(UndoOp), j # <<>>
  PROVE  /\ Front(j) \in Seq(UndoOp) /\ Len(j) - 1 \in Nat
         /\ Len(Front(j)) = Len(j) - 1 /\ Len(j) = (Len(j) - 1) + 1
         /\ Last(j) \in UndoOp /\ Last(j) = j[(Len(j) - 1) + 1]
         /\ \A i \in 1 .. Len(j) - 1 : Front(j)[i] = j[i]
BY LastFrontType, EmptySeq

\* A transaction's own write keeps its journal able to restore.
LEMMA RestoresOwn ==
  ASSUME NEW j \in Seq(UndoOp), NEW s \in Rows, NEW b \in Rows,
         NEW F \in SUBSET RowId, NEW e \in UndoOp, NEW x,
         e.rowid \in RowId, e.old = s[e.rowid], Restores(j, s, b, F)
  PROVE  Restores(Append(j, e), [s EXCEPT ![e.rowid] = x], b, F)
<1> DEFINE n == Len(j)
           a == Append(j, e)
           s1 == [s EXCEPT ![e.rowid] = x]
<1>1. /\ n \in Nat /\ Len(a) = n + 1 /\ a[n + 1] = e
      /\ \A i \in 1 .. n : a[i] = j[i]
  BY AppendFacts
<1> HIDE DEF a
<1>2. \A p \in RowId : p # e.rowid => s1[p] = s[p]
  BY DEF Rows
<1> HIDE DEF s1
<1> SUFFICES ASSUME NEW p \in RowId \ F
             PROVE  /\ (\A i \in 1 .. n + 1 : a[i].rowid # p) => s1[p] = b[p]
                    /\ \A i \in 1 .. n + 1 :
                         a[i].rowid = p /\ (\A k \in 1 .. i - 1 : a[k].rowid # p)
                           => a[i].old = b[p]
  BY <1>1 DEF Restores, a, s1
<1>3. ASSUME \A i \in 1 .. n : j[i].rowid # p  PROVE s[p] = b[p]
  BY <1>3 DEF Restores
<1>4. ASSUME \A i \in 1 .. n + 1 : a[i].rowid # p  PROVE s1[p] = b[p]
  <2>1. e.rowid # p /\ \A i \in 1 .. n : j[i].rowid # p
    BY <1>1, <1>4
  <2> QED
    BY <1>2, <1>3, <2>1
<1>5. ASSUME NEW i \in 1 .. n + 1, a[i].rowid = p,
             \A k \in 1 .. i - 1 : a[k].rowid # p
      PROVE  a[i].old = b[p]
  <2>1. CASE i = n + 1
    <3>1. \A k \in 1 .. n : j[k].rowid # p
      BY <1>1, <1>5, <2>1
    <3> QED
      BY <1>1, <1>3, <1>5, <2>1, <3>1
  <2>2. CASE i \in 1 .. n
    <3>1. j[i].rowid = p /\ \A k \in 1 .. i - 1 : j[k].rowid # p
      BY <1>1, <1>5, <2>2
    <3> QED
      BY <1>1, <2>2, <3>1 DEF Restores
  <2> QED
    BY <1>1, <2>1, <2>2
<1> QED
  BY <1>4, <1>5

\* A write of somebody else does not matter outside the foreign rows.
LEMMA RestoresOther ==
  ASSUME NEW j \in Seq(UndoOp), NEW s \in Rows, NEW b, NEW F, NEW r \in RowId,
         NEW x, Restores(j, s, b, F)
  PROVE  Restores(j, [s EXCEPT ![r] = x], b, F \union {r})
BY DEF Restores, Rows

\* Undoing the last entry leaves a journal that restores the rest.
LEMMA RestoresUndo ==
  ASSUME NEW j \in Seq(UndoOp), j # <<>>, NEW s \in Rows, NEW b \in Rows,
         NEW F \in SUBSET RowId, Restores(j, s, b, F)
  PROVE  Restores(Front(j), [s EXCEPT ![Last(j).rowid] = Last(j).old], b, F)
<1> DEFINE n == Len(j) - 1
           f == Front(j)
           e == Last(j)
           s1 == [s EXCEPT ![e.rowid] = e.old]
<1>1. /\ n \in Nat /\ Len(f) = n /\ Len(j) = n + 1 /\ e = j[n + 1]
      /\ \A i \in 1 .. n : f[i] = j[i]
  BY FrontFacts
<1>2. \A p \in RowId : s1[p] = IF p = e.rowid THEN e.old ELSE s[p]
  BY DEF Rows
<1> HIDE DEF n, f, e, s1
<1> SUFFICES ASSUME NEW p \in RowId \ F
             PROVE  /\ (\A i \in 1 .. n : f[i].rowid # p) => s1[p] = b[p]
                    /\ \A i \in 1 .. n :
                         f[i].rowid = p /\ (\A k \in 1 .. i - 1 : f[k].rowid # p)
                           => f[i].old = b[p]
  BY <1>1 DEF Restores, f, e, s1
<1>3. ASSUME \A i \in 1 .. n : f[i].rowid # p  PROVE s1[p] = b[p]
  <2>1. \A i \in 1 .. n : j[i].rowid # p
    BY <1>1, <1>3
  <2>2. CASE e.rowid = p
    BY <1>1, <1>2, <2>1, <2>2 DEF Restores
  <2>3. CASE e.rowid # p
    <3>1. \A i \in 1 .. Len(j) : j[i].rowid # p
      BY <1>1, <2>1, <2>3
    <3> QED
      BY <1>2, <2>3, <3>1 DEF Restores
  <2> QED
    BY <2>2, <2>3
<1>4. ASSUME NEW i \in 1 .. n, f[i].rowid = p,
             \A k \in 1 .. i - 1 : f[k].rowid # p
      PROVE  f[i].old = b[p]
  <2>1. i \in 1 .. Len(j) /\ j[i].rowid = p /\ \A k \in 1 .. i - 1 : j[k].rowid # p
    BY <1>1, <1>4
  <2> QED
    BY <1>1, <2>1 DEF Restores
<1> QED
  BY <1>3, <1>4

\* A transaction's own write never follows its own delete of that row.
LEMMA DeletesLastOwn ==
  ASSUME NEW j \in Seq(UndoOp), NEW s \in Rows, NEW F, NEW e \in UndoOp, NEW x,
         e.rowid \in RowId, e.op = "Delete" => x = NoRow,
         \/ s[e.rowid] # NoRow
         \/ \A i \in 1 .. Len(j) : j[i].rowid # e.rowid,
         DeletesLast(j, s, F)
  PROVE  DeletesLast(Append(j, e), [s EXCEPT ![e.rowid] = x], F)
<1> DEFINE n == Len(j)
           a == Append(j, e)
           s1 == [s EXCEPT ![e.rowid] = x]
<1>1. /\ n \in Nat /\ Len(a) = n + 1 /\ a[n + 1] = e
      /\ \A i \in 1 .. n : a[i] = j[i]
  BY AppendFacts
<1> HIDE DEF a
<1>2. \A p : p # e.rowid => s1[p] = s[p]
  BY DEF Rows
<1>3. s1[e.rowid] = x
  BY DEF Rows
<1> HIDE DEF s1
<1> SUFFICES ASSUME NEW i \in 1 .. n + 1, a[i].op = "Delete", a[i].rowid \notin F
             PROVE  /\ s1[a[i].rowid] = NoRow
                    /\ \A k \in i + 1 .. n + 1 : a[k].rowid # a[i].rowid
  BY <1>1 DEF DeletesLast, a, s1
<1>4. CASE i = n + 1
  BY <1>1, <1>3, <1>4
<1>5. CASE i \in 1 .. n
  <2>1. /\ s[a[i].rowid] = NoRow
        /\ \A k \in i + 1 .. n : j[k].rowid # a[i].rowid
    BY <1>1, <1>5 DEF DeletesLast
  <2>2. a[i].rowid # e.rowid
    BY <1>1, <1>5, <2>1
  <2>3. \A k \in i + 1 .. n + 1 : k = n + 1 \/ k \in i + 1 .. n
    BY <1>1
  <2> QED
    <3>1. a[n + 1].rowid # a[i].rowid
      BY <1>1, <2>2
    <3>2. \A k \in i + 1 .. n : a[k].rowid # a[i].rowid
      BY <1>1, <1>5, <2>1
    <3> QED
      BY <1>2, <2>1, <2>2, <2>3, <3>1, <3>2
<1> QED
  BY <1>1, <1>4, <1>5

\* A write of somebody else falls on a row that is foreign from then on.
LEMMA DeletesLastOther ==
  ASSUME NEW j \in Seq(UndoOp), NEW s \in Rows, NEW F, NEW r \in RowId, NEW x,
         DeletesLast(j, s, F)
  PROVE  DeletesLast(j, [s EXCEPT ![r] = x], F \union {r})
BY DEF DeletesLast, Rows

\* Undoing the last entry keeps the deletes last.
LEMMA DeletesLastUndo ==
  ASSUME NEW j \in Seq(UndoOp), j # <<>>, NEW s \in Rows, NEW F, NEW x,
         DeletesLast(j, s, F)
  PROVE  DeletesLast(Front(j), [s EXCEPT ![Last(j).rowid] = x], F)
<1> DEFINE n == Len(j) - 1
           f == Front(j)
           e == Last(j)
           s1 == [s EXCEPT ![e.rowid] = x]
<1>1. /\ n \in Nat /\ Len(f) = n /\ Len(j) = n + 1 /\ e = j[n + 1]
      /\ \A i \in 1 .. n : f[i] = j[i]
  BY FrontFacts
<1>2. \A p : p # e.rowid => s1[p] = s[p]
  BY DEF Rows
<1> HIDE DEF n, f, e, s1
<1> SUFFICES ASSUME NEW i \in 1 .. n, f[i].op = "Delete", f[i].rowid \notin F
             PROVE  /\ s1[f[i].rowid] = NoRow
                    /\ \A k \in i + 1 .. n : f[k].rowid # f[i].rowid
  BY <1>1 DEF DeletesLast, f, e, s1
<1>3. /\ s[f[i].rowid] = NoRow
      /\ \A k \in i + 1 .. n + 1 : j[k].rowid # f[i].rowid
  BY <1>1 DEF DeletesLast
<1>4. e.rowid # f[i].rowid
  BY <1>1, <1>3
<1> QED
  BY <1>1, <1>2, <1>3, <1>4

\* Rewinding a write that was just made is rewinding what was before it.
LEMMA RewoundOwn ==
  ASSUME NEW j \in Seq(UndoOp), NEW s \in Rows, NEW e \in UndoOp, NEW x,
         e.rowid \in RowId, e.old = s[e.rowid],
         NEW k \in 0 .. Len(j), NEW b,
         Rewound(Append(j, e), [s EXCEPT ![e.rowid] = x], k, b)
  PROVE  Rewound(j, s, k, b)
<1> DEFINE n == Len(j)
           a == Append(j, e)
           s1 == [s EXCEPT ![e.rowid] = x]
<1>1. /\ n \in Nat /\ Len(a) = n + 1 /\ a[n + 1] = e
      /\ \A i \in 1 .. n : a[i] = j[i]
  BY AppendFacts
<1> HIDE DEF a
<1>2. \A p : p # e.rowid => s1[p] = s[p]
  BY DEF Rows
<1> HIDE DEF s1
<1>3. \A p \in RowId :
        /\ (\A i \in k + 1 .. n + 1 : a[i].rowid # p) => b[p] = s1[p]
        /\ \A i \in k + 1 .. n + 1 :
             a[i].rowid = p /\ (\A m \in k + 1 .. i - 1 : a[m].rowid # p)
               => b[p] = a[i].old
  BY <1>1 DEF Rewound, a, s1
<1> SUFFICES ASSUME NEW p \in RowId
             PROVE  /\ (\A i \in k + 1 .. n : j[i].rowid # p) => b[p] = s[p]
                    /\ \A i \in k + 1 .. n :
                         j[i].rowid = p /\ (\A m \in k + 1 .. i - 1 : j[m].rowid # p)
                           => b[p] = j[i].old
  BY DEF Rewound
<1>4. ASSUME \A i \in k + 1 .. n : j[i].rowid # p  PROVE b[p] = s[p]
  <2>1. \A i \in k + 1 .. n : a[i].rowid # p
    BY <1>1, <1>4
  <2>2. CASE p = e.rowid
    <3>1. a[n + 1].rowid = p /\ \A m \in k + 1 .. (n + 1) - 1 : a[m].rowid # p
      BY <1>1, <2>1, <2>2
    <3>2. n + 1 \in k + 1 .. n + 1
      BY <1>1
    <3> QED
      BY <1>1, <1>3, <2>2, <3>1, <3>2
  <2>3. CASE p # e.rowid
    <3>1. \A i \in k + 1 .. n + 1 : a[i].rowid # p
      BY <1>1, <2>1, <2>3
    <3> QED
      BY <1>2, <1>3, <2>3, <3>1
  <2> QED
    BY <2>2, <2>3
<1>5. ASSUME NEW i \in k + 1 .. n, j[i].rowid = p,
             \A m \in k + 1 .. i - 1 : j[m].rowid # p
      PROVE  b[p] = j[i].old
  <2>1. i \in k + 1 .. n + 1 /\ a[i].rowid = p /\ a[i] = j[i]
        /\ \A m \in k + 1 .. i - 1 : a[m].rowid # p
    BY <1>1, <1>5
  <2> QED
    BY <1>3, <2>1
<1> QED
  BY <1>4, <1>5

\* Undoing one entry is the first step of every rewinding.
LEMMA RewoundUndo ==
  ASSUME NEW j \in Seq(UndoOp), j # <<>>, NEW s \in Rows,
         NEW k \in 0 .. Len(j) - 1, NEW b,
         Rewound(Front(j), [s EXCEPT ![Last(j).rowid] = Last(j).old], k, b)
  PROVE  Rewound(j, s, k, b)
<1> DEFINE n == Len(j) - 1
           f == Front(j)
           e == Last(j)
           s1 == [s EXCEPT ![e.rowid] = e.old]
<1>1. /\ n \in Nat /\ Len(f) = n /\ Len(j) = n + 1 /\ e = j[n + 1]
      /\ \A i \in 1 .. n : f[i] = j[i]
  BY FrontFacts
<1>2. \A p \in RowId : s1[p] = IF p = e.rowid THEN e.old ELSE s[p]
  BY DEF Rows
<1>0. k \in 0 .. n
  OBVIOUS
<1> HIDE DEF n, f, e, s1
<1>3. \A p \in RowId :
        /\ (\A i \in k + 1 .. n : f[i].rowid # p) => b[p] = s1[p]
        /\ \A i \in k + 1 .. n :
             f[i].rowid = p /\ (\A m \in k + 1 .. i - 1 : f[m].rowid # p)
               => b[p] = f[i].old
  BY <1>1 DEF Rewound, f, e, s1
<1> SUFFICES ASSUME NEW p \in RowId
             PROVE  /\ (\A i \in k + 1 .. n + 1 : j[i].rowid # p) => b[p] = s[p]
                    /\ \A i \in k + 1 .. n + 1 :
                         j[i].rowid = p /\ (\A m \in k + 1 .. i - 1 : j[m].rowid # p)
                           => b[p] = j[i].old
  BY <1>1 DEF Rewound
<1>4. ASSUME \A i \in k + 1 .. n + 1 : j[i].rowid # p  PROVE b[p] = s[p]
  <2>1. \A i \in k + 1 .. n : f[i].rowid # p
    BY <1>0, <1>1, <1>4
  <2>2. e.rowid # p
    BY <1>0, <1>1, <1>4
  <2> QED
    BY <1>2, <1>3, <2>1, <2>2
<1>5. ASSUME NEW i \in k + 1 .. n + 1, j[i].rowid = p,
             \A m \in k + 1 .. i - 1 : j[m].rowid # p
      PROVE  b[p] = j[i].old
  <2>1. CASE i = n + 1
    <3>1. \A m \in k + 1 .. n : f[m].rowid # p
      BY <1>0, <1>1, <1>5, <2>1
    <3> QED
      BY <1>1, <1>2, <1>3, <1>5, <2>1, <3>1
  <2>2. CASE i \in k + 1 .. n
    <3>1. f[i] = j[i] /\ \A m \in k + 1 .. i - 1 : f[m].rowid # p
      BY <1>0, <1>1, <1>5, <2>2
    <3> QED
      BY <1>3, <1>5, <2>2, <3>1
  <2> QED
    BY <1>0, <1>1, <2>1, <2>2
<1> QED
  BY <1>4, <1>5

\* With nothing left to undo, the rewound table is the table itself.
LEMMA RewoundAll ==
  ASSUME NEW j \in Seq(UndoOp), NEW s \in Rows
  PROVE  /\ Rewound(j, s, Len(j), s)
         /\ \A b \in Rows : Rewound(j, s, Len(j), b) => b = s
<1>1. Len(j) \in Nat
  BY LenProperties
<1>2. \A i \in Len(j) + 1 .. Len(j) : FALSE
  BY <1>1
<1>3. Rewound(j, s, Len(j), s)
  BY <1>2 DEF Rewound
<1>4. ASSUME NEW b \in Rows, Rewound(j, s, Len(j), b)  PROVE b = s
  <2>1. \A r \in RowId : b[r] = s[r]
    BY <1>2, <1>4 DEF Rewound
  <2> QED
    BY <2>1 DEF Rows
<1> QED
  BY <1>3, <1>4

-----------------------------------------------------------------------------
(* Lemmas about the index: each operation of index.rs, next to the write it  *)
(* accompanies.                                                              *)

\* A row added to the index and written to the table.
LEMMA IndexAdd ==
  ASSUME NEW ix \in [Row -> SUBSET RowId], NEW s \in Rows, NEW c,
         NEW r \in RowId, NEW row \in Row, s[r] = NoRow \/ r \in c,
         IndexAgrees(ix, s, c)
  PROVE  IndexAgrees(AddToIndex(ix, row, r), [s EXCEPT ![r] = row], c)
BY RowAssumption DEF IndexAgrees, AddToIndex, Rows

\* A row removed from the index and from the table.
LEMMA IndexRemove ==
  ASSUME NEW ix \in [Row -> SUBSET RowId], NEW s \in Rows, NEW c,
         NEW r \in RowId, s[r] \in Row, IndexAgrees(ix, s, c)
  PROVE  IndexAgrees(RemoveFromIndex(ix, s[r], r), [s EXCEPT ![r] = NoRow], c)
BY RowAssumption DEF IndexAgrees, RemoveFromIndex, Rows

\* A row moved in the index and changed in the table.
LEMMA IndexMove ==
  ASSUME NEW ix \in [Row -> SUBSET RowId], NEW s \in Rows, NEW c,
         NEW r \in RowId, NEW row \in Row, IndexAgrees(ix, s, c)
  PROVE  IndexAgrees(MoveInIndex(ix, s[r], row, r), [s EXCEPT ![r] = row], c)
<1>1. CASE s[r] = NoRow
  BY <1>1, IndexAdd DEF MoveInIndex
<1>2. CASE s[r] # NoRow
  <2>1. s[r] \in Row
    BY <1>2 DEF Rows
  <2>2. /\ IndexAgrees(RemoveFromIndex(ix, s[r], r), [s EXCEPT ![r] = NoRow], c)
        /\ RemoveFromIndex(ix, s[r], r) \in [Row -> SUBSET RowId]
        /\ [s EXCEPT ![r] = NoRow] \in Rows
    BY <2>1, IndexRemove, IndexType DEF Rows
  <2>3. /\ [s EXCEPT ![r] = NoRow][r] = NoRow
        /\ [[s EXCEPT ![r] = NoRow] EXCEPT ![r] = row] = [s EXCEPT ![r] = row]
    BY DEF Rows
  <2> DEFINE s0 == [s EXCEPT ![r] = NoRow]
             ix0 == RemoveFromIndex(ix, s[r], r)
  <2> HIDE DEF s0, ix0
  <2>4. IndexAgrees(AddToIndex(ix0, row, r), [s0 EXCEPT ![r] = row], c)
    BY <2>2, <2>3, IndexAdd DEF s0, ix0
  <2> QED
    BY <1>2, <2>3, <2>4 DEF MoveInIndex, s0, ix0
<1> QED
  BY <1>1, <1>2

\* More clashed rows only weaken what the index promises.
LEMMA IndexClash ==
  ASSUME NEW ix, NEW s, NEW c, NEW d, c \subseteq d, IndexAgrees(ix, s, c)
  PROVE  IndexAgrees(ix, s, d)
BY DEF IndexAgrees

\* A row that passed validation brings no duplicate into the table.
LEMMA ValidatedUnique ==
  ASSUME TypeOK, IndexOK, NEW r \in RowId, NEW row \in Row, Validates(row, r),
         Unique, UniqueTable(store)
  PROVE  UniqueTable([store EXCEPT ![r] = row])
<1>1. \A q \in RowId \ {r} : store[q] = row => row = Null
  <2> SUFFICES ASSUME NEW q \in RowId \ {r}, store[q] = row, row # Null
               PROVE  FALSE
    OBVIOUS
  <2>1. ~ValueExistsElsewhere(row, r)
    BY DEF Validates
  <2>2. CASE Indexed
    BY <2>1, <2>2 DEF ValueExistsElsewhere, IndexOK, IndexAgrees
  <2>3. CASE ~Indexed
    BY <2>1, <2>3 DEF ValueExistsElsewhere
  <2> QED
    BY <2>2, <2>3
<1> QED
  BY <1>1 DEF UniqueTable, TypeOK, Rows

\* Removing a row makes no duplicates.
LEMMA RemovedUnique ==
  ASSUME TypeOK, NEW r \in RowId, UniqueTable(store)
  PROVE  UniqueTable([store EXCEPT ![r] = NoRow])
BY DEF UniqueTable, TypeOK, Rows

-----------------------------------------------------------------------------
(* Preservation of TxnInv, by kind of step *)

\* Row r becomes row in the running call.
Wrote(op, r, row) ==
    /\ store' = [store EXCEPT ![r] = row]
    /\ Record(op, r, store[r])
    /\ Touch(r)
    /\ UNCHANGED <<nextTx, active, base, interfered, pc, tx, shadow>>

\* A statement's write to one row preserves what concerns transactions.
LEMMA WroteStep ==
  ASSUME Inv, pc \in Statements, NEW op \in {"Insert", "Delete", "Update"},
         NEW r \in RowId, NEW row \in Row \union {NoRow}, Wrote(op, r, row),
         op = "Insert" <=> store[r] = NoRow,
         op = "Delete" => row = NoRow,
         op = "Insert" => r = nextRowid /\ nextRowid' = nextRowid + 1,
         op # "Insert" => nextRowid' = nextRowid,
         Unique /\ ~interfered => UniqueTable(store')
  PROVE  TxnInv'
<1> USE DEF Statements
<1> DEFINE e == [op |-> op, rowid |-> r, old |-> store[r]]
<1>1. /\ e \in UndoOp /\ e.op = op /\ e.rowid = r /\ e.old = store[r]
      /\ store[r] \in Row \union {NoRow}
  BY DEF Inv, TypeOK, Rows, UndoOp
<1>2. /\ Unfinished = active /\ Unfinished' = active
      /\ pc # "undo" /\ pc' = pc /\ active' = active
      /\ active \subseteq TxId /\ Stale \notin TxId
  <2>1. /\ pc # "undo" /\ pc' = pc /\ active' = active
        /\ active \subseteq TxId /\ Stale \notin TxId
    BY DEF Wrote, Inv, TypeOK, Stale, TxId
  <2> QED
    BY <2>1 DEF Unfinished
<1>3. /\ store \in Rows /\ base \in [TxId -> Rows]
      /\ foreign \in [TxId -> SUBSET RowId]
      /\ journal \in [TxId -> Seq(UndoOp)]
      /\ nextRowid \in Nat /\ nextTx \in Nat
  BY DEF Inv, TypeOK
<1>4. /\ base' = base /\ store' = [store EXCEPT ![r] = row]
      /\ \A t \in active \ {tx} :
            journal'[t] = journal[t] /\ foreign'[t] = foreign[t] \union {r}
      /\ \A t \in TxId \ active : journal'[t] = journal[t] /\ foreign'[t] = foreign[t]
  BY <1>2, <1>3 DEF Wrote, Record, Touch
<1>5. tx \in active => journal'[tx] = Append(journal[tx], e) /\ foreign'[tx] = foreign[tx]
  BY <1>2, <1>3 DEF Wrote, Record, Touch
<1> HIDE DEF e
<1>6. r < nextRowid'
  BY <1>3 DEF Inv, TxnInv, FreshOK, RowId
<1>7. \A t \in TxId : \A i \in 1 .. Len(journal[t]) : journal[t][i].rowid < nextRowid
  BY DEF Inv, TxnInv, FreshOK
<1>8. \A t \in active : journal[t] \in Seq(UndoOp)
  BY <1>2, <1>3
<1>9. IdsOK'
  BY <1>2, <1>4, <1>5 DEF Inv, TxnInv, IdsOK, Wrote
<1>10. FreshOK'
  <2>1. \A p \in RowId : p >= nextRowid' => store'[p] = NoRow
    BY <1>3, <1>4, <1>6 DEF Inv, TxnInv, FreshOK, RowId, Rows
  <2>2. ASSUME NEW t \in TxId, NEW i \in 1 .. Len(journal'[t])
        PROVE  journal'[t][i].rowid < nextRowid'
    <3>1. \A k \in 1 .. Len(journal[t]) :
             /\ journal[t][k].rowid < nextRowid /\ journal[t][k] \in UndoOp
      BY <1>3, <1>7, ElementOfSeq
    <3>2. \A k \in 1 .. Len(journal[t]) : journal[t][k].rowid < nextRowid'
      BY <1>3, <3>1 DEF UndoOp, RowId
    <3>3. CASE t = tx /\ t \in active
      BY <1>1, <1>5, <1>6, <1>8, <2>2, <3>2, <3>3, AppendFacts
    <3>4. CASE ~(t = tx /\ t \in active)
      BY <1>4, <2>2, <3>2, <3>4
    <3> QED
      BY <3>3, <3>4
  <2> QED
    BY <2>1, <2>2 DEF FreshOK
<1>11. ShadowAlone'
  BY <1>5 DEF Inv, TxnInv, ShadowAlone, CallOK, Wrote
<1>12. JournalsOK'
  <2> SUFFICES ASSUME NEW t \in active
               PROVE  /\ Restores(journal'[t], store', base[t], foreign'[t])
                      /\ DeletesLast(journal'[t], store', foreign'[t])
    BY <1>2, <1>4 DEF JournalsOK
  <2>1. /\ Restores(journal[t], store, base[t], foreign[t])
        /\ DeletesLast(journal[t], store, foreign[t])
        /\ journal[t] \in Seq(UndoOp) /\ base[t] \in Rows
        /\ foreign[t] \in SUBSET RowId
    BY <1>2, <1>3 DEF Inv, TxnInv, JournalsOK
  <2>2. CASE t # tx
    <3>1. journal'[t] = journal[t] /\ foreign'[t] = foreign[t] \union {r}
      BY <1>4, <2>2
    <3>2. Restores(journal[t], store', base[t], foreign[t] \union {r})
      BY <1>3, <1>4, <2>1, RestoresOther
    <3>3. DeletesLast(journal[t], store', foreign[t] \union {r})
      BY <1>3, <1>4, <2>1, DeletesLastOther
    <3> QED
      BY <3>1, <3>2, <3>3
  <2>3. CASE t = tx
    <3>1. journal'[t] = Append(journal[t], e) /\ foreign'[t] = foreign[t]
      BY <1>5, <2>3
    <3>2. \/ store[r] # NoRow
          \/ \A i \in 1 .. Len(journal[t]) : journal[t][i].rowid # r
      <4> SUFFICES ASSUME store[r] = NoRow, NEW i \in 1 .. Len(journal[t]),
                          journal[t][i].rowid = r
                   PROVE  FALSE
        OBVIOUS
      <4>1. journal[t][i].rowid < nextRowid
        BY <1>2, <1>7
      <4>2. r = nextRowid
        OBVIOUS
      <4> QED
        BY <1>3, <4>1, <4>2
    <3>3. Restores(Append(journal[t], e), store', base[t], foreign[t])
      BY <1>1, <1>3, <1>4, <2>1, RestoresOwn
    <3>4. DeletesLast(Append(journal[t], e), store', foreign[t])
      BY <1>1, <1>3, <1>4, <2>1, <3>2, DeletesLastOwn
    <3> QED
      BY <3>1, <3>3, <3>4
  <2> QED
    BY <2>2, <2>3
<1>13. UniqueOK'
  <2> SUFFICES ASSUME Unique, ~interfered, NEW t \in active, foreign'[t] = {},
                      NEW k \in 0 .. Len(journal'[t]), NEW b \in Rows,
                      Rewound(journal'[t], store', k, b)
               PROVE  UniqueTable(b)
    <3>1. interfered' = interfered
      BY DEF Wrote
    <3> QED
      BY <1>2, <3>1 DEF UniqueOK
  <2>1. t = tx /\ journal'[t] = Append(journal[t], e) /\ foreign[t] = {}
    BY <1>4, <1>5
  <2>2. \A i \in 0 .. Len(journal[t]) : \A c \in Rows :
           Rewound(journal[t], store, i, c) => UniqueTable(c)
    BY <1>2, <2>1 DEF Inv, TxnInv, UniqueOK
  <2>3. /\ Len(journal[t]) \in Nat /\ Len(journal'[t]) = Len(journal[t]) + 1
        /\ journal'[t] \in Seq(UndoOp)
    BY <1>1, <1>8, <2>1, AppendFacts
  <2>4. CASE k \in 0 .. Len(journal[t])
    <3>1. Rewound(Append(journal[t], e), [store EXCEPT ![e.rowid] = row], k, b)
      BY <1>1, <1>4, <2>1
    <3>2. Rewound(journal[t], store, k, b)
      BY <1>1, <1>3, <1>8, <2>4, <3>1, RewoundOwn
    <3> QED
      BY <2>2, <2>4, <3>2
  <2>5. CASE k = Len(journal'[t])
    <3>1. store' \in Rows
      BY <1>3, <1>4 DEF Rows
    <3>2. b = store'
      BY <2>3, <2>5, <3>1, RewoundAll
    <3> QED
      BY <3>2
  <2> QED
    BY <2>3, <2>4, <2>5
<1> QED
  BY <1>9, <1>10, <1>11, <1>12, <1>13 DEF TxnInv

\* BEGIN, and the start of an autocommit statement.
LEMMA OpenStep ==
  ASSUME Inv, pc = "idle", nextTx <= MaxTx, Open(nextTx), pc' # "undo",
         UNCHANGED <<store, nextRowid, journal, foreign, interfered>>,
         shadow' => tx' = nextTx
  PROVE  TxnInv'
<1> DEFINE t0 == nextTx
<1>1. /\ t0 \in TxId /\ t0 \notin active /\ journal[t0] = <<>> /\ foreign[t0] = {}
  BY DEF Inv, TypeOK, TxnInv, IdsOK, Unfinished, TxId
<1>2. /\ Unfinished = active /\ Unfinished' = active \union {t0}
      /\ nextTx' = t0 + 1 /\ active \subseteq TxId
      /\ base'[t0] = store /\ \A t \in active : base'[t] = base[t]
  <2>1. pc # "undo" /\ active \subseteq TxId /\ base \in [TxId -> Rows]
    BY DEF Inv, TypeOK
  <2>2. /\ nextTx' = t0 + 1 /\ active' = active \union {t0}
        /\ base' = [base EXCEPT ![t0] = store]
    BY DEF Open
  <2>3. Unfinished = active /\ Unfinished' = active \union {t0}
    BY <1>1, <2>1, <2>2 DEF Unfinished
  <2> QED
    BY <1>1, <2>1, <2>2, <2>3
<1>3. IdsOK'
  <2>1. IdsOK /\ t0 \in Nat /\ TxId \subseteq Nat
    BY DEF Inv, TypeOK, TxnInv, TxId
  <2>2. ASSUME NEW t \in TxId
        PROVE  /\ t \in Unfinished' => t < nextTx'
               /\ t \notin Unfinished' => journal[t] = <<>> /\ foreign[t] = {}
    BY <1>2, <2>1 DEF IdsOK
  <2> QED
    BY <2>2 DEF IdsOK
<1>4. FreshOK'
  BY DEF Inv, TxnInv, FreshOK
<1>5. ShadowAlone'
  BY <1>1 DEF ShadowAlone
<1>6. store \in Rows
  BY DEF Inv, TypeOK
<1>7. JournalsOK'
  <2>1. \A t \in active : /\ Restores(journal[t], store, base'[t], foreign[t])
                           /\ DeletesLast(journal[t], store, foreign[t])
    BY <1>2 DEF Inv, TxnInv, JournalsOK
  <2>2. Len(journal[t0]) = 0
    BY <1>1, EmptySeq
  <2>3. /\ Restores(journal[t0], store, base'[t0], foreign[t0])
        /\ DeletesLast(journal[t0], store, foreign[t0])
    BY <1>2, <2>2 DEF Restores, DeletesLast
  <2> QED
    BY <1>2, <2>1, <2>3 DEF JournalsOK
<1>8. UniqueOK'
  <2> SUFFICES ASSUME Unique, ~interfered
               PROVE  /\ UniqueTable(store)
                      /\ \A t \in active \union {t0} : foreign[t] = {} =>
                           \A k \in 0 .. Len(journal[t]) : \A b \in Rows :
                             Rewound(journal[t], store, k, b) => UniqueTable(b)
    BY <1>2 DEF UniqueOK
  <2>1. /\ UniqueTable(store)
        /\ \A t \in active : foreign[t] = {} =>
             \A k \in 0 .. Len(journal[t]) : \A b \in Rows :
               Rewound(journal[t], store, k, b) => UniqueTable(b)
    BY <1>2 DEF Inv, TxnInv, UniqueOK
  <2>2. /\ Len(journal[t0]) = 0 /\ journal[t0] \in Seq(UndoOp)
    BY <1>1, EmptySeq
  <2>3. ASSUME NEW k \in 0 .. Len(journal[t0]), NEW b \in Rows,
               Rewound(journal[t0], store, k, b)
        PROVE  UniqueTable(b)
    <3>1. k = Len(journal[t0])
      BY <2>2
    <3>2. b = store
      BY <1>6, <2>2, <2>3, <3>1, RewoundAll
    <3> QED
      BY <2>1, <3>2
  <2> QED
    BY <2>1, <2>3
<1> QED
  BY <1>3, <1>4, <1>5, <1>7, <1>8 DEF TxnInv

\* A failed row still uses up its rowid.
LEMMA FreshLater ==
  ASSUME Inv, store' = store, journal' = journal,
         nextRowid' \in {nextRowid, nextRowid + 1}
  PROVE  FreshOK'
<1>1. nextRowid \in Nat /\ journal \in [TxId -> Seq(UndoOp)]
  BY DEF Inv, TypeOK
<1>2. \A t \in TxId : \A i \in 1 .. Len(journal[t]) :
         journal[t][i].rowid \in RowId /\ journal[t][i].rowid < nextRowid
  BY <1>1, ElementOfSeq DEF UndoOp, Inv, TxnInv, FreshOK
<1>3. \A r \in RowId : r >= nextRowid' => r >= nextRowid
  BY <1>1 DEF RowId
<1>4. \A r \in RowId : r < nextRowid => r < nextRowid'
  BY <1>1 DEF RowId
<1> QED
  BY <1>2, <1>3, <1>4 DEF Inv, TxnInv, FreshOK

\* A statement given a tx_id opens nothing.
LEMMA SameTxnsStep ==
  ASSUME Inv, pc # "undo", pc' # "undo", ~shadow',
         UNCHANGED <<store, nextTx, active, journal, base, foreign, interfered>>,
         nextRowid' \in {nextRowid, nextRowid + 1}
  PROVE  TxnInv'
<1>1. Unfinished' = Unfinished
  BY DEF Unfinished
<1>2. IdsOK' /\ ShadowAlone' /\ JournalsOK'
  BY <1>1 DEF Inv, TxnInv, IdsOK, ShadowAlone, JournalsOK
<1>3. UniqueOK'
  BY <1>1 DEF Inv, TxnInv, UniqueOK
<1>4. FreshOK'
  BY FreshLater
<1> QED
  BY <1>2, <1>3, <1>4 DEF TxnInv

\* COMMIT, the end of an autocommit statement and the end of an undo.
LEMMA ForgetStep ==
  ASSUME Inv, NEW t0 \in TxId, Forget(t0), pc = "undo" => t0 = tx, pc' # "undo",
         ~shadow', UNCHANGED <<store, nextRowid, nextTx, interfered>>
  PROVE  TxnInv'
<1>1. /\ Unfinished' = Unfinished \ {t0}
      /\ journal'[t0] = <<>> /\ foreign'[t0] = {}
      /\ \A t \in TxId \ {t0} : /\ journal'[t] = journal[t] /\ base'[t] = base[t]
                                /\ foreign'[t] = foreign[t]
  BY DEF Inv, TypeOK, Forget, Unfinished
<1>2. IdsOK'
  BY <1>1 DEF Inv, TxnInv, IdsOK
<1>3. FreshOK'
  <2>1. Len(journal'[t0]) = 0
    BY <1>1, EmptySeq
  <2> QED
    BY <1>1, <2>1 DEF Inv, TxnInv, FreshOK
<1>4. ShadowAlone'
  BY DEF ShadowAlone
<1>5. \A t \in Unfinished' : t \in Unfinished /\ t \in TxId \ {t0}
  BY <1>1 DEF Unfinished
<1>6. JournalsOK'
  BY <1>1, <1>5 DEF Inv, TxnInv, JournalsOK
<1>7. UniqueOK'
  BY <1>1, <1>5 DEF Inv, TxnInv, UniqueOK
<1> QED
  BY <1>2, <1>3, <1>4, <1>6, <1>7 DEF TxnInv

\* ROLLBACK, and the rollback of a failed autocommit statement, begin.
LEMMA StartUndoStep ==
  ASSUME Inv, pc # "undo", NEW t0 \in active, StartUndo(t0),
         UNCHANGED <<store, nextTx>>, nextRowid' \in {nextRowid, nextRowid + 1},
         shadow' => shadow /\ t0 = tx
  PROVE  TxnInv'
<1>1. /\ Unfinished' = Unfinished
      /\ journal' = journal /\ base' = base /\ foreign' = foreign
      /\ pc' = "undo" /\ tx' = t0
  BY DEF Inv, TypeOK, StartUndo, Unfinished
<1>2. IdsOK' /\ ShadowAlone' /\ JournalsOK'
  BY <1>1 DEF Inv, TxnInv, IdsOK, ShadowAlone, JournalsOK
<1>3. UniqueOK'
  BY <1>1 DEF Inv, TxnInv, UniqueOK, StartUndo
<1>4. FreshOK'
  BY <1>1, FreshLater
<1> QED
  BY <1>2, <1>3, <1>4 DEF TxnInv

\* One undo: the row, the journal and the index together.
LEMMA UndoOneStep ==
  ASSUME Inv, UndoStep
  PROVE  TxnInv' /\ IndexOK'
<1> DEFINE j == journal[tx]
           e == Last(j)
           F == foreign[tx]
<1>1. /\ tx \in TxId \ active /\ j \in Seq(UndoOp) /\ j # <<>>
      /\ pc = "undo" /\ pc' = "undo" /\ tx' = tx /\ shadow' = shadow
      /\ active' = active /\ nextTx' = nextTx /\ nextRowid' = nextRowid
      /\ base' = base /\ interfered' = interfered
  BY DEF Inv, TypeOK, CallOK, UndoStep, callVars
<1>2. /\ store \in Rows /\ base \in [TxId -> Rows]
      /\ foreign \in [TxId -> SUBSET RowId]
      /\ journal \in [TxId -> Seq(UndoOp)] /\ index \in [Row -> SUBSET RowId]
      /\ active \subseteq TxId /\ clashed \in SUBSET RowId
  BY DEF Inv, TypeOK
<1>3. /\ e \in UndoOp /\ e.rowid \in RowId /\ e.old \in Row \union {NoRow}
      /\ e.op = "Insert" => e.old = NoRow
      /\ e.op # "Insert" => e.old \in Row
      /\ e = j[Len(j)] /\ Len(j) \in 1 .. Len(j)
  <2>1. e \in UndoOp /\ e = j[Len(j)] /\ Len(j) \in Nat \ {0}
    BY <1>1, LastFrontType, EmptySeq
  <2> HIDE DEF e
  <2> QED
    BY <2>1 DEF UndoOp
<1>4. /\ store' = [store EXCEPT ![e.rowid] = e.old]
      /\ index' = CASE e.op = "Insert" -> (IF store[e.rowid] = NoRow THEN index
                             ELSE RemoveFromIndex(index, store[e.rowid], e.rowid))
                  [] e.op = "Delete" -> AddToIndex(index, e.old, e.rowid)
                  [] e.op = "Update" -> MoveInIndex(index, store[e.rowid], e.old, e.rowid)
      /\ clashed' = IF e.rowid \in F THEN clashed \union {e.rowid} ELSE clashed
  BY <1>3 DEF UndoStep, UndoInsert, UndoDelete, UndoUpdate
<1>5. /\ journal'[tx] = Front(j) /\ foreign'[tx] = F
      /\ \A t \in TxId \ {tx} : journal'[t] = journal[t]
      /\ \A t \in active : foreign'[t] = foreign[t] \union {e.rowid}
      /\ \A t \in TxId \ active : foreign'[t] = foreign[t]
  BY <1>1, <1>2 DEF UndoStep, Touch
<1>6. /\ Unfinished = active \union {tx} /\ Unfinished' = active \union {tx}
      /\ \A t \in active : t # tx
  BY <1>1, <1>2 DEF Unfinished
<1> HIDE DEF e
<1>7. /\ Restores(j, store, base[tx], F) /\ DeletesLast(j, store, F)
      /\ F \in SUBSET RowId /\ base[tx] \in Rows
  BY <1>1, <1>2, <1>6 DEF Inv, TxnInv, JournalsOK
<1>8. IdsOK'
  BY <1>1, <1>5, <1>6 DEF Inv, TxnInv, IdsOK
<1>9. FreshOK'
  <2>1. e.rowid < nextRowid
    BY <1>1, <1>3 DEF Inv, TxnInv, FreshOK
  <2>2. \A r \in RowId : r >= nextRowid' => store'[r] = NoRow
    <3>1. nextRowid \in Nat
      BY DEF Inv, TypeOK
    <3>2. \A r \in RowId : r >= nextRowid => r # e.rowid /\ store[r] = NoRow
      BY <2>1, <3>1 DEF Inv, TxnInv, FreshOK, RowId
    <3> QED
      BY <1>1, <1>2, <1>4, <3>2 DEF Rows
  <2>3. \A i \in 1 .. Len(journal'[tx]) : journal'[tx][i].rowid < nextRowid
    <3>1. /\ Len(Front(j)) = Len(j) - 1 /\ Len(j) - 1 \in Nat
          /\ \A i \in 1 .. Len(j) - 1 : Front(j)[i] = j[i]
      BY <1>1, FrontFacts
    <3>2. \A i \in 1 .. Len(j) : j[i].rowid < nextRowid
      BY <1>1 DEF Inv, TxnInv, FreshOK
    <3> QED
      BY <1>5, <3>1, <3>2
  <2> QED
    BY <1>1, <1>5, <2>2, <2>3 DEF Inv, TxnInv, FreshOK
<1>10. ShadowAlone'
  BY <1>1, <1>5 DEF Inv, TxnInv, ShadowAlone
<1>11. JournalsOK'
  <2>1. ASSUME NEW t \in active
        PROVE  /\ Restores(journal'[t], store', base'[t], foreign'[t])
               /\ DeletesLast(journal'[t], store', foreign'[t])
    <3>1. /\ journal[t] \in Seq(UndoOp) /\ journal'[t] = journal[t]
          /\ base'[t] = base[t] /\ foreign'[t] = foreign[t] \union {e.rowid}
          /\ Restores(journal[t], store, base[t], foreign[t])
          /\ DeletesLast(journal[t], store, foreign[t])
      BY <1>1, <1>2, <1>5, <1>6 DEF Inv, TxnInv, JournalsOK
    <3>2. Restores(journal[t], store', base[t], foreign[t] \union {e.rowid})
      BY <1>2, <1>3, <1>4, <3>1, RestoresOther
    <3>3. DeletesLast(journal[t], store', foreign[t] \union {e.rowid})
      BY <1>2, <1>3, <1>4, <3>1, DeletesLastOther
    <3> QED
      BY <3>1, <3>2, <3>3
  <2>2. Restores(Front(j), store', base[tx], F)
    <3>1. Restores(Front(j), [store EXCEPT ![Last(j).rowid] = Last(j).old], base[tx], F)
      BY <1>1, <1>2, <1>7, RestoresUndo
    <3> QED
      BY <1>4, <3>1 DEF e
  <2>3. DeletesLast(Front(j), store', F)
    <3>1. DeletesLast(Front(j), [store EXCEPT ![Last(j).rowid] = e.old], F)
      BY <1>1, <1>2, <1>7, DeletesLastUndo
    <3> QED
      BY <1>4, <3>1 DEF e
  <2> QED
    BY <1>1, <1>5, <1>6, <2>1, <2>2, <2>3 DEF JournalsOK
<1>12. UniqueOK'
  <2> SUFFICES ASSUME Unique, ~interfered
               PROVE  /\ UniqueTable(store') /\ F = {}
                      /\ \A k \in 0 .. Len(Front(j)) : \A b \in Rows :
                           Rewound(Front(j), store', k, b) => UniqueTable(b)
    BY <1>1, <1>5, <1>6 DEF UniqueOK
  <2>1. /\ F = {}
        /\ \A k \in 0 .. Len(j) : \A b \in Rows :
             Rewound(j, store, k, b) => UniqueTable(b)
    BY <1>1, <1>6 DEF Inv, TxnInv, UniqueOK
  <2>2. /\ Front(j) \in Seq(UndoOp) /\ Len(Front(j)) = Len(j) - 1
        /\ Len(j) - 1 \in Nat /\ Len(j) = (Len(j) - 1) + 1
    BY <1>1, FrontFacts
  <2>3. ASSUME NEW k \in 0 .. Len(Front(j)), NEW b \in Rows,
               Rewound(Front(j), store', k, b)
        PROVE  UniqueTable(b)
    <3>1. /\ Rewound(Front(j), [store EXCEPT ![Last(j).rowid] = Last(j).old], k, b)
          /\ k \in 0 .. Len(j) - 1 /\ k \in 0 .. Len(j)
      BY <1>4, <2>2, <2>3 DEF e
    <3>2. Rewound(j, store, k, b)
      BY <1>1, <1>2, <3>1, RewoundUndo
    <3> QED
      BY <2>1, <3>1, <3>2
  <2>4. store' \in Rows
    BY <1>2, <1>3, <1>4 DEF Rows
  <2>5. Rewound(Front(j), store', Len(Front(j)), store')
    BY <2>2, <2>4, RewoundAll
  <2>6. Len(Front(j)) \in 0 .. Len(Front(j))
    BY <2>2
  <2> QED
    BY <2>1, <2>3, <2>4, <2>5, <2>6
<1>13. IndexOK'
  <2>1. /\ IndexAgrees(index, store, clashed') /\ store[e.rowid] \in Row \union {NoRow}
        /\ e.rowid \in F => e.rowid \in clashed'
    <3>1. clashed \subseteq clashed'
      BY <1>4
    <3>2. IndexAgrees(index, store, clashed)
      BY DEF Inv, IndexOK
    <3> QED
      BY <1>2, <1>3, <1>4, <3>1, <3>2, IndexClash DEF Rows
  <2>2. CASE e.op = "Insert"
    <3>1. CASE store[e.rowid] = NoRow
      <4>1. store' = store /\ index' = index
        BY <1>2, <1>3, <1>4, <2>2, <3>1 DEF Rows
      <4> QED
        BY <2>1, <4>1 DEF IndexOK
    <3>2. CASE store[e.rowid] # NoRow
      <4>1. /\ index' = RemoveFromIndex(index, store[e.rowid], e.rowid)
            /\ store' = [store EXCEPT ![e.rowid] = NoRow]
        BY <1>3, <1>4, <2>2, <3>2
      <4> QED
        BY <1>2, <1>3, <2>1, <3>2, <4>1, IndexRemove DEF IndexOK
    <3> QED
      BY <3>1, <3>2
  <2>3. CASE e.op = "Delete"
    <3>1. store[e.rowid] = NoRow \/ e.rowid \in clashed'
      BY <1>3, <1>7, <2>1, <2>3 DEF DeletesLast
    <3>2. index' = AddToIndex(index, e.old, e.rowid) /\ e.old \in Row
      BY <1>3, <1>4, <2>3
    <3>3. IndexAgrees(AddToIndex(index, e.old, e.rowid),
                      [store EXCEPT ![e.rowid] = e.old], clashed')
      BY <1>2, <1>3, <2>1, <3>1, <3>2, IndexAdd
    <3> QED
      BY <1>4, <3>2, <3>3 DEF IndexOK
  <2>4. CASE e.op = "Update"
    <3>1. /\ index' = MoveInIndex(index, store[e.rowid], e.old, e.rowid)
          /\ e.old \in Row
      BY <1>3, <1>4, <2>4
    <3>2. IndexAgrees(MoveInIndex(index, store[e.rowid], e.old, e.rowid),
                      [store EXCEPT ![e.rowid] = e.old], clashed')
      BY <1>2, <1>3, <2>1, <3>1, IndexMove
    <3> QED
      BY <1>4, <3>1, <3>2 DEF IndexOK
  <2> QED
    BY <1>3, <2>2, <2>3, <2>4 DEF UndoOp
<1> QED
  BY <1>8, <1>9, <1>10, <1>11, <1>12, <1>13 DEF TxnInv

-----------------------------------------------------------------------------
(* Preservation of Inv, by action *)

\* Starting a statement preserves what concerns transactions.
LEMMA StartStep ==
  ASSUME Inv, NEW n, StartStatement(n), pc' # "undo"
  PROVE  TxnInv'
<1>1. pc = "idle" /\ UNCHANGED <<store, index, nextRowid, journal, foreign, clashed,
                               interfered>>
  BY DEF StartStatement, tableVars
<1>2. CASE Autocommit
  BY <1>1, <1>2, OpenStep DEF Autocommit
<1>3. CASE \E t \in TxId \union {Stale} : Under(t, n)
  BY <1>1, <1>3, SameTxnsStep DEF Under
<1> QED
  BY <1>2, <1>3 DEF StartStatement

\* A row that fails validation, whether there is something to undo or not.
LEMMA FailStep ==
  ASSUME Inv, pc \in Statements, Fail, UNCHANGED <<store, index>>,
         nextRowid' \in {nextRowid, nextRowid + 1}
  PROVE  TxnInv' /\ PendingCurrent' /\ IndexOK'
<1>1. /\ nextTx' = nextTx /\ clashed' = clashed /\ todo' = NoRows
  BY FailType DEF Inv
<1>2. PendingCurrent'
  BY <1>1 DEF PendingCurrent, NoRows
<1>3. IndexOK'
  BY <1>1 DEF Inv, IndexOK
<1>4. TxnInv'
  <2>1. CASE shadow
    <3>1. tx \in active /\ pc # "undo" /\ StartUndo(tx) /\ UNCHANGED <<nextTx, shadow>>
      BY <2>1 DEF Fail, Inv, CallOK, Statements
    <3> QED
      BY <2>1, <3>1, StartUndoStep
  <2>2. CASE ~shadow
    BY <2>2, SameTxnsStep DEF Fail, BackToIdle, txnVars, ghostVars, Statements
  <2> QED
    BY <2>1, <2>2
<1> QED
  BY <1>2, <1>3, <1>4

\* Every step preserves the rest of the invariant.
LEMMA Preserved ==
  ASSUME Inv, Next
  PROVE  TxnInv' /\ PendingCurrent' /\ IndexOK'
<1> USE DEF Statements
<1>0. /\ store \in Rows /\ todo \in Rows /\ index \in [Row -> SUBSET RowId]
      /\ active \subseteq TxId /\ TypeOK /\ CallOK /\ IndexOK
  BY DEF Inv, TypeOK
<1>a. ASSUME UNCHANGED <<store, index, clashed>>  PROVE IndexOK'
  BY <1>a DEF Inv, IndexOK
<1>b. ASSUME UNCHANGED <<store, todo>>  PROVE PendingCurrent'
  BY <1>b DEF Inv, PendingCurrent
<1>c. ASSUME todo' = NoRows  PROVE PendingCurrent'
  BY <1>c DEF PendingCurrent, NoRows
<1>1. CASE Begin
  <2>1. /\ pc = "idle" /\ pc' # "undo" /\ ~shadow' /\ nextTx <= MaxTx /\ Open(nextTx)
        /\ UNCHANGED <<store, index, nextRowid, journal, foreign, clashed, interfered, todo>>
    BY <1>0, <1>1 DEF Begin, tableVars, callVars, CallOK
  <2> QED
    BY <2>1, <1>a, <1>b, OpenStep
<1>2. ASSUME NEW t \in TxId, Commit(t)
      PROVE  TxnInv' /\ PendingCurrent' /\ IndexOK'
  <2>1. /\ pc = "idle" /\ pc' # "undo" /\ ~shadow' /\ Forget(t)
        /\ UNCHANGED <<store, index, nextRowid, nextTx, clashed, interfered, todo>>
    BY <1>0, <1>2 DEF Commit, tableVars, callVars, CallOK
  <2> QED
    BY <2>1, <1>a, <1>b, ForgetStep
<1>3. ASSUME NEW t \in TxId, Rollback(t)
      PROVE  TxnInv' /\ PendingCurrent' /\ IndexOK'
  <2>1. /\ pc # "undo" /\ t \in active /\ StartUndo(t) /\ ~shadow'
        /\ UNCHANGED <<store, index, nextRowid, nextTx, clashed, todo>>
    BY <1>0, <1>3 DEF Rollback, StartUndo, tableVars, CallOK
  <2> QED
    BY <2>1, <1>a, <1>b, StartUndoStep
<1>4. ASSUME NEW rows, ExecuteInsert(rows)
      PROVE  TxnInv' /\ PendingCurrent' /\ IndexOK'
  <2>1. /\ StartStatement(Len(rows)) /\ pc' # "undo"
        /\ UNCHANGED <<store, index, clashed, todo>>
    BY <1>4 DEF ExecuteInsert, StartStatement, tableVars
  <2> QED
    BY <2>1, <1>a, <1>b, StartStep
<1>5. ASSUME NEW match \in SUBSET Live, Collect(match), pc' # "undo"
      PROVE  TxnInv' /\ PendingCurrent' /\ IndexOK'
  <2>1. /\ StartStatement(Cardinality(match))
        /\ UNCHANGED <<store, index, clashed>>
        /\ todo' = [r \in RowId |-> IF r \in match THEN store[r] ELSE NoRow]
    BY <1>5 DEF Collect, StartStatement, tableVars
  <2>2. PendingCurrent'
    BY <2>1 DEF PendingCurrent
  <2> QED
    BY <1>5, <2>1, <2>2, <1>a, StartStep
<1>6. ASSUME NEW match \in SUBSET Live, NEW f, ExecuteUpdate(match, f)
      PROVE  TxnInv' /\ PendingCurrent' /\ IndexOK'
  BY <1>5, <1>6 DEF ExecuteUpdate
<1>7. ASSUME NEW match \in SUBSET Live, ExecuteDelete(match)
      PROVE  TxnInv' /\ PendingCurrent' /\ IndexOK'
  BY <1>5, <1>7 DEF ExecuteDelete
<1>8. CASE InsertRow
  <2> DEFINE row == Head(inserts)
             r == nextRowid
  <2>1. /\ r \in RowId /\ row \in Row /\ pc \in Statements /\ nextRowid' = nextRowid + 1
        /\ todo = NoRows /\ store[r] = NoRow
    <3>1. pc = "insert" /\ inserts # <<>> /\ nextRowid' = nextRowid + 1
      BY <1>8 DEF InsertRow
    <3>2. Len(inserts) \in Nat \ {0} /\ row \in Row
      BY <1>0, <3>1, EmptySeq, HeadTailProperties DEF TypeOK
    <3>3. r \in RowId
      BY <1>0, <3>1, <3>2 DEF CallOK, TypeOK, RowId
    <3> QED
      BY <1>0, <3>1, <3>2, <3>3 DEF CallOK, Inv, TxnInv, FreshOK, RowId
  <2> HIDE DEF row, r
  <2>2. CASE Validates(row, r)
    <3>1. /\ store' = [store EXCEPT ![r] = row] /\ Record("Insert", r, NoRow)
          /\ index' = AddToIndex(index, row, r) /\ Touch(r)
          /\ UNCHANGED <<nextTx, active, base, interfered, pc, tx, shadow, clashed, todo>>
      BY <1>8, <2>2 DEF InsertRow, row, r
    <3>2. Wrote("Insert", r, row)
      BY <2>1, <3>1 DEF Wrote
    <3>3. Unique /\ ~interfered => UniqueTable(store')
      BY <1>0, <2>1, <2>2, <3>1, ValidatedUnique DEF Inv, TxnInv, UniqueOK
    <3>4. TxnInv'
      BY <2>1, <3>2, <3>3, WroteStep DEF r
    <3>5. PendingCurrent'
      BY <2>1, <3>1, <1>c
    <3>6. IndexAgrees(AddToIndex(index, row, r), [store EXCEPT ![r] = row], clashed)
      BY <1>0, <2>1, IndexAdd DEF IndexOK
    <3> QED
      BY <3>1, <3>4, <3>5, <3>6 DEF IndexOK
  <2>3. CASE ~Validates(row, r)
    <3>1. Fail /\ UNCHANGED <<store, index>>
      BY <1>8, <2>3 DEF InsertRow, row, r
    <3> QED
      BY <2>1, <3>1, FailStep
  <2> QED
    BY <2>2, <2>3
<1>9. ASSUME NEW r \in RowId, UpdateRow(r)
      PROVE  TxnInv' /\ PendingCurrent' /\ IndexOK'
  <2> DEFINE row == setf[todo[r]]
  <2>1. /\ pc \in Statements /\ nextRowid' = nextRowid /\ todo[r] = store[r]
        /\ store[r] # NoRow /\ store[r] \in Row /\ row \in Row
    <3>1. pc = "update" /\ todo[r] # NoRow /\ nextRowid' = nextRowid
      BY <1>9 DEF UpdateRow
    <3>2. todo[r] = store[r] /\ store[r] \in Row
      BY <1>0, <3>1 DEF Inv, PendingCurrent, Rows
    <3> QED
      BY <1>0, <3>1, <3>2, SetfType
  <2> HIDE DEF row
  <2>2. CASE Validates(row, r)
    <3>1. /\ store' = [store EXCEPT ![r] = row] /\ Record("Update", r, store[r])
          /\ index' = MoveInIndex(index, store[r], row, r) /\ Touch(r)
          /\ todo' = [todo EXCEPT ![r] = NoRow]
          /\ UNCHANGED <<nextTx, active, base, interfered, pc, tx, shadow, clashed>>
      BY <1>9, <2>1, <2>2 DEF UpdateRow, row
    <3>2. Wrote("Update", r, row)
      BY <3>1 DEF Wrote
    <3>3. Unique /\ ~interfered => UniqueTable(store')
      BY <1>0, <2>1, <2>2, <3>1, ValidatedUnique DEF Inv, TxnInv, UniqueOK
    <3>4. TxnInv'
      BY <2>1, <3>2, <3>3, WroteStep
    <3>5. PendingCurrent'
      BY <1>0, <3>1 DEF Inv, PendingCurrent, Rows
    <3>6. IndexAgrees(MoveInIndex(index, store[r], row, r), [store EXCEPT ![r] = row], clashed)
      BY <1>0, <2>1, IndexMove DEF IndexOK
    <3> QED
      BY <3>1, <3>4, <3>5, <3>6 DEF IndexOK
  <2>3. CASE ~Validates(row, r)
    <3>1. Fail /\ UNCHANGED <<store, index>>
      BY <1>9, <2>3 DEF UpdateRow, row
    <3> QED
      BY <2>1, <3>1, FailStep
  <2> QED
    BY <2>2, <2>3
<1>10. ASSUME NEW r \in RowId, DeleteRow(r)
       PROVE  TxnInv' /\ PendingCurrent' /\ IndexOK'
  <2>1. /\ pc \in Statements /\ todo[r] = store[r]
        /\ store[r] # NoRow /\ store[r] \in Row
    <3>1. pc = "delete" /\ todo[r] # NoRow
      BY <1>10 DEF DeleteRow
    <3> QED
      BY <1>0, <3>1 DEF Inv, PendingCurrent, Rows
  <2>2. /\ store' = [store EXCEPT ![r] = NoRow] /\ Record("Delete", r, store[r])
        /\ index' = RemoveFromIndex(index, store[r], r) /\ Touch(r)
        /\ todo' = [todo EXCEPT ![r] = NoRow] /\ nextRowid' = nextRowid
        /\ UNCHANGED <<nextTx, active, base, interfered, pc, tx, shadow, clashed>>
    BY <1>10, <2>1 DEF DeleteRow
  <2>3. Wrote("Delete", r, NoRow)
    BY <2>2 DEF Wrote
  <2>4. Unique /\ ~interfered => UniqueTable(store')
    BY <1>0, <2>2, RemovedUnique DEF Inv, TxnInv, UniqueOK
  <2>5. TxnInv'
    BY <2>1, <2>2, <2>3, <2>4, WroteStep
  <2>6. PendingCurrent'
    BY <1>0, <2>2 DEF Inv, PendingCurrent, Rows
  <2>7. IndexAgrees(RemoveFromIndex(index, store[r], r), [store EXCEPT ![r] = NoRow], clashed)
    BY <1>0, <2>1, IndexRemove DEF IndexOK
  <2> QED
    BY <2>2, <2>5, <2>6, <2>7 DEF IndexOK
<1>11. CASE StatementDone
  <2>1. /\ pc \in Statements /\ pc' = "idle" /\ ~shadow' /\ todo' = NoRows
        /\ UNCHANGED <<store, index, nextRowid, nextTx, clashed, interfered>>
    BY <1>11 DEF StatementDone, BackToIdle, tableVars
  <2>2. TxnInv'
    <3>1. CASE shadow
      <4>1. Forget(tx) /\ tx \in TxId
        BY <1>0, <1>11, <2>1, <3>1 DEF StatementDone, CallOK
      <4> QED
        BY <2>1, <4>1, ForgetStep
    <3>2. CASE ~shadow
      BY <1>11, <2>1, <3>2, SameTxnsStep DEF StatementDone
    <3> QED
      BY <3>1, <3>2
  <2> QED
    BY <2>1, <2>2, <1>a, <1>c
<1>12. CASE UndoStep
  <2>1. todo = NoRows /\ todo' = todo
    BY <1>0, <1>12 DEF UndoStep, CallOK, callVars
  <2> QED
    BY <1>12, <2>1, <1>c, UndoOneStep
<1>13. CASE UndoDone
  <2>1. /\ pc = "undo" /\ pc' = "idle" /\ ~shadow' /\ todo' = NoRows /\ Forget(tx)
        /\ tx \in TxId
        /\ UNCHANGED <<store, index, nextRowid, nextTx, clashed, interfered>>
    BY <1>0, <1>13 DEF UndoDone, BackToIdle, tableVars, CallOK
  <2> QED
    BY <2>1, <1>a, <1>c, ForgetStep
<1> QED
  BY <1>1, <1>2, <1>3, <1>4, <1>6, <1>7, <1>8, <1>9, <1>10, <1>11, <1>12, <1>13 DEF Next

\* The invariant holds at first.
LEMMA InvInit == Init => Inv
<1> SUFFICES ASSUME Init PROVE Inv
  OBVIOUS
<1>1. TypeOK /\ CallOK
  BY TypeInit
<1>2. Unfinished = {}
  BY DEF Init, Unfinished
<1>3. \A t \in TxId : journal[t] = <<>> /\ Len(journal[t]) = 0 /\ foreign[t] = {}
  BY EmptySeq DEF Init
<1>4. \A r \in RowId : store[r] = NoRow /\ todo[r] = NoRow
  BY DEF Init, NoRows
<1>5. IdsOK /\ FreshOK /\ ShadowAlone /\ JournalsOK
  BY <1>2, <1>3, <1>4 DEF IdsOK, FreshOK, ShadowAlone, JournalsOK, Init
<1>6. UniqueOK
  BY <1>2, <1>4 DEF UniqueOK, UniqueTable, Init
<1>7. PendingCurrent
  BY <1>4 DEF PendingCurrent
<1>8. IndexOK
  BY <1>4, RowAssumption DEF IndexOK, IndexAgrees, Init
<1> QED
  BY <1>1, <1>5, <1>6, <1>7, <1>8 DEF Inv, TxnInv

\* The invariant survives a stuttering step.
LEMMA InvStutter == Inv /\ UNCHANGED vars => Inv'
<1> SUFFICES ASSUME Inv, UNCHANGED vars PROVE Inv'
  OBVIOUS
<1>1. TypeOK' /\ CallOK'
  BY TypeStutter DEF Inv
<1> USE DEF vars, tableVars, txnVars, callVars, ghostVars
<1>2. Unfinished' = Unfinished
  BY DEF Unfinished
<1>3. IdsOK' /\ FreshOK' /\ ShadowAlone' /\ JournalsOK' /\ UniqueOK'
  BY <1>2 DEF Inv, TxnInv, IdsOK, FreshOK, ShadowAlone, JournalsOK, UniqueOK
<1>4. PendingCurrent' /\ IndexOK'
  BY DEF Inv, PendingCurrent, IndexOK
<1> QED
  BY <1>1, <1>3, <1>4 DEF Inv, TxnInv

\* The inductive invariant holds in every reachable state.
THEOREM Invariance == Spec => []Inv
<1>1. Inv /\ [Next]_vars => Inv'
  <2> SUFFICES ASSUME Inv, [Next]_vars PROVE Inv'
    OBVIOUS
  <2>1. CASE Next
    BY <2>1, TypeStep, Preserved DEF Inv
  <2>2. CASE UNCHANGED vars
    BY <2>2, InvStutter
  <2> QED
    BY <2>1, <2>2
<1> QED
  BY InvInit, <1>1, PTL DEF Spec

-----------------------------------------------------------------------------
(* What the invariant says of the engine *)

\* An indexed SELECT returns what a full scan would, however transactions were
\* interleaved and rolled back (rows_for_simple_where).
THEOREM IndexNeverLosesRows == Spec => []IndexLookupMatchesScan
<1>1. Inv => IndexLookupMatchesScan
  <2> SUFFICES ASSUME Inv PROVE IndexLookupMatchesScan
    OBVIOUS
  <2>1. index \in [Row -> SUBSET RowId] /\ IndexAgrees(index, store, clashed)
    BY DEF Inv, TypeOK, IndexOK
  <2> QED
    BY <2>1 DEF IndexLookupMatchesScan, IndexAgrees
<1> QED
  BY <1>1, Invariance, PTL

\* Only an undo over somebody else's write leaves a stale index entry
\* (undo_all, update_indexes).
THEOREM StaleEntriesComeFromClashes == Spec => []StaleEntryNeedsClash
<1>1. Inv => StaleEntryNeedsClash
  BY DEF Inv, IndexOK, IndexAgrees, StaleEntryNeedsClash
<1> QED
  BY <1>1, Invariance, PTL

\* ROLLBACK gives back every row nobody else has written since BEGIN.
THEOREM RollbackCorrect == Spec => []RollbackRestores
<1>1. Inv => RollbackRestores
  <2> SUFFICES ASSUME Inv, pc = "undo", journal[tx] = <<>>,
                      NEW r \in RowId \ foreign[tx]
               PROVE  store[r] = base[tx][r]
    BY DEF RollbackRestores
  <2>1. tx \in Unfinished
    BY DEF Inv, CallOK, Unfinished
  <2>2. Restores(journal[tx], store, base[tx], foreign[tx])
    BY <2>1 DEF Inv, TxnInv, JournalsOK
  <2>3. Len(journal[tx]) = 0
    BY EmptySeq
  <2> QED
    BY <2>2, <2>3 DEF Restores
<1> QED
  BY <1>1, Invariance, PTL

\* A failed autocommit statement leaves no trace in the table (execute).
THEOREM AutocommitIsAtomic == Spec => []AutocommitAtomic
<1>1. Inv => AutocommitAtomic
  <2> SUFFICES ASSUME Inv, pc = "undo", shadow, journal[tx] = <<>>
               PROVE  store = base[tx]
    BY DEF AutocommitAtomic
  <2>1. tx \in Unfinished /\ tx \in TxId
    BY DEF Inv, CallOK, Unfinished
  <2>2. Restores(journal[tx], store, base[tx], {})
    BY <2>1 DEF Inv, TxnInv, JournalsOK, ShadowAlone
  <2>3. Len(journal[tx]) = 0
    BY EmptySeq
  <2>4. \A r \in RowId : store[r] = base[tx][r]
    BY <2>2, <2>3 DEF Restores
  <2>5. store \in Rows /\ base[tx] \in Rows
    BY <2>1 DEF Inv, TypeOK
  <2> QED
    BY <2>4, <2>5 DEF Rows
<1> QED
  BY <1>1, Invariance, PTL

\* UNIQUE holds in every state, also halfway through a statement or an undo, as
\* long as no transaction is rolled back after somebody else wrote.
THEOREM UniqueCorrect == Spec => []UniqueUnlessInterfered
<1>1. Inv => UniqueUnlessInterfered
  BY DEF Inv, TxnInv, UniqueOK, UniqueTable, UniqueUnlessInterfered, Live
<1> QED
  BY <1>1, Invariance, PTL
=============================================================================
