-------------------------- MODULE StatementsProofs --------------------------
(***************************************************************************)
(* Proofs about Statements, for every catalog, every set of triggers and   *)
(* every depth of a cascade: what a trigger cascades into is undone, an    *)
(* index finds every row and lists no row by what it is not unless a stale *)
(* copy was written over it, triggers do not get round UNIQUE, and         *)
(* triggers that cascade keep references.                                  *)
(***************************************************************************)
EXTENDS Statements, SequenceTheorems, FiniteSetTheorems, TLAPS

-----------------------------------------------------------------------------
(* Types *)

Ops == {"Insert", "Update", "Delete"}

Stmt == [op : Ops, table : Table, where : SUBSET Val, set : [Val -> Val], rows : Seq(Val)]

Frame == [op : Ops, table : Table, set : [Val -> Val], rows : Seq(Val),
          todo : [RowId -> Row], phase : {"next", "Before", "After"},
          rowid : Nat, old : Row, new : Row,
          triggers : Seq(Trigger), body : Seq(Stmt)]

Entry == [op : Ops, table : Table, rowid : RowId, old : Row]

Tables == [Table -> [RowId -> Row]]

Documents == [docs : [Token -> SUBSET RowId], total : Int]

Outcome == {"none", "open", "kept"}

TypeOK ==
    /\ schema \in Schema
    /\ store \in Tables /\ index \in [Table -> [Val -> SUBSET RowId]]
    /\ fts \in [Table -> Documents]
    /\ nextRowid \in [Table -> Nat \ {0}]
    /\ stack \in Seq(Frame) /\ tx \in {"none", "shadow", "explicit"}
    /\ journal \in Seq(Entry) /\ undoing \in BOOLEAN
    /\ base \in Tables /\ failed \in Outcome
    /\ overwritten \in SUBSET (Table \X RowId) /\ statements \in Nat

-----------------------------------------------------------------------------
(* The inductive invariant, one conjunct per idea *)

\* Journal j says nothing about row r of t.
Untouched(j, t, r) == \A i \in 1 .. Len(j) : ~(j[i].table = t /\ j[i].rowid = r)

\* A row the journal does not name is as in b, and the first entry that names a
\* row holds what b has.
Restores(j, s, b) ==
    \A t \in Table : \A r \in RowId :
        /\ Untouched(j, t, r) => s[t][r] = b[t][r]
        /\ \A i \in 1 .. Len(j) :
               /\ j[i].table = t /\ j[i].rowid = r
               /\ \A k \in 1 .. i - 1 : ~(j[k].table = t /\ j[k].rowid = r)
               => j[i].old = b[t][r]

\* Frame f of a running statement: the copies of rows that nobody has written
\* since the transaction began are still good, and it holds rowids that have been
\* handed out only.
FrameOK(f, j, b, n) ==
    /\ f.phase = "next" => f.old = NoRow
    /\ f.phase = "Before" => f.rowid \in RowId /\ f.rowid < n[f.table]
    /\ f.phase = "Before" /\ Untouched(j, f.table, f.rowid) =>
           f.old = b[f.table][f.rowid]
    /\ \A r \in RowId : f.todo[r] # NoRow => r < n[f.table]
    /\ \A r \in RowId : f.todo[r] # NoRow /\ Untouched(j, f.table, r) =>
           f.todo[r] = b[f.table][r]

\* A rowid not handed out yet occurs nowhere.
FreshOK ==
    \A t \in Table : \A r \in RowId : r >= nextRowid[t] =>
        store[t][r] = NoRow /\ Untouched(journal, t, r)

TxOK ==
    /\ tx = "none" => stack = <<>> /\ ~undoing /\ journal = <<>>
    /\ tx # "none" => Restores(journal, store, base)
    /\ undoing => stack = <<>>

StackOK == \A i \in 1 .. Len(stack) : FrameOK(stack[i], journal, base, nextRowid)

Inv == TypeOK /\ TxOK /\ StackOK /\ FreshOK

-----------------------------------------------------------------------------
(* Sequences *)

\* The last element of a nonempty sequence and the sequence without it.
LEMMA LastFront ==
  ASSUME NEW S, NEW s \in Seq(S), s # <<>>
  PROVE  /\ Last(s) \in S /\ Last(s) = s[Len(s)] /\ Len(s) \in Nat \ {0}
         /\ Front(s) \in Seq(S) /\ Len(Front(s)) = Len(s) - 1
         /\ \A i \in 1 .. Len(s) - 1 : Front(s)[i] = s[i]
<1>1. Len(s) \in Nat \ {0}
  BY EmptySeq
<1>2. s[Len(s)] \in S /\ \A i \in 1 .. Len(s) - 1 : s[i] \in S
  BY <1>1, ElementOfSeq
<1> DEFINE n == Len(s) - 1
<1>3. n \in Nat /\ n \in Int /\ \A i \in 1 .. n : s[i] \in S
  BY <1>1, <1>2
<1> HIDE DEF n
<1>4. /\ SubSeq(s, 1, n) \in Seq(S)
      /\ Len(SubSeq(s, 1, n)) = IF 1 <= n THEN n - 1 + 1 ELSE 0
      /\ \A i \in 1 .. n - 1 + 1 : SubSeq(s, 1, n)[i] = s[1 + i - 1]
  BY <1>3, SubSeqProperties
<1>5. \A i \in 1 .. n : 1 + i - 1 = i
  BY <1>3
<1>6. Len(SubSeq(s, 1, n)) = n /\ \A i \in 1 .. n : SubSeq(s, 1, n)[i] = s[i]
  BY <1>3, <1>4, <1>5
<1> QED
  BY <1>1, <1>2, <1>4, <1>6 DEF Last, Front, n

\* A sequence with one element more.
LEMMA AppendFacts ==
  ASSUME NEW S, NEW s \in Seq(S), NEW e \in S
  PROVE  /\ Append(s, e) \in Seq(S) /\ Len(s) \in Nat
         /\ Len(Append(s, e)) = Len(s) + 1 /\ Append(s, e)[Len(s) + 1] = e
         /\ \A i \in 1 .. Len(s) : Append(s, e)[i] = s[i]
BY AppendProperties

\* The first element of a nonempty sequence and the rest.
LEMMA HeadTail ==
  ASSUME NEW S, NEW s \in Seq(S), s # <<>>
  PROVE  Head(s) \in S /\ Tail(s) \in Seq(S)
BY HeadTailProperties

-----------------------------------------------------------------------------
(* Frames *)

\* The types of a frame's fields.
LEMMA FrameFields ==
  ASSUME NEW f \in Frame
  PROVE  /\ f.op \in Ops /\ f.table \in Table /\ f.set \in [Val -> Val]
         /\ f.rows \in Seq(Val) /\ f.todo \in [RowId -> Row]
         /\ f.phase \in {"next", "Before", "After"} /\ f.rowid \in Nat
         /\ f.old \in Row /\ f.new \in Row
         /\ f.triggers \in Seq(Trigger) /\ f.body \in Seq(Stmt)
BY DEF Frame

\* An INSERT takes up its next row.
LEMMA TakeInsert ==
  ASSUME NEW f \in Frame, NEW n \in Nat, f.rows # <<>>
  PROVE  LET g == [f EXCEPT !.rows = Tail(@), !.rowid = n, !.new = Head(f.rows)]
         IN  /\ g \in Frame
             /\ g.op = f.op /\ g.table = f.table /\ g.todo = f.todo /\ g.old = f.old
             /\ g.phase = f.phase /\ g.rowid = n /\ g.new \in Val
<1>1. Tail(f.rows) \in Seq(Val) /\ Head(f.rows) \in Val
  BY HeadTail, FrameFields
<1> QED
  BY <1>1 DEF Frame, Row

\* The triggers of the next timing are gone through from the first.
LEMMA EnterFrame ==
  ASSUME schema \in Schema, NEW f \in Frame, NEW p \in {"Before", "After"}
  PROVE  LET g == Enter(f, p)
         IN  /\ g \in Frame
             /\ g.op = f.op /\ g.table = f.table /\ g.todo = f.todo /\ g.old = f.old
             /\ g.phase = p /\ g.rowid = f.rowid /\ g.new = f.new
<1>1. schema.triggers[f.table] \in Seq(Trigger)
  BY FrameFields DEF Schema
<1> QED
  BY <1>1 DEF Enter, Frame

\* A trigger is left behind, and its body taken up if it fires.
LEMMA FireFrame ==
  ASSUME NEW f \in Frame, NEW ts \in Seq(Trigger), NEW ss \in Seq(Stmt)
  PROVE  LET g == [f EXCEPT !.triggers = ts, !.body = ss]
         IN  /\ g \in Frame
             /\ g.op = f.op /\ g.table = f.table /\ g.todo = f.todo /\ g.old = f.old
             /\ g.phase = f.phase /\ g.rowid = f.rowid /\ g.new = f.new
BY DEF Frame

\* A statement of a body is left behind.
LEMMA BodyFrame ==
  ASSUME NEW f \in Frame, f.body # <<>>
  PROVE  LET g == [f EXCEPT !.body = Tail(@)]
         IN  /\ g \in Frame /\ Head(f.body) \in Stmt
             /\ g.op = f.op /\ g.table = f.table /\ g.todo = f.todo /\ g.old = f.old
             /\ g.phase = f.phase /\ g.rowid = f.rowid /\ g.new = f.new
<1>1. Tail(f.body) \in Seq(Stmt) /\ Head(f.body) \in Stmt
  BY HeadTail, FrameFields
<1> QED
  BY <1>1 DEF Frame

\* A row is done with.
LEMMA DoneFrame ==
  ASSUME NEW f \in Frame
  PROVE  LET g == [f EXCEPT !.phase = "next", !.rowid = 0, !.old = NoRow, !.new = NoRow]
         IN  /\ g \in Frame
             /\ g.op = f.op /\ g.table = f.table /\ g.todo = f.todo /\ g.old = NoRow
             /\ g.phase = "next"
BY DEF Frame, Row

\* A statement starts with copies of rows as they are.
LEMMA NewFrameFacts ==
  ASSUME store \in Tables, NEW s \in Stmt
  PROVE  LET g == NewFrame(s)
         IN  /\ g \in Frame
             /\ g.table = s.table /\ g.phase = "next" /\ g.old = NoRow
             /\ \A r \in RowId : g.todo[r] # NoRow => g.todo[r] = store[s.table][r]
<1> DEFINE td == IF s.op = "Insert" THEN NoRows
                 ELSE [r \in RowId |-> IF store[s.table][r] \in s.where
                                       THEN store[s.table][r] ELSE NoRow]
           rs == IF s.op = "Insert" THEN s.rows ELSE <<>>
<1>1. /\ s.op \in Ops /\ s.table \in Table /\ s.where \in SUBSET Val
      /\ s.set \in [Val -> Val] /\ s.rows \in Seq(Val)
  BY DEF Stmt
<1>2. store[s.table] \in [RowId -> Row]
  BY <1>1 DEF Tables
<1>3. td \in [RowId -> Row] /\ \A r \in RowId : td[r] # NoRow => td[r] = store[s.table][r]
  BY <1>1, <1>2 DEF Row, NoRows
<1>4. rs \in Seq(Val) /\ <<>> \in Seq(Trigger) /\ <<>> \in Seq(Stmt)
  BY <1>1, EmptySeq
<1>5. NoRow \in Row /\ 0 \in Nat
  BY DEF Row
<1> HIDE DEF td, rs
<1>6. NewFrame(s) = [op |-> s.op, table |-> s.table, set |-> s.set, rows |-> rs,
                     todo |-> td, phase |-> "next", rowid |-> 0, old |-> NoRow,
                     new |-> NoRow, triggers |-> <<>>, body |-> <<>>]
  BY DEF NewFrame, td, rs
<1> QED
  BY <1>1, <1>3, <1>4, <1>5, <1>6 DEF Frame

\* A statement of a trigger's body is a statement.
LEMMA InstantiateType ==
  ASSUME NEW b \in Body, NEW old \in Row, NEW new \in Row
  PROVE  Instantiate(b, old, new) \in Stmt
<1> DEFINE w == IF b.where = AnyRow \/ Missing(b.where, old, new) THEN Val
                ELSE {Substitute(b.where, old, new)}
           m == Missing(b.to, old, new)
           v == Substitute(b.to, old, new)
<1>1. /\ b.op \in Ops /\ b.table \in Table
      /\ b.where \in Val \union {OldValue, NewValue, AnyRow}
      /\ b.to \in Val \union {OldValue, NewValue}
  BY DEF Body, Ops
<1>2. w \in SUBSET Val
  BY <1>1, StatementsAssumption DEF Substitute, Missing, Row
<1>3. ~m => v \in Val
  BY <1>1, StatementsAssumption DEF Substitute, Missing, Row
<1> DEFINE f == IF m THEN Keep ELSE [x \in Val |-> v]
           c == IF m THEN Null ELSE v
<1>4. f \in [Val -> Val] /\ c \in Val
  BY <1>3, StatementsAssumption DEF Keep
<1> HIDE DEF w, m, v, f, c
<1>5. <<c>> \in Seq(Val)
  BY <1>4
<1>6. Instantiate(b, old, new) = [op |-> b.op, table |-> b.table, where |-> w,
                                  set |-> f, rows |-> <<c>>]
  BY DEF Instantiate, w, m, v, f, c
<1> QED
  BY <1>1, <1>2, <1>4, <1>5, <1>6 DEF Stmt

-----------------------------------------------------------------------------
(* One write *)

\* A write changes one row.
LEMMA WriteStore ==
  ASSUME TypeOK, NEW t \in Table, NEW r \in RowId, NEW old \in Row, NEW new \in Row,
         Write(t, r, old, new)
  PROVE  /\ store' \in Tables /\ store'[t][r] = new
         /\ \A u \in Table, q \in RowId : <<u, q>> # <<t, r>> => store'[u][q] = store[u][q]
BY DEF TypeOK, Tables, Write

\* The column index of a table keeps its type.
LEMMA FollowValueType ==
  ASSUME NEW ix \in [Val -> SUBSET RowId], NEW r \in RowId, NEW old, NEW new
  PROVE  FollowValue(ix, r, old, new) \in [Val -> SUBSET RowId]
BY DEF FollowValue

\* So does its full-text index.
LEMMA FollowTextType ==
  ASSUME NEW ix \in Documents, NEW r \in RowId, NEW old, NEW new
  PROVE  FollowText(ix, r, old, new) \in Documents
<1>1. \A d \in Documents : \A v : AddDocument(d, r, v) \in Documents
                                  /\ RemoveDocument(d, r, v) \in Documents
  BY DEF Documents, AddDocument, RemoveDocument
<1> QED
  BY <1>1 DEF FollowText

\* A write leaves the indexes with their types.
LEMMA WriteIndexes ==
  ASSUME TypeOK, NEW t \in Table, NEW r \in RowId, NEW old \in Row, NEW new \in Row,
         Write(t, r, old, new)
  PROVE  /\ index' \in [Table -> [Val -> SUBSET RowId]]
         /\ fts' \in [Table -> Documents]
<1>1. FollowValue(index[t], r, old, new) \in [Val -> SUBSET RowId]
  BY FollowValueType DEF TypeOK
<1>2. FollowText(fts[t], r, old, new) \in Documents
  BY FollowTextType DEF TypeOK
<1>3. index' \in [Table -> [Val -> SUBSET RowId]]
  BY <1>1 DEF TypeOK, Write
<1>4. fts' \in [Table -> Documents]
  BY <1>2 DEF TypeOK, Write
<1> QED
  BY <1>3, <1>4

\* Row v of rowid r can be found in the two indexes.
Found(v, ix, docs, t, r) ==
    v # NoRow =>
        /\ t \in schema.indexed => r \in ix[v]
        /\ t \in schema.fts => \A w \in Tokens[v] : r \in docs[w]

\* Whatever the indexes are told a row was, they find it by what it becomes,
\* and every other row as before.
LEMMA FollowFinds ==
  ASSUME NEW ix \in [Val -> SUBSET RowId], NEW d \in Documents, NEW t,
         NEW r \in RowId, NEW old \in Row, NEW new \in Row
  PROVE  /\ Found(new, FollowValue(ix, r, old, new), FollowText(d, r, old, new).docs, t, r)
         /\ \A q \in RowId \ {r}, v \in Row : Found(v, ix, d.docs, t, q) =>
                Found(v, FollowValue(ix, r, old, new), FollowText(d, r, old, new).docs, t, q)
<1> DEFINE ix2 == FollowValue(ix, r, old, new)
           less == IF IsText(old) THEN RemoveDocument(d, r, old) ELSE d
           d2 == FollowText(d, r, old, new)
<1>1. /\ new # NoRow => r \in ix2[new]
      /\ \A q \in RowId \ {r}, v \in Val : q \in ix[v] => q \in ix2[v]
  BY DEF FollowValue, Row
<1>2. /\ less \in Documents
      /\ \A q \in RowId \ {r}, w \in Token : q \in d.docs[w] => q \in less.docs[w]
  BY DEF RemoveDocument, Documents
<1>3. d2 = IF IsText(new) THEN AddDocument(less, r, new) ELSE less
  BY DEF FollowText
<1>4. \A v \in Val : \A w \in Tokens[v] : w \in Token
  BY DEF Token
<1>5. ASSUME new # NoRow, NEW w \in Tokens[new]  PROVE r \in d2.docs[w]
  <2>1. IsText(new) /\ w \in Token
    BY <1>4, <1>5, StatementsAssumption DEF IsText, Row
  <2> QED
    BY <1>2, <1>3, <1>5, <2>1 DEF AddDocument, Documents
<1>6. \A q \in RowId \ {r}, w \in Token : q \in d.docs[w] => q \in d2.docs[w]
  <2> HIDE DEF less, d2
  <2> QED
    BY <1>2, <1>3 DEF AddDocument, Documents
<1> HIDE DEF ix2, d2
<1>7. Found(new, ix2, d2.docs, t, r)
  BY <1>1, <1>5 DEF Found
<1>8. \A q \in RowId \ {r}, v \in Row : Found(v, ix, d.docs, t, q) => Found(v, ix2, d2.docs, t, q)
  BY <1>1, <1>4, <1>6 DEF Found, Row
<1> QED
  BY <1>7, <1>8 DEF ix2, d2

\* No write loses a row from an index.
LEMMA WriteFinds ==
  ASSUME TypeOK, schema' = schema, NEW t \in Table, NEW r \in RowId, NEW old \in Row, NEW new \in Row,
         Write(t, r, old, new), LookupsFindEveryRow
  PROVE  LookupsFindEveryRow'
<1> SUFFICES ASSUME NEW u \in Table, NEW q \in RowId
             PROVE  Found(store'[u][q], index'[u], fts'[u].docs, u, q)
  BY DEF LookupsFindEveryRow, Found
<1>1. Found(store[u][q], index[u], fts[u].docs, u, q) /\ store[u][q] \in Row
  BY DEF LookupsFindEveryRow, Found, TypeOK, Tables
<1>2. index[u] \in [Val -> SUBSET RowId] /\ fts[u] \in Documents
  BY DEF TypeOK
<1>3. CASE u # t
  <2>1. store'[u][q] = store[u][q]
    BY <1>3, WriteStore
  <2>2. index'[u] = index[u] /\ fts'[u] = fts[u]
    BY <1>3 DEF Write, TypeOK
  <2> QED
    BY <1>1, <2>1, <2>2
<1>4. CASE u = t
  <2>1. /\ u \in schema.indexed => index'[u] = FollowValue(index[u], r, old, new)
        /\ u \in schema.fts => fts'[u] = FollowText(fts[u], r, old, new)
    BY <1>4 DEF Write, TypeOK
  <2>2. store'[u][q] = IF q = r THEN new ELSE store[u][q]
    BY <1>4, WriteStore
  <2>3. Found(store'[u][q], FollowValue(index[u], r, old, new),
              FollowText(fts[u], r, old, new).docs, u, q)
    BY <1>1, <1>2, <2>2, FollowFinds
  <2> QED
    BY <2>1, <2>3 DEF Found
<1> QED
  BY <1>3, <1>4

-----------------------------------------------------------------------------
(* The journal *)

\* One entry more names one row more.
LEMMA UntouchedAppend ==
  ASSUME NEW j \in Seq(Entry), NEW e \in Entry, NEW t, NEW r
  PROVE  Untouched(Append(j, e), t, r)
           <=> Untouched(j, t, r) /\ ~(e.table = t /\ e.rowid = r)
<1>1. /\ Len(j) \in Nat /\ Len(Append(j, e)) = Len(j) + 1
      /\ Append(j, e)[Len(j) + 1] = e
      /\ \A i \in 1 .. Len(j) : Append(j, e)[i] = j[i]
  BY AppendFacts
<1> DEFINE a == Append(j, e)
<1> HIDE DEF a
<1> QED
  BY <1>1 DEF Untouched, a

\* A journaled write keeps the journal able to restore, as long as the copy is
\* good if it is the first entry about its row.
LEMMA RestoresAppend ==
  ASSUME NEW j \in Seq(Entry), NEW s, NEW s2, NEW b, NEW e \in Entry,
         Restores(j, s, b),
         Untouched(j, e.table, e.rowid) => e.old = b[e.table][e.rowid],
         \A u \in Table, q \in RowId :
             <<u, q>> # <<e.table, e.rowid>> => s2[u][q] = s[u][q]
  PROVE  Restores(Append(j, e), s2, b)
<1> DEFINE a == Append(j, e)
           n == Len(j)
<1>1. /\ n \in Nat /\ Len(a) = n + 1 /\ a[n + 1] = e
      /\ \A i \in 1 .. n : a[i] = j[i]
  BY AppendFacts
<1>2. \A t \in Table, r \in RowId : Untouched(a, t, r)
           <=> Untouched(j, t, r) /\ ~(e.table = t /\ e.rowid = r)
  BY UntouchedAppend
<1> HIDE DEF a
<1> SUFFICES ASSUME NEW t \in Table, NEW r \in RowId
             PROVE  /\ Untouched(a, t, r) => s2[t][r] = b[t][r]
                    /\ \A i \in 1 .. n + 1 :
                         /\ a[i].table = t /\ a[i].rowid = r
                         /\ \A k \in 1 .. i - 1 : ~(a[k].table = t /\ a[k].rowid = r)
                         => a[i].old = b[t][r]
  BY <1>1 DEF Restores, a
<1>3. ASSUME Untouched(a, t, r)  PROVE s2[t][r] = b[t][r]
  <2>1. Untouched(j, t, r) /\ <<t, r>> # <<e.table, e.rowid>>
    BY <1>2, <1>3
  <2> QED
    BY <2>1 DEF Restores
<1>4. ASSUME NEW i \in 1 .. n + 1, a[i].table = t, a[i].rowid = r,
             \A k \in 1 .. i - 1 : ~(a[k].table = t /\ a[k].rowid = r)
      PROVE  a[i].old = b[t][r]
  <2>1. CASE i = n + 1
    <3>1. Untouched(j, t, r)
      BY <1>1, <1>4, <2>1 DEF Untouched
    <3> QED
      BY <1>1, <1>4, <2>1, <3>1
  <2>2. CASE i \in 1 .. n
    <3>1. /\ j[i].table = t /\ j[i].rowid = r
          /\ \A k \in 1 .. i - 1 : ~(j[k].table = t /\ j[k].rowid = r)
      BY <1>1, <1>4, <2>2
    <3> QED
      BY <1>1, <2>2, <3>1 DEF Restores
  <2> QED
    BY <1>1, <2>1, <2>2
<1> QED
  BY <1>3, <1>4

\* Undoing the last entry leaves a journal that restores the rest.
LEMMA RestoresFront ==
  ASSUME NEW j \in Seq(Entry), j # <<>>, NEW s, NEW s2, NEW b, Restores(j, s, b),
         s2[Last(j).table][Last(j).rowid] = Last(j).old,
         \A u \in Table, q \in RowId :
             <<u, q>> # <<Last(j).table, Last(j).rowid>> => s2[u][q] = s[u][q]
  PROVE  Restores(Front(j), s2, b)
<1> DEFINE e == Last(j)
           a == Front(j)
           n == Len(a)
<1>1. /\ e \in Entry /\ n \in Nat /\ Len(j) = n + 1 /\ e = j[n + 1]
      /\ \A i \in 1 .. n : a[i] = j[i]
  BY LastFront
<1>2. /\ s2[e.table][e.rowid] = e.old
      /\ \A u \in Table, q \in RowId : <<u, q>> # <<e.table, e.rowid>> => s2[u][q] = s[u][q]
  OBVIOUS
<1> HIDE DEF e, a
<1> SUFFICES ASSUME NEW t \in Table, NEW r \in RowId
             PROVE  /\ Untouched(a, t, r) => s2[t][r] = b[t][r]
                    /\ \A i \in 1 .. n :
                         /\ a[i].table = t /\ a[i].rowid = r
                         /\ \A k \in 1 .. i - 1 : ~(a[k].table = t /\ a[k].rowid = r)
                         => a[i].old = b[t][r]
  BY DEF Restores, a
<1>3. ASSUME Untouched(a, t, r)  PROVE s2[t][r] = b[t][r]
  <2>1. \A k \in 1 .. n : ~(j[k].table = t /\ j[k].rowid = r)
    BY <1>1, <1>3 DEF Untouched
  <2>2. CASE e.table = t /\ e.rowid = r
    <3>1. j[n + 1].old = b[t][r]
      BY <1>1, <2>1, <2>2 DEF Restores
    <3> QED
      BY <1>1, <1>2, <2>2, <3>1
  <2>3. CASE ~(e.table = t /\ e.rowid = r)
    <3>1. Untouched(j, t, r)
      BY <1>1, <2>1, <2>3 DEF Untouched
    <3> QED
      BY <1>2, <2>3, <3>1 DEF Restores
  <2> QED
    BY <2>2, <2>3
<1>4. ASSUME NEW i \in 1 .. n, a[i].table = t, a[i].rowid = r,
             \A k \in 1 .. i - 1 : ~(a[k].table = t /\ a[k].rowid = r)
      PROVE  a[i].old = b[t][r]
  <2>1. /\ j[i].table = t /\ j[i].rowid = r
        /\ \A k \in 1 .. i - 1 : ~(j[k].table = t /\ j[k].rowid = r)
    BY <1>1, <1>4
  <2> QED
    BY <1>1, <2>1 DEF Restores
<1> QED
  BY <1>3, <1>4

-----------------------------------------------------------------------------
(* The stack *)

\* Nothing a frame relies on is lost when the journal grows or rowids are
\* handed out.
LEMMA FrameLater ==
  ASSUME NEW f \in Frame, NEW j \in Seq(Entry), NEW e \in Entry, NEW b,
         NEW n \in [Table -> Nat], NEW m \in [Table -> Nat],
         \A t \in Table : n[t] <= m[t], FrameOK(f, j, b, n)
  PROVE  FrameOK(f, j, b, m) /\ FrameOK(f, Append(j, e), b, m)
<1>1. \A t, r : Untouched(Append(j, e), t, r) => Untouched(j, t, r)
  BY UntouchedAppend
<1>2. f.table \in Table /\ f.rowid \in Nat /\ \A r \in RowId : r \in Nat
  BY FrameFields DEF RowId
<1>3. n[f.table] \in Nat /\ m[f.table] \in Nat /\ n[f.table] <= m[f.table]
  BY <1>2
<1> QED
  BY <1>1, <1>2, <1>3 DEF FrameOK

\* The running statement goes on as frame g.
LEMMA StackReplace ==
  ASSUME stack \in Seq(Frame), stack # <<>>, NEW g \in Frame, Continue(g),
         NEW j, NEW b, NEW n, FrameOK(g, j, b, n),
         \A i \in 1 .. Len(stack) : FrameOK(stack[i], j, b, n)
  PROVE  /\ stack' \in Seq(Frame) /\ stack' # <<>>
         /\ \A i \in 1 .. Len(stack') : FrameOK(stack'[i], j, b, n)
<1> DEFINE p == Front(stack)
<1>1. /\ p \in Seq(Frame) /\ Len(p) \in Nat /\ Len(stack) = Len(p) + 1
      /\ \A i \in 1 .. Len(p) : p[i] = stack[i]
  BY LastFront
<1>2. stack' = Append(p, g)
  BY DEF Continue
<1> HIDE DEF p
<1>3. /\ stack' \in Seq(Frame) /\ Len(stack') = Len(p) + 1 /\ stack'[Len(p) + 1] = g
      /\ \A i \in 1 .. Len(p) : stack'[i] = p[i]
  BY <1>1, <1>2, AppendFacts
<1>4. stack' # <<>>
  BY <1>1, <1>3, EmptySeq
<1> QED
  BY <1>1, <1>3, <1>4

-----------------------------------------------------------------------------
(* Every step preserves the invariant *)

\* The running statement.
LEMMA TopFacts ==
  ASSUME Inv, stack # <<>>
  PROVE  /\ Top \in Frame /\ FrameOK(Top, journal, base, nextRowid)
         /\ tx # "none" /\ ~undoing /\ Restores(journal, store, base)
         /\ stack \in Seq(Frame) /\ journal \in Seq(Entry) /\ schema \in Schema
<1>1. Top \in Frame /\ Top = stack[Len(stack)] /\ Len(stack) \in Nat \ {0}
  BY LastFront DEF Inv, TypeOK, Top
<1>2. FrameOK(Top, journal, base, nextRowid)
  BY <1>1 DEF Inv, StackOK
<1> QED
  BY <1>1, <1>2 DEF Inv, TxOK, TypeOK

\* Steps that only replace the running frame.
LEMMA ContinueStep ==
  ASSUME Inv, stack # <<>>, NEW g \in Frame, Continue(g),
         FrameOK(g, journal, base, nextRowid),
         UNCHANGED <<schema, tableVars, nextRowid, txnVars, overwritten, statements>>
  PROVE  Inv'
<1>1. /\ stack' \in Seq(Frame) /\ stack' # <<>>
      /\ \A i \in 1 .. Len(stack') : FrameOK(stack'[i], journal, base, nextRowid)
  BY TopFacts, StackReplace DEF Inv, StackOK
<1>2. TypeOK'
  BY <1>1 DEF Inv, TypeOK, tableVars, txnVars
<1>3. TxOK'
  BY TopFacts DEF TxOK, tableVars, txnVars
<1>4. StackOK' /\ FreshOK'
  BY <1>1 DEF Inv, StackOK, FreshOK, tableVars, txnVars
<1> QED
  BY <1>2, <1>3, <1>4 DEF Inv

\* A row is taken up, or fails validation.
LEMMA TakeRowStep ==
  ASSUME Inv, stack # <<>>, NEW g \in Frame, TakeRow(g),
         nextRowid' \in [Table -> Nat \ {0}],
         \A t \in Table : nextRowid[t] <= nextRowid'[t],
         FrameOK(Enter(g, "Before"), journal, base, nextRowid'),
         UNCHANGED <<schema, statements>>
  PROVE  Inv'
<1>1. UNCHANGED <<tableVars, tx, journal, base, overwritten>> /\ failed' \in Outcome
  BY TopFacts DEF TakeRow, Fail, txnVars, Inv, TypeOK, Outcome
<1>2. FreshOK'
  <2>1. \A t \in Table : nextRowid[t] \in Nat /\ nextRowid'[t] \in Nat
    BY DEF Inv, TypeOK
  <2>2. \A r \in RowId : r \in Nat
    BY DEF RowId
  <2>3. \A t \in Table, r \in RowId : r >= nextRowid'[t] => r >= nextRowid[t]
    BY <2>1, <2>2
  <2> QED
    BY <1>1, <2>3 DEF Inv, FreshOK, tableVars
<1>3. CASE g.op # "Delete" /\ ~Validates(g.table, g.new, g.rowid)
  <2>1. stack' = <<>> /\ undoing' = (tx = "shadow")
    BY <1>3 DEF TakeRow, Fail
  <2>2. TypeOK'
    BY <1>1, <2>1, EmptySeq DEF Inv, TypeOK, tableVars
  <2>3. TxOK'
    BY <1>1, <2>1, TopFacts DEF TxOK, tableVars
  <2>4. StackOK'
    BY <2>1, EmptySeq DEF StackOK
  <2> QED
    BY <1>2, <2>2, <2>3, <2>4 DEF Inv
<1>4. CASE ~(g.op # "Delete" /\ ~Validates(g.table, g.new, g.rowid))
  <2>1. Continue(Enter(g, "Before")) /\ undoing' = undoing
    BY <1>4 DEF TakeRow, txnVars
  <2>2. Enter(g, "Before") \in Frame
    BY TopFacts, EnterFrame
  <2>3. \A i \in 1 .. Len(stack) : FrameOK(stack[i], journal, base, nextRowid')
    <3> SUFFICES ASSUME NEW i \in 1 .. Len(stack)
                 PROVE  FrameOK(stack[i], journal, base, nextRowid')
      OBVIOUS
    <3>1. stack[i] \in Frame /\ FrameOK(stack[i], journal, base, nextRowid)
      BY ElementOfSeq DEF Inv, TypeOK, StackOK
    <3>2. nextRowid \in [Table -> Nat] /\ nextRowid' \in [Table -> Nat]
      BY DEF Inv, TypeOK
    <3>3. FrameOK(stack[i], journal, base, nextRowid')
      <4>1. stack[i].table \in Table /\ stack[i].rowid \in Nat
        BY <3>1, FrameFields
      <4>2. \A r \in RowId : r \in Nat
        BY DEF RowId
      <4>3. /\ nextRowid[stack[i].table] \in Nat /\ nextRowid'[stack[i].table] \in Nat
            /\ nextRowid[stack[i].table] <= nextRowid'[stack[i].table]
        BY <3>2, <4>1
      <4> QED
        BY <3>1, <4>1, <4>2, <4>3 DEF FrameOK
    <3> QED
      BY <3>3
  <2>4. /\ stack' \in Seq(Frame) /\ stack' # <<>>
        /\ \A i \in 1 .. Len(stack') : FrameOK(stack'[i], journal, base, nextRowid')
    BY <2>1, <2>2, <2>3, TopFacts, StackReplace
  <2>5. TypeOK'
    BY <1>1, <2>1, <2>4 DEF Inv, TypeOK, tableVars
  <2>6. TxOK'
    BY <1>1, <2>1, TopFacts DEF TxOK, tableVars
  <2>7. StackOK'
    BY <1>1, <2>4 DEF StackOK
  <2> QED
    BY <1>2, <2>5, <2>6, <2>7 DEF Inv
<1> QED
  BY <1>3, <1>4

\* The rowid of a new row is one that nothing knows.
LEMMA InsertRowStep ==
  ASSUME Inv, InsertRow
  PROVE  Inv'
<1> DEFINE n == nextRowid[Top.table]
           g == [Top EXCEPT !.rows = Tail(@), !.rowid = n, !.new = Head(Top.rows)]
           h == Enter(g, "Before")
<1>1. stack # <<>> /\ Top.phase = "next" /\ Top.rows # <<>> /\ n <= MaxRowid
  BY DEF InsertRow
<1>2. Top \in Frame /\ FrameOK(Top, journal, base, nextRowid) /\ Top.table \in Table
  BY <1>1, TopFacts, FrameFields
<1>3. n \in RowId /\ n \in Nat \ {0}
  BY <1>1, <1>2, StatementsAssumption DEF Inv, TypeOK, RowId
<1>4. /\ g \in Frame
      /\ g.op = Top.op /\ g.table = Top.table /\ g.todo = Top.todo /\ g.old = Top.old
      /\ g.phase = Top.phase /\ g.rowid = n /\ g.new \in Val
  BY <1>1, <1>2, <1>3, TakeInsert
<1> HIDE DEF g
<1>5. /\ h \in Frame /\ h.table = Top.table /\ h.todo = Top.todo /\ h.old = Top.old
      /\ h.phase = "Before" /\ h.rowid = n
  BY <1>1, <1>4, TopFacts, EnterFrame
<1>6. TakeRow(g) /\ UNCHANGED <<schema, statements>>
  BY DEF InsertRow, g
<1>7. nextRowid' = [nextRowid EXCEPT ![Top.table] = n + 1]
  BY DEF InsertRow
<1>8. /\ nextRowid' \in [Table -> Nat \ {0}]
      /\ \A t \in Table : nextRowid[t] <= nextRowid'[t]
      /\ nextRowid'[Top.table] = n + 1
  <2>1. nextRowid \in [Table -> Nat \ {0}]
    BY DEF Inv, TypeOK
  <2> HIDE DEF n
  <2>2. n \in Nat \ {0} /\ nextRowid[Top.table] = n
    BY <1>3 DEF n
  <2> QED
    BY <1>2, <1>7, <2>1, <2>2
<1>9. h.old = NoRow
  BY <1>1, <1>2, <1>5 DEF FrameOK
<1>10. base[Top.table][n] = NoRow
  <2>1. store[Top.table][n] = NoRow /\ Untouched(journal, Top.table, n)
    BY <1>2, <1>3 DEF Inv, FreshOK
  <2> QED
    BY <1>1, <1>2, <1>3, <2>1, TopFacts DEF Restores
<1>11. FrameOK(h, journal, base, nextRowid')
  <2> HIDE DEF h, n
  <2>1. \A r \in RowId : h.todo[r] # NoRow => r < n
    BY <1>2, <1>5 DEF FrameOK, n
  <2>2. \A r \in RowId : r \in Nat
    BY DEF RowId
  <2>3. \A r \in RowId : h.todo[r] # NoRow => r < n + 1
    BY <1>3, <2>1, <2>2
  <2>4. n < n + 1
    BY <1>3
  <2> QED
    BY <1>2, <1>3, <1>5, <1>8, <1>9, <1>10, <2>3, <2>4 DEF FrameOK
<1> QED
  BY <1>1, <1>4, <1>6, <1>8, <1>11, TakeRowStep

\* A copied row is taken up.
LEMMA ChangeRowStep ==
  ASSUME Inv, NEW r \in RowId, ChangeRow(r)
  PROVE  Inv'
<1> DEFINE v == IF Top.op = "Delete" THEN NoRow ELSE Top.set[Top.todo[r]]
           g == [Top EXCEPT !.todo[r] = NoRow, !.rowid = r, !.old = Top.todo[r], !.new = v]
           h == Enter(g, "Before")
<1>1. stack # <<>> /\ Top.phase = "next" /\ Top.todo[r] # NoRow
  BY DEF ChangeRow
<1>2. Top \in Frame /\ FrameOK(Top, journal, base, nextRowid) /\ Top.table \in Table
  BY <1>1, TopFacts, FrameFields
<1>3. v \in Row
  <2>1. Top.todo[r] \in Val
    BY <1>1, <1>2, FrameFields DEF Row
  <2> QED
    BY <1>2, <2>1, FrameFields DEF Row
<1>4. TakeRow(g) /\ UNCHANGED <<schema, nextRowid, statements>>
  BY DEF ChangeRow
<1> HIDE DEF v
<1>5. /\ g \in Frame
      /\ g.op = Top.op /\ g.table = Top.table /\ g.todo = [Top.todo EXCEPT ![r] = NoRow]
      /\ g.old = Top.todo[r] /\ g.phase = Top.phase /\ g.rowid = r /\ g.new = v
  <2> DEFINE f == Top
  <2>1. f \in Frame
    BY <1>2
  <2> HIDE DEF f
  <2>2. LET k == [f EXCEPT !.todo[r] = NoRow, !.rowid = r, !.old = f.todo[r], !.new = v]
        IN  /\ k \in Frame
            /\ k.op = f.op /\ k.table = f.table /\ k.todo = [f.todo EXCEPT ![r] = NoRow]
            /\ k.old = f.todo[r] /\ k.phase = f.phase /\ k.rowid = r /\ k.new = v
    <3>1. f.todo[r] \in Row /\ [f.todo EXCEPT ![r] = NoRow] \in [RowId -> Row]
      BY <2>1, FrameFields DEF Row
    <3>2. r \in Nat
      BY DEF RowId
    <3> QED
      BY <1>3, <2>1, <3>1, <3>2 DEF Frame
  <2> QED
    BY <2>2 DEF f
<1> HIDE DEF g
<1>6. /\ h \in Frame /\ h.table = Top.table /\ h.todo = [Top.todo EXCEPT ![r] = NoRow]
      /\ h.old = Top.todo[r] /\ h.phase = "Before" /\ h.rowid = r
  BY <1>1, <1>5, TopFacts, EnterFrame
<1> HIDE DEF h
<1>7. \A q \in RowId : h.todo[q] # NoRow => Top.todo[q] # NoRow /\ h.todo[q] = Top.todo[q]
  BY <1>2, <1>6, FrameFields
<1>8. FrameOK(h, journal, base, nextRowid)
  BY <1>1, <1>2, <1>6, <1>7 DEF FrameOK
<1>9. /\ nextRowid' \in [Table -> Nat \ {0}]
      /\ \A t \in Table : nextRowid[t] <= nextRowid'[t]
  <2>1. nextRowid \in [Table -> Nat \ {0}] /\ nextRowid' = nextRowid
    BY <1>4 DEF Inv, TypeOK
  <2> QED
    BY <2>1
<1> QED
  BY <1>1, <1>4, <1>5, <1>8, <1>9, TakeRowStep DEF h

\* A trigger fires, or is passed over.
LEMMA FireTriggerStep ==
  ASSUME Inv, FireTrigger
  PROVE  Inv'
<1> DEFINE t == Head(Top.triggers)
           ts == Tail(Top.triggers)
           b == [i \in DOMAIN t.body |-> Instantiate(t.body[i], Top.old, Top.new)]
           ss == IF Fires(t, Top) THEN b ELSE <<>>
           g == [Top EXCEPT !.triggers = ts, !.body = ss]
<1>1. stack # <<>> /\ Top.triggers # <<>>
  BY DEF FireTrigger
<1>2. Top \in Frame /\ FrameOK(Top, journal, base, nextRowid)
  BY <1>1, TopFacts
<1>3. t \in Trigger /\ ts \in Seq(Trigger) /\ Top.old \in Row /\ Top.new \in Row
  BY <1>1, <1>2, FrameFields, HeadTail
<1>4. b \in Seq(Stmt)
  <2>1. t.body \in Seq(Body)
    BY <1>3 DEF Trigger
  <2>2. /\ Len(t.body) \in Nat /\ DOMAIN t.body = 1 .. Len(t.body)
        /\ \A i \in 1 .. Len(t.body) : t.body[i] \in Body
    BY <2>1, ElementOfSeq, LenProperties
  <2>3. \A i \in 1 .. Len(t.body) : Instantiate(t.body[i], Top.old, Top.new) \in Stmt
    BY <1>3, <2>2, InstantiateType
  <2> DEFINE n == Len(t.body)
             e(i) == Instantiate(t.body[i], Top.old, Top.new)
  <2>4. b = [i \in 1 .. n |-> e(i)] /\ n \in Nat /\ \A i \in 1 .. n : e(i) \in Stmt
    BY <2>2, <2>3
  <2> HIDE DEF n, e, b
  <2>5. [i \in 1 .. n |-> e(i)] \in Seq(Stmt)
    BY <2>4, IsASeq
  <2> QED
    BY <2>4, <2>5
<1>5. ss \in Seq(Stmt)
  <2> HIDE DEF b, t
  <2> QED
    BY <1>4, EmptySeq
<1>6. Continue(g) /\ UNCHANGED <<schema, tableVars, nextRowid, txnVars, overwritten, statements>>
  BY DEF FireTrigger
<1> HIDE DEF ss, ts
<1>7. /\ g \in Frame
      /\ g.op = Top.op /\ g.table = Top.table /\ g.todo = Top.todo /\ g.old = Top.old
      /\ g.phase = Top.phase /\ g.rowid = Top.rowid /\ g.new = Top.new
  BY <1>2, <1>3, <1>5, FireFrame
<1> HIDE DEF g
<1>8. FrameOK(g, journal, base, nextRowid)
  BY <1>2, <1>7 DEF FrameOK
<1> QED
  BY <1>1, <1>6, <1>7, <1>8, ContinueStep

\* A row is done with.
LEMMA RowDoneStep ==
  ASSUME Inv, RowDone
  PROVE  Inv'
<1> DEFINE g == [Top EXCEPT !.phase = "next", !.rowid = 0, !.old = NoRow, !.new = NoRow]
<1>1. /\ stack # <<>> /\ Continue(g)
      /\ UNCHANGED <<schema, tableVars, nextRowid, txnVars, overwritten, statements>>
  BY DEF RowDone
<1>2. Top \in Frame /\ FrameOK(Top, journal, base, nextRowid)
  BY <1>1, TopFacts
<1>3. /\ g \in Frame
      /\ g.op = Top.op /\ g.table = Top.table /\ g.todo = Top.todo /\ g.old = NoRow
      /\ g.phase = "next"
  BY <1>2, DoneFrame
<1> HIDE DEF g
<1>4. FrameOK(g, journal, base, nextRowid)
  BY <1>2, <1>3 DEF FrameOK
<1> QED
  BY <1>1, <1>3, <1>4, ContinueStep

\* The copies a statement starts with are good.
LEMMA NewFrameOK ==
  ASSUME Inv, NEW s \in Stmt, NEW j, NEW b, Restores(j, store, b)
  PROVE  NewFrame(s) \in Frame /\ FrameOK(NewFrame(s), j, b, nextRowid)
<1> DEFINE g == NewFrame(s)
<1>1. /\ g \in Frame /\ g.table = s.table /\ g.phase = "next" /\ g.old = NoRow
      /\ \A r \in RowId : g.todo[r] # NoRow => g.todo[r] = store[s.table][r]
  BY NewFrameFacts DEF Inv, TypeOK
<1> HIDE DEF g
<1>2. s.table \in Table /\ nextRowid[s.table] \in Nat /\ \A r \in RowId : r \in Nat
  BY DEF Stmt, RowId, Inv, TypeOK
<1>3. \A r \in RowId : store[s.table][r] # NoRow => r < nextRowid[s.table]
  BY <1>2 DEF Inv, FreshOK
<1>4. \A r \in RowId : Untouched(j, s.table, r) => store[s.table][r] = b[s.table][r]
  BY <1>2 DEF Restores
<1>5. FrameOK(g, j, b, nextRowid)
  BY <1>1, <1>3, <1>4 DEF FrameOK
<1> QED
  BY <1>1, <1>5 DEF g

\* A statement of a trigger's body runs on top of the one that fired it.
LEMMA RunBodyStep ==
  ASSUME Inv, RunBody
  PROVE  Inv'
<1> DEFINE g == [Top EXCEPT !.body = Tail(@)]
           p == Append(Front(stack), g)
           h == NewFrame(Head(Top.body))
<1>1. /\ stack # <<>> /\ Top.body # <<>> /\ stack' = Append(p, h)
      /\ UNCHANGED <<schema, tableVars, nextRowid, txnVars, overwritten, statements>>
  BY DEF RunBody
<1>2. Top \in Frame /\ FrameOK(Top, journal, base, nextRowid)
  BY <1>1, TopFacts
<1>3. /\ g \in Frame /\ Head(Top.body) \in Stmt
      /\ g.op = Top.op /\ g.table = Top.table /\ g.todo = Top.todo /\ g.old = Top.old
      /\ g.phase = Top.phase /\ g.rowid = Top.rowid /\ g.new = Top.new
  BY <1>1, <1>2, BodyFrame
<1> HIDE DEF g
<1>4. FrameOK(g, journal, base, nextRowid)
  BY <1>2, <1>3 DEF FrameOK
<1>5. h \in Frame /\ FrameOK(h, journal, base, nextRowid)
  BY <1>1, <1>3, TopFacts, NewFrameOK
<1> HIDE DEF h
<1>6. /\ p \in Seq(Frame) /\ Len(p) = Len(stack) /\ Len(p) \in Nat \ {0}
      /\ \A i \in 1 .. Len(p) : FrameOK(p[i], journal, base, nextRowid)
  <2> DEFINE q == Front(stack)
  <2>1. /\ q \in Seq(Frame) /\ Len(q) \in Nat /\ Len(stack) = Len(q) + 1
        /\ \A i \in 1 .. Len(q) : q[i] = stack[i]
    <3>1. stack \in Seq(Frame) /\ stack # <<>>
      BY <1>1, TopFacts
    <3> QED
      BY <3>1, LastFront
  <2>2. p = Append(q, g)
    OBVIOUS
  <2> HIDE DEF p, q
  <2>3. /\ p \in Seq(Frame) /\ Len(p) = Len(q) + 1 /\ p[Len(q) + 1] = g
        /\ \A i \in 1 .. Len(q) : p[i] = q[i]
    BY <1>3, <2>1, <2>2, AppendFacts
  <2>4. \A i \in 1 .. Len(q) : FrameOK(stack[i], journal, base, nextRowid)
    BY <2>1 DEF Inv, StackOK
  <2> QED
    BY <1>4, <2>1, <2>3, <2>4
<1> HIDE DEF p
<1>7. /\ stack' \in Seq(Frame) /\ Len(stack') = Len(p) + 1 /\ stack'[Len(p) + 1] = h
      /\ \A i \in 1 .. Len(p) : stack'[i] = p[i]
  BY <1>1, <1>5, <1>6, AppendFacts
<1>8. StackOK'
  <2>1. \A i \in 1 .. Len(stack') : FrameOK(stack'[i], journal, base, nextRowid)
    BY <1>5, <1>6, <1>7
  <2> QED
    BY <1>1, <2>1 DEF StackOK, txnVars
<1>9. TypeOK'
  BY <1>1, <1>7 DEF Inv, TypeOK, tableVars, txnVars
<1>10. TxOK' /\ FreshOK'
  BY <1>1, TopFacts DEF Inv, TxOK, FreshOK, tableVars, txnVars
<1> QED
  BY <1>8, <1>9, <1>10 DEF Inv

\* A row is written and journaled.
LEMMA WriteRowStep ==
  ASSUME Inv, WriteRow
  PROVE  Inv'
<1> DEFINE g == Enter(Top, "After")
           e == [op |-> Top.op, table |-> Top.table, rowid |-> Top.rowid, old |-> Top.old]
<1>1. /\ stack # <<>> /\ Top.phase = "Before" /\ Continue(g)
      /\ Write(Top.table, Top.rowid, Top.old, Top.new)
      /\ journal' = Append(journal, e)
      /\ UNCHANGED <<schema, nextRowid, tx, undoing, base, failed, statements>>
  BY DEF WriteRow, Record
<1>2. /\ Top \in Frame /\ FrameOK(Top, journal, base, nextRowid)
      /\ tx # "none" /\ ~undoing /\ Restores(journal, store, base)
      /\ stack \in Seq(Frame) /\ journal \in Seq(Entry) /\ schema \in Schema
  BY <1>1, TopFacts
<1>3. /\ Top.op \in Ops /\ Top.table \in Table /\ Top.old \in Row /\ Top.new \in Row
      /\ Top.rowid \in RowId /\ Top.rowid < nextRowid[Top.table]
  BY <1>1, <1>2, FrameFields DEF FrameOK
<1>4. /\ e \in Entry /\ e.table = Top.table /\ e.rowid = Top.rowid /\ e.old = Top.old
  BY <1>3 DEF Entry
<1>5. /\ g \in Frame /\ g.table = Top.table /\ g.todo = Top.todo /\ g.phase = "After"
  BY <1>2, EnterFrame
<1> HIDE DEF e, g
<1>6. /\ store' \in Tables
      /\ \A u \in Table, q \in RowId :
             <<u, q>> # <<e.table, e.rowid>> => store'[u][q] = store[u][q]
  BY <1>1, <1>3, <1>4, WriteStore DEF Inv
<1>7. Restores(journal', store', base)
  <2>1. Untouched(journal, e.table, e.rowid) => e.old = base[e.table][e.rowid]
    BY <1>1, <1>2, <1>4 DEF FrameOK
  <2> QED
    BY <1>1, <1>2, <1>4, <1>6, <2>1, RestoresAppend
<1>8. \A i \in 1 .. Len(stack) : FrameOK(stack[i], journal', base, nextRowid)
  <2> SUFFICES ASSUME NEW i \in 1 .. Len(stack)
               PROVE  FrameOK(stack[i], Append(journal, e), base, nextRowid)
    BY <1>1
  <2>1. stack[i] \in Frame /\ FrameOK(stack[i], journal, base, nextRowid)
    BY <1>2, ElementOfSeq DEF Inv, StackOK
  <2>2. nextRowid \in [Table -> Nat] /\ \A t \in Table : nextRowid[t] <= nextRowid[t]
    BY DEF Inv, TypeOK
  <2> QED
    BY <1>2, <1>4, <2>1, <2>2, FrameLater
<1>9. FrameOK(g, journal', base, nextRowid)
  <2>1. nextRowid \in [Table -> Nat] /\ \A t \in Table : nextRowid[t] <= nextRowid[t]
    BY DEF Inv, TypeOK
  <2>2. FrameOK(Top, Append(journal, e), base, nextRowid)
    BY <1>2, <1>4, <2>1, FrameLater
  <2> QED
    BY <1>1, <1>5, <2>2 DEF FrameOK
<1>10. /\ stack' \in Seq(Frame) /\ stack' # <<>>
       /\ \A i \in 1 .. Len(stack') : FrameOK(stack'[i], journal', base, nextRowid)
  BY <1>1, <1>2, <1>5, <1>8, <1>9, StackReplace
<1>11. journal' \in Seq(Entry)
  BY <1>1, <1>2, <1>4, AppendFacts
<1>12. TypeOK'
  <2>1. index' \in [Table -> [Val -> SUBSET RowId]] /\ fts' \in [Table -> Documents]
    BY <1>1, <1>3, WriteIndexes DEF Inv
  <2>2. overwritten' \in SUBSET (Table \X RowId)
    BY <1>3 DEF WriteRow, Inv, TypeOK
  <2> QED
    BY <1>1, <1>6, <1>10, <1>11, <2>1, <2>2 DEF Inv, TypeOK
<1>13. TxOK'
  BY <1>1, <1>2, <1>7 DEF TxOK
<1>14. StackOK'
  BY <1>1, <1>10 DEF StackOK
<1>15. FreshOK'
  <2> SUFFICES ASSUME NEW t \in Table, NEW r \in RowId, r >= nextRowid[t]
               PROVE  store'[t][r] = NoRow /\ Untouched(journal', t, r)
    BY <1>1 DEF FreshOK
  <2>1. store[t][r] = NoRow /\ Untouched(journal, t, r)
    BY DEF Inv, FreshOK
  <2>2. <<t, r>> # <<e.table, e.rowid>>
    <3>1. r \in Nat /\ nextRowid[t] \in Nat
      BY DEF RowId, Inv, TypeOK
    <3>2. Top.rowid \in Nat
      BY <1>3 DEF RowId
    <3> QED
      BY <1>3, <1>4, <3>1, <3>2
  <2> QED
    BY <1>1, <1>2, <1>4, <1>6, <2>1, <2>2, UntouchedAppend
<1> QED
  BY <1>12, <1>13, <1>14, <1>15 DEF Inv

\* A statement is through.
LEMMA ReturnStep ==
  ASSUME Inv, Return
  PROVE  Inv'
<1>1. /\ stack # <<>> /\ stack' = Front(stack)
      /\ UNCHANGED <<schema, tableVars, nextRowid, undoing, overwritten, statements>>
  BY DEF Return
<1>2. stack \in Seq(Frame) /\ tx # "none" /\ ~undoing /\ Restores(journal, store, base)
  BY <1>1, TopFacts
<1>3. /\ stack' \in Seq(Frame) /\ Len(stack) \in Nat \ {0} /\ Len(stack') = Len(stack) - 1
      /\ \A i \in 1 .. Len(stack) - 1 : stack'[i] = stack[i]
  BY <1>1, <1>2, LastFront
<1>4. CASE Len(stack) = 1 /\ tx = "shadow"
  <2>1. EndTransaction("kept")
    BY <1>4 DEF Return
  <2>2. stack' = <<>>
    BY <1>3, <1>4, EmptySeq
  <2>3. TypeOK'
    BY <1>1, <1>3, <2>1, EmptySeq
    DEF Inv, TypeOK, tableVars, EndTransaction, Tables, NoRows, Row, Outcome
  <2>4. TxOK'
    BY <1>1, <1>2, <2>1, <2>2 DEF TxOK, EndTransaction
  <2>5. StackOK'
    BY <2>2, EmptySeq DEF StackOK
  <2>6. FreshOK'
    BY <1>1, <2>1, EmptySeq DEF Inv, FreshOK, Untouched, tableVars, EndTransaction
  <2> QED
    BY <2>3, <2>4, <2>5, <2>6 DEF Inv
<1>5. CASE ~(Len(stack) = 1 /\ tx = "shadow")
  <2>1. UNCHANGED <<tx, journal, base, failed>>
    BY <1>5 DEF Return
  <2>2. TypeOK' /\ FreshOK'
    BY <1>1, <1>3, <2>1 DEF Inv, TypeOK, FreshOK, tableVars
  <2>3. TxOK'
    BY <1>1, <1>2, <2>1 DEF TxOK, tableVars
  <2>4. StackOK'
    BY <1>1, <1>3, <2>1 DEF Inv, StackOK
  <2> QED
    BY <2>2, <2>3, <2>4 DEF Inv
<1> QED
  BY <1>4, <1>5

\* A client's statement is a statement.
LEMMA ClientStmt ==
  ASSUME NEW s \in Inserts \union Updates \union Deletes
  PROVE  s \in Stmt
<1>1. Keep \in [Val -> Val] /\ Sets \subseteq [Val -> Val]
  BY StatementsAssumption DEF Keep
<1>2. \A v \in Val : {v} \in SUBSET Val
  OBVIOUS
<1>3. <<>> \in Seq(Val)
  BY EmptySeq
<1>4. \A n \in 1 .. 2 : \A f \in [1 .. n -> Val] : f \in Seq(Val)
  BY SeqDef
<1>5. CASE s \in Inserts
  BY <1>1, <1>4, <1>5 DEF Inserts, Stmt, Ops
<1>6. CASE s \in Updates
  BY <1>1, <1>2, <1>3, <1>6 DEF Updates, Stmt, Ops
<1>7. CASE s \in Deletes
  <2>1. s.set \in [Val -> Val] /\ s.rows \in Seq(Val) /\ s.where \in SUBSET Val
    BY <1>1, <1>2, <1>3, <1>7 DEF Deletes
  <2>2. s \in [op : {"Delete"}, table : Table, where : SUBSET Val, set : [Val -> Val],
               rows : Seq(Val)]
    BY <1>7, <2>1 DEF Deletes
  <2> QED
    BY <2>2 DEF Stmt, Ops
<1> QED
  BY <1>5, <1>6, <1>7

\* The types of what is empty.
LEMMA EmptyTypes ==
  /\ <<>> \in Seq(Frame) /\ <<>> \in Seq(Entry) /\ Len(<<>>) = 0
  /\ [t \in Table |-> NoRows] \in Tables
  /\ \A t, r : Untouched(<<>>, t, r)
<1>1. <<>> \in Seq(Frame) /\ <<>> \in Seq(Entry) /\ Len(<<>>) = 0
  BY EmptySeq
<1>2. [t \in Table |-> NoRows] \in Tables
  BY DEF Tables, NoRows, Row
<1>3. \A t, r : Untouched(<<>>, t, r)
  BY <1>1 DEF Untouched
<1> QED
  BY <1>1, <1>2, <1>3

\* With an empty journal the tables are those of the beginning.
LEMMA RestoresEmpty ==
  ASSUME NEW s
  PROVE  Restores(<<>>, s, s)
BY EmptySeq DEF Restores, Untouched

\* A client's statement starts, in a transaction of its own if there is none.
LEMMA ExecuteStep ==
  ASSUME Inv, NEW s \in Inserts \union Updates \union Deletes, Execute(s)
  PROVE  Inv'
<1> DEFINE h == NewFrame(s)
<1>1. /\ stack = <<>> /\ ~undoing /\ stack' = <<h>> /\ undoing' = undoing
      /\ statements' = statements + 1
      /\ UNCHANGED <<schema, tableVars, nextRowid, overwritten>>
  BY DEF Execute, Call, Idle
<1>2. s \in Stmt
  BY ClientStmt
<1>3. /\ tx' \in {"shadow", "explicit"} /\ Restores(journal', store, base')
      /\ journal' \in Seq(Entry) /\ base' \in Tables /\ failed' \in Outcome
      /\ \A t \in Table, r \in RowId : Untouched(journal, t, r) => Untouched(journal', t, r)
  <2>1. CASE tx = "none"
    <3>1. tx' = "shadow" /\ journal' = <<>> /\ base' = store /\ failed' = failed
      BY <2>1 DEF Execute, StartTransaction
    <3> QED
      <4>1. Restores(journal', store, base') /\ journal' \in Seq(Entry)
        BY <3>1, RestoresEmpty, EmptyTypes
      <4>2. base' \in Tables /\ failed' \in Outcome
        BY <3>1 DEF Inv, TypeOK
      <4>3. \A t \in Table, r \in RowId : Untouched(journal', t, r)
        BY <3>1, EmptyTypes
      <4> QED
        BY <3>1, <4>1, <4>2, <4>3
  <2>2. CASE tx # "none"
    <3>1. UNCHANGED <<tx, journal, base, failed>>
      BY <2>2 DEF Execute
    <3> QED
      BY <2>2, <3>1 DEF Inv, TypeOK, TxOK
  <2> QED
    BY <2>1, <2>2
<1>4. h \in Frame /\ FrameOK(h, journal', base', nextRowid)
  BY <1>2, <1>3, NewFrameOK
<1> HIDE DEF h
<1>5. stack' \in Seq(Frame) /\ Len(stack') = 1 /\ stack'[1] = h
  BY <1>1, <1>4
<1>6. TypeOK'
  BY <1>1, <1>3, <1>5 DEF Inv, TypeOK, tableVars
<1>7. TxOK'
  BY <1>1, <1>3 DEF TxOK, tableVars
<1>8. StackOK'
  BY <1>1, <1>4, <1>5 DEF StackOK
<1>9. FreshOK'
  BY <1>1, <1>3 DEF Inv, FreshOK, tableVars
<1> QED
  BY <1>6, <1>7, <1>8, <1>9 DEF Inv

\* BEGIN, COMMIT and ROLLBACK.
LEMMA ClientStep ==
  ASSUME Inv, Begin \/ Commit \/ Rollback
  PROVE  Inv'
<1>1. /\ stack = <<>> /\ ~undoing /\ stack' = <<>> /\ statements' = statements + 1
      /\ UNCHANGED <<schema, tableVars, nextRowid, overwritten>>
  BY DEF Begin, Commit, Rollback, Call, Idle
<1>2. StackOK'
  BY <1>1, EmptySeq DEF StackOK
<1>3. CASE Begin
  <2>1. tx' = "explicit" /\ journal' = <<>> /\ base' = store /\ failed' = failed
        /\ undoing' = undoing
    BY <1>3 DEF Begin, StartTransaction
  <2>2. TypeOK'
    <3>1. stack' \in Seq(Frame) /\ journal' \in Seq(Entry)
      BY <1>1, <2>1, EmptyTypes
    <3>2. base' \in Tables /\ tx' \in {"none", "shadow", "explicit"}
      BY <2>1 DEF Inv, TypeOK
    <3>3. undoing' \in BOOLEAN /\ failed' \in Outcome
      BY <2>1, Zenon DEF Inv, TypeOK
    <3>4. statements' \in Nat
      BY <1>1 DEF Inv, TypeOK
    <3> QED
      BY <1>1, <3>1, <3>2, <3>3, <3>4 DEF Inv, TypeOK, tableVars
  <2>3. TxOK'
    BY <1>1, <2>1, RestoresEmpty DEF TxOK, tableVars
  <2>4. FreshOK'
    BY <1>1, <2>1, EmptySeq DEF Inv, FreshOK, Untouched, tableVars
  <2> QED
    BY <1>2, <2>2, <2>3, <2>4 DEF Inv
<1>4. CASE Commit
  <2>1. EndTransaction("kept") /\ undoing' = undoing
    BY <1>4 DEF Commit
  <2>2. TypeOK'
    <3>1. stack' \in Seq(Frame) /\ journal' \in Seq(Entry) /\ base' \in Tables
      BY <1>1, <2>1, EmptyTypes DEF EndTransaction
    <3>2. tx' \in {"none", "shadow", "explicit"} /\ failed' \in Outcome
      BY <2>1 DEF EndTransaction, Inv, TypeOK, Outcome
    <3> QED
      BY <1>1, <2>1, <3>1, <3>2 DEF Inv, TypeOK, tableVars
  <2>3. TxOK'
    BY <1>1, <2>1 DEF TxOK, EndTransaction
  <2>4. FreshOK'
    BY <1>1, <2>1, EmptySeq DEF Inv, FreshOK, Untouched, tableVars, EndTransaction
  <2> QED
    BY <1>2, <2>2, <2>3, <2>4 DEF Inv
<1>5. CASE Rollback
  <2>1. /\ tx = "explicit" /\ undoing' = TRUE /\ UNCHANGED <<tx, journal, base, failed>>
    BY <1>5 DEF Rollback
  <2>2. TypeOK' /\ FreshOK'
    BY <1>1, <2>1, EmptySeq DEF Inv, TypeOK, FreshOK, tableVars
  <2>3. TxOK'
    BY <1>1, <2>1 DEF Inv, TxOK, tableVars
  <2> QED
    BY <1>2, <2>2, <2>3 DEF Inv
<1> QED
  BY <1>3, <1>4, <1>5

\* What a step of a rollback writes.
LEMMA UndoWrites ==
  ASSUME Inv, UndoStep
  PROVE  LET e == Last(journal)
             now == IF e.op = "Delete" THEN NoRow ELSE store[e.table][e.rowid]
         IN  /\ e \in Entry /\ e.table \in Table /\ e.rowid \in RowId /\ e.old \in Row
             /\ now \in Row /\ Write(e.table, e.rowid, now, e.old)
<1>1. journal # <<>> /\ journal \in Seq(Entry)
  BY DEF UndoStep, Inv, TypeOK
<1> DEFINE e == Last(journal)
<1>2. e \in Entry /\ e.table \in Table /\ e.rowid \in RowId /\ e.old \in Row
  <2>1. e \in Entry
    BY <1>1, LastFront
  <2> QED
    BY <2>1 DEF Entry
<1>3. store[e.table][e.rowid] \in Row /\ NoRow \in Row
  BY <1>2 DEF Inv, TypeOK, Tables, Row
<1> QED
  BY <1>2, <1>3 DEF UndoStep

\* One entry of the journal is undone.
LEMMA UndoStepStep ==
  ASSUME Inv, UndoStep
  PROVE  Inv'
<1> DEFINE e == Last(journal)
           now == IF e.op = "Delete" THEN NoRow ELSE store[e.table][e.rowid]
           n == Len(journal) - 1
<1>1. /\ undoing /\ journal # <<>> /\ journal' = Front(journal)
      /\ UNCHANGED <<schema, nextRowid, stack, tx, undoing, base, failed,
                     overwritten, statements>>
  BY DEF UndoStep
<1>2. /\ e \in Entry /\ e.table \in Table /\ e.rowid \in RowId /\ e.old \in Row
      /\ now \in Row /\ Write(e.table, e.rowid, now, e.old)
  BY UndoWrites
<1>3. journal \in Seq(Entry) /\ stack = <<>> /\ tx # "none" /\ Restores(journal, store, base)
  BY <1>1 DEF Inv, TypeOK, TxOK
<1>4. /\ journal' \in Seq(Entry) /\ Len(journal') = n /\ Len(journal) \in Nat \ {0}
      /\ \A i \in 1 .. n : journal'[i] = journal[i]
      /\ e = journal[n + 1]
  BY <1>1, <1>3, LastFront
<1> HIDE DEF now
<1>5. /\ store' \in Tables /\ store'[e.table][e.rowid] = e.old
      /\ \A u \in Table, q \in RowId :
             <<u, q>> # <<e.table, e.rowid>> => store'[u][q] = store[u][q]
  BY <1>2, WriteStore DEF Inv
<1>6. Restores(journal', store', base)
  BY <1>1, <1>3, <1>5, RestoresFront
<1> HIDE DEF e, n
<1>7. TypeOK'
  <2>1. index' \in [Table -> [Val -> SUBSET RowId]] /\ fts' \in [Table -> Documents]
    BY <1>2, WriteIndexes DEF Inv
  <2> QED
    BY <1>1, <1>4, <1>5, <2>1 DEF Inv, TypeOK
<1>8. TxOK'
  BY <1>1, <1>3, <1>6 DEF TxOK
<1>9. StackOK'
  BY <1>1, <1>3, EmptySeq DEF StackOK
<1>10. FreshOK'
  <2> SUFFICES ASSUME NEW t \in Table, NEW r \in RowId, r >= nextRowid[t]
               PROVE  store'[t][r] = NoRow /\ Untouched(journal', t, r)
    BY <1>1 DEF FreshOK
  <2>1. store[t][r] = NoRow /\ Untouched(journal, t, r)
    BY DEF Inv, FreshOK
  <2>2. n + 1 = Len(journal) /\ n \in Nat
    BY <1>4 DEF n
  <2>3. ~(e.table = t /\ e.rowid = r)
    BY <1>4, <2>1, <2>2 DEF Untouched
  <2>4. store'[t][r] = NoRow
    BY <1>2, <1>5, <2>1, <2>3
  <2>5. Untouched(journal', t, r)
    BY <1>4, <2>1, <2>2 DEF Untouched
  <2> QED
    BY <2>4, <2>5
<1> QED
  BY <1>7, <1>8, <1>9, <1>10 DEF Inv

\* The rollback is through.
LEMMA UndoDoneStep ==
  ASSUME Inv, UndoDone
  PROVE  Inv'
<1>1. /\ undoing /\ ~undoing' /\ EndTransaction("none")
      /\ UNCHANGED <<schema, tableVars, nextRowid, stack, overwritten, statements>>
  BY DEF UndoDone
<1>2. stack = <<>>
  BY <1>1 DEF Inv, TxOK
<1>3. TypeOK'
  <2>1. undoing' \in BOOLEAN
    BY DEF UndoDone
  <2> QED
    BY <1>1, <1>2, <2>1, EmptySeq
    DEF Inv, TypeOK, tableVars, EndTransaction, Tables, NoRows, Row, Outcome
<1>4. TxOK'
  BY <1>1, <1>2 DEF TxOK, EndTransaction
<1>5. StackOK'
  BY <1>1, <1>2, EmptySeq DEF StackOK
<1>6. FreshOK'
  BY <1>1, EmptySeq DEF Inv, FreshOK, Untouched, tableVars, EndTransaction
<1> QED
  BY <1>3, <1>4, <1>5, <1>6 DEF Inv

\* The program starts in the invariant.
LEMMA InvInit == Init => Inv
<1> SUFFICES ASSUME Init  PROVE Inv
  OBVIOUS
<1>1. /\ schema \in Schema /\ stack = <<>> /\ journal = <<>> /\ tx = "none" /\ ~undoing
      /\ store = [t \in Table |-> NoRows] /\ base = [t \in Table |-> NoRows]
  BY StatementsAssumption DEF Init
<1>2. TypeOK
  <2>1. index \in [Table -> [Val -> SUBSET RowId]] /\ fts \in [Table -> Documents]
    BY DEF Init, Documents
  <2>2. nextRowid \in [Table -> Nat \ {0}] /\ undoing \in BOOLEAN /\ failed \in Outcome
    <3>1. nextRowid \in [Table -> Nat \ {0}]
      BY DEF Init
    <3>2. undoing \in BOOLEAN /\ failed \in Outcome
      BY Zenon DEF Init, Outcome
    <3> QED
      BY <3>1, <3>2
  <2>3. overwritten \in SUBSET (Table \X RowId) /\ statements \in Nat
    BY DEF Init
  <2> QED
    BY <1>1, <2>1, <2>2, <2>3, EmptyTypes DEF TypeOK
<1>3. TxOK
  BY <1>1 DEF TxOK
<1>4. StackOK
  BY <1>1, EmptyTypes DEF StackOK
<1>5. FreshOK
  BY <1>1, EmptyTypes DEF FreshOK, NoRows
<1> QED
  BY <1>2, <1>3, <1>4, <1>5 DEF Inv

\* Nothing changes in a stuttering step.
LEMMA InvStutter ==
  ASSUME Inv, UNCHANGED vars
  PROVE  Inv'
BY DEF vars, tableVars, txnVars, Inv, TypeOK, TxOK, StackOK, FreshOK

\* Every step, action by action.
LEMMA InvNext == Inv /\ [Next]_vars => Inv'
<1> SUFFICES ASSUME Inv, [Next]_vars  PROVE Inv'
  OBVIOUS
<1>1. ASSUME NEW s \in Inserts \union Updates \union Deletes, Execute(s)  PROVE Inv'
  BY <1>1, ExecuteStep
<1>2. CASE Begin \/ Commit \/ Rollback
  BY <1>2, ClientStep
<1>3. CASE InsertRow
  BY <1>3, InsertRowStep
<1>4. ASSUME NEW r \in RowId, ChangeRow(r)  PROVE Inv'
  BY <1>4, ChangeRowStep
<1>5. CASE FireTrigger
  BY <1>5, FireTriggerStep
<1>6. CASE RunBody
  BY <1>6, RunBodyStep
<1>7. CASE WriteRow
  BY <1>7, WriteRowStep
<1>8. CASE RowDone
  BY <1>8, RowDoneStep
<1>9. CASE Return
  BY <1>9, ReturnStep
<1>10. CASE UndoStep
  BY <1>10, UndoStepStep
<1>11. CASE UndoDone
  BY <1>11, UndoDoneStep
<1>12. CASE UNCHANGED vars
  BY <1>12, InvStutter
<1> QED
  BY <1>1, <1>2, <1>3, <1>4, <1>5, <1>6, <1>7, <1>8, <1>9, <1>10, <1>11, <1>12 DEF Next

-----------------------------------------------------------------------------
(* The theorems about the stack and the journal *)

\* The invariant holds whatever the triggers of the catalog are and however deep
\* they cascade.
THEOREM Invariance == Spec => []Inv
BY InvInit, InvNext, PTL DEF Spec

\* Every variable keeps its type.
THEOREM TypeCorrect == Spec => []TypeOK
<1>1. Inv => TypeOK
  BY DEF Inv
<1> QED
  BY <1>1, Invariance, PTL

\* transaction.rs rollback_internal undoes everything, what triggers cascaded
\* into included: the first entry that names a row holds what the row was when
\* the transaction began, whatever copies the later ones hold.
THEOREM CascadesAreUndone == Spec => []CascadeUndone
<1>1. Inv => CascadeUndone
  <2> SUFFICES ASSUME Inv, undoing, journal = <<>>  PROVE store = base
    BY DEF CascadeUndone
  <2>1. Restores(journal, store, base)
    BY DEF Inv, TxOK
  <2>2. \A t \in Table, r \in RowId : store[t][r] = base[t][r]
    BY <2>1, EmptyTypes DEF Restores
  <2>3. store \in [Table -> [RowId -> Row]] /\ base \in [Table -> [RowId -> Row]]
    BY DEF Inv, TypeOK, Tables
  <2>4. \A t \in Table : store[t] = base[t]
    <3> SUFFICES ASSUME NEW t \in Table  PROVE store[t] = base[t]
      OBVIOUS
    <3>1. store[t] \in [RowId -> Row] /\ base[t] \in [RowId -> Row]
      BY <2>3
    <3> QED
      BY <2>2, <3>1
  <2> QED
    BY <2>3, <2>4
<1> QED
  BY <1>1, Invariance, PTL

\* index.rs and fts.rs: an index is told of every write, by a statement, by a
\* trigger or by a rollback, and even when it is told the wrong old row it finds
\* the row by what it becomes.
THEOREM LookupsFind == Spec => []LookupsFindEveryRow
<1>1. Init => LookupsFindEveryRow
  BY DEF Init, LookupsFindEveryRow, NoRows
<1>2. Inv /\ LookupsFindEveryRow /\ [Next]_vars => LookupsFindEveryRow'
  <2> SUFFICES ASSUME Inv, LookupsFindEveryRow, [Next]_vars  PROVE LookupsFindEveryRow'
    OBVIOUS
  <2>1. CASE UNCHANGED <<schema, tableVars>>
    BY <2>1 DEF LookupsFindEveryRow, tableVars
  <2>2. CASE WriteRow
    <3>1. /\ stack # <<>> /\ Top.phase = "Before" /\ schema' = schema
          /\ Write(Top.table, Top.rowid, Top.old, Top.new)
      BY <2>2 DEF WriteRow
    <3>2. /\ Top.table \in Table /\ Top.old \in Row /\ Top.new \in Row
          /\ Top.rowid \in RowId
      BY <3>1, TopFacts, FrameFields DEF FrameOK
    <3> QED
      BY <3>1, <3>2, WriteFinds DEF Inv
  <2>3. CASE UndoStep
    <3> DEFINE e == Last(journal)
               now == IF e.op = "Delete" THEN NoRow ELSE store[e.table][e.rowid]
    <3>1. /\ e.table \in Table /\ e.rowid \in RowId /\ e.old \in Row /\ now \in Row
          /\ Write(e.table, e.rowid, now, e.old)
      BY <2>3, UndoWrites
    <3>2. schema' = schema
      BY <2>3 DEF UndoStep
    <3> HIDE DEF e, now
    <3> QED
      BY <3>1, <3>2, WriteFinds DEF Inv
  <2>4. [Next]_vars => WriteRow \/ UndoStep \/ UNCHANGED <<schema, tableVars>>
    <3>1. \A f : TakeRow(f) => UNCHANGED tableVars
      BY DEF TakeRow, Fail
    <3>2. InsertRow => UNCHANGED <<schema, tableVars>>
      BY <3>1 DEF InsertRow
    <3>3. \A r \in RowId : ChangeRow(r) => UNCHANGED <<schema, tableVars>>
      BY <3>1 DEF ChangeRow
    <3>4. Call => UNCHANGED <<schema, tableVars>>
      BY DEF Call
    <3> QED
      BY <3>2, <3>3, <3>4 DEF Next, vars, Execute, Begin, Commit, Rollback, FireTrigger,
                              RunBody, RowDone, Return, UndoDone
  <2> QED
    BY <2>1, <2>2, <2>3, <2>4
<1> QED
  BY <1>1, <1>2, Invariance, PTL DEF Spec

-----------------------------------------------------------------------------
(* How the stack changes *)

\* The running statement goes on as frame g, those below wait.
LEMMA Replaced ==
  ASSUME stack \in Seq(Frame), stack # <<>>, NEW g \in Frame, Continue(g)
  PROVE  /\ Len(stack) \in Nat \ {0} /\ Len(stack') = Len(stack) /\ stack' \in Seq(Frame)
         /\ stack'[Len(stack)] = g
         /\ \A i \in 1 .. Len(stack) - 1 : stack'[i] = stack[i]
<1> DEFINE p == Front(stack)
<1>1. /\ p \in Seq(Frame) /\ Len(p) \in Nat /\ Len(stack) = Len(p) + 1
      /\ \A i \in 1 .. Len(p) : p[i] = stack[i]
  BY LastFront
<1>2. stack' = Append(p, g)
  BY DEF Continue
<1> HIDE DEF p
<1>3. /\ stack' \in Seq(Frame) /\ Len(stack') = Len(p) + 1 /\ stack'[Len(p) + 1] = g
      /\ \A i \in 1 .. Len(p) : stack'[i] = p[i]
  BY <1>1, <1>2, AppendFacts
<1> QED
  BY <1>1, <1>3

\* The running statement goes on as g, and h runs on top of it.
LEMMA Pushed ==
  ASSUME stack \in Seq(Frame), stack # <<>>, NEW g \in Frame, NEW h \in Frame,
         stack' = Append(Append(Front(stack), g), h)
  PROVE  /\ Len(stack) \in Nat \ {0} /\ Len(stack') = Len(stack) + 1
         /\ stack' \in Seq(Frame)
         /\ stack'[Len(stack)] = g /\ stack'[Len(stack) + 1] = h
         /\ \A i \in 1 .. Len(stack) - 1 : stack'[i] = stack[i]
<1> DEFINE p == Front(stack)
<1>0. /\ p \in Seq(Frame) /\ Len(p) = Len(stack) - 1 /\ Len(stack) \in Nat \ {0}
      /\ \A i \in 1 .. Len(stack) - 1 : p[i] = stack[i]
  BY LastFront
<1>1. /\ p \in Seq(Frame) /\ Len(p) \in Nat /\ Len(stack) = Len(p) + 1
      /\ \A i \in 1 .. Len(p) : p[i] = stack[i]
  BY <1>0
<1> HIDE DEF p
<1> DEFINE q == Append(p, g)
<1>2. /\ q \in Seq(Frame) /\ Len(q) = Len(p) + 1 /\ q[Len(p) + 1] = g
      /\ \A i \in 1 .. Len(p) : q[i] = p[i]
  BY <1>1, AppendFacts
<1>3. stack' = Append(q, h)
  BY DEF p
<1> HIDE DEF q
<1>4. /\ stack' \in Seq(Frame) /\ Len(stack') = Len(q) + 1 /\ stack'[Len(q) + 1] = h
      /\ \A i \in 1 .. Len(q) : stack'[i] = q[i]
  BY <1>2, <1>3, AppendFacts
<1> QED
  BY <1>1, <1>2, <1>4

\* The running statement is through.
LEMMA Popped ==
  ASSUME stack \in Seq(Frame), stack # <<>>, stack' = Front(stack)
  PROVE  /\ Len(stack) \in Nat \ {0} /\ Len(stack') = Len(stack) - 1
         /\ stack' \in Seq(Frame)
         /\ \A i \in 1 .. Len(stack) - 1 : stack'[i] = stack[i]
BY LastFront

-----------------------------------------------------------------------------
(* What a frame holds *)

\* The triggers f goes through in the catalog c: those of its event and timing.
FiringTriggers(c, f) ==
    {g \in {c.triggers[f.table][i] : i \in DOMAIN c.triggers[f.table]} :
        g.timing = f.phase /\ g.event = f.op}

\* An INSERT holds no copies and the others no rows to come; the old row of an
\* UPDATE or a DELETE is a row, and only a DELETE has no new one; triggers are gone
\* through between taking a row up and being done with it.
HeldOK(f) ==
    /\ f.op = "Insert" => \A r \in RowId : f.todo[r] = NoRow
    /\ f.op # "Insert" => f.rows = <<>>
    /\ f.phase = "Before" /\ f.op = "Insert" => f.old = NoRow
    /\ f.phase = "Before" /\ f.op # "Insert" => f.old # NoRow
    /\ f.phase = "Before" => (f.op = "Delete" <=> f.new = NoRow)
    /\ f.phase = "next" => f.triggers = <<>> /\ f.body = <<>>

\* The triggers to come are the table's, the statements to come of one that fires.
CallsOK(c, f) ==
    /\ \A k \in 1 .. Len(f.triggers) : \E i \in DOMAIN c.triggers[f.table] :
           f.triggers[k] = c.triggers[f.table][i]
    /\ \A k \in 1 .. Len(f.body) : f.body[k].table \in Writes(FiringTriggers(c, f))

HeldInv == \A i \in 1 .. Len(stack) : HeldOK(stack[i]) /\ CallsOK(schema, stack[i])

\* The running statement.
LEMMA TopHeld ==
  ASSUME Inv, HeldInv, stack # <<>>
  PROVE  HeldOK(Top) /\ CallsOK(schema, Top)
<1>1. Top = stack[Len(stack)] /\ Len(stack) \in Nat \ {0}
  BY LastFront DEF Inv, TypeOK, Top
<1> QED
  BY <1>1 DEF HeldInv

\* A step that replaces the running frame.
LEMMA HeldContinue ==
  ASSUME Inv, HeldInv, stack # <<>>, NEW g \in Frame, Continue(g), HeldOK(g), CallsOK(schema, g),
         schema' = schema
  PROVE  HeldInv'
<1>1. /\ Len(stack) \in Nat \ {0} /\ Len(stack') = Len(stack)
      /\ stack'[Len(stack)] = g
      /\ \A i \in 1 .. Len(stack) - 1 : stack'[i] = stack[i]
  BY Replaced DEF Inv, TypeOK
<1> SUFFICES ASSUME NEW i \in 1 .. Len(stack)
             PROVE  HeldOK(stack'[i]) /\ CallsOK(schema, stack'[i])
  BY <1>1 DEF HeldInv
<1>2. CASE i = Len(stack)
  BY <1>1, <1>2
<1>3. CASE i \in 1 .. Len(stack) - 1
  BY <1>1, <1>3 DEF HeldInv
<1> QED
  BY <1>1, <1>2, <1>3

\* A new statement has not taken up a row.
LEMMA HeldNew ==
  ASSUME NEW s \in Stmt
  PROVE  HeldOK(NewFrame(s)) /\ CallsOK(schema, NewFrame(s))
<1> DEFINE td == IF s.op = "Insert" THEN NoRows
                 ELSE [r \in RowId |-> IF store[s.table][r] \in s.where
                                       THEN store[s.table][r] ELSE NoRow]
           rs == IF s.op = "Insert" THEN s.rows ELSE <<>>
           g == NewFrame(s)
<1>1. s.op = "Insert" => \A r \in RowId : td[r] = NoRow
  BY DEF NoRows
<1>2. s.op # "Insert" => rs = <<>>
  OBVIOUS
<1> HIDE DEF td, rs
<1>3. g = [op |-> s.op, table |-> s.table, set |-> s.set, rows |-> rs,
           todo |-> td, phase |-> "next", rowid |-> 0, old |-> NoRow,
           new |-> NoRow, triggers |-> <<>>, body |-> <<>>]
  BY DEF NewFrame, td, rs
<1>4. /\ g.op = s.op /\ g.todo = td /\ g.rows = rs /\ g.phase = "next"
      /\ g.triggers = <<>> /\ g.body = <<>>
  BY <1>3
<1> HIDE DEF g
<1>5. HeldOK(g)
  BY <1>1, <1>2, <1>4 DEF HeldOK
<1>6. CallsOK(schema, g)
  BY <1>4, EmptySeq DEF CallsOK
<1> QED
  BY <1>5, <1>6 DEF g

\* An INSERT takes up a row.
LEMMA HeldInsert ==
  ASSUME Inv, HeldInv, InsertRow
  PROVE  HeldInv'
<1> DEFINE n == nextRowid[Top.table]
           g == [Top EXCEPT !.rows = Tail(@), !.rowid = n, !.new = Head(Top.rows)]
           h == Enter(g, "Before")
<1>1. /\ stack # <<>> /\ Top.phase = "next" /\ Top.rows # <<>>
      /\ TakeRow(g) /\ schema' = schema
  BY DEF InsertRow
<1>2. /\ Top \in Frame /\ HeldOK(Top) /\ CallsOK(schema, Top)
      /\ FrameOK(Top, journal, base, nextRowid) /\ schema \in Schema
  BY <1>1, TopFacts, TopHeld
<1>3. n \in Nat
  BY <1>2, FrameFields DEF Inv, TypeOK
<1>4. /\ g \in Frame
      /\ g.op = Top.op /\ g.table = Top.table /\ g.todo = Top.todo /\ g.old = Top.old
      /\ g.phase = Top.phase /\ g.rowid = n /\ g.new \in Val
  BY <1>1, <1>2, <1>3, TakeInsert
<1>5. g.body = Top.body
  BY <1>2 DEF Frame
<1> HIDE DEF g, n
<1>6. /\ h \in Frame /\ h.op = g.op /\ h.table = g.table /\ h.todo = g.todo
      /\ h.old = g.old /\ h.new = g.new /\ h.phase = "Before"
  BY <1>2, <1>4, EnterFrame
<1>7. h.triggers = schema.triggers[g.table] /\ h.body = g.body
  BY <1>4 DEF Enter, Frame
<1> HIDE DEF h
<1>8. HeldOK(h)
  <2>1. Top.op = "Insert" /\ Top.old = NoRow
    BY <1>1, <1>2 DEF HeldOK, FrameOK
  <2> QED
    BY <1>2, <1>4, <1>6, <2>1, StatementsAssumption DEF HeldOK
<1>9. CallsOK(schema, h)
  <2>1. schema.triggers[g.table] \in Seq(Trigger)
    BY <1>2, <1>4, FrameFields DEF Schema
  <2>2. DOMAIN h.triggers = 1 .. Len(h.triggers)
    BY <1>7, <2>1, LenProperties
  <2>3. h.body = <<>>
    BY <1>1, <1>2, <1>5, <1>7 DEF HeldOK
  <2> QED
    BY <1>6, <1>7, <2>2, <2>3, EmptySeq DEF CallsOK
<1>10. CASE stack' = <<>>
  BY <1>10, EmptySeq DEF HeldInv
<1>11. CASE Continue(h)
  BY <1>1, <1>6, <1>8, <1>9, <1>11, HeldContinue
<1> QED
  BY <1>1, <1>10, <1>11 DEF TakeRow, Fail, h

\* An UPDATE or a DELETE takes up a row it has copied.
LEMMA HeldChange ==
  ASSUME Inv, HeldInv, NEW r \in RowId, ChangeRow(r)
  PROVE  HeldInv'
<1> DEFINE v == IF Top.op = "Delete" THEN NoRow ELSE Top.set[Top.todo[r]]
           g == [Top EXCEPT !.todo[r] = NoRow, !.rowid = r, !.old = Top.todo[r], !.new = v]
           h == Enter(g, "Before")
<1>1. /\ stack # <<>> /\ Top.phase = "next" /\ Top.todo[r] # NoRow
      /\ TakeRow(g) /\ schema' = schema
  BY DEF ChangeRow
<1>2. /\ Top \in Frame /\ HeldOK(Top) /\ CallsOK(schema, Top) /\ schema \in Schema
  BY <1>1, TopFacts, TopHeld
<1>3. v \in Row
  <2>1. Top.todo[r] \in Val
    BY <1>1, <1>2, FrameFields DEF Row
  <2> QED
    BY <1>2, <2>1, FrameFields DEF Row
<1>4. Top.op = "Delete" <=> v = NoRow
  <2>1. Top.todo[r] \in Val
    BY <1>1, <1>2, FrameFields DEF Row
  <2> QED
    BY <1>2, <2>1, FrameFields, StatementsAssumption
<1> HIDE DEF v
<1>5. /\ g \in Frame
      /\ g.op = Top.op /\ g.table = Top.table /\ g.rows = Top.rows
      /\ g.todo = [Top.todo EXCEPT ![r] = NoRow]
      /\ g.old = Top.todo[r] /\ g.new = v /\ g.body = Top.body
  <2> DEFINE f == Top
  <2>1. f \in Frame
    BY <1>2
  <2> HIDE DEF f
  <2>2. LET k == [f EXCEPT !.todo[r] = NoRow, !.rowid = r, !.old = f.todo[r], !.new = v]
        IN  /\ k \in Frame
            /\ k.op = f.op /\ k.table = f.table /\ k.rows = f.rows
            /\ k.todo = [f.todo EXCEPT ![r] = NoRow]
            /\ k.old = f.todo[r] /\ k.new = v /\ k.body = f.body
    <3>1. f.todo[r] \in Row /\ [f.todo EXCEPT ![r] = NoRow] \in [RowId -> Row]
      BY <2>1, FrameFields DEF Row
    <3>2. r \in Nat
      BY DEF RowId
    <3> QED
      BY <1>3, <2>1, <3>1, <3>2 DEF Frame
  <2> QED
    BY <2>2 DEF f
<1> HIDE DEF g
<1>6. /\ h \in Frame /\ h.op = g.op /\ h.table = g.table /\ h.todo = g.todo
      /\ h.old = g.old /\ h.new = g.new /\ h.phase = "Before"
  BY <1>2, <1>5, EnterFrame
<1>7. h.triggers = schema.triggers[g.table] /\ h.body = g.body /\ h.rows = g.rows
  BY <1>5 DEF Enter, Frame
<1> HIDE DEF h
<1>8. HeldOK(h)
  <2>1. Top.op # "Insert" /\ Top.rows = <<>>
    BY <1>1, <1>2 DEF HeldOK
  <2> QED
    BY <1>1, <1>4, <1>5, <1>6, <1>7, <2>1 DEF HeldOK
<1>9. CallsOK(schema, h)
  <2>1. schema.triggers[g.table] \in Seq(Trigger)
    BY <1>2, <1>5, FrameFields DEF Schema
  <2>2. DOMAIN h.triggers = 1 .. Len(h.triggers)
    BY <1>7, <2>1, LenProperties
  <2>3. h.body = <<>>
    BY <1>1, <1>2, <1>5, <1>7 DEF HeldOK
  <2> QED
    BY <1>6, <1>7, <2>2, <2>3, EmptySeq DEF CallsOK
<1>10. CASE stack' = <<>>
  BY <1>10, EmptySeq DEF HeldInv
<1>11. CASE Continue(h)
  BY <1>1, <1>6, <1>8, <1>9, <1>11, HeldContinue
<1> QED
  BY <1>1, <1>10, <1>11 DEF TakeRow, Fail, h

\* What is known of a frame's triggers and body depends on few of its fields.
LEMMA FiringSame ==
  ASSUME NEW c, NEW f, NEW g, g.table = f.table, g.phase = f.phase, g.op = f.op
  PROVE  FiringTriggers(c, g) = FiringTriggers(c, f)
BY DEF FiringTriggers

\* The rest of a sequence is part of it.
LEMMA TailFacts ==
  ASSUME NEW S, NEW q \in Seq(S), q # <<>>
  PROVE  /\ Len(q) \in Nat \ {0} /\ Head(q) = q[1] /\ Len(Tail(q)) = Len(q) - 1
         /\ \A k \in 1 .. Len(Tail(q)) : Tail(q)[k] = q[k + 1]
BY HeadTailProperties, EmptySeq, LenProperties

\* A trigger fires, or is passed over.
LEMMA HeldFire ==
  ASSUME Inv, HeldInv, FireTrigger
  PROVE  HeldInv'
<1> DEFINE t == Head(Top.triggers)
           ts == Tail(Top.triggers)
           b == [i \in DOMAIN t.body |-> Instantiate(t.body[i], Top.old, Top.new)]
           ss == IF Fires(t, Top) THEN b ELSE <<>>
           g == [Top EXCEPT !.triggers = ts, !.body = ss]
<1>1. /\ stack # <<>> /\ Top.triggers # <<>> /\ Continue(g) /\ schema' = schema
  BY DEF FireTrigger
<1>2. /\ Top \in Frame /\ HeldOK(Top) /\ CallsOK(schema, Top) /\ schema \in Schema
  BY <1>1, TopFacts, TopHeld
<1>3. t \in Trigger /\ ts \in Seq(Trigger) /\ Top.old \in Row /\ Top.new \in Row
      /\ Top.triggers \in Seq(Trigger)
  BY <1>1, <1>2, FrameFields, HeadTail
<1>4. t.body \in Seq(Body) /\ DOMAIN t.body = 1 .. Len(t.body) /\ Len(t.body) \in Nat
  BY <1>3, LenProperties DEF Trigger
<1>5. /\ b \in Seq(Stmt) /\ Len(b) = Len(t.body)
      /\ \A i \in 1 .. Len(t.body) : b[i].table = t.body[i].table
  <2>1. \A i \in 1 .. Len(t.body) : t.body[i] \in Body
    BY <1>4, ElementOfSeq
  <2>2. \A i \in 1 .. Len(t.body) : Instantiate(t.body[i], Top.old, Top.new) \in Stmt
    BY <1>3, <2>1, InstantiateType
  <2>3. \A i \in 1 .. Len(t.body) :
            Instantiate(t.body[i], Top.old, Top.new).table = t.body[i].table
    BY DEF Instantiate
  <2> DEFINE n == Len(t.body)
             e(i) == Instantiate(t.body[i], Top.old, Top.new)
  <2>4. /\ b = [i \in 1 .. n |-> e(i)] /\ n \in Nat /\ \A i \in 1 .. n : e(i) \in Stmt
        /\ \A i \in 1 .. n : e(i).table = t.body[i].table
    BY <1>4, <2>2, <2>3
  <2> HIDE DEF n, e, b
  <2>5. [i \in 1 .. n |-> e(i)] \in Seq(Stmt)
    BY <2>4, IsASeq
  <2>6. b \in Seq(Stmt) /\ DOMAIN b = 1 .. n /\ \A i \in 1 .. n : b[i] = e(i)
    BY <2>4, <2>5
  <2>7. Len(b) \in Nat /\ DOMAIN b = 1 .. Len(b)
    BY <2>6, LenProperties
  <2>8. Len(b) = n
    BY <2>4, <2>6, <2>7
  <2> QED
    BY <2>4, <2>6, <2>8 DEF n
<1>6. ss \in Seq(Stmt)
  <2> HIDE DEF b, t
  <2> QED
    BY <1>5, EmptySeq
<1>7. \E k \in DOMAIN schema.triggers[Top.table] : t = schema.triggers[Top.table][k]
  <2>1. t = Top.triggers[1] /\ 1 \in 1 .. Len(Top.triggers)
    BY <1>1, <1>3, TailFacts
  <2> QED
    BY <1>2, <2>1 DEF CallsOK
<1>8. \A k \in 1 .. Len(ss) : ss[k].table \in Writes(FiringTriggers(schema, Top))
  <2>1. CASE Fires(t, Top)
    <3>1. t \in FiringTriggers(schema, Top)
      BY <1>7, <2>1 DEF Fires, FiringTriggers
    <3>2. \A i \in 1 .. Len(t.body) : t.body[i].table \in Writes(FiringTriggers(schema, Top))
      BY <1>4, <3>1 DEF Writes
    <3>3. ss = b
      BY <2>1
    <3> HIDE DEF b, t, ss
    <3> QED
      BY <1>5, <3>2, <3>3
  <2>2. CASE ~Fires(t, Top)
    <3>1. ss = <<>>
      BY <2>2
    <3> QED
      BY <3>1, EmptySeq
  <2> QED
    BY <2>1, <2>2
<1>9. \A k \in 1 .. Len(ts) : \E i \in DOMAIN schema.triggers[Top.table] :
          ts[k] = schema.triggers[Top.table][i]
  <2>1. /\ Len(Top.triggers) \in Nat /\ Len(ts) = Len(Top.triggers) - 1
        /\ \A k \in 1 .. Len(ts) : ts[k] = Top.triggers[k + 1]
    BY <1>1, <1>3, TailFacts
  <2>2. \A k \in 1 .. Len(ts) : k + 1 \in 1 .. Len(Top.triggers)
    BY <2>1
  <2> QED
    BY <1>2, <2>1, <2>2 DEF CallsOK
<1> HIDE DEF t, ts, b, ss
<1>10. /\ g \in Frame
       /\ g.op = Top.op /\ g.table = Top.table /\ g.todo = Top.todo /\ g.old = Top.old
       /\ g.phase = Top.phase /\ g.rowid = Top.rowid /\ g.new = Top.new
  BY <1>2, <1>3, <1>6, FireFrame
<1>11. g.triggers = ts /\ g.body = ss /\ g.rows = Top.rows
  BY <1>2 DEF Frame
<1> HIDE DEF g
<1>12. HeldOK(g)
  <2>1. Top.phase # "next"
    BY <1>1, <1>2 DEF HeldOK
  <2> QED
    BY <1>2, <1>10, <1>11, <2>1 DEF HeldOK
<1>13. CallsOK(schema, g)
  <2>1. FiringTriggers(schema, g) = FiringTriggers(schema, Top)
    BY <1>10, FiringSame
  <2> QED
    BY <1>8, <1>9, <1>10, <1>11, <2>1 DEF CallsOK
<1> QED
  BY <1>1, <1>10, <1>12, <1>13, HeldContinue

\* A row is written, or done with.
LEMMA HeldWritten ==
  ASSUME Inv, HeldInv, WriteRow \/ RowDone
  PROVE  HeldInv'
<1> DEFINE w == Enter(Top, "After")
           d == [Top EXCEPT !.phase = "next", !.rowid = 0, !.old = NoRow, !.new = NoRow]
<1>1. stack # <<>> /\ Top.body = <<>> /\ Top.triggers = <<>> /\ schema' = schema
  BY DEF WriteRow, RowDone
<1>2. /\ Top \in Frame /\ HeldOK(Top) /\ CallsOK(schema, Top) /\ schema \in Schema
  BY <1>1, TopFacts, TopHeld
<1>3. CASE WriteRow
  <2>1. Continue(w)
    BY <1>3 DEF WriteRow
  <2>2. w \in Frame /\ w.op = Top.op /\ w.table = Top.table /\ w.todo = Top.todo
        /\ w.phase = "After"
    BY <1>2, EnterFrame
  <2>3. w.triggers = schema.triggers[Top.table] /\ w.body = <<>> /\ w.rows = Top.rows
    BY <1>1, <1>2 DEF Enter, Frame
  <2> HIDE DEF w
  <2>4. HeldOK(w)
    BY <1>2, <2>2, <2>3 DEF HeldOK
  <2>5. CallsOK(schema, w)
    <3>1. schema.triggers[Top.table] \in Seq(Trigger)
      BY <1>2, FrameFields DEF Schema
    <3>2. DOMAIN w.triggers = 1 .. Len(w.triggers)
      BY <2>3, <3>1, LenProperties
    <3> QED
      BY <2>2, <2>3, <3>2, EmptySeq DEF CallsOK
  <2> QED
    BY <1>1, <2>1, <2>2, <2>4, <2>5, HeldContinue
<1>4. CASE RowDone
  <2>1. Continue(d)
    BY <1>4 DEF RowDone
  <2>2. /\ d \in Frame /\ d.op = Top.op /\ d.table = Top.table /\ d.todo = Top.todo
        /\ d.phase = "next"
    BY <1>2, DoneFrame
  <2>3. d.triggers = <<>> /\ d.body = <<>> /\ d.rows = Top.rows
    BY <1>1, <1>2 DEF Frame
  <2> HIDE DEF d
  <2>4. HeldOK(d)
    BY <1>2, <2>2, <2>3 DEF HeldOK
  <2>5. CallsOK(schema, d)
    BY <2>3, EmptySeq DEF CallsOK
  <2> QED
    BY <1>1, <2>1, <2>2, <2>4, <2>5, HeldContinue
<1> QED
  BY <1>3, <1>4

\* A statement of a body starts.
LEMMA HeldBody ==
  ASSUME Inv, HeldInv, RunBody
  PROVE  HeldInv'
<1> DEFINE g == [Top EXCEPT !.body = Tail(@)]
           h == NewFrame(Head(Top.body))
<1>1. /\ stack # <<>> /\ Top.body # <<>> /\ schema' = schema
      /\ stack' = Append(Append(Front(stack), g), h)
  BY DEF RunBody
<1>2. /\ Top \in Frame /\ HeldOK(Top) /\ CallsOK(schema, Top) /\ schema \in Schema
  BY <1>1, TopFacts, TopHeld
<1>3. /\ g \in Frame /\ Head(Top.body) \in Stmt
      /\ g.op = Top.op /\ g.table = Top.table /\ g.todo = Top.todo /\ g.old = Top.old
      /\ g.phase = Top.phase /\ g.rowid = Top.rowid /\ g.new = Top.new
  BY <1>1, <1>2, BodyFrame
<1>4. g.triggers = Top.triggers /\ g.rows = Top.rows /\ g.body = Tail(Top.body)
  BY <1>2 DEF Frame
<1> HIDE DEF g
<1>5. h \in Frame /\ HeldOK(h) /\ CallsOK(schema, h)
  BY <1>3, NewFrameFacts, HeldNew DEF Inv, TypeOK
<1> HIDE DEF h
<1>6. HeldOK(g)
  <2>1. Top.phase # "next"
    BY <1>1, <1>2 DEF HeldOK
  <2> QED
    BY <1>2, <1>3, <1>4, <2>1 DEF HeldOK
<1>7. CallsOK(schema, g)
  <2>1. FiringTriggers(schema, g) = FiringTriggers(schema, Top)
    BY <1>3, FiringSame
  <2>2. /\ Len(Top.body) \in Nat /\ Len(g.body) = Len(Top.body) - 1
        /\ \A k \in 1 .. Len(g.body) : g.body[k] = Top.body[k + 1]
    <3>1. Top.body \in Seq(Stmt)
      BY <1>2, FrameFields
    <3> QED
      BY <1>1, <1>4, <3>1, TailFacts
  <2>3. \A k \in 1 .. Len(g.body) : k + 1 \in 1 .. Len(Top.body)
    BY <2>2
  <2> QED
    BY <1>2, <1>3, <1>4, <2>1, <2>2, <2>3 DEF CallsOK
<1>8. /\ Len(stack) \in Nat \ {0} /\ Len(stack') = Len(stack) + 1
      /\ stack'[Len(stack)] = g /\ stack'[Len(stack) + 1] = h
      /\ \A i \in 1 .. Len(stack) - 1 : stack'[i] = stack[i]
  BY <1>1, <1>3, <1>5, TopFacts, Pushed
<1> SUFFICES ASSUME NEW i \in 1 .. Len(stack) + 1
             PROVE  HeldOK(stack'[i]) /\ CallsOK(schema, stack'[i])
  BY <1>1, <1>8 DEF HeldInv
<1>9. CASE i = Len(stack) + 1
  BY <1>5, <1>8, <1>9
<1>10. CASE i = Len(stack)
  BY <1>6, <1>7, <1>8, <1>10
<1>11. CASE i \in 1 .. Len(stack) - 1
  BY <1>8, <1>11 DEF HeldInv
<1> QED
  BY <1>8, <1>9, <1>10, <1>11

\* The actions that leave the stack alone.
LEMMA StackStays ==
  ASSUME Begin \/ Commit \/ Rollback \/ UndoStep \/ UndoDone \/ UNCHANGED vars
  PROVE  stack' = stack /\ schema' = schema
BY DEF Begin, Commit, Rollback, Call, UndoStep, UndoDone, vars

\* A client's statement starts.
LEMMA StackStarts ==
  ASSUME Inv, NEW s \in Inserts \union Updates \union Deletes, Execute(s)
  PROVE  /\ stack = <<>> /\ stack' = <<NewFrame(s)>> /\ schema' = schema /\ s \in Stmt
         /\ NewFrame(s) \in Frame /\ Len(stack') = 1 /\ stack'[1] = NewFrame(s)
<1>1. stack = <<>> /\ stack' = <<NewFrame(s)>> /\ schema' = schema
  BY DEF Execute, Call, Idle
<1>2. s \in Stmt /\ NewFrame(s) \in Frame
  BY ClientStmt, NewFrameFacts DEF Inv, TypeOK
<1> DEFINE h == NewFrame(s)
<1>3. stack' = <<h>> /\ h \in Frame
  BY <1>1, <1>2
<1> HIDE DEF h
<1>4. Len(stack') = 1 /\ stack'[1] = h
  BY <1>3
<1> QED
  BY <1>1, <1>2, <1>4 DEF h

\* What frames hold, in every state.
THEOREM FramesHeld == Spec => []HeldInv
<1>1. Init => HeldInv
  BY EmptySeq DEF Init, HeldInv
<1>2. Inv /\ HeldInv /\ [Next]_vars => HeldInv'
  <2> SUFFICES ASSUME Inv, HeldInv, [Next]_vars  PROVE HeldInv'
    OBVIOUS
  <2>1. ASSUME NEW s \in Inserts \union Updates \union Deletes, Execute(s)  PROVE HeldInv'
    <3>1. /\ s \in Stmt /\ schema' = schema /\ Len(stack') = 1 /\ stack'[1] = NewFrame(s)
      BY <2>1, StackStarts
    <3>2. HeldOK(NewFrame(s)) /\ CallsOK(schema, NewFrame(s))
      BY <3>1, HeldNew
    <3> QED
      BY <3>1, <3>2 DEF HeldInv
  <2>2. CASE Begin \/ Commit \/ Rollback \/ UndoStep \/ UndoDone \/ UNCHANGED vars
    BY <2>2, StackStays DEF HeldInv
  <2>3. CASE Return
    <3>1. stack # <<>> /\ stack' = Front(stack) /\ schema' = schema
      BY <2>3 DEF Return
    <3>2. /\ Len(stack) \in Nat \ {0} /\ Len(stack') = Len(stack) - 1
          /\ \A i \in 1 .. Len(stack) - 1 : stack'[i] = stack[i]
      BY <3>1, TopFacts, Popped
    <3> QED
      BY <3>1, <3>2 DEF HeldInv
  <2> QED
    BY <2>1, <2>2, <2>3, HeldInsert, HeldChange, HeldFire, HeldWritten, HeldBody DEF Next
<1> QED
  BY <1>1, <1>2, Invariance, PTL DEF Spec
-----------------------------------------------------------------------------
(* An INSERT's rowid is its own, and what a DELETE removed stays away *)

\* f is between taking up a row to insert and writing it.
Inserting(f) == f.phase = "Before" /\ f.op = "Insert"

\* Nobody has written the row f is about to insert.
Unwritten(f, j) == Inserting(f) => Untouched(j, f.table, f.rowid)

\* Frame g has nothing to do with the row f is about to insert.
Apart(f, g) ==
    Inserting(f) /\ g.table = f.table =>
        /\ \A r \in RowId : g.todo[r] # NoRow => r # f.rowid
        /\ g.phase = "Before" => g.rowid # f.rowid

FramesApart(st, j) ==
    /\ \A i \in 1 .. Len(st) : Unwritten(st[i], j)
    /\ \A i, k \in 1 .. Len(st) : i # k => Apart(st[i], st[k])

\* Except where a stale copy was written over it, a deleted row is gone, and
\* nothing was journaled of it since.
DeletedLast(j, s, stale) ==
    \A i \in 1 .. Len(j) : j[i].op = "Delete" /\ <<j[i].table, j[i].rowid>> \notin stale =>
        /\ s[j[i].table][j[i].rowid] = NoRow
        /\ \A k \in i + 1 .. Len(j) : ~(j[k].table = j[i].table /\ j[k].rowid = j[i].rowid)

CopiesInv == FramesApart(stack, journal) /\ DeletedLast(journal, store, overwritten)

\* A frame that goes on with the same row, or is done with it.
LEMMA ApartLike ==
  ASSUME NEW f, NEW g, g.op = f.op, g.table = f.table, g.todo = f.todo,
         g.phase = "Before" => f.phase = "Before" /\ g.rowid = f.rowid
  PROVE  /\ \A h : Apart(h, f) => Apart(h, g)
         /\ \A h : Apart(f, h) => Apart(g, h)
         /\ \A j : Unwritten(f, j) => Unwritten(g, j)
BY DEF Apart, Unwritten, Inserting

\* A frame that has not taken up a row.
LEMMA ApartNew ==
  ASSUME NEW f, f.phase = "next"
  PROVE  (\A h : Apart(f, h)) /\ \A j : Unwritten(f, j)
BY DEF Apart, Unwritten, Inserting

\* The running frame goes on as one that keeps apart from the others.
LEMMA ApartContinue ==
  ASSUME Inv, stack # <<>>, NEW g \in Frame, Continue(g), NEW j, FramesApart(stack, journal),
         Unwritten(g, j),
         \A i \in 1 .. Len(stack) - 1 : /\ Unwritten(stack[i], j)
                                        /\ Apart(stack[i], g) /\ Apart(g, stack[i])
  PROVE  FramesApart(stack', j)
<1> DEFINE n == Len(stack)
<1>1. /\ n \in Nat \ {0} /\ Len(stack') = n /\ stack'[n] = g
      /\ \A i \in 1 .. n - 1 : stack'[i] = stack[i]
  BY Replaced DEF Inv, TypeOK
<1>2. \A i, k \in 1 .. n : i # k => Apart(stack[i], stack[k])
  BY DEF FramesApart
<1>3. \A i \in 1 .. n - 1 : Unwritten(stack[i], j) /\ Apart(stack[i], g) /\ Apart(g, stack[i])
  OBVIOUS
<1> HIDE DEF n
<1>4. \A i \in 1 .. n : i = n \/ i \in 1 .. n - 1
  BY <1>1
<1>5. \A i \in 1 .. n : Unwritten(stack'[i], j)
  BY <1>1, <1>3, <1>4
<1>6. \A i, k \in 1 .. n : i # k => Apart(stack'[i], stack'[k])
  BY <1>1, <1>2, <1>3, <1>4
<1> QED
  BY <1>1, <1>5, <1>6 DEF FramesApart

\* The running frame goes on with the same row, or is done with it.
LEMMA ApartSame ==
  ASSUME Inv, stack # <<>>, NEW g \in Frame, Continue(g), FramesApart(stack, journal),
         g.op = Top.op, g.table = Top.table, g.todo = Top.todo,
         g.phase = "Before" => Top.phase = "Before" /\ g.rowid = Top.rowid
  PROVE  FramesApart(stack', journal)
<1> DEFINE n == Len(stack)
           f == Top
<1>1. f = stack[n] /\ n \in Nat \ {0}
  BY LastFront DEF Inv, TypeOK, Top
<1>2. /\ \A h : Apart(h, f) => Apart(h, g)
      /\ \A h : Apart(f, h) => Apart(g, h)
      /\ \A j : Unwritten(f, j) => Unwritten(g, j)
  BY ApartLike
<1>3. /\ \A i \in 1 .. n : Unwritten(stack[i], journal)
      /\ \A i, k \in 1 .. n : i # k => Apart(stack[i], stack[k])
  BY DEF FramesApart
<1> HIDE DEF n, f
<1>4. /\ \A i \in 1 .. n - 1 : i \in 1 .. n /\ i # n
      /\ n \in 1 .. n
  BY <1>1
<1>5. Unwritten(g, journal)
  BY <1>1, <1>2, <1>3, <1>4
<1>6. \A i \in 1 .. n - 1 : /\ Unwritten(stack[i], journal)
                            /\ Apart(stack[i], g) /\ Apart(g, stack[i])
  BY <1>1, <1>2, <1>3, <1>4
<1> QED
  BY <1>5, <1>6, ApartContinue DEF n

\* The running statement goes on as h, which has taken up a row.
Takes(h) ==
    /\ stack # <<>> /\ Top.phase = "next" /\ Continue(h)
    /\ h.op = Top.op /\ h.table = Top.table /\ h.phase = "Before" /\ h.body = <<>>
    /\ h.triggers = schema.triggers[h.table] /\ h.rowid \in RowId
    /\ \A r \in RowId : h.todo[r] = IF r = h.rowid THEN NoRow ELSE Top.todo[r]
    /\ h.op = "Insert" => h.rowid = nextRowid[h.table] /\ h.old = NoRow
    /\ h.op # "Insert" => h.old # NoRow /\ h.old = Top.todo[h.rowid]
    /\ h.op = "Delete" => h.new = NoRow
    /\ h.op # "Delete" => h.new \in Val /\ Validates(h.table, h.new, h.rowid)

\* A row to insert is taken up, or fails validation.
LEMMA InsertTakes ==
  ASSUME Inv, HeldInv, InsertRow
  PROVE  Fail \/ \E h \in Frame : Takes(h) /\ UNCHANGED <<tableVars, txnVars, overwritten>>
<1> DEFINE n == nextRowid[Top.table]
           g == [Top EXCEPT !.rows = Tail(@), !.rowid = n, !.new = Head(Top.rows)]
           h == Enter(g, "Before")
<1>1. /\ stack # <<>> /\ Top.phase = "next" /\ Top.rows # <<>> /\ n <= MaxRowid
      /\ TakeRow(g)
  BY DEF InsertRow
<1>2. /\ Top \in Frame /\ HeldOK(Top) /\ schema \in Schema
      /\ FrameOK(Top, journal, base, nextRowid)
  BY <1>1, TopFacts, TopHeld
<1>3. n \in Nat \ {0} /\ n \in RowId
  <2>1. n \in Nat \ {0}
    BY <1>2, FrameFields DEF Inv, TypeOK
  <2> QED
    BY <1>1, <2>1, StatementsAssumption DEF RowId
<1>4. /\ g \in Frame
      /\ g.op = Top.op /\ g.table = Top.table /\ g.todo = Top.todo /\ g.old = Top.old
      /\ g.phase = Top.phase /\ g.rowid = n /\ g.new \in Val
  BY <1>1, <1>2, <1>3, TakeInsert
<1>5. g.body = Top.body
  BY <1>2 DEF Frame
<1>6. /\ Top.op = "Insert" /\ Top.body = <<>> /\ \A r \in RowId : Top.todo[r] = NoRow
      /\ Top.old = NoRow
  BY <1>1, <1>2 DEF HeldOK, FrameOK
<1>7. n = nextRowid[Top.table]
  OBVIOUS
<1> HIDE DEF g, n
<1>8. /\ h \in Frame /\ h.op = g.op /\ h.table = g.table /\ h.todo = g.todo
      /\ h.phase = "Before" /\ h.rowid = g.rowid /\ h.new = g.new /\ h.old = g.old
  BY <1>2, <1>4, EnterFrame
<1>9. h.body = g.body /\ h.triggers = schema.triggers[g.table]
  BY <1>4 DEF Enter, Frame
<1>10. Fail \/ (/\ Continue(h) /\ Validates(h.table, h.new, h.rowid)
                /\ UNCHANGED <<tableVars, txnVars, overwritten>>)
  BY <1>1, <1>4, <1>6, <1>8 DEF TakeRow
<1> HIDE DEF h
<1>11. Fail \/ (Takes(h) /\ UNCHANGED <<tableVars, txnVars, overwritten>>)
  BY <1>1, <1>3, <1>4, <1>5, <1>6, <1>7, <1>8, <1>9, <1>10 DEF Takes
<1> QED
  BY <1>8, <1>11

\* A row to change is taken up, or fails validation.
LEMMA ChangeTakes ==
  ASSUME Inv, HeldInv, NEW r \in RowId, ChangeRow(r)
  PROVE  Fail \/ \E h \in Frame : Takes(h) /\ UNCHANGED <<tableVars, txnVars, overwritten>>
<1> DEFINE v == IF Top.op = "Delete" THEN NoRow ELSE Top.set[Top.todo[r]]
           g == [Top EXCEPT !.todo[r] = NoRow, !.rowid = r, !.old = Top.todo[r], !.new = v]
           h == Enter(g, "Before")
<1>1. /\ stack # <<>> /\ Top.phase = "next" /\ Top.todo[r] # NoRow
      /\ TakeRow(g)
  BY DEF ChangeRow
<1>2. /\ Top \in Frame /\ HeldOK(Top) /\ schema \in Schema
  BY <1>1, TopFacts, TopHeld
<1>3. v \in Row /\ (Top.op # "Delete" => v \in Val) /\ (Top.op = "Delete" => v = NoRow)
  <2>1. Top.todo[r] \in Val
    BY <1>1, <1>2, FrameFields DEF Row
  <2> QED
    BY <1>2, <2>1, FrameFields DEF Row
<1> HIDE DEF v
<1>4. /\ g \in Frame
      /\ g.op = Top.op /\ g.table = Top.table /\ g.rowid = r
      /\ g.todo = [Top.todo EXCEPT ![r] = NoRow] /\ g.new = v /\ g.body = Top.body
      /\ g.old = Top.todo[r]
  <2> DEFINE f == Top
  <2>1. f \in Frame
    BY <1>2
  <2> HIDE DEF f
  <2>2. LET k == [f EXCEPT !.todo[r] = NoRow, !.rowid = r, !.old = f.todo[r], !.new = v]
        IN  /\ k \in Frame
            /\ k.op = f.op /\ k.table = f.table /\ k.rowid = r
            /\ k.todo = [f.todo EXCEPT ![r] = NoRow] /\ k.new = v /\ k.body = f.body
            /\ k.old = f.todo[r]
    <3>1. f.todo[r] \in Row /\ [f.todo EXCEPT ![r] = NoRow] \in [RowId -> Row]
      BY <2>1, FrameFields DEF Row
    <3>2. r \in Nat
      BY DEF RowId
    <3> QED
      BY <1>3, <2>1, <3>1, <3>2 DEF Frame
  <2> QED
    BY <2>2 DEF f
<1>5. Top.op # "Insert" /\ Top.body = <<>>
  BY <1>1, <1>2 DEF HeldOK
<1> HIDE DEF g
<1>6. /\ h \in Frame /\ h.op = g.op /\ h.table = g.table /\ h.todo = g.todo
      /\ h.phase = "Before" /\ h.rowid = g.rowid /\ h.new = g.new /\ h.old = g.old
  BY <1>2, <1>4, EnterFrame
<1>7. h.body = g.body /\ h.triggers = schema.triggers[g.table]
  BY <1>4 DEF Enter, Frame
<1>8. \A q \in RowId : h.todo[q] = IF q = r THEN NoRow ELSE Top.todo[q]
  <2>1. Top.todo \in [RowId -> Row]
    BY <1>2, FrameFields
  <2> QED
    BY <1>4, <1>6, <2>1
<1>9. Fail \/ (/\ Continue(h) /\ (h.op # "Delete" => Validates(h.table, h.new, h.rowid))
               /\ UNCHANGED <<tableVars, txnVars, overwritten>>)
  BY <1>1, <1>4, <1>6 DEF TakeRow
<1> HIDE DEF h
<1>10. Fail \/ (Takes(h) /\ UNCHANGED <<tableVars, txnVars, overwritten>>)
  BY <1>1, <1>3, <1>4, <1>5, <1>6, <1>7, <1>8, <1>9 DEF Takes
<1> QED
  BY <1>6, <1>10

\* A row is taken up: a rowid handed out now is in nobody else's hands.
LEMMA ApartTakes ==
  ASSUME Inv, HeldInv, FramesApart(stack, journal), NEW h \in Frame, Takes(h)
  PROVE  FramesApart(stack', journal)
<1> DEFINE n == Len(stack)
           f == Top
<1>1. /\ f \in Frame /\ HeldOK(f) /\ f = stack[n] /\ n \in Nat \ {0}
      /\ stack \in Seq(Frame)
  BY TopFacts, TopHeld, LastFront DEF Takes, Top, Inv, TypeOK
<1>2. /\ \A i \in 1 .. n : Unwritten(stack[i], journal)
      /\ \A i, k \in 1 .. n : i # k => Apart(stack[i], stack[k])
      /\ \A i \in 1 .. n : FrameOK(stack[i], journal, base, nextRowid)
  BY DEF FramesApart, Inv, StackOK
<1>3. \A i \in 1 .. n : stack[i] \in Frame
  BY <1>1, ElementOfSeq
<1>4. /\ h.op = f.op /\ h.table = f.table /\ h.phase = "Before" /\ h.rowid \in RowId
      /\ \A r \in RowId : h.todo[r] # NoRow => f.todo[r] # NoRow /\ r # h.rowid
      /\ h.op = "Insert" => h.rowid = nextRowid[h.table]
      /\ h.op # "Insert" => f.todo[h.rowid] # NoRow
  BY DEF Takes
<1>5. h.table \in Table /\ nextRowid \in [Table -> Nat \ {0}]
  BY FrameFields DEF Inv, TypeOK
<1> HIDE DEF n, f
<1>6. Unwritten(h, journal)
  BY <1>4, <1>5 DEF Inv, FreshOK, Unwritten, Inserting, RowId
<1>7. ASSUME NEW i \in 1 .. n - 1  PROVE Apart(stack[i], h)
  <2>1. /\ i \in 1 .. n /\ i # n /\ n \in 1 .. n
        /\ Apart(stack[i], f) /\ FrameOK(stack[i], journal, base, nextRowid)
    BY <1>1, <1>2
  <2> SUFFICES ASSUME Inserting(stack[i]), h.table = stack[i].table
               PROVE  /\ \A r \in RowId : h.todo[r] # NoRow => r # stack[i].rowid
                      /\ h.rowid # stack[i].rowid
    BY DEF Apart
  <2>2. \A r \in RowId : f.todo[r] # NoRow => r # stack[i].rowid
    BY <1>4, <2>1 DEF Apart
  <2>3. CASE h.op = "Insert"
    <3>1. stack[i].rowid \in Nat /\ stack[i].rowid < nextRowid[h.table]
      BY <1>3, <2>1, FrameFields DEF FrameOK, Inserting
    <3> QED
      BY <1>4, <1>5, <2>2, <2>3, <3>1
  <2> QED
    BY <1>4, <2>2, <2>3
<1>8. ASSUME NEW i \in 1 .. n - 1  PROVE Apart(h, stack[i])
  <2>1. i \in 1 .. n /\ FrameOK(stack[i], journal, base, nextRowid) /\ stack[i] \in Frame
    BY <1>1, <1>2, <1>3
  <2> SUFFICES ASSUME Inserting(h), stack[i].table = h.table
               PROVE  /\ \A r \in RowId : stack[i].todo[r] # NoRow => r # h.rowid
                      /\ stack[i].phase = "Before" => stack[i].rowid # h.rowid
    BY DEF Apart
  <2>2. h.rowid = nextRowid[stack[i].table] /\ stack[i].rowid \in Nat
    BY <1>4, <2>1, FrameFields DEF Inserting
  <2>3. nextRowid[stack[i].table] \in Nat
    BY <1>5
  <2> QED
    BY <2>1, <2>2, <2>3 DEF FrameOK, RowId
<1>9. \A i \in 1 .. n - 1 : Unwritten(stack[i], journal)
  BY <1>1, <1>2
<1>10. stack # <<>> /\ Continue(h)
  BY DEF Takes
<1> QED
  BY <1>6, <1>7, <1>8, <1>9, <1>10, ApartContinue DEF n

\* A statement of a body starts with copies of rows as they are: none of a row
\* somebody is about to insert.
LEMMA NewFrameApart ==
  ASSUME Inv, HeldInv, NEW i \in 1 .. Len(stack), NEW s \in Stmt, tx # "none",
         FramesApart(stack, journal)
  PROVE  Apart(stack[i], NewFrame(s)) /\ Apart(NewFrame(s), stack[i])
<1> DEFINE h == NewFrame(s)
           f == stack[i]
<1>1. /\ h \in Frame /\ h.table = s.table /\ h.phase = "next"
      /\ \A r \in RowId : h.todo[r] # NoRow => h.todo[r] = store[h.table][r]
  BY NewFrameFacts DEF Inv, TypeOK
<1>2. /\ f \in Frame /\ FrameOK(f, journal, base, nextRowid) /\ HeldOK(f)
      /\ Unwritten(f, journal)
  <2>1. stack \in Seq(Frame) /\ Len(stack) \in Nat
    BY DEF Inv, TypeOK
  <2> QED
    BY <2>1, ElementOfSeq DEF FramesApart, HeldInv, Inv, StackOK
<1> HIDE DEF h, f
<1>3. Apart(h, f)
  BY <1>1, ApartNew
<1>4. Apart(f, h)
  <2> SUFFICES ASSUME Inserting(f), h.table = f.table, NEW r \in RowId, h.todo[r] # NoRow,
                      r = f.rowid
               PROVE  FALSE
    BY <1>1 DEF Apart
  <2>1. Untouched(journal, f.table, r) /\ f.old = base[f.table][r] /\ f.old = NoRow
    BY <1>2 DEF Unwritten, FrameOK, HeldOK, Inserting
  <2>2. store[f.table][r] = base[f.table][r]
    BY <1>2, <2>1, FrameFields DEF Inv, TxOK, Restores
  <2> QED
    BY <1>1, <2>1, <2>2
<1> QED
  BY <1>3, <1>4 DEF h, f

\* A statement of a body starts.
LEMMA ApartBody ==
  ASSUME Inv, HeldInv, FramesApart(stack, journal), RunBody
  PROVE  FramesApart(stack', journal)
<1> DEFINE n == Len(stack)
           f == Top
           g == [f EXCEPT !.body = Tail(@)]
           s == Head(f.body)
           h == NewFrame(s)
<1>1. /\ stack # <<>> /\ f.body # <<>>
      /\ stack' = Append(Append(Front(stack), g), h)
  BY DEF RunBody
<1>2. /\ f \in Frame /\ f = stack[n] /\ n \in Nat \ {0} /\ tx # "none"
  BY <1>1, TopFacts, LastFront DEF Top, Inv, TypeOK
<1>3. /\ g \in Frame /\ s \in Stmt
      /\ g.op = f.op /\ g.table = f.table /\ g.todo = f.todo
      /\ g.phase = f.phase /\ g.rowid = f.rowid
  BY <1>1, <1>2, BodyFrame
<1>4. h \in Frame /\ h.phase = "next"
  BY <1>3, NewFrameFacts DEF Inv, TypeOK
<1>5. \A i \in 1 .. n : Apart(stack[i], h) /\ Apart(h, stack[i])
  BY <1>2, <1>3, NewFrameApart
<1>6. /\ \A i \in 1 .. n : Unwritten(stack[i], journal)
      /\ \A i, k \in 1 .. n : i # k => Apart(stack[i], stack[k])
  BY DEF FramesApart
<1>7. /\ \A k : Apart(k, f) => Apart(k, g)
      /\ \A k : Apart(f, k) => Apart(g, k)
      /\ \A j : Unwritten(f, j) => Unwritten(g, j)
  <2> HIDE DEF g, f
  <2> QED
    BY <1>3, ApartLike
<1>8. Unwritten(h, journal)
  BY <1>4, ApartNew
<1>9. /\ Len(stack') = n + 1 /\ stack'[n] = g /\ stack'[n + 1] = h
      /\ \A i \in 1 .. n - 1 : stack'[i] = stack[i]
  BY <1>1, <1>3, <1>4, Pushed DEF Inv, TypeOK
<1> HIDE DEF n, f, g, s, h
<1>10. /\ \A i \in 1 .. n + 1 : i \in 1 .. n - 1 \/ i = n \/ i = n + 1
       /\ \A i \in 1 .. n - 1 : i \in 1 .. n /\ i # n
       /\ n \in 1 .. n
  BY <1>2
<1>11. \A i \in 1 .. n + 1 : Unwritten(stack'[i], journal)
  BY <1>2, <1>6, <1>7, <1>8, <1>9, <1>10
<1>12. Apart(g, h) /\ Apart(h, g)
  BY <1>2, <1>5, <1>7, <1>10
<1>13. \A i \in 1 .. n - 1 : /\ Apart(stack'[i], g) /\ Apart(g, stack'[i])
                             /\ Apart(stack'[i], h) /\ Apart(h, stack'[i])
  BY <1>2, <1>5, <1>6, <1>7, <1>9, <1>10
<1>14. \A i, k \in 1 .. n - 1 : i # k => Apart(stack'[i], stack'[k])
  BY <1>6, <1>9, <1>10
<1>15. \A i, k \in 1 .. n + 1 : i # k => Apart(stack'[i], stack'[k])
  BY <1>9, <1>10, <1>12, <1>13, <1>14
<1> QED
  BY <1>9, <1>11, <1>15 DEF FramesApart

\* A row is written: it is the row of no other frame that inserts one.
LEMMA ApartWrite ==
  ASSUME Inv, HeldInv, FramesApart(stack, journal), WriteRow
  PROVE  FramesApart(stack', journal')
<1> DEFINE n == Len(stack)
           f == Top
           g == Enter(f, "After")
           e == [op |-> f.op, table |-> f.table, rowid |-> f.rowid, old |-> f.old]
<1>1. /\ stack # <<>> /\ f.phase = "Before" /\ Continue(g) /\ journal' = Append(journal, e)
  BY DEF WriteRow, Record
<1>2. /\ f \in Frame /\ f = stack[n] /\ n \in Nat \ {0} /\ schema \in Schema
      /\ stack \in Seq(Frame) /\ journal \in Seq(Entry) /\ f.rowid \in RowId
  BY <1>1, TopFacts, LastFront DEF Top, Inv, TypeOK, FrameOK
<1>3. /\ g \in Frame /\ g.op = f.op /\ g.table = f.table /\ g.todo = f.todo
      /\ g.phase = "After"
  BY <1>2, EnterFrame
<1>4. e \in Entry /\ e.table = f.table /\ e.rowid = f.rowid
  BY <1>2, FrameFields DEF Entry
<1> HIDE DEF g, f, e, n
<1>5. /\ \A i \in 1 .. n : Unwritten(stack[i], journal)
      /\ \A i, k \in 1 .. n : i # k => Apart(stack[i], stack[k])
  BY DEF FramesApart, n
<1>6. \A k : (Apart(k, f) => Apart(k, g)) /\ (Apart(f, k) => Apart(g, k))
  BY <1>3, ApartLike
<1>7. Unwritten(g, journal')
  BY <1>3 DEF Unwritten, Inserting
<1>8. ASSUME NEW i \in 1 .. n - 1
      PROVE  Unwritten(stack[i], journal') /\ Apart(stack[i], g) /\ Apart(g, stack[i])
  <2>1. i \in 1 .. n /\ i # n /\ n \in 1 .. n
    BY <1>2
  <2>2. Unwritten(stack[i], journal) /\ Apart(stack[i], f) /\ Apart(f, stack[i])
    BY <1>2, <1>5, <2>1
  <2>3. Inserting(stack[i]) => ~(e.table = stack[i].table /\ e.rowid = stack[i].rowid)
    BY <1>1, <1>4, <2>2 DEF Apart
  <2>4. Unwritten(stack[i], journal')
    BY <1>1, <1>2, <1>4, <2>2, <2>3, UntouchedAppend DEF Unwritten
  <2> QED
    BY <1>6, <2>2, <2>4
<1> QED
  BY <1>1, <1>3, <1>7, <1>8, ApartContinue DEF n

\* An entry more.
LEMMA DeletedAppend ==
  ASSUME NEW j \in Seq(Entry), NEW e \in Entry, NEW s, NEW s2, NEW stale, NEW stale2,
         DeletedLast(j, s, stale), stale \subseteq stale2,
         \A u \in Table, q \in RowId :
             <<u, q>> # <<e.table, e.rowid>> => s2[u][q] = s[u][q],
         <<e.table, e.rowid>> \notin stale2 => e.old = s[e.table][e.rowid],
         e.op = "Delete" => s2[e.table][e.rowid] = NoRow,
         e.op = "Insert" => Untouched(j, e.table, e.rowid),
         e.op # "Insert" => e.old # NoRow
  PROVE  DeletedLast(Append(j, e), s2, stale2)
<1> DEFINE n == Len(j)
           a == Append(j, e)
<1>1. n \in Nat /\ Len(a) = n + 1 /\ a[n + 1] = e /\ \A i \in 1 .. n : a[i] = j[i] /\ j[i] \in Entry
  BY AppendFacts, ElementOfSeq
<1>2. \A i \in 1 .. n : j[i].op = "Delete" /\ <<j[i].table, j[i].rowid>> \notin stale2 =>
          /\ s[j[i].table][j[i].rowid] = NoRow
          /\ \A k \in i + 1 .. n : ~(j[k].table = j[i].table /\ j[k].rowid = j[i].rowid)
  BY DEF DeletedLast
<1>3. ASSUME NEW i \in 1 .. n, j[i].op = "Delete", <<j[i].table, j[i].rowid>> \notin stale2,
             e.table = j[i].table, e.rowid = j[i].rowid
      PROVE  FALSE
  <2>1. e.old = NoRow
    BY <1>2, <1>3
  <2>2. Untouched(j, e.table, e.rowid)
    BY <2>1
  <2> QED
    BY <1>3, <2>2 DEF Untouched
<1> HIDE DEF a, n
<1> SUFFICES ASSUME NEW i \in 1 .. n + 1, a[i].op = "Delete",
                    <<a[i].table, a[i].rowid>> \notin stale2
             PROVE  /\ s2[a[i].table][a[i].rowid] = NoRow
                    /\ \A k \in i + 1 .. n + 1 :
                           ~(a[k].table = a[i].table /\ a[k].rowid = a[i].rowid)
  BY <1>1 DEF DeletedLast, a
<1>4. CASE i = n + 1
  BY <1>1, <1>4
<1>5. CASE i \in 1 .. n
  <2>1. a[i] = j[i] /\ j[i] \in Entry /\ j[i].table \in Table /\ j[i].rowid \in RowId
    BY <1>1, <1>5 DEF Entry
  <2>2. ~(e.table = j[i].table /\ e.rowid = j[i].rowid)
    BY <1>3, <1>5, <2>1
  <2>3. s2[j[i].table][j[i].rowid] = s[j[i].table][j[i].rowid]
    BY <2>1, <2>2
  <2>4. /\ s[j[i].table][j[i].rowid] = NoRow
        /\ \A k \in i + 1 .. n : ~(j[k].table = j[i].table /\ j[k].rowid = j[i].rowid)
    BY <1>2, <1>5, <2>1
  <2>5. ASSUME NEW k \in i + 1 .. n + 1
        PROVE  ~(a[k].table = a[i].table /\ a[k].rowid = a[i].rowid)
    <3>1. k = n + 1 \/ (k \in i + 1 .. n /\ k \in 1 .. n)
      BY <1>1, <1>5
    <3>2. CASE k = n + 1
      BY <1>1, <2>1, <2>2, <3>2
    <3>3. CASE k \in i + 1 .. n /\ k \in 1 .. n
      <4>1. a[k] = j[k]
        BY <1>1, <3>3
      <4> QED
        BY <2>1, <2>4, <3>3, <4>1
    <3> QED
      BY <3>1, <3>2, <3>3
  <2> QED
    BY <2>1, <2>3, <2>4, <2>5
<1> QED
  BY <1>1, <1>4, <1>5

\* The last entry is undone.
LEMMA DeletedFront ==
  ASSUME NEW j \in Seq(Entry), j # <<>>, NEW s, NEW s2, NEW stale,
         DeletedLast(j, s, stale),
         \A u \in Table, q \in RowId :
             <<u, q>> # <<Last(j).table, Last(j).rowid>> => s2[u][q] = s[u][q]
  PROVE  DeletedLast(Front(j), s2, stale)
<1> DEFINE n == Len(j) - 1
           p == Front(j)
           e == Last(j)
<1>1. /\ n \in Nat /\ Len(j) = n + 1 /\ Len(p) = n /\ e = j[n + 1]
      /\ \A i \in 1 .. n : p[i] = j[i]
  BY LastFront
<1>2. \A i \in 1 .. n : j[i] \in Entry
  BY <1>1, ElementOfSeq
<1>3. \A i \in 1 .. n + 1 : j[i].op = "Delete" /\ <<j[i].table, j[i].rowid>> \notin stale =>
          /\ s[j[i].table][j[i].rowid] = NoRow
          /\ \A k \in i + 1 .. n + 1 : ~(j[k].table = j[i].table /\ j[k].rowid = j[i].rowid)
  BY <1>1 DEF DeletedLast
<1> HIDE DEF n, p, e
<1> SUFFICES ASSUME NEW i \in 1 .. n, j[i].op = "Delete",
                    <<j[i].table, j[i].rowid>> \notin stale
             PROVE  /\ s2[j[i].table][j[i].rowid] = NoRow
                    /\ \A k \in i + 1 .. n :
                           ~(j[k].table = j[i].table /\ j[k].rowid = j[i].rowid)
  <2>1. \A i \in 1 .. n : \A k \in i + 1 .. n : p[k] = j[k] /\ p[i] = j[i]
    BY <1>1
  <2> QED
    BY <1>1, <2>1 DEF DeletedLast, p
<1>4. i \in 1 .. n + 1 /\ n + 1 \in i + 1 .. n + 1 /\ \A k \in i + 1 .. n : k \in i + 1 .. n + 1
  BY <1>1
<1>5. ~(e.table = j[i].table /\ e.rowid = j[i].rowid)
  BY <1>1, <1>3, <1>4
<1>6. j[i].table \in Table /\ j[i].rowid \in RowId
  BY <1>2 DEF Entry
<1>7. s2[j[i].table][j[i].rowid] = s[j[i].table][j[i].rowid]
  BY <1>5, <1>6 DEF e
<1> QED
  BY <1>3, <1>4, <1>7

\* A trigger fires or is passed over, or a row is done with: the frame goes on
\* with the same row, or none.
LEMMA ContinuesAs ==
  ASSUME Inv, FireTrigger \/ RowDone
  PROVE  \E g \in Frame :
             /\ Continue(g) /\ g.op = Top.op /\ g.table = Top.table /\ g.todo = Top.todo
             /\ g.phase = "Before" =>
                    /\ Top.phase = "Before" /\ g.rowid = Top.rowid
                    /\ g.old = Top.old /\ g.new = Top.new
<1> DEFINE t == Head(Top.triggers)
           ts == Tail(Top.triggers)
           b == [i \in DOMAIN t.body |-> Instantiate(t.body[i], Top.old, Top.new)]
           ss == IF Fires(t, Top) THEN b ELSE <<>>
           g == [Top EXCEPT !.triggers = ts, !.body = ss]
           d == [Top EXCEPT !.phase = "next", !.rowid = 0, !.old = NoRow, !.new = NoRow]
<1>1. stack # <<>>
  BY DEF FireTrigger, RowDone
<1>2. Top \in Frame
  BY <1>1, TopFacts
<1>3. CASE FireTrigger
  <2>1. Continue(g) /\ Top.triggers # <<>>
    BY <1>3 DEF FireTrigger
  <2>2. t \in Trigger /\ ts \in Seq(Trigger) /\ Top.old \in Row /\ Top.new \in Row
    BY <1>2, <2>1, FrameFields, HeadTail
  <2>3. t.body \in Seq(Body) /\ DOMAIN t.body = 1 .. Len(t.body) /\ Len(t.body) \in Nat
    BY <2>2, LenProperties DEF Trigger
  <2>4. \A i \in 1 .. Len(t.body) : Instantiate(t.body[i], Top.old, Top.new) \in Stmt
    <3>1. \A i \in 1 .. Len(t.body) : t.body[i] \in Body
      BY <2>3, ElementOfSeq
    <3> QED
      BY <2>2, <3>1, InstantiateType
  <2>5. b \in Seq(Stmt)
    <3> DEFINE m == Len(t.body)
               e(i) == Instantiate(t.body[i], Top.old, Top.new)
    <3>1. b = [i \in 1 .. m |-> e(i)] /\ m \in Nat /\ \A i \in 1 .. m : e(i) \in Stmt
      BY <2>3, <2>4
    <3> HIDE DEF m, e, b
    <3>2. [i \in 1 .. m |-> e(i)] \in Seq(Stmt)
      BY <3>1, IsASeq
    <3> QED
      BY <3>1, <3>2
  <2>6. ss \in Seq(Stmt)
    <3> HIDE DEF b, t
    <3> QED
      BY <2>5, EmptySeq
  <2> HIDE DEF t, ts, b, ss
  <2>7. /\ g \in Frame
        /\ g.op = Top.op /\ g.table = Top.table /\ g.todo = Top.todo /\ g.old = Top.old
        /\ g.phase = Top.phase /\ g.rowid = Top.rowid /\ g.new = Top.new
    BY <1>2, <2>2, <2>6, FireFrame
  <2> HIDE DEF g
  <2> QED
    BY <2>1, <2>7
<1>4. CASE RowDone
  <2>1. Continue(d)
    BY <1>4 DEF RowDone
  <2>2. /\ d \in Frame /\ d.op = Top.op /\ d.table = Top.table /\ d.todo = Top.todo
        /\ d.phase = "next"
    BY <1>2, DoneFrame
  <2> HIDE DEF d
  <2> QED
    BY <2>1, <2>2
<1> QED
  BY <1>3, <1>4

\* What a row's write does to the journal and to the rows.
LEMMA WriteFacts ==
  ASSUME Inv, HeldInv, WriteRow
  PROVE  LET e == [op |-> Top.op, table |-> Top.table, rowid |-> Top.rowid, old |-> Top.old]
         IN  /\ stack # <<>> /\ e \in Entry /\ Top.new \in Row /\ journal' = Append(journal, e)
             /\ Write(e.table, e.rowid, e.old, Top.new)
             /\ Top.table \in Table /\ Top.rowid \in RowId /\ Top.old \in Row
             /\ e.op = Top.op /\ e.table = Top.table /\ e.rowid = Top.rowid /\ e.old = Top.old
             /\ overwritten \subseteq overwritten'
             /\ <<e.table, e.rowid>> \notin overwritten' => e.old = store[e.table][e.rowid]
             /\ e.op = "Delete" => Top.new = NoRow
             /\ e.op = "Insert" => e.old = NoRow
             /\ e.op # "Insert" => e.old # NoRow
<1> DEFINE f == Top
           e == [op |-> f.op, table |-> f.table, rowid |-> f.rowid, old |-> f.old]
<1>1. /\ stack # <<>> /\ f.phase = "Before" /\ Write(f.table, f.rowid, f.old, f.new)
      /\ journal' = Append(journal, e)
      /\ overwritten' = IF store[f.table][f.rowid] = f.old THEN overwritten
                        ELSE overwritten \union {<<f.table, f.rowid>>}
  BY DEF WriteRow, Record
<1>2. /\ f \in Frame /\ HeldOK(f) /\ f.rowid \in RowId
  BY <1>1, TopFacts, TopHeld DEF FrameOK
<1> HIDE DEF f
<1>3. e \in Entry /\ f.new \in Row /\ f.table \in Table /\ f.old \in Row
  BY <1>2, FrameFields DEF Entry
<1>4. /\ f.op = "Delete" => f.new = NoRow
      /\ f.op = "Insert" => f.old = NoRow
      /\ f.op # "Insert" => f.old # NoRow
  BY <1>1, <1>2 DEF HeldOK
<1>5. /\ overwritten \subseteq overwritten'
      /\ <<f.table, f.rowid>> \notin overwritten' => f.old = store[f.table][f.rowid]
  BY <1>1
<1>6. e.op = f.op /\ e.table = f.table /\ e.rowid = f.rowid /\ e.old = f.old
  OBVIOUS
<1> HIDE DEF e
<1> QED
  BY <1>1, <1>2, <1>3, <1>4, <1>5, <1>6 DEF e, f

\* A DELETE's row is gone once it is written.
LEMMA DeletedWrite ==
  ASSUME Inv, HeldInv, CopiesInv, WriteRow
  PROVE  DeletedLast(journal', store', overwritten')
<1> DEFINE e == [op |-> Top.op, table |-> Top.table, rowid |-> Top.rowid, old |-> Top.old]
<1>1. /\ stack # <<>> /\ e \in Entry /\ Top.new \in Row /\ journal' = Append(journal, e)
      /\ Write(e.table, e.rowid, e.old, Top.new)
      /\ Top.table \in Table /\ Top.rowid \in RowId /\ Top.old \in Row
      /\ e.op = Top.op /\ e.table = Top.table /\ e.rowid = Top.rowid /\ e.old = Top.old
      /\ overwritten \subseteq overwritten'
      /\ <<e.table, e.rowid>> \notin overwritten' => e.old = store[e.table][e.rowid]
      /\ e.op = "Delete" => Top.new = NoRow
      /\ e.op # "Insert" => e.old # NoRow
  BY WriteFacts
<1> HIDE DEF e
<1>2. /\ store'[e.table][e.rowid] = Top.new
      /\ \A u \in Table, q \in RowId :
             <<u, q>> # <<e.table, e.rowid>> => store'[u][q] = store[u][q]
  BY <1>1, WriteStore DEF Inv
<1>3. e.op = "Insert" => Untouched(journal, e.table, e.rowid)
  <2>1. Top = stack[Len(stack)] /\ Len(stack) \in Nat \ {0}
    BY <1>1, LastFront DEF Inv, TypeOK, Top
  <2>2. Unwritten(Top, journal)
    BY <2>1 DEF CopiesInv, FramesApart
  <2>3. Top.phase = "Before"
    BY DEF WriteRow
  <2> QED
    BY <1>1, <2>2, <2>3 DEF Unwritten, Inserting
<1>4. DeletedLast(journal, store, overwritten) /\ journal \in Seq(Entry)
  BY DEF CopiesInv, Inv, TypeOK
<1>5. e.op = "Delete" => store'[e.table][e.rowid] = NoRow
  BY <1>1, <1>2
<1>6. DeletedLast(Append(journal, e), store', overwritten')
  BY <1>1, <1>2, <1>3, <1>4, <1>5, DeletedAppend
<1> QED
  BY <1>1, <1>6

\* One entry is undone.
LEMMA DeletedUndo ==
  ASSUME Inv, CopiesInv, UndoStep
  PROVE  DeletedLast(journal', store', overwritten')
<1> DEFINE e == Last(journal)
           now == IF e.op = "Delete" THEN NoRow ELSE store[e.table][e.rowid]
<1>1. /\ e.table \in Table /\ e.rowid \in RowId /\ e.old \in Row /\ now \in Row
      /\ Write(e.table, e.rowid, now, e.old)
  BY UndoWrites
<1>2. /\ journal' = Front(journal) /\ journal # <<>> /\ overwritten' = overwritten
      /\ journal \in Seq(Entry) /\ DeletedLast(journal, store, overwritten)
  BY DEF UndoStep, Inv, TypeOK, CopiesInv
<1> HIDE DEF now
<1>3. \A u \in Table, q \in RowId :
          <<u, q>> # <<e.table, e.rowid>> => store'[u][q] = store[u][q]
  BY <1>1, WriteStore DEF Inv
<1>4. DeletedLast(Front(journal), store', overwritten)
  BY <1>2, <1>3, DeletedFront
<1> QED
  BY <1>2, <1>4

\* Copies taken before somebody else's write are no row that was inserted since,
\* in every state.
LEMMA CopiesNext == Inv /\ HeldInv /\ CopiesInv /\ [Next]_vars => CopiesInv'
<1> SUFFICES ASSUME Inv, HeldInv, CopiesInv, [Next]_vars  PROVE CopiesInv'
  OBVIOUS
<1>0. FramesApart(stack, journal) /\ DeletedLast(journal, store, overwritten)
  BY DEF CopiesInv
<1>1. ASSUME NEW s \in Inserts \union Updates \union Deletes, Execute(s)  PROVE CopiesInv'
  <2>1. /\ stack = <<>> /\ Len(stack') = 1 /\ stack'[1] = NewFrame(s) /\ s \in Stmt
    BY <1>1, StackStarts
  <2>2. NewFrame(s).phase = "next"
    BY <2>1, NewFrameFacts DEF Inv, TypeOK
  <2>3. FramesApart(stack', journal')
    BY <2>1, <2>2, ApartNew DEF FramesApart
  <2>4. store' = store /\ overwritten' = overwritten /\ (journal' = <<>> \/ journal' = journal)
    BY <1>1 DEF Execute, Call, tableVars, StartTransaction
  <2>5. DeletedLast(journal', store', overwritten')
    BY <1>0, <2>4, EmptySeq DEF DeletedLast
  <2> QED
    BY <2>3, <2>5 DEF CopiesInv
<1>2. ASSUME stack' = <<>>, store' = store, overwritten' = overwritten,
             journal' = <<>> \/ journal' = journal
      PROVE  CopiesInv'
  <2>1. FramesApart(stack', journal')
    BY <1>2, EmptySeq DEF FramesApart
  <2>2. DeletedLast(journal', store', overwritten')
    BY <1>0, <1>2, EmptySeq DEF DeletedLast
  <2> QED
    BY <2>1, <2>2 DEF CopiesInv
<1>3. CASE Begin \/ Commit \/ Rollback \/ UndoDone \/ Fail
  <2>1. stack' = <<>>
    BY <1>3 DEF Begin, Commit, Rollback, Call, Idle, UndoDone, Fail, Inv, TxOK
  <2>2. store' = store /\ overwritten' = overwritten /\ (journal' = <<>> \/ journal' = journal)
    BY <1>3 DEF Begin, Commit, Rollback, Call, UndoDone, Fail, StartTransaction,
                EndTransaction, tableVars
  <2> QED
    BY <1>2, <2>1, <2>2
<1>4. ASSUME NEW h \in Frame, Takes(h), UNCHANGED <<tableVars, txnVars, overwritten>>
      PROVE  CopiesInv'
  <2>1. store' = store /\ overwritten' = overwritten /\ journal' = journal
    BY <1>4 DEF tableVars, txnVars
  <2> QED
    BY <1>0, <1>4, <2>1, ApartTakes DEF CopiesInv
<1>5. CASE InsertRow
  BY <1>3, <1>4, <1>5, InsertTakes
<1>6. ASSUME NEW r \in RowId, ChangeRow(r)  PROVE CopiesInv'
  BY <1>3, <1>4, <1>6, ChangeTakes
<1>7. CASE FireTrigger \/ RowDone
  <2>1. stack # <<>> /\ store' = store /\ overwritten' = overwritten /\ journal' = journal
    BY <1>7 DEF FireTrigger, RowDone, tableVars, txnVars
  <2>2. PICK g \in Frame : /\ Continue(g) /\ g.op = Top.op /\ g.table = Top.table
                           /\ g.todo = Top.todo
                           /\ g.phase = "Before" => Top.phase = "Before" /\ g.rowid = Top.rowid
    BY <1>7, <2>1, ContinuesAs
  <2> QED
    BY <1>0, <2>1, <2>2, ApartSame DEF CopiesInv
<1>8. CASE RunBody
  <2>1. store' = store /\ overwritten' = overwritten /\ journal' = journal
    BY <1>8 DEF RunBody, tableVars, txnVars
  <2> QED
    BY <1>0, <1>8, <2>1, ApartBody DEF CopiesInv
<1>9. CASE WriteRow
  BY <1>0, <1>9, ApartWrite, DeletedWrite DEF CopiesInv
<1>10. CASE Return
  <2>1. /\ stack # <<>> /\ stack' = Front(stack) /\ store' = store /\ overwritten' = overwritten
        /\ journal' = <<>> \/ journal' = journal
    BY <1>10 DEF Return, tableVars, EndTransaction
  <2>2. /\ Len(stack) \in Nat \ {0} /\ Len(stack') = Len(stack) - 1
        /\ \A i \in 1 .. Len(stack) - 1 : stack'[i] = stack[i]
    BY <2>1, Popped DEF Inv, TypeOK
  <2>3. \A i \in 1 .. Len(stack) - 1 : i \in 1 .. Len(stack)
    BY <2>2
  <2>4. \A f : Unwritten(f, journal) => Unwritten(f, journal')
    BY <2>1, EmptySeq DEF Unwritten, Untouched
  <2> DEFINE n == Len(stack)
  <2> HIDE DEF n
  <2>7. /\ \A i \in 1 .. n - 1 : Unwritten(stack[i], journal)
        /\ \A i, k \in 1 .. n - 1 : i # k => Apart(stack[i], stack[k])
    BY <1>0, <2>3 DEF FramesApart, n
  <2>8. Len(stack') = n - 1 /\ \A i \in 1 .. n - 1 : stack'[i] = stack[i]
    BY <2>2 DEF n
  <2>9. \A i \in 1 .. n - 1 : Unwritten(stack'[i], journal')
    BY <2>4, <2>7, <2>8
  <2>10. \A i, k \in 1 .. n - 1 : i # k => Apart(stack'[i], stack'[k])
    BY <2>7, <2>8
  <2>5. FramesApart(stack', journal')
    BY <2>8, <2>9, <2>10 DEF FramesApart
  <2>6. DeletedLast(journal', store', overwritten')
    BY <1>0, <2>1, EmptySeq DEF DeletedLast
  <2> QED
    BY <2>5, <2>6 DEF CopiesInv
<1>11. CASE UndoStep
  <2>1. stack' = <<>>
    BY <1>11 DEF UndoStep, Inv, TxOK
  <2>2. FramesApart(stack', journal')
    BY <2>1, EmptySeq DEF FramesApart
  <2> QED
    BY <1>11, <2>2, DeletedUndo DEF CopiesInv
<1>12. CASE UNCHANGED vars
  BY <1>0, <1>12 DEF vars, tableVars, txnVars, CopiesInv
<1> QED
  BY <1>1, <1>3, <1>5, <1>6, <1>7, <1>8, <1>9, <1>10, <1>11, <1>12 DEF Next

\* A row inserted is nobody else's, and a row deleted stays away, in every state.
THEOREM CopiesStayApart == Spec => []CopiesInv
<1>1. Init => CopiesInv
  BY EmptySeq DEF Init, CopiesInv, FramesApart, DeletedLast
<1> QED
  BY <1>1, CopiesNext, Invariance, FramesHeld, PTL DEF Spec

-----------------------------------------------------------------------------
(* The indexes list no row by what it is not *)

\* Of the rows of a table, its two indexes list those not in stale by what they
\* are.
Exact(ix, docs, rows, stale) ==
    /\ \A v \in Val : \A r \in ix[v] : rows[r] = v \/ r \in stale
    /\ \A w \in Token : \A r \in docs[w] :
           r \in stale \/ (rows[r] # NoRow /\ w \in Tokens[rows[r]])

Texts(rows) == {r \in RowId : IsText(rows[r])}

\* When none of them is stale, the texts are counted.
Counted(d, rows, stale) ==
    (\A r \in RowId : r \notin stale) => d.total = Cardinality(Texts(rows))

StaleRows(stale, t) == {r \in RowId : <<t, r>> \in stale}

\* A table without an index of a kind has nothing in it.
ExactInv ==
    \A t \in Table :
        /\ Exact(index[t], fts[t].docs, store[t], StaleRows(overwritten, t))
        /\ t \in schema.fts => Counted(fts[t], store[t], StaleRows(overwritten, t))
        /\ t \notin schema.indexed => \A v \in Val : index[t][v] = {}
        /\ t \notin schema.fts => \A w \in Token : fts[t].docs[w] = {}

\* An index told what row r was lists it by what it becomes only.
LEMMA FollowExact ==
  ASSUME NEW ix \in [Val -> SUBSET RowId], NEW d \in Documents, NEW r \in RowId,
         NEW old \in Row, NEW new \in Row, NEW rows \in [RowId -> Row],
         NEW rows2 \in [RowId -> Row], rows2[r] = new,
         \A q \in RowId \ {r} : rows2[q] = rows[q],
         NEW stale, NEW stale2, stale \subseteq stale2, r \notin stale2 => old = rows[r],
         Exact(ix, d.docs, rows, stale)
  PROVE  Exact(FollowValue(ix, r, old, new), FollowText(d, r, old, new).docs, rows2, stale2)
<1> DEFINE ix2 == FollowValue(ix, r, old, new)
           less == IF IsText(old) THEN RemoveDocument(d, r, old) ELSE d
           d2 == FollowText(d, r, old, new)
<1>1. /\ \A v \in Val : \A q \in ix[v] : q \in RowId /\ (rows[q] = v \/ q \in stale)
      /\ \A w \in Token : \A q \in d.docs[w] :
             q \in RowId /\ (q \in stale \/ (rows[q] # NoRow /\ w \in Tokens[rows[q]]))
  BY DEF Exact, Documents
<1>2. ASSUME NEW v \in Val, NEW q \in ix2[v]  PROVE rows2[q] = v \/ q \in stale2
  <2>1. ix2[v] = IF v = new THEN ix[v] \union {r}
                 ELSE IF v = old THEN ix[v] \ {r} ELSE ix[v]
    BY DEF FollowValue
  <2>2. CASE q = r
    BY <1>1, <1>2, <2>1, <2>2
  <2>3. CASE q # r
    BY <1>1, <1>2, <2>1, <2>3
  <2> QED
    BY <2>2, <2>3
<1>3. /\ less \in Documents
      /\ \A w \in Token : less.docs[w] \subseteq d.docs[w]
      /\ \A w \in Token : IsText(old) /\ w \in Tokens[old] => r \notin less.docs[w]
  BY DEF RemoveDocument, Documents
<1>4. d2 = IF IsText(new) THEN AddDocument(less, r, new) ELSE less
  BY DEF FollowText
<1>5. \A w \in Token : \A q \in d2.docs[w] :
          \/ q \in less.docs[w]
          \/ q = r /\ IsText(new) /\ w \in Tokens[new]
  <2> HIDE DEF less, d2
  <2> QED
    BY <1>3, <1>4 DEF AddDocument, Documents
<1>6. ASSUME NEW w \in Token, NEW q \in d2.docs[w]
      PROVE  q \in stale2 \/ (rows2[q] # NoRow /\ w \in Tokens[rows2[q]])
  <2> HIDE DEF less, d2
  <2>1. CASE q \in less.docs[w] /\ q # r
    <3>1. q \in d.docs[w]
      BY <1>3, <2>1
    <3> QED
      BY <1>1, <2>1, <3>1
  <2>2. CASE q \in less.docs[w] /\ q = r
    <3>1. q \in d.docs[w]
      BY <1>3, <2>2
    <3>2. CASE r \notin stale2
      <4>1. old # NoRow /\ w \in Tokens[old]
        BY <1>1, <2>2, <3>1, <3>2
      <4>2. IsText(old)
        BY <4>1, StatementsAssumption DEF IsText
      <4> QED
        BY <1>3, <2>2, <4>1, <4>2
    <3> QED
      BY <2>2, <3>2
  <2>3. CASE q = r /\ IsText(new) /\ w \in Tokens[new]
    BY <2>3 DEF IsText
  <2> QED
    BY <1>5, <1>6, <2>1, <2>2, <2>3
<1> HIDE DEF ix2, d2
<1>7. Exact(ix2, d2.docs, rows2, stale2)
  BY <1>2, <1>6 DEF Exact
<1> QED
  BY <1>7 DEF ix2, d2

\* One row more or less among the texts.
LEMMA TextsWithout ==
  ASSUME NEW rows \in [RowId -> Row], NEW r \in RowId
  PROVE  /\ Cardinality(Texts(rows)) \in Nat /\ Cardinality(Texts(rows) \ {r}) \in Nat
         /\ Cardinality(Texts(rows) \ {r}) =
                IF IsText(rows[r]) THEN Cardinality(Texts(rows)) - 1 ELSE Cardinality(Texts(rows))
<1>1. IsFiniteSet(RowId)
  BY FS_Interval, StatementsAssumption DEF RowId
<1>2. IsFiniteSet(Texts(rows)) /\ IsFiniteSet(Texts(rows) \ {r})
  BY <1>1, FS_Subset DEF Texts
<1>3. r \in Texts(rows) <=> IsText(rows[r])
  BY DEF Texts
<1>4. Cardinality(Texts(rows)) \in Nat /\ Cardinality(Texts(rows) \ {r}) \in Nat
  BY <1>2, FS_CardinalityType
<1> QED
  BY <1>2, <1>3, <1>4, FS_RemoveElement

\* total_docs goes with the texts.
LEMMA FollowCounts ==
  ASSUME NEW d \in Documents, NEW r \in RowId,
         NEW old \in Row, NEW new \in Row, NEW rows \in [RowId -> Row],
         NEW rows2 \in [RowId -> Row], rows2[r] = new,
         \A q \in RowId \ {r} : rows2[q] = rows[q],
         NEW stale, NEW stale2, stale \subseteq stale2, r \notin stale2 => old = rows[r],
         Counted(d, rows, stale)
  PROVE  Counted(FollowText(d, r, old, new), rows2, stale2)
<1> DEFINE less == IF IsText(old) THEN RemoveDocument(d, r, old) ELSE d
           d2 == FollowText(d, r, old, new)
<1> SUFFICES ASSUME \A q \in RowId : q \notin stale2
             PROVE  d2.total = Cardinality(Texts(rows2))
  BY DEF Counted
<1>1. d.total = Cardinality(Texts(rows)) /\ old = rows[r]
  BY DEF Counted
<1>2. Texts(rows) \ {r} = Texts(rows2) \ {r}
  BY DEF Texts
<1>3. /\ Cardinality(Texts(rows)) \in Nat /\ Cardinality(Texts(rows) \ {r}) \in Nat
      /\ Cardinality(Texts(rows) \ {r}) =
             IF IsText(old) THEN Cardinality(Texts(rows)) - 1 ELSE Cardinality(Texts(rows))
  BY <1>1, TextsWithout
<1>4. /\ Cardinality(Texts(rows2)) \in Nat
      /\ Cardinality(Texts(rows2) \ {r}) =
             IF IsText(new) THEN Cardinality(Texts(rows2)) - 1 ELSE Cardinality(Texts(rows2))
  BY TextsWithout
<1>5. less.total = IF IsText(old) THEN d.total - 1 ELSE d.total
  BY DEF RemoveDocument
<1>6. d2.total = IF IsText(new) THEN less.total + 1 ELSE less.total
  <2> HIDE DEF less
  <2>1. d2 = IF IsText(new) THEN AddDocument(less, r, new) ELSE less
    BY DEF FollowText, less
  <2> QED
    BY <2>1 DEF AddDocument
<1> HIDE DEF less, d2
<1>7. less.total = Cardinality(Texts(rows2) \ {r})
  BY <1>1, <1>2, <1>3, <1>5
<1> QED
  BY <1>4, <1>6, <1>7

\* A write of which the indexes are told the truth, unless the row counts as
\* overwritten, leaves them exact.
LEMMA WriteExact ==
  ASSUME TypeOK, ExactInv, schema' = schema, NEW t \in Table, NEW r \in RowId,
         NEW old \in Row, NEW new \in Row, Write(t, r, old, new),
         overwritten \subseteq overwritten',
         <<t, r>> \notin overwritten' => old = store[t][r]
  PROVE  ExactInv'
<1> SUFFICES ASSUME NEW u \in Table
    PROVE  /\ Exact(index'[u], fts'[u].docs, store'[u], StaleRows(overwritten', u))
           /\ u \in schema.fts => Counted(fts'[u], store'[u], StaleRows(overwritten', u))
           /\ u \notin schema.indexed => \A v \in Val : index'[u][v] = {}
           /\ u \notin schema.fts => \A w \in Token : fts'[u].docs[w] = {}
  BY DEF ExactInv
<1>1. /\ Exact(index[u], fts[u].docs, store[u], StaleRows(overwritten, u))
      /\ u \in schema.fts => Counted(fts[u], store[u], StaleRows(overwritten, u))
      /\ u \notin schema.indexed => \A v \in Val : index[u][v] = {}
      /\ u \notin schema.fts => \A w \in Token : fts[u].docs[w] = {}
  BY DEF ExactInv
<1> DEFINE ix == index[u]
           d == fts[u]
           rows == store[u]
           rows2 == store'[u]
           stale == StaleRows(overwritten, u)
           stale2 == StaleRows(overwritten', u)
<1>2. /\ ix \in [Val -> SUBSET RowId] /\ d \in Documents /\ rows \in [RowId -> Row]
      /\ rows2 \in [RowId -> Row] /\ stale \subseteq stale2
  BY WriteStore DEF TypeOK, Tables, StaleRows
<1>3. CASE u # t
  <2>1. \A q \in RowId : rows2[q] = rows[q]
    BY <1>3, WriteStore
  <2>2. rows2 = rows
    BY <1>2, <2>1
  <2>3. index'[u] = ix /\ fts'[u] = d
    BY <1>3 DEF Write, TypeOK
  <2> HIDE DEF ix, d, rows, rows2, stale, stale2
  <2>4. Exact(ix, d.docs, rows, stale) => Exact(ix, d.docs, rows, stale2)
    BY <1>2 DEF Exact
  <2>5. Counted(d, rows, stale) => Counted(d, rows, stale2)
    BY <1>2 DEF Counted
  <2> QED
    BY <1>1, <2>2, <2>3, <2>4, <2>5 DEF ix, d, rows, rows2, stale, stale2
<1>4. CASE u = t
  <2>1. rows2[r] = new /\ \A q \in RowId \ {r} : rows2[q] = rows[q]
    BY <1>4, WriteStore
  <2>2. r \notin stale2 => old = rows[r]
    BY <1>4 DEF StaleRows
  <2>3. /\ index'[u] = IF u \in schema.indexed THEN FollowValue(ix, r, old, new) ELSE ix
        /\ fts'[u] = IF u \in schema.fts THEN FollowText(d, r, old, new) ELSE d
    BY <1>4 DEF Write, TypeOK
  <2>4. Exact(ix, d.docs, rows, stale)
    BY <1>1
  <2>5. u \in schema.fts => Counted(d, rows, stale)
    BY <1>1
  <2>6. /\ u \notin schema.indexed => \A v \in Val : ix[v] = {}
        /\ u \notin schema.fts => \A w \in Token : d.docs[w] = {}
    BY <1>1
  <2> DEFINE ix2 == FollowValue(ix, r, old, new)
             d2 == FollowText(d, r, old, new)
  <2> HIDE DEF ix, d, rows, rows2, stale, stale2
  <2>7. Exact(ix2, d2.docs, rows2, stale2)
    BY <1>2, <2>1, <2>2, <2>4, FollowExact
  <2>8. u \in schema.fts => Counted(d2, rows2, stale2)
    BY <1>2, <2>1, <2>2, <2>5, FollowCounts
  <2> HIDE DEF ix2, d2
  <2>9. Exact(index'[u], fts'[u].docs, rows2, stale2)
    BY <2>3, <2>6, <2>7 DEF Exact, ix2, d2
  <2>10. u \in schema.fts => Counted(fts'[u], rows2, stale2)
    BY <2>3, <2>8 DEF d2
  <2> QED
    BY <2>3, <2>6, <2>9, <2>10 DEF rows2, stale2
<1> QED
  BY <1>3, <1>4

\* Only a row that is written and an entry that is undone change the tables.
LEMMA WhoWrites ==
  ASSUME [Next]_vars
  PROVE  WriteRow \/ UndoStep \/ UNCHANGED <<schema, tableVars, overwritten>>
<1>1. \A f : TakeRow(f) => UNCHANGED <<tableVars, overwritten>>
  BY DEF TakeRow, Fail
<1>2. InsertRow => UNCHANGED <<schema, tableVars, overwritten>>
  BY <1>1 DEF InsertRow
<1>3. \A r \in RowId : ChangeRow(r) => UNCHANGED <<schema, tableVars, overwritten>>
  BY <1>1 DEF ChangeRow
<1>4. Call => UNCHANGED <<schema, tableVars, overwritten>>
  BY DEF Call
<1> QED
  BY <1>2, <1>3, <1>4 DEF Next, vars, Execute, Begin, Commit, Rollback, FireTrigger,
                          RunBody, RowDone, Return, UndoDone

\* What the indexes are told a row was is what it is, unless the row counts as
\* overwritten: undoing a DELETE tells them that it was gone, and it is.
LEMMA ExactNext == Inv /\ HeldInv /\ CopiesInv /\ ExactInv /\ [Next]_vars => ExactInv'
<1> SUFFICES ASSUME Inv, HeldInv, CopiesInv, ExactInv, [Next]_vars  PROVE ExactInv'
  OBVIOUS
<1>1. CASE UNCHANGED <<schema, tableVars, overwritten>>
  BY <1>1 DEF ExactInv, tableVars
<1>2. CASE WriteRow
  <2> DEFINE e == [op |-> Top.op, table |-> Top.table, rowid |-> Top.rowid, old |-> Top.old]
  <2>1. /\ e \in Entry /\ Top.new \in Row /\ Write(e.table, e.rowid, e.old, Top.new)
        /\ overwritten \subseteq overwritten'
        /\ <<e.table, e.rowid>> \notin overwritten' => e.old = store[e.table][e.rowid]
    BY <1>2, WriteFacts
  <2>2. schema' = schema
    BY <1>2 DEF WriteRow
  <2> HIDE DEF e
  <2>3. e.table \in Table /\ e.rowid \in RowId /\ e.old \in Row
    BY <2>1 DEF Entry
  <2> QED
    BY <2>1, <2>2, <2>3, WriteExact DEF Inv
<1>3. CASE UndoStep
  <2> DEFINE e == Last(journal)
             now == IF e.op = "Delete" THEN NoRow ELSE store[e.table][e.rowid]
  <2>1. /\ e.table \in Table /\ e.rowid \in RowId /\ e.old \in Row /\ now \in Row
        /\ Write(e.table, e.rowid, now, e.old)
    BY <1>3, UndoWrites
  <2>2. schema' = schema /\ overwritten' = overwritten /\ journal # <<>>
    BY <1>3 DEF UndoStep
  <2>3. e = journal[Len(journal)] /\ Len(journal) \in Nat \ {0}
    BY <2>2, LastFront DEF Inv, TypeOK
  <2>4. <<e.table, e.rowid>> \notin overwritten' => now = store[e.table][e.rowid]
    BY <2>2, <2>3 DEF CopiesInv, DeletedLast
  <2> HIDE DEF e, now
  <2> QED
    BY <2>1, <2>2, <2>4, WriteExact DEF Inv
<1> QED
  BY <1>1, <1>2, <1>3, WhoWrites

\* sync_index_change, sync_index and their full-text counterparts keep an index
\* exact, in a statement, in a trigger and in a rollback, as long as no UPDATE or
\* DELETE writes a row from a copy that a trigger had made out of date.
THEOREM NothingStale == Spec => []NothingStaleUnlessOverwritten
<1>1. Init => ExactInv
  <2> SUFFICES ASSUME Init  PROVE ExactInv
    OBVIOUS
  <2>1. /\ \A t \in Table : \A v \in Val : index[t][v] = {}
        /\ \A t \in Table : \A w \in Token : fts[t].docs[w] = {}
        /\ \A t \in Table : fts[t].total = 0
        /\ \A t \in Table : \A r \in RowId : store[t][r] = NoRow
    BY DEF Init, NoRows
  <2>2. \A t \in Table : Cardinality(Texts(store[t])) = 0
    <3>1. \A t \in Table : Texts(store[t]) = {}
      BY <2>1 DEF Texts, IsText
    <3> QED
      BY <3>1, FS_EmptySet
  <2> QED
    BY <2>1, <2>2 DEF ExactInv, Exact, Counted
<1>2. ExactInv => NothingStaleUnlessOverwritten
  <2> SUFFICES ASSUME ExactInv, NEW t \in Table
               PROVE  /\ \A v \in Val : \A r \in index[t][v] :
                             store[t][r] = v \/ <<t, r>> \in overwritten
                      /\ \A w \in Token : \A r \in fts[t].docs[w] :
                             \/ <<t, r>> \in overwritten
                             \/ store[t][r] # NoRow /\ w \in Tokens[store[t][r]]
                      /\ t \in schema.fts /\ (\A r \in RowId : <<t, r>> \notin overwritten) =>
                             fts[t].total = Cardinality(TextsOf(t))
    BY DEF NothingStaleUnlessOverwritten
  <2>1. /\ Exact(index[t], fts[t].docs, store[t], StaleRows(overwritten, t))
        /\ t \in schema.fts => Counted(fts[t], store[t], StaleRows(overwritten, t))
    BY DEF ExactInv
  <2>2. Texts(store[t]) = TextsOf(t)
    BY DEF Texts, TextsOf
  <2> QED
    BY <2>1, <2>2 DEF Exact, Counted, StaleRows
<1> QED
  BY <1>1, <1>2, ExactNext, CopiesStayApart, Invariance, FramesHeld, PTL DEF Spec

-----------------------------------------------------------------------------
(* What a trigger's statements lead to *)

\* ClosedUnderTriggers for the catalog c.
Closed(c, tables) ==
    \A t \in tables : Writes({c.triggers[t][i] : i \in DOMAIN c.triggers[t]}) \subseteq tables

\* What runs above a frame stays within tables that are closed under triggers
\* and contain what the triggers write that the frame now goes through.
Within(c, st, tables) ==
    \A i, k \in 1 .. Len(st) :
        i < k /\ Writes(FiringTriggers(c, st[i])) \subseteq tables => st[k].table \in tables

AboveInv == \A tables \in SUBSET Table : Closed(schema, tables) => Within(schema, stack, tables)

\* The triggers a frame goes through are its table's.
LEMMA FiringWrites ==
  ASSUME NEW c, NEW f, NEW tables, Closed(c, tables), f.table \in tables
  PROVE  Writes(FiringTriggers(c, f)) \subseteq tables
BY DEF Closed, FiringTriggers, Writes

\* A statement of a body starts on a table the triggers of the running frame
\* write, and the frame that fired it waits.
LEMMA BodyPushes ==
  ASSUME Inv, HeldInv, RunBody
  PROVE  \E g, h \in Frame :
             /\ stack # <<>> /\ stack' = Append(Append(Front(stack), g), h)
             /\ g.op = Top.op /\ g.table = Top.table /\ g.phase = Top.phase
             /\ g.rowid = Top.rowid /\ g.new = Top.new
             /\ h.phase = "next" /\ h.table \in Writes(FiringTriggers(schema, Top))
<1> DEFINE f == Top
           g == [f EXCEPT !.body = Tail(@)]
           s == Head(f.body)
           h == NewFrame(s)
<1>1. /\ stack # <<>> /\ f.body # <<>>
      /\ stack' = Append(Append(Front(stack), g), h)
  BY DEF RunBody
<1>2. f \in Frame /\ CallsOK(schema, f)
  BY <1>1, TopFacts, TopHeld
<1>3. /\ g \in Frame /\ s \in Stmt
      /\ g.op = f.op /\ g.table = f.table /\ g.phase = f.phase
      /\ g.rowid = f.rowid /\ g.new = f.new
  BY <1>1, <1>2, BodyFrame
<1>4. h \in Frame /\ h.phase = "next" /\ h.table = s.table
  BY <1>3, NewFrameFacts DEF Inv, TypeOK
<1>5. s = f.body[1] /\ 1 \in 1 .. Len(f.body)
  <2>1. f.body \in Seq(Stmt)
    BY <1>2, FrameFields
  <2> QED
    BY <1>1, <2>1, TailFacts
<1>6. h.table \in Writes(FiringTriggers(schema, f))
  BY <1>2, <1>4, <1>5 DEF CallsOK
<1> HIDE DEF g, h, s
<1> QED
  BY <1>1, <1>3, <1>4, <1>6

\* The running frame goes on with its table.
LEMMA WithinContinue ==
  ASSUME Inv, stack # <<>>, NEW g \in Frame, Continue(g), g.table = Top.table,
         NEW tables, Within(schema, stack, tables)
  PROVE  Within(schema, stack', tables)
<1> DEFINE n == Len(stack)
           f == Top
<1>1. f = stack[n] /\ n \in Nat \ {0} /\ g.table = f.table
  BY LastFront DEF Inv, TypeOK, Top
<1>2. /\ Len(stack') = n /\ stack'[n] = g
      /\ \A i \in 1 .. n - 1 : stack'[i] = stack[i]
  BY Replaced DEF Inv, TypeOK
<1>3. \A i, k \in 1 .. n :
          i < k /\ Writes(FiringTriggers(schema, stack[i])) \subseteq tables
              => stack[k].table \in tables
  BY DEF Within
<1> HIDE DEF n, f
<1>4. ASSUME NEW i \in 1 .. n, NEW k \in 1 .. n, i < k,
             Writes(FiringTriggers(schema, stack'[i])) \subseteq tables
      PROVE  stack'[k].table \in tables
  <2>1. stack'[i] = stack[i]
    BY <1>1, <1>2, <1>4
  <2>2. stack[k].table \in tables
    BY <1>3, <1>4, <2>1
  <2>3. k = n \/ k \in 1 .. n - 1
    BY <1>1
  <2> QED
    BY <1>1, <1>2, <2>2, <2>3
<1> QED
  BY <1>2, <1>4 DEF Within

\* A statement of a body is within what its frame's triggers write, and so within
\* whatever the frames below lead to.
LEMMA WithinBody ==
  ASSUME Inv, HeldInv, RunBody, NEW tables \in SUBSET Table, Closed(schema, tables),
         Within(schema, stack, tables)
  PROVE  Within(schema, stack', tables)
<1> DEFINE n == Len(stack)
           f == Top
<1>1. PICK g \in Frame, h \in Frame :
          /\ stack # <<>> /\ stack' = Append(Append(Front(stack), g), h)
          /\ g.op = f.op /\ g.table = f.table /\ g.phase = f.phase
          /\ h.table \in Writes(FiringTriggers(schema, f))
  BY BodyPushes
<1>2. f = stack[n] /\ n \in Nat \ {0}
  BY <1>1, LastFront DEF Inv, TypeOK, Top
<1>3. /\ Len(stack') = n + 1 /\ stack'[n] = g /\ stack'[n + 1] = h
      /\ \A i \in 1 .. n - 1 : stack'[i] = stack[i]
  BY <1>1, Pushed DEF Inv, TypeOK
<1>4. \A i, k \in 1 .. n :
          i < k /\ Writes(FiringTriggers(schema, stack[i])) \subseteq tables
              => stack[k].table \in tables
  BY DEF Within
<1> HIDE DEF n, f
<1>5. FiringTriggers(schema, g) = FiringTriggers(schema, f)
  BY <1>1, FiringSame
<1>6. f.table \in tables => h.table \in tables
  BY <1>1, FiringWrites
<1>7. ASSUME NEW i \in 1 .. n + 1, NEW k \in 1 .. n + 1, i < k,
             Writes(FiringTriggers(schema, stack'[i])) \subseteq tables
      PROVE  stack'[k].table \in tables
  <2>1. CASE i = n
    <3>1. k = n + 1
      BY <1>2, <1>7, <2>1
    <3> QED
      BY <1>1, <1>3, <1>5, <1>7, <2>1, <3>1
  <2>2. CASE i # n
    <3>1. i \in 1 .. n - 1 /\ i \in 1 .. n /\ i < n /\ n \in 1 .. n
      BY <1>2, <1>7, <2>2
    <3>2. stack'[i] = stack[i]
      BY <1>3, <3>1
    <3>3. f.table \in tables
      BY <1>2, <1>4, <1>7, <3>1, <3>2
    <3>4. k = n + 1 \/ k = n \/ (k \in 1 .. n - 1 /\ k \in 1 .. n)
      BY <1>2
    <3>5. k \in 1 .. n - 1 => stack'[k].table \in tables
      BY <1>3, <1>4, <1>7, <3>2, <3>1, <3>4
    <3> QED
      BY <1>1, <1>3, <1>6, <3>3, <3>4, <3>5
  <2> QED
    BY <2>1, <2>2
<1> QED
  BY <1>3, <1>7 DEF Within

\* No statement changes the catalog.
LEMMA SchemaStays ==
  ASSUME [Next]_vars
  PROVE  schema' = schema
<1>1. Call => schema' = schema
  BY DEF Call
<1> QED
  BY <1>1 DEF Next, vars, Execute, Begin, Commit, Rollback, InsertRow, ChangeRow, FireTrigger,
              RunBody, WriteRow, RowDone, Return, UndoStep, UndoDone

\* What a row's write does to the stack.
LEMMA WriteContinues ==
  ASSUME Inv, WriteRow
  PROVE  \E g \in Frame : /\ stack # <<>> /\ Continue(g) /\ g.op = Top.op
                          /\ g.table = Top.table /\ g.phase = "After"
<1> DEFINE g == Enter(Top, "After")
<1>1. stack # <<>> /\ Continue(g)
  BY DEF WriteRow
<1>2. g \in Frame /\ g.op = Top.op /\ g.table = Top.table /\ g.phase = "After"
  BY <1>1, TopFacts, EnterFrame
<1> HIDE DEF g
<1> QED
  BY <1>1, <1>2

\* Cascades stay where the triggers lead, in every state.
LEMMA AboveNext == Inv /\ HeldInv /\ AboveInv /\ [Next]_vars => AboveInv'
<1> SUFFICES ASSUME Inv, HeldInv, AboveInv, [Next]_vars,
                    NEW tables \in SUBSET Table, Closed(schema, tables)
             PROVE  Within(schema, stack', tables)
  BY SchemaStays DEF AboveInv
<1>0. Within(schema, stack, tables)
  BY DEF AboveInv
<1>1. ASSUME NEW s \in Inserts \union Updates \union Deletes, Execute(s)
      PROVE  Within(schema, stack', tables)
  <2>1. Len(stack') = 1
    BY <1>1, StackStarts
  <2> QED
    BY <2>1 DEF Within
<1>2. CASE Begin \/ Commit \/ Rollback \/ UndoDone \/ UndoStep \/ Fail
  <2>1. stack' = <<>>
    BY <1>2 DEF Begin, Commit, Rollback, Call, Idle, UndoDone, UndoStep, Fail, Inv, TxOK
  <2> QED
    BY <2>1, EmptySeq DEF Within
<1>3. ASSUME NEW h \in Frame, Takes(h)  PROVE Within(schema, stack', tables)
  BY <1>0, <1>3, WithinContinue DEF Takes
<1>4. CASE InsertRow
  BY <1>2, <1>3, <1>4, InsertTakes
<1>5. ASSUME NEW r \in RowId, ChangeRow(r)  PROVE Within(schema, stack', tables)
  BY <1>2, <1>3, <1>5, ChangeTakes
<1>6. CASE FireTrigger \/ RowDone
  <2>1. PICK g \in Frame : Continue(g) /\ g.table = Top.table
    BY <1>6, ContinuesAs
  <2>2. stack # <<>>
    BY <1>6 DEF FireTrigger, RowDone
  <2> QED
    BY <1>0, <2>1, <2>2, WithinContinue
<1>7. CASE RunBody
  BY <1>0, <1>7, WithinBody
<1>8. CASE WriteRow
  BY <1>0, <1>8, WriteContinues, WithinContinue
<1>9. CASE Return
  <2> DEFINE n == Len(stack)
  <2>1. stack # <<>> /\ stack' = Front(stack)
    BY <1>9 DEF Return
  <2>2. n \in Nat \ {0} /\ Len(stack') = n - 1 /\ \A i \in 1 .. n - 1 : stack'[i] = stack[i]
    BY <2>1, Popped DEF Inv, TypeOK
  <2>3. \A i, k \in 1 .. n :
            i < k /\ Writes(FiringTriggers(schema, stack[i])) \subseteq tables
                => stack[k].table \in tables
    BY <1>0 DEF Within
  <2> HIDE DEF n
  <2>4. \A i \in 1 .. n - 1 : i \in 1 .. n
    BY <2>2
  <2>5. \A i, k \in 1 .. n - 1 :
            i < k /\ Writes(FiringTriggers(schema, stack'[i])) \subseteq tables
                => stack'[k].table \in tables
    BY <2>2, <2>3, <2>4
  <2> QED
    BY <2>2, <2>5 DEF Within
<1>10. CASE UNCHANGED vars
  BY <1>0, <1>10 DEF vars
<1> QED
  BY <1>1, <1>2, <1>4, <1>5, <1>6, <1>7, <1>8, <1>9, <1>10 DEF Next

\* Whatever fires, a cascade stays within the tables its triggers lead to.
THEOREM CascadesStayWithin == Spec => []AboveInv
<1>1. Init => AboveInv
  BY EmptySeq DEF Init, AboveInv, Within
<1> QED
  BY <1>1, AboveNext, Invariance, FramesHeld, PTL DEF Spec

\* While a row of such a table waits for its BEFORE triggers, nothing that runs
\* above it is a statement on the table.
LEMMA NobodyAbove ==
  ASSUME Inv, AboveInv, stack # <<>>, NEW t \in Table, ~BeforeTriggersReach(t),
         NEW i \in 1 .. Len(stack) - 1, stack[i].table = t, stack[i].phase = "Before",
         stack[i].op # "Delete"
  PROVE  Top.table # t
<1>1. PICK tables \in SUBSET Table :
          Writes(BeforeTriggers(t)) \subseteq tables /\ ClosedUnderTriggers(tables)
          /\ t \notin tables
  BY DEF BeforeTriggersReach
<1>2. Closed(schema, tables)
  BY <1>1 DEF Closed, ClosedUnderTriggers, TriggersOf
<1>3. FiringTriggers(schema, stack[i]) \subseteq BeforeTriggers(t)
  BY DEF FiringTriggers, BeforeTriggers, TriggersOf
<1>4. Writes(FiringTriggers(schema, stack[i])) \subseteq tables
  BY <1>1, <1>3 DEF Writes
<1>5. Top = stack[Len(stack)] /\ Len(stack) \in Nat \ {0}
  BY LastFront DEF Inv, TypeOK, Top
<1>6. Top.table \in tables
  BY <1>2, <1>4, <1>5 DEF AboveInv, Within
<1> QED
  BY <1>1, <1>6

-----------------------------------------------------------------------------
(* UNIQUE *)

NoDuplicates(rows) ==
    \A r, s \in RowId : r # s /\ rows[r] = rows[s] => rows[r] \in {Null, NoRow}

\* What frame f is about to write to t is still valid.
StillValid(f, t, rows) ==
    f.table = t /\ f.phase = "Before" /\ f.op # "Delete" /\ f.new # Null =>
        \A s \in RowId : s # f.rowid => rows[s] # f.new

\* A table has no duplicates, had none when the transaction began, and gets none
\* by what is about to be written.
UniqueOf(t, s, b, undo, st) ==
    /\ NoDuplicates(b[t])
    /\ ~undo => NoDuplicates(s[t])
    /\ \A i \in 1 .. Len(st) : StillValid(st[i], t, s[t])

UniqueInv ==
    \A t \in schema.unique :
        ~BeforeTriggersReach(t) => UniqueOf(t, store, base, undoing, stack)

\* Validation finds a row with the value, in the index or in the table.
LEMMA ValidatedIsFree ==
  ASSUME Inv, LookupsFindEveryRow, NEW t \in schema.unique, NEW v \in Val, NEW r \in RowId,
         Validates(t, v, r), v # Null
  PROVE  \A s \in RowId : s # r => store[t][s] # v
<1>1. ~ValueExistsElsewhere(t, v, r) /\ t \in Table
  BY DEF Validates, Inv, TypeOK, Schema
<1>2. v # NoRow
  BY StatementsAssumption
<1> SUFFICES ASSUME NEW s \in RowId, s # r, store[t][s] = v  PROVE FALSE
  OBVIOUS
<1>3. t \in schema.indexed => s \in index[t][v]
  BY <1>1, <1>2 DEF LookupsFindEveryRow
<1> QED
  BY <1>1, <1>3 DEF ValueExistsElsewhere

\* The running frame goes on, and nothing is written.
LEMMA ValidContinue ==
  ASSUME Inv, stack # <<>>, NEW g \in Frame, Continue(g), NEW t, NEW rows,
         \A i \in 1 .. Len(stack) - 1 : StillValid(stack[i], t, rows),
         StillValid(g, t, rows)
  PROVE  \A i \in 1 .. Len(stack') : StillValid(stack'[i], t, rows)
<1> DEFINE n == Len(stack)
<1>1. /\ n \in Nat \ {0} /\ Len(stack') = n /\ stack'[n] = g
      /\ \A i \in 1 .. n - 1 : stack'[i] = stack[i]
  BY Replaced DEF Inv, TypeOK
<1>2. \A i \in 1 .. n : i = n \/ i \in 1 .. n - 1
  BY <1>1
<1>3. \A i \in 1 .. n - 1 : StillValid(stack[i], t, rows)
  OBVIOUS
<1> HIDE DEF n
<1> QED
  BY <1>1, <1>2, <1>3

\* One row becomes a value no other row has, or one that may repeat.
LEMMA StillNoDuplicates ==
  ASSUME NEW rows, NEW rows2, NEW r \in RowId, NoDuplicates(rows),
         \A q \in RowId : q # r => rows2[q] = rows[q],
         \/ rows2[r] \in {Null, NoRow}
         \/ \A q \in RowId : q # r => rows[q] # rows2[r]
  PROVE  NoDuplicates(rows2)
<1> SUFFICES ASSUME NEW p \in RowId, NEW q \in RowId, p # q, rows2[p] = rows2[q],
                    rows2[p] \notin {Null, NoRow}
             PROVE  FALSE
  BY DEF NoDuplicates
<1>1. CASE p # r /\ q # r
  BY <1>1 DEF NoDuplicates
<1>2. CASE p = r
  BY <1>2
<1>3. CASE q = r
  BY <1>3
<1> QED
  BY <1>1, <1>2, <1>3

\* A row is written: it was valid when it was taken up, and nobody has written
\* its table since.
LEMMA UniqueWrite ==
  ASSUME Inv, HeldInv, AboveInv, WriteRow, NEW t \in Table, ~BeforeTriggersReach(t),
         UniqueOf(t, store, base, undoing, stack)
  PROVE  UniqueOf(t, store', base', undoing', stack')
<1> DEFINE n == Len(stack)
           f == Top
           e == [op |-> f.op, table |-> f.table, rowid |-> f.rowid, old |-> f.old]
<1>1. /\ f.phase = "Before" /\ base' = base /\ undoing' = undoing
      /\ f \in Frame /\ f = stack[n] /\ n \in Nat \ {0}
      /\ stack # <<>> /\ ~undoing
  BY WriteContinues, TopFacts, LastFront DEF WriteRow, Top, Inv, TypeOK
<1>2. /\ f.table \in Table /\ f.rowid \in RowId /\ f.old \in Row /\ f.new \in Row
      /\ Write(f.table, f.rowid, f.old, f.new)
      /\ f.op = "Delete" => f.new = NoRow
  <2>1. /\ f.table \in Table /\ f.rowid \in RowId /\ f.old \in Row
        /\ f.new \in Row
        /\ Write(e.table, e.rowid, e.old, f.new)
        /\ e.table = f.table /\ e.rowid = f.rowid /\ e.old = f.old /\ e.op = f.op
        /\ e.op = "Delete" => f.new = NoRow
    BY WriteFacts
  <2> HIDE DEF e
  <2> QED
    BY <2>1
<1> HIDE DEF f
<1>3. /\ store'[f.table][f.rowid] = f.new
      /\ \A u \in Table, q \in RowId :
             <<u, q>> # <<f.table, f.rowid>> => store'[u][q] = store[u][q]
  BY <1>2, WriteStore DEF Inv
<1>4. /\ NoDuplicates(base[t]) /\ NoDuplicates(store[t])
      /\ \A i \in 1 .. n : StillValid(stack[i], t, store[t])
  BY <1>1 DEF UniqueOf
<1>5. PICK g \in Frame : Continue(g) /\ g.phase = "After"
  BY WriteContinues
<1>6. CASE f.table = t
  <2>1. /\ \A q \in RowId : q # f.rowid => store'[t][q] = store[t][q]
        /\ store'[t][f.rowid] = f.new
    BY <1>3, <1>6
  <2>2. StillValid(f, t, store[t])
    BY <1>1, <1>4
  <2>3. \/ f.new \in {Null, NoRow}
        \/ \A q \in RowId : q # f.rowid => store[t][q] # f.new
    BY <1>1, <1>2, <1>6, <2>2 DEF StillValid
  <2>4. NoDuplicates(store'[t])
    <3> DEFINE rows == store[t]
               rows2 == store'[t]
               r == f.rowid
    <3>1. /\ r \in RowId /\ NoDuplicates(rows)
          /\ \A q \in RowId : q # r => rows2[q] = rows[q]
      BY <1>2, <1>4, <2>1
    <3>2. \/ rows2[r] \in {Null, NoRow}
          \/ \A q \in RowId : q # r => rows[q] # rows2[r]
      BY <2>1, <2>3
    <3> HIDE DEF rows, rows2, r
    <3>3. NoDuplicates(rows2)
      BY <3>1, <3>2, StillNoDuplicates
    <3> QED
      BY <3>3 DEF rows2
  <2>5. \A i \in 1 .. n - 1 : StillValid(stack[i], t, store'[t])
    BY <1>1, <1>6, NobodyAbove DEF StillValid, n, f
  <2>6. StillValid(g, t, store'[t])
    BY <1>5 DEF StillValid
  <2>7. \A i \in 1 .. Len(stack') : StillValid(stack'[i], t, store'[t])
    BY <1>1, <1>5, <2>5, <2>6, ValidContinue DEF n
  <2> QED
    BY <1>1, <1>4, <2>4, <2>7 DEF UniqueOf
<1>7. CASE f.table # t
  <2>1. \A q \in RowId : store'[t][q] = store[t][q]
    BY <1>3, <1>7
  <2>2. NoDuplicates(store'[t])
    BY <1>4, <2>1 DEF NoDuplicates
  <2>3. \A i \in 1 .. n - 1 : StillValid(stack[i], t, store'[t])
    <3>1. \A i \in 1 .. n - 1 : i \in 1 .. n
      BY <1>1
    <3> QED
      BY <1>4, <2>1, <3>1 DEF StillValid
  <2>4. StillValid(g, t, store'[t])
    BY <1>5 DEF StillValid
  <2>5. \A i \in 1 .. Len(stack') : StillValid(stack'[i], t, store'[t])
    BY <1>1, <1>5, <2>3, <2>4, ValidContinue DEF n
  <2> QED
    BY <1>1, <1>4, <2>2, <2>5 DEF UniqueOf
<1> QED
  BY <1>6, <1>7

\* A row is taken up, and is valid as of now.
LEMMA UniqueTakes ==
  ASSUME Inv, LookupsFindEveryRow, NEW h \in Frame, Takes(h), UNCHANGED <<tableVars, txnVars>>,
         NEW t \in schema.unique, UniqueOf(t, store, base, undoing, stack)
  PROVE  UniqueOf(t, store', base', undoing', stack')
<1>1. store' = store /\ base' = base /\ undoing' = undoing /\ stack # <<>> /\ Continue(h)
  BY DEF tableVars, txnVars, Takes
<1>2. Len(stack) \in Nat \ {0}
  BY <1>1, LastFront DEF Inv, TypeOK
<1>3. \A i \in 1 .. Len(stack) - 1 : StillValid(stack[i], t, store[t])
  <2>1. \A i \in 1 .. Len(stack) - 1 : i \in 1 .. Len(stack)
    BY <1>2
  <2> QED
    BY <2>1 DEF UniqueOf
<1>4. StillValid(h, t, store[t])
  <2> SUFFICES ASSUME h.table = t, h.op # "Delete", h.new # Null
               PROVE  \A s \in RowId : s # h.rowid => store[t][s] # h.new
    BY DEF StillValid
  <2>1. h.new \in Val /\ Validates(t, h.new, h.rowid) /\ h.rowid \in RowId
    BY DEF Takes
  <2> QED
    BY <2>1, ValidatedIsFree
<1>5. \A i \in 1 .. Len(stack') : StillValid(stack'[i], t, store[t])
  BY <1>1, <1>3, <1>4, ValidContinue
<1> QED
  BY <1>1, <1>5 DEF UniqueOf

\* A statement of a body starts.
LEMMA UniqueBody ==
  ASSUME Inv, HeldInv, RunBody, NEW t, UniqueOf(t, store, base, undoing, stack)
  PROVE  UniqueOf(t, store', base', undoing', stack')
<1> DEFINE n == Len(stack)
           f == Top
           rows == store[t]
<1>1. PICK g \in Frame, h \in Frame :
          /\ stack # <<>> /\ stack' = Append(Append(Front(stack), g), h)
          /\ g.op = f.op /\ g.table = f.table /\ g.phase = f.phase
          /\ g.rowid = f.rowid /\ g.new = f.new /\ h.phase = "next"
  BY BodyPushes
<1>2. f = stack[n] /\ n \in Nat \ {0}
  BY <1>1, LastFront DEF Inv, TypeOK, Top
<1>3. /\ Len(stack') = n + 1 /\ stack'[n] = g /\ stack'[n + 1] = h
      /\ \A i \in 1 .. n - 1 : stack'[i] = stack[i]
  BY <1>1, Pushed DEF Inv, TypeOK
<1>4. /\ store' = store /\ base' = base /\ undoing' = undoing
      /\ \A i \in 1 .. n : StillValid(stack[i], t, rows)
  BY DEF RunBody, tableVars, txnVars, UniqueOf
<1> HIDE DEF n, f, rows
<1>5. StillValid(g, t, rows) /\ StillValid(h, t, rows)
  <2>1. StillValid(f, t, rows)
    BY <1>2, <1>4
  <2> QED
    BY <1>1, <2>1 DEF StillValid
<1>6. \A i \in 1 .. n + 1 : i = n + 1 \/ i = n \/ (i \in 1 .. n - 1 /\ i \in 1 .. n)
  BY <1>2
<1>7. \A i \in 1 .. Len(stack') : StillValid(stack'[i], t, rows)
  BY <1>3, <1>4, <1>5, <1>6
<1> QED
  BY <1>4, <1>7 DEF UniqueOf, rows

\* A table of NoRow has no duplicates.
LEMMA EmptyUnique ==
  ASSUME NEW t \in Table
  PROVE  NoDuplicates([u \in Table |-> NoRows][t])
BY DEF NoDuplicates, NoRows

\* The transaction a client begins, and what it leaves behind.
LEMMA UniqueClient ==
  ASSUME Inv, NEW t \in Table, UniqueOf(t, store, base, undoing, stack), CascadeUndone,
         Begin \/ Commit \/ Rollback \/ UndoDone \/ UndoStep \/ (Fail /\ ~undoing)
  PROVE  (store' = store \/ undoing') /\ UniqueOf(t, store', base', undoing', stack')
<1>1. stack' = <<>>
  BY DEF Begin, Commit, Rollback, Call, Idle, UndoDone, UndoStep, Fail, Inv, TxOK
<1>2. NoDuplicates(base[t]) /\ (~undoing => NoDuplicates(store[t]))
  BY DEF UniqueOf
<1>3. NoDuplicates([u \in Table |-> NoRows][t])
  BY EmptyUnique
<1>4. /\ store' = store \/ undoing'
      /\ NoDuplicates(base'[t]) /\ (~undoing' => NoDuplicates(store'[t]))
  <2>1. CASE Begin
    BY <1>2, <2>1 DEF Begin, Call, Idle, StartTransaction, tableVars
  <2>2. CASE Commit
    BY <1>2, <1>3, <2>2 DEF Commit, Call, Idle, EndTransaction, tableVars
  <2>3. CASE Rollback
    BY <1>2, <2>3 DEF Rollback, Call, tableVars
  <2>4. CASE UndoDone
    <3>1. store = base
      BY <2>4 DEF UndoDone, CascadeUndone
    <3> QED
      BY <1>2, <1>3, <2>4, <3>1 DEF UndoDone, EndTransaction, tableVars
  <2>5. CASE UndoStep
    BY <1>2, <2>5 DEF UndoStep
  <2>6. CASE Fail /\ ~undoing
    BY <1>2, <2>6 DEF Fail, tableVars
  <2> QED
    BY <2>1, <2>2, <2>3, <2>4, <2>5, <2>6
<1> QED
  BY <1>1, <1>4, EmptySeq DEF UniqueOf

\* UNIQUE holds from one step to the next.
LEMMA UniqueNext ==
  Inv /\ HeldInv /\ AboveInv /\ LookupsFindEveryRow /\ CascadeUndone /\ UniqueInv /\ [Next]_vars
      => UniqueInv'
<1> SUFFICES ASSUME Inv, HeldInv, AboveInv, LookupsFindEveryRow, CascadeUndone, UniqueInv,
                    [Next]_vars
             PROVE  UniqueInv'
  OBVIOUS
<1>0. schema' = schema
  BY SchemaStays
<1> SUFFICES ASSUME NEW t \in schema.unique, ~BeforeTriggersReach(t)
             PROVE  UniqueOf(t, store', base', undoing', stack')
  <2>1. \A t : BeforeTriggersReach(t)' <=> BeforeTriggersReach(t)
    <3>1. \A t : BeforeTriggers(t)' = BeforeTriggers(t)
      BY <1>0 DEF BeforeTriggers, TriggersOf
    <3>2. \A tables : ClosedUnderTriggers(tables)' <=> ClosedUnderTriggers(tables)
      BY <1>0 DEF ClosedUnderTriggers, TriggersOf
    <3> QED
      BY <3>1, <3>2 DEF BeforeTriggersReach
  <2> QED
    BY <1>0, <2>1 DEF UniqueInv
<1>1. UniqueOf(t, store, base, undoing, stack) /\ t \in Table
  BY DEF UniqueInv, Inv, TypeOK, Schema
<1>2. ASSUME NEW s \in Inserts \union Updates \union Deletes, Execute(s)
      PROVE  UniqueOf(t, store', base', undoing', stack')
  <2>1. Len(stack') = 1 /\ stack'[1] = NewFrame(s) /\ s \in Stmt
    BY <1>2, StackStarts
  <2>2. NewFrame(s).phase = "next"
    BY <2>1, NewFrameFacts DEF Inv, TypeOK
  <2>3. ~undoing /\ undoing' = undoing /\ store' = store /\ (base' = base \/ base' = store)
    BY <1>2 DEF Execute, Call, Idle, StartTransaction, tableVars
  <2> QED
    BY <1>1, <2>1, <2>2, <2>3 DEF UniqueOf, StillValid
<1>3. CASE Begin \/ Commit \/ Rollback \/ UndoDone \/ UndoStep \/ (Fail /\ ~undoing)
  BY <1>1, <1>3, UniqueClient
<1>4. ASSUME NEW h \in Frame, Takes(h), UNCHANGED <<tableVars, txnVars>>
      PROVE  UniqueOf(t, store', base', undoing', stack')
  BY <1>1, <1>4, UniqueTakes
<1>5. CASE InsertRow
  <2>1. ~undoing
    BY <1>5, TopFacts DEF InsertRow
  <2> QED
    BY <1>3, <1>4, <1>5, <2>1, InsertTakes
<1>6. ASSUME NEW r \in RowId, ChangeRow(r)
      PROVE  UniqueOf(t, store', base', undoing', stack')
  <2>1. ~undoing
    BY <1>6, TopFacts DEF ChangeRow
  <2> QED
    BY <1>3, <1>4, <1>6, <2>1, ChangeTakes
<1>7. CASE FireTrigger \/ RowDone
  <2>1. stack # <<>> /\ store' = store /\ base' = base /\ undoing' = undoing
    BY <1>7 DEF FireTrigger, RowDone, tableVars, txnVars
  <2>2. PICK g \in Frame : /\ Continue(g) /\ g.op = Top.op /\ g.table = Top.table
                           /\ g.phase = "Before" => /\ Top.phase = "Before"
                                                    /\ g.rowid = Top.rowid /\ g.new = Top.new
    BY <1>7, ContinuesAs
  <2> DEFINE n == Len(stack)
             f == Top
  <2>3. f = stack[n] /\ n \in Nat \ {0}
    BY <2>1, LastFront DEF Inv, TypeOK, Top
  <2>4. \A i \in 1 .. n : StillValid(stack[i], t, store[t])
    BY <1>1 DEF UniqueOf
  <2> HIDE DEF n, f
  <2>5. StillValid(f, t, store[t])
    BY <2>3, <2>4
  <2>6. StillValid(g, t, store[t])
    BY <2>2, <2>5 DEF StillValid, f
  <2>7. \A i \in 1 .. n - 1 : StillValid(stack[i], t, store[t])
    <3>1. \A i \in 1 .. n - 1 : i \in 1 .. n
      BY <2>3
    <3> QED
      BY <2>4, <3>1
  <2>8. \A i \in 1 .. Len(stack') : StillValid(stack'[i], t, store[t])
    BY <2>1, <2>2, <2>6, <2>7, ValidContinue DEF n
  <2> QED
    BY <1>1, <2>1, <2>8 DEF UniqueOf
<1>8. CASE RunBody
  BY <1>1, <1>8, UniqueBody
<1>9. CASE WriteRow
  BY <1>1, <1>9, UniqueWrite
<1>10. CASE Return
  <2> DEFINE n == Len(stack)
  <2>1. stack # <<>> /\ stack' = Front(stack) /\ store' = store /\ undoing' = undoing
    BY <1>10 DEF Return, tableVars
  <2>2. n \in Nat \ {0} /\ Len(stack') = n - 1 /\ \A i \in 1 .. n - 1 : stack'[i] = stack[i]
    BY <2>1, Popped DEF Inv, TypeOK
  <2>3. \A i \in 1 .. n : StillValid(stack[i], t, store[t])
    BY <1>1 DEF UniqueOf
  <2> HIDE DEF n
  <2>4. \A i \in 1 .. n - 1 : StillValid(stack'[i], t, store[t])
    <3>1. \A i \in 1 .. n - 1 : i \in 1 .. n
      BY <2>2
    <3> QED
      BY <2>2, <2>3, <3>1
  <2>5. NoDuplicates(base'[t])
    <3>1. NoDuplicates([u \in Table |-> NoRows][t])
      BY <1>1, EmptyUnique
    <3> QED
      BY <1>1, <1>10, <3>1 DEF Return, EndTransaction, UniqueOf
  <2> QED
    BY <1>1, <2>1, <2>2, <2>4, <2>5 DEF UniqueOf
<1>11. CASE UNCHANGED vars
  <2>1. store' = store /\ base' = base /\ undoing' = undoing /\ stack' = stack
    BY <1>11 DEF vars, tableVars, txnVars
  <2> QED
    BY <1>1, <2>1
<1> QED
  BY <1>2, <1>3, <1>5, <1>6, <1>7, <1>8, <1>9, <1>10, <1>11 DEF Next

\* constraint.rs checks UNIQUE before the BEFORE triggers of a row run, against an
\* index that lists rows that have gone and a table that triggers change under a
\* running UPDATE: still no two rows share a value, unless those triggers lead
\* back to the table.
THEOREM UniqueHolds == Spec => []UniqueUnlessBeforeTrigger
<1>1. Init => UniqueInv
  <2> SUFFICES ASSUME Init, NEW t \in schema.unique  PROVE UniqueOf(t, store, base, undoing, stack)
    BY DEF UniqueInv
  <2>1. t \in Table
    BY StatementsAssumption DEF Init, Schema
  <2>2. NoDuplicates([u \in Table |-> NoRows][t])
    BY <2>1, EmptyUnique
  <2> QED
    BY <2>2, EmptySeq DEF Init, UniqueOf
<1>2. UniqueInv => UniqueUnlessBeforeTrigger
  <2> SUFFICES ASSUME UniqueInv, ~undoing, NEW t \in schema.unique, ~BeforeTriggersReach(t)
               PROVE  \A r, s \in RowId : r # s /\ store[t][r] = store[t][s] =>
                          store[t][r] \in {Null, NoRow}
    BY DEF UniqueUnlessBeforeTrigger
  <2>1. NoDuplicates(store[t])
    BY DEF UniqueInv, UniqueOf
  <2> QED
    BY <2>1 DEF NoDuplicates
<1> QED
  BY <1>1, <1>2, UniqueNext, CascadesStayWithin, LookupsFind, CascadesAreUndone, Invariance,
     FramesHeld, PTL DEF Spec

-----------------------------------------------------------------------------
(* Cascades keep references: the invariant *)

\* Statement f is going to write row r of t, or is about to.
InHand(f, t, r) ==
    /\ f.table = t /\ f.op # "Insert"
    /\ f.todo[r] # NoRow \/ (f.phase = "Before" /\ f.rowid = r)

\* Statement s of a trigger's body is the one that cascades from the row in hand.
Cascading(s, f, fk) == s.table = fk.table /\ s.op = f.op /\ s.where = {f.old}

\* The trigger that cascades from the row in hand is still to fire, or its
\* statement still to run.
StillCascades(f, fk) ==
    \/ \E k \in 1 .. Len(f.triggers) : Fires(f.triggers[k], f) /\ HasCascade(f.triggers[k], fk)
    \/ \E k \in 1 .. Len(f.body) : Cascading(f.body[k], f, fk)

\* An UPDATE of the parent has taken v away from it and will take it from the children.
TakesAlong(f, v, fk) ==
    /\ f.table = fk.refTable /\ f.op = "Update" /\ f.phase = "After" /\ f.old = v
    /\ StillCascades(f, fk)

\* A DELETE is about to take its row away from the parent.
Removing(f, fk) ==
    f.table = fk.refTable /\ f.op = "Delete" /\ f.phase = "Before" /\ f.old # Null

\* A statement on the parent knows the rows it is going to write; one on the child
\* has validated the value in hand; and what triggers of the parent do to the child
\* is what was done to the parent.
FrameRefers(f, s, fk) ==
    /\ f.table = fk.refTable =>
           /\ \A r \in RowId : f.todo[r] # NoRow => s[fk.refTable][r] = f.todo[r]
           /\ f.phase = "Before" => /\ s[fk.refTable][f.rowid] = f.old
                                    /\ f.todo[f.rowid] = NoRow
           /\ \A k \in 1 .. Len(f.body) : f.body[k].table = fk.table => f.body[k].op = f.op
    /\ f.table = fk.table /\ f.phase = "Before" /\ f.op # "Delete" /\ f.new # Null =>
           \E q \in RowId : s[fk.refTable][q] = f.new

\* What runs above a DELETE on the parent deletes the children; when the trigger is
\* through, none is left but those in hand.
DeletesFirst(st, s, fk) ==
    /\ \A i, k \in 1 .. Len(st) :
           i < k /\ st[i].table = fk.refTable /\ st[i].op = "Delete" /\ st[k].table = fk.table
               => st[k].op = "Delete"
    /\ \A i \in 1 .. Len(st) : Removing(st[i], fk) =>
           \/ StillCascades(st[i], fk)
           \/ \A r \in RowId : s[fk.table][r] = st[i].old =>
                  \E k \in i + 1 .. Len(st) : InHand(st[k], fk.table, r)

FramesRefer(st, s, fk) ==
    /\ \A i \in 1 .. Len(st) : FrameRefers(st[i], s, fk)
    /\ DeletesFirst(st, s, fk)

\* Every child has its parent, or is in the hands of a statement, or its value is
\* one that an UPDATE of the parent will take along.
Refers(st, s, fk) ==
    \A r \in RowId :
        \/ s[fk.table][r] \in {Null, NoRow}
        \/ \E q \in RowId : s[fk.refTable][q] = s[fk.table][r]
        \/ \E i \in 1 .. Len(st) : \/ InHand(st[i], fk.table, r)
                                   \/ TakesAlong(st[i], s[fk.table][r], fk)

ReferencesInv ==
    /\ failed = "open" => tx # "none"
    /\ \A fk \in schema.references : Cascades(fk) =>
           /\ FramesRefer(stack, store, fk)
           /\ failed = "none" /\ ~undoing => Refers(stack, store, fk)
           /\ failed # "kept" /\ tx # "none" => Refers(<<>>, base, fk)

-----------------------------------------------------------------------------
(* Which statements run above which *)

\* Above a statement on the child runs none on either table; above one on the
\* parent none on the parent, and directly above it only one on the child.
FramesOrdered(st, fk) ==
    /\ \A i, k \in 1 .. Len(st) : i < k =>
           /\ st[i].table = fk.table => st[k].table \notin {fk.table, fk.refTable}
           /\ st[i].table = fk.refTable => st[k].table # fk.refTable
    /\ \A i, j, k \in 1 .. Len(st) :
           i < j /\ j < k /\ st[i].table = fk.refTable => st[k].table # fk.table

\* The tables of a reference.
LEMMA ReferenceTables ==
  ASSUME TypeOK, NEW fk \in schema.references, Cascades(fk)
  PROVE  fk.table \in Table /\ fk.refTable \in Table /\ fk.table # fk.refTable
BY DEF TypeOK, Schema, Cascades

\* The order of the frames is that of the triggers that cascade.
LEMMA Ordered ==
  ASSUME Inv, AboveInv, NEW fk \in schema.references, Cascades(fk)
  PROVE  FramesOrdered(stack, fk)
<1>1. /\ fk.table \in Table /\ fk.refTable \in Table /\ fk.table # fk.refTable
      /\ Len(stack) \in Nat
  BY ReferenceTables, LenProperties DEF Inv, TypeOK
<1>2. PICK tables \in SUBSET (Table \ {fk.table, fk.refTable}) :
          /\ ClosedUnderTriggers(tables) /\ Writes(TriggersOf(fk.table)) \subseteq tables
          /\ \A g \in TriggersOf(fk.refTable) : \A i \in DOMAIN g.body :
                 IsCascade(g, g.body[i], fk) \/ g.body[i].table \in tables
  BY DEF Cascades
<1> DEFINE more == tables \union {fk.table}
<1>3. Closed(schema, tables)
  BY <1>2 DEF Closed, ClosedUnderTriggers, TriggersOf
<1>4. Closed(schema, more)
  BY <1>2, <1>3 DEF Closed, TriggersOf
<1>5. \A f : f.table \in more => Writes(FiringTriggers(schema, f)) \subseteq tables
  <2>1. \A f : f.table \in more => Writes(TriggersOf(f.table)) \subseteq tables
    BY <1>2, <1>3 DEF Closed, TriggersOf
  <2>2. \A f : FiringTriggers(schema, f) \subseteq TriggersOf(f.table)
    BY DEF FiringTriggers, TriggersOf
  <2>3. \A f : Writes(FiringTriggers(schema, f)) \subseteq Writes(TriggersOf(f.table))
    BY <2>2 DEF Writes
  <2> QED
    BY <2>1, <2>3
<1>6. \A f : f.table = fk.refTable => Writes(FiringTriggers(schema, f)) \subseteq more
  <2> SUFFICES ASSUME NEW f, f.table = fk.refTable, NEW g \in FiringTriggers(schema, f),
                      NEW i \in DOMAIN g.body
               PROVE  g.body[i].table \in more
    BY DEF Writes
  <2>1. g \in TriggersOf(fk.refTable)
    BY DEF FiringTriggers, TriggersOf
  <2> QED
    BY <1>2, <2>1 DEF IsCascade
<1>7. tables \in SUBSET Table /\ more \in SUBSET Table
  BY <1>1, <1>2
<1> HIDE DEF more
<1>8. \A i, k \in 1 .. Len(stack) : i < k /\ stack[i].table \in more => stack[k].table \in tables
  BY <1>3, <1>5, <1>7 DEF AboveInv, Within
<1>9. \A i, k \in 1 .. Len(stack) : i < k /\ stack[i].table = fk.refTable => stack[k].table \in more
  BY <1>4, <1>6, <1>7 DEF AboveInv, Within
<1>10. fk.table \in more /\ fk.table \notin tables /\ fk.refTable \notin tables /\ fk.refTable \notin more
  BY <1>1, <1>2 DEF more
<1>11. ASSUME NEW i \in 1 .. Len(stack), NEW k \in 1 .. Len(stack), i < k
       PROVE  /\ stack[i].table = fk.table => stack[k].table \notin {fk.table, fk.refTable}
              /\ stack[i].table = fk.refTable => stack[k].table # fk.refTable
  BY <1>8, <1>9, <1>10, <1>11
<1>12. ASSUME NEW i \in 1 .. Len(stack), NEW j \in 1 .. Len(stack), NEW k \in 1 .. Len(stack),
              i < j, j < k, stack[i].table = fk.refTable
       PROVE  stack[k].table # fk.table
  BY <1>8, <1>9, <1>10, <1>12
<1> QED
  BY <1>11, <1>12 DEF FramesOrdered

-----------------------------------------------------------------------------
(* How the invariant follows the stack *)

\* The running statement goes on as g, on the same rows, and nothing is written.
LEMMA RefersReplace ==
  ASSUME NEW st, NEW st2, NEW n \in Nat \ {0}, Len(st) = n, Len(st2) = n,
         NEW f, NEW g, st[n] = f, st2[n] = g, \A i \in 1 .. n - 1 : st2[i] = st[i],
         NEW s, NEW fk, FramesRefer(st, s, fk), FrameRefers(g, s, fk),
         g.table = f.table, g.op = f.op,
         \A r \in RowId : InHand(f, fk.table, r) => InHand(g, fk.table, r),
         Removing(g, fk) => \/ StillCascades(g, fk)
                            \/ \A r \in RowId : s[fk.table][r] # g.old,
         \A v : v # NoRow /\ TakesAlong(f, v, fk) => TakesAlong(g, v, fk)
  PROVE  FramesRefer(st2, s, fk) /\ (Refers(st, s, fk) => Refers(st2, s, fk))
<1>1. \A i \in 1 .. n : i = n \/ i \in 1 .. n - 1
  OBVIOUS
<1>2. ASSUME NEW i \in 1 .. n  PROVE FrameRefers(st2[i], s, fk)
  BY <1>1 DEF FramesRefer
<1>3. \A i \in 1 .. n : st2[i].table = st[i].table /\ st2[i].op = st[i].op
  BY <1>1
<1>4. \A i \in 1 .. n : \A r \in RowId : InHand(st[i], fk.table, r) => InHand(st2[i], fk.table, r)
  BY <1>1
<1>5. ASSUME NEW i \in 1 .. n, Removing(st2[i], fk), ~StillCascades(st2[i], fk),
             NEW r \in RowId, s[fk.table][r] = st2[i].old
      PROVE  \E k \in i + 1 .. n : InHand(st2[k], fk.table, r)
  <2>1. i \in 1 .. n - 1 /\ st2[i] = st[i]
    BY <1>1, <1>5
  <2>2. PICK k \in i + 1 .. n : InHand(st[k], fk.table, r)
    BY <1>5, <2>1 DEF FramesRefer, DeletesFirst
  <2>3. k \in 1 .. n
    BY <2>1
  <2> QED
    BY <1>4, <2>2, <2>3
<1>6. DeletesFirst(st2, s, fk)
  <2>1. \A i, k \in 1 .. n :
           i < k /\ st2[i].table = fk.refTable /\ st2[i].op = "Delete" /\ st2[k].table = fk.table
               => st2[k].op = "Delete"
    BY <1>3 DEF FramesRefer, DeletesFirst
  <2> QED
    BY <1>5, <2>1 DEF DeletesFirst
<1>7. ASSUME Refers(st, s, fk), NEW r \in RowId, s[fk.table][r] \notin {Null, NoRow},
             \A q \in RowId : s[fk.refTable][q] # s[fk.table][r]
      PROVE  \E i \in 1 .. n : \/ InHand(st2[i], fk.table, r)
                               \/ TakesAlong(st2[i], s[fk.table][r], fk)
  <2>1. PICK i \in 1 .. n : InHand(st[i], fk.table, r) \/ TakesAlong(st[i], s[fk.table][r], fk)
    BY <1>7 DEF Refers
  <2> QED
    BY <1>1, <1>4, <1>7, <2>1
<1> QED
  BY <1>2, <1>6, <1>7 DEF FramesRefer, Refers

\* The running statement f goes on as g, and h, which it runs, has copied its rows.
LEMMA RefersPush ==
  ASSUME NEW st, NEW st2, NEW n \in Nat \ {0}, Len(st) = n, Len(st2) = n + 1,
         NEW f, NEW g, NEW h, st[n] = f, st2[n] = g, st2[n + 1] = h,
         \A i \in 1 .. n - 1 : st2[i] = st[i],
         NEW s, NEW fk, FramesRefer(st, s, fk), FramesOrdered(st2, fk),
         FrameRefers(g, s, fk), FrameRefers(h, s, fk),
         g.table = f.table, g.op = f.op, g.todo = f.todo, g.phase = f.phase,
         g.rowid = f.rowid, g.old = f.old, h.phase = "next",
         f.table = fk.refTable /\ h.table = fk.table => h.op = f.op,
         Removing(f, fk) => f.old # NoRow,
         StillCascades(f, fk) /\ f.op # "Insert" =>
             \/ StillCascades(g, fk)
             \/ \A r \in RowId : s[fk.table][r] = f.old /\ f.old # NoRow
                                     => InHand(h, fk.table, r)
  PROVE  FramesRefer(st2, s, fk) /\ (Refers(st, s, fk) => Refers(st2, s, fk))
<1>1. \A i \in 1 .. n + 1 : i = n + 1 \/ i = n \/ i \in 1 .. n - 1
  OBVIOUS
<1>2. ASSUME NEW i \in 1 .. n + 1  PROVE FrameRefers(st2[i], s, fk)
  BY <1>1 DEF FramesRefer
<1>3. \A i \in 1 .. n : i \in 1 .. n + 1 /\ st2[i].table = st[i].table /\ st2[i].op = st[i].op
  BY <1>1
<1>4. \A i \in 1 .. n : \A r \in RowId : InHand(st[i], fk.table, r) => InHand(st2[i], fk.table, r)
  BY <1>1 DEF InHand
<1>5. ASSUME NEW i \in 1 .. n + 1, NEW k \in 1 .. n + 1, i < k, st2[i].table = fk.refTable,
             st2[i].op = "Delete", st2[k].table = fk.table
      PROVE  st2[k].op = "Delete"
  <2>1. CASE k \in 1 .. n
    <3>1. i \in 1 .. n
      BY <1>5, <2>1
    <3> QED
      BY <1>3, <1>5, <2>1, <3>1 DEF FramesRefer, DeletesFirst
  <2>2. CASE k = n + 1 /\ i = n
    BY <1>5, <2>2
  <2>3. CASE k = n + 1 /\ i \in 1 .. n - 1
    <3>1. i < n /\ n < k /\ n \in 1 .. n + 1
      BY <2>3
    <3>2. \A a, b, c \in 1 .. n + 1 :
              a < b /\ b < c /\ st2[a].table = fk.refTable => st2[c].table # fk.table
      BY DEF FramesOrdered
    <3> QED
      BY <1>5, <3>1, <3>2
  <2> QED
    BY <1>1, <1>5, <2>1, <2>2, <2>3
<1>6. ASSUME NEW i \in 1 .. n + 1, Removing(st2[i], fk), ~StillCascades(st2[i], fk),
             NEW r \in RowId, s[fk.table][r] = st2[i].old
      PROVE  \E k \in i + 1 .. n + 1 : InHand(st2[k], fk.table, r)
  <2>1. CASE i \in 1 .. n - 1
    <3>1. PICK k \in i + 1 .. n : InHand(st[k], fk.table, r)
      BY <1>6, <2>1 DEF FramesRefer, DeletesFirst
    <3>2. k \in 1 .. n /\ k \in i + 1 .. n + 1
      BY <2>1
    <3> QED
      BY <1>4, <3>1, <3>2
  <2>2. CASE i = n
    <3>1. Removing(f, fk) /\ s[fk.table][r] = f.old /\ f.op # "Insert"
      BY <1>6, <2>2 DEF Removing
    <3>2. n + 1 \in i + 1 .. n + 1
      BY <2>2
    <3>3. CASE StillCascades(f, fk)
      BY <1>6, <2>2, <3>1, <3>2, <3>3
    <3>4. CASE ~StillCascades(f, fk)
      <4>1. n \in 1 .. n
        OBVIOUS
      <4>2. PICK k \in n + 1 .. n : InHand(st[k], fk.table, r)
        BY <3>1, <3>4, <4>1 DEF FramesRefer, DeletesFirst
      <4> QED
        BY <4>2
    <3> QED
      BY <3>3, <3>4
  <2>3. CASE i = n + 1
    BY <1>6, <2>3 DEF Removing
  <2> QED
    BY <1>1, <2>1, <2>2, <2>3
<1>7. DeletesFirst(st2, s, fk)
  BY <1>5, <1>6 DEF DeletesFirst
<1>8. ASSUME Refers(st, s, fk), NEW r \in RowId, s[fk.table][r] \notin {Null, NoRow},
             \A q \in RowId : s[fk.refTable][q] # s[fk.table][r]
      PROVE  \E i \in 1 .. n + 1 : \/ InHand(st2[i], fk.table, r)
                                   \/ TakesAlong(st2[i], s[fk.table][r], fk)
  <2>1. PICK i \in 1 .. n : InHand(st[i], fk.table, r) \/ TakesAlong(st[i], s[fk.table][r], fk)
    BY <1>8 DEF Refers
  <2>2. CASE InHand(st[i], fk.table, r)
    BY <1>3, <1>4, <2>2
  <2>3. CASE TakesAlong(st[i], s[fk.table][r], fk) /\ i \in 1 .. n - 1
    BY <1>3, <2>3
  <2>4. CASE TakesAlong(st[i], s[fk.table][r], fk) /\ i = n
    <3>1. /\ f.old = s[fk.table][r] /\ f.old # NoRow /\ StillCascades(f, fk)
          /\ f.op # "Insert"
      BY <1>8, <2>4 DEF TakesAlong
    <3>2. n \in 1 .. n + 1 /\ n + 1 \in 1 .. n + 1
      OBVIOUS
    <3>3. CASE StillCascades(g, fk)
      <4>1. TakesAlong(g, s[fk.table][r], fk)
        BY <2>4, <3>3 DEF TakesAlong
      <4> QED
        BY <3>2, <4>1
    <3>4. CASE InHand(h, fk.table, r)
      BY <3>2, <3>4
    <3> QED
      BY <3>1, <3>3, <3>4
  <2> QED
    BY <1>1, <2>1, <2>2, <2>3, <2>4
<1> QED
  BY <1>2, <1>7, <1>8 DEF FramesRefer, Refers

\* The running statement f is through.
LEMMA RefersPop ==
  ASSUME NEW st, NEW st2, NEW n \in Nat \ {0}, Len(st) = n, Len(st2) = n - 1,
         NEW f, st[n] = f, \A i \in 1 .. n - 1 : st2[i] = st[i],
         NEW s, NEW fk, FramesRefer(st, s, fk), f.phase = "next",
         \A r \in RowId : f.todo[r] = NoRow
  PROVE  FramesRefer(st2, s, fk) /\ (Refers(st, s, fk) => Refers(st2, s, fk))
<1>1. \A i \in 1 .. n : i = n \/ i \in 1 .. n - 1
  OBVIOUS
<1>2. \A r \in RowId : ~InHand(f, fk.table, r) /\ \A v : ~TakesAlong(f, v, fk)
  BY DEF InHand, TakesAlong
<1>3. \A i \in 1 .. n - 1 : i \in 1 .. n
  OBVIOUS
<1>4. ASSUME NEW i \in 1 .. n - 1, Removing(st2[i], fk), ~StillCascades(st2[i], fk),
             NEW r \in RowId, s[fk.table][r] = st2[i].old
      PROVE  \E k \in i + 1 .. n - 1 : InHand(st2[k], fk.table, r)
  <2>1. PICK k \in i + 1 .. n : InHand(st[k], fk.table, r)
    BY <1>3, <1>4 DEF FramesRefer, DeletesFirst
  <2>2. k # n
    BY <1>2, <2>1
  <2>3. k \in i + 1 .. n - 1 /\ k \in 1 .. n - 1
    BY <2>2
  <2> QED
    BY <2>1, <2>3
<1>5. DeletesFirst(st2, s, fk)
  <2>1. \A i, k \in 1 .. n - 1 :
           i < k /\ st2[i].table = fk.refTable /\ st2[i].op = "Delete" /\ st2[k].table = fk.table
               => st2[k].op = "Delete"
    BY <1>3 DEF FramesRefer, DeletesFirst
  <2> QED
    BY <1>4, <2>1 DEF DeletesFirst
<1>6. \A i \in 1 .. n - 1 : FrameRefers(st2[i], s, fk)
  BY <1>3 DEF FramesRefer
<1>7. ASSUME Refers(st, s, fk), NEW r \in RowId, s[fk.table][r] \notin {Null, NoRow},
             \A q \in RowId : s[fk.refTable][q] # s[fk.table][r]
      PROVE  \E i \in 1 .. n - 1 : \/ InHand(st2[i], fk.table, r)
                                   \/ TakesAlong(st2[i], s[fk.table][r], fk)
  <2>1. PICK i \in 1 .. n : InHand(st[i], fk.table, r) \/ TakesAlong(st[i], s[fk.table][r], fk)
    BY <1>7 DEF Refers
  <2> QED
    BY <1>1, <1>2, <2>1
<1> QED
  BY <1>5, <1>6, <1>7 DEF FramesRefer, Refers

-----------------------------------------------------------------------------
(* A row is written *)

\* The last of n frames, f, goes on as w.
Replaces(st, st2, n, f, w) ==
    /\ Len(st) = n /\ Len(st2) = n /\ st[n] = f /\ st2[n] = w
    /\ \A i \in 1 .. n - 1 : st2[i] = st[i]

\* Between s and s2 frame f writes its row.
Wrote(s, s2, f) ==
    /\ s2[f.table][f.rowid] = f.new
    /\ \A q \in RowId : q # f.rowid => s2[f.table][q] = s[f.table][q]
    /\ \A u \in Table : u # f.table => s2[u] = s[u]

\* A statement on the parent writes its row.  What an UPDATE takes away it takes
\* along, and what a DELETE takes away no child has.
LEMMA RefersWriteParent ==
  ASSUME NEW st, NEW st2, NEW n \in Nat \ {0}, NEW f, NEW w, Replaces(st, st2, n, f, w),
         NEW s, NEW s2, Wrote(s, s2, f),
         NEW fk, fk.table \in Table, fk.refTable \in Table, fk.table # fk.refTable,
         FramesRefer(st, s, fk), FramesOrdered(st, fk),
         f.table = fk.refTable, w.table = f.table, w.op = f.op, w.todo = f.todo,
         w.phase = "After", w.old = f.old, w.body = <<>>,
         f.phase = "Before", f.triggers = <<>>, f.body = <<>>, f.rowid \in RowId,
         f.op \in Ops, f.op = "Insert" => f.old = NoRow,
         f.op = "Update" /\ f.old \notin {Null, NoRow, f.new} => StillCascades(w, fk)
  PROVE  FramesRefer(st2, s2, fk) /\ (Refers(st, s, fk) => Refers(st2, s2, fk))
<1> /\ Len(st) = n /\ Len(st2) = n /\ st[n] = f /\ st2[n] = w
    /\ \A i \in 1 .. n - 1 : st2[i] = st[i]
  BY DEF Replaces
<1> /\ s2[fk.table] = s[fk.table] /\ s2[fk.refTable][f.rowid] = f.new
    /\ \A q \in RowId : q # f.rowid => s2[fk.refTable][q] = s[fk.refTable][q]
  BY DEF Wrote
<1>1. \A i \in 1 .. n : i = n \/ (i \in 1 .. n - 1 /\ i < n)
  OBVIOUS
<1>2. \A i \in 1 .. n - 1 : i \in 1 .. n /\ st[i].table \notin {fk.table, fk.refTable}
  BY DEF FramesOrdered
<1>3. /\ s[fk.refTable][f.rowid] = f.old /\ f.todo[f.rowid] = NoRow
      /\ \A r \in RowId : f.todo[r] # NoRow => s[fk.refTable][r] = f.todo[r]
  BY DEF FramesRefer, FrameRefers
<1>4. ASSUME NEW i \in 1 .. n  PROVE FrameRefers(st2[i], s2, fk)
  <2>1. CASE i \in 1 .. n - 1
    BY <1>2, <2>1 DEF FrameRefers
  <2>2. CASE i = n
    <3>1. Len(w.body) = 0
      BY EmptySeq
    <3> QED
      BY <1>3, <2>2, <3>1 DEF FrameRefers
  <2> QED
    BY <1>1, <2>1, <2>2
<1>5. \A i \in 1 .. n : st2[i].table # fk.table
  BY <1>1, <1>2
<1>6. \A i \in 1 .. n : ~Removing(st2[i], fk)
  BY <1>1, <1>2 DEF Removing
<1>7. DeletesFirst(st2, s2, fk)
  BY <1>5, <1>6 DEF DeletesFirst
<1>8. ASSUME Refers(st, s, fk), NEW r \in RowId, s2[fk.table][r] \notin {Null, NoRow},
             \A q \in RowId : s2[fk.refTable][q] # s2[fk.table][r]
      PROVE  \E i \in 1 .. n : TakesAlong(st2[i], s2[fk.table][r], fk)
  <2> DEFINE v == s[fk.table][r]
  <2>1. s2[fk.table][r] = v /\ v \notin {Null, NoRow}
    BY <1>8
  <2>2. \A i \in 1 .. n : ~InHand(st[i], fk.table, r)
    BY <1>1, <1>2 DEF InHand
  <2>3. \A i \in 1 .. n : ~TakesAlong(st[i], v, fk)
    BY <1>1, <1>2 DEF TakesAlong
  <2>4. PICK q \in RowId : s[fk.refTable][q] = v
    BY <1>8, <2>1, <2>2, <2>3 DEF Refers
  <2>5. q = f.rowid
    BY <1>8, <2>1, <2>4
  <2>6. f.old = v /\ f.new # v
    BY <1>3, <1>8, <2>1, <2>4, <2>5
  <2>7. f.op # "Delete"
    <3> SUFFICES ASSUME f.op = "Delete"  PROVE FALSE
      OBVIOUS
    <3>1. Removing(f, fk) /\ n \in 1 .. n
      BY <2>1, <2>6 DEF Removing
    <3>2. ~StillCascades(f, fk)
      <4>1. Len(f.triggers) = 0 /\ Len(f.body) = 0
        BY EmptySeq
      <4> QED
        BY <4>1 DEF StillCascades
    <3>3. PICK k \in n + 1 .. n : InHand(st[k], fk.table, r)
      BY <2>6, <3>1, <3>2 DEF FramesRefer, DeletesFirst
    <3> QED
      BY <3>3
  <2>8. f.op = "Update"
    BY <2>1, <2>6, <2>7 DEF Ops
  <2>9. TakesAlong(w, v, fk)
    BY <2>1, <2>6, <2>8 DEF TakesAlong
  <2>10. n \in 1 .. n
    OBVIOUS
  <2> QED
    BY <2>1, <2>9, <2>10
<1> QED
  BY <1>4, <1>7, <1>8 DEF FramesRefer, Refers

\* A statement on the child writes its row: a value it has validated, or none.
LEMMA RefersWriteChild ==
  ASSUME NEW st, NEW st2, NEW n \in Nat \ {0}, NEW f, NEW w, Replaces(st, st2, n, f, w),
         NEW s, NEW s2, Wrote(s, s2, f),
         NEW fk, fk.table \in Table, fk.refTable \in Table, fk.table # fk.refTable,
         FramesRefer(st, s, fk), FramesOrdered(st, fk),
         f.table = fk.table, w.table = f.table, w.op = f.op, w.todo = f.todo,
         w.phase = "After", f.phase = "Before", f.rowid \in RowId,
         f.op = "Delete" => f.new = NoRow,
         \A i \in 1 .. n : Removing(st[i], fk) => st[i].old # NoRow
  PROVE  FramesRefer(st2, s2, fk) /\ (Refers(st, s, fk) => Refers(st2, s2, fk))
<1> /\ Len(st) = n /\ Len(st2) = n /\ st[n] = f /\ st2[n] = w
    /\ \A i \in 1 .. n - 1 : st2[i] = st[i]
  BY DEF Replaces
<1> /\ s2[fk.refTable] = s[fk.refTable] /\ s2[fk.table][f.rowid] = f.new
    /\ \A q \in RowId : q # f.rowid => s2[fk.table][q] = s[fk.table][q]
  BY DEF Wrote
<1>1. \A i \in 1 .. n : i = n \/ (i \in 1 .. n - 1 /\ i < n)
  OBVIOUS
<1>2. \A i \in 1 .. n - 1 : i \in 1 .. n /\ st[i].table # fk.table
  BY DEF FramesOrdered
<1>3. ASSUME NEW i \in 1 .. n  PROVE FrameRefers(st2[i], s2, fk)
  <2>1. CASE i \in 1 .. n - 1
    <3> DEFINE e == st[i]
    <3>1. FrameRefers(e, s, fk) /\ st2[i] = e /\ e.table # fk.table
      BY <1>2, <2>1 DEF FramesRefer
    <3> HIDE DEF e
    <3>2. FrameRefers(e, s2, fk)
      BY <3>1 DEF FrameRefers
    <3> QED
      BY <3>1, <3>2
  <2>2. CASE i = n
    BY <2>2 DEF FrameRefers
  <2> QED
    BY <1>1, <2>1, <2>2
<1>4. \A i \in 1 .. n : st2[i].table = st[i].table /\ st2[i].op = st[i].op
  BY <1>1
<1>5. \A i \in 1 .. n : \A r \in RowId \ {f.rowid} :
          InHand(st[i], fk.table, r) => InHand(st2[i], fk.table, r)
  BY <1>1 DEF InHand
<1>6. ASSUME NEW i \in 1 .. n, Removing(st2[i], fk), ~StillCascades(st2[i], fk),
             NEW r \in RowId, s2[fk.table][r] = st2[i].old
      PROVE  \E k \in i + 1 .. n : InHand(st2[k], fk.table, r)
  <2>1. i \in 1 .. n - 1 /\ i < n /\ st2[i] = st[i] /\ n \in 1 .. n
    BY <1>1, <1>6 DEF Removing
  <2>2. f.op = "Delete"
    BY <1>6, <2>1 DEF FramesRefer, DeletesFirst, Removing
  <2>3. r # f.rowid
    BY <1>6, <2>1, <2>2
  <2>4. PICK k \in i + 1 .. n : InHand(st[k], fk.table, r)
    BY <1>6, <2>1, <2>3 DEF FramesRefer, DeletesFirst
  <2>5. k \in 1 .. n
    BY <2>1
  <2> QED
    BY <1>5, <2>3, <2>4, <2>5
<1>7. DeletesFirst(st2, s2, fk)
  <2>1. \A i, k \in 1 .. n :
           i < k /\ st2[i].table = fk.refTable /\ st2[i].op = "Delete" /\ st2[k].table = fk.table
               => st2[k].op = "Delete"
    BY <1>4 DEF FramesRefer, DeletesFirst
  <2> QED
    BY <1>6, <2>1 DEF DeletesFirst
<1>8. ASSUME Refers(st, s, fk), NEW r \in RowId, s2[fk.table][r] \notin {Null, NoRow},
             \A q \in RowId : s2[fk.refTable][q] # s2[fk.table][r]
      PROVE  \E i \in 1 .. n : \/ InHand(st2[i], fk.table, r)
                               \/ TakesAlong(st2[i], s2[fk.table][r], fk)
  <2>1. r # f.rowid
    <3> SUFFICES ASSUME r = f.rowid  PROVE FALSE
      OBVIOUS
    <3>1. f.new \notin {Null, NoRow} /\ f.op # "Delete" /\ FrameRefers(f, s, fk)
      BY <1>8 DEF FramesRefer
    <3> QED
      BY <1>8, <3>1 DEF FrameRefers
  <2>2. s2[fk.table][r] = s[fk.table][r]
    BY <2>1
  <2>3. PICK i \in 1 .. n : InHand(st[i], fk.table, r) \/ TakesAlong(st[i], s[fk.table][r], fk)
    BY <1>8, <2>2 DEF Refers
  <2>4. TakesAlong(st[i], s[fk.table][r], fk) => st2[i] = st[i]
    BY <1>1 DEF TakesAlong
  <2> QED
    BY <1>5, <2>1, <2>2, <2>3, <2>4
<1> QED
  BY <1>3, <1>7, <1>8 DEF FramesRefer, Refers

\* A statement on another table writes its row.
LEMMA RefersWriteOther ==
  ASSUME NEW st, NEW st2, NEW n \in Nat \ {0}, NEW f, NEW w, Replaces(st, st2, n, f, w),
         NEW s, NEW s2, Wrote(s, s2, f),
         NEW fk, fk.table \in Table, fk.refTable \in Table, FramesRefer(st, s, fk),
         f.table \notin {fk.table, fk.refTable}, w.table = f.table
  PROVE  FramesRefer(st2, s2, fk) /\ (Refers(st, s, fk) => Refers(st2, s2, fk))
<1> /\ Len(st) = n /\ Len(st2) = n /\ st[n] = f /\ st2[n] = w
    /\ \A i \in 1 .. n - 1 : st2[i] = st[i]
  BY DEF Replaces
<1> s2[fk.refTable] = s[fk.refTable] /\ s2[fk.table] = s[fk.table]
  BY DEF Wrote
<1>1. \A i \in 1 .. n : i = n \/ (i \in 1 .. n - 1 /\ i < n)
  OBVIOUS
<1>2. \A i \in 1 .. n : \A r \in RowId : InHand(st2[i], fk.table, r) <=> InHand(st[i], fk.table, r)
  BY <1>1 DEF InHand
<1>3. \A i \in 1 .. n : \A v : TakesAlong(st2[i], v, fk) <=> TakesAlong(st[i], v, fk)
  BY <1>1 DEF TakesAlong
<1>4. ASSUME NEW i \in 1 .. n  PROVE FrameRefers(st2[i], s2, fk)
  <2>1. FrameRefers(st[i], s, fk)
    BY DEF FramesRefer
  <2>2. CASE i \in 1 .. n - 1
    <3> DEFINE e == st[i]
    <3>1. FrameRefers(e, s, fk) /\ st2[i] = e
      BY <2>1, <2>2
    <3> HIDE DEF e
    <3>2. FrameRefers(e, s2, fk)
      BY <3>1 DEF FrameRefers
    <3> QED
      BY <3>1, <3>2
  <2>3. CASE i = n
    BY <2>3 DEF FrameRefers
  <2> QED
    BY <1>1, <2>2, <2>3
<1>5. ASSUME NEW i \in 1 .. n, Removing(st2[i], fk), ~StillCascades(st2[i], fk),
             NEW r \in RowId, s2[fk.table][r] = st2[i].old
      PROVE  \E k \in i + 1 .. n : InHand(st2[k], fk.table, r)
  <2>1. i \in 1 .. n - 1 /\ st2[i] = st[i]
    BY <1>1, <1>5 DEF Removing
  <2>2. PICK k \in i + 1 .. n : InHand(st[k], fk.table, r)
    BY <1>5, <2>1 DEF FramesRefer, DeletesFirst
  <2>3. k \in 1 .. n
    BY <2>1
  <2> QED
    BY <1>2, <2>2, <2>3
<1>6. ASSUME NEW i \in 1 .. n, NEW k \in 1 .. n, i < k, st2[i].table = fk.refTable,
             st2[i].op = "Delete", st2[k].table = fk.table
      PROVE  st2[k].op = "Delete"
  <2>1. st2[i] = st[i] /\ st2[k] = st[k]
    BY <1>1, <1>6
  <2> QED
    BY <1>6, <2>1 DEF FramesRefer, DeletesFirst
<1>7. DeletesFirst(st2, s2, fk)
  BY <1>5, <1>6 DEF DeletesFirst
<1>8. Refers(st, s, fk) => Refers(st2, s2, fk)
  BY <1>2, <1>3 DEF Refers
<1> QED
  BY <1>4, <1>7, <1>8 DEF FramesRefer

-----------------------------------------------------------------------------
(* What the triggers of the parent do *)

\* The running statement is the last frame.
LEMMA TopIsLast ==
  ASSUME Inv, HeldInv, stack # <<>>
  PROVE  /\ Len(stack) \in Nat \ {0} /\ stack[Len(stack)] = Top /\ Top \in Frame
         /\ HeldOK(Top) /\ CallsOK(schema, Top) /\ schema \in Schema
<1>1. stack \in Seq(Frame)
  BY DEF Inv, TypeOK
<1> QED
  BY <1>1, LastFront, TopFacts, TopHeld DEF Top

\* Before the triggers of a row of the parent are gone through, the one that
\* cascades is among those to come.
LEMMA CascadeComes ==
  ASSUME schema \in Schema, NEW fk \in schema.references, Cascades(fk), fk.refTable \in Table,
         NEW f, f.table = fk.refTable, f.triggers = schema.triggers[f.table],
         f.old \in Val \ {Null},
         \/ f.op = "Delete" /\ f.phase = "Before" /\ f.new = NoRow
         \/ f.op = "Update" /\ f.phase = "After" /\ f.new \in Val \ {f.old}
  PROVE  StillCascades(f, fk)
<1>1. \E g \in TriggersOf(fk.refTable) : Fires(g, f) /\ HasCascade(g, fk)
  <2>1. CASE f.op = "Delete" /\ f.phase = "Before" /\ f.new = NoRow
    <3>1. PICK g \in TriggersOf(fk.refTable) :
              /\ g.event = "Delete" /\ HasCascade(g, fk)
              /\ \A old \in Val \ {Null} : <<old, NoRow>> \in g.when
      BY DEF Cascades
    <3>2. g.timing = "Before"
      BY <3>1 DEF HasCascade, IsCascade
    <3> QED
      BY <2>1, <3>1, <3>2 DEF Fires
  <2>2. CASE f.op = "Update" /\ f.phase = "After" /\ f.new \in Val \ {f.old}
    <3>1. PICK g \in TriggersOf(fk.refTable) :
              /\ g.event = "Update" /\ HasCascade(g, fk)
              /\ \A old \in Val \ {Null} : \A new \in Val \ {old} : <<old, new>> \in g.when
      BY DEF Cascades
    <3>2. g.timing = "After"
      BY <3>1 DEF HasCascade, IsCascade
    <3> QED
      BY <2>2, <3>1, <3>2 DEF Fires
  <2> QED
    BY <2>1, <2>2
<1>2. PICK k \in DOMAIN schema.triggers[f.table] :
          Fires(schema.triggers[f.table][k], f) /\ HasCascade(schema.triggers[f.table][k], fk)
  BY <1>1 DEF TriggersOf
<1>3. schema.triggers[f.table] \in Seq(Trigger)
  BY DEF Schema
<1>4. k \in 1 .. Len(f.triggers)
  BY <1>2, <1>3, LenProperties
<1> QED
  BY <1>2, <1>4 DEF StillCascades

\* For the row at hand the cascade is the statement that changes, or deletes, the
\* children that have the row's old value.
LEMMA CascadeInstance ==
  ASSUME NEW g, NEW b, NEW fk, IsCascade(g, b, fk), NEW f, Fires(g, f), f.old # NoRow,
         NEW s, s = Instantiate(b, f.old, f.new)
  PROVE  Cascading(s, f, fk)
<1>1. b.table = fk.table /\ b.where = OldValue /\ b.op = f.op
  BY DEF IsCascade, Fires
<1>2. ~(b.where = AnyRow \/ Missing(b.where, f.old, f.new))
  BY <1>1, StatementsAssumption DEF Missing
<1>3. Substitute(b.where, f.old, f.new) = f.old
  BY <1>1, StatementsAssumption DEF Substitute
<1> QED
  BY <1>1, <1>2, <1>3 DEF Instantiate, Cascading

\* b holds the statements of trigger t for the row f has in hand.
IsBody(b, t, f) ==
    \A i \in DOMAIN t.body : i \in 1 .. Len(b) /\ b[i] = Instantiate(t.body[i], f.old, f.new)

\* The cascade is among the statements of a trigger that fires.
LEMMA CascadeFired ==
  ASSUME NEW fk, NEW t, NEW f, NEW b, HasCascade(t, fk), Fires(t, f), f.old # NoRow,
         IsBody(b, t, f)
  PROVE  \E i \in 1 .. Len(b) : Cascading(b[i], f, fk)
<1>1. PICK i \in DOMAIN t.body : IsCascade(t, t.body[i], fk)
  BY DEF HasCascade
<1> DEFINE c == t.body[i]
           s == b[i]
<1>2. IsCascade(t, c, fk) /\ s = Instantiate(c, f.old, f.new) /\ i \in 1 .. Len(b)
  BY <1>1 DEF IsBody
<1> HIDE DEF c, s
<1>3. Cascading(s, f, fk)
  BY <1>2, CascadeInstance
<1> QED
  BY <1>2, <1>3 DEF s

\* It is still to come when the first of the triggers to come is left behind.
LEMMA CascadeGoesOn ==
  ASSUME NEW fk, NEW f, NEW g, NEW t, NEW b, f.body = <<>>, Len(f.triggers) \in Nat \ {0},
         t = f.triggers[1], Len(g.triggers) = Len(f.triggers) - 1,
         \A k \in 1 .. Len(g.triggers) : g.triggers[k] = f.triggers[k + 1],
         IsBody(b, t, f), Fires(t, f) => g.body = b,
         g.op = f.op, g.phase = f.phase, g.old = f.old, g.new = f.new
  PROVE  StillCascades(f, fk) /\ f.old # NoRow => StillCascades(g, fk)
<1> SUFFICES ASSUME StillCascades(f, fk), f.old # NoRow  PROVE StillCascades(g, fk)
  OBVIOUS
<1>1. \A u : Fires(u, g) <=> Fires(u, f)
  BY DEF Fires
<1>2. PICK k \in 1 .. Len(f.triggers) : Fires(f.triggers[k], f) /\ HasCascade(f.triggers[k], fk)
  <2>1. Len(f.body) = 0
    BY EmptySeq
  <2> QED
    BY <2>1 DEF StillCascades
<1>3. CASE k = 1
  <2>1. Fires(t, f) /\ HasCascade(t, fk)
    BY <1>2, <1>3
  <2>2. PICK i \in 1 .. Len(b) : Cascading(b[i], f, fk)
    BY <2>1, CascadeFired
  <2>3. g.body = b /\ \A c : Cascading(c, f, fk) <=> Cascading(c, g, fk)
    BY <2>1 DEF Cascading
  <2> QED
    BY <2>2, <2>3 DEF StillCascades
<1>4. CASE k # 1
  <2>1. k - 1 \in 1 .. Len(g.triggers) /\ g.triggers[k - 1] = f.triggers[k]
    BY <1>4
  <2> QED
    BY <1>1, <1>2, <2>1 DEF StillCascades
<1> QED
  BY <1>3, <1>4

\* A trigger of the parent does to the child what was done to the parent.
LEMMA CascadeOnly ==
  ASSUME NEW fk \in schema.references, Cascades(fk), NEW g \in TriggersOf(fk.refTable),
         NEW f, Fires(g, f), NEW i \in DOMAIN g.body, g.body[i].table = fk.table
  PROVE  Instantiate(g.body[i], f.old, f.new).op = f.op
<1>1. IsCascade(g, g.body[i], fk)
  BY DEF Cascades
<1>2. g.body[i].op = f.op
  BY <1>1 DEF IsCascade, Fires
<1> QED
  BY <1>2 DEF Instantiate

-----------------------------------------------------------------------------
(* The steps of a statement *)

\* What a step of a running statement does to a reference.
Follows(fk) ==
    FramesRefer(stack', store', fk) /\ (Refers(stack, store, fk) => Refers(stack', store', fk))

\* A row is taken up.
LEMMA RefersTakes ==
  ASSUME Inv, HeldInv, NEW fk \in schema.references, Cascades(fk),
         FramesRefer(stack, store, fk), NEW h \in Frame, Takes(h), store' = store
  PROVE  Follows(fk)
<1> DEFINE n == Len(stack)
           f == Top
<1>1. /\ stack # <<>> /\ f.phase = "next" /\ Continue(h)
      /\ h.op = f.op /\ h.table = f.table /\ h.phase = "Before" /\ h.body = <<>>
      /\ h.triggers = schema.triggers[h.table] /\ h.rowid \in RowId
      /\ \A r \in RowId : h.todo[r] = IF r = h.rowid THEN NoRow ELSE f.todo[r]
      /\ h.op = "Insert" => h.rowid = nextRowid[h.table] /\ h.old = NoRow
      /\ h.op # "Insert" => h.old # NoRow /\ h.old = f.todo[h.rowid]
      /\ h.op = "Delete" => h.new = NoRow
      /\ h.op # "Delete" => h.new \in Val /\ Validates(h.table, h.new, h.rowid)
  BY DEF Takes
<1>2. n \in Nat \ {0} /\ stack[n] = f /\ f \in Frame /\ schema \in Schema
  BY <1>1, TopIsLast
<1>3. Len(stack') = n /\ stack'[n] = h /\ \A i \in 1 .. n - 1 : stack'[i] = stack[i]
  BY <1>1, Replaced DEF Inv, TypeOK
<1>4. /\ fk.table \in Table /\ fk.refTable \in Table /\ fk.table # fk.refTable
  BY ReferenceTables DEF Inv
<1>5. h.op = "Insert" => store[h.table][h.rowid] = NoRow
  <2>1. h.table \in Table /\ nextRowid[h.table] \in Nat /\ h.rowid \in Nat
    BY FrameFields DEF Inv, TypeOK
  <2> QED
    BY <1>1, <2>1 DEF Inv, FreshOK
<1>6. h.old \in Row
  BY FrameFields
<1> HIDE DEF n, f
<1>7. FrameRefers(f, store, fk)
  BY <1>2 DEF FramesRefer, n
<1>8. FrameRefers(h, store, fk)
  <2>1. ASSUME h.table = fk.refTable
        PROVE  /\ \A r \in RowId : h.todo[r] # NoRow => store[fk.refTable][r] = h.todo[r]
               /\ store[fk.refTable][h.rowid] = h.old /\ h.todo[h.rowid] = NoRow
    BY <1>1, <1>5, <1>7, <2>1 DEF FrameRefers
  <2>2. ASSUME h.table = fk.table, h.op # "Delete", h.new # Null
        PROVE  \E q \in RowId : store[fk.refTable][q] = h.new
    BY <1>1, <2>2 DEF Validates, Referenced
  <2>3. Len(h.body) = 0
    BY <1>1, EmptySeq
  <2> QED
    BY <2>1, <2>2, <2>3 DEF FrameRefers
<1>9. \A r \in RowId : InHand(f, fk.table, r) => InHand(h, fk.table, r)
  BY <1>1 DEF InHand
<1>10. Removing(h, fk) => StillCascades(h, fk)
  <2> SUFFICES ASSUME Removing(h, fk)  PROVE StillCascades(h, fk)
    OBVIOUS
  <2>1. /\ h.table = fk.refTable /\ h.op = "Delete" /\ h.old \in Val \ {Null} /\ h.new = NoRow
    BY <1>1, <1>6 DEF Removing, Row
  <2> QED
    BY <1>1, <1>2, <1>4, <2>1, CascadeComes
<1>11. \A v : ~TakesAlong(f, v, fk)
  BY <1>1 DEF TakesAlong
<1>12. FramesRefer(stack', store, fk) /\ (Refers(stack, store, fk) => Refers(stack', store, fk))
  BY <1>1, <1>2, <1>3, <1>8, <1>9, <1>10, <1>11, RefersReplace DEF n
<1> QED
  BY <1>12 DEF Follows

\* A trigger fires, or is passed over.
LEMMA RefersFire ==
  ASSUME Inv, HeldInv, NEW fk \in schema.references, Cascades(fk),
         FramesRefer(stack, store, fk), FireTrigger
  PROVE  Follows(fk)
<1> DEFINE n == Len(stack)
           f == Top
           t == Head(f.triggers)
           ts == Tail(f.triggers)
           b == [i \in DOMAIN t.body |-> Instantiate(t.body[i], f.old, f.new)]
           ss == IF Fires(t, f) THEN b ELSE <<>>
           g == [f EXCEPT !.triggers = ts, !.body = ss]
<1>1. /\ stack # <<>> /\ f.triggers # <<>> /\ f.body = <<>> /\ Continue(g) /\ store' = store
  BY DEF FireTrigger, tableVars
<1>2. /\ n \in Nat \ {0} /\ stack[n] = f /\ f \in Frame /\ schema \in Schema
      /\ HeldOK(f) /\ CallsOK(schema, f)
  BY <1>1, TopIsLast
<1>3. /\ t \in Trigger /\ ts \in Seq(Trigger) /\ f.old \in Row /\ f.new \in Row
      /\ f.triggers \in Seq(Trigger)
  BY <1>1, <1>2, FrameFields, HeadTail
<1>4. t.body \in Seq(Body) /\ DOMAIN t.body = 1 .. Len(t.body) /\ Len(t.body) \in Nat
  BY <1>3, LenProperties DEF Trigger
<1>5. b \in Seq(Stmt) /\ Len(b) = Len(t.body)
  <2> DEFINE m == Len(t.body)
             e(i) == Instantiate(t.body[i], f.old, f.new)
  <2>1. \A i \in 1 .. m : t.body[i] \in Body
    BY <1>4, ElementOfSeq
  <2>2. \A i \in 1 .. m : e(i) \in Stmt
    BY <1>3, <2>1, InstantiateType
  <2>3. b = [i \in 1 .. m |-> e(i)] /\ m \in Nat
    BY <1>4
  <2> HIDE DEF m, e, b
  <2>4. [i \in 1 .. m |-> e(i)] \in Seq(Stmt)
    BY <2>2, <2>3, IsASeq
  <2>5. b \in Seq(Stmt) /\ DOMAIN b = 1 .. m
    BY <2>3, <2>4
  <2>6. Len(b) \in Nat /\ DOMAIN b = 1 .. Len(b)
    BY <2>5, LenProperties
  <2> QED
    BY <2>3, <2>5, <2>6 DEF m
<1>6. \A i \in 1 .. Len(b) : i \in DOMAIN t.body /\ b[i] = Instantiate(t.body[i], f.old, f.new)
  BY <1>4, <1>5
<1>7. ss \in Seq(Stmt) /\ (Fires(t, f) => ss = b) /\ (~Fires(t, f) => Len(ss) = 0)
  <2> HIDE DEF b, t
  <2> QED
    BY <1>5, EmptySeq
<1>8. /\ Len(f.triggers) \in Nat \ {0} /\ t = f.triggers[1] /\ Len(ts) = Len(f.triggers) - 1
      /\ \A k \in 1 .. Len(ts) : ts[k] = f.triggers[k + 1]
  BY <1>1, <1>3, TailFacts
<1>9. f.table = fk.refTable => t \in TriggersOf(fk.refTable)
  <2>1. 1 \in 1 .. Len(f.triggers)
    BY <1>8
  <2> QED
    BY <1>2, <1>8, <2>1 DEF CallsOK, TriggersOf
<1> HIDE DEF b, ss, t, ts, f
<1>10. /\ g \in Frame
       /\ g.op = f.op /\ g.table = f.table /\ g.todo = f.todo /\ g.old = f.old
       /\ g.phase = f.phase /\ g.rowid = f.rowid /\ g.new = f.new
  <2>1. f \in Frame /\ ts \in Seq(Trigger) /\ ss \in Seq(Stmt)
    BY <1>2, <1>3, <1>7
  <2> QED
    BY <2>1, FireFrame
<1>11. g.triggers = ts /\ g.body = ss
  BY <1>2 DEF Frame
<1> HIDE DEF g
<1>12. Len(stack') = n /\ stack'[n] = g /\ \A i \in 1 .. n - 1 : stack'[i] = stack[i]
  BY <1>1, <1>10, Replaced DEF Inv, TypeOK
<1> HIDE DEF n
<1>13. FrameRefers(f, store, fk)
  BY <1>2 DEF FramesRefer, n
<1>14. \A u : Fires(u, g) <=> Fires(u, f)
  BY <1>10 DEF Fires
<1>15. StillCascades(f, fk) /\ f.old # NoRow => StillCascades(g, fk)
  <2>1. IsBody(b, t, f)
    BY <1>4, <1>5, <1>6 DEF IsBody
  <2>2. Fires(t, f) => g.body = b
    BY <1>7, <1>11
  <2> QED
    BY <1>1, <1>8, <1>10, <1>11, <2>1, <2>2, CascadeGoesOn
<1>16. ASSUME f.table = fk.refTable, NEW k \in 1 .. Len(ss), ss[k].table = fk.table
       PROVE  ss[k].op = f.op
  <2>1. Fires(t, f) /\ ss = b
    BY <1>7, <1>16
  <2>2. k \in DOMAIN t.body /\ b[k] = Instantiate(t.body[k], f.old, f.new)
    BY <1>6, <1>16, <2>1
  <2>3. b[k].table = t.body[k].table
    BY <2>2 DEF Instantiate
  <2> QED
    BY <1>9, <1>16, <2>1, <2>2, <2>3, CascadeOnly
<1>17. FrameRefers(g, store, fk)
  BY <1>10, <1>11, <1>13, <1>16 DEF FrameRefers
<1>18. \A r \in RowId : InHand(f, fk.table, r) => InHand(g, fk.table, r)
  BY <1>10 DEF InHand
<1>19. Removing(g, fk) => StillCascades(g, fk) \/ \A r \in RowId : store[fk.table][r] # g.old
  <2> SUFFICES ASSUME Removing(g, fk), ~StillCascades(g, fk), NEW r \in RowId,
                      store[fk.table][r] = g.old
               PROVE  FALSE
    OBVIOUS
  <2>1. Removing(f, fk) /\ store[fk.table][r] = f.old /\ f.old # NoRow
    BY <1>2, <1>10 DEF Removing, HeldOK
  <2>2. ~StillCascades(f, fk)
    BY <1>15, <2>1
  <2>3. n \in 1 .. n /\ Len(stack) = n
    BY <1>2 DEF n
  <2>4. PICK k \in n + 1 .. n : InHand(stack[k], fk.table, r)
    BY <1>2, <2>1, <2>2, <2>3 DEF FramesRefer, DeletesFirst
  <2> QED
    BY <1>2, <2>4
<1>20. \A v : v # NoRow /\ TakesAlong(f, v, fk) => TakesAlong(g, v, fk)
  BY <1>10, <1>15 DEF TakesAlong
<1>21. FramesRefer(stack', store, fk) /\ (Refers(stack, store, fk) => Refers(stack', store, fk))
  BY <1>2, <1>10, <1>12, <1>17, <1>18, <1>19, <1>20, RefersReplace DEF n
<1> QED
  BY <1>1, <1>21 DEF Follows

\* A statement of a body starts: the children a cascade is for are in its hands.
LEMMA RefersBody ==
  ASSUME Inv, HeldInv, NEW fk \in schema.references, Cascades(fk),
         FramesRefer(stack, store, fk), FramesOrdered(stack', fk), RunBody
  PROVE  Follows(fk)
<1> DEFINE n == Len(stack)
           f == Top
           s == Head(f.body)
           g == [f EXCEPT !.body = Tail(@)]
           h == NewFrame(s)
<1>1. /\ stack # <<>> /\ f.body # <<>> /\ store' = store
      /\ stack' = Append(Append(Front(stack), g), h)
  BY DEF RunBody, tableVars
<1>2. /\ n \in Nat \ {0} /\ stack[n] = f /\ f \in Frame /\ HeldOK(f)
  BY <1>1, TopIsLast
<1>3. /\ g \in Frame /\ s \in Stmt
      /\ g.op = f.op /\ g.table = f.table /\ g.todo = f.todo /\ g.old = f.old
      /\ g.phase = f.phase /\ g.rowid = f.rowid /\ g.new = f.new
  BY <1>1, <1>2, BodyFrame
<1>4. g.triggers = f.triggers /\ g.body = Tail(f.body)
  BY <1>2 DEF Frame
<1>5. /\ Len(f.body) \in Nat \ {0} /\ s = f.body[1] /\ Len(g.body) = Len(f.body) - 1
      /\ \A k \in 1 .. Len(g.body) : g.body[k] = f.body[k + 1]
  <2>1. f.body \in Seq(Stmt)
    BY <1>2, FrameFields
  <2> QED
    BY <1>1, <1>4, <2>1, TailFacts
<1>6. /\ h \in Frame /\ h.table = s.table /\ h.phase = "next"
      /\ \A r \in RowId : h.todo[r] # NoRow => h.todo[r] = store[s.table][r]
  BY <1>3, NewFrameFacts DEF Inv, TypeOK
<1>7. /\ h.op = s.op /\ Len(h.body) = 0
      /\ s.op # "Insert" => \A r \in RowId : store[s.table][r] \in s.where =>
                                h.todo[r] = store[s.table][r]
  <2>1. h.op = s.op /\ h.body = <<>>
    BY DEF NewFrame
  <2>2. s.op # "Insert" => h.todo = [r \in RowId |-> IF store[s.table][r] \in s.where
                                                     THEN store[s.table][r] ELSE NoRow]
    BY DEF NewFrame
  <2> HIDE DEF h
  <2> QED
    BY <2>1, <2>2, EmptySeq
<1> HIDE DEF g, h, s
<1>8. /\ Len(stack') = n + 1 /\ stack'[n] = g /\ stack'[n + 1] = h
      /\ \A i \in 1 .. n - 1 : stack'[i] = stack[i]
  BY <1>1, <1>3, <1>6, Pushed DEF Inv, TypeOK
<1> HIDE DEF n, f
<1>9. FrameRefers(f, store, fk)
  BY <1>2 DEF FramesRefer, n
<1>10. \A k \in 1 .. Len(g.body) : k + 1 \in 1 .. Len(f.body)
  BY <1>5
<1>11. FrameRefers(g, store, fk)
  BY <1>3, <1>5, <1>9, <1>10 DEF FrameRefers
<1>12. FrameRefers(h, store, fk)
  BY <1>6, <1>7 DEF FrameRefers
<1>13. 1 \in 1 .. Len(f.body)
  BY <1>5
<1>14. f.table = fk.refTable /\ h.table = fk.table => h.op = f.op
  <2>1. f.table = fk.refTable /\ f.body[1].table = fk.table => f.body[1].op = f.op
    BY <1>9, <1>13 DEF FrameRefers
  <2> QED
    BY <1>5, <1>6, <1>7, <2>1
<1>15. Removing(f, fk) => f.old # NoRow
  BY <1>2 DEF Removing, HeldOK
<1>16. ASSUME StillCascades(f, fk), f.op # "Insert"
       PROVE  \/ StillCascades(g, fk)
              \/ \A r \in RowId : store[fk.table][r] = f.old /\ f.old # NoRow
                                      => InHand(h, fk.table, r)
  <2>1. \A u : Fires(u, g) <=> Fires(u, f)
    BY <1>3 DEF Fires
  <2>2. \A c : Cascading(c, f, fk) <=> Cascading(c, g, fk)
    BY <1>3 DEF Cascading
  <2>3. CASE \E k \in 1 .. Len(f.triggers) :
                 Fires(f.triggers[k], f) /\ HasCascade(f.triggers[k], fk)
    BY <1>4, <2>1, <2>3 DEF StillCascades
  <2>4. ASSUME NEW k \in 1 .. Len(f.body), Cascading(f.body[k], f, fk), k # 1
        PROVE  StillCascades(g, fk)
    <3>1. k - 1 \in 1 .. Len(g.body) /\ g.body[k - 1] = f.body[k]
      BY <1>5, <2>4
    <3> QED
      BY <2>2, <2>4, <3>1 DEF StillCascades
  <2>5. ASSUME Cascading(s, f, fk), NEW r \in RowId, store[fk.table][r] = f.old, f.old # NoRow
        PROVE  InHand(h, fk.table, r)
    <3>1. s.table = fk.table /\ s.op = f.op /\ store[s.table][r] \in s.where
      BY <2>5 DEF Cascading
    <3>2. h.todo[r] # NoRow
      BY <1>7, <1>16, <2>5, <3>1
    <3> QED
      BY <1>6, <1>7, <1>16, <3>1, <3>2 DEF InHand
  <2>6. \/ \E k \in 1 .. Len(f.triggers) :
               Fires(f.triggers[k], f) /\ HasCascade(f.triggers[k], fk)
        \/ \E k \in 1 .. Len(f.body) : Cascading(f.body[k], f, fk)
    BY <1>16 DEF StillCascades
  <2> QED
    BY <1>5, <2>3, <2>4, <2>5, <2>6
<1>17. FramesRefer(stack', store, fk) /\ (Refers(stack, store, fk) => Refers(stack', store, fk))
  BY <1>2, <1>3, <1>6, <1>8, <1>11, <1>12, <1>14, <1>15, <1>16, RefersPush DEF n
<1> QED
  BY <1>1, <1>17 DEF Follows

\* A row is written.
LEMMA RefersWrite ==
  ASSUME Inv, HeldInv, NEW fk \in schema.references, Cascades(fk),
         FramesRefer(stack, store, fk), FramesOrdered(stack, fk), WriteRow
  PROVE  Follows(fk)
<1> DEFINE n == Len(stack)
           f == Top
           w == Enter(f, "After")
<1>1. /\ stack # <<>> /\ f.phase = "Before" /\ f.triggers = <<>> /\ f.body = <<>>
      /\ Continue(w) /\ Write(f.table, f.rowid, f.old, f.new)
  BY DEF WriteRow
<1>2. /\ n \in Nat \ {0} /\ stack[n] = f /\ f \in Frame /\ schema \in Schema /\ HeldOK(f)
  BY <1>1, TopIsLast
<1>3. /\ w \in Frame
      /\ w.op = f.op /\ w.table = f.table /\ w.todo = f.todo /\ w.old = f.old
      /\ w.phase = "After" /\ w.rowid = f.rowid /\ w.new = f.new
  BY <1>2, EnterFrame
<1>4. w.triggers = schema.triggers[f.table] /\ w.body = <<>>
  BY <1>1, <1>2 DEF Enter, Frame
<1> HIDE DEF w
<1>5. Replaces(stack, stack', n, f, w)
  BY <1>1, <1>2, <1>3, Replaced DEF Replaces, Inv, TypeOK
<1>6. f.rowid \in RowId
  BY <1>1, TopFacts DEF FrameOK
<1> HIDE DEF f
<1>7. /\ f.op \in Ops /\ f.table \in Table /\ f.old \in Row /\ f.new \in Row
  BY <1>2, FrameFields
<1>8. /\ fk.table \in Table /\ fk.refTable \in Table /\ fk.table # fk.refTable
  BY ReferenceTables DEF Inv
<1>9. Wrote(store, store', f)
  BY <1>1, <1>6, <1>7 DEF Wrote, Write, Inv, TypeOK, Tables
<1>10. \A i \in 1 .. n : Removing(stack[i], fk) => stack[i].old # NoRow
  BY DEF HeldInv, HeldOK, Removing
<1>11. /\ f.op = "Insert" => f.old = NoRow
       /\ f.op = "Delete" <=> f.new = NoRow
  BY <1>1, <1>2 DEF HeldOK
<1> SUFFICES FramesRefer(stack', store', fk)
             /\ (Refers(stack, store, fk) => Refers(stack', store', fk))
  BY DEF Follows
<1>12. CASE f.table = fk.refTable
  <2>1. ASSUME f.op = "Update", f.old \notin {Null, NoRow, f.new}  PROVE StillCascades(w, fk)
    <3>1. w.old \in Val \ {Null} /\ w.new \in Val \ {w.old}
      BY <1>3, <1>7, <1>11, <2>1 DEF Row
    <3>2. w.table = fk.refTable /\ w.triggers = schema.triggers[w.table]
      BY <1>3, <1>4, <1>12
    <3> QED
      BY <1>2, <1>3, <1>8, <2>1, <3>1, <3>2, CascadeComes
  <2> QED
    BY <1>1, <1>2, <1>3, <1>4, <1>5, <1>6, <1>7, <1>8, <1>9, <1>11, <1>12, <2>1,
       RefersWriteParent
<1>13. CASE f.table = fk.table
  BY <1>1, <1>2, <1>3, <1>5, <1>6, <1>8, <1>9, <1>10, <1>11, <1>13, RefersWriteChild
<1>14. CASE f.table \notin {fk.table, fk.refTable}
  BY <1>2, <1>3, <1>5, <1>8, <1>9, <1>14, RefersWriteOther
<1> QED
  BY <1>12, <1>13, <1>14

\* A row is done with: its triggers are through.
LEMMA RefersDone ==
  ASSUME Inv, HeldInv, NEW fk, FramesRefer(stack, store, fk), RowDone
  PROVE  Follows(fk)
<1> DEFINE n == Len(stack)
           f == Top
           d == [f EXCEPT !.phase = "next", !.rowid = 0, !.old = NoRow, !.new = NoRow]
<1>1. /\ stack # <<>> /\ f.phase = "After" /\ f.triggers = <<>> /\ f.body = <<>>
      /\ Continue(d) /\ store' = store
  BY DEF RowDone, tableVars
<1>2. /\ n \in Nat \ {0} /\ stack[n] = f /\ f \in Frame
  BY <1>1, TopIsLast
<1>3. d \in Frame /\ d.op = f.op /\ d.table = f.table /\ d.todo = f.todo /\ d.phase = "next"
  BY <1>2, DoneFrame
<1>4. d.body = <<>>
  BY <1>1, <1>2 DEF Frame
<1> HIDE DEF d
<1>5. Len(stack') = n /\ stack'[n] = d /\ \A i \in 1 .. n - 1 : stack'[i] = stack[i]
  BY <1>1, <1>3, Replaced DEF Inv, TypeOK
<1> HIDE DEF n, f
<1>6. Len(d.body) = 0 /\ Len(f.body) = 0 /\ Len(f.triggers) = 0
  BY <1>1, <1>4, EmptySeq
<1>7. FrameRefers(f, store, fk)
  BY <1>2 DEF FramesRefer, n
<1>8. FrameRefers(d, store, fk)
  BY <1>3, <1>6, <1>7 DEF FrameRefers
<1>9. \A r \in RowId : InHand(f, fk.table, r) => InHand(d, fk.table, r)
  BY <1>1, <1>3 DEF InHand
<1>10. ~Removing(d, fk) /\ \A v : ~TakesAlong(f, v, fk)
  BY <1>3, <1>6 DEF Removing, TakesAlong, StillCascades
<1>11. FramesRefer(stack', store, fk) /\ (Refers(stack, store, fk) => Refers(stack', store, fk))
  BY <1>2, <1>3, <1>5, <1>8, <1>9, <1>10, RefersReplace DEF n
<1> QED
  BY <1>1, <1>11 DEF Follows

\* A statement is through.
LEMMA RefersReturn ==
  ASSUME Inv, HeldInv, NEW fk, FramesRefer(stack, store, fk), Return
  PROVE  Follows(fk)
<1> DEFINE n == Len(stack)
           f == Top
<1>1. /\ stack # <<>> /\ f.phase = "next" /\ f.todo = NoRows
      /\ stack' = Front(stack) /\ store' = store
  BY DEF Return, tableVars
<1>2. /\ n \in Nat \ {0} /\ stack[n] = f
  BY <1>1, TopIsLast
<1>3. Len(stack') = n - 1 /\ \A i \in 1 .. n - 1 : stack'[i] = stack[i]
  BY <1>1, Popped DEF Inv, TypeOK
<1>4. \A r \in RowId : f.todo[r] = NoRow
  BY <1>1 DEF NoRows
<1> HIDE DEF n, f
<1>5. FramesRefer(stack', store, fk) /\ (Refers(stack, store, fk) => Refers(stack', store, fk))
  BY <1>1, <1>2, <1>3, <1>4, RefersPop DEF n
<1> QED
  BY <1>1, <1>5 DEF Follows

\* A client's statement starts.
LEMMA RefersStarts ==
  ASSUME Inv, NEW fk, NEW s \in Inserts \union Updates \union Deletes, Execute(s)
  PROVE  Follows(fk)
<1> DEFINE h == NewFrame(s)
<1>1. stack = <<>> /\ s \in Stmt /\ Len(stack') = 1 /\ stack'[1] = h
  BY StackStarts
<1>2. store' = store
  BY DEF Execute, Call, tableVars
<1>3. /\ h.table = s.table /\ h.phase = "next"
      /\ \A r \in RowId : h.todo[r] # NoRow => h.todo[r] = store[s.table][r]
  BY <1>1, NewFrameFacts DEF Inv, TypeOK
<1>4. Len(h.body) = 0
  <2>1. h.body = <<>>
    BY DEF NewFrame
  <2> QED
    BY <2>1, EmptySeq
<1> HIDE DEF h
<1>5. FrameRefers(h, store, fk)
  BY <1>3, <1>4 DEF FrameRefers
<1>6. ~Removing(h, fk)
  BY <1>3 DEF Removing
<1>7. FramesRefer(stack', store, fk)
  BY <1>1, <1>5, <1>6 DEF FramesRefer, DeletesFirst
<1>8. Refers(stack, store, fk) => Refers(stack', store, fk)
  <2>1. Len(stack) = 0
    BY <1>1, EmptySeq
  <2> QED
    BY <2>1 DEF Refers
<1> QED
  BY <1>2, <1>7, <1>8 DEF Follows

-----------------------------------------------------------------------------
(* Cascades keep references: every step *)

\* The order of the frames, for every reference whose triggers cascade.
OrderedInv == \A fk \in schema.references : Cascades(fk) => FramesOrdered(stack, fk)

\* It is that of the triggers in every state.
THEOREM FramesStayOrdered == Spec => []OrderedInv
<1>1. Inv /\ AboveInv => OrderedInv
  BY Ordered DEF OrderedInv
<1> QED
  BY <1>1, Invariance, CascadesStayWithin, PTL

\* Which triggers cascade is a matter of the catalog.
LEMMA CascadesStay ==
  ASSUME schema' = schema
  PROVE  \A fk : Cascades(fk)' <=> Cascades(fk)
<1>1. \A t : TriggersOf(t)' = TriggersOf(t)
  BY DEF TriggersOf
<1>2. \A tables : ClosedUnderTriggers(tables)' <=> ClosedUnderTriggers(tables)
  BY <1>1 DEF ClosedUnderTriggers
<1> QED
  BY <1>1, <1>2 DEF Cascades

\* What is known of one reference.
ReferenceInv(fk) ==
    /\ FramesRefer(stack, store, fk)
    /\ failed = "none" /\ ~undoing => Refers(stack, store, fk)
    /\ failed # "kept" /\ tx # "none" => Refers(<<>>, base, fk)

\* Without frames there is nothing to know of them.
LEMMA NoFramesRefer ==
  ASSUME NEW s, NEW fk
  PROVE  FramesRefer(<<>>, s, fk)
<1>1. Len(<<>>) = 0
  BY EmptySeq
<1> QED
  BY <1>1 DEF FramesRefer, DeletesFirst

\* The steps that leave the transaction alone.
LEMMA ReferenceRuns ==
  ASSUME NEW fk, ReferenceInv(fk), Follows(fk), UNCHANGED <<tx, undoing, base, failed>>
  PROVE  ReferenceInv(fk)'
BY DEF ReferenceInv, Follows

\* A statement begins, inside a transaction or with one of its own.
LEMMA ReferenceStarts ==
  ASSUME Inv, failed = "open" => tx # "none", NEW fk, ReferenceInv(fk),
         (\E s \in Inserts \union Updates \union Deletes : Execute(s)) \/ Begin
  PROVE  ReferenceInv(fk)'
<1>1. /\ stack = <<>> /\ ~undoing /\ undoing' = undoing /\ failed' = failed /\ store' = store
      /\ (base' = base /\ tx' = tx) \/ (base' = store /\ tx = "none")
  BY DEF Execute, Begin, Call, Idle, StartTransaction, tableVars
<1>2. Follows(fk)
  <2>1. CASE Begin
    <3>1. stack' = stack
      BY <2>1 DEF Begin
    <3> QED
      BY <1>1, <3>1 DEF Follows, ReferenceInv
  <2> QED
    BY <2>1, RefersStarts
<1>3. failed' # "kept" /\ tx' # "none" => Refers(<<>>, base', fk)
  <2>1. CASE base' = base /\ tx' = tx
    BY <1>1, <2>1 DEF ReferenceInv
  <2>2. CASE base' = store /\ tx = "none"
    BY <1>1, <2>2 DEF ReferenceInv, Inv, TypeOK, Outcome
  <2> QED
    BY <1>1, <2>1, <2>2
<1> QED
  BY <1>1, <1>2, <1>3 DEF ReferenceInv, Follows

\* A statement or a transaction is through.
LEMMA ReferenceEnds ==
  ASSUME Inv, HeldInv, NEW fk, ReferenceInv(fk), Return \/ Commit
  PROVE  ReferenceInv(fk)'
<1>1. /\ undoing' = undoing /\ (failed' = "none" => failed = "none")
      /\ (base' = base /\ tx' = tx /\ failed' = failed) \/ tx' = "none"
  BY DEF Return, Commit, EndTransaction
<1>2. Follows(fk)
  <2>1. CASE Return
    BY <2>1, RefersReturn DEF ReferenceInv
  <2>2. CASE Commit
    <3>1. stack' = stack /\ store' = store
      BY <2>2 DEF Commit, Call, tableVars
    <3> QED
      BY <3>1 DEF Follows, ReferenceInv
  <2> QED
    BY <2>1, <2>2
<1> QED
  BY <1>1, <1>2 DEF ReferenceInv, Follows

\* A statement fails, or what was written is undone.
LEMMA ReferenceFails ==
  ASSUME Inv, CascadeUndone, NEW fk, ReferenceInv(fk),
         (Fail /\ stack # <<>>) \/ Rollback \/ UndoStep \/ UndoDone
  PROVE  ReferenceInv(fk)'
<1>1. stack' = <<>>
  BY DEF Fail, Rollback, Call, Idle, UndoStep, UndoDone, Inv, TxOK
<1>2. FramesRefer(stack', store', fk)
  BY <1>1, NoFramesRefer
<1>3. CASE Fail /\ stack # <<>>
  <2>1. tx \in {"shadow", "explicit"} /\ failed \in Outcome
    BY <1>3, TopFacts DEF Inv, TypeOK
  <2>2. /\ tx' = tx /\ base' = base /\ undoing' = (tx = "shadow")
        /\ failed' = IF tx = "explicit" /\ failed = "none" THEN "open" ELSE failed
    BY <1>3 DEF Fail
  <2>3. ~(failed' = "none" /\ ~undoing') /\ (failed' # "kept" => failed # "kept")
    BY <2>1, <2>2
  <2> QED
    BY <1>2, <2>2, <2>3 DEF ReferenceInv
<1>4. CASE Rollback
  BY <1>2, <1>4 DEF Rollback, ReferenceInv
<1>5. CASE UndoStep
  BY <1>2, <1>5 DEF UndoStep, ReferenceInv
<1>6. CASE UndoDone
  <2>1. /\ store = base /\ store' = store /\ stack = <<>> /\ tx # "none" /\ tx' = "none"
        /\ failed' = IF failed = "open" THEN "none" ELSE failed
    BY <1>6 DEF UndoDone, EndTransaction, CascadeUndone, tableVars, Inv, TxOK
  <2>2. failed' = "none" => Refers(<<>>, base, fk)
    BY <2>1 DEF ReferenceInv
  <2> QED
    BY <1>1, <1>2, <2>1, <2>2 DEF ReferenceInv
<1> QED
  BY <1>3, <1>4, <1>5, <1>6

\* References hold from one step to the next.
LEMMA ReferencesNext ==
  /\ Inv /\ HeldInv /\ OrderedInv /\ CascadeUndone /\ ReferencesInv
  /\ [Next]_vars /\ OrderedInv'
  => ReferencesInv'
<1> SUFFICES ASSUME Inv, HeldInv, OrderedInv, CascadeUndone, ReferencesInv, [Next]_vars,
                    OrderedInv'
             PROVE  ReferencesInv'
  OBVIOUS
<1>0. schema' = schema /\ \A fk : Cascades(fk)' <=> Cascades(fk)
  BY SchemaStays, CascadesStay
<1>1. failed = "open" => tx # "none"
  BY DEF ReferencesInv
<1>2. failed' = "open" => tx' # "none"
  <2>1. CASE Fail /\ stack # <<>>
    BY <2>1, TopFacts DEF Fail
  <2>2. CASE InsertRow \/ \E r \in RowId : ChangeRow(r)
    <3>1. stack # <<>>
      BY <2>2 DEF InsertRow, ChangeRow
    <3>2. CASE UNCHANGED <<tableVars, txnVars, overwritten>>
      BY <1>1, <3>2 DEF txnVars
    <3> QED
      BY <2>1, <2>2, <3>1, <3>2 DEF InsertRow, ChangeRow, TakeRow
  <2>3. ASSUME NEW s \in Inserts \union Updates \union Deletes, Execute(s)
        PROVE  failed' = "open" => tx' # "none"
    BY <1>1, <2>3 DEF Execute, StartTransaction
  <2>4. CASE Begin \/ Rollback \/ UndoStep \/ WriteRow
    BY <1>1, <2>4 DEF Begin, StartTransaction, Rollback, UndoStep, WriteRow
  <2>5. CASE Commit \/ Return \/ UndoDone
    BY <1>1, <2>5 DEF Commit, Return, UndoDone, EndTransaction
  <2>6. CASE FireTrigger \/ RunBody \/ RowDone \/ UNCHANGED vars
    BY <1>1, <2>6 DEF FireTrigger, RunBody, RowDone, vars, txnVars
  <2> QED
    BY <2>2, <2>3, <2>4, <2>5, <2>6 DEF Next
<1>3. ASSUME NEW fk \in schema.references, Cascades(fk)  PROVE ReferenceInv(fk)'
  <2>1. ReferenceInv(fk) /\ FramesRefer(stack, store, fk)
    BY <1>3 DEF ReferencesInv, ReferenceInv
  <2>2. FramesOrdered(stack, fk) /\ FramesOrdered(stack', fk)
    BY <1>0, <1>3 DEF OrderedInv
  <2>3. CASE (\E s \in Inserts \union Updates \union Deletes : Execute(s)) \/ Begin
    BY <1>1, <2>1, <2>3, ReferenceStarts
  <2>4. CASE Return \/ Commit
    BY <2>1, <2>4, ReferenceEnds
  <2>5. CASE (Fail /\ stack # <<>>) \/ Rollback \/ UndoStep \/ UndoDone
    BY <2>1, <2>5, ReferenceFails
  <2>6. ASSUME NEW h \in Frame, Takes(h), UNCHANGED <<tableVars, txnVars, overwritten>>
        PROVE  ReferenceInv(fk)'
    <3>1. store' = store /\ UNCHANGED <<tx, undoing, base, failed>>
      BY <2>6 DEF tableVars, txnVars
    <3>2. Follows(fk)
      BY <1>3, <2>1, <2>6, <3>1, RefersTakes
    <3> QED
      BY <2>1, <3>1, <3>2, ReferenceRuns
  <2>7. CASE InsertRow
    <3>1. stack # <<>>
      BY <2>7 DEF InsertRow
    <3> QED
      BY <2>5, <2>6, <2>7, <3>1, InsertTakes
  <2>8. ASSUME NEW r \in RowId, ChangeRow(r)  PROVE ReferenceInv(fk)'
    <3>1. stack # <<>>
      BY <2>8 DEF ChangeRow
    <3> QED
      BY <2>5, <2>6, <2>8, <3>1, ChangeTakes
  <2>9. CASE FireTrigger \/ RunBody \/ RowDone
    <3>1. UNCHANGED <<tx, undoing, base, failed>>
      BY <2>9 DEF FireTrigger, RunBody, RowDone, txnVars
    <3>2. Follows(fk)
      BY <1>3, <2>1, <2>2, <2>9, RefersFire, RefersBody, RefersDone
    <3> QED
      BY <2>1, <3>1, <3>2, ReferenceRuns
  <2>10. CASE WriteRow
    <3>1. UNCHANGED <<tx, undoing, base, failed>>
      BY <2>10 DEF WriteRow
    <3>2. Follows(fk)
      BY <1>3, <2>1, <2>2, <2>10, RefersWrite
    <3> QED
      BY <2>1, <3>1, <3>2, ReferenceRuns
  <2>11. CASE UNCHANGED vars
    <3>1. UNCHANGED <<stack, store, tx, undoing, base, failed>>
      BY <2>11 DEF vars, tableVars, txnVars
    <3> QED
      BY <2>1, <3>1 DEF ReferenceInv
  <2> QED
    BY <2>3, <2>4, <2>5, <2>7, <2>8, <2>9, <2>10, <2>11 DEF Next
<1>4. \A fk \in schema.references : Cascades(fk) => ReferenceInv(fk)'
  BY <1>3
<1> QED
  BY <1>0, <1>2, <1>4 DEF ReferencesInv, ReferenceInv

\* A table of NoRow refers to nothing.
LEMMA ReferencesInit == Init => ReferencesInv
<1> SUFFICES ASSUME Init, NEW fk \in schema.references
             PROVE  FramesRefer(stack, store, fk) /\ Refers(stack, store, fk)
  BY DEF Init, ReferencesInv
<1>1. fk.table \in Table
  BY StatementsAssumption DEF Init, Schema
<1>2. \A r \in RowId : store[fk.table][r] = NoRow
  BY <1>1 DEF Init, NoRows
<1> QED
  BY <1>2, NoFramesRefer DEF Init, Refers

\* The copies, the validated values and the cascades to come account for every
\* child, in every state.
THEOREM ReferencesKept == Spec => []ReferencesInv
BY ReferencesInit, ReferencesNext, Invariance, FramesHeld, FramesStayOrdered, CascadesAreUndone,
   PTL DEF Spec

\* FOREIGN KEY is checked when a row of the child is written and never again, and
\* ON UPDATE and ON DELETE are left to triggers (constraint.rs, trigger.rs): with
\* triggers that cascade every child has its parent between calls, for all tables,
\* rows and triggers, unless a transaction goes on after one of its statements
\* failed.
THEOREM CascadesKeep == Spec => []CascadesKeepReferences
<1>1. ReferencesInv => CascadesKeepReferences
  <2> SUFFICES ASSUME ReferencesInv, stack = <<>>, ~undoing, failed = "none",
                      NEW fk \in schema.references, Cascades(fk), NEW r \in RowId,
                      store[fk.table][r] \notin {Null, NoRow}
               PROVE  Referenced(fk.refTable, store[fk.table][r])
    BY DEF CascadesKeepReferences, Idle
  <2>1. Refers(<<>>, store, fk)
    BY DEF ReferencesInv
  <2>2. Len(<<>>) = 0
    BY EmptySeq
  <2> QED
    BY <2>1, <2>2 DEF Refers, Referenced
<1> QED
  BY <1>1, ReferencesKept, PTL
=============================================================================
