----------------------------- MODULE JoinsProofs -----------------------------
(***************************************************************************)
(* Proofs about Joins, whatever a condition evaluates to.                  *)
(***************************************************************************)
EXTENDS Joins, ListLemmas

-----------------------------------------------------------------------------
(* The tables hold possible rows, and an answer is that of its query to the  *)
(* tables as they are.                                                     *)

TypeOK ==
    /\ DOMAIN tables = Tables
    /\ \A t \in Tables : tables[t] \in Seq(Rows[t])
    /\ \/ asked = <<>>
       \/ \E q \in Queries : asked = <<q>> /\ answer = ExecuteJoins(q, TRUE)

LEMMA ExecuteJoinsReadsTables ==
    UNCHANGED tables => \A q \in Queries : ExecuteJoins(q, TRUE)' = ExecuteJoins(q, TRUE)
BY DEF ExecuteJoins, FirstRows

\* The type invariant: rows are inserted where they belong, and nothing touches
\* an answer or the tables it was read from until it is returned.
THEOREM Invariance == Spec => []TypeOK
<1>1. Init => TypeOK
  BY DEF Init, TypeOK
<1>2. TypeOK /\ [Next]_vars => TypeOK'
  <2> SUFFICES ASSUME TypeOK, [Next]_vars
               PROVE  TypeOK'
    OBVIOUS
  <2>1. ASSUME NEW t \in Tables, NEW row \in Rows[t], Insert(t, row)
        PROVE  TypeOK'
    <3>1. Append(tables[t], row) \in Seq(Rows[t])
      BY DEF TypeOK
    <3> QED
      BY <2>1, <3>1 DEF Insert, TypeOK
  <2>2. ASSUME NEW q \in Queries, Ask(q)
        PROVE  TypeOK'
    BY <2>2, ExecuteJoinsReadsTables DEF Ask, TypeOK
  <2>3. CASE Return
    BY <2>3 DEF Return, TypeOK
  <2>4. CASE UNCHANGED vars
    BY <2>4, ExecuteJoinsReadsTables DEF vars, TypeOK
  <2> QED
    BY <2>1, <2>2, <2>3, <2>4 DEF Next
<1> QED
  BY <1>1, <1>2, PTL DEF Spec

-----------------------------------------------------------------------------
(* The chain of joins, one by one *)

\* What a chain of joins has made of the rows after each of its joins.
LEMMA JoinsSteps ==
    ASSUME NEW q, NEW hash, Len(q.joins) \in Nat
    PROVE  \E f : /\ f[0] = FirstRows(q)
                  /\ \A n \in Nat : n + 1 <= Len(q.joins) =>
                        f[n + 1] = JoinStep(f[n], tables[q.joins[n + 1].table], q.joins[n + 1],
                                            q, EquiColumns(q, n + 1, hash))
                  /\ ExecuteJoins(q, hash) = f[Len(q.joins)]
<1>. DEFINE N == Len(q.joins)
            rows == FirstRows(q)
            Step(x, n) == JoinStep(x, tables[q.joins[n].table], q.joins[n],
                                   q, EquiColumns(q, n, hash))
            Body(f, m) == [n \in 0 .. m |-> IF n = 0 THEN rows ELSE Step(f[n - 1], n)]
            Exists(m) == \E f : f = Body(f, m)
<1>1. Exists(0)
  <2>. DEFINE g == [n \in 0 .. 0 |-> rows]
  <2>1. g = Body(g, 0)
    OBVIOUS
  <2> QED
    BY <2>1
<1>2. ASSUME NEW m \in Nat, Exists(m)
      PROVE  Exists(m + 1)
  <2>1. PICK f : f = Body(f, m)
    BY <1>2
  <2>. HIDE DEF Step
  <2>. DEFINE g == [n \in 0 .. m + 1 |-> IF n = m + 1 THEN Step(f[m], n) ELSE f[n]]
  <2>2. \A n \in 0 .. m + 1 : g[n] = Body(g, m + 1)[n]
    <3> SUFFICES ASSUME NEW n \in 0 .. m + 1
                 PROVE  g[n] = Body(g, m + 1)[n]
      OBVIOUS
    <3>1. CASE n = m + 1
      <4>1. g[n - 1] = f[m] /\ n # 0
        BY <3>1
      <4> QED
        BY <3>1, <4>1
    <3>2. CASE n \in 0 .. m
      <4>1. n # 0 => n - 1 \in 0 .. m /\ g[n - 1] = f[n - 1]
        BY <3>2
      <4>2. g[n] = f[n] /\ f[n] = Body(f, m)[n]
        BY <2>1, <3>2
      <4> QED
        BY <3>2, <4>1, <4>2
    <3> QED
      BY <3>1, <3>2
  <2>3. g = Body(g, m + 1)
    BY <2>2
  <2> QED
    BY <2>3
<1>3. Exists(N)
  <2>. DEFINE S == {m \in Nat : Exists(m)}
  <2>. HIDE DEF Exists
  <2>1. 0 \in S /\ \A m \in S : m + 1 \in S
    BY <1>1, <1>2
  <2>2. S \subseteq Nat
    OBVIOUS
  <2>. HIDE DEF S
  <2>3. \A m \in Nat : m \in S
    BY <2>1, <2>2, InductionOnNat
  <2> QED
    BY <2>3 DEF S
<1>. DEFINE R == CHOOSE f : f = Body(f, N)
<1>4. R = Body(R, N)
  BY <1>3
<1>5. ExecuteJoins(q, hash) = R[N]
  BY DEF ExecuteJoins
<1>. HIDE DEF R
<1>6. R[0] = rows
  BY <1>4
<1>7. ASSUME NEW n \in Nat, n + 1 <= N
      PROVE  R[n + 1] = Step(R[n], n + 1)
  <2>1. n + 1 \in 0 .. N /\ n + 1 # 0 /\ (n + 1) - 1 = n
    BY <1>7
  <2>. HIDE DEF Step
  <2> QED
    BY <1>4, <2>1
<1> QED
  BY <1>5, <1>6, <1>7

-----------------------------------------------------------------------------
(* Combined rows *)

LEMMA NoNames == DOMAIN <<>> = {}
OBVIOUS

LEMMA RowDomain ==
    ASSUME NEW t \in Tables, NEW row \in Rows[t]
    PROVE  DOMAIN row = Columns(t) /\ DOMAIN row \subseteq AllColumns
<1>1. (CHOOSE r \in Rows[t] : TRUE) \in Rows[t]
  OBVIOUS
<1>2. DOMAIN row = Columns(t)
  BY <1>1, TableAssumption DEF Columns
<1> QED
  BY <1>2 DEF AllColumns

\* Under the names the columns C have their own qualified names, and no bare
\* name is one of these.
Apart(names, C) ==
    \A n \in names : \A c \in C :
        /\ Qualified(n, c) \notin C
        /\ \A m \in names : \A d \in C : Qualified(n, c) = Qualified(m, d) => n = m /\ c = d

PrefixOf(row, n, f) ==
    /\ DOMAIN f = {Qualified(n, c) : c \in DOMAIN row}
    /\ \A c \in DOMAIN row : f[Qualified(n, c)] = row[c]

LEMMA PrefixedIs ==
    ASSUME NEW names, NEW C, Apart(names, C), NEW n \in names, NEW row, DOMAIN row \subseteq C
    PROVE  PrefixOf(row, n, Prefixed(n, row))
<1>1. DOMAIN Prefixed(n, row) = {Qualified(n, c) : c \in DOMAIN row}
  BY DEF Prefixed
<1>2. ASSUME NEW c \in DOMAIN row
      PROVE  Prefixed(n, row)[Qualified(n, c)] = row[c]
  <2>. DEFINE d == CHOOSE x \in DOMAIN row : Qualified(n, x) = Qualified(n, c)
  <2>1. d \in DOMAIN row /\ Qualified(n, d) = Qualified(n, c)
    OBVIOUS
  <2>2. d = c
    <3>. HIDE DEF d
    <3> QED
      BY <2>1 DEF Apart
  <2>3. Prefixed(n, row)[Qualified(n, c)] = row[d]
    BY DEF Prefixed
  <2> QED
    BY <2>2, <2>3
<1> QED
  BY <1>1, <1>2 DEF PrefixOf

LEMMA OverIs ==
    ASSUME NEW f, NEW g
    PROVE  /\ DOMAIN Over(f, g) = DOMAIN f \union DOMAIN g
           /\ \A k \in DOMAIN f : Over(f, g)[k] = f[k]
           /\ \A k \in DOMAIN g : k \notin DOMAIN f => Over(f, g)[k] = g[k]
BY DEF Over

\* What inserting a row leaves under every name.
Inserted(old, n, row, new) ==
    /\ DOMAIN new = {Qualified(n, c) : c \in DOMAIN row} \union DOMAIN old \union DOMAIN row
    /\ \A c \in DOMAIN row : new[Qualified(n, c)] = row[c]
    /\ \A k \in DOMAIN old : k \notin {Qualified(n, c) : c \in DOMAIN row} => new[k] = old[k]
    /\ \A c \in DOMAIN row : c \notin DOMAIN old => new[c] = row[c]

LEMMA InsertIs ==
    ASSUME NEW names, NEW C, Apart(names, C), NEW n \in names,
           NEW row, DOMAIN row \subseteq C, NEW old
    PROVE  Inserted(old, n, row, InsertRowQualified(old, n, row))
<1>. DEFINE f == Prefixed(n, row)
            g == Over(old, row)
<1>1. InsertRowQualified(old, n, row) = Over(f, g)
  BY DEF InsertRowQualified
<1>2. /\ DOMAIN f = {Qualified(n, c) : c \in DOMAIN row}
      /\ \A c \in DOMAIN row : f[Qualified(n, c)] = row[c]
  <2>1. PrefixOf(row, n, Prefixed(n, row))
    BY PrefixedIs
  <2> QED
    BY <2>1 DEF PrefixOf
<1>3. /\ DOMAIN g = DOMAIN old \union DOMAIN row
      /\ \A k \in DOMAIN old : g[k] = old[k]
      /\ \A k \in DOMAIN row : k \notin DOMAIN old => g[k] = row[k]
  BY OverIs
<1>4. \A c \in DOMAIN row : c \notin DOMAIN f
  BY <1>2 DEF Apart
<1>. HIDE DEF f, g
<1>5. /\ DOMAIN Over(f, g) = DOMAIN f \union DOMAIN g
      /\ \A k \in DOMAIN f : Over(f, g)[k] = f[k]
      /\ \A k \in DOMAIN g : k \notin DOMAIN f => Over(f, g)[k] = g[k]
  BY OverIs
<1> QED
  BY <1>1, <1>2, <1>3, <1>4, <1>5 DEF Inserted

-----------------------------------------------------------------------------
(* The hash join *)

LEMMA AtMostOne ==
    ASSUME NEW S, NEW s \in Seq(S), Len(s) <= 1
    PROVE  Len(s) = 1 \/ Len(s) = 0
<1>1. ASSUME NEW n \in Nat, n <= 1
      PROVE  n = 1 \/ n = 0
  BY <1>1
<1>2. Len(s) \in Nat
  BY LenProperties
<1> QED
  BY <1>1, <1>2

\* What extract_equi_join has found when it has found something.
FoundBy(join, name1, cols, e) ==
    /\ ToSet(join.on) = {e} /\ e.op = "="
    /\ e.args[1].op = "qcol" /\ e.args[2].op = "qcol"
    /\ ExtractEquiJoin(join, name1) = {cols}
    /\ join.as # name1
    /\ \/ /\ e.args[1].table = name1 /\ e.args[2].table = join.as
          /\ cols = <<e.args[1].name, e.args[2].name>>
       \/ /\ e.args[2].table = name1 /\ e.args[1].table = join.as
          /\ cols = <<e.args[2].name, e.args[1].name>>

LEMMA EquiJoinIs ==
    ASSUME NEW join, NEW name1, join.on \in Seq(ToSet(join.on)), Len(join.on) <= 1,
           NEW cols \in ExtractEquiJoin(join, name1)
    PROVE  \E e : FoundBy(join, name1, cols, e)
<1>. DEFINE side(e) == IF e.op # "qcol" THEN 0
                       ELSE IF e.table = name1 THEN 1
                       ELSE IF e.table = join.as THEN 2 ELSE 0
            found(e) == IF e.op # "=" THEN {}
                        ELSE CASE side(e.args[1]) = 1 /\ side(e.args[2]) = 2 ->
                                      {<<e.args[1].name, e.args[2].name>>}
                               [] side(e.args[1]) = 2 /\ side(e.args[2]) = 1 ->
                                      {<<e.args[2].name, e.args[1].name>>}
                               [] OTHER -> {}
<1>1. ExtractEquiJoin(join, name1) = UNION {found(e) : e \in ToSet(join.on)}
  BY DEF ExtractEquiJoin
<1>2. PICK e : e \in ToSet(join.on) /\ cols \in found(e)
  <2>. HIDE DEF found
  <2> QED
    BY <1>1
<1>3. ToSet(join.on) = {e}
  <2>1. ToSet(join.on) = {join.on[i] : i \in 1 .. Len(join.on)}
    BY DEF ToSet
  <2>2. Len(join.on) = 1 \/ Len(join.on) = 0
    BY AtMostOne
  <2> QED
    BY <1>2, <2>1, <2>2
<1>4. ExtractEquiJoin(join, name1) = found(e)
  <2>. HIDE DEF found
  <2> QED
    BY <1>1, <1>3
<1>5. e.op = "="
  BY <1>2
<1>6. CASE side(e.args[1]) = 1 /\ side(e.args[2]) = 2
  <2>1. found(e) = {<<e.args[1].name, e.args[2].name>>}
    BY <1>5, <1>6
  <2>2. /\ e.args[1].op = "qcol" /\ e.args[2].op = "qcol"
        /\ e.args[1].table = name1 /\ e.args[2].table = join.as /\ join.as # name1
    BY <1>6
  <2>. HIDE DEF found
  <2> QED
    BY <1>2, <1>3, <1>4, <1>5, <2>1, <2>2 DEF FoundBy
<1>7. CASE side(e.args[1]) = 2 /\ side(e.args[2]) = 1
  <2>1. found(e) = {<<e.args[2].name, e.args[1].name>>}
    BY <1>5, <1>7
  <2>2. /\ e.args[1].op = "qcol" /\ e.args[2].op = "qcol"
        /\ e.args[2].table = name1 /\ e.args[1].table = join.as /\ join.as # name1
    BY <1>7
  <2>. HIDE DEF found
  <2> QED
    BY <1>2, <1>3, <1>4, <1>5, <2>1, <2>2 DEF FoundBy
<1> QED
  BY <1>2, <1>5, <1>6, <1>7

LEMMA SameCanonical ==
    ASSUME NEW v, NEW w, Canonical(v), Canonical(w)
    PROVE  /\ Same(v, w) = SameKey(v, w)
           /\ Same(w, v) = SameKey(v, w)
<1>1. {v, w} # {Real(0), MinusZero} /\ {w, v} # {Real(0), MinusZero}
  BY DEF Canonical
<1> QED
  BY <1>1 DEF Same, SameKey, Canonical

LEMMA QueryIs ==
    ASSUME NEW q \in Queries
    PROVE  /\ q.table \in Tables /\ q.joins \in Seq(ToSet(q.joins)) /\ Len(q.joins) \in Nat
           /\ q.as \in NamesOf(q) /\ Apart(NamesOf(q), AllColumns)
           /\ \A k \in 1 .. Len(q.joins) :
                 /\ q.joins[k].table \in Tables
                 /\ q.joins[k].on \in Seq(ToSet(q.joins[k].on)) /\ Len(q.joins[k].on) <= 1
                 /\ q.joins[k] \in ToSet(q.joins) /\ q.joins[k].as \in NamesOf(q)
<1>1. q.joins \in Seq(ToSet(q.joins))
  BY QueryAssumption
<1>2. \A k \in 1 .. Len(q.joins) : q.joins[k] \in ToSet(q.joins)
  BY DEF ToSet
<1>3. Len(q.joins) \in Nat
  BY <1>1, LenProperties
<1>4. Apart(NamesOf(q), AllColumns)
  BY QueryAssumption DEF Apart
<1>5. q.as \in NamesOf(q) /\ \A j \in ToSet(q.joins) : j.as \in NamesOf(q)
  BY DEF NamesOf
<1> QED
  BY <1>1, <1>2, <1>3, <1>4, <1>5, QueryAssumption

\* A row of a table under its qualified names alone, as a query starts with it.
LEMMA FirstRowIs ==
    ASSUME TypeOK, NEW q \in Queries, NEW i \in DOMAIN FirstRows(q)
    PROVE  \E r \in Rows[q.table] :
              /\ r \in ToSet(tables[q.table])
              /\ DOMAIN r = Columns(q.table) /\ DOMAIN r \subseteq AllColumns
              /\ FirstRows(q)[i] = InsertRowQualified(<<>>, q.as, r)
              /\ \A c \in DOMAIN r : FirstRows(q)[i][Qualified(q.as, c)] = r[c]
              /\ \A c \in DOMAIN r : FirstRows(q)[i][c] = r[c]
              /\ DOMAIN FirstRows(q)[i] = {Qualified(q.as, c) : c \in DOMAIN r} \union DOMAIN r
<1>. DEFINE r == tables[q.table][i]
<1>1. i \in DOMAIN tables[q.table] /\ FirstRows(q)[i] = InsertRowQualified(<<>>, q.as, r)
  BY DEF FirstRows
<1>2. q.table \in Tables /\ tables[q.table] \in Seq(Rows[q.table])
  BY QueryIs DEF TypeOK
<1>3. r \in Rows[q.table] /\ r \in ToSet(tables[q.table])
  BY <1>1, <1>2, ElementOfSeq DEF ToSet
<1>4. DOMAIN r = Columns(q.table) /\ DOMAIN r \subseteq AllColumns
  BY <1>2, <1>3, RowDomain
<1>. HIDE DEF r
<1>5. Inserted(<<>>, q.as, r, InsertRowQualified(<<>>, q.as, r))
  BY <1>4, QueryIs, InsertIs
<1> QED
  BY <1>1, <1>3, <1>4, <1>5, NoNames DEF Inserted

LEMMA NotEmpty ==
    ASSUME NEW S, NEW s \in Seq(S), s # <<>>
    PROVE  1 \in 1 .. Len(s)
<1>1. ASSUME NEW n \in Nat, n # 0
      PROVE  1 \in 1 .. n
  BY <1>1
<1>2. Len(s) \in Nat /\ Len(s) # 0
  BY LenProperties, EmptySeq
<1> QED
  BY <1>1, <1>2

\* What OnAsWritten says of one query.
Written(q) ==
    \A join \in ToSet(q.joins) : \A e \in ToSet(join.on) :
        e.op = "=" /\ e.args[1].op = "qcol" /\ e.args[2].op = "qcol" =>
            \A row1 \in ToSet(FirstRows(q)), row2 \in ToSet(tables[join.table]) :
                LET combined == InsertRowQualified(row1, join.as, row2)
                    side(x) == LookupQualified(combined, x.table, x.name)
                IN Holds(e, combined, q.params, 0).holds = Same(side(e.args[1]), side(e.args[2]))

\* In the first hop both joins find the same partners.
LEMMA HashFinds ==
    ASSUME TypeOK, NEW q \in Queries, Written(q), HashTrusted(q),
           NEW cols \in EquiColumns(q, 1, TRUE), NEW i \in DOMAIN FirstRows(q),
           NEW j \in DOMAIN tables[q.joins[1].table]
    PROVE  LET join == q.joins[1]
               row1 == FirstRows(q)[i]
               rows2 == tables[join.table]
           IN (j \in Partners(row1, rows2, join, q.params)) <=> (j \in HashPartners(row1, rows2, q.as, cols))
<1>. DEFINE join == q.joins[1]
            row1 == FirstRows(q)[i]
            rows2 == tables[join.table]
            row2 == rows2[j]
            combined == InsertRowQualified(row1, join.as, row2)
            side(x) == LookupQualified(combined, x.table, x.name)
            c1 == cols[1]
            c2 == cols[2]
<1>1. q.joins # <<>> /\ cols \in ExtractEquiJoin(join, q.as)
  BY DEF EquiColumns
<1>2. 1 \in 1 .. Len(q.joins)
  <2>1. q.joins \in Seq(ToSet(q.joins))
    BY QueryIs
  <2> QED
    BY <1>1, <2>1, NotEmpty
<1>3. /\ join.table \in Tables /\ join \in ToSet(q.joins) /\ join.as \in NamesOf(q)
      /\ join.on \in Seq(ToSet(join.on)) /\ Len(join.on) <= 1
  BY <1>2, QueryIs
<1>4. PICK e : FoundBy(join, q.as, cols, e)
  <2>. HIDE DEF join
  <2> QED
    BY <1>1, <1>3, EquiJoinIs
<1>. USE DEF FoundBy
<1>5. PICK r \in Rows[q.table] :
              /\ r \in ToSet(tables[q.table])
              /\ DOMAIN r = Columns(q.table) /\ DOMAIN r \subseteq AllColumns
              /\ \A c \in DOMAIN r : row1[Qualified(q.as, c)] = r[c]
              /\ DOMAIN row1 = {Qualified(q.as, c) : c \in DOMAIN r} \union DOMAIN r
  BY FirstRowIs
<1>6. /\ row2 \in Rows[join.table] /\ row2 \in ToSet(rows2)
      /\ DOMAIN row2 = Columns(join.table) /\ DOMAIN row2 \subseteq AllColumns
  <2>1. rows2 \in Seq(Rows[join.table])
    BY <1>3 DEF TypeOK
  <2>2. row2 \in Rows[join.table] /\ row2 \in ToSet(rows2)
    BY <2>1, ElementOfSeq DEF ToSet
  <2> QED
    BY <1>3, <2>2, RowDomain
<1>7. c1 \in DOMAIN r /\ c2 \in DOMAIN row2 /\ Canonical(r[c1]) /\ Canonical(row2[c2])
  <2>1. q.table \in Tables
    BY QueryIs
  <2> QED
    BY <1>3, <1>5, <1>6, <2>1 DEF HashTrusted
<1>8. row1 \in ToSet(FirstRows(q))
  BY DEF ToSet
<1>. DEFINE q1 == Qualified(q.as, c1)
            q2 == Qualified(join.as, c2)
<1>9. q1 \in DOMAIN row1 /\ row1[q1] = r[c1]
  BY <1>5, <1>7
<1>10. /\ q1 \in DOMAIN combined /\ combined[q1] = r[c1]
       /\ q2 \in DOMAIN combined /\ combined[q2] = row2[c2]
  <2>. HIDE DEF join, row1, row2, combined, q1, q2, c1, c2
  <2>1. Apart(NamesOf(q), AllColumns)
    BY QueryIs
  <2>2. Inserted(row1, join.as, row2, combined)
    BY <1>3, <1>6, <2>1, InsertIs DEF combined
  <2>3. q1 \notin {Qualified(join.as, c) : c \in DOMAIN row2}
    <3>1. c1 \in AllColumns /\ q.as \in NamesOf(q)
      BY <1>5, <1>7, QueryIs
    <3> QED
      BY <1>3, <1>4, <1>6, <2>1, <3>1 DEF Apart, q1
  <2> QED
    BY <1>7, <1>9, <2>2, <2>3 DEF q2, Inserted
<1>. HIDE DEF c1, c2
<1>11. (j \in HashPartners(row1, rows2, q.as, cols)) <=> SameKey(r[c1], row2[c2])
  BY <1>7, <1>9 DEF HashPartners, c1, c2
<1>. HIDE DEF join, row1, row2, rows2, combined
<1>12. (j \in Partners(row1, rows2, join, q.params)) <=> Holds(e, combined, q.params, 0).holds
  <2>1. join.on # <<>>
    BY <1>4 DEF ToSet
  <2>2. join.using = {}
    BY <1>3, <2>1, QueryAssumption
  <2> QED
    BY <1>4, <2>2 DEF Partners, Matches, combined, row2, rows2, join
<1>13. Holds(e, combined, q.params, 0).holds = Same(side(e.args[1]), side(e.args[2]))
  BY <1>3, <1>4, <1>6, <1>8 DEF Written, combined, rows2
<1>14. LookupQualified(combined, q.as, c1) = r[c1] /\ LookupQualified(combined, join.as, c2) = row2[c2]
  BY <1>10 DEF LookupQualified, Lookup
<1>15. \/ side(e.args[1]) = r[c1] /\ side(e.args[2]) = row2[c2]
       \/ side(e.args[1]) = row2[c2] /\ side(e.args[2]) = r[c1]
  BY <1>4, <1>14 DEF c1, c2
<1>. HIDE DEF side
<1>16. Holds(e, combined, q.params, 0).holds = SameKey(r[c1], row2[c2])
  BY <1>7, <1>13, <1>15, SameCanonical
<1>17. (j \in Partners(row1, rows2, join, q.params)) <=> (j \in HashPartners(row1, rows2, q.as, cols))
  BY <1>11, <1>12, <1>16
<1> QED
  BY <1>17 DEF join, row1, rows2

\* The first hop of the chain is the same either way.
LEMMA FirstHop ==
    ASSUME TypeOK, NEW q \in Queries, Written(q), HashTrusted(q)
    PROVE  JoinStep(FirstRows(q), tables[q.joins[1].table], q.joins[1], q, EquiColumns(q, 1, TRUE))
           = JoinStep(FirstRows(q), tables[q.joins[1].table], q.joins[1], q, {})
<1>. DEFINE join == q.joins[1]
            rows2 == tables[join.table]
            cols == CHOOSE c \in EquiColumns(q, 1, TRUE) : TRUE
            result == FirstRows(q)
            equi == EquiColumns(q, 1, TRUE)
<1>1. CASE equi = {}
  BY <1>1
<1>2. CASE equi # {}
  <2>1. cols \in equi
    BY <1>2
  <2>. HIDE DEF cols
  <2>2. \A i \in DOMAIN result : Partners(result[i], rows2, join, q.params) = HashPartners(result[i], rows2, q.as, cols)
    <3> SUFFICES ASSUME NEW i \in DOMAIN result
                 PROVE  Partners(result[i], rows2, join, q.params) = HashPartners(result[i], rows2, q.as, cols)
      OBVIOUS
    <3>1. \A j \in DOMAIN rows2 :
             (j \in Partners(result[i], rows2, join, q.params)) <=> (j \in HashPartners(result[i], rows2, q.as, cols))
      BY <2>1, HashFinds
    <3>2. /\ Partners(result[i], rows2, join, q.params) \subseteq DOMAIN rows2
          /\ HashPartners(result[i], rows2, q.as, cols) \subseteq DOMAIN rows2
      BY DEF Partners, HashPartners
    <3>. HIDE DEF join, rows2, result
    <3> QED
      BY <3>1, <3>2
  <2>. DEFINE Rest(i, partners) ==
                LET pairs == Combine(result[i], rows2, partners, join)
                IN IF join.kind \in {"left", "full"} THEN Outer(result[i], pairs, join) ELSE pairs
            Found(i, c) == IF c = {} THEN Partners(result[i], rows2, join, q.params)
                           ELSE HashPartners(result[i], rows2, q.as, CHOOSE d \in c : TRUE)
            Left(c) == [i \in DOMAIN result |-> Rest(i, Found(i, c))]
  <2>3. \A c : LeftSide(result, rows2, join, q, c) = FlattenSeq(Left(c))
    BY DEF LeftSide
  <2>4. \A i \in DOMAIN result : Found(i, equi) = Found(i, {})
    BY <1>2, <2>2 DEF cols
  <2>. HIDE DEF Rest, Found, join, rows2, result, equi
  <2>5. LeftSide(result, rows2, join, q, equi) = LeftSide(result, rows2, join, q, {})
    <3>1. Left(equi) = Left({})
      BY <2>4
    <3>. HIDE DEF Left
    <3> QED
      BY <2>3, <3>1
  <2>6. JoinStep(result, rows2, join, q, equi) = JoinStep(result, rows2, join, q, {})
    BY <2>5 DEF JoinStep
  <2> QED
    BY <2>6 DEF join, rows2, result, equi
<1> QED
  BY <1>1, <1>2

LEMMA HashJoinAgrees ==
    ASSUME TypeOK, NEW q \in Queries, Written(q), HashTrusted(q)
    PROVE  ExecuteJoins(q, TRUE) = ExecuteJoins(q, FALSE)
<1>. DEFINE N == Len(q.joins)
            Step(x, n) == JoinStep(x, tables[q.joins[n].table], q.joins[n],
                                   q, EquiColumns(q, n, TRUE))
            Nested(x, n) == JoinStep(x, tables[q.joins[n].table], q.joins[n],
                                     q, EquiColumns(q, n, FALSE))
<1>1. N \in Nat
  BY QueryIs
<1>2. PICK f : /\ f[0] = FirstRows(q)
               /\ \A n \in Nat : n + 1 <= N => f[n + 1] = Step(f[n], n + 1)
               /\ ExecuteJoins(q, TRUE) = f[N]
  BY <1>1, JoinsSteps
<1>3. PICK g : /\ g[0] = FirstRows(q)
               /\ \A n \in Nat : n + 1 <= N => g[n + 1] = Nested(g[n], n + 1)
               /\ ExecuteJoins(q, FALSE) = g[N]
  BY <1>1, JoinsSteps
<1>4. Step(FirstRows(q), 1) = Nested(FirstRows(q), 1)
  <2>1. EquiColumns(q, 1, FALSE) = {}
    BY DEF EquiColumns
  <2> QED
    BY <2>1, FirstHop
<1>5. \A n \in Nat : n # 0 => \A x : Step(x, n + 1) = Nested(x, n + 1)
  BY DEF EquiColumns
<1>. DEFINE T == {n \in Nat : n <= N => f[n] = g[n]}
<1>. HIDE DEF Step, Nested, N
<1>6. 0 \in T /\ T \subseteq Nat
  BY <1>2, <1>3
<1>7. ASSUME NEW n \in T
      PROVE  n + 1 \in T
  <2>1. CASE n + 1 <= N /\ n = 0
    BY <1>2, <1>3, <1>4, <2>1
  <2>2. CASE n + 1 <= N /\ n # 0
    <3>1. n \in Nat /\ f[n] = g[n]
      BY <1>1, <2>2
    <3>2. f[n + 1] = Step(f[n], n + 1) /\ g[n + 1] = Nested(g[n], n + 1)
      BY <1>2, <1>3, <2>2, <3>1
    <3> QED
      BY <1>5, <2>2, <3>1, <3>2
  <2> QED
    BY <2>1, <2>2
<1>. HIDE DEF T
<1>8. N \in T
  BY <1>1, <1>6, <1>7, InductionOnNat
<1>9. f[N] = g[N]
  BY <1>1, <1>8 DEF T
<1> QED
  BY <1>2, <1>3, <1>9, Zenon

LEMMA AskedIs ==
    ASSUME TypeOK, NEW q \in ToSet(asked)
    PROVE  q \in Queries /\ answer = ExecuteJoins(q, TRUE)
<1>1. asked # <<>>
  BY DEF ToSet
<1>2. PICK p \in Queries : asked = <<p>> /\ answer = ExecuteJoins(p, TRUE)
  BY <1>1 DEF TypeOK
<1>3. ToSet(asked) = {p}
  BY <1>2 DEF ToSet
<1> QED
  BY <1>2, <1>3

\* Where an ON compares what it names, the hash join gives the rows of the nested
\* loop, whatever the tables, the chain and the rows.
THEOREM HashJoinIsRight == Spec /\ []OnAsWritten => []HashJoinIsNestedLoop
<1>1. TypeOK /\ OnAsWritten => HashJoinIsNestedLoop
  <2> SUFFICES ASSUME TypeOK, OnAsWritten, NEW q \in ToSet(asked), HashTrusted(q)
               PROVE  answer = ExecuteJoins(q, FALSE)
    BY DEF HashJoinIsNestedLoop
  <2>1. q \in Queries /\ answer = ExecuteJoins(q, TRUE)
    BY AskedIs
  <2>2. Written(q)
    BY DEF OnAsWritten, Written
  <2> QED
    BY <2>1, <2>2, HashJoinAgrees
<1> QED
  BY <1>1, Invariance, PTL

-----------------------------------------------------------------------------
(* What a join makes its rows of *)

MadeBy(join, S, R, result) ==
    {InsertRowQualified(s, join.as, r) : s \in S, r \in R}
    \union {PadRight(s, join) : s \in {x \in S : join.kind \in {"left", "full"}}}
    \union {PadLeft(result, join, r) : r \in R}

LEMMA OneRow == \A S, x : x \in S => <<x>> \in Seq(S)
OBVIOUS

LEMMA NoRows == \A S : <<>> \in Seq(S)
OBVIOUS

LEMMA JoinStepIs ==
    ASSUME NEW S, NEW R, NEW result \in Seq(S), NEW rows2 \in Seq(R), NEW join, NEW q, NEW cols
    PROVE  JoinStep(result, rows2, join, q, cols) \in Seq(MadeBy(join, S, R, result))
<1>. DEFINE M == MadeBy(join, S, R, result)
            Found(i) == IF cols = {} THEN Partners(result[i], rows2, join, q.params)
                        ELSE HashPartners(result[i], rows2, q.as, CHOOSE c \in cols : TRUE)
            Pairs(i) == Combine(result[i], rows2, Found(i), join)
            Parts == [i \in DOMAIN result |->
                         IF join.kind \in {"left", "full"} THEN Outer(result[i], Pairs(i), join)
                         ELSE Pairs(i)]
            alone == UnmatchedRight(result, rows2, join, q.params)
            padded == [j \in DOMAIN alone |-> PadLeft(result, join, alone[j])]
<1>1. \A r \in R : PadLeft(result, join, r) \in M
  BY DEF MadeBy
<1>2. \A s \in S : \A r \in R : InsertRowQualified(s, join.as, r) \in M
  BY DEF MadeBy
<1>3. join.kind \in {"left", "full"} => \A s \in S : PadRight(s, join) \in M
  BY DEF MadeBy
<1>. HIDE DEF M
<1>4. IsSeq(result) /\ \A i \in 1 .. Len(result) : result[i] \in S
  BY IsSeqIs, ElementOfSeq
<1>5. ASSUME NEW i \in 1 .. Len(result)
      PROVE  Pairs(i) \in Seq(M)
  <2>. DEFINE found == Picked(rows2, Found(i))
  <2>1. found \in Seq(R)
    BY PickedIs
  <2>2. Pairs(i) = [j \in DOMAIN found |-> InsertRowQualified(result[i], join.as, found[j])]
    BY DEF Combine
  <2>. HIDE DEF found, Pairs
  <2>3. DOMAIN found = 1 .. Len(found) /\ Len(found) \in Nat /\ \A j \in 1 .. Len(found) : found[j] \in R
    BY <2>1, LenProperties, ElementOfSeq
  <2>4. \A j \in 1 .. Len(found) : Pairs(i)[j] \in M
    BY <1>2, <1>4, <2>2, <2>3
  <2>5. DOMAIN Pairs(i) = 1 .. Len(found) /\ Pairs(i) = [j \in DOMAIN Pairs(i) |-> Pairs(i)[j]]
    BY <2>2, <2>3
  <2> QED
    BY <2>3, <2>4, <2>5, SeqIs
<1>. HIDE DEF Pairs
<1>6. LeftSide(result, rows2, join, q, cols) = FlattenSeq(Parts)
  BY DEF LeftSide, Pairs
<1>7. FlattenSeq(Parts) \in Seq(M)
  <2>1. \A i \in 1 .. Len(result) : Parts[i] \in Seq(M)
    <3> SUFFICES ASSUME NEW i \in 1 .. Len(result)
                 PROVE  Parts[i] \in Seq(M)
      OBVIOUS
    <3>1. i \in DOMAIN result
      BY <1>4 DEF IsSeq
    <3>2. CASE join.kind \in {"left", "full"} /\ Pairs(i) = <<>>
      <4>1. Parts[i] = <<PadRight(result[i], join)>>
        BY <3>1, <3>2 DEF Outer
      <4>2. PadRight(result[i], join) \in M
        BY <1>3, <1>4, <3>2
      <4>. HIDE DEF Parts
      <4> QED
        BY <4>1, <4>2, OneRow
    <3>3. CASE ~(join.kind \in {"left", "full"} /\ Pairs(i) = <<>>)
      <4>1. Parts[i] = Pairs(i)
        BY <3>1, <3>3 DEF Outer
      <4> QED
        BY <1>5, <4>1
    <3> QED
      BY <3>2, <3>3
  <2>2. DOMAIN Parts = DOMAIN result /\ Parts = [i \in DOMAIN Parts |-> Parts[i]]
    OBVIOUS
  <2>. HIDE DEF Parts
  <2>3. IsSeq(Parts) /\ Len(Parts) = Len(result)
    BY <1>4, <2>2, MappedIs
  <2> QED
    BY <2>1, <2>3, FlattenIs
<1>8. padded \in Seq(M)
  <2>1. alone \in Seq(R)
    BY PickedIs DEF UnmatchedRight
  <2>. HIDE DEF alone
  <2>2. DOMAIN alone = 1 .. Len(alone) /\ Len(alone) \in Nat /\ \A j \in 1 .. Len(alone) : alone[j] \in R
    BY <2>1, LenProperties, ElementOfSeq
  <2>3. \A j \in 1 .. Len(alone) : padded[j] \in M
    BY <1>1, <2>2
  <2>4. DOMAIN padded = 1 .. Len(alone) /\ padded = [j \in DOMAIN padded |-> padded[j]]
    BY <2>2
  <2>. HIDE DEF padded
  <2> QED
    BY <2>2, <2>3, <2>4, SeqIs
<1>. DEFINE right == IF join.kind \notin {"right", "full"} THEN <<>> ELSE padded
<1>9. right \in Seq(M)
  BY <1>8, NoRows
<1>10. JoinStep(result, rows2, join, q, cols) = FlattenSeq(Parts) \o right
  BY <1>6 DEF JoinStep
<1>. HIDE DEF Parts, right
<1>11. JoinStep(result, rows2, join, q, cols) \in Seq(M)
  BY <1>7, <1>9, <1>10, ConcatProperties
<1> QED
  BY <1>11 DEF M

-----------------------------------------------------------------------------
(* Bare names *)

\* The tables of the first k joins: their columns and their names.
BareUpTo(q, k) == Columns(q.table) \union UNION {Columns(q.joins[i].table) : i \in 1 .. k}
NamesUpTo(q, k) == {q.as} \union {q.joins[i].as : i \in 1 .. k}

\* One of them has column c and was padded for want of a row.
Padded(q, k, row, c) ==
    /\ row[c] = Null
    /\ \E i \in 1 .. k :
          /\ q.joins[i].kind \in {"left", "full"} /\ c \in Columns(q.joins[i].table)
          /\ \A d \in Columns(q.joins[i].table) :
                Qualified(q.joins[i].as, d) \in DOMAIN row /\ row[Qualified(q.joins[i].as, d)] = Null

\* Of the names in row, which k joins have made, the bare ones are those of the
\* first table that has them.
BareIsFirst(q, k, row) ==
    \A c \in BareUpTo(q, k) :
        LET name == Qualified(FirstWith(q, c), c)
        IN name \in DOMAIN row => c \in DOMAIN row /\ (row[c] = row[name] \/ Padded(q, k, row, c))

NamesAre(q, k, row) ==
    \A x \in DOMAIN row :
        \/ x \in BareUpTo(q, k)
        \/ \E n \in NamesUpTo(q, k) : \E c \in AllColumns : x = Qualified(n, c)

Fits(q, k, row) == NamesAre(q, k, row) /\ BareIsFirst(q, k, row)

LEMMA LeastIndex ==
    ASSUME NEW S, S \subseteq Nat, S # {}
    PROVE  \E x \in S : \A y \in S : ~(y < x)
<1>1. PICK x \in S : \A y \in S : ~ (<<y, x>> \in OpToRel(<, Nat))
  BY WFMin, NatLessThanWellFounded
<1>2. ASSUME NEW y \in S, y < x
      PROVE  FALSE
  <2>1. <<y, x>> \in {ss \in Nat \X Nat : ss[1] < ss[2]}
    BY <1>2
  <2> QED
    BY <1>1, <2>1 DEF OpToRel
<1> QED
  BY <1>1, <1>2

\* The first table with a column is among the first k when one of these has it,
\* and is the next when only that has it.
LEMMA FirstWithIs ==
    ASSUME NEW q \in Queries, NEW k \in Nat, k <= Len(q.joins)
    PROVE  /\ \A c \in BareUpTo(q, k) : FirstWith(q, c) \in NamesUpTo(q, k)
           /\ k + 1 <= Len(q.joins) =>
                 \A c \in Columns(q.joins[k + 1].table) :
                     c \notin BareUpTo(q, k) => FirstWith(q, c) = q.joins[k + 1].as
<1>. DEFINE N == Len(q.joins)
            Cols(i) == Columns(q.joins[i].table)
            First(c, i) == c \in Cols(i) /\ \A j \in 1 .. i - 1 : c \notin Cols(j)
<1>1. N \in Nat /\ DOMAIN q.joins = 1 .. N
  BY QueryIs, LenProperties
<1>2. \A c : c \notin Columns(q.table) =>
         FirstWith(q, c) = q.joins[CHOOSE i \in 1 .. N : First(c, i)].as
  BY <1>1 DEF FirstWith
<1>3. \A c : c \in Columns(q.table) => FirstWith(q, c) = q.as
  BY DEF FirstWith
<1>. HIDE DEF Cols
<1>4. \A c : \A i, j \in 1 .. N : First(c, i) /\ First(c, j) => i = j
  <2> SUFFICES ASSUME NEW c, NEW i \in 1 .. N, NEW j \in 1 .. N, First(c, i), First(c, j)
               PROVE  i = j
    OBVIOUS
  <2>1. i < j => i \in 1 .. j - 1
    BY <1>1
  <2>2. j < i => j \in 1 .. i - 1
    BY <1>1
  <2>3. ~(i < j) /\ ~(j < i)
    BY <2>1, <2>2
  <2> QED
    BY <1>1, <2>3
<1>. HIDE DEF First
<1>5. \A c : \A i \in 1 .. N : c \notin Columns(q.table) /\ First(c, i) => FirstWith(q, c) = q.joins[i].as
  <2> SUFFICES ASSUME NEW c, NEW i \in 1 .. N, c \notin Columns(q.table), First(c, i)
               PROVE  FirstWith(q, c) = q.joins[i].as
    OBVIOUS
  <2>. DEFINE x == CHOOSE x \in 1 .. N : First(c, x)
  <2>1. x \in 1 .. N /\ First(c, x)
    OBVIOUS
  <2>2. FirstWith(q, c) = q.joins[x].as
    BY <1>2
  <2>. HIDE DEF x
  <2> QED
    BY <1>4, <2>1, <2>2
<1>6. ASSUME NEW c \in BareUpTo(q, k)
      PROVE  FirstWith(q, c) \in NamesUpTo(q, k)
  <2>1. CASE c \in Columns(q.table)
    BY <1>3, <2>1 DEF NamesUpTo
  <2>2. CASE c \notin Columns(q.table)
    <3>. DEFINE S == {i \in 1 .. k : c \in Cols(i)}
    <3>1. S # {}
      BY <2>2 DEF BareUpTo, Cols
    <3>2. S \subseteq Nat /\ S \subseteq 1 .. k
      OBVIOUS
    <3>3. PICK i \in S : \A j \in S : ~(j < i)
      BY <3>1, <3>2, LeastIndex
    <3>4. i \in 1 .. k /\ i \in 1 .. N /\ c \in Cols(i)
      BY <1>1
    <3>5. \A j \in 1 .. i - 1 : j \in 1 .. k /\ j < i
      BY <3>4
    <3>6. First(c, i)
      BY <3>3, <3>4, <3>5 DEF First
    <3>7. FirstWith(q, c) = q.joins[i].as
      BY <1>5, <2>2, <3>4, <3>6
    <3>. HIDE DEF S
    <3> QED
      BY <3>4, <3>7 DEF NamesUpTo
  <2> QED
    BY <2>1, <2>2
<1>7. ASSUME k + 1 <= N, NEW c \in Columns(q.joins[k + 1].table), c \notin BareUpTo(q, k)
      PROVE  FirstWith(q, c) = q.joins[k + 1].as
  <2>1. k + 1 \in 1 .. N /\ (k + 1) - 1 = k
    BY <1>1, <1>7
  <2>2. c \notin Columns(q.table) /\ \A j \in 1 .. k : c \notin Cols(j)
    BY <1>7 DEF BareUpTo, Cols
  <2>3. First(c, k + 1)
    BY <1>7, <2>1, <2>2 DEF First, Cols
  <2> QED
    BY <1>5, <2>1, <2>2, <2>3
<1> QED
  BY <1>6, <1>7

LEMMA NextTable ==
    ASSUME NEW q \in Queries, NamesDiffer(q), NEW k \in Nat, k + 1 <= Len(q.joins)
    PROVE  /\ q.joins[k + 1].as \notin NamesUpTo(q, k) /\ q.joins[k + 1].as \in NamesOf(q)
           /\ NamesUpTo(q, k) \subseteq NamesOf(q)
           /\ NamesUpTo(q, k + 1) = NamesUpTo(q, k) \union {q.joins[k + 1].as}
           /\ BareUpTo(q, k + 1) = BareUpTo(q, k) \union Columns(q.joins[k + 1].table)
           /\ BareUpTo(q, k + 1) \subseteq AllColumns
           /\ q.joins[k + 1].table \in Tables /\ q.joins[k + 1] \in ToSet(q.joins)
<1>. DEFINE N == Len(q.joins)
<1>1. N \in Nat /\ DOMAIN q.joins = 1 .. N
  BY QueryIs, LenProperties
<1>2. k + 1 \in 1 .. N /\ 1 .. k \subseteq 1 .. N /\ (k + 1) - 1 = k /\ 1 .. k + 1 = 1 .. k \union {k + 1}
  BY <1>1
<1>3. q.joins[k + 1].as \notin NamesUpTo(q, k)
  BY <1>1, <1>2 DEF NamesDiffer, NamesUpTo
<1>. HIDE DEF N
<1>4. \A i \in 1 .. N : q.joins[i].as \in NamesOf(q) /\ q.joins[i].table \in Tables /\ q.joins[i] \in ToSet(q.joins)
  BY QueryIs DEF N
<1>5. q.as \in NamesOf(q) /\ q.table \in Tables
  BY QueryIs
<1>6. NamesUpTo(q, k) \subseteq NamesOf(q)
  BY <1>2, <1>4, <1>5 DEF NamesUpTo
<1>7. NamesUpTo(q, k + 1) = NamesUpTo(q, k) \union {q.joins[k + 1].as}
  BY <1>2 DEF NamesUpTo
<1>8. BareUpTo(q, k + 1) = BareUpTo(q, k) \union Columns(q.joins[k + 1].table)
  BY <1>2 DEF BareUpTo
<1>9. BareUpTo(q, k) \subseteq AllColumns /\ Columns(q.joins[k + 1].table) \subseteq AllColumns
  BY <1>2, <1>4, <1>5 DEF BareUpTo, AllColumns
<1> QED
  BY <1>2, <1>3, <1>4, <1>6, <1>7, <1>8, <1>9

\* The qualified names of the first k tables are in new as they are in old.
Keeps(q, k, old, new) ==
    \A n \in NamesUpTo(q, k) : \A c \in AllColumns :
        /\ Qualified(n, c) \in DOMAIN new => Qualified(n, c) \in DOMAIN old
        /\ Qualified(n, c) \in DOMAIN old =>
               Qualified(n, c) \in DOMAIN new /\ new[Qualified(n, c)] = old[Qualified(n, c)]

\* What was right about a bare name stays so.
LEMMA BareKept ==
    ASSUME NEW q \in Queries, NamesDiffer(q), NEW k \in Nat, k + 1 <= Len(q.joins),
           NEW old, Fits(q, k, old), NEW new, Keeps(q, k, old, new), NEW c \in BareUpTo(q, k),
           c \in DOMAIN old => c \in DOMAIN new /\ new[c] = old[c],
           Qualified(FirstWith(q, c), c) \in DOMAIN new
    PROVE  /\ c \in DOMAIN new
           /\ new[c] = new[Qualified(FirstWith(q, c), c)] \/ Padded(q, k + 1, new, c)
<1>. DEFINE f == FirstWith(q, c)
<1>1. f \in NamesUpTo(q, k) /\ c \in AllColumns
  <2>1. k <= Len(q.joins)
    BY QueryIs
  <2> QED
    BY <2>1, FirstWithIs, NextTable
<1>2. /\ Qualified(f, c) \in DOMAIN old
      /\ new[Qualified(f, c)] = old[Qualified(f, c)]
  BY <1>1 DEF Keeps
<1>3. c \in DOMAIN old /\ (old[c] = old[Qualified(f, c)] \/ Padded(q, k, old, c))
  BY <1>2 DEF Fits, BareIsFirst
<1>4. ASSUME Padded(q, k, old, c)
      PROVE  Padded(q, k + 1, new, c)
  <2>1. PICK i \in 1 .. k :
          /\ q.joins[i].kind \in {"left", "full"} /\ c \in Columns(q.joins[i].table)
          /\ \A d \in Columns(q.joins[i].table) :
                Qualified(q.joins[i].as, d) \in DOMAIN old /\ old[Qualified(q.joins[i].as, d)] = Null
    BY <1>4 DEF Padded
  <2>2. i \in 1 .. k + 1 /\ i \in 1 .. Len(q.joins)
    BY QueryIs
  <2>3. q.joins[i].as \in NamesUpTo(q, k) /\ Columns(q.joins[i].table) \subseteq AllColumns
    <3>1. q.joins[i].table \in Tables
      BY <2>2, QueryIs
    <3> QED
      BY <3>1 DEF NamesUpTo, AllColumns
  <2>4. \A d \in Columns(q.joins[i].table) :
                Qualified(q.joins[i].as, d) \in DOMAIN new /\ new[Qualified(q.joins[i].as, d)] = Null
    BY <2>1, <2>3 DEF Keeps
  <2>5. new[c] = Null
    BY <1>3, <1>4 DEF Padded
  <2> QED
    BY <2>1, <2>2, <2>4, <2>5 DEF Padded
<1> QED
  BY <1>2, <1>3, <1>4

\* One more table brings its bare and its qualified names.
LEMMA InsertFits ==
    ASSUME NEW q \in Queries, NamesDiffer(q), NEW k \in Nat, k + 1 <= Len(q.joins),
           NEW old, Fits(q, k, old), NEW r \in Rows[q.joins[k + 1].table]
    PROVE  Fits(q, k + 1, InsertRowQualified(old, q.joins[k + 1].as, r))
<1>. DEFINE as == q.joins[k + 1].as
            new == InsertRowQualified(old, as, r)
            mine == {Qualified(as, c) : c \in DOMAIN r}
<1>1. /\ as \notin NamesUpTo(q, k) /\ as \in NamesOf(q) /\ NamesUpTo(q, k) \subseteq NamesOf(q)
      /\ NamesUpTo(q, k + 1) = NamesUpTo(q, k) \union {as}
      /\ BareUpTo(q, k + 1) = BareUpTo(q, k) \union Columns(q.joins[k + 1].table)
      /\ BareUpTo(q, k + 1) \subseteq AllColumns
      /\ q.joins[k + 1].table \in Tables
  BY NextTable
<1>2. DOMAIN r = Columns(q.joins[k + 1].table) /\ DOMAIN r \subseteq AllColumns
  BY <1>1, RowDomain
<1>3. Apart(NamesOf(q), AllColumns)
  BY QueryIs
<1>4. Inserted(old, as, r, new)
  BY <1>1, <1>2, <1>3, InsertIs
<1>. HIDE DEF as, new
<1>5. NamesAre(q, k + 1, new)
  <2>1. NamesAre(q, k, old)
    BY DEF Fits
  <2>2. \A x \in DOMAIN new : x \in DOMAIN old \/ x \in DOMAIN r \/ \E c \in DOMAIN r : x = Qualified(as, c)
    BY <1>4 DEF Inserted
  <2>3. /\ BareUpTo(q, k + 1) = BareUpTo(q, k) \union DOMAIN r
        /\ NamesUpTo(q, k + 1) = NamesUpTo(q, k) \union {as}
        /\ DOMAIN r \subseteq AllColumns
    BY <1>1, <1>2
  <2>. SUFFICES ASSUME NEW x \in DOMAIN new
               PROVE  \/ x \in BareUpTo(q, k + 1)
                      \/ \E n \in NamesUpTo(q, k + 1) : \E c \in AllColumns : x = Qualified(n, c)
    BY DEF NamesAre
  <2>4. CASE x \in DOMAIN old
    BY <2>1, <2>3, <2>4 DEF NamesAre
  <2>5. CASE x \in DOMAIN r
    BY <2>3, <2>5
  <2>6. CASE \E c \in DOMAIN r : x = Qualified(as, c)
    BY <2>3, <2>6
  <2> QED
    BY <2>2, <2>4, <2>5, <2>6
<1>6. ASSUME NEW n \in NamesUpTo(q, k), NEW c \in AllColumns
      PROVE  Qualified(n, c) \notin mine /\ Qualified(n, c) \notin DOMAIN r
  <2>1. ASSUME NEW d \in DOMAIN r
        PROVE  Qualified(n, c) # Qualified(as, d)
    <3>1. n \in NamesOf(q) /\ n # as /\ d \in AllColumns
      BY <1>1, <1>2
    <3> QED
      BY <1>1, <1>3, <3>1 DEF Apart
  <2>2. Qualified(n, c) \notin DOMAIN r
    BY <1>1, <1>2, <1>3 DEF Apart
  <2> QED
    BY <2>1, <2>2
<1>7. Keeps(q, k, old, new)
  BY <1>4, <1>6 DEF Keeps, Inserted
<1>8. ASSUME NEW c \in AllColumns
      PROVE  c \notin mine
  <2>1. \A d \in DOMAIN r : d \in AllColumns /\ Qualified(as, d) \notin AllColumns
    BY <1>1, <1>2, <1>3 DEF Apart
  <2> QED
    BY <2>1
<1>9. ASSUME NEW c \in BareUpTo(q, k + 1), Qualified(FirstWith(q, c), c) \in DOMAIN new
      PROVE  /\ c \in DOMAIN new
             /\ new[c] = new[Qualified(FirstWith(q, c), c)] \/ Padded(q, k + 1, new, c)
  <2>1. CASE c \in BareUpTo(q, k)
    <3>1. c \in DOMAIN old => c \in DOMAIN new /\ new[c] = old[c]
      BY <1>1, <1>4, <1>8, <2>1 DEF Inserted
    <3> QED
      BY <1>7, <1>9, <2>1, <3>1, BareKept
  <2>2. CASE c \notin BareUpTo(q, k)
    <3>1. c \in DOMAIN r /\ c \in AllColumns
      BY <1>1, <1>2, <2>2
    <3>2. FirstWith(q, c) = as
      <4>1. k <= Len(q.joins)
        BY QueryIs
      <4> QED
        BY <1>2, <2>2, <3>1, <4>1, FirstWithIs DEF as
    <3>3. c \notin DOMAIN old
      BY <1>1, <1>3, <2>2, <3>1 DEF Fits, NamesAre, Apart
    <3> QED
      BY <1>4, <3>1, <3>2, <3>3 DEF Inserted
  <2> QED
    BY <2>1, <2>2
<1>10. BareIsFirst(q, k + 1, new)
  BY <1>9 DEF BareIsFirst
<1> QED
  BY <1>5, <1>10 DEF Fits, new, as

\* A left row that is padded on the right.
LEMMA PadRightFits ==
    ASSUME NEW q \in Queries, NamesDiffer(q), NEW k \in Nat, k + 1 <= Len(q.joins),
           NEW old, Fits(q, k, old), q.joins[k + 1].kind \in {"left", "full"}
    PROVE  Fits(q, k + 1, PadRight(old, q.joins[k + 1]))
<1>. DEFINE join == q.joins[k + 1]
            new == PadRight(old, join)
            C == Columns(join.table)
            mine == C \union {Qualified(join.as, c) : c \in C}
<1>1. /\ join.as \notin NamesUpTo(q, k) /\ join.as \in NamesOf(q) /\ NamesUpTo(q, k) \subseteq NamesOf(q)
      /\ NamesUpTo(q, k + 1) = NamesUpTo(q, k) \union {join.as}
      /\ BareUpTo(q, k + 1) = BareUpTo(q, k) \union C
      /\ BareUpTo(q, k + 1) \subseteq AllColumns
  BY NextTable
<1>2. C \subseteq AllColumns
  BY <1>1
<1>3. Apart(NamesOf(q), AllColumns)
  BY QueryIs
<1>4. /\ DOMAIN NullPadded(join) = mine
      /\ \A x \in mine : NullPadded(join)[x] = Null
  <2>. DEFINE quals == {Qualified(join.as, c) : c \in C}
  <2>. HIDE DEF C, quals
  <2>1. NullPadded(join) = [x \in C \union quals |-> Null]
    BY DEF NullPadded, C, quals
  <2> QED
    BY <2>1 DEF quals
<1>5. /\ DOMAIN new = mine \union DOMAIN old
      /\ \A x \in mine : new[x] = Null
      /\ \A x \in DOMAIN old : x \notin mine => new[x] = old[x]
  <2>. DEFINE pad == NullPadded(join)
  <2>1. new = Over(pad, old)
    BY DEF PadRight
  <2>. HIDE DEF mine, new, pad
  <2>2. /\ DOMAIN Over(pad, old) = DOMAIN pad \union DOMAIN old
        /\ \A x \in DOMAIN pad : Over(pad, old)[x] = pad[x]
        /\ \A x \in DOMAIN old : x \notin DOMAIN pad => Over(pad, old)[x] = old[x]
    BY OverIs
  <2>3. DOMAIN pad = mine /\ \A x \in mine : pad[x] = Null
    BY <1>4 DEF pad
  <2> QED
    BY <2>1, <2>2, <2>3
<1>. HIDE DEF join, new, C
<1>6. NamesAre(q, k + 1, new)
  <2>1. NamesAre(q, k, old)
    BY DEF Fits
  <2>2. \A x \in DOMAIN new : x \in DOMAIN old \/ x \in C \/ \E c \in C : x = Qualified(join.as, c)
    BY <1>5
  <2>. SUFFICES ASSUME NEW x \in DOMAIN new
               PROVE  \/ x \in BareUpTo(q, k + 1)
                      \/ \E n \in NamesUpTo(q, k + 1) : \E c \in AllColumns : x = Qualified(n, c)
    BY DEF NamesAre
  <2>3. CASE x \in DOMAIN old
    BY <1>1, <2>1, <2>3 DEF NamesAre
  <2>4. CASE x \in C
    BY <1>1, <2>4
  <2>5. CASE \E c \in C : x = Qualified(join.as, c)
    BY <1>1, <1>2, <2>5
  <2> QED
    BY <2>2, <2>3, <2>4, <2>5
<1>7. ASSUME NEW n \in NamesUpTo(q, k), NEW c \in AllColumns
      PROVE  Qualified(n, c) \notin mine
  <2>1. ASSUME NEW d \in C
        PROVE  Qualified(n, c) # Qualified(join.as, d)
    <3>1. n \in NamesOf(q) /\ n # join.as /\ d \in AllColumns
      BY <1>1, <1>2
    <3> QED
      BY <1>1, <1>3, <3>1 DEF Apart
  <2>2. Qualified(n, c) \notin C
    BY <1>1, <1>2, <1>3 DEF Apart
  <2> QED
    BY <2>1, <2>2
<1>8. Keeps(q, k, old, new)
  <2>. HIDE DEF mine
  <2> QED
    BY <1>5, <1>7 DEF Keeps
<1>9. ASSUME NEW c \in BareUpTo(q, k + 1), Qualified(FirstWith(q, c), c) \in DOMAIN new
      PROVE  /\ c \in DOMAIN new
             /\ new[c] = new[Qualified(FirstWith(q, c), c)] \/ Padded(q, k + 1, new, c)
  <2>1. CASE c \in C
    <3>1. \A d \in C : Qualified(join.as, d) \in DOMAIN new /\ new[Qualified(join.as, d)] = Null
      BY <1>5
    <3>2. c \in DOMAIN new /\ new[c] = Null
      BY <1>5, <2>1
    <3>3. k + 1 \in 1 .. k + 1
      OBVIOUS
    <3>4. Padded(q, k + 1, new, c)
      BY <2>1, <3>1, <3>2, <3>3 DEF Padded, join, C
    <3> QED
      BY <3>2, <3>4
  <2>2. CASE c \notin C
    <3>1. c \in BareUpTo(q, k) /\ c \in AllColumns
      BY <1>1, <2>2
    <3>2. c \notin mine
      <4>1. \A d \in C : Qualified(join.as, d) \notin AllColumns
        BY <1>1, <1>2, <1>3 DEF Apart
      <4> QED
        BY <2>2, <3>1, <4>1
    <3>3. c \in DOMAIN old => c \in DOMAIN new /\ new[c] = old[c]
      BY <1>5, <3>2
    <3> QED
      BY <1>8, <1>9, <3>1, <3>3, BareKept
  <2> QED
    BY <2>1, <2>2
<1>10. BareIsFirst(q, k + 1, new)
  BY <1>9 DEF BareIsFirst
<1> QED
  BY <1>6, <1>10 DEF Fits, new, join

\* A right row that is padded on the left.
LEMMA PadLeftFits ==
    ASSUME NEW q \in Queries, NamesDiffer(q), NEW k \in Nat, k + 1 <= Len(q.joins),
           NEW S, \A s \in S : Fits(q, k, s), NEW result \in Seq(S),
           NEW r \in Rows[q.joins[k + 1].table]
    PROVE  Fits(q, k + 1, PadLeft(result, q.joins[k + 1], r))
<1>. DEFINE names == IF result = <<>> THEN {} ELSE DOMAIN result[1]
            blank == [x \in names |-> Null]
<1>1. Fits(q, k, blank)
  <2>1. CASE result = <<>>
    <3>1. DOMAIN blank = {}
      BY <2>1
    <3>. HIDE DEF blank
    <3> QED
      BY <3>1 DEF Fits, NamesAre, BareIsFirst
  <2>2. CASE result # <<>>
    <3>1. result[1] \in S
      BY <2>2, NotEmpty, ElementOfSeq
    <3>2. Fits(q, k, result[1])
      BY <3>1
    <3>3. DOMAIN blank = DOMAIN result[1] /\ \A x \in DOMAIN result[1] : blank[x] = Null
      BY <2>2
    <3>. HIDE DEF blank
    <3>4. NamesAre(q, k, blank)
      BY <3>2, <3>3 DEF Fits, NamesAre
    <3>5. BareIsFirst(q, k, blank)
      BY <3>2, <3>3 DEF Fits, BareIsFirst
    <3> QED
      BY <3>4, <3>5 DEF Fits
  <2> QED
    BY <2>1, <2>2
<1>2. PadLeft(result, q.joins[k + 1], r) = InsertRowQualified(blank, q.joins[k + 1].as, r)
  BY DEF PadLeft
<1>. HIDE DEF blank
<1> QED
  BY <1>1, <1>2, InsertFits

LEMMA StepFits ==
    ASSUME TypeOK, NEW q \in Queries, NamesDiffer(q), NEW k \in Nat, k + 1 <= Len(q.joins),
           NEW S, \A s \in S : Fits(q, k, s), NEW result \in Seq(S), NEW cols
    PROVE  \E M : /\ \A s \in M : Fits(q, k + 1, s)
                  /\ JoinStep(result, tables[q.joins[k + 1].table], q.joins[k + 1], q, cols) \in Seq(M)
<1>. DEFINE join == q.joins[k + 1]
            R == Rows[join.table]
            M == MadeBy(join, S, R, result)
<1>1. tables[join.table] \in Seq(R)
  BY NextTable DEF TypeOK
<1>2. JoinStep(result, tables[join.table], join, q, cols) \in Seq(M)
  <2>. HIDE DEF join, R
  <2> QED
    BY <1>1, JoinStepIs
<1>3. \A s \in S : \A r \in R : Fits(q, k + 1, InsertRowQualified(s, join.as, r))
  BY InsertFits
<1>4. \A s \in {x \in S : join.kind \in {"left", "full"}} : Fits(q, k + 1, PadRight(s, join))
  BY PadRightFits
<1>5. \A r \in R : Fits(q, k + 1, PadLeft(result, join, r))
  BY PadLeftFits
<1>6. \A s \in M : Fits(q, k + 1, s)
  <2>. HIDE DEF join, R
  <2> QED
    BY <1>3, <1>4, <1>5 DEF MadeBy
<1> QED
  BY <1>2, <1>6

LEMMA FirstRowsFit ==
    ASSUME TypeOK, NEW q \in Queries
    PROVE  \E S : FirstRows(q) \in Seq(S) /\ \A s \in S : Fits(q, 0, s)
<1>. DEFINE S == ToSet(FirstRows(q))
<1>1. FirstRows(q) \in Seq(S)
  <2>1. q.table \in Tables
    BY QueryIs
  <2>2. IsSeq(tables[q.table])
    BY <2>1, IsSeqIs DEF TypeOK
  <2>3. DOMAIN FirstRows(q) = DOMAIN tables[q.table] /\ FirstRows(q) = [i \in DOMAIN FirstRows(q) |-> FirstRows(q)[i]]
    BY DEF FirstRows
  <2>4. IsSeq(FirstRows(q))
    BY <2>2, <2>3, MappedIs
  <2> QED
    BY <2>4, IsSeqIs
<1>2. ASSUME NEW s \in S
      PROVE  Fits(q, 0, s)
  <2>1. PICK i \in DOMAIN FirstRows(q) : s = FirstRows(q)[i]
    BY DEF ToSet
  <2>2. PICK r \in Rows[q.table] :
              /\ DOMAIN r = Columns(q.table) /\ DOMAIN r \subseteq AllColumns
              /\ \A c \in DOMAIN r : s[Qualified(q.as, c)] = r[c]
              /\ \A c \in DOMAIN r : s[c] = r[c]
              /\ DOMAIN s = {Qualified(q.as, c) : c \in DOMAIN r} \union DOMAIN r
    <3>. HIDE DEF S
    <3>1. i \in DOMAIN FirstRows(q)
      BY <2>1
    <3>2. PICK r \in Rows[q.table] :
                /\ FirstRows(q)[i] = InsertRowQualified(<<>>, q.as, r)
                /\ DOMAIN r = Columns(q.table) /\ DOMAIN r \subseteq AllColumns
                /\ \A c \in DOMAIN r : FirstRows(q)[i][Qualified(q.as, c)] = r[c]
                /\ \A c \in DOMAIN r : FirstRows(q)[i][c] = r[c]
                /\ DOMAIN FirstRows(q)[i] = {Qualified(q.as, c) : c \in DOMAIN r} \union DOMAIN r
      BY <3>1, FirstRowIs
    <3> QED
      BY <2>1, <3>2
  <2>3. BareUpTo(q, 0) = DOMAIN r /\ q.as \in NamesUpTo(q, 0)
    BY <2>2 DEF BareUpTo, NamesUpTo
  <2>4. \A c \in DOMAIN r : FirstWith(q, c) = q.as
    BY <2>2 DEF FirstWith
  <2>5. NamesAre(q, 0, s)
    BY <2>2, <2>3 DEF NamesAre
  <2>6. BareIsFirst(q, 0, s)
    BY <2>2, <2>3, <2>4 DEF BareIsFirst
  <2> QED
    BY <2>5, <2>6 DEF Fits
<1> QED
  BY <1>1, <1>2

LEMMA AnswerFits ==
    ASSUME TypeOK, NEW q \in Queries, NamesDiffer(q)
    PROVE  \E S : ExecuteJoins(q, TRUE) \in Seq(S) /\ \A s \in S : Fits(q, Len(q.joins), s)
<1>. DEFINE N == Len(q.joins)
            Step(x, n) == JoinStep(x, tables[q.joins[n].table], q.joins[n],
                                   q, EquiColumns(q, n, TRUE))
            Good(n, x) == \E S : x \in Seq(S) /\ \A s \in S : Fits(q, n, s)
<1>1. N \in Nat
  BY QueryIs
<1>2. PICK f : /\ f[0] = FirstRows(q)
               /\ \A n \in Nat : n + 1 <= N => f[n + 1] = Step(f[n], n + 1)
               /\ ExecuteJoins(q, TRUE) = f[N]
  BY <1>1, JoinsSteps
<1>3. Good(0, f[0])
  BY <1>2, FirstRowsFit
<1>4. ASSUME NEW n \in Nat, n + 1 <= N, NEW x, Good(n, x)
      PROVE  Good(n + 1, Step(x, n + 1))
  <2>1. PICK S : x \in Seq(S) /\ \A s \in S : Fits(q, n, s)
    BY <1>4
  <2> QED
    BY <1>4, <2>1, StepFits
<1>. DEFINE T == {n \in Nat : n <= N => Good(n, f[n])}
<1>. HIDE DEF Good, Step, N
<1>5. 0 \in T /\ T \subseteq Nat
  BY <1>3
<1>6. ASSUME NEW n \in T
      PROVE  n + 1 \in T
  <2>1. n \in Nat /\ (n + 1 <= N => n <= N)
    BY <1>1
  <2>2. CASE n + 1 <= N
    <3>1. Good(n, f[n]) /\ f[n + 1] = Step(f[n], n + 1)
      <4>1. f[n + 1] = Step(f[n], n + 1)
        BY <1>2, <2>1, <2>2, Zenon
      <4> QED
        BY <2>1, <2>2, <4>1
    <3>2. Good(n + 1, f[n + 1])
      BY <1>4, <2>1, <2>2, <3>1
    <3> QED
      BY <2>1, <3>2
  <2> QED
    BY <2>1, <2>2
<1>. HIDE DEF T
<1>7. N \in T
  BY <1>1, <1>5, <1>6, InductionOnNat
<1>8. Good(N, f[N])
  BY <1>1, <1>7 DEF T
<1>9. Good(N, ExecuteJoins(q, TRUE))
  BY <1>2, <1>8, Zenon
<1> QED
  BY <1>9 DEF Good, N

\* Whatever is joined to what: a bare name reads as the first table's that has
\* it, unless the row was padded.
THEOREM BareNamesAreRight == Spec => []BareNameIsFirstOrPadded
<1>1. TypeOK => BareNameIsFirstOrPadded
  <2> SUFFICES ASSUME TypeOK, NEW q \in ToSet(asked), NamesDiffer(q),
                      NEW row \in ToSet(answer), NEW c \in Bare(q)
               PROVE  \/ Lookup(row, c) = LookupQualified(row, FirstWith(q, c), c)
                      \/ /\ Lookup(row, c) = Null
                         /\ \E j \in ToSet(q.joins) :
                               /\ j.kind \in {"left", "full"} /\ c \in Columns(j.table)
                               /\ \A d \in Columns(j.table) : LookupQualified(row, j.as, d) = Null
    BY DEF BareNameIsFirstOrPadded
  <2>1. q \in Queries /\ answer = ExecuteJoins(q, TRUE)
    BY AskedIs
  <2>2. PICK S : ExecuteJoins(q, TRUE) \in Seq(S) /\ \A s \in S : Fits(q, Len(q.joins), s)
    BY <2>1, AnswerFits
  <2>3. Fits(q, Len(q.joins), row)
    <3>1. answer \in Seq(S)
      BY <2>1, <2>2, Zenon
    <3>2. row \in S
      BY <3>1, ElementOfSeq, LenProperties DEF ToSet
    <3> QED
      BY <2>2, <3>2
  <2>4. DOMAIN q.joins = 1 .. Len(q.joins)
    BY <2>1, QueryIs, LenProperties
  <2>5. c \in BareUpTo(q, Len(q.joins))
    BY <2>4 DEF Bare, BareUpTo, ToSet
  <2>. DEFINE name == Qualified(FirstWith(q, c), c)
  <2>6. CASE name \notin DOMAIN row
    BY <2>6 DEF LookupQualified
  <2>7. CASE name \in DOMAIN row
    <3>1. c \in DOMAIN row /\ (row[c] = row[name] \/ Padded(q, Len(q.joins), row, c))
      BY <2>3, <2>5, <2>7 DEF Fits, BareIsFirst
    <3>2. CASE row[c] = row[name]
      BY <2>7, <3>1, <3>2 DEF LookupQualified, Lookup
    <3>3. CASE Padded(q, Len(q.joins), row, c)
      <4>1. PICK i \in 1 .. Len(q.joins) :
              /\ q.joins[i].kind \in {"left", "full"} /\ c \in Columns(q.joins[i].table)
              /\ \A d \in Columns(q.joins[i].table) :
                    Qualified(q.joins[i].as, d) \in DOMAIN row /\ row[Qualified(q.joins[i].as, d)] = Null
        BY <3>3 DEF Padded
      <4>2. q.joins[i] \in ToSet(q.joins)
        BY <2>4 DEF ToSet
      <4>3. Lookup(row, c) = Null
        BY <3>1, <3>3 DEF Padded, Lookup
      <4>4. \A d \in Columns(q.joins[i].table) : LookupQualified(row, q.joins[i].as, d) = Null
        BY <4>1 DEF LookupQualified, Lookup
      <4> QED
        BY <4>1, <4>2, <4>3, <4>4
    <3> QED
      BY <3>1, <3>2, <3>3
  <2> QED
    BY <2>6, <2>7
<1> QED
  BY <1>1, Invariance, PTL
=============================================================================
