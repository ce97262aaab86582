---------------------------- MODULE SelectProofs ----------------------------
(***************************************************************************)
(* Proofs about Select, whatever the evaluators do with an expression.     *)
(***************************************************************************)
EXTENDS Select, ListLemmas, FiniteSetTheorems

-----------------------------------------------------------------------------
(* The order of the values *)

Number(v) == IF v.type = "integer" THEN 2 * v.of ELSE v.of

\* On values that Compare orders it compares the ranks of the types, and two
\* numbers of one rank.
LEMMA CompareIs ==
    ASSUME NEW a, NEW b, Orderable(a), Orderable(b)
    PROVE  /\ TypeRank(a) \in 0 .. 3 /\ TypeRank(b) \in 0 .. 3
           /\ Number(a) \in Int /\ Number(b) \in Int
           /\ Compare(a, b) = IF TypeRank(a) # TypeRank(b)
                              THEN Sign(TypeRank(a) - TypeRank(b))
                              ELSE Sign(Number(a) - Number(b))
<1>1. /\ a.type \in Types /\ b.type \in Types /\ a.of \in Int /\ b.of \in Int
      /\ a.type # "nan" /\ b.type # "nan"
  BY DEF Orderable, Value
<1>2. TypeRank(a) \in 0 .. 3 /\ TypeRank(b) \in 0 .. 3
  BY DEF TypeRank
<1>3. Number(a) \in Int /\ Number(b) \in Int
  BY <1>1 DEF Number
<1>4. Halves(a) = Number(a) /\ Halves(b) = Number(b)
  BY ExactAssumption DEF Halves, Number, AsF64, Orderable
<1>5. CASE TypeRank(a) # TypeRank(b)
  <2>1. Compare(a, b) = Sign(TypeRank(a) - TypeRank(b))
    BY <1>5 DEF Compare
  <2> QED
    BY <1>2, <1>3, <1>5, <2>1
<1>6. CASE TypeRank(a) = TypeRank(b) /\ a.type = "integer" /\ b.type = "integer"
  <2>1. Compare(a, b) = Sign(a.of - b.of)
    BY <1>1, <1>6 DEF Compare
  <2>2. Sign(a.of - b.of) = Sign(Number(a) - Number(b))
    BY <1>1, <1>6 DEF Sign, Number
  <2> QED
    BY <1>2, <1>3, <1>6, <2>1, <2>2
<1>7. CASE TypeRank(a) = TypeRank(b) /\ ~ (a.type = "integer" /\ b.type = "integer")
  <2>1. Compare(a, b) = Sign(Halves(a) - Halves(b))
    BY <1>1, <1>7 DEF Compare
  <2> QED
    BY <1>2, <1>3, <1>4, <1>7, <2>1
<1> QED
  BY <1>5, <1>6, <1>7

LEMMA CompareOrders ==
    ASSUME NEW a, NEW b, NEW c, Orderable(a), Orderable(b), Orderable(c)
    PROVE  /\ Compare(a, a) = 0
           /\ Compare(a, b) = 0 <=> Compare(b, a) = 0
           /\ Compare(a, b) = 1 <=> Compare(b, a) = -1
           /\ Compare(a, b) = 0 => Compare(a, c) = Compare(b, c)
           /\ Compare(a, b) = 0 => Compare(c, a) = Compare(c, b)
<1>1. /\ TypeRank(a) \in Int /\ TypeRank(b) \in Int /\ TypeRank(c) \in Int
      /\ Number(a) \in Int /\ Number(b) \in Int /\ Number(c) \in Int
  BY CompareIs
<1>2. \A v \in {a, b, c}, w \in {a, b, c} :
         Compare(v, w) = IF TypeRank(v) # TypeRank(w) THEN Sign(TypeRank(v) - TypeRank(w))
                         ELSE Sign(Number(v) - Number(w))
  BY CompareIs
<1>3. \A v \in {a, b, c}, w \in {a, b, c} :
         Compare(v, w) = 0 <=> TypeRank(v) = TypeRank(w) /\ Number(v) = Number(w)
  BY <1>1, <1>2 DEF Sign
<1>4. Compare(a, b) = 1 <=> Compare(b, a) = -1
  BY <1>1, <1>2 DEF Sign
<1> QED
  BY <1>2, <1>3, <1>4

\* Values that `=` calls equal are equal in the index's order.
LEMMA SameIsEqual ==
    ASSUME NEW a, NEW b, Orderable(a), Same(a, b)
    PROVE  Orderable(b) /\ Compare(a, b) = 0
<1>1. CASE a = b
  BY <1>1, CompareOrders
<1>2. CASE {a, b} = {Real(0), MinusZero}
  <2>1. (a = Real(0) \/ a = MinusZero) /\ (b = Real(0) \/ b = MinusZero)
    BY <1>2, Zenon
  <2>2. ASSUME NEW v, v = Real(0) \/ v = MinusZero
        PROVE  Orderable(v) /\ TypeRank(v) = 1 /\ Number(v) = 0
    <3>1. v.type \in {"real", "minus zero"} /\ v.of = 0
      <4>1. CASE v = [type |-> "real", of |-> 0]
        BY <4>1
      <4>2. CASE v = [type |-> "minus zero", of |-> 0]
        BY <4>2
      <4> QED
        BY <2>2, <4>1, <4>2 DEF Real, MinusZero
    <3>2. v \in Value
      <4>1. [type |-> "real", of |-> 0] \in Value
        BY DEF Types, Value
      <4>2. [type |-> "minus zero", of |-> 0] \in Value
        BY DEF Types, Value
      <4> QED
        BY <2>2, <4>1, <4>2 DEF Real, MinusZero
    <3>3. TypeRank(v) = 1
      BY <3>1 DEF TypeRank, Numeric
    <3> QED
      BY <3>1, <3>2, <3>3 DEF Orderable, Number
  <2>3. Orderable(b) /\ TypeRank(a) = TypeRank(b) /\ Number(a) = 0 /\ Number(b) = 0
    BY <2>1, <2>2
  <2> QED
    BY <2>3, CompareIs DEF Sign
<1> QED
  BY <1>1, <1>2 DEF Same

-----------------------------------------------------------------------------
(* The index.  val gives the indexed values of the rows that are there. *)

IndexOK(ix, val) ==
    /\ ix \subseteq [key : Value, ids : SUBSET Nat]
    /\ \A e \in ix : Orderable(e.key) /\ e.ids # {}
    /\ \A e, f \in ix : Compare(e.key, f.key) = 0 => e = f
    /\ \A e \in ix : \A id : id \in e.ids <=> id \in DOMAIN val /\ Compare(e.key, val[id]) = 0
    /\ \A id \in DOMAIN val : \E e \in ix : Compare(e.key, val[id]) = 0

AllOrderable(val) == DOMAIN val \subseteq Nat /\ \A id \in DOMAIN val : Orderable(val[id])

\* Removing a row takes its id out of the one entry that has it.
LEMMA RemoveFromIndexIs ==
    ASSUME NEW ix, NEW val, IndexOK(ix, val), AllOrderable(val),
           NEW id \in DOMAIN val, NEW row, row[Indexed] = val[id],
           NEW after, DOMAIN after = DOMAIN val \ {id},
           \A j \in DOMAIN after : after[j] = val[j]
    PROVE  IndexOK(RemoveFromIndex(ix, row, id), after)
<1>. DEFINE v == row[Indexed]
            less(e) == IF Compare(e.key, v) = 0 THEN [e EXCEPT !.ids = @ \ {id}] ELSE e
            new == {e \in {less(e) : e \in ix} : e.ids # {}}
<1>1. new = RemoveFromIndex(ix, row, id)
  BY DEF RemoveFromIndex
<1>2. Orderable(v) /\ \A j \in DOMAIN val : Orderable(val[j])
  BY DEF AllOrderable
<1>3. ASSUME NEW e \in ix
      PROVE  /\ less(e) \in [key : Value, ids : SUBSET Nat]
             /\ less(e).key = e.key /\ Orderable(e.key)
             /\ \A j : j \in less(e).ids <=> j \in DOMAIN after /\ Compare(e.key, after[j]) = 0
  <2>1. e \in [key : Value, ids : SUBSET Nat] /\ Orderable(e.key)
    BY DEF IndexOK
  <2>2. \A j : j \in e.ids <=> j \in DOMAIN val /\ Compare(e.key, val[j]) = 0
    BY DEF IndexOK
  <2>3. CASE Compare(e.key, v) = 0
    <3>1. less(e) = [key |-> e.key, ids |-> e.ids \ {id}]
      BY <2>1, <2>3
    <3>. HIDE DEF less
    <3> QED
      BY <2>1, <2>2, <3>1
  <2>4. CASE Compare(e.key, v) # 0
    <3>1. less(e) = e /\ id \notin e.ids
      BY <2>2, <2>4
    <3>. HIDE DEF less
    <3> QED
      BY <2>1, <2>2, <3>1
  <2> QED
    BY <2>3, <2>4
<1>4. \A e \in new : \E f \in ix : e = less(f)
  OBVIOUS
<1>5. \A f \in ix : less(f).ids # {} => less(f) \in new
  OBVIOUS
<1>6. \A e \in new : e.ids # {}
  OBVIOUS
<1>7. \A e, f \in ix : Compare(e.key, f.key) = 0 => e = f
  BY DEF IndexOK
<1>8. \A j \in DOMAIN val : \E e \in ix : Compare(e.key, val[j]) = 0
  BY DEF IndexOK
<1>. HIDE DEF new, less
<1>9. new \subseteq [key : Value, ids : SUBSET Nat] /\ \A e \in new : Orderable(e.key)
  BY <1>3, <1>4
<1>10. \A e, f \in new : Compare(e.key, f.key) = 0 => e = f
  BY <1>3, <1>4, <1>7
<1>11. \A e \in new : \A j : j \in e.ids <=> j \in DOMAIN after /\ Compare(e.key, after[j]) = 0
  BY <1>3, <1>4
<1>12. ASSUME NEW j \in DOMAIN after
       PROVE  \E e \in new : Compare(e.key, after[j]) = 0
  <2>1. PICK f \in ix : Compare(f.key, val[j]) = 0
    BY <1>8
  <2>2. j \in less(f).ids /\ less(f).key = f.key
    BY <1>3, <2>1
  <2>3. less(f) \in new
    BY <1>5, <2>2
  <2> QED
    BY <2>1, <2>2, <2>3
<1> QED
  BY <1>1, <1>6, <1>9, <1>10, <1>11, <1>12 DEF IndexOK

\* Adding a row puts its id into the entry of its value, which may be new.
LEMMA AddToIndexIs ==
    ASSUME NEW ix, NEW val, IndexOK(ix, val), AllOrderable(val),
           NEW id \in Nat, id \notin DOMAIN val, NEW row, Orderable(row[Indexed]),
           NEW after, DOMAIN after = DOMAIN val \union {id},
           after[id] = row[Indexed], \A j \in DOMAIN val : after[j] = val[j]
    PROVE  IndexOK(AddToIndex(ix, row, id), after)
<1>. DEFINE v == row[Indexed]
            new == AddToIndex(ix, row, id)
<1>1. Orderable(v) /\ v \in Value /\ \A j \in DOMAIN val : Orderable(val[j])
  BY DEF AllOrderable, Orderable
<1>2. /\ ix \subseteq [key : Value, ids : SUBSET Nat]
      /\ \A e \in ix : Orderable(e.key) /\ e.ids # {}
      /\ \A e, f \in ix : Compare(e.key, f.key) = 0 => e = f
      /\ \A e \in ix : \A j : j \in e.ids <=> j \in DOMAIN val /\ Compare(e.key, val[j]) = 0
      /\ \A j \in DOMAIN val : \E e \in ix : Compare(e.key, val[j]) = 0
  BY DEF IndexOK
<1>3. CASE EntriesAt(ix, v) = {}
  <2>. DEFINE entry == [key |-> v, ids |-> {id}]
  <2>1. new = ix \union {entry}
    BY <1>3 DEF AddToIndex
  <2>2. entry \in [key : Value, ids : SUBSET Nat] /\ entry.key = v /\ entry.ids = {id}
    BY <1>1
  <2>3. \A e \in ix : Compare(e.key, v) # 0 /\ Compare(v, e.key) # 0
    BY <1>1, <1>2, <1>3, CompareOrders DEF EntriesAt
  <2>4. \A j \in DOMAIN val : Compare(v, val[j]) # 0
    <3> SUFFICES ASSUME NEW j \in DOMAIN val, Compare(v, val[j]) = 0
                 PROVE  FALSE
      OBVIOUS
    <3>1. PICK e \in ix : Compare(e.key, val[j]) = 0
      BY <1>2
    <3>2. Compare(val[j], e.key) = 0
      BY <1>1, <1>2, <3>1, CompareOrders
    <3>3. Compare(v, e.key) = 0
      BY <1>1, <1>2, <3>2, CompareOrders
    <3> QED
      BY <2>3, <3>3
  <2>5. Compare(v, v) = 0
    BY <1>1, CompareOrders
  <2>. HIDE DEF new, entry
  <2>6. \A e \in new : \A j : j \in e.ids <=> j \in DOMAIN after /\ Compare(e.key, after[j]) = 0
    <3>1. \A j : j \in entry.ids <=> j \in DOMAIN after /\ Compare(entry.key, after[j]) = 0
      BY <2>2, <2>4, <2>5
    <3>2. \A e \in ix : \A j : j \in e.ids <=> j \in DOMAIN after /\ Compare(e.key, after[j]) = 0
      BY <1>2, <2>3
    <3> QED
      BY <2>1, <3>1, <3>2
  <2>7. \A e, f \in new : Compare(e.key, f.key) = 0 => e = f
    BY <1>2, <2>1, <2>2, <2>3
  <2>8. \A j \in DOMAIN after : \E e \in new : Compare(e.key, after[j]) = 0
    BY <1>2, <2>1, <2>2, <2>5
  <2>9. /\ new \subseteq [key : Value, ids : SUBSET Nat]
        /\ \A e \in new : Orderable(e.key) /\ e.ids # {}
    BY <1>1, <1>2, <2>1, <2>2
  <2> QED
    BY <2>6, <2>7, <2>8, <2>9 DEF IndexOK, new
<1>4. CASE EntriesAt(ix, v) # {}
  <2>. DEFINE more(e) == IF Compare(e.key, v) = 0 THEN [e EXCEPT !.ids = @ \union {id}] ELSE e
  <2>1. new = {more(e) : e \in ix}
    BY <1>4 DEF AddToIndex
  <2>2. ASSUME NEW e \in ix
        PROVE  /\ more(e) \in [key : Value, ids : SUBSET Nat]
               /\ more(e).key = e.key /\ more(e).ids # {}
               /\ \A j : j \in more(e).ids <=> j \in DOMAIN after /\ Compare(e.key, after[j]) = 0
    <3>1. e \in [key : Value, ids : SUBSET Nat] /\ e.ids # {}
      BY <1>2
    <3>2. \A j : j \in e.ids <=> j \in DOMAIN val /\ Compare(e.key, val[j]) = 0
      BY <1>2
    <3>3. CASE Compare(e.key, v) = 0
      <4>1. more(e) = [key |-> e.key, ids |-> e.ids \union {id}]
        BY <3>1, <3>3
      <4>. HIDE DEF more
      <4> QED
        BY <3>1, <3>2, <3>3, <4>1
    <3>4. CASE Compare(e.key, v) # 0
      <4>1. more(e) = e
        BY <3>4
      <4>. HIDE DEF more
      <4> QED
        BY <3>1, <3>2, <3>4, <4>1
    <3> QED
      BY <3>3, <3>4
  <2>3. PICK e \in ix : Compare(e.key, v) = 0
    BY <1>4 DEF EntriesAt
  <2>4. \A f \in new : \E g \in ix : f = more(g)
    BY <2>1
  <2>5. \A g \in ix : more(g) \in new
    BY <2>1
  <2>. HIDE DEF new, more
  <2>6. \A f \in new : \A j : j \in f.ids <=> j \in DOMAIN after /\ Compare(f.key, after[j]) = 0
    BY <2>2, <2>4
  <2>7. \A f, g \in new : Compare(f.key, g.key) = 0 => f = g
    BY <1>2, <2>2, <2>4
  <2>8. ASSUME NEW j \in DOMAIN after
        PROVE  \E f \in new : Compare(f.key, after[j]) = 0
    <3>1. PICK g \in ix : Compare(g.key, after[j]) = 0
      BY <1>2, <2>3
    <3> QED
      BY <2>2, <2>5, <3>1
  <2>9. /\ new \subseteq [key : Value, ids : SUBSET Nat]
        /\ \A f \in new : Orderable(f.key) /\ f.ids # {}
    BY <1>2, <2>2, <2>4
  <2> QED
    BY <2>6, <2>7, <2>8, <2>9 DEF IndexOK, new
<1> QED
  BY <1>3, <1>4

\* What the write of row id makes of the indexed values val.
Rewrites(val, after, old, new, id) ==
    /\ id \in DOMAIN old <=> id \in DOMAIN val
    /\ id \in DOMAIN old => old[id][Indexed] = val[id]
    /\ id \in DOMAIN new => Orderable(new[id][Indexed])
    /\ DOMAIN after = (DOMAIN val \ {id}) \union (DOMAIN new \intersect {id})
    /\ \A j \in DOMAIN val \ {id} : after[j] = val[j]
    /\ id \in DOMAIN new => after[id] = new[id][Indexed]

LEMMA UpdateIndexesIs ==
    ASSUME NEW ix, NEW val, IndexOK(ix, val), AllOrderable(val), NEW old, NEW new,
           NEW id \in Nat, NEW after, Rewrites(val, after, old, new, id)
    PROVE  IndexOK(UpdateIndexes(ix, old, new, id), after) /\ AllOrderable(after)
<1>0. /\ id \in DOMAIN old <=> id \in DOMAIN val
      /\ id \in DOMAIN old => old[id][Indexed] = val[id]
      /\ id \in DOMAIN new => Orderable(new[id][Indexed])
      /\ DOMAIN after = (DOMAIN val \ {id}) \union (DOMAIN new \intersect {id})
      /\ \A j \in DOMAIN val \ {id} : after[j] = val[j]
      /\ id \in DOMAIN new => after[id] = new[id][Indexed]
  BY DEF Rewrites
<1>. DEFINE removed == IF id \in DOMAIN old THEN RemoveFromIndex(ix, old[id], id) ELSE ix
            rest == [j \in DOMAIN val \ {id} |-> val[j]]
<1>1. IndexOK(removed, rest) /\ AllOrderable(rest)
  <2>1. CASE id \in DOMAIN old
    BY <1>0, <2>1, RemoveFromIndexIs DEF AllOrderable
  <2>2. CASE id \notin DOMAIN old
    <3>1. \A j \in DOMAIN val : rest[j] = val[j]
      BY <1>0, <2>2
    <3>2. DOMAIN rest = DOMAIN val
      BY <1>0, <2>2
    <3>. HIDE DEF rest
    <3> QED
      BY <2>2, <3>1, <3>2 DEF IndexOK, AllOrderable
  <2> QED
    BY <2>1, <2>2
<1>2. AllOrderable(after)
  BY <1>0 DEF AllOrderable
<1>3. UpdateIndexes(ix, old, new, id)
         = IF id \in DOMAIN new THEN AddToIndex(removed, new[id], id) ELSE removed
  BY DEF UpdateIndexes
<1>4. /\ DOMAIN rest = DOMAIN val \ {id}
      /\ \A j \in DOMAIN rest : after[j] = rest[j]
  BY <1>0
<1>. HIDE DEF removed, rest
<1>5. CASE id \in DOMAIN new
  <2>1. DOMAIN after = DOMAIN rest \union {id} /\ id \notin DOMAIN rest
    BY <1>0, <1>4, <1>5
  <2> QED
    BY <1>0, <1>1, <1>2, <1>3, <1>4, <1>5, <2>1, AddToIndexIs
<1>6. CASE id \notin DOMAIN new
  <2>1. DOMAIN after = DOMAIN rest
    BY <1>0, <1>4, <1>6
  <2> QED
    BY <1>1, <1>2, <1>3, <1>4, <1>6, <2>1 DEF IndexOK
<1> QED
  BY <1>5, <1>6

\* Reindexed's function, which exists.
LEMMA ReindexedSteps ==
    ASSUME NEW ix, NEW old, NEW new, NEW ids, NEW ord, Len(ord) \in Nat
    PROVE  \E f : /\ f[0] = ix
                  /\ \A n \in 1 .. Len(ord) :
                        f[n] = IF ord[n] \in ids THEN UpdateIndexes(f[n - 1], old, new, ord[n])
                               ELSE f[n - 1]
                  /\ Reindexed(ix, old, new, ids, ord) = f[Len(ord)]
<1>. DEFINE Step(x, n) == IF ord[n] \in ids THEN UpdateIndexes(x, old, new, ord[n]) ELSE x
            Body(f, m) == [n \in 0 .. m |->
                             IF n = 0 THEN ix
                             ELSE IF ord[n] \in ids THEN UpdateIndexes(f[n - 1], old, new, ord[n])
                             ELSE f[n - 1]]
            Exists(m) == \E f : f = Body(f, m)
<1>1. Exists(0)
  <2>1. [n \in 0 .. 0 |-> ix] = Body([n \in 0 .. 0 |-> ix], 0)
    OBVIOUS
  <2> QED
    BY <2>1
<1>2. ASSUME NEW m \in Nat, Exists(m)
      PROVE  Exists(m + 1)
  <2>1. PICK f : f = Body(f, m)
    BY <1>2
  <2>. DEFINE g == [n \in 0 .. m + 1 |-> IF n = m + 1 THEN Step(f[m], n) ELSE f[n]]
  <2>2. \A n \in 0 .. m + 1 : g[n] = Body(g, m + 1)[n]
    <3> SUFFICES ASSUME NEW n \in 0 .. m + 1
                 PROVE  g[n] = Body(g, m + 1)[n]
      OBVIOUS
    <3>1. CASE n = m + 1
      <4>1. g[n - 1] = f[m] /\ n # 0
        BY <3>1
      <4> QED
        BY <3>1, <4>1
    <3>2. CASE n \in 0 .. m
      <4>1. n # 0 => n - 1 \in 0 .. m /\ g[n - 1] = f[n - 1]
        BY <3>2
      <4>2. g[n] = f[n] /\ f[n] = Body(f, m)[n]
        BY <2>1, <3>2
      <4> QED
        BY <3>2, <4>1, <4>2
    <3> QED
      BY <3>1, <3>2
  <2>3. g = Body(g, m + 1)
    BY <2>2
  <2> QED
    BY <2>3
<1>3. \A m \in Nat : Exists(m)
  <2>. DEFINE S == {m \in Nat : Exists(m)}
  <2>1. 0 \in S /\ \A m \in S : m + 1 \in S
    BY <1>1, <1>2
  <2>. HIDE DEF Exists
  <2>2. S \subseteq Nat
    OBVIOUS
  <2>. HIDE DEF S
  <2>3. \A m \in Nat : m \in S
    BY <2>1, <2>2, InductionOnNat
  <2> QED
    BY <2>3 DEF S
<1>4. Exists(Len(ord))
  BY <1>3
<1>. DEFINE R == CHOOSE f : f = Body(f, Len(ord))
<1>5. R = Body(R, Len(ord))
  BY <1>4
<1>6. Reindexed(ix, old, new, ids, ord) = R[Len(ord)]
  BY DEF Reindexed
<1>. HIDE DEF R
<1>7. R[0] = ix
  BY <1>5
<1>8. ASSUME NEW n \in 1 .. Len(ord)
      PROVE  R[n] = IF ord[n] \in ids THEN UpdateIndexes(R[n - 1], old, new, ord[n])
                    ELSE R[n - 1]
  <2>1. n \in 0 .. Len(ord) /\ n # 0
    OBVIOUS
  <2> QED
    BY <1>5, <2>1
<1> QED
  BY <1>6, <1>7, <1>8

\* The indexed values of the rows of tab.
IndexedValues(tab) == [id \in DOMAIN tab |-> tab[id][Indexed]]

\* ord visits each of the rows ids once.
Visits(ord, ids) ==
    /\ Len(ord) \in Nat /\ \A n \in 1 .. Len(ord) : ord[n] \in Nat
    /\ \A m, n \in 1 .. Len(ord) : ord[m] = ord[n] => m = n
    /\ ids \subseteq {ord[n] : n \in 1 .. Len(ord)}

\* tab is old with the rows ids as in new, or gone.
Written(tab, old, new, ids) ==
    /\ DOMAIN tab = (DOMAIN old \ ids) \union DOMAIN new
    /\ \A id \in DOMAIN tab : tab[id] = IF id \in ids THEN new[id] ELSE old[id]

\* A statement that writes each of the rows ids once leaves the index right.
LEMMA ReindexedIs ==
    ASSUME NEW ix, NEW old, NEW new, NEW ids, NEW ord, Visits(ord, ids),
           DOMAIN new \subseteq ids,
           IndexOK(ix, IndexedValues(old)), AllOrderable(IndexedValues(old)),
           \A id \in DOMAIN new : Orderable(new[id][Indexed]),
           NEW tab, Written(tab, old, new, ids)
    PROVE  /\ IndexOK(Reindexed(ix, old, new, ids, ord), IndexedValues(tab))
           /\ AllOrderable(IndexedValues(tab))
<1>0. /\ Len(ord) \in Nat /\ \A n \in 1 .. Len(ord) : ord[n] \in Nat
      /\ \A m, n \in 1 .. Len(ord) : ord[m] = ord[n] => m = n
      /\ ids \subseteq {ord[n] : n \in 1 .. Len(ord)}
  BY DEF Visits
<1>. USE <1>0
<1>. DEFINE Visited(k) == {ord[n] : n \in 1 .. k} \intersect ids
            After(k) == [id \in (DOMAIN old \ Visited(k)) \union (DOMAIN new \intersect Visited(k)) |->
                            IF id \in Visited(k) THEN new[id][Indexed] ELSE old[id][Indexed]]
<1>1. PICK f : /\ f[0] = ix
               /\ \A n \in 1 .. Len(ord) :
                     f[n] = IF ord[n] \in ids THEN UpdateIndexes(f[n - 1], old, new, ord[n])
                            ELSE f[n - 1]
               /\ Reindexed(ix, old, new, ids, ord) = f[Len(ord)]
  BY ReindexedSteps
<1>. DEFINE Good(k) == IndexOK(f[k], After(k)) /\ AllOrderable(After(k))
            S == {k \in Nat : k <= Len(ord) => Good(k)}
<1>2. Good(0)
  <2>1. Visited(0) = {}
    OBVIOUS
  <2>2. After(0) = IndexedValues(old)
    BY <2>1 DEF IndexedValues
  <2> QED
    BY <1>1, <2>2
<1>3. ASSUME NEW k \in Nat, k + 1 <= Len(ord), Good(k)
      PROVE  Good(k + 1)
  <2>1. k + 1 \in 1 .. Len(ord) /\ (k + 1) - 1 = k
    BY <1>3
  <2>2. 1 .. k + 1 = (1 .. k) \union {k + 1}
    BY <1>3
  <2>. DEFINE id == ord[k + 1]
  <2>3. CASE id \notin ids
    <3>1. Visited(k + 1) = Visited(k)
      BY <2>2, <2>3
    <3>2. f[k + 1] = f[k]
      BY <1>1, <2>1, <2>3
    <3>3. After(k + 1) = After(k)
      BY <3>1
    <3> QED
      BY <1>3, <3>2, <3>3
  <2>4. CASE id \in ids
    <3>1. Visited(k + 1) = Visited(k) \union {id}
      BY <2>2, <2>4
    <3>2. id \notin Visited(k)
      <4>1. \A n \in 1 .. k : ord[n] # ord[k + 1]
        <5> SUFFICES ASSUME NEW n \in 1 .. k
                     PROVE  ord[n] # ord[k + 1]
          OBVIOUS
        <5>1. n \in 1 .. Len(ord) /\ n # k + 1
          BY <1>3
        <5> QED
          BY <2>1, <5>1
      <4> QED
        BY <4>1
    <3>3. id \in Nat
      BY <2>1
    <3>4. f[k + 1] = UpdateIndexes(f[k], old, new, id)
      BY <1>1, <2>1, <2>4
    <3>5. /\ DOMAIN After(k) = (DOMAIN old \ Visited(k)) \union (DOMAIN new \intersect Visited(k))
          /\ id \in DOMAIN old <=> id \in DOMAIN After(k)
          /\ id \in DOMAIN old => After(k)[id] = old[id][Indexed]
      BY <3>2
    <3>. DEFINE X == After(k)
                Y == After(k + 1)
    <3>6. /\ DOMAIN Y = (DOMAIN X \ {id}) \union (DOMAIN new \intersect {id})
          /\ id \in DOMAIN new => Y[id] = new[id][Indexed]
      BY <3>1, <3>2
    <3>7. \A j \in DOMAIN X \ {id} : Y[j] = X[j]
      BY <3>1, <3>2
    <3>8. IndexOK(f[k], X) /\ AllOrderable(X)
      BY <1>3
    <3>9. /\ id \in DOMAIN old <=> id \in DOMAIN X
          /\ id \in DOMAIN old => old[id][Indexed] = X[id]
          /\ id \in DOMAIN new => Orderable(new[id][Indexed])
      BY <3>5
    <3>. HIDE DEF X, Y, id
    <3>10. Rewrites(X, Y, old, new, id)
      BY <3>6, <3>7, <3>9 DEF Rewrites
    <3>11. IndexOK(UpdateIndexes(f[k], old, new, id), Y) /\ AllOrderable(Y)
      BY <3>3, <3>8, <3>10, UpdateIndexesIs
    <3> QED
      BY <3>4, <3>11 DEF Y
  <2> QED
    BY <2>3, <2>4
<1>4. Good(Len(ord))
  <2>. HIDE DEF Good
  <2>1. 0 \in S /\ S \subseteq Nat
    BY <1>2
  <2>2. \A k \in S : k + 1 \in S
    BY <1>3
  <2>. HIDE DEF S
  <2>3. \A k \in Nat : k \in S
    BY <2>1, <2>2, InductionOnNat
  <2> QED
    BY <2>3 DEF S
<1>5. Visited(Len(ord)) = ids
  OBVIOUS
<1>. DEFINE Z == After(Len(ord))
<1>6. Z = IndexedValues(tab)
  <2>1. DOMAIN Z = DOMAIN tab
    BY <1>5 DEF Written
  <2>2. \A id \in DOMAIN tab : Z[id] = tab[id][Indexed]
    BY <1>5 DEF Written
  <2>3. Z = [id \in DOMAIN Z |-> Z[id]]
    OBVIOUS
  <2>. HIDE DEF Z
  <2> QED
    BY <2>1, <2>2, <2>3 DEF IndexedValues
<1> QED
  BY <1>1, <1>4, <1>6

-----------------------------------------------------------------------------
(* The state *)

TypeOK ==
    /\ next \in Nat \ {0} /\ ordered \in BOOLEAN
    /\ Live \subseteq 1 .. next - 1
    /\ \A id \in Live : DOMAIN table[id] = ToSet(Columns)

\* As long as the indexed values are ones that Compare orders.
IndexInv ==
    ordered => IndexOK(index, IndexedValues(table)) /\ AllOrderable(IndexedValues(table))

LEMMA ListingsAreOrders == \A q : Listings(q) \subseteq Orders
BY DEF Listings

\* A listing of the table has every row once.
LEMMA OrdersAre ==
    ASSUME TypeOK, NEW ord \in Orders
    PROVE  /\ Len(ord) \in Nat /\ DOMAIN ord = 1 .. Len(ord)
           /\ \A n \in 1 .. Len(ord) : ord[n] \in Live
           /\ \A m, n \in 1 .. Len(ord) : ord[m] = ord[n] => m = n
           /\ Live = {ord[n] : n \in 1 .. Len(ord)}
<1>. DEFINE c == Cardinality(Live)
<1>1. IsFiniteSet(Live) /\ c \in Nat
  <2>1. IsFiniteSet(1 .. next - 1)
    BY FS_Interval DEF TypeOK
  <2> QED
    BY <2>1, FS_Subset, FS_CardinalityType DEF TypeOK
<1>2. ord \in [1 .. c -> Live] /\ \A i, j \in 1 .. c : i # j => ord[i] # ord[j]
  BY DEF Orders, SetToSeqs
<1>3. Len(ord) = c
  BY <1>1, <1>2
<1>4. ord \in Injection(1 .. c, Live)
  BY <1>2 DEF Injection, IsInjective
<1>5. Cardinality(1 .. c) = Cardinality(Live)
  <2>1. Cardinality(1 .. c) = IF 1 > c THEN 0 ELSE c - 1 + 1
    BY <1>1, FS_Interval
  <2> QED
    BY <1>1, <2>1
<1>6. ord \in Surjection(1 .. c, Live)
  BY <1>1, <1>4, <1>5, FS_Injection
<1>7. Live = {ord[n] : n \in 1 .. c}
  BY <1>2, <1>6 DEF Surjection
<1>. HIDE DEF c
<1> QED
  BY <1>1, <1>2, <1>3, <1>7

\* SET assigns to columns that there are.
LEMMA SetRowIs ==
    ASSUME NEW s, NEW row, Len(s.set) \in Nat
    PROVE  DOMAIN SetRow(s, row) = DOMAIN row
<1>. DEFINE N == Len(s.set)
            Step(x, n) == LET v == Evaluate(s.set[n].expr, row, s.params, x.next)
                          IN [row |-> [x.row EXCEPT ![s.set[n].as] = v.val], next |-> v.next]
            Body(f, m) == [n \in 0 .. m |->
                             IF n = 0 THEN [row |-> row, next |-> 0]
                             ELSE Step(f[n - 1], n)]
            Exists(m) == \E f : f = Body(f, m)
<1>1. Exists(0)
  <2>. DEFINE g == [n \in 0 .. 0 |-> [row |-> row, next |-> 0]]
  <2>. HIDE DEF Step
  <2>1. g = Body(g, 0)
    OBVIOUS
  <2> QED
    BY <2>1
<1>2. ASSUME NEW m \in Nat, Exists(m)
      PROVE  Exists(m + 1)
  <2>1. PICK f : f = Body(f, m)
    BY <1>2
  <2>. HIDE DEF Step
  <2>. DEFINE g == [n \in 0 .. m + 1 |-> IF n = m + 1 THEN Step(f[m], n) ELSE f[n]]
  <2>2. \A n \in 0 .. m + 1 : g[n] = Body(g, m + 1)[n]
    <3> SUFFICES ASSUME NEW n \in 0 .. m + 1
                 PROVE  g[n] = Body(g, m + 1)[n]
      OBVIOUS
    <3>1. CASE n = m + 1
      <4>1. g[n - 1] = f[m] /\ n # 0
        BY <3>1
      <4> QED
        BY <3>1, <4>1
    <3>2. CASE n \in 0 .. m
      <4>1. n # 0 => n - 1 \in 0 .. m /\ g[n - 1] = f[n - 1]
        BY <3>2
      <4>2. g[n] = f[n] /\ f[n] = Body(f, m)[n]
        BY <2>1, <3>2
      <4> QED
        BY <3>2, <4>1, <4>2
    <3> QED
      BY <3>1, <3>2
  <2>3. g = Body(g, m + 1)
    BY <2>2
  <2> QED
    BY <2>3
<1>3. Exists(N)
  <2>. DEFINE S == {m \in Nat : Exists(m)}
  <2>. HIDE DEF Exists
  <2>1. 0 \in S /\ \A m \in S : m + 1 \in S
    BY <1>1, <1>2
  <2>2. S \subseteq Nat
    OBVIOUS
  <2>. HIDE DEF S
  <2>3. \A m \in Nat : m \in S
    BY <2>1, <2>2, InductionOnNat
  <2> QED
    BY <2>3 DEF S
<1>. DEFINE R == CHOOSE f : f = Body(f, N)
<1>4. R = Body(R, N)
  BY <1>3
<1>5. SetRow(s, row) = R[N].row
  BY DEF SetRow
<1>. HIDE DEF R
<1>6. R[0] = [row |-> row, next |-> 0]
  BY <1>4
<1>7. ASSUME NEW n \in Nat, n + 1 <= N
      PROVE  DOMAIN R[n + 1].row = DOMAIN R[n].row
  <2>1. n + 1 \in 0 .. N /\ n + 1 # 0 /\ (n + 1) - 1 = n
    BY <1>7
  <2>2. R[n + 1] = Step(R[n], n + 1)
    BY <1>4, <2>1
  <2>3. Step(R[n], n + 1).row = [R[n].row EXCEPT ![s.set[n + 1].as] =
                                    Evaluate(s.set[n + 1].expr, row, s.params, R[n].next).val]
    OBVIOUS
  <2>. HIDE DEF Step
  <2> QED
    BY <2>2, <2>3
<1>. DEFINE T == {n \in Nat : n <= N => DOMAIN R[n].row = DOMAIN row}
<1>8. 0 \in T /\ T \subseteq Nat
  BY <1>6
<1>9. \A n \in T : n + 1 \in T
  BY <1>7
<1>. HIDE DEF T
<1>10. \A n \in Nat : n \in T
  BY <1>8, <1>9, InductionOnNat
<1> QED
  BY <1>5, <1>10 DEF T

-----------------------------------------------------------------------------
(* The answer is a list *)

\* OrderBy's function, which exists.
LEMMA OrderBySteps ==
    ASSUME NEW q, NEW rows, Len(q.order) \in Nat
    PROVE  \E f : /\ f[0] = rows
                  /\ \A n \in Nat : n + 1 <= Len(q.order) =>
                        f[n + 1] = SortBy(q.order[Len(q.order) + 1 - (n + 1)], f[n])
                  /\ OrderBy(q, rows) = f[Len(q.order)]
<1>. DEFINE N == Len(q.order)
            Step(x, n) == SortBy(q.order[N + 1 - n], x)
            Body(f, m) == [n \in 0 .. m |-> IF n = 0 THEN rows ELSE Step(f[n - 1], n)]
            Exists(m) == \E f : f = Body(f, m)
<1>1. Exists(0)
  <2>. DEFINE g == [n \in 0 .. 0 |-> rows]
  <2>1. g = Body(g, 0)
    OBVIOUS
  <2> QED
    BY <2>1
<1>2. ASSUME NEW m \in Nat, Exists(m)
      PROVE  Exists(m + 1)
  <2>1. PICK f : f = Body(f, m)
    BY <1>2
  <2>. HIDE DEF Step
  <2>. DEFINE g == [n \in 0 .. m + 1 |-> IF n = m + 1 THEN Step(f[m], n) ELSE f[n]]
  <2>2. \A n \in 0 .. m + 1 : g[n] = Body(g, m + 1)[n]
    <3> SUFFICES ASSUME NEW n \in 0 .. m + 1
                 PROVE  g[n] = Body(g, m + 1)[n]
      OBVIOUS
    <3>1. CASE n = m + 1
      <4>1. g[n - 1] = f[m] /\ n # 0
        BY <3>1
      <4> QED
        BY <3>1, <4>1
    <3>2. CASE n \in 0 .. m
      <4>1. n # 0 => n - 1 \in 0 .. m /\ g[n - 1] = f[n - 1]
        BY <3>2
      <4>2. g[n] = f[n] /\ f[n] = Body(f, m)[n]
        BY <2>1, <3>2
      <4> QED
        BY <3>2, <4>1, <4>2
    <3> QED
      BY <3>1, <3>2
  <2>3. g = Body(g, m + 1)
    BY <2>2
  <2> QED
    BY <2>3
<1>3. Exists(N)
  <2>. DEFINE S == {m \in Nat : Exists(m)}
  <2>. HIDE DEF Exists
  <2>1. 0 \in S /\ \A m \in S : m + 1 \in S
    BY <1>1, <1>2
  <2>2. S \subseteq Nat
    OBVIOUS
  <2>. HIDE DEF S
  <2>3. \A m \in Nat : m \in S
    BY <2>1, <2>2, InductionOnNat
  <2> QED
    BY <2>3 DEF S
<1>. DEFINE R == CHOOSE f : f = Body(f, N)
<1>4. R = Body(R, N)
  BY <1>3
<1>5. OrderBy(q, rows) = R[N]
  BY DEF OrderBy
<1>. HIDE DEF R
<1>6. R[0] = rows
  BY <1>4
<1>7. ASSUME NEW n \in Nat, n + 1 <= N
      PROVE  R[n + 1] = Step(R[n], n + 1)
  <2>1. n + 1 \in 0 .. N /\ n + 1 # 0 /\ (n + 1) - 1 = n
    BY <1>7
  <2>. HIDE DEF Step
  <2> QED
    BY <1>4, <2>1
<1> QED
  BY <1>5, <1>6, <1>7

LEMMA OrderByIsSeq ==
    ASSUME NEW q, Len(q.order) \in Nat, NEW rows, IsSeq(rows)
    PROVE  IsSeq(OrderBy(q, rows)) /\ Len(OrderBy(q, rows)) = Len(rows)
<1>. DEFINE N == Len(q.order)
<1>1. PICK f : /\ f[0] = rows
               /\ \A n \in Nat : n + 1 <= N => f[n + 1] = SortBy(q.order[N + 1 - (n + 1)], f[n])
               /\ OrderBy(q, rows) = f[N]
  BY OrderBySteps
<1>. DEFINE Good(x) == IsSeq(x) /\ Len(x) = Len(rows)
            T == {n \in Nat : n <= N => Good(f[n])}
<1>2. ASSUME NEW o, NEW x, Good(x)
      PROVE  Good(SortBy(o, x))
  <2>1. DOMAIN SortBy(o, x) = DOMAIN x
    BY DEF SortBy
  <2>2. SortBy(o, x) = [k \in DOMAIN SortBy(o, x) |-> SortBy(o, x)[k]]
    BY DEF SortBy
  <2> QED
    BY <1>2, <2>1, <2>2, MappedIs
<1>. HIDE DEF Good
<1>3. 0 \in T /\ T \subseteq Nat
  BY <1>1 DEF Good
<1>4. \A n \in T : n + 1 \in T
  BY <1>1, <1>2
<1>. HIDE DEF T
<1>5. \A n \in Nat : n \in T
  BY <1>3, <1>4, InductionOnNat
<1> QED
  BY <1>1, <1>5 DEF T, Good

LEMMA GroupIsSeq ==
    ASSUME NEW q, NEW rows, IsSeq(rows)
    PROVE  IsSeq(Group(q, rows))
<1>. DEFINE keys == [k \in DOMAIN rows |-> GroupKey(q, rows[k])]
            found == Picked(keys, Firsts(keys))
<1>1. IsSeq(found)
  <2>1. IsSeq(keys)
    BY MappedIs
  <2>. HIDE DEF keys
  <2> QED
    BY <2>1, PickedSeq
<1>2. /\ DOMAIN GroupBy(q, rows) = DOMAIN found
      /\ GroupBy(q, rows) = [g \in DOMAIN GroupBy(q, rows) |-> GroupBy(q, rows)[g]]
  BY DEF GroupBy
<1>. HIDE DEF found
<1> QED
  BY <1>1, <1>2, MappedIs DEF Group

LEMMA LimitIsSeq ==
    ASSUME NEW q, WellFormed(q), NEW rows, IsSeq(rows)
    PROVE  IsSeq(Limit(q, rows))
<1>1. CASE q.limit = <<>>
  BY <1>1 DEF Limit
<1>2. CASE q.limit # <<>>
  <2>. DEFINE n == IF q.limit[1] = Unreadable THEN Len(rows) ELSE q.limit[1]
              m == Min({q.offset + n, Len(rows)})
  <2>1. n \in Nat /\ q.offset \in Nat /\ Len(rows) \in Nat
    BY <1>2 DEF WellFormed, IsSeq
  <2>. HIDE DEF n
  <2>2. m \in Int /\ m <= Len(rows)
    <3>1. q.offset + n \in Int /\ Len(rows) \in Int
      BY <2>1
    <3>2. m \in {q.offset + n, Len(rows)} /\ m <= Len(rows)
      BY <3>1, MinIs
    <3>. HIDE DEF m
    <3> QED
      BY <3>1, <3>2
  <2>3. Limit(q, rows) = SubSeq(rows, q.offset + 1, m)
    BY <1>2 DEF Limit, n
  <2>. HIDE DEF m
  <2> QED
    BY <2>1, <2>2, <2>3, SubSeqIs
<1> QED
  BY <1>1, <1>2

LEMMA ShapeIsSeq ==
    ASSUME NEW q, WellFormed(q), NEW rows, IsSeq(rows)
    PROVE  IsSeq(Shape(q, rows))
<1>. DEFINE grouped == Group(q, rows)
            sorted  == OrderBy(q, grouped)
            limited == Limit(q, sorted)
            shown   == Project(q, limited)
            single  == Distinct(q, shown)
<1>1. IsSeq(grouped)
  BY GroupIsSeq
<1>2. IsSeq(sorted)
  <2>1. Len(q.order) \in Nat
    BY LenProperties DEF WellFormed
  <2> QED
    BY <1>1, <2>1, OrderByIsSeq
<1>3. IsSeq(limited)
  BY <1>2, LimitIsSeq
<1>4. IsSeq(shown)
  <2>1. CASE q.items = <<>> \/ Grouped(q)
    BY <1>3, <2>1 DEF Project
  <2>2. CASE ~ (q.items = <<>> \/ Grouped(q))
    <3>1. DOMAIN shown = DOMAIN limited /\ shown = [k \in DOMAIN shown |-> shown[k]]
      BY <2>2 DEF Project
    <3> QED
      BY <1>3, <3>1, MappedIs
  <2> QED
    BY <2>1, <2>2
<1>5. IsSeq(single)
  BY <1>4, PickedSeq DEF Distinct
<1>6. Shape(q, rows) = Strip(single)
  BY DEF Shape
<1>7. DOMAIN Strip(single) = DOMAIN single /\ Strip(single) = [k \in DOMAIN Strip(single) |-> Strip(single)[k]]
  BY DEF Strip
<1> QED
  BY <1>5, <1>6, <1>7, MappedIs

LEMMA AnswerIsSeq ==
    ASSUME TypeOK, NEW q \in Selects \union Copies, NEW ids, NEW ord \in Orders
    PROVE  IsSeq(AnswerFrom(q, ids, ord))
<1>. DEFINE base == Source(q)
            listed == Picked(ord, {k \in DOMAIN ord : ord[k] \in Matching(base, ids)})
            rows == FromTable(base, ids, ord)
<1>1. WellFormed(q) /\ WellFormed(base)
  <2>1. WellFormed(q) /\ (q.from # <<>> => WellFormed(q.from[1]))
    BY StatementAssumption
  <2>2. CASE q.from = <<>>
    BY <2>1, <2>2 DEF Source
  <2>3. CASE q.from # <<>>
    <3>1. base = [q.from[1] EXCEPT !.params = q.params]
      BY <2>3 DEF Source, Stored
    <3>2. base.items = q.from[1].items /\ base.order = q.from[1].order /\ base.limit = q.from[1].limit
          /\ base.offset = q.from[1].offset
      <4>1. DOMAIN q.from[1] = DOMAIN Query(<<>>, <<>>)
        BY <2>1, <2>3 DEF WellFormed
      <4>2. {"items", "order", "limit", "offset", "params"} \subseteq DOMAIN Query(<<>>, <<>>)
        BY DEF Query
      <4>. HIDE DEF base
      <4>3. {"items", "order", "limit", "offset", "params"} \subseteq DOMAIN q.from[1]
        BY <4>1, <4>2
      <4> QED
        BY <3>1, <4>3
    <3>3. DOMAIN base = DOMAIN q.from[1]
      BY <3>1
    <3>. HIDE DEF base
    <3> QED
      BY <2>1, <2>3, <3>2, <3>3 DEF WellFormed
  <2> QED
    BY <2>2, <2>3
<1>2. IsSeq(ord)
  BY OrdersAre DEF IsSeq, Orders, SetToSeqs
<1>3. IsSeq(Listed(Matching(base, ids), ord))
  <2>1. IsSeq(listed)
    BY <1>2, PickedSeq
  <2>2. Listed(Matching(base, ids), ord) = [k \in DOMAIN listed |-> Tagged(listed[k])]
    BY DEF Listed
  <2>. HIDE DEF listed
  <2> QED
    BY <2>1, <2>2, MappedIs
<1>4. IsSeq(rows)
  BY <1>1, <1>3, ShapeIsSeq DEF FromTable
<1>5. CASE q.from = <<>>
  BY <1>4, <1>5 DEF AnswerFrom
<1>6. CASE q.from # <<>>
  <2>. HIDE DEF rows
  <2>1. IsSeq(Filter(q, rows))
    BY <1>4, PickedSeq DEF Filter
  <2>2. AnswerFrom(q, ids, ord) = Shape(q, Filter(q, rows))
    BY <1>6 DEF AnswerFrom, rows
  <2> QED
    BY <1>1, <2>1, <2>2, ShapeIsSeq
<1> QED
  BY <1>5, <1>6

-----------------------------------------------------------------------------
(* The steps *)

\* A statement that writes the rows ids leaves the index that of the new table.
LEMMA WriteRowsIs ==
    ASSUME TypeOK, IndexInv, NEW ids, NEW new, NEW ord, WriteRows(ids, new, ord),
           Visits(ord, ids), DOMAIN new \subseteq ids,
           \A id \in DOMAIN new : DOMAIN new[id] = ToSet(Columns)
    PROVE  /\ Written(table', table, new, ids)
           /\ \A id \in DOMAIN table' : DOMAIN table'[id] = ToSet(Columns)
           /\ ordered' \in BOOLEAN
           /\ IndexInv'
<1>1. Written(table', table, new, ids)
  BY DEF WriteRows, Written, Live
<1>2. index' = Reindexed(index, table, new, ids, ord)
  BY DEF WriteRows
<1>3. ordered' = (ordered /\ \A id \in DOMAIN new : Orderable(new[id][Indexed]))
  BY DEF WriteRows
<1>4. \A id \in DOMAIN table' : DOMAIN table'[id] = ToSet(Columns)
  BY <1>1 DEF TypeOK, Live, Written
<1>5. ASSUME ordered'
      PROVE  IndexOK(index', IndexedValues(table')) /\ AllOrderable(IndexedValues(table'))
  <2>1. IndexOK(index, IndexedValues(table)) /\ AllOrderable(IndexedValues(table))
    BY <1>3, <1>5 DEF IndexInv
  <2>2. \A id \in DOMAIN new : Orderable(new[id][Indexed])
    BY <1>3, <1>5
  <2>. DEFINE tab == table'
  <2>3. Written(tab, table, new, ids)
    BY <1>1
  <2>. HIDE DEF tab
  <2>4. /\ IndexOK(Reindexed(index, table, new, ids, ord), IndexedValues(tab))
        /\ AllOrderable(IndexedValues(tab))
    BY <2>1, <2>2, <2>3, ReindexedIs
  <2> QED
    BY <1>2, <2>4 DEF tab
<1>6. IndexInv'
  BY <1>5 DEF IndexInv
<1> QED
  BY <1>1, <1>3, <1>4, <1>6

LEMMA InsertRowsIs ==
    ASSUME TypeOK, IndexInv, NEW rows, Len(rows) \in Nat, InsertRows(rows)
    PROVE  /\ TypeOK' /\ IndexInv'
           /\ next' = next + Len(rows)
           /\ DOMAIN table' = Live \union next .. next' - 1
           /\ \A id \in Live : table'[id] = table[id]
           /\ \A k \in 1 .. Len(rows) : table'[next + k - 1] = NewRow(rows[k], next + k - 1)
<1>. DEFINE L == Len(rows)
            last == next + L - 1
            ids == next .. last
            new == [id \in ids |-> NewRow(rows[id - next + 1], id)]
            ord == [k \in 1 .. L |-> next + k - 1]
<1>0. next \in Nat \ {0} /\ L \in Nat /\ Live \subseteq 1 .. next - 1
  BY DEF TypeOK
<1>1. WriteRows(ids, new, ord) /\ next' = next + L
  BY DEF InsertRows
<1>2. DOMAIN new = ids /\ \A id \in DOMAIN new : DOMAIN new[id] = ToSet(Columns)
  BY DEF NewRow
<1>3. Len(ord) = L /\ \A k \in 1 .. L : ord[k] = next + k - 1 /\ ord[k] \in Nat
  <2>1. \A k \in 1 .. L : ord[k] \in Nat /\ ord[k] = next + k - 1
    BY <1>0
  <2>2. DOMAIN ord = 1 .. L /\ ord = [k \in DOMAIN ord |-> ord[k]]
    OBVIOUS
  <2>. HIDE DEF ord, L
  <2> QED
    BY <1>0, <2>1, <2>2, SeqIs
<1>4. \A m, n \in 1 .. L : ord[m] = ord[n] => m = n
  BY <1>0
<1>5. ids \subseteq {ord[n] : n \in 1 .. L}
  <2> SUFFICES ASSUME NEW id \in ids
               PROVE  \E n \in 1 .. L : ord[n] = id
    OBVIOUS
  <2>1. id - next + 1 \in 1 .. L /\ next + (id - next + 1) - 1 = id
    BY <1>0
  <2> QED
    BY <2>1
<1>6. Live \intersect ids = {}
  BY <1>0
<1>7. \A k \in 1 .. L : next + k - 1 \in ids /\ (next + k - 1) - next + 1 = k
  BY <1>0
<1>8. \A k \in 1 .. L : new[next + k - 1] = NewRow(rows[k], next + k - 1)
  BY <1>7
<1>. HIDE DEF new, ord
<1>9. /\ Written(table', table, new, ids)
      /\ \A id \in DOMAIN table' : DOMAIN table'[id] = ToSet(Columns)
      /\ ordered' \in BOOLEAN
      /\ IndexInv'
  <2>1. Visits(ord, ids)
    BY <1>0, <1>3, <1>4, <1>5 DEF Visits
  <2>. HIDE DEF ids
  <2> QED
    BY <1>1, <1>2, <2>1, WriteRowsIs
<1>10. DOMAIN table' = Live \union next .. next' - 1
  <2>1. next' - 1 = last
    BY <1>0, <1>1
  <2> QED
    BY <1>2, <1>6, <1>9, <2>1 DEF Written, Live
<1>11. \A id \in Live : table'[id] = table[id]
  BY <1>6, <1>9 DEF Written, Live
<1>12. \A k \in 1 .. L : table'[next + k - 1] = NewRow(rows[k], next + k - 1)
  BY <1>2, <1>7, <1>8, <1>9 DEF Written
<1>13. TypeOK'
  <2>1. next' \in Nat \ {0} /\ Live \union next .. next' - 1 \subseteq 1 .. next' - 1
    <3>1. next' = next + L
      BY <1>1
    <3>. HIDE DEF L
    <3> QED
      BY <1>0, <3>1
  <2>2. DOMAIN table' \subseteq 1 .. next' - 1
    BY <1>10, <2>1
  <2> QED
    BY <1>9, <2>1, <2>2 DEF TypeOK, Live
<1> QED
  BY <1>1, <1>9, <1>10, <1>11, <1>12, <1>13

LEMMA WriteKeeps ==
    ASSUME TypeOK, IndexInv, NEW kind, NEW s, NEW ids, NEW new, Write(kind, s, ids, new),
           ids \subseteq Live, DOMAIN new \subseteq ids,
           \A id \in DOMAIN new : DOMAIN new[id] = ToSet(Columns)
    PROVE  TypeOK' /\ IndexInv'
<1>1. PICK ord \in Orders : WriteRows(ids, new, ord) /\ next' = next
  BY DEF Write
<1>2. Visits(ord, ids)
  <2>1. \A n \in 1 .. Len(ord) : ord[n] \in Live
    BY OrdersAre
  <2>2. Live \subseteq Nat
    BY DEF TypeOK
  <2> QED
    BY <2>1, <2>2, OrdersAre DEF Visits
<1>3. /\ Written(table', table, new, ids)
      /\ \A id \in DOMAIN table' : DOMAIN table'[id] = ToSet(Columns)
      /\ ordered' \in BOOLEAN
      /\ IndexInv'
  BY <1>1, <1>2, WriteRowsIs
<1> QED
  BY <1>1, <1>3 DEF TypeOK, Live, Written

\* Every step keeps the table's form and the index right.
LEMMA NextKeeps ==
    ASSUME TypeOK, IndexInv, [Next]_vars
    PROVE  TypeOK' /\ IndexInv'
<1>1. ASSUME NEW s \in Inserts, Insert(s)
      PROVE  TypeOK' /\ IndexInv'
  <2>. DEFINE rows == [k \in DOMAIN s.values |-> TupleRow(s.values[k], s.params)]
  <2>1. InsertRows(rows)
    BY <1>1 DEF Insert
  <2>2. Len(rows) \in Nat
    <3>1. IsSeq(s.values)
      BY StatementAssumption, IsSeqIs
    <3>2. DOMAIN rows = DOMAIN s.values /\ rows = [k \in DOMAIN rows |-> rows[k]]
      OBVIOUS
    <3>. HIDE DEF rows
    <3> QED
      BY <3>1, <3>2, MappedIs DEF IsSeq
  <2>. HIDE DEF rows
  <2> QED
    BY <2>1, <2>2, InsertRowsIs
<1>2. ASSUME NEW s \in Updates, Update(s)
      PROVE  TypeOK' /\ IndexInv'
  <2>. DEFINE ids == Chosen(s.where, s.params, WhereOffset(s))
              new == [id \in ids |-> SetRow(s, table[id])]
  <2>1. Write("update", s, ids, new)
    BY <1>2 DEF Update
  <2>2. ids \subseteq Live
    BY DEF Chosen
  <2>3. Len(s.set) \in Nat
    BY StatementAssumption, LenProperties
  <2>4. DOMAIN new = ids
    OBVIOUS
  <2>5. \A id \in DOMAIN new : DOMAIN new[id] = ToSet(Columns)
    BY <2>2, <2>3, SetRowIs DEF TypeOK
  <2>. HIDE DEF ids, new
  <2> QED
    BY <2>1, <2>2, <2>4, <2>5, WriteKeeps
<1>3. ASSUME NEW s \in Deletes, Delete(s)
      PROVE  TypeOK' /\ IndexInv'
  <2>. DEFINE ids == Chosen(s.where, s.params, 0)
  <2>1. Write("delete", s, ids, <<>>)
    BY <1>3 DEF Delete
  <2>2. ids \subseteq Live
    BY DEF Chosen
  <2>3. DOMAIN <<>> = {}
    OBVIOUS
  <2>. HIDE DEF ids
  <2> QED
    BY <2>1, <2>2, <2>3, WriteKeeps
<1>4. ASSUME NEW q \in Selects, Ask(q)
      PROVE  TypeOK' /\ IndexInv'
  BY <1>4 DEF Ask, TypeOK, IndexInv, Live
<1>5. ASSUME NEW q \in Copies, Copy(q)
      PROVE  TypeOK' /\ IndexInv'
  <2>1. PICK ord \in Listings(Source(q)) : \E rows \in {AnswerFrom(q, Fetched(Source(q)), ord)} :
           InsertRows(Candidates([k \in DOMAIN rows |-> ByPosition(q, rows[k])]))
    BY <1>5 DEF Copy
  <2>. DEFINE rows == AnswerFrom(q, Fetched(Source(q)), ord)
              more == [k \in DOMAIN rows |-> ByPosition(q, rows[k])]
  <2>2. InsertRows(Candidates(more))
    BY <2>1
  <2>3. IsSeq(more)
    <3>1. IsSeq(rows)
      <4>1. ord \in Orders
        BY ListingsAreOrders
      <4> QED
        BY <4>1, AnswerIsSeq
    <3>2. DOMAIN more = DOMAIN rows /\ more = [k \in DOMAIN more |-> more[k]]
      OBVIOUS
    <3>. HIDE DEF more, rows
    <3> QED
      BY <3>1, <3>2, MappedIs
  <2>. HIDE DEF more
  <2>4. Len(Candidates(more)) \in Nat
    BY <2>3 DEF Candidates, IsSeq
  <2> QED
    BY <2>2, <2>4, InsertRowsIs
<1>6. ASSUME Return
      PROVE  TypeOK' /\ IndexInv'
  BY <1>6 DEF Return, TypeOK, IndexInv, Live
<1>7. CASE UNCHANGED vars
  BY <1>7 DEF vars, TypeOK, IndexInv, Live
<1> QED
  BY <1>1, <1>2, <1>3, <1>4, <1>5, <1>6, <1>7 DEF Next

LEMMA InitOK ==
    ASSUME Init
    PROVE  TypeOK /\ IndexInv
<1>1. DOMAIN table = {} /\ DOMAIN IndexedValues(table) = {}
  BY DEF Init, IndexedValues
<1> QED
  BY <1>1 DEF Init, TypeOK, IndexInv, IndexOK, AllOrderable, Live

\* The table's form, and an index that is right as long as Compare orders what
\* is in it, in every state.
THEOREM Invariance == Spec => [](TypeOK /\ IndexInv)
<1>1. Init => TypeOK /\ IndexInv
  BY InitOK
<1>2. TypeOK /\ IndexInv /\ [Next]_vars => (TypeOK /\ IndexInv)'
  BY NextKeeps
<1> QED
  BY <1>1, <1>2, PTL DEF Spec

LEMMA IndexInvLists ==
    ASSUME TypeOK, IndexInv
    PROVE  IndexListsRows
<1> SUFFICES ASSUME ordered
             PROVE  /\ \A id \in Live : \E e \in index :
                          /\ EntriesAt(index, table[id][Indexed]) = {e}
                          /\ {f \in index : id \in f.ids} = {e}
                    /\ \A e \in index : e.ids # {} /\ e.ids \subseteq Live
  BY DEF IndexListsRows
<1>. DEFINE val == IndexedValues(table)
<1>1. DOMAIN val = Live /\ \A id \in Live : val[id] = table[id][Indexed]
  BY DEF IndexedValues, Live
<1>2. IndexOK(index, val) /\ AllOrderable(val)
  BY DEF IndexInv
<1>. HIDE DEF val
<1>3. /\ \A e \in index : Orderable(e.key) /\ e.ids # {}
      /\ \A e, f \in index : Compare(e.key, f.key) = 0 => e = f
      /\ \A e \in index : \A id : id \in e.ids <=> id \in Live /\ Compare(e.key, val[id]) = 0
      /\ \A id \in Live : \E e \in index : Compare(e.key, val[id]) = 0
      /\ \A id \in Live : Orderable(val[id])
  BY <1>1, <1>2 DEF IndexOK, AllOrderable
<1>4. \A e \in index : e.ids # {} /\ e.ids \subseteq Live
  BY <1>3
<1>5. ASSUME NEW id \in Live
      PROVE  \E e \in index : /\ EntriesAt(index, table[id][Indexed]) = {e}
                              /\ {f \in index : id \in f.ids} = {e}
  <2>1. PICK e \in index : Compare(e.key, val[id]) = 0
    BY <1>3
  <2>2. ASSUME NEW f \in index, Compare(f.key, val[id]) = 0
        PROVE  f = e
    <3>1. Orderable(e.key) /\ Orderable(f.key) /\ Orderable(val[id])
      BY <1>3
    <3>2. Compare(val[id], e.key) = 0
      BY <2>1, <3>1, CompareOrders
    <3>3. Compare(f.key, e.key) = 0
      BY <2>2, <3>1, <3>2, CompareOrders
    <3> QED
      BY <1>3, <3>3
  <2>3. EntriesAt(index, val[id]) = {e}
    BY <2>1, <2>2 DEF EntriesAt
  <2>4. {f \in index : id \in f.ids} = {e}
    BY <1>3, <2>1, <2>2
  <2> QED
    BY <1>1, <2>3, <2>4
<1> QED
  BY <1>4, <1>5

\* Every row is found in the index under its own value, once, and nothing else
\* is there, whatever INSERTs, UPDATEs and DELETEs have done (index.rs:60,
\* index.rs:71).
THEOREM RowsAreListed == Spec => []IndexListsRows
<1>1. TypeOK /\ IndexInv => IndexListsRows
  BY IndexInvLists
<1> QED
  BY <1>1, Invariance, PTL

-----------------------------------------------------------------------------
(* INSERT ... SELECT *)

\* A row goes in by position; what it was not given is omitted.
LEMMA NewRowByPosition ==
    ASSUME NEW q, NEW row, NEW id, NEW c \in DOMAIN Columns
    PROVE  NewRow(ByPosition(q, row), id)[Columns[c]]
           = IF c \in DOMAIN OutputNames(q) THEN row[OutputNames(q)[c]] ELSE Omitted(Columns[c], id)
<1>. DEFINE names == OutputNames(q)
            given == ByPosition(q, row)
            D == {Columns[k] : k \in DOMAIN Columns \intersect DOMAIN names}
            at(x) == CHOOSE k \in DOMAIN Columns : Columns[k] = x
<1>1. Columns[c] \in ToSet(Columns)
  BY DEF ToSet
<1>2. \A k \in DOMAIN Columns : Columns[k] = Columns[c] => k = c
  BY SelectAssumption DEF IsInjective
<1>3. at(Columns[c]) = c
  BY <1>2
<1>4. Columns[c] \in D <=> c \in DOMAIN names
  BY <1>2
<1>5. given = [x \in D |-> row[names[at(x)]]]
  BY DEF ByPosition
<1>6. DOMAIN given = D /\ (Columns[c] \in D => given[Columns[c]] = row[names[c]])
  BY <1>3, <1>5
<1>. HIDE DEF given, names, D
<1>7. NewRow(given, id)[Columns[c]] = IF Columns[c] \in DOMAIN given THEN given[Columns[c]]
                                      ELSE Omitted(Columns[c], id)
  BY <1>1 DEF NewRow
<1> QED
  BY <1>4, <1>6, <1>7 DEF given, names

\* A row that was given nothing.
LEMMA NewRowOfNothing ==
    ASSUME NEW id, NEW c \in DOMAIN Columns
    PROVE  NewRow(<<>>, id)[Columns[c]] = Omitted(Columns[c], id)
<1>1. Columns[c] \in ToSet(Columns)
  BY DEF ToSet
<1>2. DOMAIN <<>> = {}
  OBVIOUS
<1> QED
  BY <1>1, <1>2 DEF NewRow

\* A state names the statement of the step that led to it.
LEMMA KindIs ==
    /\ \A s \in Inserts : Insert(s) => asked'.kind = "insert"
    /\ \A s \in Updates : Update(s) => asked'.kind = "update"
    /\ \A s \in Deletes : Delete(s) => asked'.kind = "delete"
    /\ \A q \in Selects : Ask(q) => asked'.kind = "select"
    /\ \A q \in Copies : Copy(q) => asked'.kind = "copy"
    /\ Return => asked'.kind = "none"
<1>1. \A s \in Inserts : Insert(s) => asked'.kind = "insert"
  BY DEF Insert, Called
<1>. DEFINE Wrote(kind) == \E ord \in Orders, s \in Updates \union Deletes : Called(kind, s)
<1>2. ASSUME NEW s \in Updates, Update(s)
      PROVE  asked'.kind = "update"
  <2>1. Wrote("update")
    BY <1>2 DEF Update, Write
  <2> QED
    BY <2>1 DEF Called
<1>3. ASSUME NEW s \in Deletes, Delete(s)
      PROVE  asked'.kind = "delete"
  <2>1. Wrote("delete")
    BY <1>3 DEF Delete, Write
  <2> QED
    BY <2>1 DEF Called
<1>4. \A q \in Selects : Ask(q) => asked'.kind = "select"
  BY DEF Ask, Called
<1>5. ASSUME NEW q \in Copies, Copy(q)
      PROVE  asked'.kind = "copy"
  <2>1. Called("copy", q)
    BY <1>5 DEF Copy
  <2> QED
    BY <2>1 DEF Called
<1>6. Return => asked'.kind = "none"
  BY DEF Return, Nothing
<1> QED
  BY <1>1, <1>2, <1>3, <1>4, <1>5, <1>6

LEMMA CopyAdds ==
    ASSUME TypeOK, IndexInv, Next, asked'.kind = "copy"
    PROVE  /\ next' = next + (IF answer'.rows = <<>> THEN 1 ELSE Len(answer'.rows))
           /\ DOMAIN table' = Live \union next .. next' - 1
           /\ \A id \in Live : table'[id] = table[id]
           /\ AddsAnswer(table', next, next' - 1, answer'.rows, OutputNames(asked'.what))
<1>1. PICK q \in Copies : Copy(q)
  BY KindIs DEF Next
<1>2. PICK ord \in Listings(Source(q)) : \E rows \in {AnswerFrom(q, Fetched(Source(q)), ord)} :
         /\ InsertRows(Candidates([k \in DOMAIN rows |-> ByPosition(q, rows[k])]))
         /\ Called("copy", q)
         /\ Returns(rows)
  BY <1>1 DEF Copy
<1>. DEFINE rows == AnswerFrom(q, Fetched(Source(q)), ord)
            more == [k \in DOMAIN rows |-> ByPosition(q, rows[k])]
            names == OutputNames(q)
<1>3. InsertRows(Candidates(more)) /\ asked'.what = q /\ answer'.rows = rows
  BY <1>2 DEF Called, Returns
<1>4. IsSeq(rows)
  <2>1. ord \in Orders
    BY ListingsAreOrders
  <2> QED
    BY <2>1, AnswerIsSeq
<1>5. /\ IsSeq(more) /\ Len(more) = Len(rows)
      /\ \A k \in DOMAIN rows : more[k] = ByPosition(q, rows[k])
  <2>1. DOMAIN more = DOMAIN rows /\ more = [k \in DOMAIN more |-> more[k]]
    OBVIOUS
  <2>2. \A k \in DOMAIN rows : more[k] = ByPosition(q, rows[k])
    OBVIOUS
  <2>. HIDE DEF more, rows
  <2> QED
    BY <1>4, <2>1, <2>2, MappedIs
<1>. HIDE DEF more, rows, names
<1>6. next \in Nat
  BY DEF TypeOK
<1>7. CASE rows = <<>>
  <2>1. Len(rows) = 0 /\ Len(<<>>) = 0
    BY <1>7
  <2>2. more = <<>>
    BY <1>5, <2>1 DEF IsSeq
  <2>3. InsertRows(<< <<>> >>) /\ Len(<< <<>> >>) = 1
    BY <1>3, <2>2 DEF Candidates
  <2>4. /\ next' = next + 1
        /\ DOMAIN table' = Live \union next .. next' - 1
        /\ \A id \in Live : table'[id] = table[id]
        /\ \A k \in 1 .. 1 : table'[next + k - 1] = NewRow(<< <<>> >>[k], next + k - 1)
    BY <2>3, InsertRowsIs
  <2>5. table'[next] = NewRow(<<>>, next)
    <3>1. 1 \in 1 .. 1 /\ next + 1 - 1 = next
      BY <1>6
    <3> QED
      BY <2>4, <3>1
  <2>6. ASSUME NEW id \in next .. next' - 1, NEW c \in DOMAIN Columns
        PROVE  table'[id][Columns[c]] = Omitted(Columns[c], id)
    <3>1. id = next
      BY <1>6, <2>4
    <3> QED
      BY <2>5, <3>1, NewRowOfNothing
  <2> QED
    BY <1>3, <1>7, <2>4, <2>6 DEF AddsAnswer
<1>8. CASE rows # <<>>
  <2>1. Candidates(more) = more
    <3>1. Len(rows) # 0
      BY <1>4, <1>8 DEF IsSeq
    <3>2. Len(<<>>) = 0
      OBVIOUS
    <3>3. more # <<>>
      BY <1>5, <3>1, <3>2
    <3> QED
      BY <3>3 DEF Candidates
  <2>2. Len(rows) \in Nat /\ DOMAIN rows = 1 .. Len(rows)
    BY <1>4 DEF IsSeq
  <2>3. /\ next' = next + Len(rows)
        /\ DOMAIN table' = Live \union next .. next' - 1
        /\ \A id \in Live : table'[id] = table[id]
        /\ \A k \in 1 .. Len(rows) : table'[next + k - 1] = NewRow(more[k], next + k - 1)
    BY <1>3, <1>5, <2>1, <2>2, InsertRowsIs
  <2>4. ASSUME NEW id \in next .. next' - 1, NEW c \in DOMAIN Columns
        PROVE  table'[id][Columns[c]] = IF c \in DOMAIN names THEN rows[id - next + 1][names[c]]
                                        ELSE Omitted(Columns[c], id)
    <3>. DEFINE k == id - next + 1
    <3>1. k \in 1 .. Len(rows) /\ next + k - 1 = id
      BY <1>6, <2>2, <2>3
    <3>. HIDE DEF k
    <3>2. table'[id] = NewRow(ByPosition(q, rows[k]), id)
      BY <1>5, <2>2, <2>3, <3>1
    <3>3. table'[id][Columns[c]] = IF c \in DOMAIN names THEN rows[k][names[c]]
                                   ELSE Omitted(Columns[c], id)
      BY <3>2, NewRowByPosition DEF names
    <3> QED
      BY <3>3 DEF k
  <2> QED
    BY <1>3, <1>8, <2>3, <2>4 DEF AddsAnswer, names
<1> QED
  BY <1>7, <1>8

\* INSERT ... SELECT adds a row for every row of its answer, each value where
\* its column's position puts it, or one row without any given value, behind the
\* rows that are there, which it leaves alone (sql/dml.rs:72).
THEOREM CopiesAdd == Spec => CopyAddsItsAnswer
<1>1. TypeOK /\ IndexInv /\ [Next]_vars =>
        [asked'.kind = "copy" =>
            /\ next' = next + (IF answer'.rows = <<>> THEN 1 ELSE Len(answer'.rows))
            /\ DOMAIN table' = Live \union next .. next' - 1
            /\ \A id \in Live : table'[id] = table[id]
            /\ AddsAnswer(table', next, next' - 1, answer'.rows, OutputNames(asked'.what))]_vars
  BY CopyAdds
<1> QED
  BY <1>1, Invariance, PTL DEF Spec, CopyAddsItsAnswer

-----------------------------------------------------------------------------
(* The index fast paths *)

LEMMA FlippedIs ==
    /\ DOMAIN Flipped = {"<", "<=", ">", ">=", "="}
    /\ Flipped["<"] = ">" /\ Flipped["<="] = ">=" /\ Flipped[">"] = "<"
    /\ Flipped[">="] = "<=" /\ Flipped["="] = "="
BY DEF Flipped

\* What a fetched row gives for the indexed column.
LEMMA TaggedIs ==
    ASSUME TypeOK, NEW id \in Live
    PROVE  Lookup(Tagged(id), Indexed) = table[id][Indexed]
<1>1. Indexed \in ToSet(Columns) /\ Indexed # "_rowid_"
  <2>1. \A c \in ToSet(Columns) : c # "_rowid_"
    BY SelectAssumption, LenProperties DEF ToSet
  <2> QED
    BY <2>1, SelectAssumption
<1>2. Indexed \in DOMAIN table[id]
  BY <1>1 DEF TypeOK
<1>3. Indexed \in DOMAIN Tagged(id) /\ Tagged(id)[Indexed] = table[id][Indexed]
  BY <1>1, <1>2 DEF Tagged
<1> QED
  BY <1>3 DEF Lookup

LEMMA TruthyBool ==
    ASSUME NEW b \in BOOLEAN
    PROVE  Truthy(BoolVal(b)) = b
BY DEF Truthy, BoolVal, Integer

\* The two sides of a condition that compares the column with what no row
\* changes: the row's value, and the constant that the fast path computes.
LEMMA SidesAre ==
    ASSUME NEW e, NEW row, NEW params, Compares(e), Closed(AsColumnOp(e).other),
           HoldsAsWritten(e, row, params), Holds(e, row, params, 0).holds
    PROVE  LET c == AsColumnOp(e)
               v == Lookup(row, c.col)
               k == Constant(c.other, params)
           IN IF IsColumn(e.args[1]) THEN c.op = e.op /\ Truthy(Apply(e.op, <<v, k>>))
              ELSE c.op = Flipped[e.op] /\ Truthy(Apply(e.op, <<k, v>>))
<1>. DEFINE first  == Evaluate(e.args[1], row, params, 0)
            second == Evaluate(e.args[2], row, params, first.next)
            c == AsColumnOp(e)
            v == Lookup(row, c.col)
            k == Constant(c.other, params)
<1>1. /\ e.op \in DOMAIN Flipped
      /\ IsColumn(e.args[1]) # IsColumn(e.args[2])
  BY DEF Compares
<1>2. /\ ReadsAsWritten(e.args[1], row, params, 0)
      /\ ReadsAsWritten(e.args[2], row, params, first.next)
      /\ Truthy(Apply(e.op, <<first.val, second.val>>))
  BY <1>1 DEF HoldsAsWritten
<1>3. CASE IsColumn(e.args[1])
  <2>1. c.col = e.args[1].name /\ c.op = e.op /\ c.other = e.args[2]
    BY <1>3 DEF AsColumnOp
  <2>2. first = At(v, 0)
    BY <1>2, <1>3, <2>1 DEF ReadsAsWritten
  <2>3. first.val = v /\ first.next = 0
    BY <2>2 DEF At
  <2>4. second.val = k
    BY <1>2, <2>1, <2>3 DEF ReadsAsWritten, Constant
  <2> QED
    BY <1>2, <1>3, <2>1, <2>3, <2>4
<1>4. CASE ~ IsColumn(e.args[1])
  <2>1. c.col = e.args[2].name /\ c.op = Flipped[e.op] /\ c.other = e.args[1]
    BY <1>4 DEF AsColumnOp
  <2>2. IsColumn(e.args[2])
    BY <1>1, <1>4 DEF IsColumn
  <2>3. first.val = k
    BY <1>2, <2>1 DEF ReadsAsWritten, Constant
  <2>4. second = At(v, first.next)
    BY <1>2, <2>1, <2>2 DEF ReadsAsWritten
  <2>5. second.val = v
    BY <2>4 DEF At
  <2> QED
    BY <1>2, <1>4, <2>1, <2>3, <2>5
<1> QED
  BY <1>3, <1>4

\* The same of a BETWEEN whose bounds do not both have placeholders.
LEMMA BoundsAre ==
    ASSUME NEW e, NEW row, NEW params, e.op = "between", IsColumn(e.args[1]),
           Closed(e.args[2]), Closed(e.args[3]),
           Placeholders(e.args[2]) = 0 \/ Placeholders(e.args[3]) = 0,
           HoldsAsWritten(e, row, params), Holds(e, row, params, 0).holds
    PROVE  InRange(Lookup(row, e.args[1].name),
                   Constant(e.args[2], params), Constant(e.args[3], params))
<1>. DEFINE first  == Evaluate(e.args[1], row, params, 0)
            second == Evaluate(e.args[2], row, params, first.next)
            third  == Evaluate(e.args[3], row, params, second.next)
            v  == Lookup(row, e.args[1].name)
            lo == Constant(e.args[2], params)
            hi == Constant(e.args[3], params)
<1>1. /\ ReadsAsWritten(e.args[1], row, params, 0)
      /\ ReadsAsWritten(e.args[2], row, params, first.next)
      /\ ReadsAsWritten(e.args[3], row, params, second.next)
      /\ Truthy(Apply(e.op, <<first.val, second.val, third.val>>))
  BY DEF HoldsAsWritten
<1>2. first = At(v, 0)
  BY <1>1 DEF ReadsAsWritten
<1>3. first.val = v /\ first.next = 0
  BY <1>2 DEF At
<1>4. second = Evaluate(e.args[2], NoColumns, params, 0) /\ second.val = lo
  BY <1>1, <1>3 DEF ReadsAsWritten, Constant
<1>5. Evaluate(e.args[3], row, params, 0).val = hi
  BY <1>1 DEF ReadsAsWritten, Constant
<1>6. third.val = hi
  <2>1. CASE Placeholders(e.args[2]) = 0
    <3>1. second = At(Evaluate(e.args[2], row, params, 0).val, 0)
      BY <1>1, <1>3, <2>1 DEF ReadsAsWritten
    <3>2. second.next = 0
      BY <3>1 DEF At
    <3> QED
      BY <1>5, <3>2
  <2>2. CASE Placeholders(e.args[3]) = 0
    <3>1. third = At(Evaluate(e.args[3], row, params, 0).val, second.next)
      BY <1>1, <2>2 DEF ReadsAsWritten
    <3> QED
      BY <1>5, <3>1 DEF At
  <2> QED
    BY <2>1, <2>2
<1>. HIDE DEF first, second, third, v, lo, hi
<1>7. Truthy(Apply("between", <<v, lo, hi>>))
  BY <1>1, <1>3, <1>4, <1>6
<1>8. Apply("between", <<v, lo, hi>>) = BoolVal(InRange(v, lo, hi))
  BY DEF Apply
<1>9. InRange(v, lo, hi) \in BOOLEAN
  BY DEF InRange
<1> QED
  BY <1>7, <1>8, <1>9, TruthyBool DEF v, lo, hi

\* A row that the index lists is found by a value equal to its own.
LEMMA LookupFinds ==
    ASSUME TypeOK, IndexInv, ordered, NEW id \in Live,
           NEW k, Same(table[id][Indexed], k) \/ Same(k, table[id][Indexed])
    PROVE  id \in LookupIndex(index, k)
<1>. DEFINE v == table[id][Indexed]
<1>1. /\ id \in DOMAIN IndexedValues(table) /\ IndexedValues(table)[id] = v
      /\ IndexOK(index, IndexedValues(table)) /\ AllOrderable(IndexedValues(table))
  BY DEF IndexInv, IndexedValues, Live
<1>2. PICK e \in index : Compare(e.key, v) = 0 /\ id \in e.ids
  BY <1>1 DEF IndexOK
<1>3. Orderable(e.key) /\ Orderable(v)
  BY <1>1 DEF IndexOK, AllOrderable
<1>4. Same(v, k)
  BY DEF Same
<1>. HIDE DEF v
<1>5. Orderable(k) /\ Compare(v, k) = 0
  BY <1>3, <1>4, SameIsEqual
<1>6. Compare(e.key, k) = 0
  BY <1>2, <1>3, <1>5, CompareOrders
<1> QED
  BY <1>2, <1>6 DEF LookupIndex, EntriesAt

\* And by a range that its own value lies in.
LEMMA RangeFinds ==
    ASSUME TypeOK, IndexInv, ordered, NEW id \in Live, NEW lower, NEW upper,
           Orderable(lower.val), Orderable(upper.val),
           AboveLower(table[id][Indexed], lower), BelowUpper(table[id][Indexed], upper)
    PROVE  id \in RangeLookup(index, lower, upper)
<1>. DEFINE v == table[id][Indexed]
<1>1. /\ id \in DOMAIN IndexedValues(table) /\ IndexedValues(table)[id] = v
      /\ IndexOK(index, IndexedValues(table)) /\ AllOrderable(IndexedValues(table))
  BY DEF IndexInv, IndexedValues, Live
<1>2. PICK e \in index : Compare(e.key, v) = 0 /\ id \in e.ids
  BY <1>1 DEF IndexOK
<1>3. Orderable(e.key) /\ Orderable(v)
  BY <1>1 DEF IndexOK, AllOrderable
<1>4. AboveLower(v, lower) /\ BelowUpper(v, upper)
  OBVIOUS
<1>. HIDE DEF v
<1>5. Compare(e.key, lower.val) = Compare(v, lower.val)
  BY <1>2, <1>3, CompareOrders
<1>6. Compare(e.key, upper.val) = Compare(v, upper.val)
  BY <1>2, <1>3, CompareOrders
<1>7. AboveLower(e.key, lower) /\ BelowUpper(e.key, upper)
  BY <1>4, <1>5, <1>6 DEF AboveLower, BelowUpper
<1> QED
  BY <1>2, <1>7 DEF RangeLookup

\* A row that passes a WHERE which the fast path is trusted with is fetched.
LEMMA FetchedHasPassing ==
    ASSUME TypeOK, IndexInv, ordered, NEW q, Trusted(q), NEW id \in Live,
           \A e \in ToSet(q.where) : HoldsAsWritten(e, Tagged(id), q.params),
           Passes(q, Tagged(id))
    PROVE  id \in Fetched(q)
<1>. DEFINE row == Tagged(id)
            v == table[id][Indexed]
<1>1. Lookup(row, Indexed) = v
  BY TaggedIs
<1>2. /\ \A e \in ToSet(q.where) : HoldsAsWritten(e, row, q.params)
      /\ \A e \in ToSet(q.where) : Holds(e, row, q.params, 0).holds
  BY DEF Passes
<1>. HIDE DEF row
<1>3. CASE FastEquality(q) # {}
  <2>1. PICK e \in ToSet(q.where) :
           \E c \in SimpleEquality(e, q.params) : c.col = Indexed /\ c \in FastEquality(q)
    BY <1>3 DEF FastEquality
  <2>2. PICK c \in SimpleEquality(e, q.params) : c.col = Indexed /\ c \in FastEquality(q)
    BY <2>1
  <2>3. /\ Compares(e) /\ e.op = "="
        /\ c = [col |-> AsColumnOp(e).col, val |-> Constant(AsColumnOp(e).other, q.params)]
    BY <2>2 DEF SimpleEquality
  <2>. DEFINE k == Constant(AsColumnOp(e).other, q.params)
  <2>4. AsColumnOp(e).col = Indexed /\ c.val = k
    BY <2>2, <2>3
  <2>5. Closed(AsColumnOp(e).other)
    BY <2>3 DEF Trusted
  <2>6. Truthy(Apply("=", <<v, k>>)) \/ Truthy(Apply("=", <<k, v>>))
    BY <1>1, <1>2, <2>3, <2>4, <2>5, SidesAre
  <2>. HIDE DEF v, k
  <2>7. /\ Apply("=", <<v, k>>) = BoolVal(Same(v, k))
        /\ Apply("=", <<k, v>>) = BoolVal(Same(k, v))
    BY DEF Apply
  <2>8. Same(v, k) \in BOOLEAN /\ Same(k, v) \in BOOLEAN
    BY DEF Same
  <2>9. Same(v, k) \/ Same(k, v)
    BY <2>6, <2>7, <2>8, TruthyBool
  <2>10. id \in LookupIndex(index, k)
    BY <2>9, LookupFinds DEF v
  <2> QED
    BY <1>3, <2>2, <2>4, <2>10 DEF Fetched
<1>4. CASE FastEquality(q) = {} /\ FastRange(q) # {}
  <2>1. PICK e \in ToSet(q.where) :
           \E c \in SimpleRange(e, q.params) : c.col = Indexed /\ c \in FastRange(q)
    BY <1>4 DEF FastRange
  <2>2. PICK c \in SimpleRange(e, q.params) : c.col = Indexed /\ c \in FastRange(q)
    BY <2>1
  <2>3. Orderable(c.lower.val) /\ Orderable(c.upper.val)
    BY <2>2 DEF Trusted
  <2>4. Orderable(v)
    BY DEF IndexInv, AllOrderable, IndexedValues, Live
  <2>5. AboveLower(v, c.lower) /\ BelowUpper(v, c.upper)
    <3>1. CASE Compares(e)
      <4>. DEFINE f == AsColumnOp(e)
                  k == Constant(f.other, q.params)
      <4>1. /\ f.op = ">"  => c = [col |-> f.col, lower |-> Bound("excluded", k), upper |-> Unbounded]
            /\ f.op = ">=" => c = [col |-> f.col, lower |-> Bound("included", k), upper |-> Unbounded]
            /\ f.op = "<"  => c = [col |-> f.col, lower |-> Unbounded, upper |-> Bound("excluded", k)]
            /\ f.op = "<=" => c = [col |-> f.col, lower |-> Unbounded, upper |-> Bound("included", k)]
            /\ f.op \in {">", ">=", "<", "<="}
        BY <2>2, <3>1 DEF SimpleRange
      <4>2. f.col = Indexed
        BY <2>2, <4>1
      <4>3. Closed(f.other)
        BY <3>1 DEF Trusted
      <4>4. IF IsColumn(e.args[1]) THEN f.op = e.op /\ Truthy(Apply(e.op, <<v, k>>))
            ELSE f.op = Flipped[e.op] /\ Truthy(Apply(e.op, <<k, v>>))
        BY <1>1, <1>2, <3>1, <4>2, <4>3, SidesAre
      <4>5. e.op \in {"<", "<=", ">", ">=", "="}
        BY <3>1, FlippedIs DEF Compares
      <4>. HIDE DEF f, k, v
      <4>6. Orderable(k)
        BY <2>3, <4>1 DEF Bound, Unbounded
      <4>7. /\ f.op = ">"  => Compare(v, k) = 1
            /\ f.op = ">=" => Compare(v, k) # -1
            /\ f.op = "<"  => Compare(v, k) = -1
            /\ f.op = "<=" => Compare(v, k) # 1
        <5>1. ASSUME NEW a, NEW b
              PROVE  /\ Truthy(Apply(">", <<a, b>>)) => Compare(a, b) = 1
                     /\ Truthy(Apply(">=", <<a, b>>)) => Compare(a, b) # -1
                     /\ Truthy(Apply("<", <<a, b>>)) => Compare(a, b) = -1
                     /\ Truthy(Apply("<=", <<a, b>>)) => Compare(a, b) # 1
          <6>1. /\ Apply(">", <<a, b>>) = BoolVal(Compare(a, b) = 1)
                /\ Apply(">=", <<a, b>>) = BoolVal(Compare(a, b) # -1)
                /\ Apply("<", <<a, b>>) = BoolVal(Compare(a, b) = -1)
                /\ Apply("<=", <<a, b>>) = BoolVal(Compare(a, b) # 1)
            BY DEF Apply
          <6> QED
            BY <6>1, TruthyBool
        <5>2. /\ Compare(v, k) = 1 <=> Compare(k, v) = -1
              /\ Compare(k, v) = 1 <=> Compare(v, k) = -1
          BY <2>4, <4>6, CompareOrders DEF v
        <5>3. CASE IsColumn(e.args[1])
          BY <4>1, <4>4, <5>1, <5>3
        <5>4. CASE ~ IsColumn(e.args[1])
          BY <4>1, <4>4, <4>5, <5>1, <5>2, <5>4, FlippedIs
        <5> QED
          BY <5>3, <5>4
      <4> QED
        BY <4>1, <4>7 DEF AboveLower, BelowUpper, Bound, Unbounded
    <3>2. CASE ~ Compares(e)
      <4>. DEFINE lo == Constant(e.args[2], q.params)
                  hi == Constant(e.args[3], q.params)
      <4>1. /\ e.op = "between" /\ IsColumn(e.args[1])
            /\ c = [col |-> e.args[1].name, lower |-> Bound("included", lo),
                    upper |-> Bound("included", hi)]
        BY <2>2, <3>2 DEF SimpleRange
      <4>2. e.args[1].name = Indexed
        BY <2>2, <4>1
      <4>3. /\ Closed(e.args[2]) /\ Closed(e.args[3])
            /\ Placeholders(e.args[2]) = 0 \/ Placeholders(e.args[3]) = 0
        BY <4>1 DEF Trusted
      <4>4. InRange(v, lo, hi)
        BY <1>1, <1>2, <4>1, <4>2, <4>3, BoundsAre
      <4>. HIDE DEF lo, hi, v
      <4> QED
        BY <4>1, <4>4 DEF AboveLower, BelowUpper, Bound, InRange
    <3> QED
      BY <3>1, <3>2
  <2>6. id \in RangeLookup(index, c.lower, c.upper)
    BY <2>3, <2>5, RangeFinds
  <2> QED
    BY <1>4, <2>2, <2>6 DEF Fetched
<1>5. CASE FastEquality(q) = {} /\ FastRange(q) = {}
  BY <1>5 DEF Fetched
<1> QED
  BY <1>3, <1>4, <1>5

LEMMA MatchingIsLive ==
    ASSUME TypeOK, IndexInv, ordered, NEW q, Trusted(q),
           \A id \in Live : \A e \in ToSet(q.where) : HoldsAsWritten(e, Tagged(id), q.params)
    PROVE  Matching(q, Fetched(q)) = Matching(q, Live)
<1>1. Fetched(q) \subseteq Live
  BY DEF Fetched
<1>2. \A id \in Live : Passes(q, Tagged(id)) => id \in Fetched(q)
  BY FetchedHasPassing
<1> QED
  BY <1>1, <1>2 DEF Matching

\* The answer that is being returned is that of the table and the index as they
\* still are.
AskedInv ==
    asked.kind = "select" =>
        /\ Asked \in Selects /\ order \in Orders
        /\ answer = IF Panics(Base) THEN [panics |-> TRUE, rows |-> <<>>]
                    ELSE [panics |-> FALSE, rows |-> AnswerFrom(Asked, Fetched(Base), order)]

LEMMA AskKeeps ==
    ASSUME NEW q \in Selects, Ask(q)
    PROVE  AskedInv'
<1>1. PICK ord \in Listings(Source(q)) :
        /\ Called("select", q)
        /\ order' = ord
        /\ answer' = IF Panics(Source(q)) THEN [panics |-> TRUE, rows |-> <<>>]
                     ELSE [panics |-> FALSE, rows |-> AnswerFrom(q, Fetched(Source(q)), ord)]
        /\ UNCHANGED <<table, index, next, ordered>>
  BY DEF Ask
<1>2. asked'.what = q
  BY <1>1 DEF Called
<1>3. Orders' = Orders
  BY <1>1 DEF Orders, Live
<1>4. Panics(Base)' = Panics(Source(q))
  BY <1>1, <1>2 DEF Panics, Base, Asked, Source, Stored, FastRange, SimpleRange
<1>5. Fetched(Base)' = Fetched(Source(q))
  BY <1>1, <1>2 DEF Fetched, Base, Asked, Source, Stored, FastRange, FastEquality, LookupIndex,
     RangeLookup, Live
<1>6. AnswerFrom(Asked, Fetched(Base), order)' = AnswerFrom(q, Fetched(Source(q)), ord)
  BY <1>1, <1>2, <1>5 DEF AnswerFrom, FromTable, Listed, Matching, Tagged, Asked
<1>7. Asked' = q /\ order' \in Orders'
  BY <1>1, <1>2, <1>3, ListingsAreOrders DEF Asked
<1> QED
  BY <1>1, <1>4, <1>5, <1>6, <1>7 DEF AskedInv

LEMMA AskedKeeps ==
    ASSUME AskedInv, [Next]_vars
    PROVE  AskedInv'
<1>1. CASE \E q \in Selects : Ask(q)
  BY <1>1, AskKeeps
<1>2. CASE Next /\ ~ (\E q \in Selects : Ask(q))
  <2>1. asked'.kind # "select"
    BY <1>2, KindIs DEF Next
  <2> QED
    BY <2>1 DEF AskedInv
<1>3. CASE UNCHANGED vars
  <2>1. Orders' = Orders
    BY <1>3 DEF Orders, Live, vars
  <2>2. Asked' = Asked /\ Base' = Base
    BY <1>3 DEF Asked, Base, Source, Stored, vars
  <2>3. Panics(Base)' = Panics(Base)
    BY <1>3, <2>2 DEF Panics, FastRange, SimpleRange, vars
  <2>4. Fetched(Base)' = Fetched(Base)
    BY <1>3, <2>2 DEF Fetched, FastRange, FastEquality, LookupIndex, RangeLookup, Live, vars
  <2>5. AnswerFrom(Asked, Fetched(Base), order)' = AnswerFrom(Asked, Fetched(Base), order)
    BY <1>3, <2>2, <2>4 DEF AnswerFrom, FromTable, Listed, Matching, Tagged, vars
  <2> QED
    BY <1>3, <2>1, <2>2, <2>3, <2>4, <2>5 DEF AskedInv, vars
<1> QED
  BY <1>1, <1>2, <1>3

LEMMA AnswerIsThatOfScan ==
    ASSUME TypeOK, IndexInv, AskedInv, EvaluatesAsWritten
    PROVE  IndexKeepsAnswer
<1> SUFFICES ASSUME ordered, asked.kind = "select", Trusted(Base)
             PROVE  ~ answer.panics /\ answer.rows = AnswerFrom(Asked, Live, order)
  BY DEF IndexKeepsAnswer, AnswersAsScan
<1>1. ~ Panics(Base)
  BY DEF Trusted
<1>2. answer = [panics |-> FALSE, rows |-> AnswerFrom(Asked, Fetched(Base), order)]
  BY <1>1 DEF AskedInv
<1>3. \A id \in Live : \A e \in ToSet(Base.where) : HoldsAsWritten(e, Tagged(id), Base.params)
  BY DEF EvaluatesAsWritten
<1>4. Matching(Base, Fetched(Base)) = Matching(Base, Live)
  BY <1>3, MatchingIsLive
<1>5. AnswerFrom(Asked, Fetched(Base), order) = AnswerFrom(Asked, Live, order)
  BY <1>4 DEF AnswerFrom, FromTable, Base
<1> QED
  BY <1>2, <1>5

\* With evaluators that read a condition as it is written, a SELECT that takes
\* its rows from the index gives the rows that a scan of the store gives when it
\* lists them in the order of the index, whatever statements have filled the table
\* and the index before (sql/select.rs:203).
THEOREM IndexIsTrusted == Spec /\ []EvaluatesAsWritten => []IndexKeepsAnswer
<1>1. Init => AskedInv
  BY DEF Init, AskedInv, Nothing
<1>2. AskedInv /\ [Next]_vars => AskedInv'
  BY AskedKeeps
<1>3. TypeOK /\ IndexInv /\ AskedInv /\ EvaluatesAsWritten => IndexKeepsAnswer
  BY AnswerIsThatOfScan
<1> QED
  BY <1>1, <1>2, <1>3, Invariance, PTL DEF Spec

-----------------------------------------------------------------------------
(* Sorting *)

\* B orders 1..N; the place of k is one behind the elements before it.
Orders1toN(B, N) ==
    /\ \A j \in 1 .. N : <<j, j>> \notin B
    /\ \A j, k \in 1 .. N : j # k => <<j, k>> \in B \/ <<k, j>> \in B
    /\ \A i, j, k \in 1 .. N : <<i, j>> \in B /\ <<j, k>> \in B => <<i, k>> \in B

Place(B, N, k) == Cardinality({j \in 1 .. N : <<j, k>> \in B}) + 1

LEMMA PlacesAre ==
    ASSUME NEW N \in Nat, NEW B, Orders1toN(B, N)
    PROVE  /\ \A k \in 1 .. N : Place(B, N, k) \in 1 .. N
           /\ \A j, k \in 1 .. N : <<j, k>> \in B <=> Place(B, N, j) < Place(B, N, k)
           /\ \A n \in 1 .. N : \E k \in 1 .. N : Place(B, N, k) = n
<1>. DEFINE D == 1 .. N
            Low(k) == {j \in D : <<j, k>> \in B}
            place == [k \in D |-> Place(B, N, k)]
<1>0. /\ \A j \in D : <<j, j>> \notin B
      /\ \A j, k \in D : j # k => <<j, k>> \in B \/ <<k, j>> \in B
      /\ \A i, j, k \in D : <<i, j>> \in B /\ <<j, k>> \in B => <<i, k>> \in B
  BY DEF Orders1toN
<1>1. IsFiniteSet(D) /\ Cardinality(D) = N
  <2>1. Cardinality(1 .. N) = IF 1 > N THEN 0 ELSE N - 1 + 1
    BY FS_Interval
  <2>2. IsFiniteSet(1 .. N)
    BY FS_Interval
  <2> QED
    BY <2>1, <2>2
<1>2. ASSUME NEW k \in D
      PROVE  /\ IsFiniteSet(Low(k)) /\ Cardinality(Low(k)) \in Nat
             /\ Cardinality(Low(k)) < N
  <2>1. Low(k) \in SUBSET D /\ Low(k) # D
    BY <1>0
  <2>. HIDE DEF Low, D
  <2>2. IsFiniteSet(Low(k)) /\ Cardinality(Low(k)) <= N /\ Cardinality(Low(k)) # N
    BY <1>1, <2>1, FS_Subset
  <2>3. Cardinality(Low(k)) \in Nat
    BY <2>2, FS_CardinalityType
  <2> QED
    BY <2>2, <2>3
<1>3. ASSUME NEW k \in D
      PROVE  place[k] \in D /\ place[k] = Cardinality(Low(k)) + 1
  <2>1. place[k] = Cardinality(Low(k)) + 1
    BY DEF Place
  <2>. HIDE DEF Low, place
  <2> QED
    BY <1>2, <2>1
<1>10. ASSUME NEW k \in D
       PROVE  place[k] \in Int
  <2>1. \A n \in D : n \in Int
    OBVIOUS
  <2>. HIDE DEF place, D
  <2> QED
    BY <1>3, <2>1
<1>4. ASSUME NEW j \in D, NEW k \in D, <<j, k>> \in B
      PROVE  place[j] < place[k]
  <2>1. Low(j) \in SUBSET Low(k) /\ Low(j) # Low(k)
    <3>1. \A i \in Low(j) : i \in Low(k)
      BY <1>0, <1>4
    <3>2. j \in Low(k) /\ j \notin Low(j)
      BY <1>0, <1>4
    <3> QED
      BY <3>1, <3>2
  <2>. HIDE DEF Low, D, place
  <2>2. Cardinality(Low(j)) <= Cardinality(Low(k)) /\ Cardinality(Low(j)) # Cardinality(Low(k))
    BY <1>2, <2>1, FS_Subset
  <2> QED
    BY <1>2, <1>3, <2>2
<1>5. ASSUME NEW j \in D, NEW k \in D
      PROVE  <<j, k>> \in B <=> place[j] < place[k]
  <2>1. CASE j = k
    <3>1. place[j] \in Int
      BY <1>10
    <3>. HIDE DEF place
    <3> QED
      BY <1>0, <2>1, <3>1
  <2>2. CASE j # k
    <3>1. <<j, k>> \in B \/ <<k, j>> \in B
      BY <1>0, <2>2
    <3>2. place[j] \in Int /\ place[k] \in Int
      BY <1>10
    <3>. HIDE DEF place
    <3> QED
      BY <1>4, <3>1, <3>2
  <2> QED
    BY <2>1, <2>2
<1>6. place \in Injection(D, D)
  <2>1. place \in [D -> D]
    BY <1>3
  <2>2. ASSUME NEW j \in D, NEW k \in D, place[j] = place[k]
        PROVE  j = k
    <3>1. place[j] \in Int /\ place[k] \in Int
      BY <1>10
    <3>2. ~ (place[j] < place[k]) /\ ~ (place[k] < place[j])
      BY <2>2, <3>1
    <3>. HIDE DEF place
    <3> QED
      BY <1>0, <1>5, <3>2
  <2>. HIDE DEF place
  <2> QED
    BY <2>1, <2>2 DEF Injection, IsInjective
<1>. HIDE DEF place, D
<1>7. place \in Surjection(D, D)
  BY <1>1, <1>6, FS_Injection
<1>8. \A n \in D : \E k \in D : place[k] = n
  BY <1>7 DEF Surjection
<1>9. \A k \in D : place[k] = Place(B, N, k)
  BY DEF place
<1> QED
  BY <1>3, <1>5, <1>8, <1>9 DEF D

Key(o, row) == Evaluate(o.expr, row, <<>>, 0).val

\* The rows of out are those of rows, row n of out is row p[n] of rows.
Permutes(out, rows, p) ==
    /\ DOMAIN out = DOMAIN rows
    /\ p \in [DOMAIN rows -> DOMAIN rows]
    /\ \A m, n \in DOMAIN rows : p[m] = p[n] => m = n
    /\ \A k \in DOMAIN rows : \E n \in DOMAIN rows : p[n] = k
    /\ \A n \in DOMAIN rows : out[n] = rows[p[n]]

\* A sort by one key whose values Compare orders is a permutation, in that
\* order, and stable.
LEMMA SortByIs ==
    ASSUME NEW o, NEW rows, IsSeq(rows), \A k \in DOMAIN rows : Orderable(Key(o, rows[k]))
    PROVE  \E p : /\ Permutes(SortBy(o, rows), rows, p)
                  /\ \A m, n \in DOMAIN rows : m < n =>
                        LET c == Compare(Key(o, rows[p[m]]), Key(o, rows[p[n]]))
                        IN c = (IF o.asc THEN -1 ELSE 1) \/ (c = 0 /\ p[m] < p[n])
<1>. DEFINE N == Len(rows)
            dir == IF o.asc THEN -1 ELSE 1
            cmp(j, k) == Compare(Key(o, rows[j]), Key(o, rows[k]))
            before(j, k) == cmp(j, k) = dir \/ (cmp(j, k) = 0 /\ j < k)
            B == {w \in (1 .. N) \X (1 .. N) : before(w[1], w[2])}
<1>1. N \in Nat /\ DOMAIN rows = 1 .. N
  BY DEF IsSeq
<1>2. \A j, k \in 1 .. N : <<j, k>> \in B <=> before(j, k)
  OBVIOUS
<1>3. dir \in {-1, 1}
  OBVIOUS
<1>4. \A i, j, k \in 1 .. N :
         /\ cmp(j, j) = 0
         /\ cmp(i, j) \in {-1, 0, 1}
         /\ cmp(i, j) = 0 <=> cmp(j, i) = 0
         /\ cmp(i, j) = 1 <=> cmp(j, i) = -1
         /\ cmp(i, j) = 0 => cmp(i, k) = cmp(j, k) /\ cmp(k, i) = cmp(k, j)
         /\ cmp(i, j) = dir /\ cmp(j, k) = dir => cmp(i, k) = dir
  <2> SUFFICES ASSUME NEW i \in 1 .. N, NEW j \in 1 .. N, NEW k \in 1 .. N
               PROVE  /\ cmp(j, j) = 0
                      /\ cmp(i, j) \in {-1, 0, 1}
                      /\ cmp(i, j) = 0 <=> cmp(j, i) = 0
                      /\ cmp(i, j) = 1 <=> cmp(j, i) = -1
                      /\ cmp(i, j) = 0 => cmp(i, k) = cmp(j, k) /\ cmp(k, i) = cmp(k, j)
                      /\ cmp(i, j) = dir /\ cmp(j, k) = dir => cmp(i, k) = dir
    OBVIOUS
  <2>. DEFINE a == Key(o, rows[i])
              b == Key(o, rows[j])
              c == Key(o, rows[k])
  <2>1. Orderable(a) /\ Orderable(b) /\ Orderable(c)
    BY <1>1
  <2>. HIDE DEF a, b, c, dir
  <2>2. \A v, w \in {a, b, c} :
           /\ TypeRank(v) \in Int /\ Number(v) \in Int
           /\ Compare(v, w) = IF TypeRank(v) # TypeRank(w) THEN Sign(TypeRank(v) - TypeRank(w))
                              ELSE Sign(Number(v) - Number(w))
    BY <2>1, CompareIs
  <2>3. Compare(a, b) \in {-1, 0, 1}
    BY <2>2 DEF Sign
  <2>4. ASSUME Compare(a, b) = dir, Compare(b, c) = dir
        PROVE  Compare(a, c) = dir
    <3>. DEFINE Cmp(r, s, m, n) == IF r # s THEN Sign(r - s) ELSE Sign(m - n)
    <3>3. /\ Compare(a, b) = Cmp(TypeRank(a), TypeRank(b), Number(a), Number(b))
          /\ Compare(b, c) = Cmp(TypeRank(b), TypeRank(c), Number(b), Number(c))
          /\ Compare(a, c) = Cmp(TypeRank(a), TypeRank(c), Number(a), Number(c))
      BY <2>2
    <3>4. \A r, s, t, l, m, n \in Int :
             /\ Cmp(r, s, l, m) = -1 /\ Cmp(s, t, m, n) = -1 => Cmp(r, t, l, n) = -1
             /\ Cmp(r, s, l, m) = 1 /\ Cmp(s, t, m, n) = 1 => Cmp(r, t, l, n) = 1
      BY DEF Sign
    <3>5. /\ TypeRank(a) \in Int /\ TypeRank(b) \in Int /\ TypeRank(c) \in Int
          /\ Number(a) \in Int /\ Number(b) \in Int /\ Number(c) \in Int
      BY <2>2
    <3>. HIDE DEF Cmp
    <3>1. CASE dir = -1
      BY <2>4, <3>1, <3>3, <3>4, <3>5
    <3>2. CASE dir = 1
      BY <2>4, <3>2, <3>3, <3>4, <3>5
    <3> QED
      BY <1>3, <3>1, <3>2
  <2>5. /\ Compare(b, b) = 0
        /\ Compare(a, b) = 0 <=> Compare(b, a) = 0
        /\ Compare(a, b) = 1 <=> Compare(b, a) = -1
        /\ Compare(a, b) = 0 => Compare(a, c) = Compare(b, c) /\ Compare(c, a) = Compare(c, b)
    BY <2>1, CompareOrders
  <2> QED
    BY <2>3, <2>4, <2>5 DEF a, b, c
<1>. HIDE DEF cmp, dir
<1>5. Orders1toN(B, N)
  <2>1. \A j \in 1 .. N : ~ before(j, j)
    BY <1>1, <1>3, <1>4
  <2>2. \A j, k \in 1 .. N : j # k => before(j, k) \/ before(k, j)
    BY <1>1, <1>3, <1>4
  <2>3. \A i, j, k \in 1 .. N : before(i, j) /\ before(j, k) => before(i, k)
    BY <1>1, <1>3, <1>4
  <2>. HIDE DEF before, B
  <2> QED
    BY <1>2, <2>1, <2>2, <2>3 DEF Orders1toN
<1>. DEFINE place(k) == Place(B, N, k)
            at(n) == CHOOSE k \in DOMAIN rows : place(k) = n
            p == [n \in DOMAIN rows |-> at(n)]
<1>6. ASSUME NEW k \in 1 .. N
      PROVE  Cardinality({j \in DOMAIN rows :
                LET c == Compare(Evaluate(o.expr, rows[j], <<>>, 0).val,
                                 Evaluate(o.expr, rows[k], <<>>, 0).val)
                IN c = (IF o.asc THEN -1 ELSE 1) \/ (c = 0 /\ j < k)}) + 1 = place(k)
  <2>1. {j \in DOMAIN rows :
                LET c == Compare(Evaluate(o.expr, rows[j], <<>>, 0).val,
                                 Evaluate(o.expr, rows[k], <<>>, 0).val)
                IN c = (IF o.asc THEN -1 ELSE 1) \/ (c = 0 /\ j < k)}
        = {j \in 1 .. N : before(j, k)}
    BY <1>1 DEF cmp, dir, Key
  <2>2. {j \in 1 .. N : before(j, k)} = {j \in 1 .. N : <<j, k>> \in B}
    BY <1>2
  <2> QED
    BY <2>1, <2>2 DEF Place
<1>7. SortBy(o, rows) = [n \in DOMAIN rows |-> rows[at(n)]]
  <2>1. \A n \in DOMAIN rows : SortBy(o, rows)[n] = rows[at(n)]
    BY <1>1, <1>6 DEF SortBy
  <2>2. SortBy(o, rows) = [n \in DOMAIN rows |-> SortBy(o, rows)[n]]
    BY DEF SortBy
  <2>. HIDE DEF at
  <2> QED
    BY <2>1, <2>2
<1>. HIDE DEF B, place
<1>8. ASSUME NEW n \in DOMAIN rows
      PROVE  at(n) \in DOMAIN rows /\ place(at(n)) = n
  <2>1. \E k \in DOMAIN rows : place(k) = n
    BY <1>1, <1>5, PlacesAre DEF place
  <2> QED
    BY <2>1
<1>9. \A j, k \in 1 .. N : /\ place(j) \in 1 .. N
                           /\ place(j) < place(k) <=> before(j, k)
                           /\ place(j) = place(k) => j = k
  <2>1. \A j, k \in 1 .. N : place(j) \in 1 .. N /\ (place(j) < place(k) <=> <<j, k>> \in B)
    BY <1>1, <1>5, PlacesAre DEF place
  <2>2. \A j, k \in 1 .. N : j # k => <<j, k>> \in B \/ <<k, j>> \in B
    BY <1>5 DEF Orders1toN
  <2>. HIDE DEF before
  <2>3. ASSUME NEW j \in 1 .. N, NEW k \in 1 .. N, place(j) = place(k)
        PROVE  j = k
    <3>1. ~ (place(j) < place(k)) /\ ~ (place(k) < place(j))
      <4>2. place(j) \in 1 .. N
        BY <2>1
      <4>1. ~ (place(j) < place(j))
        BY <1>1, <4>2
      <4> QED
        BY <2>3, <4>1
    <3>. HIDE DEF place
    <3> QED
      BY <2>1, <2>2, <3>1
  <2> QED
    BY <1>2, <2>1, <2>3
<1>. HIDE DEF at, before
<1>10. Permutes(SortBy(o, rows), rows, p)
  <2>1. p \in [DOMAIN rows -> DOMAIN rows]
    BY <1>8
  <2>2. \A m, n \in DOMAIN rows : p[m] = p[n] => m = n
    BY <1>8
  <2>3. \A k \in DOMAIN rows : p[place(k)] = k /\ place(k) \in DOMAIN rows
    BY <1>1, <1>8, <1>9
  <2>4. \A n \in DOMAIN rows : SortBy(o, rows)[n] = rows[p[n]]
    BY <1>7
  <2>5. DOMAIN SortBy(o, rows) = DOMAIN rows
    BY <1>7
  <2>. HIDE DEF p
  <2> QED
    BY <2>1, <2>2, <2>3, <2>4, <2>5 DEF Permutes
<1>11. ASSUME NEW m \in DOMAIN rows, NEW n \in DOMAIN rows, m < n
       PROVE  before(p[m], p[n])
  <2>1. p[m] \in 1 .. N /\ p[n] \in 1 .. N /\ place(p[m]) = m /\ place(p[n]) = n
    BY <1>1, <1>8
  <2>. HIDE DEF p
  <2> QED
    BY <1>9, <1>11, <2>1
<1> QED
  BY <1>10, <1>11 DEF before, cmp, dir

\* The keys from the k-th on put row a before row b, or do not tell them apart.
KeyCompare(o, a, b) == Compare(Key(o, a), Key(o, b))
Direction(o) == IF o.asc THEN -1 ELSE 1
From(keys, k, a, b) ==
    \E i \in k .. Len(keys) : /\ \A j \in k .. i - 1 : KeyCompare(keys[j], a, b) = 0
                              /\ KeyCompare(keys[i], a, b) = Direction(keys[i])
Even(keys, k, a, b) == \A j \in k .. Len(keys) : KeyCompare(keys[j], a, b) = 0

\* out is rows sorted by the keys from the k-th on.
SortsFrom(keys, k, out, rows) ==
    \E p : /\ Permutes(out, rows, p)
           /\ \A m, n \in DOMAIN rows : m < n =>
                 \/ From(keys, k, rows[p[m]], rows[p[n]])
                 \/ Even(keys, k, rows[p[m]], rows[p[n]]) /\ p[m] < p[n]

KeysOrder(keys, rows) ==
    \A n \in 1 .. Len(keys) : \A k \in DOMAIN rows : Orderable(Key(keys[n], rows[k]))

LEMMA SortsStep ==
    ASSUME NEW keys, NEW k \in 1 .. Len(keys), Len(keys) \in Nat, NEW rows, NEW x,
           IsSeq(rows), IsSeq(x), KeysOrder(keys, rows), SortsFrom(keys, k + 1, x, rows)
    PROVE  SortsFrom(keys, k, SortBy(keys[k], x), rows)
<1>. DEFINE o == keys[k]
            out == SortBy(o, x)
            D == DOMAIN rows
<1>1. PICK p : /\ Permutes(x, rows, p)
               /\ \A m, n \in D : m < n =>
                     \/ From(keys, k + 1, rows[p[m]], rows[p[n]])
                     \/ Even(keys, k + 1, rows[p[m]], rows[p[n]]) /\ p[m] < p[n]
  BY DEF SortsFrom
<1>2. /\ DOMAIN x = D /\ p \in [D -> D]
      /\ \A m, n \in D : p[m] = p[n] => m = n
      /\ \A n \in D : \E m \in D : p[m] = n
      /\ \A n \in D : x[n] = rows[p[n]]
  BY <1>1 DEF Permutes
<1>3. \A n \in D : Orderable(Key(o, x[n]))
  BY <1>2 DEF KeysOrder
<1>4. PICK r : /\ Permutes(out, x, r)
               /\ \A m, n \in DOMAIN x : m < n =>
                     LET c == Compare(Key(o, x[r[m]]), Key(o, x[r[n]]))
                     IN c = (IF o.asc THEN -1 ELSE 1) \/ (c = 0 /\ r[m] < r[n])
  BY <1>2, <1>3, SortByIs
<1>5. /\ DOMAIN out = D /\ r \in [D -> D]
      /\ \A m, n \in D : r[m] = r[n] => m = n
      /\ \A n \in D : \E m \in D : r[m] = n
      /\ \A n \in D : out[n] = x[r[n]]
  BY <1>2, <1>4 DEF Permutes
<1>6. \A m, n \in D : m < n =>
         \/ KeyCompare(o, x[r[m]], x[r[n]]) = Direction(o)
         \/ KeyCompare(o, x[r[m]], x[r[n]]) = 0 /\ r[m] < r[n]
  BY <1>2, <1>4 DEF KeyCompare, Direction
<1>. DEFINE s == [n \in D |-> p[r[n]]]
<1>. HIDE DEF out, D
<1>7. Permutes(out, rows, s)
  <2>1. s \in [D -> D]
    BY <1>2, <1>5
  <2>2. \A m, n \in D : s[m] = s[n] => m = n
    BY <1>2, <1>5
  <2>3. \A n \in D : \E m \in D : s[m] = n
    <3> SUFFICES ASSUME NEW n \in D
                 PROVE  \E m \in D : s[m] = n
      OBVIOUS
    <3>1. PICK j \in D : p[j] = n
      BY <1>2
    <3>2. PICK m \in D : r[m] = j
      BY <1>5
    <3> QED
      BY <3>1, <3>2
  <2>4. \A n \in D : out[n] = rows[s[n]]
    BY <1>2, <1>5
  <2>. HIDE DEF s
  <2> QED
    BY <1>5, <2>1, <2>2, <2>3, <2>4 DEF Permutes, D
<1>8. ASSUME NEW m \in D, NEW n \in D, m < n
      PROVE  \/ From(keys, k, rows[s[m]], rows[s[n]])
             \/ Even(keys, k, rows[s[m]], rows[s[n]]) /\ s[m] < s[n]
  <2>. DEFINE a == rows[s[m]]
              b == rows[s[n]]
  <2>1. a = x[r[m]] /\ b = x[r[n]] /\ r[m] \in D /\ r[n] \in D
    BY <1>2, <1>5
  <2>2. s[m] = p[r[m]] /\ s[n] = p[r[n]]
    OBVIOUS
  <2>3. \/ KeyCompare(o, a, b) = Direction(o)
        \/ KeyCompare(o, a, b) = 0 /\ r[m] < r[n]
    BY <1>6, <1>8, <2>1
  <2>4. r[m] < r[n] => \/ From(keys, k + 1, a, b)
                       \/ Even(keys, k + 1, a, b) /\ s[m] < s[n]
    BY <1>1, <2>1, <2>2 DEF D
  <2>. HIDE DEF a, b, s
  <2>5. CASE KeyCompare(o, a, b) = Direction(o)
    <3>1. k \in k .. Len(keys) /\ k .. k - 1 = {}
      OBVIOUS
    <3>2. From(keys, k, a, b)
      BY <2>5, <3>1 DEF From
    <3> QED
      BY <3>2 DEF a, b
  <2>6. CASE KeyCompare(o, a, b) = 0 /\ From(keys, k + 1, a, b)
    <3>1. PICK i \in k + 1 .. Len(keys) :
             /\ \A j \in k + 1 .. i - 1 : KeyCompare(keys[j], a, b) = 0
             /\ KeyCompare(keys[i], a, b) = Direction(keys[i])
      BY <2>6 DEF From
    <3>2. i \in k .. Len(keys) /\ \A j \in k .. i - 1 : j = k \/ j \in k + 1 .. i - 1
      OBVIOUS
    <3>3. From(keys, k, a, b)
      BY <2>6, <3>1, <3>2 DEF From
    <3> QED
      BY <3>3 DEF a, b
  <2>7. CASE KeyCompare(o, a, b) = 0 /\ Even(keys, k + 1, a, b) /\ s[m] < s[n]
    <3>1. \A j \in k .. Len(keys) : j = k \/ j \in k + 1 .. Len(keys)
      OBVIOUS
    <3>2. Even(keys, k, a, b)
      BY <2>7, <3>1 DEF Even
    <3> QED
      BY <2>7, <3>2 DEF a, b
  <2> QED
    BY <2>3, <2>4, <2>5, <2>6, <2>7
<1>. HIDE DEF s
<1> QED
  BY <1>7, <1>8 DEF SortsFrom, D, out

LEMMA SortByIsSeq ==
    ASSUME NEW o, NEW rows, IsSeq(rows)
    PROVE  IsSeq(SortBy(o, rows))
<1>. DEFINE out == SortBy(o, rows)
<1>1. DOMAIN out = DOMAIN rows /\ out = [j \in DOMAIN out |-> out[j]]
  BY DEF SortBy
<1>. HIDE DEF out
<1>2. IsSeq(out)
  BY <1>1, MappedIs
<1> QED
  BY <1>2 DEF out

\* Sorting by the last key first and by the first key last sorts by all keys.
LEMMA OrderBySorts ==
    ASSUME NEW q, Len(q.order) \in Nat, NEW rows, IsSeq(rows), KeysOrder(q.order, rows)
    PROVE  SortsFrom(q.order, 1, OrderBy(q, rows), rows) /\ IsSeq(OrderBy(q, rows))
<1>. DEFINE N == Len(q.order)
<1>1. PICK f : /\ f[0] = rows
               /\ \A n \in Nat : n + 1 <= N => f[n + 1] = SortBy(q.order[N + 1 - (n + 1)], f[n])
               /\ OrderBy(q, rows) = f[N]
  BY OrderBySteps
<1>. DEFINE Good(k, x) == SortsFrom(q.order, k, x, rows) /\ IsSeq(x)
            T == {n \in Nat : n <= N => Good(N + 1 - n, f[n])}
<1>2. Good(N + 1, rows)
  <2>. DEFINE p == [n \in DOMAIN rows |-> n]
  <2>1. Permutes(rows, rows, p)
    BY DEF Permutes
  <2>2. \A a, b : Even(q.order, N + 1, a, b)
    BY DEF Even
  <2>3. \A m, n \in DOMAIN rows : m < n => p[m] < p[n]
    OBVIOUS
  <2>. HIDE DEF p
  <2> QED
    BY <2>1, <2>2, <2>3 DEF SortsFrom
<1>3. ASSUME NEW n \in Nat, n + 1 <= N, Good(N + 1 - n, f[n])
      PROVE  Good(N + 1 - (n + 1), f[n + 1])
  <2>. DEFINE k == N + 1 - (n + 1)
  <2>0. N \in Nat /\ n + 1 <= N
    BY <1>3
  <2>1. k \in 1 .. N /\ k + 1 = N + 1 - n
    <3>. HIDE DEF N
    <3> QED
      BY <2>0
  <2>2. f[n + 1] = SortBy(q.order[k], f[n])
    BY <1>1, <1>3
  <2>. HIDE DEF k
  <2>3. SortsFrom(q.order, k, SortBy(q.order[k], f[n]), rows)
    BY <1>3, <2>1, SortsStep
  <2>4. IsSeq(SortBy(q.order[k], f[n]))
    BY <1>3, SortByIsSeq
  <2> QED
    BY <2>2, <2>3, <2>4 DEF k
<1>. HIDE DEF Good
<1>4. 0 \in T /\ T \subseteq Nat
  BY <1>1, <1>2
<1>5. ASSUME NEW n \in T
      PROVE  n + 1 \in T
  <2>1. n \in Nat /\ n + 1 \in Nat /\ (n <= N => Good(N + 1 - n, f[n]))
    OBVIOUS
  <2>2. n + 1 <= N => n <= N
    BY <2>1
  <2> QED
    BY <1>3, <2>1, <2>2
<1>. HIDE DEF T
<1>6. \A n \in Nat : n \in T
  BY <1>4, <1>5, InductionOnNat
<1>7. Good(N + 1 - N, f[N]) /\ N + 1 - N = 1
  BY <1>6 DEF T
<1> QED
  BY <1>1, <1>7 DEF Good

-----------------------------------------------------------------------------
(* The rows of the table that a query lists *)

\* Row k of rows is the tagged row who[k]; every one of ids is there once.
Lists(rows, who, ids) ==
    /\ who \in [DOMAIN rows -> ids]
    /\ \A k \in DOMAIN rows : rows[k] = Tagged(who[k])
    /\ \A i, j \in DOMAIN rows : who[i] = who[j] => i = j
    /\ \A id \in ids : \E k \in DOMAIN rows : who[k] = id

\* Every row is listed once; its tag tells which it is.
LEMMA ListedIs ==
    ASSUME TypeOK, NEW ord \in Orders, NEW ids, ids \subseteq Live
    PROVE  /\ IsSeq(Listed(ids, ord))
           /\ \A i, j \in DOMAIN Listed(ids, ord) :
                 Listed(ids, ord)[i] = Listed(ids, ord)[j] => i = j
           /\ \E who : Lists(Listed(ids, ord), who, ids)
<1>. DEFINE K == {k \in DOMAIN ord : ord[k] \in ids}
            listed == Picked(ord, K)
            rows == Listed(ids, ord)
<1>1. /\ IsSeq(ord)
      /\ \A m, n \in 1 .. Len(ord) : ord[m] = ord[n] => m = n
      /\ Live = {ord[n] : n \in 1 .. Len(ord)}
  BY OrdersAre DEF IsSeq, Orders, SetToSeqs
<1>. HIDE DEF K
<1>2. IsSeq(listed) /\ \E pos : PicksAt(listed, ord, K, Len(ord), pos)
  BY <1>1, PickedSeq, IsSeqIs, PickedIs
<1>. HIDE DEF listed
<1>3. PICK pos : PicksAt(listed, ord, K, Len(ord), pos)
  BY <1>2
<1>4. /\ pos \in [1 .. Len(listed) -> 1 .. Len(ord)]
      /\ \A j \in 1 .. Len(listed) : pos[j] \in K /\ listed[j] = ord[pos[j]]
      /\ \A i, j \in 1 .. Len(listed) : i < j => pos[i] < pos[j]
      /\ \A k \in K : k \in 1 .. Len(ord) => \E j \in 1 .. Len(listed) : pos[j] = k
  BY <1>3 DEF PicksAt
<1>5. Len(listed) \in Nat /\ DOMAIN listed = 1 .. Len(listed)
  BY <1>2 DEF IsSeq
<1>6. rows = [k \in DOMAIN listed |-> Tagged(listed[k])]
  BY DEF Listed, listed, K
<1>. HIDE DEF rows
<1>7. DOMAIN rows = DOMAIN listed /\ \A k \in DOMAIN listed : rows[k] = Tagged(listed[k])
  BY <1>6
<1>8. IsSeq(rows)
  BY <1>2, <1>6, <1>7, MappedIs
<1>9. ASSUME NEW i \in DOMAIN listed, NEW j \in DOMAIN listed, listed[i] = listed[j]
      PROVE  i = j
  <2>1. pos[i] = pos[j]
    BY <1>1, <1>4, <1>5, <1>9
  <2>2. pos[i] \in Int /\ i \in Int /\ j \in Int
    BY <1>4, <1>5
  <2>3. i < j => pos[i] < pos[j]
    BY <1>4, <1>5
  <2>4. j < i => pos[j] < pos[i]
    BY <1>4, <1>5
  <2> QED
    BY <2>1, <2>2, <2>3, <2>4
<1>10. \A k \in DOMAIN listed : listed[k] \in ids
  BY <1>4, <1>5 DEF K
<1>11. \A id \in ids : \E k \in DOMAIN listed : listed[k] = id
  <2> SUFFICES ASSUME NEW id \in ids
               PROVE  \E k \in DOMAIN listed : listed[k] = id
    OBVIOUS
  <2>1. PICK n \in 1 .. Len(ord) : ord[n] = id
    BY <1>1
  <2>2. n \in K
    BY <1>1, <2>1 DEF K, IsSeq
  <2>3. PICK j \in 1 .. Len(listed) : pos[j] = n
    BY <1>4, <2>2
  <2> QED
    BY <1>4, <1>5, <2>1, <2>3
<1>12. \A i, j : Tagged(i) = Tagged(j) => i = j
  <2> SUFFICES ASSUME NEW i, NEW j, Tagged(i) = Tagged(j)
               PROVE  i = j
    OBVIOUS
  <2>1. Tagged(i)["_rowid_"] = Integer(i) /\ Tagged(j)["_rowid_"] = Integer(j)
    BY DEF Tagged
  <2> QED
    BY <2>1 DEF Integer
<1>13. \A i, j \in DOMAIN rows : rows[i] = rows[j] => i = j
  BY <1>7, <1>9, <1>12
<1>14. listed \in [DOMAIN rows -> ids]
  <2>1. listed = [k \in DOMAIN listed |-> listed[k]]
    BY <1>2 DEF IsSeq
  <2> QED
    BY <1>7, <1>10, <2>1
<1>15. Lists(rows, listed, ids)
  BY <1>7, <1>9, <1>11, <1>14 DEF Lists
<1> QED
  BY <1>8, <1>13, <1>15 DEF rows

\* A sort by keys that Compare orders gives the order they name, whatever the
\* listing.
LEMMA LexicographicOrder ==
    ASSUME Len(Asked.order) \in Nat, Asked.order \in Seq(ToSet(Asked.order)),
           NEW rows, IsSeq(rows), KeysCompare(rows),
           \A i, j \in DOMAIN rows : rows[i] = rows[j] => i = j
    PROVE  Lexicographic(rows, OrderBy(Asked, rows))
<1>. DEFINE keys == Asked.order
            out == OrderBy(Asked, rows)
            D == DOMAIN rows
            at(row) == CHOOSE k \in DOMAIN rows : rows[k] = row
<1>1. DOMAIN keys = 1 .. Len(keys)
  BY LenProperties
<1>2. KeysOrder(keys, rows)
  BY <1>1 DEF KeysOrder, KeysCompare, Key, ToSet
<1>3. SortsFrom(keys, 1, out, rows) /\ IsSeq(out)
  BY <1>2, OrderBySorts
<1>. HIDE DEF out
<1>4. PICK p : /\ Permutes(out, rows, p)
               /\ \A m, n \in DOMAIN rows : m < n =>
                     \/ From(keys, 1, rows[p[m]], rows[p[n]])
                     \/ Even(keys, 1, rows[p[m]], rows[p[n]]) /\ p[m] < p[n]
  BY <1>3 DEF SortsFrom
<1>5. /\ DOMAIN out = D /\ p \in [D -> D]
      /\ \A n \in D : \E m \in D : p[m] = n
      /\ \A n \in D : out[n] = rows[p[n]]
  BY <1>4 DEF Permutes
<1>6. ToSet(out) = ToSet(rows)
  BY <1>5 DEF ToSet
<1>7. Len(out) = Len(rows)
  <2>1. 1 .. Len(out) = 1 .. Len(rows) /\ Len(out) \in Nat /\ Len(rows) \in Nat
    BY <1>3, <1>5 DEF IsSeq
  <2>2. Len(out) \in 1 .. Len(out) \/ Len(out) = 0
    BY <2>1
  <2>3. Len(rows) \in 1 .. Len(rows) \/ Len(rows) = 0
    BY <2>1
  <2> QED
    BY <2>1, <2>2, <2>3
<1>8. \A a, b : From(keys, 1, a, b) => Before(a, b)
  BY <1>1 DEF From, Before, KeyCompare, Key, Direction
<1>9. ASSUME NEW i \in D, NEW j \in D, Even(keys, 1, rows[i], rows[j])
      PROVE  ~ Before(rows[j], rows[i])
  <2> SUFFICES ASSUME NEW k \in 1 .. Len(keys)
               PROVE  KeyCompare(keys[k], rows[j], rows[i]) = 0
    BY <1>1 DEF Before, KeyCompare, Key
  <2>1. KeyCompare(keys[k], rows[i], rows[j]) = 0
    BY <1>9 DEF Even
  <2>2. Orderable(Key(keys[k], rows[i])) /\ Orderable(Key(keys[k], rows[j]))
    BY <1>2 DEF KeysOrder
  <2> QED
    BY <2>1, <2>2, CompareOrders DEF KeyCompare
<1>10. \A n \in D : at(out[n]) = p[n]
  BY <1>5
<1>11. ASSUME NEW i \in D, NEW j \in D, i < j
       PROVE  \/ Before(out[i], out[j])
              \/ ~ Before(out[j], out[i]) /\ at(out[i]) < at(out[j])
  <2>1. /\ out[i] = rows[p[i]] /\ out[j] = rows[p[j]]
        /\ at(out[i]) = p[i] /\ at(out[j]) = p[j]
        /\ p[i] \in D /\ p[j] \in D
    BY <1>5, <1>10
  <2>. HIDE DEF at
  <2>2. \/ From(keys, 1, out[i], out[j])
        \/ Even(keys, 1, out[i], out[j]) /\ p[i] < p[j]
    BY <1>4, <1>11, <2>1
  <2>3. Even(keys, 1, out[i], out[j]) => ~ Before(out[j], out[i])
    BY <1>9, <2>1
  <2> QED
    BY <1>8, <2>1, <2>2, <2>3
<1> QED
  BY <1>5, <1>6, <1>7, <1>11 DEF Lexicographic, out

LEMMA OrderKept ==
    ASSUME TypeOK, AskedInv
    PROVE  OrderIsLexicographic
<1> SUFFICES ASSUME OnTable, KeysCompare(Passing)
             PROVE  Lexicographic(Passing, OrderBy(Asked, Passing))
  BY DEF OrderIsLexicographic
<1>1. Asked \in Selects /\ order \in Orders
  BY DEF AskedInv, OnTable
<1>2. WellFormed(Asked)
  BY <1>1, StatementAssumption
<1>3. Matching(Asked, Fetched(Asked)) \subseteq Live
  BY DEF Matching, Fetched
<1>4. /\ IsSeq(Passing)
      /\ \A i, j \in DOMAIN Passing : Passing[i] = Passing[j] => i = j
  BY <1>1, <1>3, ListedIs DEF Passing
<1>5. Asked.order \in Seq(ToSet(Asked.order)) /\ Len(Asked.order) \in Nat
  BY <1>2, LenProperties DEF WellFormed
<1> QED
  BY <1>4, <1>5, LexicographicOrder

\* Sorting by the last key first gives the order that ORDER BY names: the first
\* key that tells two rows apart decides, and rows that no key tells apart stay
\* as the store listed them (sql/select.rs:789).
THEOREM OrderByIsRight == Spec => []OrderIsLexicographic
<1>1. Init => AskedInv
  BY DEF Init, AskedInv, Nothing
<1>2. AskedInv /\ [Next]_vars => AskedInv'
  BY AskedKeeps
<1>3. TypeOK /\ AskedInv => OrderIsLexicographic
  BY OrderKept
<1> QED
  BY <1>1, <1>2, <1>3, Invariance, PTL DEF Spec

-----------------------------------------------------------------------------
(* What DISTINCT keeps *)

LEMMA LeastIs ==
    ASSUME NEW S, S \subseteq Nat, S # {}
    PROVE  \E m \in S : \A n \in S : m <= n
<1>1. PICK x \in S : \A y \in S : ~ (<<y, x>> \in OpToRel(<, Nat))
  BY WFMin, NatLessThanWellFounded
<1>2. ASSUME NEW y \in S
      PROVE  x <= y
  <2>1. x \in Nat /\ y \in Nat
    OBVIOUS
  <2>2. y < x => <<y, x>> \in {ss \in Nat \X Nat : ss[1] < ss[2]}
    BY <2>1
  <2>3. ~ (y < x)
    BY <1>1, <2>2 DEF OpToRel
  <2> QED
    BY <2>1, <2>3
<1> QED
  BY <1>2

LEMMA CountIs ==
    ASSUME NEW n \in Nat
    PROVE  IsFiniteSet(1 .. n) /\ Cardinality(1 .. n) = n /\ (n # 0 => 1 \in 1 .. n)
<1>1. Cardinality(1 .. n) = IF 1 > n THEN 0 ELSE n - 1 + 1
  BY FS_Interval
<1>2. IsFiniteSet(1 .. n)
  BY FS_Interval
<1> QED
  BY <1>1, <1>2

\* A list without its repetitions has the same elements, each once.
LEMMA UniqueIs ==
    ASSUME NEW s, IsSeq(s)
    PROVE  /\ IsSeq(Picked(s, Firsts(s)))
           /\ \A i, j \in DOMAIN Picked(s, Firsts(s)) :
                 Picked(s, Firsts(s))[i] = Picked(s, Firsts(s))[j] => i = j
           /\ ToSet(Picked(s, Firsts(s))) = ToSet(s)
           /\ Len(Picked(s, Firsts(s))) <= Len(s)
<1>. DEFINE K == Firsts(s)
            u == Picked(s, K)
<1>0. DOMAIN s = 1 .. Len(s) /\ Len(s) \in Nat
  BY DEF IsSeq
<1>1. IsSeq(u) /\ \E pos : PicksAt(u, s, K, Len(s), pos)
  BY PickedSeq, IsSeqIs, PickedIs
<1>2. K = {k \in DOMAIN s : \A j \in 1 .. k - 1 : s[j] # s[k]}
  BY DEF Firsts
<1>. HIDE DEF u, K
<1>3. PICK pos : PicksAt(u, s, K, Len(s), pos)
  BY <1>1
<1>4. /\ pos \in [1 .. Len(u) -> 1 .. Len(s)]
      /\ \A j \in 1 .. Len(u) : pos[j] \in K /\ u[j] = s[pos[j]]
      /\ \A i, j \in 1 .. Len(u) : i < j => pos[i] < pos[j]
      /\ \A k \in K : k \in 1 .. Len(s) => \E j \in 1 .. Len(u) : pos[j] = k
  BY <1>3 DEF PicksAt
<1>5. DOMAIN u = 1 .. Len(u) /\ Len(u) \in Nat
  BY <1>1 DEF IsSeq
<1>6. ASSUME NEW i \in DOMAIN u, NEW j \in DOMAIN u, i < j
      PROVE  u[i] # u[j]
  <2>1. pos[i] < pos[j] /\ pos[i] \in 1 .. Len(s) /\ pos[j] \in 1 .. Len(s)
    BY <1>4, <1>5, <1>6
  <2>2. pos[i] \in 1 .. pos[j] - 1
    BY <1>0, <2>1
  <2>3. s[pos[i]] # s[pos[j]]
    BY <1>2, <1>4, <1>5, <2>2
  <2> QED
    BY <1>4, <1>5, <2>3
<1>7. \A i, j \in DOMAIN u : u[i] = u[j] => i = j
  <2> SUFFICES ASSUME NEW i \in DOMAIN u, NEW j \in DOMAIN u, u[i] = u[j]
               PROVE  i = j
    OBVIOUS
  <2>1. ~ (i < j) /\ ~ (j < i)
    BY <1>6
  <2>2. i \in Int /\ j \in Int
    BY <1>5
  <2> QED
    BY <2>1, <2>2
<1>8. ASSUME NEW k \in DOMAIN s
      PROVE  s[k] \in ToSet(u)
  <2>. DEFINE S == {j \in DOMAIN s : s[j] = s[k]}
  <2>1. S \subseteq Nat /\ S # {}
    BY <1>0
  <2>2. PICK m \in S : \A n \in S : m <= n
    BY <2>1, LeastIs
  <2>3. m \in K
    <3>1. \A j \in 1 .. m - 1 : j \in DOMAIN s /\ ~ (m <= j)
      BY <1>0
    <3> QED
      BY <1>2, <2>2, <3>1
  <2>4. PICK j \in 1 .. Len(u) : pos[j] = m
    BY <1>0, <1>4, <2>3
  <2>5. u[j] = s[k]
    BY <1>4, <2>4
  <2> QED
    BY <1>5, <2>5 DEF ToSet
<1>9. ToSet(u) = ToSet(s)
  <2>1. \A j \in DOMAIN u : u[j] \in ToSet(s)
    BY <1>0, <1>4, <1>5 DEF ToSet
  <2> QED
    BY <1>8, <2>1 DEF ToSet
<1>10. Len(u) <= Len(s)
  <2>1. \A i, j \in 1 .. Len(u) : pos[i] = pos[j] => i = j
    <3> SUFFICES ASSUME NEW i \in 1 .. Len(u), NEW j \in 1 .. Len(u), pos[i] = pos[j]
                 PROVE  i = j
      OBVIOUS
    <3>1. pos[i] \in Int /\ i < j => pos[i] < pos[j]
      BY <1>4
    <3>2. j < i => pos[j] < pos[i]
      BY <1>4
    <3>3. pos[i] \in Int /\ i \in Int /\ j \in Int
      BY <1>4, <1>5
    <3> QED
      BY <3>1, <3>2, <3>3
  <2>2. pos \in Injection(1 .. Len(u), 1 .. Len(s))
    BY <1>4, <2>1 DEF Injection, IsInjective
  <2>3. IsFiniteSet(1 .. Len(s)) /\ Cardinality(1 .. Len(s)) = Len(s)
    <3>1. Len(s) \in Nat
      BY <1>0
    <3> QED
      BY <3>1, CountIs
  <2>4. Cardinality(1 .. Len(u)) = Len(u)
    <3>1. Len(u) \in Nat
      BY <1>5
    <3> QED
      BY <3>1, CountIs
  <2> QED
    BY <2>2, <2>3, <2>4, FS_Injection
<1> QED
  BY <1>1, <1>7, <1>9, <1>10 DEF u, K

-----------------------------------------------------------------------------
(* From the fetched rows to the answer *)

LEMMA FieldsAre ==
    ASSUME NEW q, WellFormed(q)
    PROVE  {"kind", "from", "where", "params", "items", "group", "order", "limit", "offset",
            "distinct"} \subseteq DOMAIN q
<1>1. {"kind", "from", "where", "params", "items", "group", "order", "limit", "offset",
       "distinct"} \subseteq DOMAIN Query(<<>>, <<>>)
  BY DEF Query
<1> QED
  BY <1>1 DEF WellFormed

\* p is q but for LIMIT, OFFSET and DISTINCT.
Variant(p, q) == /\ p.from = q.from /\ p.where = q.where /\ p.params = q.params
                 /\ p.items = q.items /\ p.group = q.group /\ p.order = q.order

\* GroupBy, of the parts of a query that it reads.
GroupsOf(items, keys, rows) ==
    LET found == Picked(keys, Firsts(keys))
        group(g) == Picked(rows, {k \in DOMAIN rows : keys[k] = found[g]})
    IN [g \in DOMAIN found |-> Output(items, LAMBDA e : EvaluateAggregate(e, group(g)))]

LEMMA GroupByIs ==
    ASSUME NEW q, NEW rows
    PROVE  GroupBy(q, rows) = GroupsOf(q.items, [k \in DOMAIN rows |-> GroupKey(q, rows[k])], rows)
BY Zenon DEF GroupBy, GroupsOf, Output

LEMMA VariantIs ==
    ASSUME NEW p, NEW q, Variant(p, q)
    PROVE  /\ \A ids : Matching(p, ids) = Matching(q, ids)
           /\ \A rows : /\ Group(p, rows) = Group(q, rows)
                        /\ OrderBy(p, rows) = OrderBy(q, rows)
                        /\ Project(p, rows) = Project(q, rows)
<1>1. p.from = q.from /\ p.where = q.where /\ p.params = q.params
      /\ p.items = q.items /\ p.group = q.group /\ p.order = q.order
  BY DEF Variant
<1>2. \A ids : Matching(p, ids) = Matching(q, ids)
  <2>1. \A row : Passes(p, row) = Passes(q, row)
    BY <1>1 DEF Passes
  <2> QED
    BY <2>1 DEF Matching
<1>3. \A rows : Group(p, rows) = Group(q, rows)
  <2> TAKE rows
  <2>1. \A row : GroupKey(p, row) = GroupKey(q, row)
    <3> TAKE row
    <3>1. p.group = q.group
      BY <1>1
    <3> QED
      BY <3>1, Zenon DEF GroupKey
  <2>2. GroupBy(p, rows) = GroupBy(q, rows)
    <3>1. [k \in DOMAIN rows |-> GroupKey(p, rows[k])] = [k \in DOMAIN rows |-> GroupKey(q, rows[k])]
      BY <2>1
    <3> QED
      BY <1>1, <3>1, GroupByIs, Zenon
  <2> QED
    BY <1>1, <2>2 DEF Group, Grouped
<1>4. \A rows : OrderBy(p, rows) = OrderBy(q, rows)
  BY <1>1 DEF OrderBy
<1>5. \A rows : Project(p, rows) = Project(q, rows)
  BY <1>1 DEF Project, Grouped
<1> QED
  BY <1>2, <1>3, <1>4, <1>5

\* The rows that q shows before DISTINCT, LIMIT and the tag are dealt with.
Sorted(q, rows) == OrderBy(q, Group(q, rows))
Shown(q, rows) == Project(q, Limit(q, Sorted(q, rows)))

\* Functions without the tag: the end of the pipeline leaves them alone.
Untagged(rows) == \A k \in DOMAIN rows : /\ rows[k] = [c \in DOMAIN rows[k] |-> rows[k][c]]
                                         /\ "_rowid_" \notin DOMAIN rows[k]

LEMMA StripIs ==
    ASSUME NEW rows, IsSeq(rows), Untagged(rows)
    PROVE  Strip(rows) = rows
<1>1. ASSUME NEW k \in DOMAIN rows
      PROVE  Restrict(rows[k], DOMAIN rows[k] \ {"_rowid_"}) = rows[k]
  <2>1. DOMAIN rows[k] \ {"_rowid_"} = DOMAIN rows[k]
    BY DEF Untagged
  <2> QED
    BY <2>1 DEF Restrict, Untagged
<1>2. rows = [k \in DOMAIN rows |-> rows[k]]
  BY DEF IsSeq
<1> QED
  BY <1>1, <1>2 DEF Strip

LEMMA LimitPicks ==
    ASSUME NEW q, WellFormed(q), NEW rows, IsSeq(rows), NEW k \in DOMAIN Limit(q, rows)
    PROVE  \E j \in DOMAIN rows : Limit(q, rows)[k] = rows[j]
<1>1. CASE q.limit = <<>>
  BY <1>1 DEF Limit
<1>2. CASE q.limit # <<>>
  <2>. DEFINE n == IF q.limit[1] = Unreadable THEN Len(rows) ELSE q.limit[1]
              m == Min({q.offset + n, Len(rows)})
  <2>1. n \in Nat /\ q.offset \in Nat /\ Len(rows) \in Nat /\ DOMAIN rows = 1 .. Len(rows)
    BY <1>2 DEF WellFormed, IsSeq
  <2>. HIDE DEF n
  <2>2. m \in Int /\ m <= Len(rows)
    <3>1. q.offset + n \in Int /\ Len(rows) \in Int
      BY <2>1
    <3>2. m \in {q.offset + n, Len(rows)} /\ m <= Len(rows)
      BY <3>1, MinIs
    <3>. HIDE DEF m
    <3> QED
      BY <3>1, <3>2
  <2>3. Limit(q, rows) = SubSeq(rows, q.offset + 1, m)
    BY <1>2 DEF Limit, n
  <2>. HIDE DEF m
  <2>4. \A i \in q.offset + 1 .. m : rows[i] \in ToSet(rows)
    BY <2>1, <2>2 DEF ToSet
  <2>5. SubSeq(rows, q.offset + 1, m) \in Seq(ToSet(rows))
    BY <2>1, <2>2, <2>4, SubSeqProperties
  <2>6. SubSeq(rows, q.offset + 1, m)[k] \in ToSet(rows)
    BY <2>3, <2>5, LenProperties
  <2> QED
    BY <2>3, <2>6 DEF ToSet
<1> QED
  BY <1>1, <1>2

\* A row of GROUP BY has the items' names.
LEMMA GroupedRow ==
    ASSUME NEW q, NEW rows, \A k \in DOMAIN q.items : q.items[k].as # "_rowid_"
    PROVE  Untagged(GroupBy(q, rows))
<1>1. \A g \in DOMAIN GroupBy(q, rows) :
          /\ DOMAIN GroupBy(q, rows)[g] = {q.items[k].as : k \in DOMAIN q.items}
          /\ GroupBy(q, rows)[g]
             = [c \in DOMAIN GroupBy(q, rows)[g] |-> GroupBy(q, rows)[g][c]]
  BY DEF GroupBy, Output
<1>2. "_rowid_" \notin {q.items[k].as : k \in DOMAIN q.items}
  OBVIOUS
<1> QED
  BY <1>1, <1>2 DEF Untagged

LEMMA SortedRow ==
    ASSUME NEW q, Len(q.order) \in Nat, NEW rows, IsSeq(rows), KeysOrder(q.order, rows),
           NEW k \in DOMAIN OrderBy(q, rows)
    PROVE  \E j \in DOMAIN rows : OrderBy(q, rows)[k] = rows[j]
<1>1. PICK p : Permutes(OrderBy(q, rows), rows, p)
  BY OrderBySorts DEF SortsFrom
<1> QED
  BY <1>1 DEF Permutes

\* What a SELECT with a list of items shows.
LEMMA ShownIs ==
    ASSUME NEW q, WellFormed(q), NEW rows, IsSeq(rows), q.items # <<>>,
           \A k \in DOMAIN q.items : q.items[k].as # "_rowid_",
           Grouped(q) => KeysOrder(q.order, Group(q, rows))
    PROVE  IsSeq(Shown(q, rows)) /\ Untagged(Shown(q, rows))
<1>. DEFINE grouped == Group(q, rows)
            sorted == OrderBy(q, grouped)
            limited == Limit(q, sorted)
<1>1. Len(q.order) \in Nat
  BY LenProperties DEF WellFormed
<1>2. IsSeq(grouped)
  BY GroupIsSeq
<1>3. IsSeq(sorted)
  BY <1>1, <1>2, OrderByIsSeq
<1>4. IsSeq(limited)
  BY <1>3, LimitIsSeq
<1>5. Shown(q, rows) = Project(q, limited)
  BY DEF Shown, Sorted
<1>6. CASE Grouped(q)
  <2>1. Shown(q, rows) = limited
    BY <1>5, <1>6 DEF Project
  <2>2. grouped = GroupBy(q, rows)
    BY <1>6 DEF Group
  <2>. HIDE DEF limited, sorted, grouped
  <2>3. ASSUME NEW k \in DOMAIN limited
        PROVE  limited[k] = [c \in DOMAIN limited[k] |-> limited[k][c]]
               /\ "_rowid_" \notin DOMAIN limited[k]
    <3>1. PICK j \in DOMAIN sorted : limited[k] = sorted[j]
      BY <1>3, LimitPicks DEF limited
    <3>2. PICK g \in DOMAIN grouped : sorted[j] = grouped[g]
      BY <1>1, <1>2, <1>6, SortedRow DEF sorted, grouped
    <3>3. limited[k] = GroupBy(q, rows)[g] /\ g \in DOMAIN GroupBy(q, rows)
      BY <2>2, <3>1, <3>2
    <3>4. Untagged(GroupBy(q, rows))
      BY GroupedRow
    <3> QED
      BY <3>3, <3>4 DEF Untagged
  <2> QED
    BY <1>4, <2>1, <2>3 DEF Untagged
<1>7. CASE ~ Grouped(q)
  <2>. HIDE DEF limited
  <2>. DEFINE shown == Project(q, limited)
  <2>1. /\ DOMAIN shown = DOMAIN limited /\ shown = [k \in DOMAIN shown |-> shown[k]]
        /\ \A k \in DOMAIN shown : /\ DOMAIN shown[k] = {q.items[n].as : n \in DOMAIN q.items}
                                   /\ shown[k] = [c \in DOMAIN shown[k] |-> shown[k][c]]
    <3>1. shown = [k \in DOMAIN limited |->
                      Output(q.items, LAMBDA e : Evaluate(e, limited[k], q.params, 0).val)]
      BY <1>7 DEF Project
    <3>2. DOMAIN shown = DOMAIN limited /\ shown = [k \in DOMAIN shown |-> shown[k]]
      BY <3>1
    <3>3. ASSUME NEW k \in DOMAIN limited
          PROVE  /\ DOMAIN shown[k] = {q.items[n].as : n \in DOMAIN q.items}
                 /\ shown[k] = [c \in DOMAIN shown[k] |-> shown[k][c]]
      <4>1. shown[k] = Output(q.items, LAMBDA e : Evaluate(e, limited[k], q.params, 0).val)
        BY <3>1
      <4>. HIDE DEF shown
      <4> QED
        BY <4>1 DEF Output
    <3> QED
      BY <3>2, <3>3
  <2>. HIDE DEF shown
  <2>2. IsSeq(shown)
    BY <1>4, <2>1, MappedIs
  <2>3. Untagged(shown)
    BY <2>1 DEF Untagged
  <2> QED
    BY <1>5, <2>2, <2>3 DEF shown
<1> QED
  BY <1>6, <1>7

LEMMA AnswerOnTable ==
    ASSUME NEW q, q.from = <<>>, NEW ids, NEW ord
    PROVE  AnswerFrom(q, ids, ord)
           = Strip(Distinct(q, Shown(q, Listed(Matching(q, ids), ord))))
BY DEF AnswerFrom, FromTable, Shape, Shown, Sorted, Source

\* The answer to a regular query on the table.
LEMMA RegularAnswer ==
    ASSUME TypeOK, AskedInv, OnTable, Regular
    PROVE  /\ WellFormed(Asked) /\ Asked.from = <<>> /\ IsSeq(Passing)
           /\ answer.rows = AnswerFrom(Asked, Fetched(Asked), order)
           /\ answer.rows = Strip(Distinct(Asked, Shown(Asked, Passing)))
           /\ KeysOrder(Asked.order, Group(Asked, Passing))
           /\ \A k \in DOMAIN Asked.items : Asked.items[k].as # "_rowid_"
<1>1. /\ Asked \in Selects /\ order \in Orders
      /\ answer = IF Panics(Base) THEN [panics |-> TRUE, rows |-> <<>>]
                  ELSE [panics |-> FALSE, rows |-> AnswerFrom(Asked, Fetched(Base), order)]
  BY DEF AskedInv, OnTable
<1>2. Asked.from = <<>> /\ Base = Asked
  BY DEF OnTable, Base, Source
<1>3. answer.rows = AnswerFrom(Asked, Fetched(Asked), order)
  <2>1. answer.panics = FALSE \/ answer.panics # FALSE
    OBVIOUS
  <2>2. ~ Panics(Base)
    BY <1>1 DEF Regular
  <2> QED
    BY <1>1, <1>2, <2>2
<1>4. WellFormed(Asked)
  BY <1>1, StatementAssumption
<1>5. Matching(Asked, Fetched(Asked)) \subseteq Live
  BY DEF Matching, Fetched
<1>6. IsSeq(Passing)
  BY <1>1, <1>5, ListedIs DEF Passing
<1>7. answer.rows = Strip(Distinct(Asked, Shown(Asked, Passing)))
  BY <1>2, <1>3, AnswerOnTable DEF Passing
<1>8. KeysOrder(Asked.order, Group(Asked, Passing))
  <2>1. DOMAIN Asked.order = 1 .. Len(Asked.order)
    BY <1>4, LenProperties DEF WellFormed
  <2> QED
    BY <2>1 DEF Regular, KeysCompare, KeysOrder, Key, ToSet
<1>9. \A k \in DOMAIN Asked.items : Asked.items[k].as # "_rowid_"
  BY DEF Regular, ToSet
<1> QED
  BY <1>2, <1>3, <1>4, <1>6, <1>7, <1>8, <1>9

LEMMA DistinctKept ==
    ASSUME TypeOK, AskedInv
    PROVE  DistinctGivesEachOnce
<1>. DEFINE p == [Asked EXCEPT !.distinct = FALSE]
            shown == Shown(Asked, Passing)
            single == Picked(shown, Firsts(shown))
<1> SUFFICES ASSUME OnTable, Regular, Asked.distinct, Asked.items # <<>>
             PROVE  /\ \A i, j \in DOMAIN answer.rows : answer.rows[i] = answer.rows[j] => i = j
                    /\ ToSet(answer.rows) = ToSet(AnswerFrom(p, Fetched(Asked), order))
  BY DEF DistinctGivesEachOnce
<1>1. /\ WellFormed(Asked) /\ Asked.from = <<>> /\ IsSeq(Passing)
      /\ answer.rows = Strip(Distinct(Asked, shown))
      /\ KeysOrder(Asked.order, Group(Asked, Passing))
      /\ \A k \in DOMAIN Asked.items : Asked.items[k].as # "_rowid_"
  BY RegularAnswer
<1>2. IsSeq(shown) /\ Untagged(shown)
  BY <1>1, ShownIs
<1>3. /\ IsSeq(single) /\ ToSet(single) = ToSet(shown)
      /\ \A i, j \in DOMAIN single : single[i] = single[j] => i = j
  BY <1>2, UniqueIs
<1>4. Distinct(Asked, shown) = single
  BY DEF Distinct
<1>5. Strip(shown) = shown
  BY <1>2, StripIs
<1>6. AnswerFrom(p, Fetched(Asked), order) = shown
  <2>1. DOMAIN p = DOMAIN Asked /\ \A f \in DOMAIN Asked : f # "distinct" => p[f] = Asked[f]
    OBVIOUS
  <2>2. {"kind", "from", "where", "params", "items", "group", "order", "limit", "offset",
         "distinct"} \subseteq DOMAIN Asked
    BY <1>1, FieldsAre
  <2>3. p.distinct = FALSE
    BY <2>2
  <2>. HIDE DEF p
  <2>4. Variant(p, Asked) /\ p.limit = Asked.limit /\ p.offset = Asked.offset
    BY <2>1, <2>2 DEF Variant
  <2>5. \A rows : Limit(p, rows) = Limit(Asked, rows)
    BY <2>4 DEF Limit
  <2>6. Shown(p, Passing) = shown
    BY <2>4, <2>5, VariantIs DEF Shown, Sorted
  <2>7. Listed(Matching(p, Fetched(Asked)), order) = Passing
    BY <2>4, VariantIs DEF Passing
  <2>8. p.from = <<>>
    BY <1>1, <2>4 DEF Variant
  <2>9. AnswerFrom(p, Fetched(Asked), order) = Strip(Distinct(p, shown))
    BY <2>6, <2>7, <2>8, AnswerOnTable
  <2> QED
    BY <1>5, <2>3, <2>9 DEF Distinct
<1>. HIDE DEF p, shown, single
<1>7. Untagged(single)
  <2>1. \A k \in DOMAIN single : \E j \in DOMAIN shown : single[k] = shown[j]
    BY <1>3 DEF ToSet
  <2> QED
    BY <1>2, <2>1 DEF Untagged
<1>8. answer.rows = single
  BY <1>1, <1>3, <1>4, <1>7, StripIs
<1> QED
  BY <1>3, <1>6, <1>8

\* DISTINCT with a list of columns gives every row that there is without it,
\* once, whatever the rows and however they were grouped, sorted and cut
\* (sql/select.rs:99).
THEOREM DistinctIsRight == Spec => []DistinctGivesEachOnce
<1>1. Init => AskedInv
  BY DEF Init, AskedInv, Nothing
<1>2. AskedInv /\ [Next]_vars => AskedInv'
  BY AskedKeeps
<1>3. TypeOK /\ AskedInv => DistinctGivesEachOnce
  BY DistinctKept
<1> QED
  BY <1>1, <1>2, <1>3, Invariance, PTL DEF Spec

-----------------------------------------------------------------------------
(* The groups *)

\* A one-to-one image is as large.
LEMMA AsManyAs ==
    ASSUME NEW S, IsFiniteSet(S), NEW T, NEW f \in [S -> T],
           \A x, y \in S : f[x] = f[y] => x = y, \A t \in T : \E x \in S : f[x] = t
    PROVE  IsFiniteSet(T) /\ Cardinality(S) = Cardinality(T)
<1>1. f \in Bijection(S, T)
  BY DEF Bijection, Injection, Surjection, IsInjective
<1>2. ExistsBijection(S, T)
  BY <1>1 DEF ExistsBijection
<1> QED
  BY <1>2, FS_Bijection

\* As many elements are picked as there are positions.
PicksAll(u, s, K) == /\ IsSeq(u) /\ IsFiniteSet(K) /\ Len(u) = Cardinality(K)
                     /\ \A j \in DOMAIN u : \E k \in K : u[j] = s[k]

LEMMA PickedLen ==
    ASSUME NEW s, IsSeq(s), NEW K, K \subseteq DOMAIN s
    PROVE  PicksAll(Picked(s, K), s, K)
<1>. DEFINE u == Picked(s, K)
<1>0. DOMAIN s = 1 .. Len(s) /\ Len(s) \in Nat
  BY DEF IsSeq
<1>1. IsSeq(u) /\ \E pos : PicksAt(u, s, K, Len(s), pos)
  BY PickedSeq, IsSeqIs, PickedIs
<1>. HIDE DEF u
<1>2. PICK pos : PicksAt(u, s, K, Len(s), pos)
  BY <1>1
<1>3. /\ pos \in [1 .. Len(u) -> 1 .. Len(s)]
      /\ \A j \in 1 .. Len(u) : pos[j] \in K /\ u[j] = s[pos[j]]
      /\ \A i, j \in 1 .. Len(u) : i < j => pos[i] < pos[j]
      /\ \A k \in K : k \in 1 .. Len(s) => \E j \in 1 .. Len(u) : pos[j] = k
  BY <1>2 DEF PicksAt
<1>4. DOMAIN u = 1 .. Len(u) /\ Len(u) \in Nat
  BY <1>1 DEF IsSeq
<1>5. pos \in [1 .. Len(u) -> K]
  BY <1>3
<1>6. \A i, j \in 1 .. Len(u) : pos[i] = pos[j] => i = j
  <2> SUFFICES ASSUME NEW i \in 1 .. Len(u), NEW j \in 1 .. Len(u), pos[i] = pos[j]
               PROVE  i = j
    OBVIOUS
  <2>1. i < j => pos[i] < pos[j]
    BY <1>3
  <2>2. j < i => pos[j] < pos[i]
    BY <1>3
  <2>3. pos[i] \in Int /\ i \in Int /\ j \in Int
    BY <1>3, <1>4
  <2> QED
    BY <2>1, <2>2, <2>3
<1>7. \A k \in K : \E j \in 1 .. Len(u) : pos[j] = k
  BY <1>0, <1>3
<1>8. IsFiniteSet(1 .. Len(u)) /\ Cardinality(1 .. Len(u)) = Len(u)
  BY <1>4, CountIs
<1>9. IsFiniteSet(K) /\ Cardinality(K) = Len(u)
  BY <1>5, <1>6, <1>7, <1>8, AsManyAs
<1> QED
  BY <1>1, <1>3, <1>4, <1>9 DEF u, PicksAll

Names(items) == [k \in DOMAIN items |-> items[k].as]

\* What a group's row has under the name of an item.
CellsAre(q, rows, n) ==
    LET keys == [k \in DOMAIN rows |-> GroupKey(q, rows[k])]
        found == Picked(keys, Firsts(keys))
    IN \A g \in DOMAIN found :
          GroupBy(q, rows)[g][q.items[n].as]
          = EvaluateAggregate(q.items[n].expr,
                              Picked(rows, {k \in DOMAIN rows : keys[k] = found[g]}))

LEMMA GroupCell ==
    ASSUME NEW q, q.items \in Seq(ToSet(q.items)), IsInjective(Names(q.items)), NEW rows,
           NEW n \in DOMAIN q.items
    PROVE  CellsAre(q, rows, n)
<1>. DEFINE keys == [k \in DOMAIN rows |-> GroupKey(q, rows[k])]
            found == Picked(keys, Firsts(keys))
            group(g) == Picked(rows, {k \in DOMAIN rows : keys[k] = found[g]})
            items == q.items
            last(name) == CHOOSE k \in DOMAIN items :
                             /\ items[k].as = name
                             /\ \A j \in k + 1 .. Len(items) : items[j].as # name
<1>1. DOMAIN items = 1 .. Len(items) /\ Len(items) \in Nat
  BY LenProperties
<1>2. \A j, k \in DOMAIN items : items[j].as = items[k].as => j = k
  BY DEF IsInjective, Names
<1>3. last(items[n].as) = n
  <2>1. \A j \in n + 1 .. Len(items) : j \in DOMAIN items /\ j # n
    BY <1>1
  <2>2. \A j \in n + 1 .. Len(items) : items[j].as # items[n].as
    BY <1>2, <2>1
  <2> QED
    BY <1>2, <2>2
<1>. HIDE DEF found
<1>4. ASSUME NEW g \in DOMAIN found
      PROVE  GroupBy(q, rows)[g][items[n].as] = EvaluateAggregate(items[n].expr, group(g))
  <2>1. GroupBy(q, rows)[g] = Output(items, LAMBDA e : EvaluateAggregate(e, group(g)))
    BY DEF GroupBy, found
  <2>2. GroupBy(q, rows)[g]
        = [name \in {items[k].as : k \in DOMAIN items} |->
              EvaluateAggregate(items[last(name)].expr, group(g))]
    BY <2>1 DEF Output
  <2>. HIDE DEF last, group
  <2> QED
    BY <1>3, <2>2
<1> QED
  BY <1>4 DEF found, CellsAre

\* With one grouping column whose value in row k is v[k], an item that is the
\* column and an item that is COUNT(*).
ByColumn(q, rows, v, c, n) ==
    /\ IsSeq(rows) /\ q.items \in Seq(ToSet(q.items)) /\ IsInjective(Names(q.items))
    /\ c \in DOMAIN q.items /\ n \in DOMAIN q.items
    /\ q.items[c].expr.op = "col" /\ q.items[n].expr.op = "count *"
    /\ \A k \in DOMAIN rows : /\ GroupKey(q, rows[k]) = <<v[k]>>
                              /\ Lookup(rows[k], q.items[c].expr.name) = v[k]

\* G has a row for every value in v, with the number of its rows.
CountsValues(G, rows, v, C, N) ==
    /\ IsSeq(G)
    /\ {G[g][C] : g \in DOMAIN G} = {v[k] : k \in DOMAIN rows}
    /\ \A g, h \in DOMAIN G : G[g][C] = G[h][C] => g = h
    /\ \A g \in DOMAIN G : G[g][N] = Integer(Cardinality({k \in DOMAIN rows : v[k] = G[g][C]}))

LEMMA GroupsOfColumn ==
    ASSUME NEW q, NEW rows, NEW v, NEW c, NEW n, ByColumn(q, rows, v, c, n)
    PROVE  CountsValues(GroupBy(q, rows), rows, v, q.items[c].as, q.items[n].as)
<1>. DEFINE keys == [k \in DOMAIN rows |-> GroupKey(q, rows[k])]
            found == Picked(keys, Firsts(keys))
            at(g) == {k \in DOMAIN rows : keys[k] = found[g]}
            group(g) == Picked(rows, at(g))
            G == GroupBy(q, rows)
            C == q.items[c].as
            N == q.items[n].as
<1>0. /\ IsSeq(rows) /\ q.items \in Seq(ToSet(q.items)) /\ IsInjective(Names(q.items))
      /\ c \in DOMAIN q.items /\ n \in DOMAIN q.items
      /\ q.items[c].expr.op = "col" /\ q.items[n].expr.op = "count *"
      /\ \A k \in DOMAIN rows : GroupKey(q, rows[k]) = <<v[k]>>
      /\ \A k \in DOMAIN rows : Lookup(rows[k], q.items[c].expr.name) = v[k]
  BY DEF ByColumn
<1>1. IsSeq(keys) /\ DOMAIN keys = DOMAIN rows /\ \A k \in DOMAIN rows : keys[k] = <<v[k]>>
  BY <1>0, MappedIs
<1>2. /\ \A g \in DOMAIN found : G[g][C] = EvaluateAggregate(q.items[c].expr, group(g))
      /\ \A g \in DOMAIN found : G[g][N] = EvaluateAggregate(q.items[n].expr, group(g))
  <2>1. CellsAre(q, rows, c) /\ CellsAre(q, rows, n)
    BY <1>0, GroupCell
  <2> QED
    BY <2>1 DEF CellsAre
<1>3. DOMAIN G = DOMAIN found /\ G = [g \in DOMAIN G |-> G[g]]
  BY DEF GroupBy
<1>. HIDE DEF keys
<1>4. /\ IsSeq(found) /\ ToSet(found) = ToSet(keys)
      /\ \A g, h \in DOMAIN found : found[g] = found[h] => g = h
  BY <1>1, UniqueIs
<1>. HIDE DEF found, G, C, N, group
<1>9. \A x, y : <<x>> = <<y>> => x = y
  OBVIOUS
<1>5. IsSeq(G)
  BY <1>3, <1>4, MappedIs
<1>6. ASSUME NEW g \in DOMAIN found
      PROVE  /\ found[g] = <<G[g][C]>>
             /\ G[g][N] = Integer(Cardinality({k \in DOMAIN rows : v[k] = G[g][C]}))
  <2>1. PICK m \in DOMAIN rows : found[g] = <<v[m]>>
    <3>1. found[g] \in ToSet(keys)
      BY <1>4 DEF ToSet
    <3> QED
      BY <1>1, <3>1 DEF ToSet
  <2>. DEFINE A == at(g)
              gr == Picked(rows, A)
  <2>13. \A k \in DOMAIN rows : keys[k] = found[g] <=> v[k] = v[m]
    BY <1>1, <1>9, <2>1
  <2>2. A = {k \in DOMAIN rows : v[k] = v[m]}
    BY <2>13
  <2>12. group(g) = gr
    BY DEF group
  <2>3. m \in A /\ A \subseteq DOMAIN rows
    BY <2>2
  <2>. HIDE DEF at, A
  <2>4. /\ IsFiniteSet(A) /\ Len(gr) = Cardinality(A)
        /\ \A j \in DOMAIN gr : \E k \in A : gr[j] = rows[k]
        /\ IsSeq(gr)
    <3>1. PicksAll(gr, rows, A)
      BY <1>0, <2>3, PickedLen
    <3>. HIDE DEF gr
    <3> QED
      BY <3>1 DEF PicksAll
  <2>. HIDE DEF gr
  <2>5. Cardinality(A) \in Nat \ {0}
    <3>1. Cardinality(A) \in Nat
      BY <2>4, FS_CardinalityType
    <3>2. Cardinality(A) # 0
      BY <2>3, <2>4, FS_EmptySet
    <3> QED
      BY <3>1, <3>2
  <2>6. 1 \in DOMAIN gr
    <3>1. Len(gr) \in Nat \ {0} /\ DOMAIN gr = 1 .. Len(gr)
      BY <2>4, <2>5 DEF IsSeq
    <3>3. 1 \in 1 .. Len(gr)
      BY <3>1, CountIs
    <3> QED
      BY <3>1, <3>3
  <2>7. PICK k \in A : gr[1] = rows[k]
    BY <2>4, <2>6
  <2>8. EvaluateAggregate(q.items[c].expr, gr) = Lookup(gr[1], q.items[c].expr.name)
    BY <1>0 DEF EvaluateAggregate
  <2>9. G[g][C] = v[m]
    BY <1>0, <1>2, <2>2, <2>7, <2>8, <2>12
  <2>10. EvaluateAggregate(q.items[n].expr, gr) = Integer(Len(gr))
    BY <1>0 DEF EvaluateAggregate
  <2>11. G[g][N] = Integer(Cardinality(A))
    BY <1>2, <2>4, <2>10, <2>12
  <2> QED
    BY <2>1, <2>2, <2>9, <2>11
<1>7. {G[g][C] : g \in DOMAIN G} = {v[k] : k \in DOMAIN rows}
  <2>1. \A g \in DOMAIN G : \E k \in DOMAIN rows : G[g][C] = v[k]
    <3> SUFFICES ASSUME NEW g \in DOMAIN found
                 PROVE  \E k \in DOMAIN rows : G[g][C] = v[k]
      BY <1>3
    <3>1. found[g] \in ToSet(keys)
      BY <1>4 DEF ToSet
    <3>2. PICK k \in DOMAIN rows : found[g] = <<v[k]>>
      BY <1>1, <3>1 DEF ToSet
    <3> QED
      BY <1>6, <1>9, <3>2
  <2>2. \A k \in DOMAIN rows : \E g \in DOMAIN G : G[g][C] = v[k]
    <3> SUFFICES ASSUME NEW k \in DOMAIN rows
                 PROVE  \E g \in DOMAIN found : G[g][C] = v[k]
      BY <1>3
    <3>1. <<v[k]>> \in ToSet(found)
      BY <1>1, <1>4 DEF ToSet
    <3>2. PICK g \in DOMAIN found : found[g] = <<v[k]>>
      BY <3>1 DEF ToSet
    <3> QED
      BY <1>6, <1>9, <3>2
  <2>. DEFINE L == {G[g][C] : g \in DOMAIN G}
              R == {v[k] : k \in DOMAIN rows}
  <2>3. \A x \in L : x \in R
    BY <2>1
  <2>4. \A x \in R : x \in L
    BY <2>2
  <2>. HIDE DEF L, R
  <2>5. L = R
    BY <2>3, <2>4
  <2> QED
    BY <2>5 DEF L, R
<1>8. \A g, h \in DOMAIN G : G[g][C] = G[h][C] => g = h
  <2> SUFFICES ASSUME NEW g \in DOMAIN found, NEW h \in DOMAIN found, G[g][C] = G[h][C]
               PROVE  g = h
    BY <1>3
  <2>1. found[g] = <<G[g][C]>> /\ found[h] = <<G[h][C]>>
    BY <1>6
  <2> QED
    BY <1>4, <2>1
<1>10. CountsValues(G, rows, v, C, N)
  BY <1>3, <1>5, <1>6, <1>7, <1>8 DEF CountsValues
<1> QED
  BY <1>10 DEF G, C, N

\* ORDER BY and DISTINCT keep the rows, which a column tells apart.
KeepsRows(F, G, C) == /\ IsSeq(F) /\ ToSet(F) = ToSet(G)
                      /\ \A i, j \in DOMAIN F : F[i][C] = F[j][C] => i = j

LEMMA KeptRows ==
    ASSUME NEW q, Len(q.order) \in Nat, NEW G, IsSeq(G), KeysOrder(q.order, G), NEW C,
           \A g, h \in DOMAIN G : G[g][C] = G[h][C] => g = h
    PROVE  KeepsRows(Distinct(q, OrderBy(q, G)), G, C)
<1>. DEFINE S == OrderBy(q, G)
            F == Distinct(q, S)
<1>1. IsSeq(S) /\ \E p : Permutes(S, G, p)
  BY OrderBySorts DEF SortsFrom
<1>. HIDE DEF S
<1>2. PICK p : Permutes(S, G, p)
  BY <1>1
<1>3. /\ DOMAIN S = DOMAIN G /\ p \in [DOMAIN G -> DOMAIN G]
      /\ \A m, n \in DOMAIN G : p[m] = p[n] => m = n
      /\ \A k \in DOMAIN G : \E n \in DOMAIN G : p[n] = k
      /\ \A n \in DOMAIN G : S[n] = G[p[n]]
  BY <1>2 DEF Permutes
<1>4. ToSet(S) = ToSet(G)
  BY <1>3 DEF ToSet
<1>5. \A i, j \in DOMAIN S : S[i][C] = S[j][C] => i = j
  BY <1>3
<1>6. CASE q.distinct
  <2>. DEFINE u == Picked(S, Firsts(S))
  <2>1. F = u
    BY <1>6 DEF Distinct
  <2>2. /\ IsSeq(u) /\ ToSet(u) = ToSet(S)
        /\ \A i, j \in DOMAIN u : u[i] = u[j] => i = j
    BY <1>1, UniqueIs
  <2>. HIDE DEF u, F
  <2>3. ASSUME NEW i \in DOMAIN u, NEW j \in DOMAIN u, u[i][C] = u[j][C]
        PROVE  i = j
    <3>1. PICK k \in DOMAIN S : u[i] = S[k]
      BY <2>2 DEF ToSet
    <3>2. PICK l \in DOMAIN S : u[j] = S[l]
      BY <2>2 DEF ToSet
    <3> QED
      BY <1>5, <2>2, <2>3, <3>1, <3>2
  <2> QED
    BY <1>4, <2>1, <2>2, <2>3 DEF F, S, KeepsRows
<1>7. CASE ~ q.distinct
  <2>1. F = S
    BY <1>7 DEF Distinct
  <2>. HIDE DEF F
  <2> QED
    BY <1>1, <1>4, <1>5, <2>1 DEF F, S, KeepsRows
<1> QED
  BY <1>6, <1>7

\* Each row of the groups is counted once.
Enumerates(who, n, M) == /\ who \in [1 .. n -> M]
                         /\ \A i, j \in 1 .. n : who[i] = who[j] => i = j
                         /\ \A id \in M : \E k \in 1 .. n : who[k] = id

CountsIn(who, n, M, P) ==
    Cardinality({k \in 1 .. n : who[k] \in P}) = Cardinality({id \in M : id \in P})

LEMMA CountedOnce ==
    ASSUME NEW n \in Nat, NEW M, NEW who, Enumerates(who, n, M), NEW P
    PROVE  CountsIn(who, n, M, P)
<1>. DEFINE K == {k \in 1 .. n : who[k] \in P}
            I == {id \in M : id \in P}
            f == [k \in K |-> who[k]]
<1>0. /\ who \in [1 .. n -> M]
      /\ \A i, j \in 1 .. n : who[i] = who[j] => i = j
      /\ \A id \in M : \E k \in 1 .. n : who[k] = id
  BY DEF Enumerates
<1>1. IsFiniteSet(K)
  <2>1. K \in SUBSET (1 .. n) /\ IsFiniteSet(1 .. n)
    BY CountIs
  <2>. HIDE DEF K
  <2> QED
    BY <2>1, FS_Subset
<1>2. f \in [K -> I]
  BY <1>0
<1>3. \A x, y \in K : f[x] = f[y] => x = y
  BY <1>0
<1>4. \A id \in I : \E k \in K : f[k] = id
  <2> SUFFICES ASSUME NEW id \in I
               PROVE  \E k \in K : f[k] = id
    OBVIOUS
  <2>1. PICK k \in 1 .. n : who[k] = id
    BY <1>0
  <2>2. k \in K
    BY <2>1
  <2>3. f[k] = id
    BY <2>1, <2>2
  <2> QED
    BY <2>2, <2>3
<1>. HIDE DEF K, I, f
<1>5. Cardinality(K) = Cardinality(I)
  BY <1>1, <1>2, <1>3, <1>4, AsManyAs
<1> QED
  BY <1>5 DEF K, I, CountsIn

LEMMA AtVal ==
    ASSUME NEW v, NEW i
    PROVE  At(v, i).val = v
BY DEF At

LEMMA NotEmpty ==
    ASSUME NEW s, NEW k \in DOMAIN s
    PROVE  s # <<>>
OBVIOUS

LEMMA OneKey ==
    ASSUME NEW q, NEW e, q.group = <<e>>, NEW row
    PROVE  /\ GroupKey(q, row) = <<Evaluate(e, row, <<>>, 0).val>>
           /\ e \in ToSet(q.group)
<1>1. DOMAIN q.group = {1} /\ q.group[1] = e
  OBVIOUS
<1> QED
  BY <1>1 DEF GroupKey, ToSet

\* The answer of a grouped query is made of the rows of its groups.
LEMMA GroupedAnswer ==
    ASSUME TypeOK, AskedInv, OnTable, Regular, Grouped(Asked), Asked.limit = <<>>,
           Asked.items # <<>>
    PROVE  answer.rows = Distinct(Asked, OrderBy(Asked, GroupBy(Asked, Passing)))
           /\ KeysOrder(Asked.order, GroupBy(Asked, Passing))
<1>1. /\ WellFormed(Asked) /\ Asked.from = <<>> /\ IsSeq(Passing)
      /\ answer.rows = Strip(Distinct(Asked, Shown(Asked, Passing)))
      /\ KeysOrder(Asked.order, Group(Asked, Passing))
      /\ \A k \in DOMAIN Asked.items : Asked.items[k].as # "_rowid_"
  BY RegularAnswer
<1>2. Group(Asked, Passing) = GroupBy(Asked, Passing)
  BY DEF Group
<1>. DEFINE s == Shown(Asked, Passing)
            u == Picked(s, Firsts(s))
<1>3. s = OrderBy(Asked, GroupBy(Asked, Passing))
  BY <1>2 DEF Shown, Sorted, Limit, Project
<1>4. IsSeq(s) /\ Untagged(s)
  BY <1>1, ShownIs
<1>5. Untagged(Distinct(Asked, s)) /\ IsSeq(Distinct(Asked, s))
  <2>1. CASE Asked.distinct
    <3>1. IsSeq(u) /\ ToSet(u) = ToSet(s)
      BY <1>4, UniqueIs
    <3>2. Distinct(Asked, s) = u
      BY <2>1 DEF Distinct
    <3>. HIDE DEF u, s
    <3>3. \A k \in DOMAIN u : \E j \in DOMAIN s : u[k] = s[j]
      BY <3>1 DEF ToSet
    <3>4. Untagged(u)
      BY <1>4, <3>3 DEF Untagged
    <3> QED
      BY <3>1, <3>2, <3>4
  <2>2. CASE ~ Asked.distinct
    BY <1>4, <2>2 DEF Distinct
  <2> QED
    BY <2>1, <2>2
<1>. HIDE DEF s
<1>6. Strip(Distinct(Asked, s)) = Distinct(Asked, s)
  BY <1>5, StripIs
<1>7. answer.rows = Strip(Distinct(Asked, s))
  BY <1>1 DEF s
<1> QED
  BY <1>1, <1>2, <1>3, <1>6, <1>7

LEMMA GroupsCounted ==
    ASSUME TypeOK, AskedInv, EvaluatesAsWritten, OnTable, Regular, Grouped(Asked),
           Asked.limit = <<>>, IsInjective(Names(Asked.items)),
           NEW c \in DOMAIN Asked.items, NEW n \in DOMAIN Asked.items,
           Asked.group = <<Asked.items[c].expr>>, IsColumn(Asked.items[c].expr),
           Asked.items[n].expr.op = "count *"
    PROVE  CountsGroups(Asked.items[c], Asked.items[n])
<1>. DEFINE items == Asked.items
            M == Matching(Asked, Fetched(Asked))
            e == items[c].expr
            value(id) == Lookup(Tagged(id), e.name)
            rows == Passing
            G == GroupBy(Asked, rows)
            C == items[c].as
            N == items[n].as
            F == answer.rows
            found == {row[C] : row \in ToSet(F)}
<1>1. WellFormed(Asked) /\ IsSeq(rows)
  BY RegularAnswer
<1>2. order \in Orders /\ M \subseteq Live /\ asked.kind = "select" /\ Base = Asked
  BY DEF AskedInv, OnTable, Matching, Fetched, Base, Source
<1>3. PICK who : Lists(rows, who, M)
  BY <1>2, ListedIs DEF Passing
<1>. DEFINE v == [k \in DOMAIN rows |-> value(who[k])]
<1>. HIDE DEF M, rows
<1>4. /\ who \in [DOMAIN rows -> M]
      /\ \A k \in DOMAIN rows : rows[k] = Tagged(who[k])
      /\ \A i, j \in DOMAIN rows : who[i] = who[j] => i = j
      /\ \A id \in M : \E k \in DOMAIN rows : who[k] = id
  BY <1>3 DEF Lists
<1>5. ASSUME NEW k \in DOMAIN rows
      PROVE  GroupKey(Asked, rows[k]) = <<v[k]>> /\ Lookup(rows[k], e.name) = v[k]
  <2>1. who[k] \in Live
    BY <1>2, <1>4
  <2>2. e \in ToSet(Base.group)
    BY <1>2, OneKey
  <2>3. ReadsAsWritten(e, Tagged(who[k]), <<>>, 0)
    BY <1>2, <2>1, <2>2 DEF EvaluatesAsWritten
  <2>4. Evaluate(e, rows[k], <<>>, 0) = At(v[k], 0)
    BY <1>4, <2>3 DEF ReadsAsWritten
  <2>5. Evaluate(e, rows[k], <<>>, 0).val = v[k]
    BY <2>4, AtVal
  <2>6. Lookup(rows[k], e.name) = v[k]
    BY <1>4
  <2>. HIDE DEF v
  <2>7. GroupKey(Asked, rows[k]) = <<Evaluate(e, rows[k], <<>>, 0).val>>
    BY OneKey
  <2> QED
    BY <2>5, <2>6, <2>7
<1>6. items \in Seq(ToSet(items)) /\ Len(Asked.order) \in Nat
  BY <1>1, LenProperties DEF WellFormed
<1>. HIDE DEF v
<1>7. ByColumn(Asked, rows, v, c, n)
  BY <1>1, <1>5, <1>6 DEF ByColumn, IsColumn
<1>8. CountsValues(G, rows, v, C, N)
  BY <1>7, GroupsOfColumn
<1>9. items # <<>>
  BY NotEmpty
<1>10. F = Distinct(Asked, OrderBy(Asked, G)) /\ KeysOrder(Asked.order, G)
  BY <1>9, GroupedAnswer DEF rows
<1>. HIDE DEF G, C, N, F, value
<1>11. /\ IsSeq(G)
       /\ {G[g][C] : g \in DOMAIN G} = {v[k] : k \in DOMAIN rows}
       /\ \A g, h \in DOMAIN G : G[g][C] = G[h][C] => g = h
       /\ \A g \in DOMAIN G : G[g][N] = Integer(Cardinality({k \in DOMAIN rows : v[k] = G[g][C]}))
  BY <1>8 DEF CountsValues
<1>12. KeepsRows(F, G, C)
  BY <1>6, <1>10, <1>11, KeptRows
<1>13. /\ IsSeq(F) /\ ToSet(F) = ToSet(G)
       /\ \A i, j \in DOMAIN F : F[i][C] = F[j][C] => i = j
  BY <1>12 DEF KeepsRows
<1>14. \A k \in DOMAIN rows : v[k] = value(who[k]) /\ who[k] \in M
  BY <1>4 DEF v
<1>15. found = {value(id) : id \in M}
  <2>. DEFINE R == {v[k] : k \in DOMAIN rows}
              L == {value(id) : id \in M}
  <2>1. found = {G[g][C] : g \in DOMAIN G}
    <3>1. \A x \in found : \E g \in DOMAIN G : x = G[g][C]
      BY <1>13 DEF ToSet
    <3>2. \A g \in DOMAIN G : G[g][C] \in found
      <4>1. \A g \in DOMAIN G : G[g] \in ToSet(F)
        BY <1>13 DEF ToSet
      <4> QED
        BY <4>1
    <3>. HIDE DEF found
    <3> QED
      BY <3>1, <3>2
  <2>2. found = R
    BY <1>11, <2>1
  <2>3. \A x \in L : x \in R
    <3> SUFFICES ASSUME NEW id \in M
                 PROVE  value(id) \in R
      OBVIOUS
    <3>1. PICK k \in DOMAIN rows : who[k] = id
      BY <1>4
    <3> QED
      BY <1>14, <3>1
  <2>4. \A x \in R : x \in L
    BY <1>14
  <2>. HIDE DEF found, L, R
  <2>5. L = R
    BY <2>3, <2>4
  <2> QED
    BY <2>2, <2>5 DEF L
<1>16. Cardinality(found) = Len(F)
  <2>. DEFINE f == [i \in 1 .. Len(F) |-> F[i][C]]
  <2>1. DOMAIN F = 1 .. Len(F) /\ Len(F) \in Nat
    BY <1>13 DEF IsSeq
  <2>2. IsFiniteSet(1 .. Len(F)) /\ Cardinality(1 .. Len(F)) = Len(F)
    BY <2>1, CountIs
  <2>3. f \in [1 .. Len(F) -> found]
    BY <2>1 DEF ToSet
  <2>4. \A x, y \in 1 .. Len(F) : f[x] = f[y] => x = y
    BY <1>13, <2>1
  <2>5. \A t \in found : \E i \in 1 .. Len(F) : f[i] = t
    BY <2>1 DEF ToSet
  <2>. HIDE DEF f, found
  <2> QED
    BY <2>2, <2>3, <2>4, <2>5, AsManyAs
<1>17. ASSUME NEW row \in ToSet(F), row[C].type # "nan", row[C] \notin {MinusZero, Real(0)}
       PROVE  row[N] = Integer(Cardinality({id \in M : Same(value(id), row[C])}))
  <2>. DEFINE x == row[C]
              P == {id \in M : value(id) = x}
  <2>1. \A id \in M : Same(value(id), x) <=> id \in P
    BY <1>17 DEF Same
  <2>2. PICK g \in DOMAIN G : row = G[g]
    BY <1>13 DEF ToSet
  <2>3. row[N] = Integer(Cardinality({k \in DOMAIN rows : v[k] = x}))
    BY <1>11, <2>2
  <2>4. \A k \in DOMAIN rows : v[k] = x <=> who[k] \in P
    BY <1>14
  <2>. HIDE DEF x, P
  <2>5. DOMAIN rows = 1 .. Len(rows) /\ Len(rows) \in Nat
    BY <1>1 DEF IsSeq
  <2>6. Enumerates(who, Len(rows), M)
    BY <1>4, <2>5 DEF Enumerates
  <2>7. Cardinality({k \in 1 .. Len(rows) : who[k] \in P}) = Cardinality({id \in M : id \in P})
    <3>1. CountsIn(who, Len(rows), M, P)
      BY <2>5, <2>6, CountedOnce
    <3> QED
      BY <3>1 DEF CountsIn
  <2>8. {k \in DOMAIN rows : v[k] = x} = {k \in 1 .. Len(rows) : who[k] \in P}
    BY <2>4, <2>5
  <2>9. {id \in M : id \in P} = {id \in M : Same(value(id), x)}
    BY <2>1
  <2> QED
    BY <2>3, <2>7, <2>8, <2>9 DEF x
<1>. HIDE DEF found
<1> QED
  BY <1>15, <1>16, <1>17 DEF CountsGroups, found, value, C, N, F, M

LEMMA GroupsKept ==
    ASSUME TypeOK, AskedInv, EvaluatesAsWritten
    PROVE  GroupsAreEqualValues
<1> SUFFICES ASSUME OnTable, Regular, Grouped(Asked), Asked.limit = <<>>,
                    IsInjective(Names(Asked.items)),
                    NEW c \in ToSet(Asked.items), NEW n \in ToSet(Asked.items),
                    Asked.group = <<c.expr>>, IsColumn(c.expr), n.expr.op = "count *"
             PROVE  CountsGroups(c, n)
  BY DEF GroupsAreEqualValues, Names
<1>1. PICK i \in DOMAIN Asked.items : c = Asked.items[i]
  BY DEF ToSet
<1>2. PICK j \in DOMAIN Asked.items : n = Asked.items[j]
  BY DEF ToSet
<1> QED
  BY <1>1, <1>2, GroupsCounted

\* A group is all rows with one value: with evaluators that read a column as the
\* row's value, COUNT(*) beside the grouping column counts exactly the rows that
\* are equal to it, and no two groups have the same (sql/select.rs:684).
THEOREM GroupsAreRight == Spec /\ []EvaluatesAsWritten => []GroupsAreEqualValues
<1>1. Init => AskedInv
  BY DEF Init, AskedInv, Nothing
<1>2. AskedInv /\ [Next]_vars => AskedInv'
  BY AskedKeeps
<1>3. TypeOK /\ AskedInv /\ EvaluatesAsWritten => GroupsAreEqualValues
  BY GroupsKept
<1> QED
  BY <1>1, <1>2, <1>3, Invariance, PTL DEF Spec

-----------------------------------------------------------------------------
(* The pages of an answer *)

\* The rows as they are shown, without the tag.
Out(q, rows) == Strip(Project(q, rows))

Shows(q, row) == Output(q.items, LAMBDA e : Evaluate(e, row, q.params, 0).val)

LEMMA ProjectIs ==
    ASSUME NEW q, NEW rows, ~ (q.items = <<>> \/ Grouped(q))
    PROVE  Project(q, rows) = [k \in DOMAIN rows |-> Shows(q, rows[k])]
BY Zenon DEF Project, Shows, Output

LEMMA OutIsSeq ==
    ASSUME NEW q, NEW rows, IsSeq(rows)
    PROVE  /\ Images(Project(q, rows), rows) /\ Images(Out(q, rows), rows)
<1>. DEFINE shown == Project(q, rows)
<1>1. Images(shown, rows)
  <2>1. CASE q.items = <<>> \/ Grouped(q)
    BY <2>1 DEF Project, Images
  <2>2. CASE ~ (q.items = <<>> \/ Grouped(q))
    <3>1. shown = [k \in DOMAIN rows |-> Shows(q, rows[k])]
      BY <2>2, ProjectIs
    <3>2. DOMAIN shown = DOMAIN rows /\ shown = [k \in DOMAIN shown |-> shown[k]]
      BY <3>1
    <3>. HIDE DEF shown
    <3> QED
      BY <3>2, MappedIs DEF Images
  <2> QED
    BY <2>1, <2>2
<1>. HIDE DEF shown
<1>2. /\ DOMAIN Strip(shown) = DOMAIN shown
      /\ Strip(shown) = [k \in DOMAIN Strip(shown) |-> Strip(shown)[k]]
  BY DEF Strip
<1>3. Images(Strip(shown), rows)
  BY <1>1, <1>2, MappedIs DEF Images
<1> QED
  BY <1>1, <1>3 DEF Out, shown

LEMMA OutOfEach ==
    ASSUME NEW q, NEW x, IsSeq(x), NEW y, IsSeq(y)
    PROVE  SameImages(Out(q, x), x, Out(q, y), y)
<1>1. /\ DOMAIN Project(q, x) = DOMAIN x /\ DOMAIN Project(q, y) = DOMAIN y
  BY OutIsSeq DEF Images, IsSeq
<1>2. ASSUME NEW i \in DOMAIN x, NEW j \in DOMAIN y, x[i] = y[j]
      PROVE  Project(q, x)[i] = Project(q, y)[j]
  <2>1. CASE q.items = <<>> \/ Grouped(q)
    BY <1>2, <2>1 DEF Project
  <2>2. CASE ~ (q.items = <<>> \/ Grouped(q))
    <3>1. Project(q, x)[i] = Shows(q, x[i]) /\ Project(q, y)[j] = Shows(q, y[j])
      BY <2>2, ProjectIs
    <3> QED
      BY <1>2, <3>1
  <2> QED
    BY <2>1, <2>2
<1>3. ASSUME NEW i \in DOMAIN x, NEW j \in DOMAIN y, x[i] = y[j]
      PROVE  Out(q, x)[i] = Out(q, y)[j]
  <2>1. Project(q, x)[i] = Project(q, y)[j]
    BY <1>2, <1>3
  <2>2. /\ Out(q, x)[i] = Restrict(Project(q, x)[i], DOMAIN Project(q, x)[i] \ {"_rowid_"})
        /\ Out(q, y)[j] = Restrict(Project(q, y)[j], DOMAIN Project(q, y)[j] \ {"_rowid_"})
    BY <1>1 DEF Out, Strip
  <2> QED
    BY <2>1, <2>2
<1> QED
  BY <1>3 DEF SameImages

\* A part of the rows gives that part of what is shown.
ShowsPart(q, s, m, n) == Out(q, SubSeq(s, m, n)) = SubSeq(Out(q, s), m, n)

LEMMA OutOfSlice ==
    ASSUME NEW q, NEW s, IsSeq(s), NEW m \in Nat, NEW n \in Nat, m >= 1, n <= Len(s)
    PROVE  ShowsPart(q, s, m, n)
<1>1. IsSeq(SubSeq(s, m, n))
  BY SubSeqIs
<1> QED
  BY <1>1, OutIsSeq, OutOfEach, SliceOfImages DEF ShowsPart

LEMMA WithoutDistinct ==
    ASSUME NEW q, q.from = <<>>, ~q.distinct, NEW p, Variant(p, q), p.distinct = q.distinct,
           NEW ids, NEW ord
    PROVE  AnswerFrom(p, ids, ord)
           = Out(q, Limit(p, Sorted(q, Listed(Matching(q, ids), ord))))
<1>1. p.from = <<>> /\ ~p.distinct
  BY DEF Variant
<1>2. AnswerFrom(p, ids, ord) = Strip(Shown(p, Listed(Matching(p, ids), ord)))
  BY <1>1, AnswerOnTable DEF Distinct
<1> QED
  BY <1>2, VariantIs DEF Shown, Sorted, Out

\* Asked for the k-th page of n rows.
PageOf(q, n, k) == [q EXCEPT !.limit = <<n>>, !.offset = (k - 1) * n]
Whole(q) == [q EXCEPT !.limit = <<>>]

LEMMA PageIs ==
    ASSUME NEW q, WellFormed(q), NEW n, NEW k
    PROVE  /\ Variant(PageOf(q, n, k), q) /\ PageOf(q, n, k).distinct = q.distinct
           /\ PageOf(q, n, k).limit = <<n>> /\ PageOf(q, n, k).offset = (k - 1) * n
           /\ Variant(Whole(q), q) /\ Whole(q).distinct = q.distinct
           /\ Whole(q).limit = <<>>
<1>1. {"kind", "from", "where", "params", "items", "group", "order", "limit", "offset",
       "distinct"} \subseteq DOMAIN q
  BY FieldsAre
<1>. DEFINE off == (k - 1) * n
<1>2. PageOf(q, n, k) = [q EXCEPT !.limit = <<n>>, !.offset = off]
  BY DEF PageOf
<1>. HIDE DEF off
<1>3. /\ Variant(PageOf(q, n, k), q) /\ PageOf(q, n, k).distinct = q.distinct
      /\ PageOf(q, n, k).limit = <<n>> /\ PageOf(q, n, k).offset = off
  BY <1>1, <1>2 DEF Variant
<1>4. Variant(Whole(q), q) /\ Whole(q).distinct = q.distinct /\ Whole(q).limit = <<>>
  BY <1>1 DEF Variant, Whole
<1> QED
  BY <1>3, <1>4 DEF off

LEMMA OnePage ==
    ASSUME NEW q, WellFormed(q), NEW n \in Nat, NEW k \in Nat \ {0}, NEW s, IsSeq(s)
    PROVE  Out(q, Limit(PageOf(q, n, k), s)) = Page(Out(q, s), n, k)
<1>. DEFINE p == PageOf(q, n, k)
            off == (k - 1) * n
            last == Min({off + n, Len(s)})
<1>1. off \in Nat
  BY Products
<1>2. p.limit = <<n>> /\ p.offset = off
  BY PageIs
<1>. HIDE DEF p, off
<1>3. Limit(p, s) = SubSeq(s, off + 1, last)
  <2>1. p.limit # <<>> /\ p.limit[1] = n /\ n # Unreadable
    BY <1>2 DEF Unreadable
  <2> QED
    BY <1>2, <2>1 DEF Limit
<1>4. last \in Nat /\ last <= Len(s)
  <2>1. off + n \in Nat /\ Len(s) \in Nat
    BY <1>1 DEF IsSeq
  <2>2. off + n \in Int /\ Len(s) \in Int
    BY <2>1
  <2>3. last \in {off + n, Len(s)} /\ last <= Len(s)
    BY <2>2, MinIs
  <2>. HIDE DEF last
  <2> QED
    BY <2>1, <2>3
<1>5. ShowsPart(q, s, off + 1, last)
  <2>1. off + 1 \in Nat /\ off + 1 >= 1
    BY <1>1
  <2>. HIDE DEF last
  <2> QED
    BY <1>4, <2>1, OutOfSlice
<1>6. Len(Out(q, s)) = Len(s)
  BY OutIsSeq DEF Images
<1> QED
  BY <1>3, <1>5, <1>6 DEF Page, ShowsPart, off, p

LEMMA PagesKept ==
    ASSUME TypeOK, AskedInv
    PROVE  PagesAreTheAnswer
<1>. DEFINE all == AnswerFrom(Whole(Asked), Fetched(Asked), order)
            page(n, k) == AnswerFrom(PageOf(Asked, n, k), Fetched(Asked), order)
<1> SUFFICES ASSUME OnTable, ~Asked.distinct, NEW n \in RowId
             PROVE  FlattenSeq([k \in 1 .. Len(all) |-> page(n, k)]) = all
  BY Zenon DEF PagesAreTheAnswer, Whole, PageOf
<1>1. Asked \in Selects /\ order \in Orders /\ Asked.from = <<>>
  BY DEF AskedInv, OnTable
<1>2. WellFormed(Asked)
  BY <1>1, StatementAssumption
<1>3. n \in Nat /\ n # 0
  BY SelectAssumption DEF RowId
<1>. DEFINE s == Sorted(Asked, Passing)
            out == Out(Asked, s)
<1>4. IsSeq(s)
  <2>1. Matching(Asked, Fetched(Asked)) \subseteq Live
    BY DEF Matching, Fetched
  <2>2. IsSeq(Passing)
    BY <1>1, <2>1, ListedIs DEF Passing
  <2>3. Len(Asked.order) \in Nat
    BY <1>2, LenProperties DEF WellFormed
  <2> QED
    BY <2>2, <2>3, GroupIsSeq, OrderByIsSeq DEF Sorted
<1>5. all = out
  <2>1. Limit(Whole(Asked), s) = s
    BY <1>2, PageIs DEF Limit
  <2>2. all = Out(Asked, Limit(Whole(Asked), s))
    BY <1>1, <1>2, PageIs, WithoutDistinct DEF Passing
  <2> QED
    BY <2>1, <2>2
<1>6. ASSUME NEW k \in 1 .. Len(out)
      PROVE  page(n, k) = Page(out, n, k)
  <2>1. page(n, k) = Out(Asked, Limit(PageOf(Asked, n, k), s))
    BY <1>1, <1>2, PageIs, WithoutDistinct DEF Passing
  <2>2. k \in Nat \ {0}
    OBVIOUS
  <2>. HIDE DEF s
  <2> QED
    BY <1>2, <1>3, <1>4, <2>1, <2>2, OnePage
<1>7. out \in Seq(ToSet(out))
  <2>. HIDE DEF s
  <2> QED
    BY <1>4, OutIsSeq, IsSeqIs DEF Images
<1>. HIDE DEF out
<1>8. FlattenSeq([k \in 1 .. Len(out) |-> Page(out, n, k)]) = out
  BY <1>3, <1>7, PagesAre
<1>. HIDE DEF page, all
<1>9. [k \in 1 .. Len(out) |-> page(n, k)] = [k \in 1 .. Len(out) |-> Page(out, n, k)]
  BY <1>6
<1> QED
  BY <1>5, <1>8, <1>9

\* The pages LIMIT n OFFSET 0, n, 2n, ... run together are the answer without a
\* LIMIT: no row is missing and none is there twice, whatever the rows are and
\* however they are grouped and sorted (sql/select.rs:805).
THEOREM PagesAreRight == Spec => []PagesAreTheAnswer
<1>1. Init => AskedInv
  BY DEF Init, AskedInv, Nothing
<1>2. AskedInv /\ [Next]_vars => AskedInv'
  BY AskedKeeps
<1>3. TypeOK /\ AskedInv => PagesAreTheAnswer
  BY PagesKept
<1> QED
  BY <1>1, <1>2, <1>3, Invariance, PTL DEF Spec
=============================================================================
