---------------------------- MODULE MCStatements ----------------------------
(* Small instances of Statements for TLC. *)
EXTENDS Statements, TLC

CONSTANTS p, c,        \* two tables
          x, y,        \* two texts
          fox, dog     \* their tokens

Values == {x, y, Null}

\* y has the token of x and one more.
MCTokens == (x :> {fox}) @@ (y :> {fox, dog}) @@ (Null :> {})

\* SET v = x, SET v = y, and the SET that exchanges the two.
Swap   == [v \in Values |-> CASE v = x -> y [] v = y -> x [] OTHER -> v]
MCSets == {[v \in Values |-> x], [v \in Values |-> y], Swap}

Always == (Values \union {NoRow}) \X (Values \union {NoRow})
Changed == {w \in Always : w[1] # w[2]}

InsertInto(t, to)        == [op |-> "Insert", table |-> t, where |-> AnyRow, to |-> to]
UpdateAll(t, where, to)  == [op |-> "Update", table |-> t, where |-> where, to |-> to]
DeleteFrom(t, where)     == [op |-> "Delete", table |-> t, where |-> where, to |-> Null]

On(timing, event, when, body) ==
    [timing |-> timing, event |-> event, when |-> when, body |-> body]

Plain == [triggers |-> [t \in Table |-> <<>>],
          accepted |-> [t \in Table |-> Values],
          unique |-> {}, indexed |-> Table, references |-> {}, fts |-> {}]

\* c references p, and p's triggers cascade.  c's CHECK can fail the cascade.
Cascading ==
    [Plain EXCEPT
        !.references = {[table |-> c, refTable |-> p]},
        !.indexed = {c}, !.unique = {p},
        !.accepted = [Plain.accepted EXCEPT ![c] = {x, Null}],
        !.triggers[p] =
            <<On("After", "Update", Changed, <<UpdateAll(c, OldValue, NewValue)>>),
              On("Before", "Delete", Always, <<DeleteFrom(c, OldValue)>>)>>]

\* An fts5 table whose triggers write the table itself.
SelfWriting ==
    [Plain EXCEPT
        !.fts = {c},
        !.triggers[c] =
            <<On("After", "Update", {<<x, y>>}, <<UpdateAll(c, OldValue, Null)>>),
              On("After", "Update", {<<y, x>>}, <<UpdateAll(c, NewValue, OldValue)>>),
              On("Before", "Delete", {<<x, NoRow>>}, <<UpdateAll(c, x, y)>>)>>]

\* Rows of p are logged in c; the trigger fails on the second copy of a text.
Logging ==
    [Plain EXCEPT
        !.unique = {c}, !.fts = {p},
        !.triggers[p] =
            <<On("After", "Insert", Always, <<InsertInto(c, NewValue)>>),
              On("After", "Delete", Always,
                      <<DeleteFrom(c, OldValue), InsertInto(p, Null)>>)>>]

\* A BEFORE trigger writes the table that is being written.
Doubling ==
    [Plain EXCEPT
        !.unique = {p},
        !.triggers[p] = <<On("Before", "Insert", {<<NoRow, x>>},
                             <<InsertInto(p, y), UpdateAll(p, y, x)>>),
                          On("After", "Insert", {<<NoRow, Null>>},
                             <<DeleteFrom(c, OldValue)>>)>>]

MCSchemas == {Cascading, SelfWriting, Logging, Doubling}
SelfWritingOnly == {SelfWriting}
=============================================================================
