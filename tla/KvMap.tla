------------------------------- MODULE KvMap -------------------------------
(***************************************************************************)
(* What the raw key/value API promises to the threads that write through   *)
(* it: one map, whatever is in memory and whatever is on disk.  A put      *)
(* takes effect once, between its call and its return.  A remove leaves    *)
(* the key absent when it returns, unless a put of the key overlapped it.  *)
(***************************************************************************)
CONSTANTS Thread, Key, Value, None

VARIABLES
    content,  \* key -> value or None
    call      \* thread -> the call it is in

Idle == [op |-> "idle"]

\* `done`: the call has taken effect, or may count as having done so.
Calls == {Idle}
         \union [op : {"put"}, key : Key, val : Value, done : BOOLEAN]
         \union [op : {"remove"}, key : Key, done : BOOLEAN]

Init ==
    /\ content = [k \in Key |-> None]
    /\ call = [t \in Thread |-> Idle]

Start(t) ==
    /\ call[t] = Idle
    /\ \E c \in Calls \ {Idle} :
           /\ ~c.done
           /\ call' = [call EXCEPT ![t] = c]
    /\ UNCHANGED content

\* A remove of the same key that is still running may be counted as having
\* come just before.
PutEffect(t) ==
    /\ call[t].op = "put" /\ ~call[t].done
    /\ content' = [content EXCEPT ![call[t].key] = call[t].val]
    /\ call' = [u \in Thread |->
                   IF u = t \/ (call[u].op = "remove" /\ call[u].key = call[t].key)
                   THEN [call[u] EXCEPT !.done = TRUE] ELSE call[u]]

PutReturn(t) ==
    /\ call[t].op = "put" /\ call[t].done
    /\ call' = [call EXCEPT ![t] = Idle]
    /\ UNCHANGED content

RemoveEffect(t) ==
    /\ call[t].op = "remove"
    /\ content' = [content EXCEPT ![call[t].key] = None]
    /\ call' = [call EXCEPT ![t].done = TRUE]

RemoveReturn(t) ==
    /\ call[t].op = "remove"
    /\ \/ call[t].done /\ UNCHANGED content
       \/ content' = [content EXCEPT ![call[t].key] = None]
    /\ call' = [call EXCEPT ![t] = Idle]

Next ==
    \E t \in Thread :
        Start(t) \/ PutEffect(t) \/ PutReturn(t) \/ RemoveEffect(t) \/ RemoveReturn(t)

Spec == Init /\ [][Next]_<<content, call>>
=============================================================================
