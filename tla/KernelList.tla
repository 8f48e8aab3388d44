----------------------------- MODULE KernelList -----------------------------
(***************************************************************************)
(* The circular doubly linked list of <linux/list.h>, as the run queues of *)
(* wrr.c and rt.c use it: a list head is the sequence of the entries       *)
(* linked into it, first entry first.  list.h is not part of this          *)
(* repository; the operators below are what its callers rely on.           *)
(***************************************************************************)
EXTENDS Naturals, Sequences

\* The entries linked into list q.
Entries(q) == {q[i] : i \in 1..Len(q)}

\* Every entry is linked at most once, so its prev and next are well defined.
Linked(q) == \A i, j \in 1..Len(q) : q[i] = q[j] => i = j

\* list_del_init(): unlinks t; on an entry that is not linked it does nothing.
list_del(q, t) ==
  IF t \notin Entries(q)
    THEN q
    ELSE LET k == CHOOSE i \in 1..Len(q) : q[i] = t
         IN  [i \in 1..(Len(q) - 1) |-> IF i < k THEN q[i] ELSE q[i + 1]]

\* list_add(): links t first.  list_add_tail(): links t last.
list_add(q, t)      == <<t>> \o q
list_add_tail(q, t) == Append(q, t)

\* list_move() and list_move_tail(): unlink t, then link it first or last.
list_move(q, t)      == list_add(list_del(q, t), t)
list_move_tail(q, t) == list_add_tail(list_del(q, t), t)

=============================================================================
