------------------------------- MODULE Queues -------------------------------
(***************************************************************************)
(* Queues without duplicates: the arrays of pending approvals and of       *)
(* waiting requests, from which one element can be taken out anywhere.     *)
(***************************************************************************)
EXTENDS Naturals, Sequences

Elements(q) == {q[i] : i \in DOMAIN q}

Distinct(q) == \A i, j \in DOMAIN q : q[i] = q[j] => i = j

\* Mutant of Without: q.shift(), whatever the element.
WithoutHead(q, e) == IF q = <<>> THEN q ELSE Tail(q)

\* q.filter(x => x !== e), or findIndex() and splice(), for a queue without
\* duplicates.
Without(q, e) ==
    IF \E i \in DOMAIN q : q[i] = e
    THEN LET i == CHOOSE k \in DOMAIN q : q[k] = e
         IN  [j \in 1..(Len(q) - 1) |-> IF j < i THEN q[j] ELSE q[j + 1]]
    ELSE q

\* q.filter(x => keep.has(x)): SelectSeq, in a form that the proofs can expand.
Filtered(q, keep) ==
    LET kept[i \in 0..Len(q)] ==
          IF i = 0 THEN <<>>
          ELSE IF q[i] \in keep THEN Append(kept[i - 1], q[i]) ELSE kept[i - 1]
    IN  kept[Len(q)]
=============================================================================
