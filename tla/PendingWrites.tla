--------------------------- MODULE PendingWrites ---------------------------
(***************************************************************************)
(* What the Firestore SDK does with the writes that Assignment.swift sends *)
(* to the `results' field of an assignment document (external code: the    *)
(* SDK and the service are modelled from how src/ uses them).              *)
(*                                                                         *)
(* A device keeps its own writes in a queue, first in first out, until the *)
(* service has committed them; the queue survives a restart.  What the     *)
(* device shows meanwhile is the last state it knows with its own pending  *)
(* writes laid over it.  The field is a set here: arrayUnion adds an       *)
(* element at most once, and no property depends on the order.             *)
(***************************************************************************)
EXTENDS Naturals, Sequences

\* ClearResults writes the empty list, AddResult adds one result.  A clear is
\* tagged with the result it makes room for; the tag is not stored.
Clear(r) == [kind |-> "clear", result |-> r]
Add(r)   == [kind |-> "add", result |-> r]
Writes(Results) == [kind : {"clear", "add"}, result : Results]

\* The field after one write.
Applied(field, write) ==
    IF write.kind = "clear" THEN {} ELSE field \cup {write.result}

\* No write of the queue from position i on clears the field.
NoClearFrom(queue, i) == \A j \in i..Len(queue) : queue[j].kind # "clear"

\* The field after every write of the queue, in order.
Overlaid(field, queue) ==
    {r \in field : NoClearFrom(queue, 1)}
        \cup {queue[i].result : i \in {k \in 1..Len(queue) : NoClearFrom(queue, k)}}

\* The results that the queue has still to add.
ToAdd(queue) ==
    {queue[i].result : i \in {k \in 1..Len(queue) : queue[k].kind = "add"}}
============================================================================
