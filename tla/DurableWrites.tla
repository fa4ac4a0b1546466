--------------------------- MODULE DurableWrites ---------------------------
(***************************************************************************)
(* What the writes of a device may count on, whatever its connection does. *)
(* Writes are issued one after the other, by the user who is signed in.    *)
(* The writes of a user arrive at the service for the first time in the    *)
(* order they were issued in, and the device forgets them in that order,   *)
(* each only after it has arrived.  A write may arrive more than once: a   *)
(* second arrival does not show here.                                      *)
(***************************************************************************)
EXTENDS Naturals, Sequences

CONSTANT Users

VARIABLES
    author,     \* the user who issued each write
    arrived,    \* the writes that have arrived at least once
    forgotten   \* the writes that the device has forgotten

vars == <<author, arrived, forgotten>>

\* The writes that the user of w issued before w.
Earlier(w) == {v \in 1..(w - 1) : author[v] = author[w]}

Init == author = << >> /\ arrived = {} /\ forgotten = {}

Issue(u) ==
    /\ author' = Append(author, u)
    /\ UNCHANGED <<arrived, forgotten>>

Arrive(w) ==
    /\ Earlier(w) \subseteq arrived
    /\ arrived' = arrived \cup {w}
    /\ UNCHANGED <<author, forgotten>>

Forget(w) ==
    /\ w \in arrived
    /\ Earlier(w) \subseteq forgotten
    /\ forgotten' = forgotten \cup {w}
    /\ UNCHANGED <<author, arrived>>

Next ==
    \/ \E u \in Users : Issue(u)
    \/ \E w \in DOMAIN author : Arrive(w) \/ Forget(w)

Safety == Init /\ [][Next]_vars
============================================================================
