---------------------------- MODULE ResultsBook ----------------------------
(***************************************************************************)
(* What the result list of one assignment promises, without devices,       *)
(* queues, caches or screens: the results students hand in are stored, one *)
(* by one, each exactly once.  The list may be erased, but only to make    *)
(* room for a result that is not stored yet and whose student had handed   *)
(* in another one.  The erasure takes every student's results with it:     *)
(* that is what the code does, and all it promises.                        *)
(***************************************************************************)
CONSTANT Result         \* each with the field `student'

VARIABLES
    book,               \* the results in the list
    handedIn,           \* the results students have submitted
    stored              \* those that have reached the list, ever

vars == <<book, handedIn, stored>>

TypeOK ==
    /\ handedIn \subseteq Result
    /\ stored \subseteq handedIn
    /\ book \subseteq stored

Init == book = {} /\ handedIn = {} /\ stored = {}

HandIn(r) ==
    /\ r \notin handedIn
    /\ handedIn' = handedIn \cup {r}
    /\ UNCHANGED <<book, stored>>

Store(r) ==
    /\ r \in handedIn \ stored
    /\ book' = book \cup {r}
    /\ stored' = stored \cup {r}
    /\ UNCHANGED handedIn

IsResubmission(r) == \E other \in handedIn \ {r} : other.student = r.student

Erase(r) ==
    /\ r \in handedIn \ stored
    /\ IsResubmission(r)
    /\ book' = {}
    /\ UNCHANGED <<handedIn, stored>>

Next == \E r \in Result : HandIn(r) \/ Store(r) \/ Erase(r)

Fairness == \A r \in Result : WF_vars(Store(r))

Safety == Init /\ [][Next]_vars
Spec == Safety /\ Fairness
============================================================================
