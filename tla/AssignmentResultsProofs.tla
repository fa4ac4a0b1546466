---------------------- MODULE AssignmentResultsProofs ----------------------
(***************************************************************************)
(* Theorems of AssignmentResults, for any number of students, devices and  *)
(* submissions.  They hold of Safety: no fairness is needed.               *)
(***************************************************************************)
EXTENDS AssignmentResults, SequenceTheorems, TLAPS

(* Every result that anyone reads has been submitted, and a submission is  *)
(* numbered by its device: the next number is new.                         *)
Accounted ==
    /\ server \subseteq submitted
    /\ \A d \in Devices : known[d] \subseteq submitted /\ local[d] \subseteq submitted
    /\ \A r \in submitted : /\ r.number <= tries[r.device]
                            /\ r.student = Owner[r.device]
    /\ \A d \in Devices : screen[d] = "quiz" => tries[d] < MaxTries
    /\ \A d \in Devices : ~echoed[d] => screen[d] = "results"

IsResubmission(r, S) == \E s \in S \ {r} : s.student = r.student

(* The shape of a queue: a clear is followed by the addition it was sent   *)
(* for, whose student has submitted before; an addition that has something *)
(* before it has its clear there; nothing is added twice.                  *)
Shaped(q, S, d) ==
    /\ \A i \in 1..Len(q) : q[i].result \in S /\ q[i].result.device = d
    /\ \A i \in 1..Len(q) : q[i].kind = "clear" =>
           /\ i + 1 \in 1..Len(q)
           /\ q[i + 1] = Add(q[i].result)
           /\ IsResubmission(q[i].result, S)
    /\ \A i \in 2..Len(q) : q[i].kind = "add" => q[i - 1].kind = "clear"
    /\ \A i, j \in 1..Len(q) :
           i # j /\ q[i].kind = "add" /\ q[j].kind = "add" =>
               q[i].result # q[j].result

QueueShape(d) == Shaped(pending[d], submitted, d)

InServer(d) == \E r \in server : r.device = d

(* The next addition of a device meets no result of that device.           *)
RoomForNext(d) ==
    pending[d] # << >> /\ pending[d][1].kind = "add" => ~InServer(d)

(* A device whose result is in the field reads one of its student's, from  *)
(* its cache or from its queue; and CurrentAssignment has one too once the *)
(* listener has run.                                                       *)
CacheKnows(d) ==
    InServer(d) => pending[d] # << >> \/ Own(d, known[d]) # {}

LocalKnows(d) ==
    screen[d] # "list" /\ echoed[d] /\ Own(d, local[d]) = {} =>
        pending[d] = << >> /\ ~InServer(d)

(* A submission that is neither queued nor in the field has been erased by *)
(* a resubmission from another device.                                     *)
OthersRetook(d) ==
    \E r, s \in submitted : r # s /\ r.student = s.student /\ r.device # d

ErasedByOthers(d) ==
    tries[d] > 0 => pending[d] # << >> \/ InServer(d) \/ OthersRetook(d)

IInv ==
    /\ TypeOK
    /\ Accounted
    /\ \A d \in Devices : QueueShape(d)
    /\ \A d \in Devices : RoomForNext(d)
    /\ \A d \in Devices : CacheKnows(d)
    /\ \A d \in Devices : LocalKnows(d)
    /\ \A d \in Devices : ErasedByOthers(d)
    /\ FirstSubmissionsKept
    /\ OneResultPerDevice
    /\ OfferedAgainOnlyAfterErasure

----------------------------------------------------------------------------
(* Reading through the queue.                                              *)

LEMMA ViewOfEmpty ==
    ASSUME NEW d \in Devices, NEW base, pending[d] = << >>
    PROVE  View(d, base) = base
  BY DEF View, Overlaid, NoClearFrom

(* A queue ends with an addition, which every read shows.                  *)
LEMMA ViewHasOwn ==
    ASSUME TypeOK, Accounted, NEW d \in Devices, QueueShape(d), NEW base,
           pending[d] # << >>
    PROVE  Own(d, View(d, base)) # {}
<1> DEFINE q == pending[d]
           n == Len(pending[d])
<1>1. q \in Seq(Writes(Result)) /\ n \in Nat /\ n >= 1
  BY EmptySeq DEF TypeOK
<1>2. q[n] \in Writes(Result)
  BY <1>1, ElementOfSeq
<1>3. q[n].kind # "clear"
  BY <1>1 DEF QueueShape, Shaped
<1>4. NoClearFrom(q, n)
  BY <1>1, <1>3 DEF NoClearFrom
<1>5. q[n].result \in View(d, base)
  BY <1>1, <1>4 DEF View, Overlaid
<1>6. q[n].result.student = Owner[d]
  BY <1>1 DEF QueueShape, Shaped, Accounted
<1> QED
  BY <1>5, <1>6 DEF Own

LEMMA ViewSubmitted ==
    ASSUME TypeOK, NEW d \in Devices, QueueShape(d), NEW base,
           base \subseteq submitted
    PROVE  View(d, base) \subseteq submitted
  BY DEF View, Overlaid, QueueShape, Shaped

(* Whatever a read is answered from, it shows a result of the student when *)
(* the field has one of the device.                                        *)
LEMMA ReadHasOwn ==
    ASSUME TypeOK, Accounted, NEW d \in Devices, QueueShape(d), CacheKnows(d),
           NEW base \in Readable(d), Own(d, View(d, base)) = {}
    PROVE  pending[d] = << >> /\ ~InServer(d)
<1>1. pending[d] = << >>
  BY ViewHasOwn
<1>2. View(d, base) = base
  BY <1>1, ViewOfEmpty
<1>3. CASE base = known[d]
  BY <1>1, <1>2, <1>3 DEF CacheKnows
<1>4. CASE base = server
  BY <1>1, <1>2, <1>4 DEF InServer, Own, Accounted, TypeOK
<1> QED
  BY <1>3, <1>4, <1>1 DEF Readable
----------------------------------------------------------------------------
(* A step that leaves the field, the queues and the submissions alone keeps*)
(* what the invariant says of them.                                        *)
LEMMA QuietStep ==
    ASSUME IInv, UNCHANGED <<server, pending, tries, submitted>>
    PROVE  /\ \A d \in Devices : QueueShape(d)'
           /\ \A d \in Devices : RoomForNext(d)'
           /\ \A d \in Devices : ErasedByOthers(d)'
           /\ \A d \in Devices : OthersRetook(d) => OthersRetook(d)'
           /\ FirstSubmissionsKept'
           /\ OneResultPerDevice'
  BY DEF IInv, QueueShape, Shaped, IsResubmission, RoomForNext, ErasedByOthers,
     OthersRetook, InServer, FirstSubmissionsKept, Retaken, Stored,
     OneResultPerDevice

(* A read of device d, which may replace CurrentAssignment.results, keeps  *)
(* what the invariant says of caches and lists.                            *)
LEMMA ReadStep ==
    ASSUME IInv, UNCHANGED <<server, pending, tries, submitted>>,
           NEW d \in Devices, NEW base \in Readable(d),
           known' = [known EXCEPT ![d] = base],
           \/ UNCHANGED <<local, echoed>> /\ screen[d] # "list"
           \/ /\ local' = [local EXCEPT ![d] = View(d, base)]
              /\ echoed' = [echoed EXCEPT ![d] = TRUE],
           \A e \in Devices \ {d} : screen'[e] = screen[e]
    PROVE  /\ known' \in [Devices -> SUBSET Result]
           /\ local' \in [Devices -> SUBSET Result]
           /\ echoed' \in [Devices -> BOOLEAN]
           /\ \A e \in Devices : known'[e] \subseteq submitted
           /\ \A e \in Devices : local'[e] \subseteq submitted
           /\ \A e \in Devices : CacheKnows(e)'
           /\ \A e \in Devices : LocalKnows(e)'
<1>1. base \subseteq submitted /\ View(d, base) \subseteq submitted
  BY ViewSubmitted DEF IInv, Accounted, Readable
<1>2. submitted \subseteq Result
  BY DEF IInv, TypeOK
<1>3. /\ known' \in [Devices -> SUBSET Result]
      /\ \A e \in Devices : known'[e] \subseteq submitted
  BY <1>1, <1>2 DEF IInv, TypeOK, Accounted
<1>4. /\ local' \in [Devices -> SUBSET Result]
      /\ \A e \in Devices : local'[e] \subseteq submitted
  BY <1>1, <1>2 DEF IInv, TypeOK, Accounted
<1>5. echoed' \in [Devices -> BOOLEAN]
  BY DEF IInv, TypeOK
<1>6. ASSUME NEW e \in Devices PROVE CacheKnows(e)'
  <2>1. CASE e = d
    <3>1. known'[d] = base
      BY DEF IInv, TypeOK
    <3>2. InServer(d) /\ pending[d] = << >> => Own(d, View(d, base)) # {}
      BY ReadHasOwn DEF IInv
    <3>3. pending[d] = << >> => View(d, base) = base
      BY ViewOfEmpty
    <3> QED
      BY <2>1, <3>1, <3>2, <3>3 DEF CacheKnows, InServer, Own
  <2>2. CASE e # d
    BY <2>2 DEF IInv, TypeOK, CacheKnows, InServer, Own
  <2> QED
    BY <2>1, <2>2
<1>7. ASSUME NEW e \in Devices PROVE LocalKnows(e)'
  <2>1. CASE UNCHANGED <<local, echoed>> /\ screen[d] # "list"
    BY <2>1 DEF IInv, LocalKnows, InServer, Own
  <2>2. CASE e = d /\ local' = [local EXCEPT ![d] = View(d, base)]
    <3>1. local'[d] = View(d, base)
      BY <2>2 DEF IInv, TypeOK
    <3>2. Own(d, View(d, base)) = {} => pending[d] = << >> /\ ~InServer(d)
      BY ReadHasOwn DEF IInv
    <3> QED
      BY <2>2, <3>1, <3>2 DEF LocalKnows, InServer, Own
  <2>3. CASE e # d
    BY <2>3 DEF IInv, TypeOK, LocalKnows, InServer, Own
  <2> QED
    BY <2>1, <2>2, <2>3
<1> QED
  BY <1>3, <1>4, <1>5, <1>6, <1>7
----------------------------------------------------------------------------
(* Queues under the three things that happen to them.                      *)

LEMMA AppendAdd ==
    ASSUME NEW q \in Seq(Writes(Result)), NEW r \in Result
    PROVE  LET p == q \o <<Add(r)>>
           IN  /\ p \in Seq(Writes(Result))
               /\ Len(p) = Len(q) + 1
               /\ \A i \in 1..Len(q) : p[i] = q[i]
               /\ p[Len(q) + 1] = Add(r)
               /\ Add(r).kind = "add" /\ Add(r).result = r
<1> DEFINE w == <<Add(r)>>
<1>1. Add(r) \in Writes(Result) /\ Add(r).kind = "add" /\ Add(r).result = r
  BY DEF Add, Writes
<1>2. w \in Seq(Writes(Result)) /\ Len(w) = 1 /\ w[1] = Add(r)
  BY <1>1
<1> HIDE DEF w
<1>3. /\ q \o w \in Seq(Writes(Result))
      /\ Len(q \o w) = Len(q) + 1
      /\ \A i \in 1..Len(q) + 1 :
             (q \o w)[i] = IF i <= Len(q) THEN q[i] ELSE w[i - Len(q)]
  <2>1. /\ q \o w \in Seq(Writes(Result))
        /\ Len(q \o w) = Len(q) + Len(w)
        /\ \A i \in 1..Len(q) + Len(w) :
               (q \o w)[i] = IF i <= Len(q) THEN q[i] ELSE w[i - Len(q)]
    BY <1>2, ConcatProperties
  <2> QED
    BY <2>1, <1>2
<1>4. Len(q) \in Nat
  OBVIOUS
<1>5. /\ \A i \in 1..Len(q) : (q \o w)[i] = q[i]
      /\ (q \o w)[Len(q) + 1] = Add(r)
  BY <1>2, <1>3, <1>4
<1> QED
  BY <1>1, <1>3, <1>5 DEF w

LEMMA AppendClearAdd ==
    ASSUME NEW q \in Seq(Writes(Result)), NEW r \in Result
    PROVE  LET p == q \o <<Clear(r), Add(r)>>
           IN  /\ p \in Seq(Writes(Result))
               /\ Len(p) = Len(q) + 2
               /\ \A i \in 1..Len(q) : p[i] = q[i]
               /\ p[Len(q) + 1] = Clear(r)
               /\ p[Len(q) + 2] = Add(r)
               /\ Add(r).kind = "add" /\ Add(r).result = r
               /\ Clear(r).kind = "clear" /\ Clear(r).result = r
<1> DEFINE w == <<Clear(r), Add(r)>>
<1>1. Clear(r) \in Writes(Result) /\ Add(r) \in Writes(Result)
  BY DEF Add, Clear, Writes
<1>2. w \in Seq(Writes(Result)) /\ Len(w) = 2 /\ w[1] = Clear(r) /\ w[2] = Add(r)
  BY <1>1
<1>3. /\ Add(r).kind = "add" /\ Add(r).result = r
      /\ Clear(r).kind = "clear" /\ Clear(r).result = r
  BY DEF Add, Clear
<1> HIDE DEF w
<1>4. /\ q \o w \in Seq(Writes(Result))
      /\ Len(q \o w) = Len(q) + 2
      /\ \A i \in 1..Len(q) + 2 :
             (q \o w)[i] = IF i <= Len(q) THEN q[i] ELSE w[i - Len(q)]
  <2>1. /\ q \o w \in Seq(Writes(Result))
        /\ Len(q \o w) = Len(q) + Len(w)
        /\ \A i \in 1..Len(q) + Len(w) :
               (q \o w)[i] = IF i <= Len(q) THEN q[i] ELSE w[i - Len(q)]
    BY <1>2, ConcatProperties
  <2> QED
    BY <2>1, <1>2
<1>5. Len(q) \in Nat
  OBVIOUS
<1>6. /\ \A i \in 1..Len(q) : (q \o w)[i] = q[i]
      /\ (q \o w)[Len(q) + 1] = Clear(r)
      /\ (q \o w)[Len(q) + 2] = Add(r)
  BY <1>2, <1>4, <1>5
<1> QED
  BY <1>3, <1>4, <1>6 DEF w

LEMMA ToAddAppend ==
    ASSUME NEW q \in Seq(Writes(Result)), NEW r \in Result
    PROVE  /\ ToAdd(q \o <<Add(r)>>) = ToAdd(q) \cup {r}
           /\ ToAdd(q \o <<Clear(r), Add(r)>>) = ToAdd(q) \cup {r}
<1>n. Len(q) \in Nat
  OBVIOUS
<1>1. ToAdd(q \o <<Add(r)>>) = ToAdd(q) \cup {r}
  <2> DEFINE p == q \o <<Add(r)>>
  <2>1. /\ Len(p) = Len(q) + 1
        /\ \A i \in 1..Len(q) : p[i] = q[i]
        /\ p[Len(q) + 1].kind = "add" /\ p[Len(q) + 1].result = r
    BY AppendAdd
  <2> HIDE DEF p
  <2>2. ToAdd(p) = ToAdd(q) \cup {r}
    BY <2>1, <1>n DEF ToAdd
  <2> QED
    BY <2>2 DEF p
<1>2. ToAdd(q \o <<Clear(r), Add(r)>>) = ToAdd(q) \cup {r}
  <2> DEFINE p == q \o <<Clear(r), Add(r)>>
  <2>1. /\ Len(p) = Len(q) + 2
        /\ \A i \in 1..Len(q) : p[i] = q[i]
        /\ p[Len(q) + 1].kind = "clear"
        /\ p[Len(q) + 2].kind = "add" /\ p[Len(q) + 2].result = r
    BY AppendClearAdd
  <2> HIDE DEF p
  <2>2. ToAdd(p) = ToAdd(q) \cup {r}
    BY <2>1, <1>n DEF ToAdd
  <2> QED
    BY <2>2 DEF p
<1> QED
  BY <1>1, <1>2

(* Taking the head off: a clear adds nothing, an addition only its result. *)
LEMMA ToAddTail ==
    ASSUME NEW q \in Seq(Writes(Result)), q # << >>
    PROVE  /\ Head(q).kind = "clear" => ToAdd(Tail(q)) = ToAdd(q)
           /\ Head(q).kind = "add" =>
                  ToAdd(q) = ToAdd(Tail(q)) \cup {Head(q).result}
<1>1. /\ Len(q) \in Nat /\ Len(q) >= 1
      /\ Len(Tail(q)) = Len(q) - 1
      /\ \A i \in 1..Len(Tail(q)) : Tail(q)[i] = q[i + 1]
      /\ Head(q) = q[1]
  BY HeadTailProperties, EmptySeq
<1>2. \A i \in 2..Len(q) : i - 1 \in 1..Len(Tail(q)) /\ Tail(q)[i - 1] = q[i]
  BY <1>1
<1>3. ToAdd(Tail(q)) \subseteq ToAdd(q)
  BY <1>1 DEF ToAdd
<1>4. \A i \in 2..Len(q) : q[i].kind = "add" => q[i].result \in ToAdd(Tail(q))
  BY <1>1, <1>2 DEF ToAdd
<1>5. Head(q).kind = "add" => Head(q).result \in ToAdd(q)
  BY <1>1 DEF ToAdd
<1>6. ASSUME NEW x \in ToAdd(q)
      PROVE  \/ x \in ToAdd(Tail(q))
             \/ Head(q).kind = "add" /\ x = Head(q).result
  <2>1. PICK i \in 1..Len(q) : q[i].kind = "add" /\ q[i].result = x
    BY DEF ToAdd
  <2>2. CASE i = 1
    BY <2>1, <2>2, <1>1
  <2>3. CASE i # 1
    <3>1. i \in 2..Len(q)
      BY <1>1, <2>3
    <3> QED
      BY <2>1, <3>1, <1>4
  <2> QED
    BY <2>2, <2>3
<1>7. CASE Head(q).kind = "clear"
  BY <1>3, <1>6, <1>7
<1>8. CASE Head(q).kind = "add"
  BY <1>3, <1>5, <1>6, <1>8
<1> QED
  BY <1>7, <1>8
----------------------------------------------------------------------------
(* A submission: r is new, it joins the queue of its device alone, and the *)
(* queue keeps its shape.                                                 *)

LEMMA NewResultIsNew ==
    ASSUME IInv, NEW d \in Devices, screen[d] = "quiz"
    PROVE  /\ NewResult(d) \in Result
           /\ NewResult(d) \notin submitted
           /\ NewResult(d).student = Owner[d]
           /\ NewResult(d).device = d
           /\ NewResult(d).number = tries[d] + 1
           /\ tries[d] + 1 \in 0..MaxTries
           /\ echoed[d]
<1>1. tries[d] < MaxTries /\ tries[d] \in 0..MaxTries /\ echoed[d]
  BY DEF IInv, TypeOK, Accounted
<1>2. /\ NewResult(d).student = Owner[d]
      /\ NewResult(d).device = d
      /\ NewResult(d).number = tries[d] + 1
  BY DEF NewResult
<1>3. tries[d] + 1 \in 1..MaxTries
  BY <1>1, ResultsAssumption
<1>4. NewResult(d) \in Result
  BY <1>3, ResultsAssumption DEF NewResult, Result
<1>5. NewResult(d) \notin submitted
  <2>1. ASSUME NewResult(d) \in submitted PROVE FALSE
    BY <2>1, <1>1, <1>2 DEF IInv, Accounted
  <2> QED
    BY <2>1
<1> QED
  BY <1>1, <1>2, <1>3, <1>4, <1>5

(* A result that is new is in no queue, and one that is queued by a device *)
(* is in no other queue.                                                   *)
LEMMA QueuedResults ==
    ASSUME IInv, NEW d \in Devices
    PROVE  \A x \in ToAdd(pending[d]) : x \in submitted /\ x.device = d
  BY DEF IInv, QueueShape, Shaped, ToAdd

LEMMA StoredAfterSubmit ==
    ASSUME IInv, NEW d \in Devices, NEW r \in Result, r \notin submitted,
           submitted' = submitted \cup {r},
           ToAdd(pending'[d]) = ToAdd(pending[d]) \cup {r},
           \A e \in Devices \ {d} : pending'[e] = pending[e]
    PROVE  Stored' = Stored
<1> DEFINE queued == UNION {ToAdd(pending[e]) : e \in Devices}
<1>1. \A x \in queued' : x \in queued \/ x = r
  <2> SUFFICES ASSUME NEW x, NEW e \in Devices, x \in ToAdd(pending'[e])
               PROVE  x \in queued \/ x = r
    OBVIOUS
  <2> QED
    BY e = d \/ e \in Devices \ {d}
<1>2. \A x \in queued : x \in queued'
  <2> SUFFICES ASSUME NEW x, NEW e \in Devices, x \in ToAdd(pending[e])
               PROVE  x \in queued'
    OBVIOUS
  <2>1. x \in ToAdd(pending'[e])
    BY e = d \/ e \in Devices \ {d}
  <2> QED
    BY <2>1
<1>3. r \in queued'
  OBVIOUS
<1> HIDE DEF queued
<1> QED
  BY <1>1, <1>2, <1>3 DEF Stored, queued

LEMMA ShapedMonotone ==
    ASSUME NEW S, NEW T, S \subseteq T, NEW q, NEW d, Shaped(q, S, d)
    PROVE  Shaped(q, T, d)
  BY DEF Shaped, IsResubmission

LEMMA ShapedAdd ==
    ASSUME NEW S, NEW d, NEW r \in Result, r.device = d
    PROVE  Shaped(<<Add(r)>>, S \cup {r}, d)
  BY DEF Shaped, Add

LEMMA ShapedClearAdd ==
    ASSUME NEW S, NEW d, NEW q \in Seq(Writes(Result)), Shaped(q, S, d),
           NEW r \in Result, r \notin S, r.device = d,
           \E s \in S : s.student = r.student
    PROVE  Shaped(q \o <<Clear(r), Add(r)>>, S \cup {r}, d)
<1> DEFINE p == q \o <<Clear(r), Add(r)>>
           T == S \cup {r}
<1>1. Len(q) \in Nat
  OBVIOUS
<1>2. /\ Len(p) = Len(q) + 2
      /\ \A i \in 1..Len(q) : p[i] = q[i]
      /\ p[Len(q) + 1] = Clear(r) /\ p[Len(q) + 2] = Add(r)
      /\ Add(r).kind = "add" /\ Add(r).result = r
      /\ Clear(r).kind = "clear" /\ Clear(r).result = r
  BY AppendClearAdd
<1>3. \A x : IsResubmission(x, S) => IsResubmission(x, T)
  BY DEF IsResubmission
<1>4. IsResubmission(r, T)
  BY DEF IsResubmission
<1> HIDE DEF p
<1>5. \A i \in 1..Len(p) : i \in 1..Len(q) \/ i = Len(q) + 1 \/ i = Len(q) + 2
  BY <1>1, <1>2
<1>6. \A i \in 1..Len(p) : p[i].result \in T /\ p[i].result.device = d
  BY <1>2, <1>5 DEF Shaped
<1>7. ASSUME NEW i \in 1..Len(p), p[i].kind = "clear"
      PROVE  /\ i + 1 \in 1..Len(p)
             /\ p[i + 1] = Add(p[i].result)
             /\ IsResubmission(p[i].result, T)
  <2>1. CASE i \in 1..Len(q)
    <3>1. /\ i + 1 \in 1..Len(q) /\ q[i + 1] = Add(q[i].result)
          /\ IsResubmission(q[i].result, S)
      BY <1>2, <1>7, <2>1 DEF Shaped
    <3>2. i + 1 \in 1..Len(p) /\ p[i] = q[i] /\ p[i + 1] = q[i + 1]
      BY <1>1, <1>2, <2>1, <3>1
    <3> QED
      BY <1>3, <3>1, <3>2
  <2>2. CASE i = Len(q) + 1
    BY <1>1, <1>2, <1>4, <2>2
  <2>3. CASE i = Len(q) + 2
    BY <1>2, <1>7, <2>3
  <2> QED
    BY <1>5, <2>1, <2>2, <2>3
<1>8. ASSUME NEW i \in 2..Len(p), p[i].kind = "add"
      PROVE  p[i - 1].kind = "clear"
  <2>1. CASE i \in 1..Len(q)
    <3>1. i \in 2..Len(q) /\ q[i].kind = "add" /\ i - 1 \in 1..Len(q)
      BY <1>1, <1>2, <1>8, <2>1
    <3>2. q[i - 1].kind = "clear"
      BY <3>1 DEF Shaped
    <3> QED
      BY <1>2, <3>1, <3>2
  <2>2. CASE i = Len(q) + 1
    BY <1>2, <1>8, <2>2
  <2>3. CASE i = Len(q) + 2
    BY <1>1, <1>2, <2>3
  <2> QED
    BY <1>1, <1>5, <2>1, <2>2, <2>3
<1>9. ASSUME NEW i \in 1..Len(p), NEW j \in 1..Len(p),
             i # j, p[i].kind = "add", p[j].kind = "add"
      PROVE  p[i].result # p[j].result
  <2>1. i # Len(q) + 1 /\ j # Len(q) + 1
    BY <1>2, <1>9
  <2>2. \A k \in 1..Len(q) : p[k].result # r
    BY <1>2 DEF Shaped
  <2>3. CASE i \in 1..Len(q) /\ j \in 1..Len(q)
    BY <1>2, <1>9, <2>3 DEF Shaped
  <2>4. CASE i \in 1..Len(q) /\ j = Len(q) + 2
    BY <1>2, <2>2, <2>4
  <2>5. CASE i = Len(q) + 2 /\ j \in 1..Len(q)
    BY <1>2, <2>2, <2>5
  <2> QED
    BY <1>5, <1>9, <2>1, <2>3, <2>4, <2>5
<1>10. Shaped(p, T, d)
  BY <1>6, <1>7, <1>8, <1>9 DEF Shaped
<1> QED
  BY <1>10 DEF p

LEMMA ShapedTail ==
    ASSUME NEW S, NEW d, NEW q \in Seq(Writes(Result)), Shaped(q, S, d),
           q # << >>
    PROVE  /\ Shaped(Tail(q), S, d)
           /\ Head(q).kind = "clear" => /\ Tail(q) # << >>
                                        /\ Tail(q)[1] = Add(Head(q).result)
           /\ Head(q).kind = "add" =>
                  /\ Tail(q) # << >> => Tail(q)[1].kind # "add"
                  /\ Head(q).result \notin ToAdd(Tail(q))
<1> DEFINE p == Tail(q)
<1>1. /\ Len(q) \in Nat /\ Len(q) >= 1 /\ Len(p) = Len(q) - 1
      /\ \A i \in 1..Len(p) : p[i] = q[i + 1]
      /\ Head(q) = q[1]
      /\ p \in Seq(Writes(Result))
  BY HeadTailProperties, EmptySeq
<1>2. p = << >> <=> Len(p) = 0
  BY <1>1, EmptySeq
<1> HIDE DEF p
<1>3. \A i \in 1..Len(p) : i + 1 \in 1..Len(q) /\ i + 1 \in 2..Len(q)
  BY <1>1
<1>4. \A i \in 1..Len(p) : p[i].result \in S /\ p[i].result.device = d
  BY <1>1, <1>3 DEF Shaped
<1>5. ASSUME NEW i \in 1..Len(p), p[i].kind = "clear"
      PROVE  /\ i + 1 \in 1..Len(p)
             /\ p[i + 1] = Add(p[i].result)
             /\ IsResubmission(p[i].result, S)
  <2>1. /\ (i + 1) + 1 \in 1..Len(q)
        /\ q[(i + 1) + 1] = Add(q[i + 1].result)
        /\ IsResubmission(q[i + 1].result, S)
    BY <1>1, <1>3, <1>5 DEF Shaped
  <2> QED
    BY <1>1, <2>1
<1>6. ASSUME NEW i \in 2..Len(p), p[i].kind = "add"
      PROVE  p[i - 1].kind = "clear"
  <2>1. q[(i + 1) - 1].kind = "clear"
    BY <1>1, <1>3, <1>6 DEF Shaped
  <2> QED
    BY <1>1, <2>1
<1>7. ASSUME NEW i \in 1..Len(p), NEW j \in 1..Len(p),
             i # j, p[i].kind = "add", p[j].kind = "add"
      PROVE  p[i].result # p[j].result
  <2>1. i + 1 \in 1..Len(q) /\ j + 1 \in 1..Len(q) /\ i + 1 # j + 1
    BY <1>3, <1>7
  <2>2. p[i] = q[i + 1] /\ p[j] = q[j + 1]
    BY <1>1
  <2>3. q[i + 1].result # q[j + 1].result
    BY <1>7, <2>1, <2>2 DEF Shaped
  <2> QED
    BY <2>2, <2>3
<1>8. Shaped(p, S, d)
  BY <1>4, <1>5, <1>6, <1>7 DEF Shaped
<1>9. ASSUME Head(q).kind = "clear" PROVE p # << >> /\ p[1] = Add(Head(q).result)
  BY <1>1, <1>2, <1>9 DEF Shaped
<1>10. ASSUME Head(q).kind = "add"
       PROVE  /\ p # << >> => p[1].kind # "add"
              /\ Head(q).result \notin ToAdd(p)
  <2>1. ASSUME p # << >> PROVE p[1].kind # "add"
    <3>1. 2 \in 2..Len(q) /\ p[1] = q[2]
      BY <1>1, <1>2, <2>1
    <3>2. q[2].kind = "add" => q[2 - 1].kind = "clear"
      BY <3>1 DEF Shaped
    <3> QED
      BY <1>1, <1>10, <3>1, <3>2
  <2>2. ASSUME NEW i \in 1..Len(p), p[i].kind = "add"
        PROVE  p[i].result # Head(q).result
    <3>1. i + 1 \in 1..Len(q) /\ 1 \in 1..Len(q) /\ i + 1 # 1
      BY <1>1
    <3> QED
      BY <1>1, <1>10, <2>2, <3>1 DEF Shaped
  <2> QED
    BY <2>1, <2>2 DEF ToAdd
<1> QED
  BY <1>8, <1>9, <1>10 DEF p
----------------------------------------------------------------------------
(* The step of a submission.                                               *)

LEMMA SubmitQueue ==
    ASSUME IInv, NEW d \in Devices, SubmitFirst(d) \/ SubmitAgain(d)
    PROVE  /\ pending' \in [Devices -> Seq(Writes(Result))]
           /\ \A e \in Devices \ {d} : pending'[e] = pending[e]
           /\ pending'[d] # << >>
           /\ RoomForNext(d)'
           /\ ToAdd(pending'[d]) = ToAdd(pending[d]) \cup {NewResult(d)}
           /\ QueueShape(d)'
           /\ submitted' = submitted \cup {NewResult(d)}
<1> DEFINE r == NewResult(d)
           q == pending[d]
<1>1. /\ r \in Result /\ r \notin submitted /\ r.student = Owner[d]
      /\ r.device = d /\ echoed[d] /\ screen[d] = "quiz"
  BY NewResultIsNew DEF SubmitFirst, SubmitAgain
<1>2. /\ q \in Seq(Writes(Result)) /\ Len(q) \in Nat
      /\ pending \in [Devices -> Seq(Writes(Result))]
  BY DEF IInv, TypeOK
<1>3. q = << >> <=> Len(q) = 0
  BY <1>2, EmptySeq
<1>4. Shaped(q, submitted, d)
  BY DEF IInv, QueueShape
<1>5. submitted' = submitted \cup {r} /\ server' = server
  BY DEF SubmitFirst, SubmitAgain, HandIn
<1>6. CASE SubmitFirst(d)
  <2>1. q = << >> /\ ~InServer(d)
    BY <1>1, <1>6 DEF IInv, LocalKnows, SubmitFirst
  <2>2. pending' = [pending EXCEPT ![d] = q \o <<Add(r)>>]
    BY <1>6 DEF SubmitFirst, HandIn
  <2>3. pending'[d] = q \o <<Add(r)>>
    BY <1>2, <2>2
  <2>4. q \o <<Add(r)>> = <<Add(r)>>
    BY <2>1
  <2>5. /\ q \o <<Add(r)>> \in Seq(Writes(Result))
        /\ Len(q \o <<Add(r)>>) = Len(q) + 1
        /\ ToAdd(q \o <<Add(r)>>) = ToAdd(q) \cup {r}
    <3> HIDE DEF q, r
    <3> QED
      BY <1>1, <1>2, AppendAdd, ToAddAppend
  <2>e. q \o <<Add(r)>> # << >>
    BY <2>4
  <2>6. Shaped(<<Add(r)>>, submitted \cup {r}, d)
    BY <1>1, ShapedAdd
  <2>7. QueueShape(d)'
    BY <1>5, <2>3, <2>4, <2>6 DEF QueueShape
  <2>8. RoomForNext(d)'
    BY <1>5, <2>1 DEF RoomForNext, InServer
  <2> QED
    BY <1>2, <1>5, <2>2, <2>3, <2>5, <2>e, <2>7, <2>8
<1>7. CASE SubmitAgain(d)
  <2> DEFINE p == q \o <<Clear(r), Add(r)>>
  <2>1. \E s \in submitted : s.student = r.student
    BY <1>1, <1>7 DEF IInv, Accounted, Own, SubmitAgain
  <2>2. pending' = [pending EXCEPT ![d] = p]
    BY <1>7 DEF SubmitAgain, HandIn
  <2>3. pending'[d] = p
    BY <1>2, <2>2
  <2>4. /\ p \in Seq(Writes(Result)) /\ Len(p) = Len(q) + 2
        /\ \A i \in 1..Len(q) : p[i] = q[i]
        /\ p[Len(q) + 1].kind = "clear"
        /\ ToAdd(p) = ToAdd(q) \cup {r}
    <3> HIDE DEF q, r
    <3>1. /\ p \in Seq(Writes(Result)) /\ Len(p) = Len(q) + 2
          /\ \A i \in 1..Len(q) : p[i] = q[i]
          /\ p[Len(q) + 1] = Clear(r) /\ Clear(r).kind = "clear"
      BY <1>1, <1>2, AppendClearAdd
    <3>2. ToAdd(p) = ToAdd(q) \cup {r}
      BY <1>1, <1>2, ToAddAppend
    <3> QED
      BY <3>1, <3>2
  <2>5. Shaped(p, submitted \cup {r}, d)
    BY <1>1, <1>2, <1>4, <2>1, ShapedClearAdd
  <2>6. QueueShape(d)'
    BY <1>5, <2>3, <2>5 DEF QueueShape
  <2> HIDE DEF p
  <2>7. p # << >>
    BY <1>2, <2>4, EmptySeq
  <2>8. RoomForNext(d)'
    <3>1. CASE q = << >>
      BY <1>3, <2>3, <2>4, <3>1 DEF RoomForNext
    <3>2. CASE q # << >>
      <4>1. p[1] = q[1]
        BY <1>2, <1>3, <2>4, <3>2
      <4> QED
        BY <1>5, <2>3, <3>2, <4>1 DEF IInv, RoomForNext, InServer
    <3> QED
      BY <3>1, <3>2
  <2> QED
    BY <1>2, <1>5, <2>2, <2>3, <2>4, <2>6, <2>7, <2>8
<1> QED
  BY <1>6, <1>7

LEMMA SubmitStep ==
    ASSUME IInv, NEW d \in Devices, SubmitFirst(d) \/ SubmitAgain(d)
    PROVE  IInv' /\ Stored' = Stored
<1> DEFINE r == NewResult(d)
<1>1. /\ r \in Result /\ r \notin submitted /\ r.student = Owner[d]
      /\ r.device = d /\ r.number = tries[d] + 1
      /\ tries[d] + 1 \in 0..MaxTries /\ screen[d] = "quiz"
  BY NewResultIsNew DEF SubmitFirst, SubmitAgain
<1>2. /\ pending' \in [Devices -> Seq(Writes(Result))]
      /\ \A e \in Devices \ {d} : pending'[e] = pending[e]
      /\ pending'[d] # << >>
      /\ RoomForNext(d)'
      /\ ToAdd(pending'[d]) = ToAdd(pending[d]) \cup {r}
      /\ QueueShape(d)'
      /\ submitted' = submitted \cup {r}
  BY SubmitQueue
<1>3. /\ UNCHANGED <<server, known>>
      /\ tries' = [tries EXCEPT ![d] = @ + 1]
      /\ echoed' = [echoed EXCEPT ![d] = FALSE]
      /\ screen' = [screen EXCEPT ![d] = "results"]
      /\ \A e \in Devices : local'[e] \subseteq local[e]
      /\ local' \in [Devices -> SUBSET Result]
      /\ \A e \in Devices \ {d} : local'[e] = local[e]
  <2>1. /\ UNCHANGED <<server, known>>
        /\ tries' = [tries EXCEPT ![d] = @ + 1]
        /\ echoed' = [echoed EXCEPT ![d] = FALSE]
        /\ screen' = [screen EXCEPT ![d] = "results"]
    BY DEF SubmitFirst, SubmitAgain, HandIn, Goto
  <2>2. local' = local \/ \E x : local' = [local EXCEPT ![d] = @ \ {x}]
    BY DEF SubmitFirst, SubmitAgain
  <2> QED
    BY <2>1, <2>2 DEF IInv, TypeOK
<1> HIDE DEF r
<1>4. Stored' = Stored
  BY <1>1, <1>2, StoredAfterSubmit
<1>5. TypeOK'
  BY <1>1, <1>2, <1>3 DEF IInv, TypeOK, Screens
<1>6. Accounted'
  <2>1. \A s \in submitted' : s.number <= tries'[s.device] /\ s.student = Owner[s.device]
    <3>1. \A s \in submitted : s.device \in Devices /\ s.number \in Nat
      BY ResultsAssumption DEF IInv, TypeOK, Result
    <3>2. \A e \in Devices : tries[e] \in Nat /\ tries'[e] \in Nat /\ tries[e] <= tries'[e]
      BY <1>1, <1>3 DEF IInv, TypeOK
    <3>3. \A s \in submitted : s.number <= tries'[s.device]
      BY <3>1, <3>2 DEF IInv, Accounted
    <3>4. r.number <= tries'[r.device]
      BY <1>1, <1>3 DEF IInv, TypeOK
    <3> QED
      BY <1>1, <1>2, <3>3, <3>4 DEF IInv, Accounted
  <2> QED
    BY <1>2, <1>3, <2>1 DEF IInv, TypeOK, Accounted
<1>7. ASSUME NEW e \in Devices
      PROVE  /\ QueueShape(e)' /\ RoomForNext(e)' /\ CacheKnows(e)'
             /\ LocalKnows(e)' /\ ErasedByOthers(e)'
             /\ OthersRetook(e) => OthersRetook(e)'
  <2>0. OthersRetook(e) => OthersRetook(e)'
    BY <1>2 DEF OthersRetook
  <2>1. CASE e = d
    BY <1>2, <1>3, <2>0, <2>1 DEF IInv, TypeOK, CacheKnows, LocalKnows,
       ErasedByOthers
  <2>2. CASE e # d
    <3>1. /\ pending'[e] = pending[e] /\ local'[e] = local[e]
          /\ tries'[e] = tries[e] /\ screen'[e] = screen[e]
          /\ echoed'[e] = echoed[e] /\ known'[e] = known[e]
          /\ InServer(e)' = InServer(e)
      BY <1>2, <1>3, <2>2 DEF IInv, TypeOK, InServer
    <3>2. QueueShape(e)'
      <4>1. Shaped(pending[e], submitted, e) /\ submitted \subseteq submitted'
        BY <1>2 DEF IInv, QueueShape
      <4> QED
        BY <3>1, <4>1, ShapedMonotone DEF QueueShape
    <3> QED
      BY <2>0, <3>1, <3>2 DEF IInv, RoomForNext, CacheKnows, LocalKnows,
         ErasedByOthers, Own
  <2> QED
    BY <2>1, <2>2
<1>8. FirstSubmissionsKept' /\ OneResultPerDevice'
  BY <1>2, <1>3, <1>4 DEF IInv, FirstSubmissionsKept, Retaken, OneResultPerDevice
<1>9. OfferedAgainOnlyAfterErasure'
  <2>1. \A e \in Devices : screen'[e] = "startable" =>
            screen[e] = "startable" /\ tries'[e] = tries[e]
    BY <1>3 DEF IInv, TypeOK
  <2> QED
    BY <1>2, <2>1 DEF IInv, OfferedAgainOnlyAfterErasure
<1> QED
  BY <1>4, <1>5, <1>6, <1>7, <1>8, <1>9 DEF IInv
----------------------------------------------------------------------------
(* The step of a commit.                                                   *)

LEMMA CommitQueue ==
    ASSUME IInv, NEW d \in Devices, Commit(d)
    PROVE  /\ pending[d] # << >> /\ pending'[d] = Tail(pending[d])
           /\ pending' \in [Devices -> Seq(Writes(Result))]
           /\ \A e \in Devices \ {d} : pending'[e] = pending[e]
           /\ QueueShape(d)'
           /\ Head(pending[d]) \in Writes(Result)
           /\ Head(pending[d]) = pending[d][1]
           /\ Head(pending[d]).result \in submitted
           /\ Head(pending[d]).result.device = d
           /\ Head(pending[d]).kind = "clear" =>
                  /\ IsResubmission(Head(pending[d]).result, submitted)
                  /\ pending'[d] # << >>
                  /\ Head(pending[d]).result \in ToAdd(pending[d])
           /\ Head(pending[d]).kind = "add" =>
                  /\ pending'[d] # << >> => pending'[d][1].kind # "add"
<1> DEFINE q == pending[d]
<1>1. /\ q # << >> /\ pending' = [pending EXCEPT ![d] = Tail(@)]
      /\ submitted' = submitted
  BY DEF Commit
<1>2. pending \in [Devices -> Seq(Writes(Result))] /\ q \in Seq(Writes(Result))
  BY DEF IInv, TypeOK
<1>3. pending'[d] = Tail(q)
  BY <1>1, <1>2
<1>4. Tail(q) \in Seq(Writes(Result)) /\ Head(q) \in Writes(Result) /\ Head(q) = q[1]
  BY <1>1, <1>2, HeadTailProperties
<1>5. Shaped(q, submitted, d)
  BY DEF IInv, QueueShape
<1>6. /\ Shaped(Tail(q), submitted, d)
      /\ Head(q).kind = "clear" => /\ Tail(q) # << >>
                                   /\ Tail(q)[1] = Add(Head(q).result)
      /\ Head(q).kind = "add" => (Tail(q) # << >> => Tail(q)[1].kind # "add")
  BY <1>1, <1>2, <1>5, ShapedTail
<1>7. Len(q) \in Nat /\ Len(q) >= 1
  BY <1>1, <1>2, EmptySeq
<1>8. /\ Head(q).result \in submitted /\ Head(q).result.device = d
      /\ Head(q).kind = "clear" => IsResubmission(Head(q).result, submitted)
  BY <1>4, <1>5, <1>7 DEF Shaped
<1>9. ASSUME Head(q).kind = "clear" PROVE Head(q).result \in ToAdd(q)
  <2>1. 2 \in 1..Len(q) /\ q[2] = Add(Head(q).result)
    BY <1>4, <1>5, <1>7, <1>9 DEF Shaped
  <2>2. q[2].kind = "add" /\ q[2].result = Head(q).result
    BY <2>1 DEF Add
  <2> HIDE DEF q
  <2> QED
    BY <2>1, <2>2 DEF ToAdd
<1>10. QueueShape(d)'
  BY <1>1, <1>3, <1>6 DEF QueueShape
<1> QED
  BY <1>1, <1>2, <1>3, <1>4, <1>6, <1>8, <1>9, <1>10

(* A committed clear stores nothing; a committed addition stores its       *)
(* result, which was not stored before.                                    *)
LEMMA StoredAfterCommit ==
    ASSUME IInv, NEW d \in Devices, Commit(d)
    PROVE  /\ Head(pending[d]).kind = "clear" => Stored' = Stored
           /\ Head(pending[d]).kind = "clear" => Head(pending[d]).result \notin Stored
           /\ Head(pending[d]).kind = "add" =>
                  /\ Stored' = Stored \cup {Head(pending[d]).result}
                  /\ Head(pending[d]).result \notin Stored
<1> DEFINE q == pending[d]
           w == Head(pending[d])
           queued == UNION {ToAdd(pending[e]) : e \in Devices}
<1>1. /\ q # << >> /\ pending'[d] = Tail(q)
      /\ \A e \in Devices \ {d} : pending'[e] = pending[e]
      /\ w.result \in submitted /\ w.result.device = d
      /\ w.kind = "clear" => w.result \in ToAdd(q)
  BY CommitQueue
<1>2. submitted' = submitted
  BY DEF Commit
<1>3. q \in Seq(Writes(Result)) /\ Shaped(q, submitted, d)
  BY DEF IInv, TypeOK, QueueShape
<1>4. /\ w.kind = "clear" => ToAdd(Tail(q)) = ToAdd(q)
      /\ w.kind = "add" => /\ ToAdd(q) = ToAdd(Tail(q)) \cup {w.result}
                           /\ w.result \notin ToAdd(Tail(q))
  BY <1>1, <1>3, ToAddTail, ShapedTail
<1>5. \A e \in Devices : ToAdd(pending'[e]) =
          IF e = d THEN ToAdd(Tail(q)) ELSE ToAdd(pending[e])
  BY <1>1
<1>6. \A e \in Devices \ {d} : w.result \notin ToAdd(pending[e])
  BY <1>1, QueuedResults
<1>7. ASSUME w.kind = "clear" PROVE Stored' = Stored /\ w.result \notin Stored
  <2>1. \A e \in Devices : ToAdd(pending'[e]) = ToAdd(pending[e])
    BY <1>4, <1>5, <1>7
  <2>2. queued' = queued
    BY <2>1
  <2> QED
    BY <1>1, <1>2, <1>7, <2>2 DEF Stored
<1>8. ASSUME w.kind = "add"
      PROVE  Stored' = Stored \cup {w.result} /\ w.result \notin Stored
  <2>1. w.result \in queued
    BY <1>4, <1>8
  <2>2. w.result \notin queued'
    BY <1>4, <1>5, <1>6, <1>8
  <2>3. \A x \in queued' : x \in queued
    <3> SUFFICES ASSUME NEW x, NEW e \in Devices, x \in ToAdd(pending'[e])
                 PROVE  x \in queued
      OBVIOUS
    <3>1. x \in ToAdd(pending[e])
      BY <1>4, <1>5, <1>8
    <3> QED
      BY <3>1
  <2>4. \A x \in queued : x \in queued' \/ x = w.result
    <3> SUFFICES ASSUME NEW x, NEW e \in Devices, x \in ToAdd(pending[e])
                 PROVE  x \in queued' \/ x = w.result
      OBVIOUS
    <3>1. x \in ToAdd(pending'[e]) \/ x = w.result
      BY <1>4, <1>5, <1>8
    <3> QED
      BY <3>1
  <2> HIDE DEF queued, w, q
  <2> QED
    BY <1>1, <1>2, <2>1, <2>2, <2>3, <2>4 DEF Stored, queued
<1> QED
  BY <1>7, <1>8

LEMMA CommitStep ==
    ASSUME IInv, NEW d \in Devices, Commit(d)
    PROVE  IInv'
<1> DEFINE w == Head(pending[d])
<1>1. /\ pending[d] # << >>
      /\ pending' \in [Devices -> Seq(Writes(Result))]
      /\ \A e \in Devices \ {d} : pending'[e] = pending[e]
      /\ QueueShape(d)'
      /\ w \in Writes(Result) /\ w = pending[d][1]
      /\ w.result \in submitted /\ w.result.device = d
      /\ w.kind = "clear" => /\ IsResubmission(w.result, submitted)
                             /\ pending'[d] # << >>
      /\ w.kind = "add" => (pending'[d] # << >> => pending'[d][1].kind # "add")
  BY CommitQueue
<1>2. /\ server' = Applied(server, w)
      /\ known' = [known EXCEPT ![d] = Applied(@, w)]
      /\ UNCHANGED <<screen, local, echoed, tries, submitted>>
  BY DEF Commit, device
<1>3. /\ w.kind = "clear" => Stored' = Stored
      /\ w.kind = "add" => Stored' = Stored \cup {w.result}
  BY StoredAfterCommit
<1>4. w.kind \in {"clear", "add"} /\ w.result \in Result
  BY <1>1 DEF Writes
<1>o. w.result.student = Owner[d]
  BY <1>1 DEF IInv, Accounted
<1> HIDE DEF w
<1>5. /\ w.kind = "clear" => server' = {} /\ known'[d] = {}
      /\ w.kind = "add" => /\ server' = server \cup {w.result}
                           /\ known'[d] = known[d] \cup {w.result}
      /\ \A e \in Devices \ {d} : known'[e] = known[e]
  BY <1>2, <1>4 DEF IInv, TypeOK, Applied
<1>6. \A e \in Devices \ {d} : InServer(e)' => InServer(e)
  BY <1>1, <1>4, <1>5 DEF InServer
<1>7. TypeOK'
  <2>1. server' \subseteq Result /\ known' \in [Devices -> SUBSET Result]
    BY <1>2, <1>4, <1>5 DEF IInv, TypeOK
  <2> QED
    BY <1>1, <1>2, <2>1 DEF IInv, TypeOK
<1>8. Accounted'
  <2>1. server' \subseteq submitted
    BY <1>1, <1>4, <1>5 DEF IInv, Accounted
  <2>2. known'[d] \subseteq submitted
    BY <1>1, <1>4, <1>5 DEF IInv, Accounted
  <2>3. \A e \in Devices : known'[e] \subseteq submitted
    BY <1>5, <2>2 DEF IInv, Accounted
  <2> QED
    BY <1>2, <2>1, <2>3 DEF IInv, Accounted
<1>9. OneResultPerDevice'
  <2>1. CASE w.kind = "clear"
    BY <1>5, <2>1 DEF OneResultPerDevice
  <2>2. CASE w.kind = "add"
    <3>1. ~InServer(d)
      BY <1>1, <2>2 DEF IInv, RoomForNext
    <3>2. \A s \in server : s.device # w.result.device
      BY <1>1, <3>1 DEF InServer
    <3> QED
      BY <1>5, <2>2, <3>2 DEF IInv, OneResultPerDevice
  <2> QED
    BY <1>4, <2>1, <2>2
<1>10. ASSUME NEW e \in Devices
       PROVE  /\ QueueShape(e)' /\ RoomForNext(e)' /\ CacheKnows(e)'
              /\ LocalKnows(e)' /\ ErasedByOthers(e)'
  <2>1. CASE e = d
    <3>1. RoomForNext(d)'
      BY <1>1, <1>4, <1>5 DEF RoomForNext, InServer
    <3>2. CacheKnows(d)'
      BY <1>1, <1>4, <1>5, <1>o DEF CacheKnows, InServer, Own
    <3>3. LocalKnows(d)'
      BY <1>1, <1>2 DEF IInv, LocalKnows, Own
    <3>4. ErasedByOthers(d)'
      BY <1>1, <1>4, <1>5 DEF ErasedByOthers, InServer
    <3> QED
      BY <1>1, <2>1, <3>1, <3>2, <3>3, <3>4
  <2>2. CASE e # d
    <3>1. /\ pending'[e] = pending[e] /\ known'[e] = known[e]
          /\ InServer(e)' => InServer(e)
      BY <1>1, <1>5, <1>6, <2>2
    <3>2. QueueShape(e)' /\ RoomForNext(e)' /\ CacheKnows(e)' /\ LocalKnows(e)'
      BY <1>2, <3>1 DEF IInv, QueueShape, RoomForNext, CacheKnows, LocalKnows, Own
    <3>3. OthersRetook(e) => OthersRetook(e)'
      BY <1>2 DEF OthersRetook
    <3>4. w.kind = "clear" => OthersRetook(e)'
      BY <1>1, <1>2, <2>2 DEF OthersRetook, IsResubmission
    <3>5. w.kind = "add" => (InServer(e) => InServer(e)')
      BY <1>5 DEF InServer
    <3>6. ErasedByOthers(e)'
      BY <1>2, <1>4, <3>1, <3>3, <3>4, <3>5 DEF IInv, ErasedByOthers
    <3> QED
      BY <3>2, <3>6
  <2> QED
    BY <2>1, <2>2
<1>11. FirstSubmissionsKept'
  <2>1. Retaken' <=> Retaken
    BY <1>2 DEF Retaken
  <2>2. CASE w.kind = "clear"
    <3>1. Retaken
      BY <1>1, <2>2 DEF Retaken, IsResubmission
    <3> QED
      BY <2>1, <3>1 DEF FirstSubmissionsKept
  <2>3. CASE w.kind = "add"
    BY <1>3, <1>5, <2>1, <2>3 DEF IInv, FirstSubmissionsKept
  <2> QED
    BY <1>4, <2>2, <2>3
<1>12. OfferedAgainOnlyAfterErasure'
  BY <1>2 DEF IInv, OfferedAgainOnlyAfterErasure
<1> QED
  BY <1>7, <1>8, <1>9, <1>10, <1>11, <1>12 DEF IInv
----------------------------------------------------------------------------
LEMMA InitInvariant == Init => IInv
<1> SUFFICES ASSUME Init PROVE IInv
  OBVIOUS
<1>1. TypeOK
  BY ResultsAssumption DEF Init, TypeOK, Screens
<1>2. \A d \in Devices : Len(pending[d]) = 0
  BY DEF Init
<1>3. Accounted
  BY DEF Init, Accounted
<1>4. \A d \in Devices : QueueShape(d)
  BY <1>2 DEF Init, QueueShape, Shaped
<1>5. FirstSubmissionsKept
  BY DEF Init, FirstSubmissionsKept, Stored
<1> QED
  BY <1>1, <1>3, <1>4, <1>5 DEF Init, IInv, RoomForNext, CacheKnows, InServer,
     LocalKnows, ErasedByOthers, OneResultPerDevice,
     OfferedAgainOnlyAfterErasure

(* The steps that only move a device between screens.                      *)
LEMMA MoveStep ==
    ASSUME IInv, NEW d \in Devices,
           \/ StartQuiz(d) \/ BackToList(d) \/ ReturnToOverview(d) \/ Relaunch(d)
    PROVE  IInv'
<1>1. UNCHANGED <<server, known, pending, tries, submitted>>
  BY DEF StartQuiz, BackToList, ReturnToOverview, Relaunch, store
<1>2. /\ \A e \in Devices : QueueShape(e)' /\ RoomForNext(e)' /\ ErasedByOthers(e)'
      /\ FirstSubmissionsKept' /\ OneResultPerDevice'
  BY <1>1, QuietStep
<1>3. \A e \in Devices : CacheKnows(e)'
  BY <1>1 DEF IInv, CacheKnows, InServer
<1>4. /\ TypeOK' /\ \A e \in Devices : local'[e] \subseteq local[e]
      /\ \A e \in Devices : ~echoed'[e] => ~echoed[e] /\ screen'[e] = screen[e]
      /\ \A e \in Devices : screen'[e] = "quiz" =>
             screen[e] = "quiz" \/ tries[e] < MaxTries
  BY <1>1 DEF IInv, TypeOK, Screens, Accounted, StartQuiz, BackToList,
     ReturnToOverview, Relaunch, Goto
<1>5. Accounted'
  BY <1>1, <1>4 DEF IInv, Accounted
<1>6. \A e \in Devices : screen'[e] # "list" =>
          local'[e] = local[e] /\ echoed'[e] = echoed[e] /\ screen[e] # "list"
  BY DEF IInv, TypeOK, StartQuiz, BackToList, ReturnToOverview, Relaunch, Goto
<1>7. \A e \in Devices : LocalKnows(e)'
  BY <1>1, <1>6 DEF IInv, LocalKnows, InServer, Own
<1>8. \A e \in Devices : screen'[e] = "startable" => screen[e] = "startable"
  BY DEF IInv, TypeOK, StartQuiz, BackToList, ReturnToOverview, Relaunch, Goto
<1>9. OfferedAgainOnlyAfterErasure'
  BY <1>1, <1>8 DEF IInv, OfferedAgainOnlyAfterErasure
<1> QED
  BY <1>2, <1>3, <1>4, <1>5, <1>7, <1>9 DEF IInv

(* The steps that read: they also move the device, or leave its screen.    *)
LEMMA ReadingStep ==
    ASSUME IInv, NEW d \in Devices,
           \/ OpenAssignment(d) \/ PopulateOverview(d) \/ HearOwn(d) \/ HearServer(d)
    PROVE  IInv'
<1>1. UNCHANGED <<server, pending, tries, submitted>>
  BY DEF OpenAssignment, PopulateOverview, HearOwn, HearServer, Hear
<1>2. PICK base \in Readable(d) :
          /\ known' = [known EXCEPT ![d] = base]
          /\ \/ UNCHANGED <<local, echoed>> /\ screen[d] # "list"
             \/ /\ local' = [local EXCEPT ![d] = View(d, base)]
                /\ echoed' = [echoed EXCEPT ![d] = TRUE]
          /\ \/ screen' = [screen EXCEPT ![d] = "opening"]
             \/ UNCHANGED screen
             \/ screen' = [screen EXCEPT ![d] = "completed"]
             \/ /\ screen' = [screen EXCEPT ![d] = "startable"]
                /\ Own(d, View(d, base)) = {}
          /\ UNCHANGED screen \/ screen[d] \in {"list", "opening"}
  <2>1. CASE OpenAssignment(d)
    BY <2>1 DEF OpenAssignment, Goto
  <2>2. CASE PopulateOverview(d)
    BY <2>2 DEF PopulateOverview, Goto
  <2>3. CASE HearOwn(d) \/ HearServer(d)
    BY <2>3 DEF HearOwn, HearServer, Hear, Readable
  <2> QED
    BY <2>1, <2>2, <2>3
<1>3. \A e \in Devices \ {d} : screen'[e] = screen[e]
  BY <1>2 DEF IInv, TypeOK
<1>4. /\ known' \in [Devices -> SUBSET Result]
      /\ local' \in [Devices -> SUBSET Result]
      /\ echoed' \in [Devices -> BOOLEAN]
      /\ \A e \in Devices : known'[e] \subseteq submitted
      /\ \A e \in Devices : local'[e] \subseteq submitted
      /\ \A e \in Devices : CacheKnows(e)'
      /\ \A e \in Devices : LocalKnows(e)'
  BY <1>1, <1>2, <1>3, ReadStep
<1>5. /\ \A e \in Devices : QueueShape(e)' /\ RoomForNext(e)' /\ ErasedByOthers(e)'
      /\ FirstSubmissionsKept' /\ OneResultPerDevice'
  BY <1>1, QuietStep
<1>6. TypeOK'
  BY <1>1, <1>2, <1>4 DEF IInv, TypeOK, Screens
<1>7. Accounted'
  <2>1. \A e \in Devices : screen'[e] = "quiz" => screen[e] = "quiz"
    BY <1>2 DEF IInv, TypeOK
  <2>2. \A e \in Devices : ~echoed'[e] => ~echoed[e]
    BY <1>2 DEF IInv, TypeOK
  <2>3. \A e \in Devices : ~echoed'[e] => screen'[e] = "results"
    BY <1>2, <1>3, <2>2 DEF IInv, TypeOK, Accounted
  <2> QED
    BY <1>1, <1>4, <2>1, <2>3 DEF IInv, Accounted
<1>8. OfferedAgainOnlyAfterErasure'
  <2> SUFFICES ASSUME NEW e \in Devices, screen'[e] = "startable", tries[e] > 0
               PROVE  OthersRetook(e)
    BY <1>1 DEF OfferedAgainOnlyAfterErasure, OthersRetook
  <2>1. CASE screen[e] = "startable"
    BY <2>1 DEF IInv, OfferedAgainOnlyAfterErasure, OthersRetook
  <2>2. CASE screen[e] # "startable"
    <3>1. e = d /\ Own(d, View(d, base)) = {}
      BY <1>2, <1>3, <2>2 DEF IInv, TypeOK
    <3>2. pending[d] = << >> /\ ~InServer(d)
      BY <3>1, ReadHasOwn DEF IInv
    <3> QED
      BY <3>1, <3>2 DEF IInv, ErasedByOthers
  <2> QED
    BY <2>1, <2>2
<1> QED
  BY <1>4, <1>5, <1>6, <1>7, <1>8 DEF IInv

LEMMA NextInvariant == IInv /\ [Next]_vars => IInv'
<1> SUFFICES ASSUME IInv, [Next]_vars PROVE IInv'
  OBVIOUS
<1>1. ASSUME NEW d \in Devices, Step(d) PROVE IInv'
  <2>1. CASE SubmitFirst(d) \/ SubmitAgain(d)
    BY <2>1, SubmitStep
  <2>2. CASE Commit(d)
    BY <2>2, CommitStep
  <2>3. CASE \/ StartQuiz(d) \/ BackToList(d)
             \/ ReturnToOverview(d) \/ Relaunch(d)
    BY <2>3, MoveStep
  <2>4. CASE \/ OpenAssignment(d) \/ PopulateOverview(d)
             \/ HearOwn(d) \/ HearServer(d)
    BY <2>4, ReadingStep
  <2> QED
    BY <1>1, <2>1, <2>2, <2>3, <2>4 DEF Step
<1>2. CASE UNCHANGED vars
  <2>1. UNCHANGED <<server, known, pending, screen, local, echoed, tries, submitted>>
    BY <1>2 DEF vars, store, device
  <2>2. /\ \A e \in Devices : QueueShape(e)' /\ RoomForNext(e)' /\ ErasedByOthers(e)'
        /\ FirstSubmissionsKept' /\ OneResultPerDevice'
    BY <2>1, QuietStep
  <2>3. TypeOK' /\ Accounted'
    BY <2>1 DEF IInv, TypeOK, Accounted
  <2>4. \A e \in Devices : CacheKnows(e)' /\ LocalKnows(e)'
    BY <2>1 DEF IInv, CacheKnows, LocalKnows, InServer, Own
  <2>5. OfferedAgainOnlyAfterErasure'
    BY <2>1 DEF IInv, OfferedAgainOnlyAfterErasure
  <2> QED
    BY <2>2, <2>3, <2>4, <2>5 DEF IInv
<1> QED
  BY <1>1, <1>2 DEF Next

(* The devices, their queues and the field keep the whole invariant.       *)
THEOREM Invariance == Safety => []IInv
  BY InitInvariant, NextInvariant, PTL DEF Safety

(* Every variable keeps its type.                                          *)
THEOREM TypeCorrect == Safety => []TypeOK
<1>1. IInv => TypeOK
  BY DEF IInv
<1> QED
  BY <1>1, Invariance, PTL

(* Until some student submits a second time, no order of commits, listeners*)
(* and restarts loses a submission of anyone (Quiz.insertResult).          *)
THEOREM FirstSubmissionsAreKept == Safety => []FirstSubmissionsKept
<1>1. IInv => FirstSubmissionsKept
  BY DEF IInv
<1> QED
  BY <1>1, Invariance, PTL

(* One device never leaves two results of its student in the field.        *)
THEOREM OneDeviceOneResult == Safety => []OneResultPerDevice
<1>1. IInv => OneResultPerDevice
  BY DEF IInv
<1> QED
  BY <1>1, Invariance, PTL

(* A student is offered the start button again only after a resubmission   *)
(* on another device has erased the result.                                *)
THEOREM OfferedAgainCauses == Safety => []OfferedAgainOnlyAfterErasure
<1>1. IInv => OfferedAgainOnlyAfterErasure
  BY DEF IInv
<1> QED
  BY <1>1, Invariance, PTL
----------------------------------------------------------------------------
(* The refinement: a submission is a HandIn of the book, a committed       *)
(* addition a Store, a committed clear an Erase; the book sees nothing of  *)
(* the other steps.                                                        *)

LEMMA BookInit == Init => Book!Init
  BY DEF Init, Book!Init, Stored

LEMMA SubmitIsHandIn ==
    ASSUME IInv, NEW d \in Devices, SubmitFirst(d) \/ SubmitAgain(d)
    PROVE  Book!Next
<1>1. NewResult(d) \in Result /\ NewResult(d) \notin submitted
  BY NewResultIsNew DEF SubmitFirst, SubmitAgain
<1>2. submitted' = submitted \cup {NewResult(d)} /\ server' = server
  BY DEF SubmitFirst, SubmitAgain, HandIn
<1>3. Stored' = Stored
  BY SubmitStep
<1>4. Book!HandIn(NewResult(d))
  BY <1>1, <1>2, <1>3 DEF Book!HandIn
<1> QED
  BY <1>1, <1>4 DEF Book!Next

LEMMA CommitIsStoreOrErase ==
    ASSUME IInv, NEW d \in Devices, Commit(d)
    PROVE  Book!Next
<1> DEFINE w == Head(pending[d])
<1>1. /\ w \in Writes(Result) /\ w.result \in submitted
      /\ w.kind = "clear" => IsResubmission(w.result, submitted)
  BY CommitQueue
<1>2. /\ w.kind = "clear" => Stored' = Stored /\ w.result \notin Stored
      /\ w.kind = "add" => /\ Stored' = Stored \cup {w.result}
                           /\ w.result \notin Stored
  BY StoredAfterCommit
<1>3. submitted' = submitted /\ server' = Applied(server, w)
  BY DEF Commit
<1>4. w.kind \in {"clear", "add"} /\ w.result \in Result
  BY <1>1 DEF Writes
<1> HIDE DEF w
<1>5. CASE w.kind = "clear"
  <2>1. server' = {}
    BY <1>3, <1>5 DEF Applied
  <2>2. Book!IsResubmission(w.result)
    BY <1>1, <1>5 DEF IsResubmission, Book!IsResubmission
  <2>3. Book!Erase(w.result)
    BY <1>1, <1>2, <1>3, <1>5, <2>1, <2>2 DEF Book!Erase
  <2> QED
    BY <1>4, <2>3 DEF Book!Next
<1>6. CASE w.kind = "add"
  <2>1. server' = server \cup {w.result}
    BY <1>3, <1>6 DEF Applied
  <2>2. Book!Store(w.result)
    BY <1>1, <1>2, <1>3, <1>6, <2>1 DEF Book!Store
  <2> QED
    BY <1>4, <2>2 DEF Book!Next
<1> QED
  BY <1>4, <1>5, <1>6

LEMMA BookStep == IInv /\ [Next]_vars => [Book!Next]_(Book!vars)
<1> SUFFICES ASSUME IInv, [Next]_vars PROVE Book!Next \/ UNCHANGED Book!vars
  OBVIOUS
<1>1. ASSUME UNCHANGED <<server, pending, submitted>> PROVE UNCHANGED Book!vars
  BY <1>1 DEF Book!vars, Stored
<1>2. ASSUME NEW d \in Devices, Step(d) PROVE Book!Next \/ UNCHANGED Book!vars
  <2>1. CASE SubmitFirst(d) \/ SubmitAgain(d)
    BY <2>1, SubmitIsHandIn
  <2>2. CASE Commit(d)
    BY <2>2, CommitIsStoreOrErase
  <2>3. CASE \/ OpenAssignment(d) \/ PopulateOverview(d) \/ StartQuiz(d)
             \/ BackToList(d) \/ ReturnToOverview(d) \/ Relaunch(d)
             \/ HearOwn(d) \/ HearServer(d)
    BY <1>1, <2>3 DEF OpenAssignment, PopulateOverview, StartQuiz, BackToList,
       ReturnToOverview, Relaunch, HearOwn, HearServer, Hear, store
  <2> QED
    BY <1>2, <2>1, <2>2, <2>3 DEF Step
<1>3. CASE UNCHANGED vars
  BY <1>1, <1>3 DEF vars, store
<1> QED
  BY <1>2, <1>3 DEF Next

(* Whatever the devices, queues and restarts do, the field is a results    *)
(* book: every submission is stored at most once, none is invented, and    *)
(* only a resubmission erases (Quiz.insertResult with the SDK's queue).    *)
THEOREM Implementation == Safety => ImplementsBookSafely
  BY BookInit, BookStep, Invariance, PTL
  DEF Safety, ImplementsBookSafely, Book!Safety
============================================================================
