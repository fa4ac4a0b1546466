--------------------------- MODULE ParentLinkProofs ---------------------------
(***************************************************************************)
(* Proofs about ParentLink, for any number of parents, students and codes, *)
(* and any number of confirmations.                                        *)
(*                                                                         *)
(* The argument: a SetParentID in a queue has the addition to the parent's *)
(* list in front of it, or that addition has been committed; only the code *)
(* of a redeemed document can be written to when its document is gone; and *)
(* a code on the screen is on the list, is being fetched or was missed.    *)
(***************************************************************************)
EXTENDS ParentLink, SequenceTheorems, TLAPS

Has(q, w) == \E i \in DOMAIN q : q[i] = w

\* In q, the code of a SetParentID is in S or is added before.
Ordered(q, S) ==
    \A i \in DOMAIN q : q[i].kind = "parent" =>
        \/ q[i].code \in S
        \/ \E j \in DOMAIN q : j < i /\ q[j] = List(q[i].code)

DocInv ==
    /\ \A c \in Codes : doc[c] = "undecodable" => c \in Redeemed
    /\ \A c \in Codes : doc[c] = "nameless" => c \in TempCodes
    /\ \A c \in Unknown : doc[c] # "whole"
    /\ \A c \in Deleted : doc[NewName[c]] = "undecodable"

\* What a SetParentID may be about.
Nameable(c) == c \in TempCodes \/ (c \in Names /\ doc[c] = "whole")

NamedInv ==
    \A p \in Parents : \A i \in DOMAIN queue[p] :
        queue[p][i].kind = "parent" => Nameable(queue[p][i].code)

OrderInv == \A p \in Parents : Ordered(queue[p], children[p])

Explained(p, c) ==
    \/ parentID[c] # NoParent
    \/ Queued(p, Naming(c))
    \/ <<p, c>> \in cut
    \/ c \in Deleted

LinkInv == \A p \in Parents : \A c \in View(p) : Explained(p, c)

\* Why a code may be on the screen.
Accounted(p, c) ==
    \/ c \in View(p)
    \/ \E n \in 1..MaxAdds[p] : <<c, n>> \in adding[p]
    \/ c \in missed[p]

SessionInv ==
    \A p \in Parents :
        /\ screen[p] = "home" =>
               /\ \A c \in students[p] \cup shown[p] : Accounted(p, c)
               /\ \A request \in pages[p] : \A c \in request.ids : Accounted(p, c)
        /\ screen[p] = "out" => shown[p] = {}

IInv ==
    /\ TypeOK
    /\ DocInv
    /\ NamedInv
    /\ OrderInv
    /\ NamedParentHasChild
    /\ LinkInv
    /\ SessionInv
    /\ TrapsOnlyAfterRedemption
----------------------------------------------------------------------------
(* The queue of a parent.                                                  *)

LEMMA IsListOrNaming ==
    ASSUME NEW w \in Write
    PROVE  /\ w.code \in Codes
           /\ w.kind = "list" => w = List(w.code)
           /\ w.kind # "list" => w.kind = "parent" /\ w = Naming(w.code)
<1>1. w.code \in Codes /\ w.kind \in {"list", "parent"}
  BY DEF Write
<1>2. w = [kind |-> w.kind, code |-> w.code]
  BY DEF Write
<1> QED BY <1>1, <1>2 DEF List, Naming

LEMMA OfWrites ==
    ASSUME NEW c \in Codes
    PROVE  /\ List(c) \in Write /\ List(c).kind = "list" /\ List(c).code = c
           /\ Naming(c) \in Write /\ Naming(c).kind = "parent" /\ Naming(c).code = c
           /\ \A d : List(c) # Naming(d)
           /\ \A d : Naming(c) # List(d)
BY DEF Write, List, Naming

LEMMA Added ==
    ASSUME NEW q \in Seq(Write), NEW w \in Write, NEW S, Ordered(q, S),
           w.kind = "parent" => w.code \in S \/ Has(q, List(w.code))
    PROVE  /\ Append(q, w) \in Seq(Write)
           /\ Ordered(Append(q, w), S)
           /\ \A v : Has(Append(q, w), v) <=> Has(q, v) \/ v = w
<1> DEFINE n == Len(q)
           r == Append(q, w)
<1>1. /\ r \in Seq(Write) /\ n \in Nat /\ Len(r) = n + 1
      /\ \A i \in 1..n : r[i] = q[i]
      /\ r[n + 1] = w
      /\ DOMAIN q = 1..n /\ DOMAIN r = 1..(n + 1)
  BY AppendProperties, LenProperties
<1> HIDE DEF n, r
<1>2. /\ \A i \in DOMAIN r : i \in DOMAIN q \/ i = n + 1
      /\ \A i \in DOMAIN q : i \in DOMAIN r /\ i < n + 1
      /\ n + 1 \in DOMAIN r
  BY <1>1
<1>3. Ordered(r, S)
  <2>1. ASSUME NEW i \in DOMAIN r, r[i].kind = "parent"
        PROVE  r[i].code \in S \/ \E j \in DOMAIN r : j < i /\ r[j] = List(r[i].code)
    <3>1. CASE i \in DOMAIN q
      BY <2>1, <3>1, <1>1, <1>2 DEF Ordered
    <3>2. CASE i = n + 1
      BY <2>1, <3>2, <1>1, <1>2 DEF Has
    <3> QED BY <1>2, <3>1, <3>2
  <2> QED BY <2>1 DEF Ordered
<1>4. \A v : Has(r, v) <=> Has(q, v) \/ v = w
  BY <1>1, <1>2 DEF Has
<1> QED BY <1>1, <1>3, <1>4 DEF r

LEMMA Committed ==
    ASSUME NEW q \in Seq(Write), q # << >>, NEW S, Ordered(q, S)
    PROVE  /\ Head(q) \in Write /\ Tail(q) \in Seq(Write)
           /\ Ordered(Tail(q), IF Head(q).kind = "list" THEN S \cup {Head(q).code} ELSE S)
           /\ Head(q).kind = "parent" => Head(q).code \in S
           /\ \A v : Has(q, v) <=> Has(Tail(q), v) \/ v = Head(q)
<1> DEFINE n == Len(q)
           r == Tail(q)
           h == Head(q)
<1>1. /\ r \in Seq(Write) /\ n \in Nat \ {0} /\ Len(r) = n - 1
      /\ \A i \in 1..(n - 1) : r[i] = q[i + 1]
      /\ h = q[1] /\ h \in Write
      /\ DOMAIN q = 1..n /\ DOMAIN r = 1..(n - 1)
  BY HeadTailProperties, LenProperties, EmptySeq
<1> HIDE DEF n, r, h
<1>2. /\ \A i \in DOMAIN r : i \in Nat \ {0} /\ i + 1 \in DOMAIN q /\ r[i] = q[i + 1]
      /\ \A i \in DOMAIN q : i \in Nat \ {0} /\ (i # 1 => i - 1 \in DOMAIN r /\ r[i - 1] = q[i])
      /\ 1 \in DOMAIN q
  <2>1. \A i \in 1..n : i # 1 => i - 1 \in 1..(n - 1) /\ (i - 1) + 1 = i
    BY <1>1
  <2> QED BY <2>1, <1>1
<1>3. h.kind = "parent" => h.code \in S
  BY <1>1, <1>2 DEF Ordered
<1>4. \A v : Has(q, v) <=> Has(r, v) \/ v = h
  BY <1>1, <1>2 DEF Has
<1>5. Ordered(r, IF h.kind = "list" THEN S \cup {h.code} ELSE S)
  <2> DEFINE T == IF h.kind = "list" THEN S \cup {h.code} ELSE S
  <2>1. ASSUME NEW i \in DOMAIN r, r[i].kind = "parent", r[i].code \notin T
        PROVE  \E j \in DOMAIN r : j < i /\ r[j] = List(r[i].code)
    <3>1. i + 1 \in DOMAIN q /\ q[i + 1] = r[i] /\ r[i].code \notin S /\ i \in Nat
      BY <2>1, <1>2
    <3>2. PICK j \in DOMAIN q : j < i + 1 /\ q[j] = List(r[i].code)
      BY <3>1, <2>1 DEF Ordered
    <3>3. j # 1
      <4>1. SUFFICES ASSUME j = 1 PROVE FALSE
        OBVIOUS
      <4>2. h = List(r[i].code)
        BY <4>1, <3>2, <1>1
      <4>3. h.kind = "list" /\ h.code = r[i].code
        BY <4>2 DEF List
      <4> QED BY <4>3, <2>1
    <3>4. j - 1 \in DOMAIN r /\ r[j - 1] = q[j] /\ j - 1 < i
      BY <3>1, <3>2, <3>3, <1>2
    <3> QED BY <3>2, <3>4
  <2> QED BY <2>1 DEF Ordered
<1> QED BY <1>1, <1>3, <1>4, <1>5 DEF r, h
----------------------------------------------------------------------------
(* What a step leaves as it is.                                            *)

LEMMA QueuedIsHas == \A p, w : Queued(p, w) <=> Has(queue[p], w)
BY DEF Queued, Has

\* A step of an app that writes nothing.
LEMMA NothingWritten ==
    ASSUME IInv, UNCHANGED <<documents, children, queue, cut>>
    PROVE  /\ DocInv' /\ NamedInv' /\ OrderInv' /\ NamedParentHasChild' /\ LinkInv'
           /\ \A p \in Parents : View(p)' = View(p)
<1>1. /\ doc' = doc /\ parentID' = parentID /\ children' = children
      /\ queue' = queue /\ cut' = cut
  BY DEF documents
<1>2. DocInv'
  BY <1>1 DEF IInv, DocInv, Deleted
<1>3. NamedInv' /\ OrderInv'
  BY <1>1 DEF IInv, NamedInv, Nameable, OrderInv, Ordered
<1>4. NamedParentHasChild'
  BY <1>1 DEF IInv, NamedParentHasChild
<1>5. \A p \in Parents : View(p)' = View(p)
  BY <1>1 DEF View, Queued
<1>6. LinkInv'
  BY <1>1, <1>5 DEF IInv, LinkInv, Explained, Queued, Deleted
<1> QED BY <1>2, <1>3, <1>4, <1>5, <1>6

\* The other parents' sessions, and all of them when views only grow.
LEMMA SessionKept ==
    ASSUME IInv, NEW p \in Parents, screen'[p] = screen[p],
           students'[p] = students[p], shown'[p] = shown[p],
           pages'[p] = pages[p], adding[p] \subseteq adding'[p],
           missed[p] \subseteq missed'[p], View(p) \subseteq View(p)'
    PROVE  /\ screen'[p] = "home" =>
                  /\ \A c \in students'[p] \cup shown'[p] : Accounted(p, c)'
                  /\ \A request \in pages'[p] : \A c \in request.ids : Accounted(p, c)'
           /\ screen'[p] = "out" => shown'[p] = {}
<1>1. \A c : Accounted(p, c) => Accounted(p, c)'
  BY DEF Accounted
<1> QED BY <1>1 DEF IInv, SessionInv

LEMMA BrokenMeansRedeemed ==
    ASSUME IInv, NEW p \in Parents, NEW c \in Codes,
           Seen(p, c) \in {"undecodable", "nameless"}
    PROVE  \E t \in TempCodes : doc[NewName[t]] = "undecodable"
<1>1. CASE doc[c] = "undecodable"
  BY <1>1 DEF IInv, DocInv, Redeemed
<1>2. CASE doc[c] = "nameless"
  BY <1>2 DEF IInv, DocInv, Deleted
<1>3. CASE doc[c] = "none" /\ Queued(p, Naming(c))
  <2>1. PICK i \in DOMAIN queue[p] : queue[p][i] = Naming(c)
    BY <1>3 DEF Queued
  <2>2. Nameable(c)
    BY <2>1, OfWrites DEF IInv, NamedInv
  <2>3. c \in Deleted
    BY <1>3, <2>2 DEF Nameable, Deleted
  <2> QED BY <2>3 DEF IInv, DocInv, Deleted
<1> QED BY <1>1, <1>2, <1>3 DEF Seen

\* Nobody's app dies in the step, or somebody's for a reason.
LEMMA TrapsKept ==
    ASSUME IInv,
           \A t \in TempCodes :
               doc[NewName[t]] = "undecodable" => doc'[NewName[t]] = "undecodable",
           \/ \A p \in Parents : screen'[p] = "trapped" => screen[p] = "trapped"
           \/ \E t \in TempCodes : doc[NewName[t]] = "undecodable"
    PROVE  TrapsOnlyAfterRedemption'
BY DEF IInv, TrapsOnlyAfterRedemption
----------------------------------------------------------------------------
(* The steps that write nothing.                                           *)

LEMMA LoggedIn ==
    ASSUME IInv, NEW p \in Parents, LogIn(p)
    PROVE  IInv'
<1>1. /\ DocInv' /\ NamedInv' /\ OrderInv' /\ NamedParentHasChild' /\ LinkInv'
      /\ \A q \in Parents : View(q)' = View(q)
  BY NothingWritten DEF LogIn
<1>2. TypeOK'
  <2>1. View(p) \subseteq Codes
    BY DEF View, IInv, TypeOK
  <2>2. confirms[p] \in Nat
    BY DEF IInv, TypeOK
  <2> QED BY <2>1, <2>2 DEF IInv, TypeOK, LogIn, documents
<1>3. SessionInv'
  <2>1. ASSUME NEW q \in Parents
        PROVE  /\ screen'[q] = "home" =>
                      /\ \A c \in students'[q] \cup shown'[q] : Accounted(q, c)'
                      /\ \A request \in pages'[q] : \A c \in request.ids : Accounted(q, c)'
               /\ screen'[q] = "out" => shown'[q] = {}
    <3>1. CASE q = p
      <4>1. /\ screen'[p] = "home" /\ students'[p] = View(p) /\ shown'[p] = {}
            /\ pages'[p] = {[page |-> confirms[p], ids |-> View(p)]}
        BY DEF IInv, TypeOK, SessionInv, LogIn
      <4>2. \A c \in View(p) : Accounted(p, c)'
        BY <1>1 DEF Accounted
      <4> QED BY <3>1, <4>1, <4>2
    <3>2. CASE q # p
      BY <3>2, <1>1, SessionKept DEF IInv, TypeOK, LogIn
    <3> QED BY <3>1, <3>2
  <2> QED BY <2>1 DEF SessionInv
<1>4. TrapsOnlyAfterRedemption'
  <2>1. \A q \in Parents : screen'[q] = "trapped" => screen[q] = "trapped"
    BY DEF IInv, TypeOK, LogIn
  <2> QED BY <2>1, TrapsKept DEF LogIn, documents
<1> QED BY <1>1, <1>2, <1>3, <1>4 DEF IInv

LEMMA Fetched ==
    ASSUME IInv, NEW p \in Parents, NEW request \in pages[p], HomepageFetched(p, request)
    PROVE  IInv'
<1>1. /\ DocInv' /\ NamedInv' /\ OrderInv' /\ NamedParentHasChild' /\ LinkInv'
      /\ \A q \in Parents : View(q)' = View(q)
  BY NothingWritten DEF HomepageFetched
<1>2. PICK found \in SUBSET GetDocumentsFromIDs(p, request.ids) :
         IF \A c \in found : Seen(p, c) = "whole"
         THEN /\ shown' = IF request.page = confirms[p]
                          THEN [shown EXCEPT ![p] = found]
                          ELSE shown
              /\ UNCHANGED screen
         ELSE /\ screen' = [screen EXCEPT ![p] = "trapped"]
              /\ UNCHANGED shown
  BY DEF HomepageFetched
<1>3. /\ found \subseteq request.ids /\ request.ids \subseteq Codes
      /\ \A c \in found : Seen(p, c) # "none"
  BY DEF GetDocumentsFromIDs, IInv, TypeOK
<1>4. /\ pages' = [pages EXCEPT ![p] = @ \ {request}] /\ screen[p] = "home"
      /\ UNCHANGED <<documents, children, queue, students, adding, confirms, missed, cut>>
  BY DEF HomepageFetched
<1>5. TypeOK'
  <2>1. screen' \in [Parents -> {"out", "home", "trapped"}]
    BY <1>2 DEF IInv, TypeOK
  <2>2. shown' \in [Parents -> SUBSET Codes]
    BY <1>2, <1>3 DEF IInv, TypeOK
  <2>3. pages' \in [Parents -> SUBSET [page : Nat, ids : SUBSET Codes]]
    BY <1>4 DEF IInv, TypeOK
  <2> QED BY <1>4, <2>1, <2>2, <2>3 DEF IInv, TypeOK, documents
<1>6. SessionInv'
  <2>1. ASSUME NEW q \in Parents
        PROVE  /\ screen'[q] = "home" =>
                      /\ \A c \in students'[q] \cup shown'[q] : Accounted(q, c)'
                      /\ \A r \in pages'[q] : \A c \in r.ids : Accounted(q, c)'
               /\ screen'[q] = "out" => shown'[q] = {}
    <3>1. CASE q = p
      <4>1. /\ screen'[p] # "out" /\ students'[p] = students[p]
            /\ pages'[p] \subseteq pages[p]
            /\ shown'[p] \subseteq shown[p] \cup request.ids
        BY <1>2, <1>3, <1>4 DEF IInv, TypeOK
      <4>2. \A c : Accounted(p, c) => Accounted(p, c)'
        BY <1>1, <1>4 DEF Accounted
      <4>3. /\ \A c \in students[p] \cup shown[p] : Accounted(p, c)
            /\ \A r \in pages[p] : \A c \in r.ids : Accounted(p, c)
        BY <1>4 DEF IInv, SessionInv
      <4> QED BY <3>1, <4>1, <4>2, <4>3
    <3>2. CASE q # p
      <4>1. screen'[q] = screen[q] /\ shown'[q] = shown[q] /\ pages'[q] = pages[q]
        BY <3>2, <1>2, <1>4 DEF IInv, TypeOK
      <4> QED BY <4>1, <1>1, <1>4, SessionKept
    <3> QED BY <3>1, <3>2
  <2> QED BY <2>1 DEF SessionInv
<1>7. TrapsOnlyAfterRedemption'
  <2>1. CASE \A c \in found : Seen(p, c) = "whole"
    BY <2>1, <1>2, <1>4, TrapsKept DEF documents
  <2>2. CASE ~ \A c \in found : Seen(p, c) = "whole"
    <3>1. PICK c \in found : Seen(p, c) # "whole"
      BY <2>2
    <3>2. Seen(p, c) \in Kinds
      BY <1>3 DEF Seen, IInv, TypeOK, Kinds
    <3>3. \E t \in TempCodes : doc[NewName[t]] = "undecodable"
      BY <3>1, <3>2, <1>3, BrokenMeansRedeemed DEF Kinds
    <3> QED BY <3>3, <1>4, TrapsKept DEF documents
  <2> QED BY <2>1, <2>2
<1> QED BY <1>1, <1>5, <1>6, <1>7 DEF IInv

LEMMA Confirmed ==
    ASSUME IInv, NEW p \in Parents, NEW c \in Codes, ConfirmPressed(p, c)
    PROVE  IInv'
<1>1. /\ DocInv' /\ NamedInv' /\ OrderInv' /\ NamedParentHasChild' /\ LinkInv'
      /\ \A q \in Parents : View(q)' = View(q)
  BY NothingWritten DEF ConfirmPressed
<1> DEFINE n == confirms[p] + 1
           request == [page |-> n, ids |-> students[p] \cup {c}]
<1>2. /\ screen[p] = "home" /\ confirms[p] < MaxAdds[p]
      /\ confirms' = [confirms EXCEPT ![p] = n]
      /\ students' = [students EXCEPT ![p] = @ \cup {c}]
      /\ adding' = [adding EXCEPT ![p] = @ \cup {<<c, n>>}]
      /\ pages' = [pages EXCEPT ![p] = @ \cup {request}]
      /\ shown' = [shown EXCEPT ![p] = {}]
      /\ UNCHANGED <<documents, children, queue, screen, missed, cut>>
  BY DEF ConfirmPressed
<1>3. n \in 1..MaxAdds[p] /\ n \in Nat \ {0}
  <2>1. confirms[p] \in Nat /\ MaxAdds[p] \in Nat
    BY ParentAssumption DEF IInv, TypeOK
  <2> QED BY <1>2, <2>1
<1>r. request \in [page : Nat, ids : SUBSET Codes] /\ request.ids = students[p] \cup {c}
  BY <1>3 DEF IInv, TypeOK
<1> HIDE DEF n, request
<1>4. TypeOK'
  <2>1. /\ adding' \in [Parents -> SUBSET (Codes \X (Nat \ {0}))]
        /\ students' \in [Parents -> SUBSET Codes]
    BY <1>2, <1>3 DEF IInv, TypeOK
  <2>2. /\ confirms' \in [Parents -> Nat]
        /\ \A q \in Parents : confirms'[q] \in 0..MaxAdds[q]
    <3>1. n \in 0..MaxAdds[p]
      BY <1>3, ParentAssumption
    <3> QED BY <3>1, <1>2, <1>3 DEF IInv, TypeOK
  <2>3. /\ pages' \in [Parents -> SUBSET [page : Nat, ids : SUBSET Codes]]
        /\ shown' \in [Parents -> SUBSET Codes]
    BY <1>2, <1>r DEF IInv, TypeOK
  <2> QED BY <1>2, <2>1, <2>2, <2>3 DEF IInv, TypeOK, documents
<1>5. SessionInv'
  <2>1. ASSUME NEW q \in Parents
        PROVE  /\ screen'[q] = "home" =>
                      /\ \A d \in students'[q] \cup shown'[q] : Accounted(q, d)'
                      /\ \A r \in pages'[q] : \A d \in r.ids : Accounted(q, d)'
               /\ screen'[q] = "out" => shown'[q] = {}
    <3>1. CASE q = p
      <4>1. /\ students'[p] = students[p] \cup {c} /\ shown'[p] = {}
            /\ pages'[p] = pages[p] \cup {request}
            /\ adding'[p] = adding[p] \cup {<<c, n>>} /\ missed'[p] = missed[p]
        BY <1>2 DEF IInv, TypeOK
      <4>2. \A d : Accounted(p, d) => Accounted(p, d)'
        BY <1>1, <4>1 DEF Accounted
      <4>3. Accounted(p, c)'
        BY <1>3, <4>1 DEF Accounted
      <4>4. /\ \A d \in students[p] \cup shown[p] : Accounted(p, d)
            /\ \A r \in pages[p] : \A d \in r.ids : Accounted(p, d)
        BY <1>2 DEF IInv, SessionInv
      <4> QED BY <3>1, <4>1, <4>2, <4>3, <4>4, <1>r
    <3>2. CASE q # p
      <4>1. /\ screen'[q] = screen[q] /\ shown'[q] = shown[q] /\ pages'[q] = pages[q]
            /\ students'[q] = students[q] /\ adding'[q] = adding[q]
            /\ missed'[q] = missed[q]
        BY <3>2, <1>2 DEF IInv, TypeOK
      <4> QED BY <4>1, <1>1, SessionKept
    <3> QED BY <3>1, <3>2
  <2> QED BY <2>1 DEF SessionInv
<1>6. TrapsOnlyAfterRedemption'
  BY <1>2, TrapsKept DEF documents
<1> QED BY <1>1, <1>4, <1>5, <1>6 DEF IInv

LEMMA Missed ==
    ASSUME IInv, NEW p \in Parents, NEW c \in Codes, NEW n \in 1..MaxAdds[p],
           StudentMissing(p, c, n)
    PROVE  IInv'
<1>1. /\ DocInv' /\ NamedInv' /\ OrderInv' /\ NamedParentHasChild' /\ LinkInv'
      /\ \A q \in Parents : View(q)' = View(q)
  BY NothingWritten DEF StudentMissing
<1>2. /\ adding' = [adding EXCEPT ![p] = @ \ {<<c, n>>}]
      /\ missed' = [missed EXCEPT ![p] = @ \cup {c}]
      /\ UNCHANGED <<documents, children, queue, screen, students, confirms, pages, shown, cut>>
  BY DEF StudentMissing
<1>3. TypeOK'
  BY <1>2 DEF IInv, TypeOK, documents
<1>4. SessionInv'
  <2>1. ASSUME NEW q \in Parents, NEW d, Accounted(q, d)
        PROVE  Accounted(q, d)'
    <3>1. CASE q = p /\ d = c
      BY <3>1, <1>2 DEF Accounted, IInv, TypeOK
    <3>2. CASE q = p /\ d # c
      <4>1. adding'[p] = adding[p] \ {<<c, n>>} /\ missed[p] \subseteq missed'[p]
        BY <1>2 DEF IInv, TypeOK
      <4> QED BY <2>1, <3>2, <4>1, <1>1 DEF Accounted
    <3>3. CASE q # p
      <4>1. adding'[q] = adding[q] /\ missed'[q] = missed[q]
        BY <3>3, <1>2 DEF IInv, TypeOK
      <4> QED BY <2>1, <4>1, <1>1 DEF Accounted
    <3> QED BY <3>1, <3>2, <3>3
  <2> QED BY <2>1, <1>2 DEF IInv, SessionInv
<1>5. TrapsOnlyAfterRedemption'
  BY <1>2, TrapsKept DEF documents
<1> QED BY <1>1, <1>3, <1>4, <1>5 DEF IInv

LEMMA Heard ==
    ASSUME IInv, NEW p \in Parents, Hear(p)
    PROVE  IInv'
<1>1. /\ DocInv' /\ NamedInv' /\ OrderInv' /\ NamedParentHasChild' /\ LinkInv'
      /\ \A q \in Parents : View(q)' = View(q)
  BY NothingWritten DEF Hear
<1>2. /\ students' = [students EXCEPT ![p] = View(p)]
      /\ UNCHANGED <<documents, children, queue, screen, adding, confirms, pages, shown, missed, cut>>
  BY DEF Hear
<1>3. TypeOK'
  <2>1. View(p) \subseteq Codes
    BY DEF View, IInv, TypeOK
  <2> QED BY <1>2, <2>1 DEF IInv, TypeOK, documents
<1>4. SessionInv'
  <2>1. ASSUME NEW q \in Parents, NEW d, Accounted(q, d) \/ d \in View(q)
        PROVE  Accounted(q, d)'
    BY <2>1, <1>1, <1>2 DEF Accounted
  <2>2. \A q \in Parents : students'[q] = students[q] \/ students'[q] = View(q)
    BY <1>2 DEF IInv, TypeOK
  <2> QED BY <2>1, <2>2, <1>2 DEF IInv, SessionInv
<1>5. TrapsOnlyAfterRedemption'
  BY <1>2, TrapsKept DEF documents
<1> QED BY <1>1, <1>3, <1>4, <1>5 DEF IInv

\* The session of an app whose process is gone.
LEMMA Forgot ==
    ASSUME IInv, NEW p \in Parents, Forget(p), \A q \in Parents : View(q) \subseteq View(q)'
    PROVE  /\ SessionInv'
           /\ screen' \in [Parents -> {"out", "home", "trapped"}]
           /\ students' \in [Parents -> SUBSET Codes]
           /\ adding' \in [Parents -> SUBSET (Codes \X (Nat \ {0}))]
           /\ pages' \in [Parents -> SUBSET [page : Nat, ids : SUBSET Codes]]
           /\ shown' \in [Parents -> SUBSET Codes]
           /\ missed' \in [Parents -> SUBSET Codes]
           /\ \A q \in Parents : screen'[q] = "trapped" => screen[q] = "trapped"
<1>1. /\ screen' = [screen EXCEPT ![p] = "out"] /\ students' = [students EXCEPT ![p] = {}]
      /\ adding' = [adding EXCEPT ![p] = {}] /\ pages' = [pages EXCEPT ![p] = {}]
      /\ shown' = [shown EXCEPT ![p] = {}] /\ missed' = [missed EXCEPT ![p] = {}]
  BY DEF Forget
<1>2. ASSUME NEW q \in Parents
      PROVE  /\ screen'[q] = "home" =>
                    /\ \A c \in students'[q] \cup shown'[q] : Accounted(q, c)'
                    /\ \A r \in pages'[q] : \A c \in r.ids : Accounted(q, c)'
             /\ screen'[q] = "out" => shown'[q] = {}
  <2>1. CASE q = p
    BY <1>1, <2>1 DEF IInv, TypeOK
  <2>2. CASE q # p
    <3>1. /\ screen'[q] = screen[q] /\ shown'[q] = shown[q] /\ pages'[q] = pages[q]
          /\ students'[q] = students[q] /\ adding'[q] = adding[q]
          /\ missed'[q] = missed[q]
      BY <2>2, <1>1 DEF IInv, TypeOK
    <3> QED BY <3>1, SessionKept
  <2> QED BY <2>1, <2>2
<1>3. SessionInv'
  BY <1>2 DEF SessionInv
<1> QED BY <1>1, <1>3 DEF IInv, TypeOK

LEMMA Relaunched ==
    ASSUME IInv, NEW p \in Parents, Relaunch(p)
    PROVE  IInv'
<1>1. /\ DocInv' /\ NamedInv' /\ OrderInv' /\ NamedParentHasChild' /\ LinkInv'
      /\ \A q \in Parents : View(q)' = View(q)
  BY NothingWritten DEF Relaunch
<1>2. Forget(p) /\ UNCHANGED <<documents, children, queue, confirms, cut>>
  BY DEF Relaunch
<1>3. TypeOK'
  BY <1>1, <1>2, Forgot DEF IInv, TypeOK, documents
<1>4. TrapsOnlyAfterRedemption'
  BY <1>1, <1>2, Forgot, TrapsKept DEF documents
<1> QED BY <1>1, <1>2, <1>3, <1>4, Forgot DEF IInv
----------------------------------------------------------------------------
(* The steps that write.                                                   *)

\* A list is added to the queue of p, and the code is explained.
LEMMA ListQueued ==
    ASSUME IInv, NEW p \in Parents, NEW c \in Codes,
           queue' = [queue EXCEPT ![p] = Append(@, List(c))],
           UNCHANGED <<documents, children>>, cut \subseteq cut',
           Explained(p, c)'
    PROVE  /\ queue' \in [Parents -> Seq(Write)]
           /\ DocInv' /\ NamedInv' /\ OrderInv' /\ NamedParentHasChild' /\ LinkInv'
           /\ \A q \in Parents : View(q) \subseteq View(q)'
           /\ c \in View(p)'
<1>1. /\ queue \in [Parents -> Seq(Write)] /\ queue[p] \in Seq(Write)
      /\ doc' = doc /\ parentID' = parentID /\ children' = children
  BY DEF IInv, TypeOK, documents
<1>2. /\ List(c) \in Write /\ List(c).kind = "list"
      /\ \A d : List(c) # Naming(d) /\ (List(d) = List(c) <=> d = c)
  BY OfWrites DEF List
<1>3. /\ Append(queue[p], List(c)) \in Seq(Write)
      /\ Ordered(Append(queue[p], List(c)), children[p])
      /\ \A v : Has(Append(queue[p], List(c)), v) <=> Has(queue[p], v) \/ v = List(c)
  BY <1>1, <1>2, Added DEF IInv, OrderInv
<1>4. /\ queue' \in [Parents -> Seq(Write)]
      /\ queue'[p] = Append(queue[p], List(c))
      /\ \A q \in Parents : q # p => queue'[q] = queue[q]
  BY <1>1, <1>3
<1>5. ASSUME NEW q \in Parents, NEW v
      PROVE  Has(queue'[q], v) <=> Has(queue[q], v) \/ (q = p /\ v = List(c))
  BY <1>3, <1>4
<1>6. OrderInv'
  <2>1. \A q \in Parents : Ordered(queue'[q], children[q])
    BY <1>3, <1>4 DEF IInv, OrderInv
  <2> QED BY <1>1, <2>1 DEF OrderInv, Ordered
<1>7. \A q \in Parents, d \in Codes :
          Queued(q, Naming(d))' <=> Queued(q, Naming(d))
  BY <1>2, <1>5 DEF Queued, Has
<1>8. \A q \in Parents, d \in Codes :
          Queued(q, List(d))' <=> Queued(q, List(d)) \/ (q = p /\ d = c)
  BY <1>2, <1>5 DEF Queued, Has
<1>9. \A q \in Parents, d \in Codes :
          d \in View(q)' <=> d \in View(q) \/ (q = p /\ d = c)
  BY <1>1, <1>8 DEF View
<1>v. \A q \in Parents : View(q) \subseteq Codes /\ View(q)' \subseteq Codes
  BY <1>1 DEF View, IInv, TypeOK
<1>10. LinkInv'
  <2>1. ASSUME NEW q \in Parents, NEW d \in Codes, Explained(q, d)
        PROVE  Explained(q, d)'
    BY <2>1, <1>1, <1>7 DEF Explained, Deleted
  <2>2. \A q \in Parents : \A d \in View(q)' : Explained(q, d)'
    BY <1>9, <1>v, <2>1 DEF IInv, LinkInv
  <2> QED BY <2>2 DEF LinkInv
<1>11. NamedInv'
  <2>1. ASSUME NEW q \in Parents, NEW i \in DOMAIN queue'[q], queue'[q][i].kind = "parent"
        PROVE  Nameable(queue'[q][i].code)
    <3>1. Has(queue'[q], queue'[q][i])
      BY DEF Has
    <3>2. queue'[q][i] # List(c)
      BY <2>1, <1>2
    <3>3. Has(queue[q], queue'[q][i])
      BY <3>1, <3>2, <1>5
    <3> QED BY <2>1, <3>3 DEF Has, IInv, NamedInv
  <2> QED BY <2>1, <1>1 DEF NamedInv, Nameable
<1>12. DocInv' /\ NamedParentHasChild'
  BY <1>1 DEF IInv, DocInv, Deleted, NamedParentHasChild
<1>13. (\A q \in Parents : View(q) \subseteq View(q)') /\ c \in View(p)'
  BY <1>9, <1>v
<1> QED BY <1>4, <1>6, <1>10, <1>11, <1>12, <1>13

\* Both writes of AddStudent are added, for a student that exists.
LEMMA LinkQueued ==
    ASSUME IInv, NEW p \in Parents, NEW c \in Codes, Seen(p, c) = "whole",
           queue' = [queue EXCEPT ![p] = @ \o Linking(c)],
           UNCHANGED <<documents, children, cut>>
    PROVE  /\ queue' \in [Parents -> Seq(Write)]
           /\ DocInv' /\ NamedInv' /\ OrderInv' /\ NamedParentHasChild' /\ LinkInv'
           /\ \A q \in Parents : View(q) \subseteq View(q)'
           /\ c \in View(p)'
<1>1. /\ queue \in [Parents -> Seq(Write)] /\ queue[p] \in Seq(Write)
      /\ doc' = doc /\ parentID' = parentID /\ children' = children /\ cut' = cut
  BY DEF IInv, TypeOK, documents
<1>2. /\ List(c) \in Write /\ List(c).kind = "list"
      /\ Naming(c) \in Write /\ Naming(c).kind = "parent" /\ Naming(c).code = c
  BY OfWrites
<1> DEFINE q1 == Append(queue[p], List(c))
           q2 == Append(q1, Naming(c))
<1>3. /\ q1 \in Seq(Write) /\ Ordered(q1, children[p])
      /\ \A v : Has(q1, v) <=> Has(queue[p], v) \/ v = List(c)
  BY <1>1, <1>2, Added DEF IInv, OrderInv
<1> HIDE DEF q1
<1>4. /\ q2 \in Seq(Write) /\ Ordered(q2, children[p])
      /\ \A v : Has(q2, v) <=> Has(q1, v) \/ v = Naming(c)
  BY <1>2, <1>3, Added
<1>5. queue[p] \o Linking(c) = q2
  <2>1. queue[p] \o <<List(c), Naming(c)>> = Append(Append(queue[p], List(c)), Naming(c))
    BY <1>1, <1>2
  <2> QED BY <2>1 DEF Linking, q1
<1> HIDE DEF q2
<1>6. /\ queue' \in [Parents -> Seq(Write)] /\ queue'[p] = q2
      /\ \A q \in Parents : q # p => queue'[q] = queue[q]
  BY <1>1, <1>4, <1>5
<1>7. ASSUME NEW q \in Parents, NEW v
      PROVE  Has(queue'[q], v) <=> Has(queue[q], v)
                                   \/ (q = p /\ (v = List(c) \/ v = Naming(c)))
  BY <1>3, <1>4, <1>6
<1>8. OrderInv'
  <2>1. \A q \in Parents : Ordered(queue'[q], children[q])
    BY <1>4, <1>6 DEF IInv, OrderInv
  <2> QED BY <1>1, <2>1 DEF OrderInv, Ordered
<1>9. \A q \in Parents, d \in Codes : Queued(q, Naming(d)) => Queued(q, Naming(d))'
  BY <1>7 DEF Queued, Has
<1>10. Queued(p, Naming(c))' /\ Queued(p, List(c))'
  BY <1>7 DEF Queued, Has
<1>11. \A q \in Parents, d \in Codes :
          Queued(q, List(d))' <=> Queued(q, List(d)) \/ (q = p /\ d = c)
  <2>1. \A d : List(d) # Naming(c) /\ (List(d) = List(c) <=> d = c)
    BY DEF List, Naming
  <2> QED BY <2>1, <1>7 DEF Queued, Has
<1>12. \A q \in Parents, d \in Codes :
          d \in View(q)' <=> d \in View(q) \/ (q = p /\ d = c)
  BY <1>1, <1>11 DEF View
<1>v. \A q \in Parents : View(q) \subseteq Codes /\ View(q)' \subseteq Codes
  BY <1>1 DEF View, IInv, TypeOK
<1>13. LinkInv'
  <2>1. ASSUME NEW q \in Parents, NEW d \in Codes, Explained(q, d)
        PROVE  Explained(q, d)'
    BY <2>1, <1>1, <1>9 DEF Explained, Deleted
  <2>2. Explained(p, c)'
    BY <1>10 DEF Explained
  <2>3. \A q \in Parents : \A d \in View(q)' : Explained(q, d)'
    BY <1>12, <1>v, <2>1, <2>2 DEF IInv, LinkInv
  <2> QED BY <2>3 DEF LinkInv
<1>14. NamedInv'
  <2>1. Nameable(c)
    <3>1. doc[c] = "whole"
      BY DEF Seen
    <3>2. c \notin Unknown
      BY <3>1 DEF IInv, DocInv
    <3> QED BY <3>1, <3>2 DEF Nameable, Codes
  <2>2. ASSUME NEW q \in Parents, NEW i \in DOMAIN queue'[q], queue'[q][i].kind = "parent"
        PROVE  Nameable(queue'[q][i].code)
    <3>1. Has(queue'[q], queue'[q][i])
      BY DEF Has
    <3>2. CASE queue'[q][i] = Naming(c)
      BY <3>2, <1>2, <2>1
    <3>3. CASE queue'[q][i] # Naming(c)
      <4>1. queue'[q][i] # List(c)
        BY <2>2, <1>2
      <4>2. Has(queue[q], queue'[q][i])
        BY <3>1, <3>3, <4>1, <1>7
      <4> QED BY <2>2, <4>2 DEF Has, IInv, NamedInv
    <3> QED BY <3>2, <3>3
  <2> QED BY <2>2, <1>1 DEF NamedInv, Nameable
<1>15. DocInv' /\ NamedParentHasChild'
  BY <1>1 DEF IInv, DocInv, Deleted, NamedParentHasChild
<1>16. (\A q \in Parents : View(q) \subseteq View(q)') /\ c \in View(p)'
  BY <1>12, <1>v
<1> QED BY <1>6, <1>8, <1>13, <1>14, <1>15, <1>16

LEMMA Found ==
    ASSUME IInv, NEW p \in Parents, NEW c \in Codes, NEW n \in 1..MaxAdds[p],
           StudentFound(p, c, n)
    PROVE  IInv'
<1>1. /\ queue' \in [Parents -> Seq(Write)]
      /\ DocInv' /\ NamedInv' /\ OrderInv' /\ NamedParentHasChild' /\ LinkInv'
      /\ \A q \in Parents : View(q) \subseteq View(q)'
      /\ c \in View(p)'
  BY LinkQueued DEF StudentFound
<1>2. /\ adding' = [adding EXCEPT ![p] = @ \ {<<c, n>>}]
      /\ UNCHANGED <<documents, children, screen, students, confirms, pages, shown, missed, cut>>
  BY DEF StudentFound
<1>3. TypeOK'
  BY <1>1, <1>2 DEF IInv, TypeOK, documents
<1>4. SessionInv'
  <2>1. ASSUME NEW q \in Parents, NEW d, Accounted(q, d)
        PROVE  Accounted(q, d)'
    <3>1. CASE q = p /\ d = c
      BY <3>1, <1>1 DEF Accounted
    <3>2. CASE q # p \/ d # c
      <4>1. \A m : <<d, m>> \in adding[q] => <<d, m>> \in adding'[q]
        BY <3>2, <1>2 DEF IInv, TypeOK
      <4> QED BY <2>1, <4>1, <1>1, <1>2 DEF Accounted
    <3> QED BY <3>1, <3>2
  <2> QED BY <2>1, <1>2 DEF IInv, SessionInv
<1>5. TrapsOnlyAfterRedemption'
  BY <1>2, TrapsKept DEF documents
<1> QED BY <1>1, <1>3, <1>4, <1>5 DEF IInv

LEMMA FoundABrokenOne ==
    ASSUME IInv, NEW p \in Parents, NEW c \in Codes, NEW n \in 1..MaxAdds[p],
           FoundBroken(p, c, n)
    PROVE  IInv'
<1>1. /\ screen[p] = "home" /\ Seen(p, c) \in {"undecodable", "nameless"}
      /\ screen' = [screen EXCEPT ![p] = "trapped"]
      /\ adding' = [adding EXCEPT ![p] = @ \ {<<c, n>>}]
      /\ UNCHANGED <<documents, children, students, confirms, pages, shown, missed, cut>>
      /\ \/ UNCHANGED queue
         \/ /\ Decodable(p, c)
            /\ queue' = [queue EXCEPT ![p] = Append(@, List(c))]
  BY DEF FoundBroken
<1>2. /\ queue' \in [Parents -> Seq(Write)]
      /\ DocInv' /\ NamedInv' /\ OrderInv' /\ NamedParentHasChild' /\ LinkInv'
      /\ \A q \in Parents : View(q) \subseteq View(q)'
  <2>1. CASE UNCHANGED queue
    BY <1>1, <2>1, NothingWritten DEF IInv, TypeOK
  <2>2. CASE Decodable(p, c) /\ queue' = [queue EXCEPT ![p] = Append(@, List(c))]
    <3>1. Seen(p, c) = "nameless"
      BY <1>1, <2>2 DEF Decodable
    <3>2. CASE doc[c] = "nameless"
      <4>1. c \in Deleted
        BY <3>2 DEF IInv, DocInv, Deleted
      <4>2. Explained(p, c)'
        BY <4>1, <1>1 DEF Explained, Deleted, documents
      <4> QED BY <2>2, <4>2, <1>1, ListQueued
    <3>3. CASE Queued(p, Naming(c))
      <4>1. Queued(p, Naming(c))'
        <5>1. queue[p] \in Seq(Write) /\ queue'[p] = Append(queue[p], List(c))
          BY <2>2 DEF IInv, TypeOK
        <5>2. Has(queue'[p], Naming(c))
          BY <3>3, <5>1, Added, OfWrites DEF Queued, Has, IInv, OrderInv
        <5> QED BY <5>2 DEF Queued, Has
      <4>2. Explained(p, c)'
        BY <4>1 DEF Explained
      <4> QED BY <2>2, <4>2, <1>1, ListQueued
    <3> QED BY <3>1, <3>2, <3>3 DEF Seen
  <2> QED BY <1>1, <2>1, <2>2
<1>3. TypeOK'
  BY <1>1, <1>2 DEF IInv, TypeOK, documents
<1>4. SessionInv'
  <2>1. ASSUME NEW q \in Parents
        PROVE  /\ screen'[q] = "home" =>
                      /\ \A d \in students'[q] \cup shown'[q] : Accounted(q, d)'
                      /\ \A r \in pages'[q] : \A d \in r.ids : Accounted(q, d)'
               /\ screen'[q] = "out" => shown'[q] = {}
    <3>1. CASE q = p
      BY <3>1, <1>1 DEF IInv, TypeOK
    <3>2. CASE q # p
      <4>1. screen'[q] = screen[q] /\ adding'[q] = adding[q]
        BY <3>2, <1>1 DEF IInv, TypeOK
      <4> QED BY <4>1, <1>1, <1>2, SessionKept
    <3> QED BY <3>1, <3>2
  <2> QED BY <2>1 DEF SessionInv
<1>5. TrapsOnlyAfterRedemption'
  BY <1>1, BrokenMeansRedeemed, TrapsKept DEF documents
<1> QED BY <1>2, <1>3, <1>4, <1>5 DEF IInv

LEMMA DiedLinking ==
    ASSUME IInv, NEW p \in Parents, NEW c \in Codes, NEW n \in 1..MaxAdds[p],
           DieLinking(p, c, n)
    PROVE  IInv'
<1>1. /\ Forget(p) /\ queue' = [queue EXCEPT ![p] = Append(@, List(c))]
      /\ cut' = cut \cup {<<p, c>>}
      /\ UNCHANGED <<documents, children, confirms>>
  BY DEF DieLinking, Linking
<1>2. Explained(p, c)' /\ cut \subseteq cut'
  BY <1>1 DEF Explained
<1>3. /\ queue' \in [Parents -> Seq(Write)]
      /\ DocInv' /\ NamedInv' /\ OrderInv' /\ NamedParentHasChild' /\ LinkInv'
      /\ \A q \in Parents : View(q) \subseteq View(q)'
  BY <1>1, <1>2, ListQueued
<1>4. cut' \subseteq Parents \X Codes
  BY <1>1 DEF IInv, TypeOK
<1>5. TypeOK'
  BY <1>1, <1>3, <1>4, Forgot DEF IInv, TypeOK, documents
<1>6. SessionInv' /\ TrapsOnlyAfterRedemption'
  BY <1>1, <1>3, Forgot, TrapsKept DEF documents
<1> QED BY <1>3, <1>5, <1>6 DEF IInv
----------------------------------------------------------------------------
(* A write is committed.                                                   *)

LEMMA CommitDone ==
    ASSUME IInv, NEW p \in Parents, Commit(p)
    PROVE  IInv'
<1> DEFINE h == Head(queue[p])
           c == h.code
<1>1. /\ queue[p] # << >> /\ queue' = [queue EXCEPT ![p] = Tail(@)]
      /\ UNCHANGED <<screen, students, adding, pages, shown, missed, confirms, cut>>
      /\ queue \in [Parents -> Seq(Write)] /\ queue[p] \in Seq(Write)
  BY DEF Commit, app, IInv, TypeOK
<1>2. /\ h \in Write /\ Tail(queue[p]) \in Seq(Write)
      /\ Ordered(Tail(queue[p]),
                 IF h.kind = "list" THEN children[p] \cup {c} ELSE children[p])
      /\ h.kind = "parent" => c \in children[p]
      /\ \A v : Has(queue[p], v) <=> Has(Tail(queue[p]), v) \/ v = h
  BY <1>1, Committed DEF IInv, OrderInv
<1>3. /\ c \in Codes /\ h.kind \in {"list", "parent"} /\ h.code = c
      /\ h.kind = "list" => h = List(c)
      /\ h.kind = "parent" => h = Naming(c)
  BY <1>2, IsListOrNaming
<1>c. \/ /\ h.kind = "list" /\ children' = [children EXCEPT ![p] = @ \cup {c}]
         /\ doc' = doc /\ parentID' = parentID
      \/ /\ h.kind = "parent" /\ children' = children
         /\ doc' = [doc EXCEPT ![c] = IF @ = "none" THEN "nameless" ELSE @]
         /\ parentID' = [parentID EXCEPT ![c] = p]
  BY <1>3 DEF Commit, documents
<1> HIDE DEF h, c
<1>4. /\ queue' \in [Parents -> Seq(Write)] /\ queue'[p] = Tail(queue[p])
      /\ \A q \in Parents : q # p => queue'[q] = queue[q]
  BY <1>1, <1>2
<1>5. ASSUME NEW q \in Parents, NEW v
      PROVE  Has(queue[q], v) <=> Has(queue'[q], v) \/ (q = p /\ v = h)
  BY <1>2, <1>4
<1>6. /\ children' \in [Parents -> SUBSET Codes]
      /\ \A q \in Parents : children'[q] =
             IF q = p /\ h.kind = "list" THEN children[q] \cup {c} ELSE children[q]
  <2>1. children \in [Parents -> SUBSET Codes]
    BY DEF IInv, TypeOK
  <2>2. CASE h.kind = "list" /\ children' = [children EXCEPT ![p] = @ \cup {c}]
    BY <2>1, <2>2, <1>3
  <2>3. CASE h.kind = "parent" /\ children' = children
    BY <2>1, <2>3
  <2> QED BY <1>c, <2>2, <2>3
<1>7. OrderInv'
  <2>1. \A q \in Parents : Ordered(queue'[q], children'[q])
    BY <1>2, <1>4, <1>6 DEF IInv, OrderInv
  <2> QED BY <2>1 DEF OrderInv, Ordered
<1>8. ASSUME NEW d \in Codes
      PROVE  List(d) # Naming(c) /\ Naming(d) # List(c)
             /\ (List(d) = List(c) <=> d = c) /\ (Naming(d) = Naming(c) <=> d = c)
  BY DEF List, Naming
<1>9. \A q \in Parents, d \in Codes : d \in View(q)' <=> d \in View(q)
  <2>1. ASSUME NEW q \in Parents, NEW d \in Codes
        PROVE  /\ Has(queue[q], List(d)) <=>
                      Has(queue'[q], List(d)) \/ (q = p /\ List(d) = h)
               /\ List(d) = h <=> h.kind = "list" /\ d = c
    BY <1>3, <1>5, <1>8
  <2>2. \A q \in Parents, d \in Codes :
            Queued(q, List(d))' <=> Has(queue'[q], List(d))
    BY DEF Queued, Has
  <2> QED BY <1>6, <2>1, <2>2 DEF View, Queued, Has
<1>v. \A q \in Parents : View(q) \subseteq Codes /\ View(q)' \subseteq Codes
  BY <1>6 DEF View, IInv, TypeOK
<1>10. \A q \in Parents : View(q) \subseteq View(q)'
  BY <1>9, <1>v
<1>n. h.kind = "parent" => Nameable(c)
  <2>1. PICK i \in DOMAIN queue[p] : queue[p][i] = h
    BY <1>2 DEF Has
  <2> QED BY <2>1, <1>3 DEF IInv, NamedInv
<1>11. /\ doc' \in [Codes -> Kinds]
       /\ parentID' \in [Codes -> Parents \cup {NoParent}]
       /\ \A d \in Codes : doc'[d] = doc[d]
              \/ (d = c /\ c \in TempCodes /\ doc[d] = "none" /\ doc'[d] = "nameless")
       /\ \A d \in Codes : parentID'[d] = parentID[d]
              \/ (d = c /\ h.kind = "parent" /\ parentID'[d] = p)
  <2>1. doc \in [Codes -> Kinds] /\ parentID \in [Codes -> Parents \cup {NoParent}]
    BY DEF IInv, TypeOK
  <2>2. CASE doc' = doc /\ parentID' = parentID
    BY <2>1, <2>2
  <2>3. CASE /\ h.kind = "parent"
             /\ doc' = [doc EXCEPT ![c] = IF @ = "none" THEN "nameless" ELSE @]
             /\ parentID' = [parentID EXCEPT ![c] = p]
    <3>1. doc[c] = "none" => c \in TempCodes
      BY <2>3, <1>n DEF Nameable
    <3>2. /\ doc' \in [Codes -> Kinds]
          /\ \A d \in Codes : d # c => doc'[d] = doc[d]
          /\ doc'[c] = IF doc[c] = "none" THEN "nameless" ELSE doc[c]
      BY <2>1, <2>3, <1>3 DEF Kinds
    <3>3. /\ parentID' \in [Codes -> Parents \cup {NoParent}]
          /\ \A d \in Codes : d # c => parentID'[d] = parentID[d]
          /\ parentID'[c] = p
      BY <2>1, <2>3, <1>3
    <3> QED BY <2>3, <3>1, <3>2, <3>3
  <2> QED BY <1>c, <2>2, <2>3
<1>s. /\ Names \subseteq Codes /\ TempCodes \subseteq Codes /\ Unknown \subseteq Codes
      /\ \A t \in TempCodes : NewName[t] \in Unknown /\ NewName[t] \notin TempCodes
      /\ \A d \in Names : d \notin TempCodes
      /\ \A d \in Unknown : d \notin TempCodes
  BY ParentAssumption DEF Codes
<1>12. Deleted' = Deleted
  BY <1>11, <1>s DEF Deleted
<1>13. DocInv'
  <2>1. \A t \in TempCodes : doc'[NewName[t]] = doc[NewName[t]]
    BY <1>11, <1>s
  <2>2. \A d \in Codes : doc'[d] = "undecodable" => d \in Redeemed
    BY <1>11 DEF IInv, DocInv
  <2>3. \A d \in Codes : doc'[d] = "nameless" => d \in TempCodes
    BY <1>11 DEF IInv, DocInv
  <2>4. \A d \in Unknown : doc'[d] # "whole"
    BY <1>11, <1>s DEF IInv, DocInv
  <2>5. \A d \in Deleted : doc'[NewName[d]] = "undecodable"
    BY <2>1 DEF IInv, DocInv, Deleted
  <2> QED BY <2>2, <2>3, <2>4, <2>5, <1>12 DEF DocInv
<1>14. NamedInv'
  <2>1. ASSUME NEW d, Nameable(d)
        PROVE  Nameable(d)'
    BY <2>1, <1>11, <1>s DEF Nameable
  <2>2. ASSUME NEW q \in Parents, NEW i \in DOMAIN queue'[q], queue'[q][i].kind = "parent"
        PROVE  Nameable(queue'[q][i].code)
    <3>1. Has(queue'[q], queue'[q][i])
      BY DEF Has
    <3>2. Has(queue[q], queue'[q][i])
      BY <3>1, <1>5
    <3> QED BY <2>2, <3>2 DEF Has, IInv, NamedInv
  <2>3. \A q \in Parents : \A i \in DOMAIN queue'[q] :
            queue'[q][i].kind = "parent" =>
                queue'[q][i].code \in TempCodes
                \/ (queue'[q][i].code \in Names /\ doc'[queue'[q][i].code] = "whole")
    BY <2>2, <1>11, <1>s DEF Nameable
  <2> QED BY <2>3 DEF NamedInv, Nameable
<1>15. NamedParentHasChild'
  <2>1. ASSUME NEW d \in Codes, NEW q \in Parents, parentID'[d] = q
        PROVE  d \in children'[q]
    <3>1. CASE parentID'[d] = parentID[d]
      BY <2>1, <3>1, <1>6 DEF IInv, NamedParentHasChild
    <3>2. CASE d = c /\ h.kind = "parent" /\ parentID'[d] = p
      BY <2>1, <3>2, <1>2, <1>6
    <3> QED BY <1>11, <3>1, <3>2
  <2> QED BY <2>1 DEF NamedParentHasChild
<1>16. LinkInv'
  <2>1. ASSUME NEW q \in Parents, NEW d \in Codes, Explained(q, d)
        PROVE  Explained(q, d)'
    <3>1. CASE parentID[d] # NoParent
      <4>1. parentID'[d] # NoParent
        BY <3>1, <1>11, ParentAssumption
      <4> QED BY <4>1 DEF Explained
    <3>2. CASE Queued(q, Naming(d))
      <4>1. Has(queue[q], Naming(d))
        BY <3>2 DEF Queued, Has
      <4>2. CASE Has(queue'[q], Naming(d))
        BY <4>2 DEF Explained, Queued, Has
      <4>3. CASE Naming(d) = h
        <5>1. h.kind = "parent" /\ d = c
          BY <4>3, <1>3, <1>8
        <5>2. parentID'[d] = p
          BY <5>1, <1>c, <1>3 DEF IInv, TypeOK
        <5> QED BY <5>2, ParentAssumption DEF Explained
      <4> QED BY <4>1, <4>2, <4>3, <1>5
    <3>3. CASE <<q, d>> \in cut
      BY <3>3, <1>1 DEF Explained
    <3>4. CASE d \in Deleted
      BY <3>4, <1>12 DEF Explained
    <3> QED BY <2>1, <3>1, <3>2, <3>3, <3>4 DEF Explained
  <2>2. \A q \in Parents : \A d \in View(q)' : Explained(q, d)'
    BY <1>9, <1>v, <2>1 DEF IInv, LinkInv
  <2> QED BY <2>2 DEF LinkInv
<1>17. SessionInv'
  <2>1. \A q \in Parents :
            /\ screen'[q] = "home" =>
                   /\ \A d \in students'[q] \cup shown'[q] : Accounted(q, d)'
                   /\ \A r \in pages'[q] : \A d \in r.ids : Accounted(q, d)'
            /\ screen'[q] = "out" => shown'[q] = {}
    BY <1>1, <1>10, SessionKept
  <2> QED BY <2>1 DEF SessionInv
<1>18. TrapsOnlyAfterRedemption'
  BY <1>1, <1>11, <1>s, TrapsKept
<1>19. TypeOK'
  BY <1>1, <1>4, <1>6, <1>11 DEF IInv, TypeOK
<1> QED BY <1>7, <1>13, <1>14, <1>15, <1>16, <1>17, <1>18, <1>19 DEF IInv
----------------------------------------------------------------------------
(* The students' documents.                                                *)

\* What a change of the documents must leave alone.
LEMMA DocumentStep ==
    ASSUME IInv, UNCHANGED <<children, queue, app, confirms, cut>>,
           doc' \in [Codes -> Kinds], parentID' \in [Codes -> Parents \cup {NoParent}],
           \A c \in Names : doc[c] = "whole" => doc'[c] = "whole",
           \A c \in Redeemed : doc[c] = "undecodable" => doc'[c] = "undecodable",
           \A c \in Codes : \/ parentID'[c] = parentID[c]
                            \/ parentID'[c] = NoParent /\ c \in Deleted',
           Deleted \subseteq Deleted',
           DocInv'
    PROVE  IInv'
<1>1. /\ children' = children /\ queue' = queue /\ cut' = cut /\ screen' = screen
      /\ students' = students /\ adding' = adding /\ pages' = pages
      /\ shown' = shown /\ missed' = missed /\ confirms' = confirms
  BY DEF app
<1>2. TypeOK'
  BY <1>1 DEF IInv, TypeOK
<1>3. NamedInv'
  BY <1>1 DEF IInv, NamedInv, Nameable
<1>4. OrderInv'
  BY <1>1 DEF IInv, OrderInv, Ordered
<1>5. NamedParentHasChild'
  BY <1>1, ParentAssumption DEF IInv, NamedParentHasChild
<1>6. \A p \in Parents : View(p)' = View(p) /\ View(p) \subseteq Codes
  BY <1>1 DEF View, Queued, IInv, TypeOK
<1>7. LinkInv'
  <2>1. ASSUME NEW p \in Parents, NEW c \in Codes, Explained(p, c)
        PROVE  Explained(p, c)'
    BY <2>1, <1>1 DEF Explained, Queued
  <2>2. \A p \in Parents : \A c \in View(p)' : Explained(p, c)'
    BY <1>6, <2>1 DEF IInv, LinkInv
  <2> QED BY <2>2 DEF LinkInv
<1>8. SessionInv'
  <2>1. \A q \in Parents :
            /\ screen'[q] = "home" =>
                   /\ \A d \in students'[q] \cup shown'[q] : Accounted(q, d)'
                   /\ \A r \in pages'[q] : \A d \in r.ids : Accounted(q, d)'
            /\ screen'[q] = "out" => shown'[q] = {}
    BY <1>1, <1>6, SessionKept
  <2> QED BY <2>1 DEF SessionInv
<1>9. TrapsOnlyAfterRedemption'
  BY <1>1, TrapsKept DEF Redeemed
<1> QED BY <1>2, <1>3, <1>4, <1>5, <1>7, <1>8, <1>9 DEF IInv

LEMMA Sets ==
    /\ Names \subseteq Codes /\ TempCodes \subseteq Codes /\ Unknown \subseteq Codes
    /\ \A t \in TempCodes : /\ NewName[t] \in Unknown /\ NewName[t] \notin TempCodes
                            /\ NewName[t] \notin Names /\ NewName[t] \in Redeemed
    /\ \A d \in Names : d \notin TempCodes /\ d \notin Unknown /\ d \notin Redeemed
    /\ \A d \in Unknown : d \notin TempCodes
    /\ Redeemed \subseteq Unknown
BY ParentAssumption DEF Codes, Redeemed

LEMMA SignedUp ==
    ASSUME IInv, NEW c \in Codes, SignUp(c)
    PROVE  IInv'
<1>1. /\ c \in Names /\ doc[c] = "none" /\ doc' = [doc EXCEPT ![c] = "whole"]
      /\ parentID' = parentID /\ UNCHANGED <<children, queue, app, confirms, cut>>
  BY DEF SignUp
<1>2. /\ doc' \in [Codes -> Kinds] /\ doc'[c] = "whole"
      /\ \A d \in Codes : d # c => doc'[d] = doc[d]
  BY <1>1 DEF IInv, TypeOK, Kinds
<1>3. Deleted' = Deleted
  BY <1>1, <1>2, Sets DEF Deleted
<1>4. DocInv'
  <2>1. /\ \A d \in Codes : doc'[d] = "undecodable" => d \in Redeemed
        /\ \A d \in Codes : doc'[d] = "nameless" => d \in TempCodes
    BY <1>2 DEF IInv, DocInv
  <2>2. \A d \in Unknown : doc'[d] # "whole"
    BY <1>1, <1>2, Sets DEF IInv, DocInv
  <2>3. \A d \in Deleted : doc'[NewName[d]] = "undecodable"
    BY <1>1, <1>2, Sets DEF IInv, DocInv, Deleted
  <2> QED BY <2>1, <2>2, <2>3, <1>3 DEF DocInv
<1>5. /\ \A d \in Names : doc[d] = "whole" => doc'[d] = "whole"
      /\ \A d \in Redeemed : doc[d] = "undecodable" => doc'[d] = "undecodable"
  BY <1>1, <1>2, Sets
<1>6. /\ parentID' \in [Codes -> Parents \cup {NoParent}]
      /\ \A d \in Codes : \/ parentID'[d] = parentID[d]
                          \/ parentID'[d] = NoParent /\ d \in Deleted'
      /\ Deleted \subseteq Deleted'
  BY <1>1, <1>3 DEF IInv, TypeOK
<1> QED BY <1>1, <1>2, <1>4, <1>5, <1>6, DocumentStep

LEMMA RedemptionWritten ==
    ASSUME IInv, NEW c \in Codes, WriteRedeemed(c)
    PROVE  IInv'
<1> DEFINE r == NewName[c]
<1>1. /\ c \in TempCodes /\ doc' = [doc EXCEPT ![r] = "undecodable"]
      /\ parentID' = parentID /\ UNCHANGED <<children, queue, app, confirms, cut>>
  BY DEF WriteRedeemed
<1>2. r \in Unknown /\ r \in Redeemed /\ r \in Codes
  BY <1>1, Sets
<1> HIDE DEF r
<1>3. /\ doc' \in [Codes -> Kinds] /\ doc'[r] = "undecodable"
      /\ \A d \in Codes : d # r => doc'[d] = doc[d]
  BY <1>1, <1>2 DEF IInv, TypeOK, Kinds
<1>4. Deleted' = Deleted
  BY <1>2, <1>3, Sets DEF Deleted
<1>5. DocInv'
  <2>1. /\ \A d \in Codes : doc'[d] = "undecodable" => d \in Redeemed
        /\ \A d \in Codes : doc'[d] = "nameless" => d \in TempCodes
    BY <1>2, <1>3 DEF IInv, DocInv
  <2>2. \A d \in Unknown : doc'[d] # "whole"
    BY <1>3, Sets DEF IInv, DocInv
  <2>3. \A d \in Deleted : doc'[NewName[d]] = "undecodable"
    BY <1>3, Sets DEF IInv, DocInv, Deleted
  <2> QED BY <2>1, <2>2, <2>3, <1>4 DEF DocInv
<1>6. /\ \A d \in Names : doc[d] = "whole" => doc'[d] = "whole"
      /\ \A d \in Redeemed : doc[d] = "undecodable" => doc'[d] = "undecodable"
  BY <1>2, <1>3, Sets
<1>7. /\ parentID' \in [Codes -> Parents \cup {NoParent}]
      /\ \A d \in Codes : \/ parentID'[d] = parentID[d]
                          \/ parentID'[d] = NoParent /\ d \in Deleted'
      /\ Deleted \subseteq Deleted'
  BY <1>1, <1>4 DEF IInv, TypeOK
<1> QED BY <1>1, <1>3, <1>5, <1>6, <1>7, DocumentStep

LEMMA CodeDeleted ==
    ASSUME IInv, NEW c \in Codes, DeleteCode(c)
    PROVE  IInv'
<1>1. /\ c \in TempCodes /\ doc[NewName[c]] = "undecodable"
      /\ doc' = [doc EXCEPT ![c] = "none"]
      /\ parentID' = [parentID EXCEPT ![c] = NoParent]
      /\ UNCHANGED <<children, queue, app, confirms, cut>>
  BY DEF DeleteCode
<1>2. /\ doc' \in [Codes -> Kinds] /\ doc'[c] = "none"
      /\ \A d \in Codes : d # c => doc'[d] = doc[d]
      /\ parentID' \in [Codes -> Parents \cup {NoParent}] /\ parentID'[c] = NoParent
      /\ \A d \in Codes : d # c => parentID'[d] = parentID[d]
  BY <1>1 DEF IInv, TypeOK, Kinds
<1>3. Deleted' = Deleted \cup {c}
  BY <1>1, <1>2, Sets DEF Deleted
<1>4. DocInv'
  <2>1. /\ \A d \in Codes : doc'[d] = "undecodable" => d \in Redeemed
        /\ \A d \in Codes : doc'[d] = "nameless" => d \in TempCodes
    BY <1>2 DEF IInv, DocInv
  <2>2. \A d \in Unknown : doc'[d] # "whole"
    BY <1>2, Sets DEF IInv, DocInv
  <2>3. \A d \in Deleted \cup {c} : doc'[NewName[d]] = "undecodable"
    BY <1>1, <1>2, Sets DEF IInv, DocInv, Deleted
  <2> QED BY <2>1, <2>2, <2>3, <1>3 DEF DocInv
<1>5. /\ \A d \in Names : doc[d] = "whole" => doc'[d] = "whole"
      /\ \A d \in Redeemed : doc[d] = "undecodable" => doc'[d] = "undecodable"
  BY <1>1, <1>2, Sets
<1>6. /\ \A d \in Codes : \/ parentID'[d] = parentID[d]
                          \/ parentID'[d] = NoParent /\ d \in Deleted'
      /\ Deleted \subseteq Deleted'
  BY <1>2, <1>3
<1> QED BY <1>1, <1>2, <1>4, <1>5, <1>6, DocumentStep
----------------------------------------------------------------------------
(* The invariant and the theorems.                                         *)

LEMMA Initially == Init => IInv
<1> SUFFICES ASSUME Init PROVE IInv
  OBVIOUS
<1>1. << >> \in Seq(Write) /\ DOMAIN << >> = {}
  OBVIOUS
<1>2. TypeOK
  BY <1>1, ParentAssumption DEF Init, TypeOK, Kinds
<1>3. DocInv
  BY Sets DEF Init, DocInv, Deleted
<1>4. NamedInv /\ OrderInv
  BY <1>1 DEF Init, NamedInv, OrderInv, Ordered
<1>5. NamedParentHasChild
  BY ParentAssumption DEF Init, NamedParentHasChild
<1>6. LinkInv
  BY <1>1 DEF Init, LinkInv, View, Queued
<1>7. SessionInv /\ TrapsOnlyAfterRedemption
  BY DEF Init, SessionInv, TrapsOnlyAfterRedemption
<1> QED BY <1>2, <1>3, <1>4, <1>5, <1>6, <1>7 DEF IInv

LEMMA Inductive == IInv /\ [Next]_vars => IInv'
<1> SUFFICES ASSUME IInv, [Next]_vars PROVE IInv'
  OBVIOUS
<1>1. ASSUME NEW p \in Parents, Parent(p)
      PROVE  IInv'
  <2>1. CASE LogIn(p)
    BY <2>1, LoggedIn
  <2>2. CASE \E request \in pages[p] : HomepageFetched(p, request)
    BY <2>2, Fetched
  <2>3. CASE \E c \in Codes : ConfirmPressed(p, c)
    BY <2>3, Confirmed
  <2>4. CASE \E c \in Codes, n \in 1..MaxAdds[p] : StudentFound(p, c, n)
    BY <2>4, Found
  <2>5. CASE \E c \in Codes, n \in 1..MaxAdds[p] : FoundBroken(p, c, n)
    BY <2>5, FoundABrokenOne
  <2>6. CASE \E c \in Codes, n \in 1..MaxAdds[p] : StudentMissing(p, c, n)
    BY <2>6, Missed
  <2>7. CASE \E c \in Codes, n \in 1..MaxAdds[p] : DieLinking(p, c, n)
    BY <2>7, DiedLinking
  <2>8. CASE Hear(p)
    BY <2>8, Heard
  <2>9. CASE Commit(p)
    BY <2>9, CommitDone
  <2>10. CASE Relaunch(p)
    BY <2>10, Relaunched
  <2> QED BY <1>1, <2>1, <2>2, <2>3, <2>4, <2>5, <2>6, <2>7, <2>8, <2>9, <2>10 DEF Parent
<1>2. ASSUME NEW c \in Codes, SignUp(c) \/ WriteRedeemed(c) \/ DeleteCode(c)
      PROVE  IInv'
  BY <1>2, SignedUp, RedemptionWritten, CodeDeleted
<1>3. CASE UNCHANGED vars
  <2>1. /\ doc' = doc /\ parentID' = parentID /\ doc \in [Codes -> Kinds]
        /\ parentID \in [Codes -> Parents \cup {NoParent}]
        /\ UNCHANGED <<children, queue, app, confirms, cut>>
    BY <1>3 DEF vars, documents, IInv, TypeOK
  <2>2. Deleted' = Deleted /\ DocInv'
    BY <2>1 DEF Deleted, DocInv, IInv
  <2>3. /\ doc' \in [Codes -> Kinds] /\ parentID' \in [Codes -> Parents \cup {NoParent}]
        /\ \A c \in Names : doc[c] = "whole" => doc'[c] = "whole"
        /\ \A c \in Redeemed : doc[c] = "undecodable" => doc'[c] = "undecodable"
        /\ \A c \in Codes : \/ parentID'[c] = parentID[c]
                            \/ parentID'[c] = NoParent /\ c \in Deleted'
        /\ Deleted \subseteq Deleted'
    BY <2>1, <2>2
  <2> QED BY <2>1, <2>2, <2>3, DocumentStep
<1> QED BY <1>1, <1>2, <1>3 DEF Next

LEMMA Invariant == Spec => []IInv
BY Initially, Inductive, PTL DEF Spec

(* Every variable keeps its type; a parent confirms no more codes than the *)
(* bound says.                                                             *)
THEOREM TypeCorrect == Spec => []TypeOK
<1>1. IInv => TypeOK
  BY DEF IInv
<1> QED BY <1>1, Invariant, PTL

(* AddStudent's writes are queued in such an order that no child's         *)
(* parentID names a parent whose list lacks the child.                     *)
THEOREM ParentsKnowTheirChildren == Spec => []NamedParentHasChild
<1>1. IInv => NamedParentHasChild
  BY DEF IInv
<1> QED BY <1>1, Invariant, PTL

(* A child on a parent's list whose document names nobody is there because *)
(* a process died inside AddStudent or its code was redeemed.              *)
THEOREM HalfLinksAreExplained == Spec => []HalfLinksHaveACause
<1>1. IInv => HalfLinksHaveACause
  BY DEF IInv, LinkInv, Explained, View, HalfLinksHaveACause
<1> QED BY <1>1, Invariant, PTL

(* What a parent's homepage shows is on the parent's list, on its way      *)
(* there, or was missed by AddStudent's fetch.                             *)
THEOREM HomepagesAreExplained == Spec => []ShownChildrenAreLinked
<1>1. ASSUME IInv
      PROVE  ShownChildrenAreLinked
  <2>1. \A p \in Parents : screen[p] \in {"out", "home", "trapped"}
    BY <1>1 DEF IInv, TypeOK
  <2> QED BY <1>1, <2>1 DEF IInv, SessionInv, Accounted, ShownChildrenAreLinked
<1> QED BY <1>1, Invariant, PTL

(* A parent's app dies on a child's document only when a code has been     *)
(* redeemed.                                                               *)
THEOREM TrapsNeedARedemption == Spec => []TrapsOnlyAfterRedemption
<1>1. IInv => TrapsOnlyAfterRedemption
  BY DEF IInv
<1> QED BY <1>1, Invariant, PTL
============================================================================
