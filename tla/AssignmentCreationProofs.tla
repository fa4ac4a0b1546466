---------------------- MODULE AssignmentCreationProofs ----------------------
(***************************************************************************)
(* AssignmentCreation's invariants, for any devices, IDs and files.  What  *)
(* the assignments contain rests on the order of a device's writes: a      *)
(* creation that was not cut short has each of its fields on its way, in   *)
(* its document or replaced by a later creation's, unless another device   *)
(* has drawn the ID.  What the files rest on is that a name gets onto the  *)
(* form only after its upload.                                             *)
(***************************************************************************)
EXTENDS AssignmentCreation, SequenceTheorems, TLAPS

The(id, f, c) == [id |-> id, field |-> f, creation |-> c]

Has(q, w) == \E i \in DOMAIN q : q[i] = w

\* A write of q is of one of d's creations, and about its document.
Own(q, d, m) ==
    \A i \in DOMAIN q :
        /\ q[i].creation \in DOMAIN m
        /\ m[q[i].creation].id = q[i].id
        /\ m[q[i].creation].device = d

Rising(q) == \A i, j \in DOMAIN q : i < j => q[i].creation <= q[j].creation

QueueInv == \A d \in Devices : Own(queue[d], d, made) /\ Rising(queue[d])

\* A field was written by a creation of its document.
FieldInv ==
    \A id \in IDs, f \in Fields :
        assignment[id][f] # 0 => made[assignment[id][f]].id = id

\* What a device has still to write is not older than what it has written.
OrderInv ==
    \A id \in IDs, f \in Fields, d \in Devices :
        assignment[id][f] # 0 /\ made[assignment[id][f]].device = d =>
            \A i \in DOMAIN queue[d] : assignment[id][f] <= queue[d][i].creation

WholeInv ==
    \A c \in DOMAIN made : ~made[c].cut =>
        \A f \in Fields :
            assignment[made[c].id][f] # 0 \/ Coming(made[c].id, f)

Shared(id, d) == \E e \in Draws(id) : made[e].device # d

LatestInv ==
    \A c \in DOMAIN made : ~made[c].cut =>
        \A f \in Fields :
            \/ Has(queue[made[c].device], The(made[c].id, f, c))
            \/ c <= assignment[made[c].id][f]
            \/ Shared(made[c].id, made[c].device)

DocumentInv == QueueInv /\ FieldInv /\ OrderInv /\ WholeInv /\ LatestInv

FileInv ==
    /\ \A d \in Devices : label[d] # NoFile => storage[label[d]] # 0
    /\ \A d \in Devices : \A u \in uploads[d] :
           u.pick <= picks /\ (u.stored => storage[u.name] # 0)
    /\ \A c \in DOMAIN made : storage[made[c].file] # 0

IInv == TypeOK /\ DocumentInv /\ FileInv
----------------------------------------------------------------------------
(* The rows of a queue.                                                    *)

LEMMA AWrite ==
    ASSUME NEW w \in Write
    PROVE  /\ w.id \in IDs /\ w.field \in Fields /\ w.creation \in Nat \ {0}
           /\ w = The(w.id, w.field, w.creation)
<1>1. w.id \in IDs /\ w.field \in Fields /\ w.creation \in 1..MaxCreations
  BY DEF Write
<1>2. w = [id |-> w.id, field |-> w.field, creation |-> w.creation]
  BY DEF Write
<1> QED BY <1>1, <1>2, CreationAssumption DEF The

LEMMA Committed ==
    ASSUME NEW q \in Seq(Write), q # << >>, NEW d, NEW m, Own(q, d, m), Rising(q)
    PROVE  /\ Head(q) \in Write /\ Tail(q) \in Seq(Write)
           /\ Own(Tail(q), d, m) /\ Rising(Tail(q))
           /\ Head(q).creation \in DOMAIN m
           /\ m[Head(q).creation].id = Head(q).id
           /\ m[Head(q).creation].device = d
           /\ \A i \in DOMAIN Tail(q) : Head(q).creation <= Tail(q)[i].creation
           /\ \A i \in DOMAIN Tail(q) : \E j \in DOMAIN q : Tail(q)[i] = q[j]
           /\ \A v : Has(q, v) <=> Has(Tail(q), v) \/ v = Head(q)
<1> DEFINE n == Len(q)
           r == Tail(q)
           h == Head(q)
<1>1. /\ r \in Seq(Write) /\ n \in Nat \ {0} /\ Len(r) = n - 1
      /\ \A i \in 1..(n - 1) : r[i] = q[i + 1]
      /\ h = q[1] /\ h \in Write
      /\ DOMAIN q = 1..n /\ DOMAIN r = 1..(n - 1)
  BY HeadTailProperties, LenProperties, EmptySeq
<1> HIDE DEF n, r, h
<1>2. /\ \A i \in DOMAIN r : i \in Nat \ {0} /\ i + 1 \in DOMAIN q /\ r[i] = q[i + 1]
      /\ \A i \in DOMAIN q : i \in Nat \ {0} /\ (i # 1 => i - 1 \in DOMAIN r /\ r[i - 1] = q[i])
      /\ 1 \in DOMAIN q
  <2>1. \A i \in 1..n : i # 1 => i - 1 \in 1..(n - 1) /\ (i - 1) + 1 = i
    BY <1>1
  <2> QED BY <2>1, <1>1
<1>3. Own(r, d, m)
  BY <1>2 DEF Own
<1>4. Rising(r)
  <2>1. ASSUME NEW i \in DOMAIN r, NEW j \in DOMAIN r, i < j
        PROVE  r[i].creation <= r[j].creation
    <3>1. i + 1 \in DOMAIN q /\ j + 1 \in DOMAIN q /\ i + 1 < j + 1
      BY <2>1, <1>2
    <3> QED BY <3>1, <1>2 DEF Rising
  <2> QED BY <2>1 DEF Rising
<1>5. h.creation \in DOMAIN m /\ m[h.creation].id = h.id /\ m[h.creation].device = d
  BY <1>1, <1>2 DEF Own
<1>6. ASSUME NEW i \in DOMAIN r
      PROVE  h.creation <= r[i].creation
  <2>1. i + 1 \in DOMAIN q /\ 1 < i + 1 /\ r[i] = q[i + 1]
    BY <1>2
  <2> QED BY <2>1, <1>1, <1>2 DEF Rising
<1>7. \A v : Has(q, v) <=> Has(r, v) \/ v = h
  BY <1>1, <1>2 DEF Has
<1> QED BY <1>1, <1>2, <1>3, <1>4, <1>5, <1>6, <1>7 DEF r, h

LEMMA OfSetters ==
    ASSUME NEW id \in IDs, NEW c \in 1..MaxCreations, NEW n \in 1..4
    PROVE  LET s == SubSeq(Setters(id, c), 1, n)
           IN  /\ s \in Seq(Write)
               /\ \A i \in DOMAIN s : s[i].id = id /\ s[i].creation = c
               /\ n = 4 => \A f \in Fields : Has(s, The(id, f, c))
<1> DEFINE t == Setters(id, c)
           s == SubSeq(t, 1, n)
<1>1. /\ t \in Seq(Write) /\ Len(t) = 4
      /\ t[1] = The(id, "dueDate", c) /\ t[2] = The(id, "name", c)
      /\ t[3] = The(id, "description", c) /\ t[4] = The(id, "filePath", c)
  <2>1. \A f \in Fields : The(id, f, c) \in Write
    BY CreationAssumption DEF Write, The
  <2>2. t = <<The(id, "dueDate", c), The(id, "name", c),
              The(id, "description", c), The(id, "filePath", c)>>
    BY DEF Setters, The
  <2> HIDE DEF t
  <2> QED BY <2>1, <2>2 DEF Fields
<1> HIDE DEF t
<1>2. s \in Seq(Write) /\ Len(s) = n /\ \A i \in 1..n : s[i] = t[i]
  <2>1. \A i \in 1..n : t[i] \in Write
    <3>1. \A f \in Fields : The(id, f, c) \in Write
      BY CreationAssumption DEF Write, The
    <3>2. \A i \in 1..n : i = 1 \/ i = 2 \/ i = 3 \/ i = 4
      OBVIOUS
    <3> QED BY <1>1, <3>1, <3>2 DEF Fields
  <2>2. /\ SubSeq(t, 1, n) \in Seq(Write)
        /\ Len(SubSeq(t, 1, n)) = IF 1 <= n THEN n - 1 + 1 ELSE 0
        /\ \A i \in 1..(n - 1 + 1) : SubSeq(t, 1, n)[i] = t[1 + i - 1]
    BY <2>1, SubSeqProperties, n \in Int, 1 \in Int
  <2>3. 1 <= n /\ n - 1 + 1 = n /\ \A i \in 1..n : 1 + i - 1 = i
    OBVIOUS
  <2> QED BY <2>2, <2>3
<1>3. DOMAIN s = 1..n
  BY <1>2, LenProperties
<1> HIDE DEF s
<1>4. \A i \in 1..n : i = 1 \/ i = 2 \/ i = 3 \/ i = 4
  OBVIOUS
<1>5. \A f : The(id, f, c).id = id /\ The(id, f, c).creation = c
  BY DEF The
<1>6. \A i \in DOMAIN s : s[i].id = id /\ s[i].creation = c
  BY <1>1, <1>2, <1>3, <1>4, <1>5
<1>7. n = 4 => \A f \in Fields : Has(s, The(id, f, c))
  BY <1>1, <1>2, <1>3 DEF Has, Fields
<1> QED BY <1>2, <1>6, <1>7 DEF s, t

LEMMA Concatenated ==
    ASSUME NEW q \in Seq(Write), NEW s \in Seq(Write)
    PROVE  /\ q \o s \in Seq(Write)
           /\ \A i \in DOMAIN q : i \in DOMAIN (q \o s) /\ (q \o s)[i] = q[i]
           /\ \A i \in DOMAIN (q \o s) :
                  \/ i \in DOMAIN q /\ (q \o s)[i] = q[i]
                  \/ \E j \in DOMAIN s :
                         /\ (q \o s)[i] = s[j]
                         /\ \A k \in DOMAIN q : k < i
           /\ \A v : Has(q \o s, v) <=> Has(q, v) \/ Has(s, v)
<1> DEFINE r == q \o s
           m == Len(q)
           n == Len(s)
<1>1. /\ r \in Seq(Write) /\ m \in Nat /\ n \in Nat /\ Len(r) = m + n
      /\ \A i \in 1..(m + n) : r[i] = IF i <= m THEN q[i] ELSE s[i - m]
      /\ DOMAIN q = 1..m /\ DOMAIN s = 1..n /\ DOMAIN r = 1..(m + n)
  BY ConcatProperties, LenProperties
<1> HIDE DEF r, m, n
<1>2. \A i \in DOMAIN q : i \in DOMAIN r /\ r[i] = q[i]
  BY <1>1
<1>3. \A i \in DOMAIN r :
          \/ i \in DOMAIN q /\ r[i] = q[i]
          \/ i - m \in DOMAIN s /\ r[i] = s[i - m] /\ \A k \in DOMAIN q : k < i
  BY <1>1
<1>4. \A j \in DOMAIN s : j + m \in DOMAIN r /\ r[j + m] = s[j]
  <2>1. \A j \in 1..n : j + m \in 1..(m + n) /\ ~(j + m <= m) /\ (j + m) - m = j
    BY <1>1
  <2> QED BY <2>1, <1>1
<1>5. \A v : Has(r, v) <=> Has(q, v) \/ Has(s, v)
  BY <1>2, <1>3, <1>4 DEF Has
<1> QED BY <1>1, <1>2, <1>3, <1>5 DEF r
----------------------------------------------------------------------------
(* The steps that write nothing, on the form or with a file.               *)

LEMMA DocumentsKept ==
    ASSUME DocumentInv, UNCHANGED <<assignment, queue, made>>
    PROVE  DocumentInv'
BY DEF DocumentInv, QueueInv, FieldInv, OrderInv, WholeInv, LatestInv, Own,
       Rising, Coming, Shared, Draws, Has

LEMMA FormKept ==
    ASSUME IInv, NEW d \in Devices,
           OpenScreen(d) \/ Edit(d) \/ Relaunch(d) \/ UNCHANGED vars
                \/ \E id \in IDs : RefuseDate(d, id)
    PROVE  IInv'
<1>1. UNCHANGED <<assignment, queue, made, storage, picks>>
  BY DEF OpenScreen, Edit, Relaunch, RefuseDate, vars, screen
<1>2. DocumentInv'
  BY <1>1, DocumentsKept DEF IInv
<1>3. /\ form' \in [Devices -> {"incomplete", "wrong date", "complete"}]
      /\ label' \in [Devices -> FileNames \cup {NoFile}]
      /\ \A e \in Devices : label'[e] = label[e] \/ label'[e] = NoFile
  BY DEF IInv, TypeOK, OpenScreen, Edit, Relaunch, RefuseDate, EmptyScreen, vars, screen
<1>4. /\ uploads' \in [Devices -> SUBSET Upload]
      /\ \A e \in Devices : \A u \in uploads'[e] : \E v \in uploads[e] :
             u.pick = v.pick /\ u.name = v.name /\ u.stored = v.stored
  <2>1. uploads \in [Devices -> SUBSET Upload]
    BY DEF IInv, TypeOK
  <2>2. CASE OpenScreen(d)
    <3>1. \A u \in Upload : LET v == [u EXCEPT !.here = FALSE]
                            IN  /\ v \in Upload /\ v.pick = u.pick
                                /\ v.name = u.name /\ v.stored = u.stored
      BY DEF Upload
    <3>2. \A u \in Orphaned(d) : u \in Upload /\ \E v \in uploads[d] :
             u.pick = v.pick /\ u.name = v.name /\ u.stored = v.stored
      BY <2>1, <3>1 DEF Orphaned
    <3>3. uploads' = [uploads EXCEPT ![d] = Orphaned(d)]
      BY <2>2 DEF OpenScreen
    <3> QED BY <2>1, <3>2, <3>3
  <2>3. CASE Relaunch(d)
    BY <2>1, <2>3 DEF Relaunch
  <2>4. CASE uploads' = uploads
    BY <2>1, <2>4
  <2> QED BY <2>2, <2>3, <2>4 DEF Edit, RefuseDate, vars
<1>5. TypeOK'
  BY <1>1, <1>3, <1>4 DEF IInv, TypeOK
<1>6. FileInv'
  <2>1. ASSUME NEW e \in Devices, NEW u \in uploads'[e]
        PROVE  u.pick <= picks /\ (u.stored => storage[u.name] # 0)
    <3>1. PICK v \in uploads[e] :
              u.pick = v.pick /\ u.name = v.name /\ u.stored = v.stored
      BY <2>1, <1>4
    <3>2. v.pick <= picks /\ (v.stored => storage[v.name] # 0)
      BY <3>1 DEF IInv, FileInv
    <3> QED BY <3>1, <3>2
  <2>2. \A e \in Devices : label'[e] # NoFile => storage[label'[e]] # 0
    BY <1>3 DEF IInv, FileInv
  <2> QED BY <1>1, <2>1, <2>2 DEF IInv, FileInv
<1> QED BY <1>2, <1>5, <1>6 DEF IInv

LEMMA FilePicked ==
    ASSUME IInv, NEW d \in Devices, NEW name \in FileNames, PickFile(d, name)
    PROVE  IInv'
<1> DEFINE u == [pick |-> picks + 1, name |-> name, here |-> TRUE, stored |-> FALSE]
<1>1. /\ UNCHANGED <<assignment, queue, made, storage, form, label>>
      /\ picks \in 0..MaxPicks /\ picks < MaxPicks /\ picks' = picks + 1
      /\ MaxPicks \in Nat
      /\ uploads' = [uploads EXCEPT ![d] = @ \cup {u}]
      /\ uploads \in [Devices -> SUBSET Upload]
  BY CreationAssumption DEF PickFile, screen, IInv, TypeOK
<1>2. u \in Upload /\ u.pick = picks + 1 /\ ~u.stored
  BY <1>1 DEF Upload
<1> HIDE DEF u
<1>3. DocumentInv'
  BY <1>1, DocumentsKept DEF IInv
<1>4. TypeOK'
  <2>1. picks' \in 0..MaxPicks /\ 0..picks \subseteq 0..picks'
    BY <1>1
  <2>2. uploads' \in [Devices -> SUBSET Upload]
    BY <1>1, <1>2
  <2> QED BY <1>1, <2>1, <2>2 DEF IInv, TypeOK
<1>5. FileInv'
  <2>1. ASSUME NEW e \in Devices, NEW v \in uploads'[e]
        PROVE  v.pick <= picks' /\ (v.stored => storage'[v.name] # 0)
    <3>1. CASE v \in uploads[e]
      <4>1. v.pick \in Nat /\ v.pick <= picks /\ (v.stored => storage[v.name] # 0)
        BY <1>1, <3>1 DEF IInv, FileInv, Upload
      <4> QED BY <4>1, <1>1
    <3>2. CASE v = u
      BY <3>2, <1>1, <1>2
    <3> QED BY <2>1, <1>1, <3>1, <3>2
  <2> QED BY <1>1, <2>1 DEF IInv, FileInv
<1> QED BY <1>3, <1>4, <1>5 DEF IInv

LEMMA FileStored ==
    ASSUME IInv, NEW d \in Devices, NEW u \in uploads[d], Store(d, u)
    PROVE  IInv'
<1> DEFINE v == [u EXCEPT !.stored = TRUE]
<1>1. /\ UNCHANGED <<assignment, queue, made, form, label, picks>>
      /\ storage' = [storage EXCEPT ![u.name] = u.pick]
      /\ uploads' = [uploads EXCEPT ![d] = (@ \ {u}) \cup {v}]
      /\ uploads \in [Devices -> SUBSET Upload]
      /\ storage \in [FileNames -> 0..picks]
  BY DEF Store, screen, IInv, TypeOK
<1>2. u \in Upload /\ u.pick <= picks
  BY <1>1 DEF IInv, FileInv
<1>3. u.pick \in Nat \ {0} /\ u.name \in FileNames
  BY <1>2, CreationAssumption DEF Upload
<1>4. v \in Upload /\ v.name = u.name /\ v.pick = u.pick
  BY <1>2 DEF Upload
<1> HIDE DEF v
<1>5. \A n \in FileNames : storage'[n] # 0 \/ storage'[n] = storage[n]
  BY <1>1, <1>3
<1>6. storage'[u.name] # 0
  BY <1>1, <1>3
<1>7. DocumentInv'
  BY <1>1, DocumentsKept DEF IInv
<1>8. TypeOK'
  <2>1. storage' \in [FileNames -> 0..picks]
    BY <1>1, <1>2, <1>3
  <2>2. uploads' \in [Devices -> SUBSET Upload]
    BY <1>1, <1>4
  <2> QED BY <1>1, <2>1, <2>2 DEF IInv, TypeOK
<1>9. FileInv'
  <2>1. ASSUME NEW e \in Devices, label[e] # NoFile
        PROVE  storage'[label[e]] # 0
    <3>1. label[e] \in FileNames /\ storage[label[e]] # 0
      BY <2>1 DEF IInv, TypeOK, FileInv
    <3> QED BY <3>1, <1>5
  <2>2. ASSUME NEW e \in Devices, NEW w \in uploads'[e]
        PROVE  w.pick <= picks /\ (w.stored => storage'[w.name] # 0)
    <3>1. CASE w \in uploads[e]
      <4>1. w.name \in FileNames /\ w.pick <= picks /\ (w.stored => storage[w.name] # 0)
        BY <1>1, <3>1 DEF IInv, FileInv, Upload
      <4> QED BY <4>1, <1>5
    <3>2. CASE w = v
      BY <3>2, <1>2, <1>4, <1>6
    <3> QED BY <2>2, <1>1, <3>1, <3>2
  <2>3. ASSUME NEW c \in DOMAIN made
        PROVE  storage'[made[c].file] # 0
    <3>1. made[c] \in Creation /\ storage[made[c].file] # 0
      BY <2>3, ElementOfSeq, LenProperties DEF IInv, TypeOK, FileInv
    <3> QED BY <3>1, <1>5 DEF Creation
  <2> QED BY <1>1, <2>1, <2>2, <2>3 DEF FileInv
<1> QED BY <1>7, <1>8, <1>9 DEF IInv

LEMMA UploadEnded ==
    ASSUME IInv, NEW d \in Devices, NEW u \in uploads[d],
           Uploaded(d, u) \/ UploadFailed(d, u)
    PROVE  IInv'
<1>1. /\ UNCHANGED <<assignment, queue, made, form, storage, picks>>
      /\ uploads' = [uploads EXCEPT ![d] = @ \ {u}]
      /\ uploads \in [Devices -> SUBSET Upload]
      /\ label \in [Devices -> FileNames \cup {NoFile}]
  BY DEF Uploaded, UploadFailed, screen, IInv, TypeOK
<1>2. u \in Upload /\ u.name \in FileNames
  BY <1>1 DEF Upload
<1>3. /\ label' \in [Devices -> FileNames \cup {NoFile}]
      /\ \A e \in Devices : label'[e] = label[e] \/ (label'[e] = u.name /\ u.stored)
  BY <1>1, <1>2 DEF Uploaded, UploadFailed, screen
<1>4. DocumentInv'
  BY <1>1, DocumentsKept DEF IInv
<1>5. TypeOK'
  BY <1>1, <1>3 DEF IInv, TypeOK
<1>6. FileInv'
  BY <1>1, <1>3 DEF IInv, FileInv
<1> QED BY <1>4, <1>5, <1>6 DEF IInv
----------------------------------------------------------------------------
(* A creation: its writes are the youngest of its device's.                *)

LEMMA MadeLater ==
    ASSUME NEW m \in Seq(Creation), NEW x \in Creation, Len(m) < MaxCreations
    PROVE  LET k == Len(m) + 1
           IN  /\ Append(m, x) \in Seq(Creation) /\ Len(Append(m, x)) = k
               /\ k \in 1..MaxCreations
               /\ DOMAIN Append(m, x) = DOMAIN m \cup {k} /\ k \notin DOMAIN m
               /\ Append(m, x)[k] = x
               /\ \A c \in DOMAIN m : Append(m, x)[c] = m[c] /\ c \in Nat /\ c < k
<1> DEFINE n == Len(m)
<1>1. /\ Append(m, x) \in Seq(Creation) /\ n \in Nat /\ Len(Append(m, x)) = n + 1
      /\ \A i \in 1..n : Append(m, x)[i] = m[i]
      /\ Append(m, x)[n + 1] = x
      /\ DOMAIN m = 1..n /\ DOMAIN Append(m, x) = 1..(n + 1)
  BY AppendProperties, LenProperties
<1>2. MaxCreations \in Nat /\ n < MaxCreations
  BY CreationAssumption
<1> HIDE DEF n
<1> QED BY <1>1, <1>2 DEF n

LEMMA Created ==
    ASSUME IInv, NEW d \in Devices, NEW id \in IDs, NEW n \in 1..4,
           Create(d, id, n), UNCHANGED <<assignment, storage, picks>>,
           EmptyScreen(d), uploads' = uploads \/ uploads' = [uploads EXCEPT ![d] = {}]
    PROVE  IInv'
<1> DEFINE k == Len(made) + 1
           x == [id |-> id, device |-> d, file |-> label[d], cut |-> n < 4]
           s == SubSeq(Setters(id, k), 1, n)
<1>1. /\ made \in Seq(Creation) /\ Len(made) < MaxCreations
      /\ label[d] # NoFile /\ label[d] \in FileNames
      /\ queue \in [Devices -> Seq(Write)]
      /\ made' = Append(made, x)
      /\ queue' = [queue EXCEPT ![d] = @ \o s]
  BY DEF IInv, TypeOK, Create
<1>2. x \in Creation /\ x.id = id /\ x.device = d /\ x.file = label[d] /\ x.cut = (n < 4)
  <2>1. (n < 4) \in BOOLEAN /\ label[d] \in FileNames
    BY <1>1
  <2> QED BY <2>1 DEF Creation
<1> HIDE DEF x
<1>3. /\ made' \in Seq(Creation) /\ Len(made') = k
      /\ k \in 1..MaxCreations
      /\ DOMAIN made' = DOMAIN made \cup {k} /\ k \notin DOMAIN made
      /\ made'[k] = x
      /\ \A c \in DOMAIN made : made'[c] = made[c] /\ c \in Nat /\ c < k
  BY <1>1, <1>2, MadeLater
<1>4. k \in Nat /\ k - 1 \in Nat /\ Len(made) = k - 1 /\ DOMAIN made = 1..(k - 1)
  BY <1>1, LenProperties
<1> HIDE DEF k
<1>5. /\ s \in Seq(Write)
      /\ \A i \in DOMAIN s : s[i].id = id /\ s[i].creation = k
      /\ n = 4 => \A f \in Fields : Has(s, The(id, f, k))
  BY <1>3, OfSetters
<1> HIDE DEF s
<1>6. /\ queue'[d] = queue[d] \o s
      /\ \A e \in Devices : e # d => queue'[e] = queue[e]
  BY <1>1
<1>7. /\ queue'[d] \in Seq(Write)
      /\ \A i \in DOMAIN queue[d] : i \in DOMAIN queue'[d] /\ queue'[d][i] = queue[d][i]
      /\ \A i \in DOMAIN queue'[d] :
             \/ i \in DOMAIN queue[d] /\ queue'[d][i] = queue[d][i]
             \/ \E j \in DOMAIN s :
                    /\ queue'[d][i] = s[j]
                    /\ \A h \in DOMAIN queue[d] : h < i
      /\ \A v : Has(queue'[d], v) <=> Has(queue[d], v) \/ Has(s, v)
  <2>1. queue[d] \in Seq(Write)
    BY <1>1
  <2> HIDE DEF IInv
  <2> QED BY <2>1, <1>5, <1>6, Concatenated
<1>8. /\ \A e \in Devices : \A i \in DOMAIN queue[e] :
             i \in DOMAIN queue'[e] /\ queue'[e][i] = queue[e][i]
      /\ \A e \in Devices : \A v : Has(queue[e], v) => Has(queue'[e], v)
  BY <1>6, <1>7
<1>9. /\ assignment \in [IDs -> [Fields -> 0..(k - 1)]]
      /\ \A i \in IDs, f \in Fields :
             /\ assignment[i][f] \in Nat /\ assignment[i][f] < k
             /\ assignment[i][f] # 0 => assignment[i][f] \in DOMAIN made
  <2>1. assignment \in [IDs -> [Fields -> 0..(k - 1)]]
    BY <1>4 DEF IInv, TypeOK
  <2>2. \A i \in IDs, f \in Fields : assignment[i][f] \in 0..(k - 1)
    BY <2>1
  <2> QED BY <2>1, <2>2, <1>4
<1>10. TypeOK'
  <2>1. 0..(k - 1) \subseteq 0..k
    BY <1>4
  <2>2. assignment' \in [IDs -> [Fields -> 0..Len(made')]]
    BY <2>1, <1>3, <1>9
  <2>3. queue' \in [Devices -> Seq(Write)]
    BY <1>1, <1>6, <1>7
  <2>4. Len(made') \in 0..MaxCreations
    BY <1>3, CreationAssumption
  <2>5. /\ form' \in [Devices -> {"incomplete", "wrong date", "complete"}]
        /\ label' \in [Devices -> FileNames \cup {NoFile}]
    BY DEF IInv, TypeOK, EmptyScreen
  <2>6. uploads' \in [Devices -> SUBSET Upload]
    BY DEF IInv, TypeOK
  <2> QED BY <1>3, <2>2, <2>3, <2>4, <2>5, <2>6 DEF IInv, TypeOK
<1>11. FileInv'
  <2>1. storage[label[d]] # 0
    BY <1>1 DEF IInv, FileInv
  <2>2. \A c \in DOMAIN made' : storage'[made'[c].file] # 0
    BY <2>1, <1>2, <1>3 DEF IInv, FileInv
  <2>3. \A e \in Devices : label'[e] # NoFile => storage'[label'[e]] # 0
    BY DEF IInv, TypeOK, FileInv, EmptyScreen
  <2>4. \A e \in Devices : \A u \in uploads'[e] : u \in uploads[e]
    BY DEF IInv, TypeOK
  <2> QED BY <2>2, <2>3, <2>4 DEF IInv, FileInv
<1>12. \A e \in Devices : \A i \in DOMAIN queue[e] :
           /\ queue[e][i].creation \in DOMAIN made
           /\ queue[e][i].creation \in Nat /\ queue[e][i].creation < k
           /\ made[queue[e][i].creation].id = queue[e][i].id
           /\ made[queue[e][i].creation].device = e
  BY <1>3 DEF IInv, DocumentInv, QueueInv, Own
<1>13. QueueInv'
  <2>1. ASSUME NEW e \in Devices
        PROVE  Own(queue'[e], e, made') /\ Rising(queue'[e])
    <3>1. CASE e # d
      <4>1. queue'[e] = queue[e] /\ Rising(queue[e])
        BY <3>1, <1>6 DEF IInv, DocumentInv, QueueInv
      <4> QED BY <4>1, <1>3, <1>12 DEF Own
    <3>2. CASE e = d
      <4>1. Own(queue'[d], d, made')
        <5>1. ASSUME NEW i \in DOMAIN queue'[d]
              PROVE  /\ queue'[d][i].creation \in DOMAIN made'
                     /\ made'[queue'[d][i].creation].id = queue'[d][i].id
                     /\ made'[queue'[d][i].creation].device = d
          <6>1. CASE i \in DOMAIN queue[d]
            BY <6>1, <1>3, <1>7, <1>12
          <6>2. CASE \E j \in DOMAIN s : queue'[d][i] = s[j]
            <7>1. queue'[d][i].id = id /\ queue'[d][i].creation = k
              BY <6>2, <1>5
            <7> QED BY <7>1, <1>2, <1>3
          <6> QED BY <6>1, <6>2, <1>7
        <5> QED BY <5>1 DEF Own
      <4>2. Rising(queue'[d])
        <5>1. ASSUME NEW i \in DOMAIN queue'[d], NEW j \in DOMAIN queue'[d], i < j
              PROVE  queue'[d][i].creation <= queue'[d][j].creation
          <6>1. CASE i \in DOMAIN queue[d] /\ j \in DOMAIN queue[d]
            <7>1. Rising(queue[d])
              BY DEF IInv, DocumentInv, QueueInv
            <7> QED BY <6>1, <7>1, <5>1, <1>7 DEF Rising
          <6>2. CASE j \notin DOMAIN queue[d]
            <7>1. queue'[d][j].creation = k
              BY <6>2, <1>5, <1>7
            <7>2. queue'[d][i].creation \in Nat /\ queue'[d][i].creation <= k
              <8>1. CASE i \in DOMAIN queue[d]
                <9>1. queue[d][i].creation \in Nat /\ queue[d][i].creation < k
                  BY <8>1, <1>12
                <9> QED BY <9>1, <8>1, <1>4, <1>7
              <8>2. CASE i \notin DOMAIN queue[d]
                BY <8>2, <1>4, <1>5, <1>7
              <8> QED BY <8>1, <8>2
            <7> QED BY <7>1, <7>2
          <6>3. CASE i \notin DOMAIN queue[d] /\ j \in DOMAIN queue[d]
            <7>1. j < i
              BY <6>3, <1>7
            <7>2. i \in Nat /\ j \in Nat
              BY <6>3, <1>7, LenProperties
            <7> QED BY <7>1, <7>2, <5>1
          <6> QED BY <6>1, <6>2, <6>3
        <5> QED BY <5>1 DEF Rising
      <4> QED BY <3>2, <4>1, <4>2
    <3> QED BY <3>1, <3>2
  <2> QED BY <2>1 DEF QueueInv
<1>14. FieldInv'
  BY <1>3, <1>9 DEF IInv, DocumentInv, FieldInv
<1>15. OrderInv'
  <2>1. ASSUME NEW a \in IDs, NEW f \in Fields, NEW e \in Devices,
               assignment'[a][f] # 0, made'[assignment'[a][f]].device = e,
               NEW i \in DOMAIN queue'[e]
        PROVE  assignment'[a][f] <= queue'[e][i].creation
    <3>1. /\ assignment[a][f] \in Nat /\ assignment[a][f] < k
          /\ assignment[a][f] # 0 /\ made[assignment[a][f]].device = e
      BY <2>1, <1>3, <1>9
    <3>2. CASE i \in DOMAIN queue[e]
      <4>1. assignment[a][f] <= queue[e][i].creation
        BY <3>1, <3>2 DEF IInv, DocumentInv, OrderInv
      <4> QED BY <4>1, <3>2, <1>8
    <3>3. CASE i \notin DOMAIN queue[e]
      <4>1. e = d
        BY <3>3, <2>1, <1>6
      <4>2. PICK j \in DOMAIN s : queue'[d][i] = s[j]
        BY <3>3, <2>1, <4>1, <1>7
      <4>3. queue'[e][i].creation = k
        BY <4>1, <4>2, <1>5
      <4> QED BY <4>3, <3>1, <1>4
    <3> QED BY <3>2, <3>3
  <2> QED BY <2>1 DEF OrderInv
<1>16. ~x.cut => n = 4
  <2>1. ~(n < 4) => n = 4
    OBVIOUS
  <2> QED BY <2>1, <1>2
<1>17. WholeInv'
  <2>1. ASSUME NEW c \in DOMAIN made', ~made'[c].cut, NEW f \in Fields
        PROVE  assignment'[made'[c].id][f] # 0 \/ Coming(made[c].id, f)'
    <3>1. CASE c \in DOMAIN made
      <4>1. assignment[made[c].id][f] # 0 \/ Coming(made[c].id, f)
        BY <2>1, <3>1, <1>3 DEF IInv, DocumentInv, WholeInv
      <4>2. Coming(made[c].id, f) => Coming(made[c].id, f)'
        BY <3>1, <1>3, <1>8 DEF Coming
      <4>3. made'[c].id = made[c].id
        BY <3>1, <1>3
      <4> QED BY <4>1, <4>2, <4>3 DEF Coming
    <3>2. CASE c = k
      <4>1. made'[c].id = id /\ n = 4
        BY <2>1, <3>2, <1>2, <1>3, <1>16
      <4>2. Has(queue'[d], The(id, f, k))
        BY <4>1, <1>5, <1>7
      <4> QED BY <4>1, <4>2 DEF Coming, Has, The
    <3> QED BY <2>1, <3>1, <3>2, <1>3
  <2> QED BY <2>1 DEF WholeInv
<1>18. LatestInv'
  <2>1. ASSUME NEW c \in DOMAIN made', ~made'[c].cut, NEW f \in Fields
        PROVE  \/ Has(queue'[made'[c].device], The(made'[c].id, f, c))
               \/ c <= assignment'[made'[c].id][f]
               \/ Shared(made[c].id, made[c].device)'
    <3>1. CASE c \in DOMAIN made
      <4>1. made'[c] = made[c] /\ made[c].device \in Devices
        <5>1. made[c] \in Creation
          BY <3>1, <1>1, ElementOfSeq, LenProperties
        <5> QED BY <5>1, <3>1, <1>3 DEF Creation
      <4>2. \/ Has(queue[made[c].device], The(made[c].id, f, c))
            \/ c <= assignment[made[c].id][f]
            \/ Shared(made[c].id, made[c].device)
        BY <2>1, <3>1, <4>1 DEF IInv, DocumentInv, LatestInv
      <4>3. Shared(made[c].id, made[c].device) => Shared(made[c].id, made[c].device)'
        BY <3>1, <1>3 DEF Shared, Draws
      <4>4. /\ made[c].id = made'[c].id /\ made[c].device = made'[c].device
        BY <4>1
      <4> QED BY <4>1, <4>2, <4>3, <4>4, <1>8 DEF Shared, Draws
    <3>2. CASE c = k
      <4>1. made'[c].id = id /\ made'[c].device = d /\ n = 4
        BY <2>1, <3>2, <1>2, <1>3, <1>16
      <4> QED BY <3>2, <4>1, <1>5, <1>7
    <3> QED BY <2>1, <3>1, <3>2, <1>3
  <2> QED BY <2>1 DEF LatestInv
<1> QED BY <1>10, <1>11, <1>13, <1>14, <1>15, <1>17, <1>18 DEF IInv, DocumentInv
----------------------------------------------------------------------------
(* A commit: what is left is younger, so a field is never set back by its  *)
(* own device.                                                             *)

LEMMA CommitDone ==
    ASSUME IInv, NEW d \in Devices, Commit(d)
    PROVE  IInv'
<1> DEFINE q == queue[d]
           w == Head(queue[d])
           a == w.id
           g == w.field
           e == w.creation
<1>1. /\ q \in Seq(Write) /\ q # << >>
      /\ queue \in [Devices -> Seq(Write)]
      /\ Own(q, d, made) /\ Rising(q)
      /\ assignment' = [assignment EXCEPT ![a][g] = e]
      /\ queue' = [queue EXCEPT ![d] = Tail(@)]
      /\ UNCHANGED <<storage, form, label, uploads, made, picks>>
  BY DEF IInv, TypeOK, DocumentInv, QueueInv, Commit, screen
<1>2. /\ w \in Write /\ Tail(q) \in Seq(Write)
      /\ Own(Tail(q), d, made) /\ Rising(Tail(q))
      /\ e \in DOMAIN made /\ made[e].id = a /\ made[e].device = d
      /\ \A i \in DOMAIN Tail(q) : e <= Tail(q)[i].creation
      /\ \A i \in DOMAIN Tail(q) : \E j \in DOMAIN q : Tail(q)[i] = q[j]
      /\ \A v : Has(q, v) <=> Has(Tail(q), v) \/ v = w
  <2> HIDE DEF q
  <2>1. q \in Seq(Write) /\ q # << >> /\ Own(q, d, made) /\ Rising(q)
    BY <1>1
  <2>2. w = Head(q)
    BY DEF q
  <2> HIDE DEF w
  <2> QED BY <2>1, <2>2, Committed DEF a, e
<1>3. a \in IDs /\ g \in Fields /\ e \in Nat \ {0} /\ w = The(a, g, e)
  <2> HIDE DEF w
  <2> QED BY <1>2, AWrite
<1> HIDE DEF w, a, g, e
<1>4. /\ queue'[d] = Tail(q)
      /\ \A b \in Devices : b # d => queue'[b] = queue[b]
  BY <1>1
<1>5. /\ made \in Seq(Creation) /\ Len(made) \in Nat /\ DOMAIN made = 1..Len(made)
      /\ \A c \in DOMAIN made : made[c] \in Creation
  BY ElementOfSeq, LenProperties DEF IInv, TypeOK
<1>6. /\ assignment \in [IDs -> [Fields -> 0..Len(made)]]
      /\ assignment' \in [IDs -> [Fields -> 0..Len(made)]]
      /\ assignment'[a][g] = e
      /\ \A id \in IDs, f \in Fields :
             ~(id = a /\ f = g) => assignment'[id][f] = assignment[id][f]
  <2>1. assignment \in [IDs -> [Fields -> 0..Len(made)]]
    BY DEF IInv, TypeOK
  <2>2. e \in 0..Len(made)
    BY <1>2, <1>3, <1>5
  <2> QED BY <2>1, <2>2, <1>1, <1>3
<1>7. \A id \in IDs, f \in Fields :
          /\ assignment[id][f] \in Nat
          /\ assignment[id][f] # 0 => assignment[id][f] \in DOMAIN made
  <2>1. \A id \in IDs, f \in Fields : assignment[id][f] \in 0..Len(made)
    BY <1>6
  <2> QED BY <2>1, <1>5
<1>8. /\ \A c \in DOMAIN made : made[c].id \in IDs /\ made[c].device \in Devices
  BY <1>5 DEF Creation
<1>9. TypeOK'
  <2>1. queue' \in [Devices -> Seq(Write)]
    BY <1>1, <1>2
  <2> QED BY <1>1, <1>6, <2>1 DEF IInv, TypeOK
<1>10. FileInv'
  BY <1>1 DEF IInv, FileInv
<1>11. QueueInv'
  <2>1. \A b \in Devices : Own(queue[b], b, made) /\ Rising(queue[b])
    BY DEF IInv, DocumentInv, QueueInv
  <2>2. \A b \in Devices : Own(queue'[b], b, made) /\ Rising(queue'[b])
    BY <2>1, <1>2, <1>4
  <2> QED BY <2>2, <1>1 DEF QueueInv
<1>12. FieldInv'
  <2>1. ASSUME NEW id \in IDs, NEW f \in Fields, assignment'[id][f] # 0
        PROVE  made[assignment'[id][f]].id = id
    <3>1. CASE id = a /\ f = g
      BY <3>1, <1>2, <1>6
    <3>2. CASE ~(id = a /\ f = g)
      BY <2>1, <3>2, <1>6 DEF IInv, DocumentInv, FieldInv
    <3> QED BY <3>1, <3>2
  <2> QED BY <2>1, <1>1 DEF FieldInv
<1>13. OrderInv'
  <2>1. ASSUME NEW id \in IDs, NEW f \in Fields, NEW b \in Devices,
               assignment'[id][f] # 0, made[assignment'[id][f]].device = b,
               NEW i \in DOMAIN queue'[b]
        PROVE  assignment'[id][f] <= queue'[b][i].creation
    <3>1. CASE id = a /\ f = g
      <4>1. b = d /\ assignment'[id][f] = e
        BY <2>1, <3>1, <1>2, <1>6
      <4> QED BY <4>1, <1>2, <1>4
    <3>2. CASE ~(id = a /\ f = g)
      <4>1. assignment'[id][f] = assignment[id][f]
        BY <3>2, <1>6
      <4>2. \A j \in DOMAIN queue[b] : assignment[id][f] <= queue[b][j].creation
        BY <2>1, <4>1 DEF IInv, DocumentInv, OrderInv
      <4>3. \E j \in DOMAIN queue[b] : queue'[b][i] = queue[b][j]
        <5>1. CASE b = d
          <6>1. i \in DOMAIN Tail(q) /\ queue'[b][i] = Tail(q)[i]
            BY <2>1, <5>1, <1>4
          <6> QED BY <6>1, <5>1, <1>2
        <5>2. CASE b # d
          BY <2>1, <5>2, <1>4
        <5> QED BY <5>1, <5>2
      <4> QED BY <4>1, <4>2, <4>3
    <3> QED BY <3>1, <3>2
  <2> QED BY <2>1, <1>1 DEF OrderInv
<1>14. WholeInv'
  <2>1. ASSUME NEW c \in DOMAIN made, ~made[c].cut, NEW f \in Fields,
               assignment'[made[c].id][f] = 0
        PROVE  Coming(made[c].id, f)'
    <3> DEFINE id == made[c].id
    <3>1. id \in IDs /\ ~(id = a /\ f = g)
      BY <2>1, <1>3, <1>6, <1>8
    <3>2. Coming(id, f)
      BY <2>1, <3>1, <1>6 DEF IInv, DocumentInv, WholeInv
    <3>3. PICK b \in Devices : \E i \in DOMAIN queue[b] :
              queue[b][i].id = id /\ queue[b][i].field = f
      BY <3>2 DEF Coming
    <3>4. PICK i \in DOMAIN queue[b] : queue[b][i].id = id /\ queue[b][i].field = f
      BY <3>3
    <3>5. \E j \in DOMAIN queue'[b] : queue'[b][j].id = id /\ queue'[b][j].field = f
      <4>1. CASE b = d
        <5>1. Has(q, queue[b][i])
          BY <4>1, <3>4 DEF Has
        <5>2. queue[b][i] # w
          BY <3>1, <3>4, <1>3 DEF The
        <5>3. Has(Tail(q), queue[b][i])
          BY <5>1, <5>2, <1>2
        <5> QED BY <5>3, <4>1, <3>4, <1>4 DEF Has
      <4>2. CASE b # d
        BY <4>2, <3>4, <1>4
      <4> QED BY <4>1, <4>2
    <3> QED BY <3>5, <1>1 DEF Coming
  <2> QED BY <2>1, <1>1 DEF WholeInv
<1>15. LatestInv'
  <2>1. ASSUME NEW c \in DOMAIN made, ~made[c].cut, NEW f \in Fields,
               ~Shared(made[c].id, made[c].device)
        PROVE  \/ Has(queue'[made[c].device], The(made[c].id, f, c))
               \/ c <= assignment'[made[c].id][f]
    <3> DEFINE id == made[c].id
               b  == made[c].device
               t  == The(id, f, c)
    <3>1. id \in IDs /\ b \in Devices /\ c \in Nat
      BY <1>5, <1>8
    <3>2. Has(queue[b], t) \/ c <= assignment[id][f]
      BY <2>1 DEF IInv, DocumentInv, LatestInv
    <3>3. \A h \in DOMAIN made : made[h].id = id => made[h].device = b
      BY <2>1 DEF Shared, Draws
    <3>4. Has(queue[b], t) => Has(queue'[b], t) \/ (b = d /\ t = w)
      <4> HIDE DEF t, b
      <4>1. CASE b = d
        BY <4>1, <1>2, <1>4
      <4>2. CASE b # d
        BY <4>2, <3>1, <1>4
      <4> QED BY <4>1, <4>2
    <3>5. t = w => id = a /\ f = g /\ c = e
      BY <1>3 DEF The
    <3> HIDE DEF t, id, b
    <3>6. CASE id = a /\ f = g
      <4>1. assignment'[id][f] = e /\ b = d
        BY <3>6, <3>3, <1>2, <1>6
      <4>2. ASSUME e < c
            PROVE  Has(queue'[b], t)
        <5>1. t # w
          BY <4>2, <3>1, <3>5, <1>3
        <5>2. SUFFICES ASSUME c <= assignment[id][f] PROVE FALSE
          BY <5>1, <3>2, <3>4
        <5> DEFINE v == assignment[id][f]
        <5>3. v \in Nat /\ v # 0 /\ v \in DOMAIN made
          BY <5>2, <3>1, <4>2, <1>3, <1>7
        <5>4. made[v].id = id
          BY <5>3, <3>1 DEF IInv, DocumentInv, FieldInv
        <5>5. made[v].device = d
          BY <5>3, <5>4, <3>3, <4>1
        <5>6. \A i \in DOMAIN queue[d] : v <= queue[d][i].creation
          BY <5>3, <5>5, <3>1 DEF IInv, DocumentInv, OrderInv
        <5>7. \E i \in DOMAIN queue[d] : queue[d][i] = w
          BY <1>2 DEF Has
        <5>8. v <= e
          BY <5>6, <5>7 DEF e
        <5> QED BY <5>8, <5>3, <5>2, <4>2, <3>1, <1>3
      <4> QED BY <4>1, <4>2, <3>1, <1>3 DEF t, id, b
    <3>7. CASE ~(id = a /\ f = g)
      <4>1. assignment'[id][f] = assignment[id][f]
        BY <3>7, <3>1, <1>6
      <4> QED BY <4>1, <3>2, <3>4, <3>5, <3>7 DEF t, id, b
    <3> QED BY <3>6, <3>7
  <2>2. \A id, b : Shared(id, b) => (\E h \in Draws(id) : made[h].device # b)
    BY DEF Shared
  <2>3. ASSUME NEW c \in DOMAIN made', ~made'[c].cut, NEW f \in Fields
        PROVE  \/ Has(queue'[made'[c].device], The(made'[c].id, f, c))
               \/ c <= assignment'[made'[c].id][f]
               \/ Shared(made[c].id, made[c].device)'
    BY <2>1, <2>3, <1>1 DEF Shared, Draws
  <2> QED BY <2>3 DEF LatestInv
<1> QED BY <1>9, <1>10, <1>11, <1>12, <1>13, <1>14, <1>15 DEF IInv, DocumentInv
----------------------------------------------------------------------------
(* The whole.                                                              *)

LEMMA Initially == Init => IInv
<1> SUFFICES ASSUME Init PROVE IInv
  OBVIOUS
<1>1. << >> \in Seq(Write) /\ << >> \in Seq(Creation) /\ DOMAIN << >> = {} /\ Len(<< >>) = 0
  OBVIOUS
<1>2. TypeOK
  BY <1>1, CreationAssumption DEF Init, TypeOK
<1>3. DocumentInv
  BY <1>1 DEF Init, DocumentInv, QueueInv, FieldInv, OrderInv, WholeInv, LatestInv,
              Own, Rising
<1>4. FileInv
  BY <1>1 DEF Init, FileInv
<1> QED BY <1>2, <1>3, <1>4 DEF IInv

LEMMA Inductive == IInv /\ [Next]_vars => IInv'
<1> SUFFICES ASSUME IInv, [Next]_vars PROVE IInv'
  OBVIOUS
<1>1. ASSUME NEW d \in Devices, Step(d)
      PROVE  IInv'
  <2>1. CASE OpenScreen(d) \/ Edit(d) \/ Relaunch(d) \/ \E id \in IDs : RefuseDate(d, id)
    BY <2>1, FormKept
  <2>2. CASE \E name \in FileNames : PickFile(d, name)
    BY <2>2, FilePicked
  <2>3. CASE \E u \in uploads[d] : Store(d, u) \/ Uploaded(d, u) \/ UploadFailed(d, u)
    BY <2>3, FileStored, UploadEnded
  <2>4. ASSUME NEW id \in IDs, ConfirmCreation(d, id)
        PROVE  IInv'
    <3>1. /\ Create(d, id, 4) /\ EmptyScreen(d)
          /\ UNCHANGED <<assignment, storage, picks>> /\ uploads' = uploads
      BY <2>4 DEF ConfirmCreation
    <3>2. 4 \in 1..4
      OBVIOUS
    <3> QED BY <3>1, <3>2, Created
  <2>5. ASSUME NEW id \in IDs, NEW n \in 1..3, DieConfirming(d, id, n)
        PROVE  IInv'
    <3>1. /\ Create(d, id, n) /\ EmptyScreen(d)
          /\ UNCHANGED <<assignment, storage, picks>>
          /\ uploads' = [uploads EXCEPT ![d] = {}]
      BY <2>5 DEF DieConfirming
    <3>2. n \in 1..4
      OBVIOUS
    <3> QED BY <3>1, <3>2, Created
  <2>6. CASE Commit(d)
    BY <2>6, CommitDone
  <2> QED BY <1>1, <2>1, <2>2, <2>3, <2>4, <2>5, <2>6 DEF Step
<1>2. CASE UNCHANGED vars
  <2>1. DocumentInv'
    BY <1>2, DocumentsKept DEF vars, IInv
  <2>2. TypeOK' /\ FileInv'
    BY <1>2 DEF vars, screen, IInv, TypeOK, FileInv
  <2> QED BY <2>1, <2>2 DEF IInv
<1> QED BY <1>1, <1>2 DEF Next

LEMMA Invariant == Spec => []IInv
BY Initially, Inductive, PTL DEF Spec

(* Every variable keeps its type: a field names a creation that has been   *)
(* made, a storage name a file that has been picked.                       *)
THEOREM TypeCorrect == Spec => []TypeOK
<1>1. IInv => TypeOK
  BY DEF IInv
<1> QED BY <1>1, Invariant, PTL

(* The four setters of GenerateAssignment leave a whole assignment or none,*)
(* but for the writes on their way, unless a process dies between them.    *)
THEOREM AssignmentsAreWhole == Spec => []WholeUnlessCutShort
<1>1. ASSUME IInv
      PROVE  WholeUnlessCutShort
  <2>1. ASSUME NEW id \in IDs, CutShort(id) = {},
               NEW f \in Fields, assignment[id][f] # 0, NEW g \in Fields
        PROVE  assignment[id][g] # 0 \/ Coming(id, g)
    <3> DEFINE c == assignment[id][f]
    <3>1. c \in DOMAIN made
      <4>1. c \in 0..Len(made) /\ DOMAIN made = 1..Len(made) /\ Len(made) \in Nat
        BY <1>1, LenProperties DEF IInv, TypeOK
      <4> QED BY <4>1, <2>1
    <3>2. made[c].id = id
      BY <1>1, <2>1 DEF IInv, DocumentInv, FieldInv
    <3>3. ~made[c].cut
      BY <2>1, <3>1, <3>2 DEF CutShort, Draws
    <3> QED BY <1>1, <3>1, <3>2, <3>3 DEF IInv, DocumentInv, WholeInv
  <2> QED BY <2>1 DEF WholeUnlessCutShort
<1> QED BY <1>1, Invariant, PTL

(* An ID that one device draws again makes one assignment out of two, the  *)
(* second; a lasting mixture takes two devices or a death.                 *)
THEOREM MixturesAreExplained == Spec => []MixturesHaveACause
<1>1. ASSUME IInv
      PROVE  MixturesHaveACause
  <2>1. SUFFICES ASSUME NEW id \in IDs, \A f \in Fields : ~Coming(id, f),
                        CutShort(id) = {},
                        ~\E c, e \in Draws(id) : made[c].device # made[e].device,
                        NEW f \in Fields, NEW g \in Fields
                 PROVE  assignment[id][f] = assignment[id][g]
    BY DEF MixturesHaveACause
  <2>2. \A h \in Fields :
            /\ assignment[id][h] \in Nat
            /\ assignment[id][h] # 0 => assignment[id][h] \in Draws(id)
    <3>1. Len(made) \in Nat /\ DOMAIN made = 1..Len(made)
          /\ \A h \in Fields : assignment[id][h] \in 0..Len(made)
      BY <1>1, LenProperties DEF IInv, TypeOK
    <3>2. \A h \in Fields : assignment[id][h] # 0 => made[assignment[id][h]].id = id
      BY <1>1 DEF IInv, DocumentInv, FieldInv
    <3> QED BY <3>1, <3>2 DEF Draws
  <2>3. ASSUME NEW c \in Draws(id), NEW h \in Fields
        PROVE  c <= assignment[id][h]
    <3>1. c \in DOMAIN made /\ made[c].id = id /\ ~made[c].cut
      BY <2>1 DEF Draws, CutShort
    <3>2. ~Shared(id, made[c].device)
      BY <2>1 DEF Shared
    <3>3. made[c].device \in Devices
      <4>1. made[c] \in Creation
        BY <1>1, <3>1, ElementOfSeq, LenProperties DEF IInv, TypeOK
      <4> QED BY <4>1 DEF Creation
    <3>4. ~Has(queue[made[c].device], The(id, h, c))
      BY <2>1, <3>3 DEF Coming, Has, The
    <3> QED BY <1>1, <3>1, <3>2, <3>4 DEF IInv, DocumentInv, LatestInv
  <2>4. \A h, k \in Fields : assignment[id][h] <= assignment[id][k]
    <3>1. ASSUME NEW h \in Fields, NEW k \in Fields
          PROVE  assignment[id][h] <= assignment[id][k]
      <4>1. CASE assignment[id][h] = 0
        BY <4>1, <2>2
      <4>2. CASE assignment[id][h] # 0
        BY <4>2, <2>2, <2>3
      <4> QED BY <4>1, <4>2
    <3> QED BY <3>1
  <2>5. /\ assignment[id][f] \in Nat /\ assignment[id][g] \in Nat
        /\ assignment[id][f] <= assignment[id][g]
        /\ assignment[id][g] <= assignment[id][f]
    BY <2>2, <2>4
  <2> QED BY <2>5
<1> QED BY <1>1, Invariant, PTL

(* The file path that a document gets is that of a file that had been      *)
(* uploaded when the form was confirmed: documentPicker's completion.      *)
THEOREM FilesAreStored == Spec => []NamedFilesAreStored
<1>1. ASSUME IInv
      PROVE  NamedFilesAreStored
  <2>1. ASSUME NEW id \in IDs, assignment[id].filePath # 0
        PROVE  storage[made[assignment[id].filePath].file] # 0
    <3>1. /\ assignment \in [IDs -> [Fields -> 0..Len(made)]] /\ "filePath" \in Fields
          /\ Len(made) \in Nat /\ DOMAIN made = 1..Len(made)
      BY <1>1, LenProperties DEF IInv, TypeOK, Fields
    <3>2. assignment[id].filePath \in 0..Len(made)
      BY <3>1
    <3>3. assignment[id].filePath \in DOMAIN made
      BY <2>1, <3>1, <3>2
    <3> QED BY <1>1, <3>3 DEF IInv, FileInv
  <2> QED BY <2>1 DEF NamedFilesAreStored
<1> QED BY <1>1, Invariant, PTL
============================================================================
