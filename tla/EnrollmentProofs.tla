-------------------------- MODULE EnrollmentProofs --------------------------
(***************************************************************************)
(* Theorems of Enrollment, for any number of students, classes, devices    *)
(* and additions.  They hold of Safety: no fairness is needed.             *)
(***************************************************************************)
EXTENDS Enrollment, FiniteSetTheorems, SequenceTheorems, TLAPS

(* In a queue, whoever gives a student a class puts the student on its list*)
(* later on.                                                               *)
Follows(q) ==
    \A i \in 1..Len(q) : q[i].kind = "class" =>
        \E j \in i..Len(q) : q[j] = Join(q[i].student, q[i].class)

(* Unless a fetch has replaced currentClassroom, it has everyone whom the  *)
(* list asked for, and the rows of the overview under way.                 *)
PageFits(d) ==
    ~replaced[d] => page[d].studentIDs \subseteq current[d].studentIDs

RowFits(d) ==
    /\ ~replaced[d] /\ overview[d].waitsFor = "assignments" =>
           overview[d].row \in 1..Cardinality(current[d].studentIDs)
    /\ ~replaced[d] /\ overview[d].waitsFor = "students" =>
           overview[d].row \in 1..Cardinality(overview[d].asked)

Stored ==
    /\ \A d \in Devices : Follows(queue[d])
    /\ ClassHasStudent
    /\ NoAdditionLost

(* Only a teacher who has a class gets one.                                *)
AnswersOfAClass ==
    \A d \in Devices : answer[d] # {} => ClassOf[d] \in Classes

Fits ==
    /\ \A d \in Devices : PageFits(d)
    /\ \A d \in Devices : RowFits(d)
    /\ TrapsOnlyWhenReplaced

IInv == TypeOK /\ AnswersOfAClass /\ Stored /\ Fits
----------------------------------------------------------------------------
(* Queues.                                                                 *)

LEMMA WritesTyped ==
    ASSUME NEW s \in Students, NEW c \in Classes, NEW ids \in SUBSET Students
    PROVE  /\ SetClass(s, c) \in Write
           /\ SetStudents(c, ids) \in Write
           /\ Join(s, c) \in Write
  BY DEF SetClass, SetStudents, Join, Write

(* A queue after an addition: what it had, and four writes.                *)
LEMMA Appended ==
    ASSUME NEW q \in Seq(Write), NEW s \in Students, NEW c \in Classes,
           NEW ids \in SUBSET Students
    PROVE  LET r == q \o AddStudent(s, c, ids)
           IN  /\ r \in Seq(Write)
               /\ Len(q) \in Nat
               /\ Len(r) = Len(q) + 4
               /\ \A i \in 1..Len(q) : r[i] = q[i]
               /\ r[Len(q) + 1] = SetClass(s, c)
               /\ r[Len(q) + 2] = SetStudents(c, ids)
               /\ r[Len(q) + 3] = SetClass(s, c)
               /\ r[Len(q) + 4] = Join(s, c)
<1> DEFINE a == AddStudent(s, c, ids)
<1>1. /\ a \in Seq(Write)
      /\ Len(a) = 4
      /\ a[1] = SetClass(s, c) /\ a[2] = SetStudents(c, ids)
      /\ a[3] = SetClass(s, c) /\ a[4] = Join(s, c)
  BY WritesTyped DEF AddStudent
<1> HIDE DEF a
<1>2. /\ q \o a \in Seq(Write)
      /\ Len(q \o a) = Len(q) + Len(a)
      /\ \A i \in 1..Len(q) + Len(a) :
             (q \o a)[i] = IF i <= Len(q) THEN q[i] ELSE a[i - Len(q)]
  BY <1>1, ConcatProperties, Zenon
<1> DEFINE r == q \o a
           n == Len(q)
<1>3. n \in Nat
  OBVIOUS
<1>4. \A i \in 1..n + 4 : r[i] = IF i <= n THEN q[i] ELSE a[i - n]
  BY <1>1, <1>2
<1>5. r \in Seq(Write) /\ Len(r) = n + 4
  BY <1>1, <1>2
<1> HIDE DEF r, n
<1>6. \A i \in 1..n : r[i] = q[i]
  BY <1>3, <1>4
<1>7. r[n + 1] = a[1] /\ r[n + 2] = a[2] /\ r[n + 3] = a[3] /\ r[n + 4] = a[4]
  BY <1>3, <1>4
<1> QED
  BY <1>1, <1>3, <1>5, <1>6, <1>7 DEF r, n, a

LEMMA FollowsAppended ==
    ASSUME NEW q \in Seq(Write), NEW s \in Students, NEW c \in Classes,
           NEW ids \in SUBSET Students, Follows(q)
    PROVE  Follows(q \o AddStudent(s, c, ids))
<1> DEFINE r == q \o AddStudent(s, c, ids)
<1>0. /\ Len(q) \in Nat /\ Len(r) = Len(q) + 4
      /\ \A k \in 1..Len(q) : r[k] = q[k]
      /\ r[Len(q) + 1] = SetClass(s, c) /\ r[Len(q) + 2] = SetStudents(c, ids)
      /\ r[Len(q) + 3] = SetClass(s, c) /\ r[Len(q) + 4] = Join(s, c)
  BY Appended
<1> HIDE DEF r
<1>1. SUFFICES ASSUME NEW i \in 1..Len(r), r[i].kind = "class"
               PROVE  \E j \in i..Len(r) : r[j] = Join(r[i].student, r[i].class)
  BY DEF Follows, r
<1>2. CASE i \in 1..Len(q)
  <2>1. PICK j \in i..Len(q) : q[j] = Join(q[i].student, q[i].class)
    BY <1>0, <1>1, <1>2 DEF Follows
  <2> QED
    BY <2>1, <1>0, <1>2
<1>3. CASE i > Len(q)
  <2>1. i \in {Len(q) + 1, Len(q) + 2, Len(q) + 3, Len(q) + 4}
    BY <1>0, <1>1, <1>3
  <2>2. r[i] = SetClass(s, c)
    BY <2>1, <1>0, <1>1 DEF SetClass, SetStudents, Join
  <2>3. r[Len(q) + 4] = Join(r[i].student, r[i].class)
    BY <2>2, <1>0 DEF SetClass
  <2> QED
    BY <2>1, <2>3, <1>0
<1> QED
  BY <1>0, <1>1, <1>2, <1>3

LEMMA FollowsTail ==
    ASSUME NEW q \in Seq(Write), q # << >>, Follows(q)
    PROVE  Follows(Tail(q))
<1>1. /\ Len(q) \in Nat /\ Len(q) >= 1
      /\ Len(Tail(q)) = Len(q) - 1
      /\ \A i \in 1..Len(q) - 1 : Tail(q)[i] = q[i + 1]
  BY EmptySeq
<1>2. SUFFICES ASSUME NEW i \in 1..Len(q) - 1, q[i + 1].kind = "class"
               PROVE  \E j \in i..Len(q) - 1 :
                          q[j + 1] = Join(q[i + 1].student, q[i + 1].class)
  <2>1. SUFFICES ASSUME NEW i \in 1..Len(q) - 1, Tail(q)[i].kind = "class"
                 PROVE  \E j \in i..Len(q) - 1 :
                            Tail(q)[j] = Join(Tail(q)[i].student, Tail(q)[i].class)
    BY <1>1 DEF Follows
  <2>2. Tail(q)[i] = q[i + 1]
    BY <1>1
  <2>3. PICK j \in i..Len(q) - 1 :
            q[j + 1] = Join(q[i + 1].student, q[i + 1].class)
    BY <1>2, <2>1, <2>2
  <2>4. j \in 1..Len(q) - 1
    BY <1>1
  <2> QED
    BY <1>1, <2>2, <2>3, <2>4
<1>3. PICK j \in (i + 1)..Len(q) : q[j] = Join(q[i + 1].student, q[i + 1].class)
  BY <1>2 DEF Follows
<1>4. j - 1 \in i..Len(q) - 1 /\ q[(j - 1) + 1] = Join(q[i + 1].student, q[i + 1].class)
  BY <1>3
<1> QED
  BY <1>4
----------------------------------------------------------------------------
(* Positions are counted on finite lists.                                  *)
LEMMA PositionInRange ==
    ASSUME NEW ids \in SUBSET Students, NEW s \in ids
    PROVE  Position(s, ids) \in 1..Cardinality(ids)
<1> DEFINE upTo == {t \in ids : t <= s}
<1>1. IsFiniteSet(ids) /\ ids \subseteq Int
  BY EnrollmentAssumption, FS_Subset
<1>2. s \in upTo
  BY <1>1
<1>3. /\ IsFiniteSet(upTo)
      /\ Cardinality(upTo) \in Nat /\ Cardinality(ids) \in Nat
      /\ Cardinality(upTo) <= Cardinality(ids)
  BY <1>1, FS_Subset, FS_CardinalityType
<1>4. Cardinality(upTo) # 0
  BY <1>2, <1>3, FS_EmptySet
<1> QED
  BY <1>3, <1>4 DEF Position

LEMMA ListsAreFinite ==
    ASSUME NEW S \in SUBSET Students, NEW T \in SUBSET S
    PROVE  /\ Cardinality(S) \in Nat /\ Cardinality(T) \in Nat
           /\ Cardinality(T) <= Cardinality(S)
<1>1. IsFiniteSet(S)
  BY EnrollmentAssumption, FS_Subset
<1> QED
  BY <1>1, FS_Subset, FS_CardinalityType

(* Somebody is in every row of a list.                                     *)
LEMMA RowIsTaken ==
    ASSUME NEW ids \in SUBSET Students, NEW i \in 1..Cardinality(ids)
    PROVE  At(i, ids) \in ids
<1> DEFINE n    == Cardinality(ids)
           f    == [s \in ids |-> Position(s, ids)]
           upTo(s) == {t \in ids : t <= s}
<1>1. /\ IsFiniteSet(ids) /\ ids \subseteq Int
      /\ n \in Nat
  BY EnrollmentAssumption, FS_Subset, FS_CardinalityType
<1>2. f \in [ids -> 1..n]
  BY PositionInRange
<1>3. ASSUME NEW s \in ids, NEW t \in ids, s < t
      PROVE  Position(s, ids) # Position(t, ids)
  <2>1. /\ IsFiniteSet(upTo(t))
        /\ upTo(s) \in SUBSET upTo(t)
        /\ t \in upTo(t) /\ t \notin upTo(s)
    <3>1. s \in Int /\ t \in Int /\ \A x \in ids : x \in Int
      BY <1>1
    <3>2. t \in upTo(t) /\ t \notin upTo(s)
      BY <3>1, <1>3
    <3>3. ASSUME NEW x \in upTo(s)
          PROVE  x \in upTo(t)
      <4>1. x \in ids /\ x \in Int /\ x <= s
        BY <3>1
      <4>2. x <= t
        BY <4>1, <3>1, <1>3
      <4> QED
        BY <4>1, <4>2
    <3>4. IsFiniteSet(upTo(t))
      BY <1>1, FS_Subset
    <3> QED
      BY <3>2, <3>3, <3>4
  <2>2. Cardinality(upTo(s)) # Cardinality(upTo(t))
    BY <2>1, FS_Subset
  <2> QED
    BY <2>2 DEF Position
<1>4. IsInjective(f)
  <2>1. SUFFICES ASSUME NEW s \in ids, NEW t \in ids, f[s] = f[t]
                 PROVE  s = t
    BY DEF IsInjective
  <2>2. Position(s, ids) = Position(t, ids)
    BY <2>1
  <2>3. ~(s < t) /\ ~(t < s)
    BY <2>2, <1>3
  <2> QED
    BY <2>3, <1>1
<1>5. f \in Injection(ids, 1..n)
  BY <1>2, <1>4 DEF Injection
<1>6. IsFiniteSet(1..n) /\ Cardinality(1..n) = n
  BY <1>1, FS_Interval
<1>7. f \in Surjection(ids, 1..n)
  BY <1>5, <1>6, FS_Injection
<1>8. \E s \in ids : f[s] = i
  BY <1>7 DEF Surjection
<1>9. \E s \in ids : Cardinality(upTo(s)) = i
  BY <1>8 DEF Position
<1> QED
  BY <1>9 DEF At
----------------------------------------------------------------------------
(* What a device reads of its class are students.                          *)
LEMMA ViewTyped ==
    ASSUME TypeOK, NEW d \in Devices, NEW c, NEW base \in SUBSET Students
    PROVE  View(d, c, base) \in SUBSET Students
<1>1. \A i \in 1..Len(queue[d]) : queue[d][i] \in Write
  BY ElementOfSeq DEF TypeOK
<1>2. \A i \in 1..Len(queue[d]) :
          queue[d][i].kind = "join" => queue[d][i].student \in Students
  BY <1>1 DEF Write
<1> QED
  BY <1>2 DEF View

(* Records with one field replaced.                                        *)
LEMMA ClassroomWith ==
    ASSUME NEW r \in Classroom, NEW ids
    PROVE  [r EXCEPT !.studentIDs = ids] = [id |-> r.id, studentIDs |-> ids]
  BY DEF Classroom

LEMMA OverviewAnswered ==
    ASSUME NEW v \in Overview, NEW w
    PROVE  [v EXCEPT !.waitsFor = w] =
               [waitsFor |-> w, tapped |-> v.tapped, row |-> v.row, asked |-> v.asked]
  BY DEF Overview

(* Every step keeps the types.                                             *)
LEMMA TypeStep ==
    ASSUME TypeOK, AnswersOfAClass, NEW d \in Devices, Step(d)
    PROVE  TypeOK'
<1> USE DEF TypeOK, Goto, Running, documents, sdk, class, screens, counts, history
<1>1. CASE ShowHome(d)
  BY <1>1 DEF ShowHome, Screens
<1>2. CASE ClassroomRead(d)
  <2>1. PICK base \in {studentIDs[ClassOf[d]], cached[d]} :
           /\ cached' = [cached EXCEPT ![d] = base]
           /\ answer' = [answer EXCEPT ![d] = {View(d, ClassOf[d], base)}]
    BY <1>2 DEF ClassroomRead
  <2>2. ClassOf[d] \in Classes
    BY <1>2, EnrollmentAssumption DEF ClassroomRead
  <2>3. base \in SUBSET Students
    BY <2>2
  <2> DEFINE v == View(d, ClassOf[d], base)
  <2>4. v \in SUBSET Students
    BY <2>3, ViewTyped
  <2> HIDE DEF v
  <2>5. answer' = [answer EXCEPT ![d] = {v}]
    BY <2>1 DEF v
  <2>6. answer' \in [Devices -> SUBSET SUBSET Students]
    BY <2>4, <2>5
  <2> QED
    BY <1>2, <2>1, <2>3, <2>6 DEF ClassroomRead
<1>3. CASE ClassroomMissing(d)
  BY <1>3 DEF ClassroomMissing
<1>4. CASE ClassroomFetched(d)
  <2>1. PICK ids \in answer[d] :
            current' = [current EXCEPT ![d] = [id |-> ClassOf[d], studentIDs |-> ids]]
    BY <1>4 DEF ClassroomFetched
  <2>2. ClassOf[d] \in Classes /\ ids \in SUBSET Students
    BY <2>1 DEF AnswersOfAClass
  <2>3. current' \in [Devices -> Classroom]
    BY <2>1, <2>2 DEF Classroom
  <2> QED
    BY <1>4, <2>3 DEF ClassroomFetched
<1>5. CASE ShowList(d)
  BY <1>5 DEF ShowList, PresentList, Screens
<1>6. CASE ListFetched(d)
  BY <1>6 DEF ListFetched, Screens
<1>7. CASE \E code \in Codes : SubmitPressed(d, code)
  <2>1. PICK code \in Codes : SubmitPressed(d, code)
    BY <1>7
  <2>2. adds[d] + 1 \in 1..MaxAdds /\ adds' \in [Devices -> 0..MaxAdds]
    BY <2>1, EnrollmentAssumption DEF SubmitPressed
  <2>3. adding' \in [Devices -> SUBSET (Codes \X (1..MaxAdds))]
    BY <2>1, <2>2 DEF SubmitPressed
  <2> QED
    BY <2>1, <2>2, <2>3 DEF SubmitPressed, PresentList, Screens
<1>8. CASE \E code \in Codes, n \in 1..MaxAdds : StudentFound(d, code, n)
  <2>1. PICK code \in Codes, n \in 1..MaxAdds : StudentFound(d, code, n)
    BY <1>8
  <2> DEFINE c   == current[d].id
             ids == current[d].studentIDs \cup {code}
  <2>2. code \in Students /\ c \in Classes /\ ids \in SUBSET Students
    BY <2>1 DEF StudentFound, Classroom
  <2>3. queue[d] \o AddStudent(code, c, ids) \in Seq(Write)
    BY <2>2, Appended
  <2>4. queue' \in [Devices -> Seq(Write)]
    BY <2>1, <2>3 DEF StudentFound
  <2>5. current' \in [Devices -> Classroom]
    <3>1. [current[d] EXCEPT !.studentIDs = ids] = [id |-> c, studentIDs |-> ids]
      BY <2>2, ClassroomWith
    <3>2. current' = [current EXCEPT ![d] = [id |-> c, studentIDs |-> ids]]
      BY <2>1, <3>1 DEF StudentFound
    <3>3. [id |-> c, studentIDs |-> ids] \in Classroom
      BY <2>2 DEF Classroom
    <3> QED
      BY <3>2, <3>3
  <2>6. joined' \subseteq Students \X Classes
    BY <2>1, <2>2 DEF StudentFound
  <2> QED
    BY <2>1, <2>4, <2>5, <2>6 DEF StudentFound
<1>9. CASE \E code \in Codes, n \in 1..MaxAdds : StudentMissing(d, code, n)
  BY <1>9 DEF StudentMissing
<1>10. CASE \E s \in Students : TapStudent(d, s)
  <2>1. PICK s \in Students : TapStudent(d, s)
    BY <1>10
  <2>2. Position(s, page[d].studentIDs) \in Nat
    <3>1. s \in page[d].studentIDs /\ page[d].studentIDs \in SUBSET Students
      BY <2>1 DEF TapStudent, Classroom
    <3>2. /\ Position(s, page[d].studentIDs) \in 1..Cardinality(page[d].studentIDs)
          /\ Cardinality(page[d].studentIDs) \in Nat
      BY <3>1, PositionInRange, ListsAreFinite
    <3> QED
      BY <3>2
  <2>3. overview' \in [Devices -> Overview]
    BY <2>1, <2>2 DEF TapStudent, Overview
  <2> QED
    BY <2>1, <2>3, EnrollmentAssumption DEF TapStudent, Screens
<1>11. CASE AssignmentsFetched(d)
  <2> DEFINE v == [waitsFor |-> "students", tapped |-> overview[d].tapped,
                   row |-> overview[d].row, asked |-> current[d].studentIDs]
  <2>1. overview' = [overview EXCEPT ![d] = v]
    BY <1>11 DEF AssignmentsFetched
  <2>2. v \in Overview
    BY DEF Overview, Classroom
  <2>3. overview' \in [Devices -> Overview]
    BY <2>1, <2>2
  <2> QED
    BY <1>11, <2>3 DEF AssignmentsFetched
<1>12. CASE StudentsFetched(d)
  <2>1. /\ overview[d].asked \in SUBSET Students
        /\ overview' \in [Devices -> Overview]
    <3> DEFINE v == [waitsFor |-> "nothing", tapped |-> overview[d].tapped,
                     row |-> overview[d].row, asked |-> overview[d].asked]
    <3>1. overview' = [overview EXCEPT ![d] = v]
      BY <1>12, OverviewAnswered DEF StudentsFetched
    <3>2. v \in Overview /\ overview[d].asked \in SUBSET Students
      BY DEF Overview
    <3> QED
      BY <3>1, <3>2
  <2>2. opened' \in [Devices -> Students \cup {Nobody}]
    <3> DEFINE row == overview[d].row
               asked == overview[d].asked
    <3>1. CASE row \in 1..Cardinality(asked)
      <4>1. At(row, asked) \in Students
        BY <2>1, <3>1, RowIsTaken
      <4>2. opened' = [opened EXCEPT ![d] = At(row, asked)]
        BY <1>12, <3>1 DEF StudentsFetched
      <4> QED
        BY <4>1, <4>2
    <3>2. CASE row \notin 1..Cardinality(asked)
      BY <1>12, <3>2 DEF StudentsFetched
    <3> QED
      BY <3>1, <3>2
  <2>3. screen' \in [Devices -> Screens]
    BY <1>12 DEF StudentsFetched, Screens
  <2> QED
    BY <1>12, <2>1, <2>2, <2>3 DEF StudentsFetched
<1>13. CASE BackToList(d)
  BY <1>13 DEF BackToList, Screens
<1>14. CASE Commit(d)
  <2> DEFINE w == queue[d][1]
  <2>1. /\ w \in Write /\ Tail(queue[d]) \in Seq(Write)
        /\ Head(queue[d]) = w
    BY <1>14, HeadTailProperties DEF Commit
  <2>2. w.class \in Classes /\ (w.kind \in {"class", "join"} => w.student \in Students)
    BY <2>1 DEF Write
  <2>3. classID' \in [Students -> Classes \cup {NoClass}]
    BY <1>14, <2>1, <2>2 DEF Commit, Apply
  <2>4. studentIDs' \in [Classes -> SUBSET Students]
    <3>1. \/ studentIDs' = studentIDs
          \/ \E s \in Students, c \in Classes :
                 studentIDs' = [studentIDs EXCEPT ![c] = @ \cup {s}]
      <4>1. CASE w.kind = "join"
        BY <1>14, <2>1, <2>2, <4>1 DEF Commit, Apply
      <4>2. CASE w.kind # "join"
        BY <1>14, <2>1, <2>2, <4>2 DEF Commit, Apply
      <4> QED
        BY <4>1, <4>2
    <3>2. CASE \E s \in Students, c \in Classes :
                   studentIDs' = [studentIDs EXCEPT ![c] = @ \cup {s}]
      <4>1. PICK s \in Students, c \in Classes :
                studentIDs' = [studentIDs EXCEPT ![c] = @ \cup {s}]
        BY <3>2
      <4>2. studentIDs[c] \cup {s} \in SUBSET Students
        OBVIOUS
      <4> QED
        BY <4>1, <4>2
    <3> QED
      BY <3>1, <3>2
  <2>5. queue' \in [Devices -> Seq(Write)]
    BY <1>14, <2>1 DEF Commit
  <2>6. cached' \in [Devices -> SUBSET Students]
    BY <1>14, <2>1, <2>2 DEF Commit
  <2> QED
    BY <1>14, <2>3, <2>4, <2>5, <2>6 DEF Commit
<1>15. CASE Relaunch(d)
  BY <1>15, EnrollmentAssumption DEF Relaunch, Screens, InitialClassroom, Classroom,
     NoOverview, Overview
<1> QED
  BY <1>1, <1>2, <1>3, <1>4, <1>5, <1>6, <1>7, <1>8, <1>9, <1>10, <1>11, <1>12,
     <1>13, <1>14, <1>15 DEF Step
----------------------------------------------------------------------------
(* What the class documents and the queues promise survives every step.    *)
LEMMA QuietDocuments ==
    ASSUME Stored, UNCHANGED <<classID, studentIDs, queue, joined>>
    PROVE  Stored'
  BY DEF Stored, ClassHasStudent, NoAdditionLost, Queued

LEMMA AdditionStored ==
    ASSUME TypeOK, Stored, NEW d \in Devices, NEW code \in Codes,
           NEW n \in 1..MaxAdds, StudentFound(d, code, n)
    PROVE  Stored'
<1>0. PICK c \in Classes, ids \in SUBSET Students :
          /\ code \in Students
          /\ queue' = [queue EXCEPT ![d] = @ \o AddStudent(code, c, ids)]
          /\ joined' = joined \cup {<<code, c>>}
  <2>1. /\ code \in Students /\ current[d].id \in Classes
        /\ current[d].studentIDs \cup {code} \in SUBSET Students
    BY DEF StudentFound, TypeOK, Classroom
  <2> QED
    BY <2>1 DEF StudentFound
<1> DEFINE q == queue[d]
           r == q \o AddStudent(code, c, ids)
<1>1. /\ q \in Seq(Write)
      /\ queue' = [queue EXCEPT ![d] = r]
      /\ UNCHANGED <<classID, studentIDs>>
  BY <1>0 DEF StudentFound, TypeOK, documents
<1> HIDE DEF q
<1>2. /\ Len(q) \in Nat
      /\ Len(r) = Len(q) + 4
      /\ \A i \in 1..Len(q) : r[i] = q[i]
      /\ r[Len(q) + 4] = Join(code, c)
  BY <1>0, <1>1, Appended
<1>3. Follows(r)
  BY <1>0, <1>1, FollowsAppended DEF Stored, q
<1> HIDE DEF r
<1>4. queue'[d] = r /\ \A e \in Devices : e # d => queue'[e] = queue[e]
  BY <1>1 DEF TypeOK
<1>5. \A e \in Devices : Follows(queue'[e])
  BY <1>3, <1>4 DEF Stored
<1>6. ASSUME NEW w, Queued(w)
      PROVE  Queued(w)'
  <2>1. PICK e \in Devices : \E i \in 1..Len(queue[e]) : queue[e][i] = w
    BY <1>6 DEF Queued
  <2>2. CASE e = d
    <3>1. PICK i \in 1..Len(q) : q[i] = w
      BY <2>1, <2>2 DEF q
    <3>2. i \in 1..Len(r) /\ r[i] = w
      BY <3>1, <1>2
    <3> QED
      BY <3>2, <1>4 DEF Queued
  <2>3. CASE e # d
    BY <2>1, <2>3, <1>4 DEF Queued
  <2> QED
    BY <2>2, <2>3
<1>7. Queued(Join(code, c))'
  <2>1. Len(r) \in 1..Len(r) /\ r[Len(r)] = Join(code, c)
    BY <1>2
  <2> QED
    BY <2>1, <1>4 DEF Queued
<1>8. ClassHasStudent'
  BY <1>1, <1>6 DEF Stored, ClassHasStudent
<1>9. NoAdditionLost'
  <2>1. SUFFICES ASSUME NEW s \in Students, NEW k \in Classes, <<s, k>> \in joined'
                 PROVE  s \in studentIDs'[k] \/ Queued(Join(s, k))'
    BY DEF NoAdditionLost
  <2>2. CASE <<s, k>> \in joined
    BY <2>2, <1>1, <1>6 DEF Stored, NoAdditionLost
  <2>3. CASE s = code /\ k = c
    BY <2>3, <1>7
  <2> QED
    BY <2>1, <2>2, <2>3, <1>0
<1> QED
  BY <1>5, <1>8, <1>9 DEF Stored

LEMMA CommitStored ==
    ASSUME TypeOK, Stored, NEW d \in Devices, Commit(d)
    PROVE  Stored'
<1> DEFINE q == queue[d]
           t == Tail(queue[d])
<1>0. PICK w : w = Head(q)
  OBVIOUS
<1>1. /\ q \in Seq(Write) /\ q # << >>
      /\ queue' = [queue EXCEPT ![d] = t]
      /\ joined' = joined
      /\ w = q[1]
  BY <1>0 DEF Commit, TypeOK, history
<1>2. /\ w \in Write /\ Len(q) \in Nat /\ Len(q) >= 1 /\ Len(t) = Len(q) - 1
      /\ \A i \in 1..Len(q) - 1 : t[i] = q[i + 1]
  BY <1>0, <1>1, HeadTailProperties
<1>3. Apply(w)
  BY <1>0 DEF Commit
<1>4. Follows(q) /\ Follows(t)
  BY <1>1, FollowsTail DEF Stored
<1> HIDE DEF t
<1>5. queue'[d] = t /\ \A e \in Devices : e # d => queue'[e] = queue[e]
  BY <1>1 DEF TypeOK
<1>6. \A e \in Devices : Follows(queue'[e])
  BY <1>4, <1>5 DEF Stored
<1>7. ASSUME NEW v, Queued(v), v # w
      PROVE  Queued(v)'
  <2>1. PICK e \in Devices : \E i \in 1..Len(queue[e]) : queue[e][i] = v
    BY <1>7 DEF Queued
  <2>2. CASE e = d
    <3>1. PICK i \in 1..Len(q) : q[i] = v
      BY <2>1, <2>2
    <3>2. i - 1 \in 1..Len(q) - 1 /\ (i - 1) + 1 = i
      BY <3>1, <1>1, <1>2, <1>7
    <3>3. i - 1 \in 1..Len(t) /\ t[i - 1] = v
      BY <3>1, <3>2, <1>2
    <3> QED
      BY <3>3, <1>5 DEF Queued
  <2>3. CASE e # d
    BY <2>1, <2>3, <1>5 DEF Queued
  <2> QED
    BY <2>2, <2>3
<1>8. CASE w.kind = "join"
  <2>1. /\ w.student \in Students /\ w.class \in Classes /\ classID' = classID
        /\ studentIDs' = [studentIDs EXCEPT ![w.class] = @ \cup {w.student}]
    BY <1>2, <1>3, <1>8 DEF Apply, Write
  <2>2. ASSUME NEW s \in Students, NEW c \in Classes, s \in studentIDs[c] \/ Queued(Join(s, c))
        PROVE  s \in studentIDs'[c] \/ Queued(Join(s, c))'
    <3>1. CASE s \in studentIDs[c]
      BY <3>1, <2>1 DEF TypeOK
    <3>2. CASE Queued(Join(s, c)) /\ Join(s, c) # w
      BY <3>2, <1>7 DEF Join
    <3>3. CASE Join(s, c) = w
      BY <3>3, <2>1 DEF Join, TypeOK
    <3> QED
      BY <2>2, <3>1, <3>2, <3>3
  <2>3. ClassHasStudent'
    BY <2>1, <2>2 DEF Stored, ClassHasStudent, TypeOK
  <2>4. NoAdditionLost'
    BY <1>1, <2>2 DEF Stored, NoAdditionLost
  <2> QED
    BY <1>6, <2>3, <2>4 DEF Stored
<1>9. CASE w.kind # "join"
  <2>1. studentIDs' = studentIDs
    BY <1>3, <1>9 DEF Apply, documents
  <2>2. ASSUME NEW s \in Students, NEW c \in Classes, Queued(Join(s, c))
        PROVE  Queued(Join(s, c))'
    <3>1. Join(s, c) # w
      BY <1>9 DEF Join
    <3> QED
      BY <2>2, <3>1, <1>7 DEF Join
  <2>3. NoAdditionLost'
    BY <1>1, <2>1, <2>2 DEF Stored, NoAdditionLost
  <2>4. CASE w.kind = "list"
    <3>1. classID' = classID
      BY <1>3, <2>4 DEF Apply, documents
    <3>2. ClassHasStudent'
      BY <3>1, <2>1, <2>2 DEF Stored, ClassHasStudent, TypeOK
    <3> QED
      BY <1>6, <2>3, <3>2 DEF Stored
  <2>5. CASE w.kind = "class"
    <3>1. /\ w.student \in Students /\ w.class \in Classes
          /\ classID' = [classID EXCEPT ![w.student] = w.class]
      BY <1>2, <1>3, <2>5 DEF Apply, Write
    <3>2. Queued(Join(w.student, w.class))'
      <4>1. PICK j \in 1..Len(q) : q[j] = Join(w.student, w.class)
        BY <1>1, <1>2, <1>4, <2>5 DEF Follows
      <4>2. Queued(Join(w.student, w.class))
        BY <4>1 DEF Queued
      <4> QED
        BY <4>2, <3>1, <2>2
    <3>3. ClassHasStudent'
      <4>1. SUFFICES ASSUME NEW s \in Students, NEW c, c = classID'[s], c # NoClass
                     PROVE  s \in studentIDs'[c] \/ Queued(Join(s, c))'
        BY DEF ClassHasStudent
      <4>2. CASE s = w.student
        BY <4>1, <4>2, <3>1, <3>2 DEF TypeOK
      <4>3. CASE s # w.student
        <5>1. classID'[s] = classID[s] /\ classID[s] \in Classes
          BY <4>1, <4>3, <3>1 DEF TypeOK
        <5> QED
          BY <5>1, <4>1, <2>1, <2>2 DEF Stored, ClassHasStudent
      <4> QED
        BY <4>2, <4>3
    <3> QED
      BY <1>6, <2>3, <3>3 DEF Stored
  <2> QED
    BY <2>4, <2>5, <1>2, <1>9 DEF Write
<1> QED
  BY <1>8, <1>9
----------------------------------------------------------------------------
(* While no fetch replaces currentClassroom it only grows, and the lists   *)
(* and the rows taken from it stay inside it.                              *)
LEMMA FitsStep ==
    ASSUME TypeOK, Fits, NEW d \in Devices, Step(d)
    PROVE  Fits'
<1> USE DEF Fits, PageFits, RowFits, TrapsOnlyWhenReplaced
<1> DEFINE other == \A e \in Devices : e # d =>
               /\ current'[e] = current[e] /\ page'[e] = page[e]
               /\ overview'[e] = overview[e] /\ replaced'[e] = replaced[e]
               /\ screen'[e] = screen[e]
<1>1. SUFFICES /\ other
               /\ PageFits(d)' /\ RowFits(d)'
               /\ screen'[d] = "trapped" => replaced'[d]
  OBVIOUS
<1> USE DEF TypeOK, Goto, Running, sdk, class, screens, counts, history
<1> HIDE DEF Fits
<1>d. PageFits(d) /\ RowFits(d) /\ (screen[d] = "trapped" => replaced[d])
  BY DEF Fits
<1>2. CASE UNCHANGED <<current, page, overview, replaced>> /\
            \E where \in Screens \ {"trapped"} : Goto(d, where) \/ UNCHANGED screen
  BY <1>2, <1>d
<1>3. CASE ShowHome(d) \/ ListFetched(d) \/ BackToList(d)
  <2>1. UNCHANGED <<current, page, overview, replaced>>
    BY <1>3 DEF ShowHome, ListFetched, BackToList
  <2>2. Goto(d, "home") \/ Goto(d, "list")
    BY <1>3 DEF ShowHome, ListFetched, BackToList
  <2> QED
    BY <2>1, <2>2, <1>2 DEF Screens
<1>4. CASE ClassroomRead(d) \/ ClassroomMissing(d) \/ Commit(d)
           \/ (\E code \in Codes, n \in 1..MaxAdds : StudentMissing(d, code, n))
  <2>1. UNCHANGED <<current, page, overview, replaced, screen>>
    BY <1>4 DEF ClassroomRead, ClassroomMissing, Commit, StudentMissing
  <2> QED
    BY <2>1, <1>d
<1>5. CASE ClassroomFetched(d)
  <2>1. /\ replaced' = [replaced EXCEPT ![d] = TRUE]
        /\ UNCHANGED <<page, overview, screen>>
        /\ \E c : current' = [current EXCEPT ![d] = c]
    BY <1>5 DEF ClassroomFetched
  <2> QED
    BY <2>1
<1>6. CASE ShowList(d) \/ (\E code \in Codes : SubmitPressed(d, code))
  <2>1. /\ page' = [page EXCEPT ![d] = current[d]]
        /\ replaced' = [replaced EXCEPT ![d] = @ /\ overview[d].waitsFor # "nothing"]
        /\ screen' = [screen EXCEPT ![d] = "listing"]
        /\ UNCHANGED <<current, overview>>
    BY <1>6 DEF ShowList, SubmitPressed, PresentList
  <2>2. replaced'[d] = (replaced[d] /\ overview[d].waitsFor # "nothing")
    BY <2>1
  <2>3. other /\ screen'[d] # "trapped" /\ PageFits(d)'
    BY <2>1
  <2>4. RowFits(d)'
    BY <2>1, <2>2, <1>d
  <2> QED
    BY <2>3, <2>4
<1>7. CASE \E code \in Codes, n \in 1..MaxAdds : StudentFound(d, code, n)
  <2>1. PICK code \in Codes, n \in 1..MaxAdds : StudentFound(d, code, n)
    BY <1>7
  <2> DEFINE ids == current[d].studentIDs \cup {code}
  <2>2. /\ current' = [current EXCEPT ![d].studentIDs = ids]
        /\ code \in Students
        /\ screen[d] # "trapped"
        /\ UNCHANGED <<page, overview, replaced, screen>>
    BY <2>1 DEF StudentFound
  <2>3. /\ current'[d].studentIDs = ids
        /\ \A e \in Devices : e # d => current'[e] = current[e]
    <3>1. current[d] \in Classroom
      OBVIOUS
    <3>2. current'[d] = [id |-> current[d].id, studentIDs |-> ids]
      BY <2>2, <3>1, ClassroomWith
    <3> QED
      BY <2>2, <3>2
  <2>4. /\ Cardinality(current[d].studentIDs) \in Nat /\ Cardinality(ids) \in Nat
        /\ Cardinality(current[d].studentIDs) <= Cardinality(ids)
    <3>1. ids \in SUBSET Students /\ current[d].studentIDs \in SUBSET ids
      BY <2>2 DEF Classroom
    <3> QED
      BY <3>1, ListsAreFinite
  <2> HIDE DEF ids
  <2>5. PageFits(d)'
    BY <2>2, <2>3, <1>d DEF ids
  <2>6. RowFits(d)'
    BY <2>2, <2>3, <2>4, <1>d
  <2> QED
    BY <2>2, <2>3, <2>5, <2>6
<1>8. CASE \E s \in Students : TapStudent(d, s)
  <2>1. PICK s \in Students : TapStudent(d, s)
    BY <1>8
  <2> DEFINE ids == page[d].studentIDs
             row == Position(s, page[d].studentIDs)
  <2>2. /\ s \in ids /\ ids \in SUBSET Students
        /\ overview'[d].waitsFor = "assignments" /\ overview'[d].row = row
        /\ \A e \in Devices : e # d => overview'[e] = overview[e]
        /\ screen' = [screen EXCEPT ![d] = "student"]
        /\ UNCHANGED <<current, page, replaced>>
    BY <2>1 DEF TapStudent, Classroom
  <2>3. ~replaced[d] => row \in 1..Cardinality(current[d].studentIDs)
    <3>1. SUFFICES ASSUME ~replaced[d]
                   PROVE  row \in 1..Cardinality(current[d].studentIDs)
      OBVIOUS
    <3>2. current[d].studentIDs \in SUBSET Students /\ ids \in SUBSET current[d].studentIDs
      BY <3>1, <1>d DEF Classroom
    <3>3. row \in 1..Cardinality(ids)
      BY <2>2, PositionInRange
    <3>4. /\ Cardinality(ids) \in Nat /\ Cardinality(current[d].studentIDs) \in Nat
          /\ Cardinality(ids) <= Cardinality(current[d].studentIDs)
      BY <3>2, ListsAreFinite
    <3> QED
      BY <3>3, <3>4
  <2> HIDE DEF row
  <2>4. PageFits(d)'
    BY <2>2, <1>d
  <2>5. RowFits(d)'
    BY <2>2, <2>3
  <2> QED
    BY <2>2, <2>4, <2>5
<1>9. CASE AssignmentsFetched(d)
  <2>1. /\ overview[d].waitsFor = "assignments"
        /\ overview'[d].waitsFor = "students"
        /\ overview'[d].row = overview[d].row
        /\ overview'[d].asked = current[d].studentIDs
        /\ \A e \in Devices : e # d => overview'[e] = overview[e]
        /\ UNCHANGED <<current, page, replaced, screen>>
    BY <1>9 DEF AssignmentsFetched
  <2>2. PageFits(d)' /\ RowFits(d)'
    BY <2>1, <1>d
  <2> QED
    BY <2>1, <2>2, <1>d
<1>10. CASE StudentsFetched(d)
  <2>1. /\ overview[d].waitsFor = "students"
        /\ overview'[d].waitsFor = "nothing"
        /\ \A e \in Devices : e # d => overview'[e] = overview[e]
        /\ UNCHANGED <<current, page, replaced>>
    BY <1>10, OverviewAnswered DEF StudentsFetched
  <2>2. screen[d] # "trapped"
    BY <1>10 DEF StudentsFetched
  <2>3. CASE overview[d].row \in 1..Cardinality(overview[d].asked)
    BY <1>10, <2>1, <2>2, <2>3, <1>d DEF StudentsFetched
  <2>4. CASE overview[d].row \notin 1..Cardinality(overview[d].asked)
    <3>1. replaced[d]
      BY <2>1, <2>4, <1>d
    <3>2. screen' = [screen EXCEPT ![d] = "trapped"]
      BY <1>10, <2>4 DEF StudentsFetched
    <3> QED
      BY <2>1, <3>1, <3>2
  <2> QED
    BY <2>3, <2>4
<1>11. CASE Relaunch(d)
  <2>1. /\ current'[d] = InitialClassroom /\ page'[d] = InitialClassroom
        /\ overview'[d] = NoOverview /\ screen'[d] = "home" /\ other
    BY <1>11 DEF Relaunch
  <2> QED
    BY <2>1 DEF NoOverview
<1> QED
  BY <1>3, <1>4, <1>5, <1>6, <1>7, <1>8, <1>9, <1>10, <1>11 DEF Step
----------------------------------------------------------------------------
LEMMA InitOK == Init => IInv
<1> SUFFICES ASSUME Init PROVE IInv
  OBVIOUS
<1> USE DEF Init
<1>1. TypeOK
  BY EnrollmentAssumption DEF TypeOK, Screens, InitialClassroom, Classroom,
     NoOverview, Overview
<1>2. AnswersOfAClass
  BY DEF AnswersOfAClass
<1>3. Stored
  BY DEF Stored, Follows, ClassHasStudent, NoAdditionLost
<1>4. Fits
  BY DEF Fits, PageFits, RowFits, TrapsOnlyWhenReplaced, InitialClassroom, NoOverview
<1> QED
  BY <1>1, <1>2, <1>3, <1>4 DEF IInv

LEMMA AnswerStep ==
    ASSUME TypeOK, AnswersOfAClass, NEW d \in Devices, Step(d)
    PROVE  AnswersOfAClass'
<1> USE DEF AnswersOfAClass, class
<1>1. CASE ClassroomRead(d)
  BY <1>1, EnrollmentAssumption DEF ClassroomRead, TypeOK
<1>2. CASE ClassroomFetched(d) \/ Relaunch(d)
  BY <1>2 DEF ClassroomFetched, Relaunch, TypeOK
<1>3. CASE ShowHome(d) \/ ClassroomMissing(d) \/ ShowList(d) \/ ListFetched(d)
           \/ AssignmentsFetched(d) \/ StudentsFetched(d) \/ BackToList(d) \/ Commit(d)
  BY <1>3 DEF ShowHome, ClassroomMissing, ShowList, ListFetched, AssignmentsFetched,
     StudentsFetched, BackToList, Commit
<1>4. CASE (\E code \in Codes : SubmitPressed(d, code)) \/
           (\E s \in Students : TapStudent(d, s))
  BY <1>4 DEF SubmitPressed, TapStudent
<1>5. CASE \E code \in Codes, n \in 1..MaxAdds :
               StudentFound(d, code, n) \/ StudentMissing(d, code, n)
  BY <1>5 DEF StudentFound, StudentMissing
<1> QED
  BY <1>1, <1>2, <1>3, <1>4, <1>5 DEF Step

LEMMA StoredStep ==
    ASSUME TypeOK, Stored, NEW d \in Devices, Step(d)
    PROVE  Stored'
<1> USE DEF documents, sdk, history
<1>1. CASE Commit(d)
  BY <1>1, CommitStored
<1>2. CASE \E code \in Codes, n \in 1..MaxAdds : StudentFound(d, code, n)
  BY <1>2, AdditionStored
<1>3. CASE ShowHome(d) \/ ClassroomRead(d) \/ ClassroomMissing(d) \/ ClassroomFetched(d)
           \/ ShowList(d) \/ ListFetched(d) \/ AssignmentsFetched(d)
           \/ StudentsFetched(d) \/ BackToList(d) \/ Relaunch(d)
  <2>1. UNCHANGED <<classID, studentIDs, queue, joined>>
    BY <1>3 DEF ShowHome, ClassroomRead, ClassroomMissing, ClassroomFetched, ShowList,
       ListFetched, AssignmentsFetched, StudentsFetched, BackToList, Relaunch
  <2> QED
    BY <2>1, QuietDocuments
<1>4. CASE \/ \E code \in Codes : SubmitPressed(d, code)
           \/ \E s \in Students : TapStudent(d, s)
           \/ \E code \in Codes, n \in 1..MaxAdds : StudentMissing(d, code, n)
  <2>1. UNCHANGED <<classID, studentIDs, queue, joined>>
    BY <1>4 DEF SubmitPressed, TapStudent, StudentMissing
  <2> QED
    BY <2>1, QuietDocuments
<1> QED
  BY <1>1, <1>2, <1>3, <1>4 DEF Step

LEMMA StutterOK ==
    ASSUME IInv, UNCHANGED vars
    PROVE  IInv'
<1>1. UNCHANGED <<classID, studentIDs, queue, cached, current, loading, answer, adding,
                  adds, screen, page, overview, views, opened, joined, replaced>>
  BY DEF vars, documents, sdk, class, screens, counts, history
<1>2. TypeOK'
  BY <1>1 DEF IInv, TypeOK
<1>3. AnswersOfAClass'
  BY <1>1 DEF IInv, AnswersOfAClass
<1>4. Stored'
  BY <1>1, QuietDocuments DEF IInv
<1>5. Fits'
  BY <1>1 DEF IInv, Fits, PageFits, RowFits, TrapsOnlyWhenReplaced
<1> QED
  BY <1>2, <1>3, <1>4, <1>5 DEF IInv

(* The inductive invariant of Enrollment.                                  *)
THEOREM Invariance == Safety => []IInv
<1>1. Init => IInv
  BY InitOK
<1>2. ASSUME IInv, [Next]_vars
      PROVE  IInv'
  <2>1. CASE UNCHANGED vars
    BY <1>2, <2>1, StutterOK
  <2>2. CASE Next
    <3>1. PICK d \in Devices : Step(d)
      BY <2>2 DEF Next
    <3> QED
      BY <1>2, <3>1, TypeStep, AnswerStep, StoredStep, FitsStep DEF IInv
  <2> QED
    BY <1>2, <2>1, <2>2
<1> QED
  BY <1>1, <1>2, PTL DEF Safety

(* Documents, caches, queues, screens and fetches keep their types.        *)
THEOREM TypeCorrect == Safety => []TypeOK
  BY Invariance, PTL DEF IInv

(* A student whose document names a class is on that class's list, or in a *)
(* queue that will put them there (AddStudent's order of writes).          *)
THEOREM ClassesHaveTheirStudents == Safety => []ClassHasStudent
<1>1. IInv => ClassHasStudent
  BY DEF IInv, Stored
<1> QED
  BY <1>1, Invariance, PTL

(* No addition is lost, by any number of devices that add to one class from*)
(* local lists of their own.                                               *)
THEOREM AdditionsAreKept == Safety => []NoAdditionLost
<1>1. IInv => NoAdditionLost
  BY DEF IInv, Stored
<1> QED
  BY <1>1, Invariance, PTL

(* A row that the overview does not find was made stale by the homepage's  *)
(* fetch, never by an addition alone.                                      *)
THEOREM OverviewTrapCauses == Safety => []TrapsOnlyWhenReplaced
<1>1. IInv => TrapsOnlyWhenReplaced
  BY DEF IInv, Fits
<1> QED
  BY <1>1, Invariance, PTL
============================================================================
