------------------------ MODULE ReportScreensProofs ------------------------
(***************************************************************************)
(* Theorems of ReportScreens, for all sets of students, assignments,       *)
(* classes and names, and for every bound.                                 *)
(***************************************************************************)
EXTENDS ReportScreens, FiniteSetTheorems, SequenceTheorems, TLAPS

(* The inductive invariant.  A page holds copies made at different times:  *)
(* of the class, of its rows and, from the screen before it, of the list   *)
(* in which a row was tapped.  The documents' lists only grow, so a later  *)
(* copy of one class contains an earlier one; what is said of a row number *)
(* follows from which copy is the later, hence from the order of fetches.  *)

\* The screens by role and place.
ScreenOf == [
    teacher |-> [list     |-> {"none", "TeacherAssignmentPage",
                               "TeacherOverviewStudentList"},
                 overview |-> {"none", "TeacherAssignmentOverview"},
                 answers  |-> {"none", "TeacherStudentAnswers"},
                 results  |-> {"none"}],
    parent  |-> [list     |-> {"none", "ParentStudentOverview"},
                 overview |-> {"none"},
                 answers  |-> {"none", "ParentStudentAssignmentOverview"},
                 results  |-> {"none"}],
    student |-> [list     |-> {"none", "StudentAssignmentsView"},
                 overview |-> {"none"},
                 answers  |-> {"none", "StudentAssignmentOverview"},
                 results  |-> {"none", "QuizResults"}]]

\* w is what is left of the requests r.
Suffix(w, r) ==
    /\ Len(w) <= Len(r)
    /\ \A i \in 1..Len(w) : w[i] = r[Len(r) - Len(w) + i]

\* Copies of a class, and of its list, that may be older than its document.
Copies ==
    {x \in Class :
        IF x.id \in Classes
        THEN x.assignmentIDs \subseteq assignmentIDs[x.id]
             /\ x.studentIDs \subseteq studentIDs[x.id]
        ELSE x.assignmentIDs = {} /\ x.studentIDs = {}}

Lists ==
    {o \in [id : Classes \cup {Dot, NoClass}, rows : SUBSET Assignments] :
        IF o.id \in Classes THEN o.rows \subseteq assignmentIDs[o.id]
                            ELSE o.rows = {}}

\* On the class's list, or about to be put there.
Member(s, c) == s \in studentIDs[c] \/ <<s, c>> \in joining

\* How many documents a page still waits for.
Left(p) == Len(p.waits)

\* The page has the class it will count in.
Loaded(p) ==
    \/ p.screen \in CountsInCurrent
    \/ Left(p) < (IF p.screen = "ParentStudentAssignmentOverview" THEN 3 ELSE 2)

Fetched(p) ==
    /\ p.class \in Copies
    /\ p.origin \in Lists
    /\ ~Loaded(p) =>
           IF Left(p) > (IF p.screen = "ParentStudentAssignmentOverview" THEN 3 ELSE 2)
           THEN p.class = Empty(NoClass)
           ELSE p.class.id \in Classes /\ Member(p.student, p.class.id)

(* What a row number means in the class copy x of the class it was tapped  *)
(* in: it is in range, and if x has the assignments of the list it was a   *)
(* row of, it is the row of the tapped one, unless two have one name.      *)
NameClash(p) == \E a \in p.origin.rows \ {p.tapped} : name[a] = name[p.tapped]

Counts(p, x) ==
    x.id = p.origin.id =>
        /\ p.origin.rows \subseteq x.assignmentIDs
        /\ InRange(p.row, x.assignmentIDs)
        /\ x.assignmentIDs = p.origin.rows =>
               p.row = RowOf(p.tapped, p.origin.rows) \/ NameClash(p)

ListRows(p) ==
    /\ p.rows = p.origin.rows
    /\ p.screen = "StudentAssignmentsView" /\ p.waits = << >> =>
           p.origin.id = p.class.id

TappedRows(p) ==
    p.screen # "none" =>
        /\ p.tapped \in p.origin.rows
        /\ p.byName => p.screen = "StudentAssignmentOverview"
        /\ ~p.byName => p.row = RowOf(p.tapped, p.origin.rows)
        /\ Loaded(p) => Counts(p, p.class)

ResultsRows(p) ==
    p.screen # "none" =>
        /\ p.tapped \in p.origin.rows
        /\ p.class.id = p.origin.id => p.origin.rows \subseteq p.class.assignmentIDs
        /\ p.waits = << >> => Counts(p, current)

RowsOf(k, p) ==
    CASE k = "list"    -> ListRows(p)
      [] k = "results" -> ResultsRows(p)
      [] OTHER         -> TappedRows(p)

ShownRow(p) ==
    p.shown # None =>
        /\ p.screen # "none"
        /\ p.waits = << >>
        /\ p.rows = p.class.assignmentIDs
        /\ InRange(p.row, p.rows)
        /\ p.shown = Shown(p)

\* currentClassroom is never older than what was taken from it.
Follows(p) ==
    /\ p.origin.id = current.id => p.origin.rows \subseteq current.assignmentIDs
    /\ p.screen \in CountsInCurrent =>
           /\ p.class.id = current.id =>
                  p.class.assignmentIDs \subseteq current.assignmentIDs
           /\ role = "teacher" => p.class.id \in {Dot, current.id}

\* The students a page has, and the averages of nobody.
StudentsOf(p) ==
    /\ p.screen = "TeacherAssignmentOverview" /\ p.students # {} =>
           /\ p.class.id = TeacherClass
           /\ p.students \subseteq studentIDs[TeacherClass]
    /\ p.screen = "ParentStudentAssignmentOverview" /\ Left(p) < 3 =>
           p.early \/ p.student \in p.class.studentIDs
    /\ p.screen = "ParentStudentAssignmentOverview" /\ Left(p) < 2 =>
           p.early \/ p.student \in p.students

NanOf(p) ==
    /\ p.waits # << >> => p.average = "none"
    /\ p.average = "nan" =>
           \/ p.screen = "TeacherOverviewStudentList"
           \/ p.screen = "ParentStudentAssignmentOverview" /\ p.early

Good(k) ==
    {p \in Page :
        /\ p.screen \in ScreenOf[role][k]
        /\ Suffix(p.waits, Requests[p.screen])
        /\ Fetched(p)
        /\ RowsOf(k, p)
        /\ ShownRow(p)
        /\ Follows(p)
        /\ StudentsOf(p)
        /\ NanOf(p)}

PagesInv == \A k \in Places : pages[k] \in Good(k)

\* A student in a class is on its list or about to be.
JoiningInv == \A s \in Students : classID[s] \in Classes => Member(s, classID[s])

\* Answers run out only after a problem was added.
LateInv ==
    \A a \in Assignments \ late, s \in Students :
        results[a][s] > 0 => problems[a] <= results[a][s]

CurrentInv ==
    /\ current \in Copies
    /\ role = "parent" => loading = NoClass /\ current.id = Dot
    /\ role = "teacher" => /\ loading \in {NoClass, TeacherClass}
                           /\ current.id \in {Dot, TeacherClass}

(* From the list a student opens to the overview after the quiz, the       *)
(* homepage's fetch replaces currentClassroom at most once: while it is    *)
(* under way, every page of the chain still counts in the same class.      *)
ChainInv ==
    /\ at = "answers" => pages["answers"].screen # "none"
    /\ at = "results" => pages["results"].screen = "QuizResults"
    /\ pages["results"].screen = "QuizResults" =>
           /\ at \in {"results", "trapped"}
           /\ pages["results"].class.id # pages["results"].origin.id =>
                  loading = NoClass /\ current.id = pages["results"].class.id
    /\ role = "student" /\ loading # NoClass =>
           /\ at = "list" => pages["list"].class.id = current.id
           /\ at \in {"answers", "results"} =>
                  /\ pages[at].class.id = current.id
                  /\ pages[at].origin.id = current.id

IInv ==
    /\ TypeOK
    /\ PagesInv
    /\ JoiningInv
    /\ LateInv
    /\ CurrentInv
    /\ ChainInv
----------------------------------------------------------------------------
(* Rows.  The rows of a finite list of numbers are its elements in         *)
(* increasing order: RowOf and At are inverse to each other.               *)
LEMMA FinitePart ==
    ASSUME NEW U, IsFiniteSet(U), NEW S \in SUBSET U
    PROVE  /\ IsFiniteSet(S) /\ Cardinality(S) \in Nat
           /\ \A T \in SUBSET S : /\ Cardinality(T) \in Nat
                                  /\ Cardinality(T) <= Cardinality(S)
                                  /\ Cardinality(T) = Cardinality(S) => T = S
<1>1. IsFiniteSet(S)
  BY FS_Subset
<1> QED
  BY <1>1, FS_Subset, FS_CardinalityType

LEMMA RowBound ==
    ASSUME NEW S \in SUBSET Nat, IsFiniteSet(S), NEW a
    PROVE  /\ RowOf(a, S) \in Nat
           /\ a \in S => RowOf(a, S) < Cardinality(S)
<1> DEFINE below == {b \in S : b < a}
<1>1. below \in SUBSET S
  OBVIOUS
<1>2. a \in S => a \notin below
  OBVIOUS
<1> QED
  BY <1>1, <1>2, FinitePart DEF RowOf

LEMMA RowsGrow ==
    ASSUME NEW S \in SUBSET Nat, IsFiniteSet(S), NEW a \in S, NEW b \in S, a < b
    PROVE  RowOf(a, S) < RowOf(b, S)
<1> DEFINE A == {c \in S : c < a}
           B == {c \in S : c < b}
<1>0. a \in Nat /\ b \in Nat /\ \A c \in S : c \in Nat
  OBVIOUS
<1>1. A \in SUBSET B /\ a \in B /\ a \notin A
  <2>1. ASSUME NEW c \in A PROVE c \in B
    BY <1>0
  <2>2. a \in B /\ a \notin A
    BY <1>0
  <2> HIDE DEF A, B
  <2> QED
    BY <2>1, <2>2
<1>2. B \in SUBSET S
  OBVIOUS
<1>3. /\ Cardinality(A) \in Nat /\ Cardinality(B) \in Nat
      /\ Cardinality(A) <= Cardinality(B)
      /\ Cardinality(A) = Cardinality(B) => A = B
  <2>1. IsFiniteSet(B)
    BY <1>2, FinitePart
  <2> HIDE DEF A, B
  <2> QED
    BY <2>1, <1>1, FinitePart
<1>4. Cardinality(A) # Cardinality(B)
  BY <1>1, <1>3
<1> QED
  BY <1>3, <1>4 DEF RowOf

LEMMA RowsDiffer ==
    ASSUME NEW S \in SUBSET Nat, IsFiniteSet(S), NEW a \in S, NEW b \in S,
           RowOf(a, S) = RowOf(b, S)
    PROVE  a = b
<1>1. a \in Nat /\ b \in Nat
  OBVIOUS
<1>2. RowOf(a, S) \in Nat
  BY RowBound
<1>3. ~(a < b) /\ ~(b < a)
  BY <1>2, RowsGrow
<1> QED
  BY <1>1, <1>3

(* Every number below the length is the row of one element.                *)
LEMMA AtRow ==
    ASSUME NEW S \in SUBSET Nat, IsFiniteSet(S), NEW i \in Nat, InRange(i, S)
    PROVE  At(i, S) \in S /\ RowOf(At(i, S), S) = i
<1> DEFINE n == Cardinality(S)
           f == [a \in S |-> RowOf(a, S)]
<1>1. n \in Nat
  BY FS_CardinalityType
<1>2. f \in [S -> 0..(n - 1)]
  BY <1>1, RowBound
<1>3. ASSUME NEW a \in S, NEW b \in S, f[a] = f[b] PROVE a = b
  BY <1>3, RowsDiffer
<1>a. IsInjective(f)
  BY <1>3 DEF IsInjective
<1>4. f \in Injection(S, 0..(n - 1))
  BY <1>2, <1>a DEF Injection
<1>5. IsFiniteSet(0..(n - 1)) /\ Cardinality(0..(n - 1)) = n
  <2> HIDE DEF n
  <2>1. /\ IsFiniteSet(0..(n - 1))
        /\ Cardinality(0..(n - 1)) = IF 0 > n - 1 THEN 0 ELSE (n - 1) - 0 + 1
    BY <1>1, FS_Interval
  <2> QED
    BY <1>1, <2>1
<1>6. f \in Surjection(S, 0..(n - 1))
  BY <1>4, <1>5, FS_Injection
<1>7. i \in 0..(n - 1)
  BY <1>1 DEF InRange
<1>8. \E a \in S : f[a] = i
  BY <1>6, <1>7 DEF Surjection
<1>9. \E a \in S : RowOf(a, S) = i
  BY <1>8
<1> QED
  BY <1>9 DEF At

LEMMA RowAt ==
    ASSUME NEW S \in SUBSET Nat, IsFiniteSet(S), NEW a \in S
    PROVE  InRange(RowOf(a, S), S) /\ At(RowOf(a, S), S) = a
<1>1. RowOf(a, S) \in Nat /\ InRange(RowOf(a, S), S)
  BY RowBound DEF InRange
<1>2. At(RowOf(a, S), S) \in S /\ RowOf(At(RowOf(a, S), S), S) = RowOf(a, S)
  BY <1>1, AtRow
<1> QED
  BY <1>1, <1>2, RowsDiffer

(* A list with elements has a first and a last one.                        *)
LEMMA Extremes ==
    ASSUME NEW S \in SUBSET Nat, IsFiniteSet(S), S # {}
    PROVE  /\ \E a \in S : \A b \in S : a <= b
           /\ \E a \in S : \A b \in S : b <= a
<1> DEFINE n == Cardinality(S)
<1>1. n \in Nat /\ n # 0
  BY FS_CardinalityType, FS_EmptySet
<1>2. ASSUME NEW i \in {0, n - 1}
      PROVE  \E a \in S : a \in Nat /\ RowOf(a, S) = i
  <2>1. i \in Nat /\ InRange(i, S)
    BY <1>1 DEF InRange
  <2>2. At(i, S) \in S /\ RowOf(At(i, S), S) = i
    BY <2>1, AtRow
  <2> QED
    BY <2>2
<1>3. PICK a \in S : a \in Nat /\ RowOf(a, S) = 0
  BY <1>2
<1>4. PICK z \in S : z \in Nat /\ RowOf(z, S) = n - 1
  BY <1>2
<1>5. ASSUME NEW b \in S PROVE a <= b /\ b <= z
  <2>1. b \in Nat /\ RowOf(b, S) \in Nat /\ RowOf(b, S) < n
    BY RowBound
  <2>2. ~(b < a)
    BY <2>1, <1>3, RowsGrow
  <2>3. ~(z < b)
    BY <2>1, <1>1, <1>4, RowsGrow
  <2> QED
    BY <2>1, <2>2, <2>3, <1>3, <1>4
<1> QED
  BY <1>5

(* The lists of this model are finite sets of numbers.                     *)
LEMMA Numbered ==
    /\ \A S \in SUBSET Assignments : S \in SUBSET Nat /\ IsFiniteSet(S)
    /\ \A S \in SUBSET Students : S \in SUBSET Nat /\ IsFiniteSet(S)
  BY ReportsAssumption, FS_Subset

LEMMA FirstIn ==
    ASSUME NEW S \in SUBSET Students, S # {}
    PROVE  First(S) \in S
<1>1. \E a \in S : \A b \in S : a <= b
  BY Numbered, Extremes
<1> QED
  BY <1>1 DEF First

(* A row of a list is a row of every longer list.                          *)
LEMMA InRangeGrows ==
    ASSUME NEW S \in SUBSET Assignments, NEW R \in SUBSET S, NEW i \in Nat,
           InRange(i, R)
    PROVE  InRange(i, S)
<1>1. /\ Cardinality(R) \in Nat /\ Cardinality(S) \in Nat
      /\ Cardinality(R) <= Cardinality(S)
  BY Numbered, FinitePart
<1> QED
  BY <1>1 DEF InRange

----------------------------------------------------------------------------
(* Requests.  What a page waits for is the end of its screen's requests,   *)
(* so the answer that arrives tells how many are left.                     *)
LEMMA TailOfSuffix ==
    ASSUME NEW T, NEW w \in Seq(T), NEW r \in Seq(T), Suffix(w, r), w # << >>
    PROVE  /\ Tail(w) \in Seq(T) /\ Suffix(Tail(w), r)
           /\ Len(Tail(w)) = Len(w) - 1
           /\ Len(w) \in 1..Len(r) /\ Len(r) \in Nat
           /\ Head(w) = r[Len(r) - Len(w) + 1]
<1>1. /\ Len(w) \in Nat /\ Len(r) \in Nat /\ Len(w) # 0 /\ Head(w) = w[1]
  BY EmptySeq, LenProperties, HeadTailProperties
<1>2. /\ Tail(w) \in Seq(T) /\ Len(Tail(w)) = Len(w) - 1
      /\ \A i \in 1..Len(Tail(w)) : Tail(w)[i] = w[i + 1]
  BY <1>1, HeadTailProperties
<1>3. ASSUME NEW i \in 1..Len(Tail(w))
      PROVE  Tail(w)[i] = r[Len(r) - Len(Tail(w)) + i]
  <2>1. i + 1 \in 1..Len(w)
    BY <1>1, <1>2
  <2>2. w[i + 1] = r[Len(r) - Len(w) + (i + 1)]
    BY <2>1 DEF Suffix
  <2>3. Len(r) - Len(w) + (i + 1) = Len(r) - Len(Tail(w)) + i
    BY <1>1, <1>2
  <2> QED
    BY <1>2, <2>2, <2>3
<1>4. Len(Tail(w)) <= Len(r)
  BY <1>1, <1>2 DEF Suffix
<1>5. w[1] = r[Len(r) - Len(w) + 1]
  BY <1>1 DEF Suffix
<1> QED
  BY <1>1, <1>2, <1>3, <1>4, <1>5 DEF Suffix

Kinds == {"student", "class", "students", "assignments"}

LEMMA RequestsTyped ==
    ASSUME NEW screen \in Screens
    PROVE  Requests[screen] \in Seq(Kinds)
<1>1. << >> \in Seq(Kinds) /\ <<"assignments">> \in Seq(Kinds)
  BY DEF Kinds
<1>2. <<"students", "assignments">> \in Seq(Kinds)
  BY DEF Kinds
<1>3. <<"assignments", "students">> \in Seq(Kinds)
  BY DEF Kinds
<1>4. <<"student", "class", "assignments">> \in Seq(Kinds)
  BY DEF Kinds
<1>5. <<"student", "class", "students", "assignments">> \in Seq(Kinds)
  BY DEF Kinds
<1>a. Requests["none"] \in Seq(Kinds)
  BY <1>1 DEF Requests
<1>b. Requests["TeacherAssignmentPage"] \in Seq(Kinds)
  BY <1>1 DEF Requests
<1>c. Requests["TeacherAssignmentOverview"] \in Seq(Kinds)
  BY <1>2 DEF Requests
<1>d. Requests["TeacherOverviewStudentList"] \in Seq(Kinds)
  BY <1>3 DEF Requests
<1>e. Requests["TeacherStudentAnswers"] \in Seq(Kinds)
  BY <1>4 DEF Requests
<1>f. Requests["ParentStudentOverview"] \in Seq(Kinds)
  BY <1>4 DEF Requests
<1>g. Requests["ParentStudentAssignmentOverview"] \in Seq(Kinds)
  BY <1>5 DEF Requests
<1>h. Requests["StudentAssignmentsView"] \in Seq(Kinds)
  BY <1>1 DEF Requests
<1>i. Requests["StudentAssignmentOverview"] \in Seq(Kinds)
  BY <1>1 DEF Requests
<1>j. Requests["QuizResults"] \in Seq(Kinds)
  BY <1>1 DEF Requests
<1> QED
  BY <1>a, <1>b, <1>c, <1>d, <1>e, <1>f, <1>g, <1>h, <1>i, <1>j DEF Screens

LEMMA Stage ==
    ASSUME NEW p \in Page, Suffix(p.waits, Requests[p.screen]), p.waits # << >>
    PROVE  /\ Head(p.waits) = "student" =>
                  \/ /\ p.screen \in {"TeacherStudentAnswers", "ParentStudentOverview"}
                     /\ Left(p) = 3
                  \/ /\ p.screen = "ParentStudentAssignmentOverview"
                     /\ Left(p) = 4
           /\ Head(p.waits) = "class" =>
                  \/ /\ p.screen \in {"TeacherStudentAnswers", "ParentStudentOverview"}
                     /\ Left(p) = 2
                  \/ /\ p.screen = "ParentStudentAssignmentOverview"
                     /\ Left(p) = 3
           /\ Head(p.waits) = "students" =>
                  \/ /\ p.screen \in {"TeacherAssignmentOverview",
                                      "ParentStudentAssignmentOverview"}
                     /\ Left(p) = 2
                  \/ /\ p.screen = "TeacherOverviewStudentList"
                     /\ Left(p) = 1
           /\ Head(p.waits) = "assignments" =>
                  \/ p.screen # "TeacherOverviewStudentList" /\ Left(p) = 1
                  \/ p.screen = "TeacherOverviewStudentList" /\ Left(p) = 2
           /\ p.screen # "none"
           /\ Tail(p.waits) \in Seq(Kinds)
           /\ Suffix(Tail(p.waits), Requests[p.screen])
           /\ Left(p) \in Nat
           /\ \A q : q.waits = Tail(p.waits) => Left(q) = Left(p) - 1
<1> DEFINE w == p.waits
           r == Requests[p.screen]
<1>1. p.screen \in Screens /\ w \in Seq(Kinds)
  BY DEF Page, Kinds
<1>2. r \in Seq(Kinds)
  BY <1>1, RequestsTyped
<1>3. /\ Tail(w) \in Seq(Kinds) /\ Suffix(Tail(w), r)
      /\ Len(Tail(w)) = Len(w) - 1
      /\ Len(w) \in 1..Len(r) /\ Head(w) = r[Len(r) - Len(w) + 1]
  BY <1>2, <1>1, TailOfSuffix
<1> DEFINE n == Len(w)
           h == Head(w)
<1>4. n \in 1..Len(r) /\ h = r[Len(r) - n + 1]
  BY <1>3
<1>5. /\ Left(p) = n /\ n \in Nat
      /\ \A q : q.waits = Tail(p.waits) => Left(q) = n - 1
  BY <1>1, <1>3, LenProperties DEF Left
<1>6. p.screen # "none"
  <2>1. p.screen = "none" => r = << >>
    BY DEF Requests
  <2>2. Len(<< >>) = 0
    OBVIOUS
  <2> QED
    BY <1>4, <2>1, <2>2
<1> HIDE DEF w, n, h
<1>b. CASE p.screen = "TeacherAssignmentPage"
  BY <1>3, <1>4, <1>5, <1>b DEF Requests, w, h
<1>c. CASE p.screen = "TeacherAssignmentOverview"
  <2>1. r = <<"students", "assignments">>
    BY <1>c DEF Requests
  <2> HIDE DEF r
  <2>2. Len(r) = 2 /\ r[1] = "students" /\ r[2] = "assignments"
    BY <2>1
  <2>3. n \in 1..2 /\ h = r[2 - n + 1]
    BY <1>4, <2>2
  <2>4. /\ n = 2 => h = "students"
        /\ n = 1 => h = "assignments"
    BY <2>2, <2>3
  <2> QED
    BY <1>3, <1>5, <1>c, <2>3, <2>4 DEF w, h, r
<1>d. CASE p.screen = "TeacherOverviewStudentList"
  <2>1. r = <<"assignments", "students">>
    BY <1>d DEF Requests
  <2> HIDE DEF r
  <2>2. Len(r) = 2 /\ r[1] = "assignments" /\ r[2] = "students"
    BY <2>1
  <2>3. n \in 1..2 /\ h = r[2 - n + 1]
    BY <1>4, <2>2
  <2>4. /\ n = 2 => h = "assignments"
        /\ n = 1 => h = "students"
    BY <2>2, <2>3
  <2> QED
    BY <1>3, <1>5, <1>d, <2>3, <2>4 DEF w, h, r
<1>e. CASE p.screen = "TeacherStudentAnswers"
  <2>1. r = <<"student", "class", "assignments">>
    BY <1>e DEF Requests
  <2> HIDE DEF r
  <2>2. Len(r) = 3 /\ r[1] = "student" /\ r[2] = "class" /\ r[3] = "assignments"
    BY <2>1
  <2>3. n \in 1..3 /\ h = r[3 - n + 1]
    BY <1>4, <2>2
  <2>4. /\ n = 3 => h = "student"
        /\ n = 2 => h = "class"
        /\ n = 1 => h = "assignments"
    BY <2>2, <2>3
  <2> QED
    BY <1>3, <1>5, <1>e, <2>3, <2>4 DEF w, h, r
<1>f. CASE p.screen = "ParentStudentOverview"
  <2>1. r = <<"student", "class", "assignments">>
    BY <1>f DEF Requests
  <2> HIDE DEF r
  <2>2. Len(r) = 3 /\ r[1] = "student" /\ r[2] = "class" /\ r[3] = "assignments"
    BY <2>1
  <2>3. n \in 1..3 /\ h = r[3 - n + 1]
    BY <1>4, <2>2
  <2>4. /\ n = 3 => h = "student"
        /\ n = 2 => h = "class"
        /\ n = 1 => h = "assignments"
    BY <2>2, <2>3
  <2> QED
    BY <1>3, <1>5, <1>f, <2>3, <2>4 DEF w, h, r
<1>g. CASE p.screen = "ParentStudentAssignmentOverview"
  <2>1. r = <<"student", "class", "students", "assignments">>
    BY <1>g DEF Requests
  <2> HIDE DEF r
  <2>2. Len(r) = 4 /\ r[1] = "student" /\ r[2] = "class" /\ r[3] = "students" /\ r[4] = "assignments"
    BY <2>1
  <2>3. n \in 1..4 /\ h = r[4 - n + 1]
    BY <1>4, <2>2
  <2>4. /\ n = 4 => h = "student"
        /\ n = 3 => h = "class"
        /\ n = 2 => h = "students"
        /\ n = 1 => h = "assignments"
    BY <2>2, <2>3
  <2> QED
    BY <1>3, <1>5, <1>g, <2>3, <2>4 DEF w, h, r
<1>h. CASE p.screen = "StudentAssignmentsView"
  BY <1>3, <1>4, <1>5, <1>h DEF Requests, w, h
<1>i. CASE p.screen = "StudentAssignmentOverview"
  BY <1>3, <1>4, <1>5, <1>i DEF Requests, w, h
<1>j. CASE p.screen = "QuizResults"
  BY <1>3, <1>4, <1>5, <1>j DEF Requests, w, h
<1> QED
  BY <1>1, <1>6, <1>b, <1>c, <1>d, <1>e, <1>f, <1>g, <1>h, <1>i, <1>j DEF Screens

----------------------------------------------------------------------------
(* Pages while the documents change.  The lists of the documents only      *)
(* grow, so no copy becomes newer than its document.                       *)
DocumentsGrow ==
    /\ \A c \in Classes : /\ assignmentIDs[c] \subseteq assignmentIDs'[c]
                          /\ studentIDs[c] \subseteq studentIDs'[c]
    /\ \A s \in Students, c \in Classes : Member(s, c) => Member(s, c)'
    /\ UNCHANGED <<name, role>>

LEMMA CopiesStay ==
    ASSUME DocumentsGrow
    PROVE  Copies \subseteq Copies' /\ Lists \subseteq Lists'
<1>1. ASSUME NEW x \in Copies PROVE x \in Copies'
  BY DEF DocumentsGrow, Copies, Class
<1>2. ASSUME NEW o \in Lists PROVE o \in Lists'
  BY DEF DocumentsGrow, Lists
<1> QED
  BY <1>1, <1>2

\* What is said of a page without currentClassroom.
LEMMA FetchedStays ==
    ASSUME DocumentsGrow, NEW p \in Page, Fetched(p)
    PROVE  Fetched(p)'
<1>1. p.class \in Copies' /\ p.origin \in Lists'
  BY CopiesStay DEF Fetched
<1>2. p.student \in Students
  BY DEF Page
<1> QED
  BY <1>1, <1>2 DEF Fetched, DocumentsGrow, Loaded, Empty

LEMMA CountsStay ==
    ASSUME DocumentsGrow, NEW p, NEW x, Counts(p, x)
    PROVE  Counts(p, x)'
  BY DEF DocumentsGrow, Counts, NameClash, InRange, RowOf

LEMMA StudentsStay ==
    ASSUME DocumentsGrow, NEW p, StudentsOf(p)
    PROVE  StudentsOf(p)'
  BY ReportsAssumption DEF DocumentsGrow, StudentsOf

LEMMA GoodStays ==
    ASSUME DocumentsGrow, current' = current, NEW k \in Places, NEW p \in Good(k)
    PROVE  p \in Good(k)'
<1>0. p \in Page
  BY DEF Good
<1>1. p.screen \in ScreenOf[role'][k] /\ Suffix(p.waits, Requests[p.screen])'
  BY DEF Good, DocumentsGrow, Suffix
<1>2. Fetched(p)'
  BY <1>0, FetchedStays DEF Good
<1>3. RowsOf(k, p)'
  <2>1. CASE k = "list"
    BY <2>1 DEF Good, RowsOf, ListRows
  <2>2. CASE k = "results"
    <3>1. ResultsRows(p)
      BY <2>2 DEF Good, RowsOf
    <3>2. p.screen # "none" /\ p.waits = << >> => Counts(p, current)
      BY <3>1 DEF ResultsRows
    <3>3. p.screen # "none" /\ p.waits = << >> => Counts(p, current)'
      <4> DEFINE x == current
      <4>1. Counts(p, x) => Counts(p, current)'
        BY DEF DocumentsGrow, Counts, NameClash, InRange, RowOf
      <4> QED
        BY <3>2, <4>1
    <3>4. ResultsRows(p)'
      BY <3>1, <3>3 DEF ResultsRows
    <3> QED
      BY <2>2, <3>4 DEF RowsOf
  <2>3. CASE k \notin {"list", "results"}
    <3>1. TappedRows(p)
      BY <2>3 DEF Good, RowsOf
    <3>2. Counts(p, p.class) => Counts(p, p.class)'
      BY CountsStay
    <3>3. TappedRows(p)'
      BY <3>1, <3>2 DEF TappedRows, Loaded, RowOf
    <3> QED
      BY <2>3, <3>3 DEF RowsOf
  <2> QED
    BY <2>1, <2>2, <2>3
<1>4. ShownRow(p)'
  BY DEF Good, ShownRow, InRange, Shown, At, RowOf
<1>5. Follows(p)'
  BY DEF Good, Follows, DocumentsGrow
<1>6. StudentsOf(p)'
  BY StudentsStay DEF Good
<1>7. NanOf(p)'
  BY DEF Good, NanOf
<1> QED
  BY <1>0, <1>1, <1>2, <1>3, <1>4, <1>5, <1>6, <1>7 DEF Good

(* currentClassroom is replaced by the class as it is now.  A page after   *)
(* the quiz has counted in the class it was tapped in only if that is not  *)
(* the one that now arrives for the first time.                            *)
LEMMA CountsLoaded ==
    ASSUME TypeOK, CurrentInv, loading \in Classes, current' = Document(loading),
           UNCHANGED <<documents, name, role>>,
           NEW p \in Page, Counts(p, current), p.origin \in Lists,
           p.origin.id = loading => current.id = loading
    PROVE  Counts(p, current)'
<1> SUFFICES ASSUME p.origin.id = loading
             PROVE  /\ p.origin.rows \subseteq assignmentIDs[loading]
                    /\ InRange(p.row, assignmentIDs[loading])
                    /\ assignmentIDs[loading] = p.origin.rows =>
                           p.row = RowOf(p.tapped, p.origin.rows) \/ NameClash(p)
  BY DEF Counts, Document, documents, NameClash, InRange, RowOf
<1>1. /\ p.origin.rows \subseteq current.assignmentIDs
      /\ InRange(p.row, current.assignmentIDs)
      /\ current.assignmentIDs = p.origin.rows =>
             p.row = RowOf(p.tapped, p.origin.rows) \/ NameClash(p)
  BY DEF Counts
<1>2. current.assignmentIDs \in SUBSET assignmentIDs[loading]
  BY DEF CurrentInv, Copies
<1>3. p.origin.rows \subseteq assignmentIDs[loading]
  BY DEF Lists
<1>4. InRange(p.row, assignmentIDs[loading])
  <2>1. /\ Cardinality(current.assignmentIDs) \in Nat
        /\ Cardinality(assignmentIDs[loading]) \in Nat
        /\ Cardinality(current.assignmentIDs) <= Cardinality(assignmentIDs[loading])
    <3>1. assignmentIDs[loading] \in SUBSET Assignments
      BY DEF TypeOK
    <3> QED
      BY <1>2, <3>1, Numbered, FinitePart
  <2>2. p.row \in Nat
    BY DEF Page
  <2> QED
    BY <1>1, <2>1, <2>2 DEF InRange
<1>5. assignmentIDs[loading] = p.origin.rows => current.assignmentIDs = p.origin.rows
  BY <1>1, <1>2
<1> QED
  BY <1>1, <1>3, <1>4, <1>5

LEMMA GoodLoads ==
    ASSUME TypeOK, CurrentInv, loading \in Classes, current' = Document(loading),
           UNCHANGED <<documents, name, role>>,
           NEW k \in Places, NEW p \in Good(k),
           k = "results" /\ p.screen # "none" /\ p.origin.id = loading =>
               current.id = loading
    PROVE  p \in Good(k)'
<1>0. p \in Page
  BY DEF Good
<1>1. p.screen \in ScreenOf[role'][k] /\ Suffix(p.waits, Requests[p.screen])'
  BY DEF Good, Suffix
<1>2. Fetched(p) /\ Fetched(p)'
  BY DEF Good, Fetched, Copies, Lists, Loaded, Empty, Member, documents
<1>3. RowsOf(k, p)'
  <2>1. CASE k = "list"
    BY <2>1 DEF Good, RowsOf, ListRows
  <2>2. CASE k = "results"
    <3>1. ResultsRows(p)
      BY <2>2 DEF Good, RowsOf
    <3>2. p.screen # "none" /\ p.waits = << >> => Counts(p, current)
      BY <3>1 DEF ResultsRows
    <3>3. p.screen # "none" /\ p.waits = << >> => Counts(p, current)'
      BY <1>0, <1>2, <2>2, <3>2, CountsLoaded DEF Fetched
    <3>4. ResultsRows(p)'
      BY <3>1, <3>3 DEF ResultsRows
    <3> QED
      BY <2>2, <3>4 DEF RowsOf
  <2>3. CASE k \notin {"list", "results"}
    <3>1. TappedRows(p)
      BY <2>3 DEF Good, RowsOf
    <3>2. Counts(p, p.class) => Counts(p, p.class)'
      BY DEF Counts, NameClash, InRange, RowOf
    <3>3. TappedRows(p)'
      BY <3>1, <3>2 DEF TappedRows, Loaded, RowOf
    <3> QED
      BY <2>3, <3>3 DEF RowsOf
  <2> QED
    BY <2>1, <2>2, <2>3
<1>4. ShownRow(p)'
  BY DEF Good, ShownRow, InRange, Shown, At, RowOf
<1>5. Follows(p)'
  <2>1. p.origin.id = loading => p.origin.rows \subseteq assignmentIDs[loading]
    BY <1>2 DEF Fetched, Lists
  <2>2. p.class.id = loading => p.class.assignmentIDs \subseteq assignmentIDs[loading]
    BY <1>2 DEF Fetched, Copies
  <2>3. role = "teacher" => loading = TeacherClass /\ current.id \in {Dot, TeacherClass}
    BY ReportsAssumption DEF CurrentInv
  <2>4. p.screen \in CountsInCurrent /\ role = "teacher" => p.class.id \in {Dot, loading}
    BY <2>3 DEF Good, Follows
  <2>5. current'.id = loading /\ current'.assignmentIDs = assignmentIDs[loading]
    BY DEF Document
  <2> QED
    BY <2>1, <2>2, <2>4, <2>5 DEF Follows
<1>6. StudentsOf(p)'
  BY DEF Good, StudentsOf, documents
<1>7. NanOf(p)'
  BY DEF Good, NanOf
<1> QED
  BY <1>0, <1>1, <1>2, <1>3, <1>4, <1>5, <1>6, <1>7 DEF Good

----------------------------------------------------------------------------
(* Pages that are presented.                                               *)
LEMMA EmptyIsCopy ==
    ASSUME NEW c \in {Dot, NoClass}
    PROVE  Empty(c) \in Copies /\ Empty(c).id = c
  BY ReportsAssumption DEF Empty, Copies, Class

LEMMA NoPageGood ==
    ASSUME me \in Students, role \in {"teacher", "parent", "student"},
           NEW k \in Places
    PROVE  NoPage \in Good(k)
<1> DEFINE p == NoPage
<1>1. /\ p.screen = "none" /\ p.waits = << >> /\ p.student = me
      /\ p.class = Empty(Dot) /\ p.students = {} /\ p.rows = {} /\ p.row = 0
      /\ p.shown = None /\ p.complete = FALSE /\ p.average = "none"
      /\ p.tapped = None /\ p.origin = [id |-> Dot, rows |-> {}]
      /\ p.byName = FALSE /\ p.early = FALSE
  BY DEF NoPage
<1>2. p \in Page
  <2>1. Empty(Dot) \in Class
    BY DEF Empty, Class
  <2> QED
    BY <2>1 DEF NoPage, Page, Screens
<1> HIDE DEF p
<1>3. p.screen \in ScreenOf[role][k]
  BY <1>1 DEF ScreenOf, Places
<1>4. Suffix(p.waits, Requests[p.screen])
  BY <1>1 DEF Suffix, Requests
<1>5. Left(p) = 0
  BY <1>1 DEF Left
<1>6. Fetched(p)
  <2>1. p.class \in Copies
    BY <1>1, EmptyIsCopy
  <2>2. p.origin \in Lists
    BY <1>1, ReportsAssumption DEF Lists
  <2>3. Loaded(p)
    BY <1>1, <1>5 DEF Loaded
  <2> QED
    BY <2>1, <2>2, <2>3 DEF Fetched
<1>7. RowsOf(k, p)
  BY <1>1 DEF RowsOf, ListRows, ResultsRows, TappedRows
<1>8. ShownRow(p) /\ Follows(p) /\ StudentsOf(p) /\ NanOf(p)
  BY <1>1 DEF ShownRow, Follows, StudentsOf, NanOf, CountsInCurrent
<1> QED
  BY <1>2, <1>3, <1>4, <1>6, <1>7, <1>8 DEF Good, p

LEMMA NewPageGood ==
    ASSUME current \in Copies, NEW k \in Places,
           NEW screen \in Screens \ {"none"}, screen \in ScreenOf[role][k],
           NEW s \in Students, NEW i \in Nat, NEW a \in Assignments \cup {None},
           NEW list \in Lists, NEW named \in BOOLEAN,
           list.id = current.id => list.rows \subseteq current.assignmentIDs,
           RowsOf(k, NewPage(screen, s, i, a, list, named))
    PROVE  NewPage(screen, s, i, a, list, named) \in Good(k)
<1> DEFINE p == NewPage(screen, s, i, a, list, named)
<1>1. /\ p.screen = screen /\ p.waits = Requests[screen] /\ p.student = s
      /\ p.class = IF screen \in CountsInCurrent THEN current ELSE Empty(NoClass)
      /\ p.students = {} /\ p.rows = {} /\ p.row = i /\ p.shown = None
      /\ p.complete = FALSE /\ p.average = "none" /\ p.tapped = a
      /\ p.origin = list /\ p.byName = named /\ p.early = FALSE
  BY DEF NewPage
<1>2. /\ Requests[screen] \in Seq(Kinds) /\ Len(Requests[screen]) \in Nat
      /\ screen \in {"TeacherStudentAnswers", "ParentStudentOverview"} =>
             Left(p) = 3
      /\ screen = "ParentStudentAssignmentOverview" => Left(p) = 4
  <2>1. Requests[screen] \in Seq(Kinds)
    BY RequestsTyped
  <2>2. /\ Len(<<"student", "class", "assignments">>) = 3
        /\ Len(<<"student", "class", "students", "assignments">>) = 4
    OBVIOUS
  <2>3. Len(Requests[screen]) \in Nat
    BY <2>1, LenProperties
  <2> HIDE DEF p
  <2>4. Left(p) = Len(Requests[screen])
    BY <1>1 DEF Left
  <2> QED
    BY <2>1, <2>2, <2>3, <2>4 DEF Requests
<1>3. p.class \in Copies
  BY <1>1, EmptyIsCopy
<1>4. p \in Page
  <2>1. (IF screen \in CountsInCurrent THEN current ELSE Empty(NoClass)) \in Class
    BY <1>1, <1>3 DEF Copies
  <2>2. list \in [id : Classes \cup {Dot, NoClass}, rows : SUBSET Assignments]
    BY DEF Lists
  <2> QED
    BY <1>2, <2>1, <2>2 DEF NewPage, Page, Kinds
<1> HIDE DEF p
<1>5. Suffix(p.waits, Requests[p.screen])
  BY <1>1, <1>2 DEF Suffix
<1>6. Fetched(p)
  <2>1. CASE screen \in CountsInCurrent
    BY <1>1, <1>3, <2>1 DEF Fetched, Loaded
  <2>2. CASE screen \notin CountsInCurrent
    <3>1. screen \in {"TeacherStudentAnswers", "ParentStudentOverview",
                      "ParentStudentAssignmentOverview"}
      BY <2>2 DEF CountsInCurrent, Screens
    <3>2. Left(p) > (IF p.screen = "ParentStudentAssignmentOverview" THEN 3 ELSE 2)
      BY <3>1, <1>1, <1>2
    <3> QED
      BY <1>1, <1>3, <2>2, <3>2 DEF Fetched
  <2> QED
    BY <2>1, <2>2
<1>7. RowsOf(k, p)
  BY DEF p
<1>8. ShownRow(p) /\ NanOf(p)
  BY <1>1 DEF ShownRow, NanOf
<1>9. Follows(p)
  BY <1>1 DEF Follows
<1>10. StudentsOf(p)
  BY <1>1, <1>2 DEF StudentsOf
<1> QED
  BY <1>1, <1>4, <1>5, <1>6, <1>7, <1>8, <1>9, <1>10 DEF Good, p

----------------------------------------------------------------------------
(* Pages that are filled.  Where each screen lies, and how many requests   *)
(* it has.                                                                 *)
LEMMA PlaceOf ==
    ASSUME role \in {"teacher", "parent", "student"}, NEW k \in Places,
           NEW screen, screen \in ScreenOf[role][k]
    PROVE  /\ screen \in {"TeacherAssignmentPage", "TeacherOverviewStudentList",
                          "ParentStudentOverview", "StudentAssignmentsView"} =>
                  k = "list"
           /\ screen = "TeacherAssignmentOverview" =>
                  k = "overview" /\ role = "teacher"
           /\ screen \in {"TeacherStudentAnswers", "StudentAssignmentOverview",
                          "ParentStudentAssignmentOverview"} => k = "answers"
           /\ screen = "QuizResults" => k = "results" /\ role = "student"
           /\ screen = "ParentStudentOverview" => role = "parent"
           /\ role = "student" =>
                  screen \in {"none", "StudentAssignmentsView",
                              "StudentAssignmentOverview", "QuizResults"}
           /\ screen \in Screens
<1>1. CASE role = "teacher"
  BY <1>1 DEF ScreenOf, Places, Screens
<1>2. CASE role = "parent"
  BY <1>2 DEF ScreenOf, Places, Screens
<1>3. CASE role = "student"
  BY <1>3 DEF ScreenOf, Places, Screens
<1> QED
  BY <1>1, <1>2, <1>3

\* The page that asks for its next document.
NextRequest(p) ==
    [p EXCEPT !.waits = Tail(@),
              !.class = IF p.screen \in CountsInCurrent THEN current ELSE @]

LEMMA NextRequestFields ==
    ASSUME NEW p \in Page, current \in Copies, Tail(p.waits) \in Seq(Kinds)
    PROVE  /\ NextRequest(p) \in Page
           /\ NextRequest(p).screen = p.screen
           /\ NextRequest(p).waits = Tail(p.waits)
           /\ NextRequest(p).student = p.student
           /\ NextRequest(p).class =
                  IF p.screen \in CountsInCurrent THEN current ELSE p.class
           /\ NextRequest(p).students = p.students
           /\ NextRequest(p).rows = p.rows
           /\ NextRequest(p).row = p.row
           /\ NextRequest(p).shown = p.shown
           /\ NextRequest(p).average = p.average
           /\ NextRequest(p).tapped = p.tapped
           /\ NextRequest(p).origin = p.origin
           /\ NextRequest(p).byName = p.byName
           /\ NextRequest(p).early = p.early
<1>1. (IF p.screen \in CountsInCurrent THEN current ELSE p.class) \in Class
  BY DEF Copies, Page
<1> QED
  BY <1>1 DEF NextRequest, Page, Kinds

\* The answers that can leave something to ask for.
GotStudent(p) == [p EXCEPT !.class = Empty(classID[p.student])]

GotClass(p) ==
    [p EXCEPT !.class = Document(p.class.id),
              !.early = <<p.student, p.class.id>> \in joining]

GotStudents(p) == [p EXCEPT !.students = p.class.studentIDs]

GotRows(p) == [p EXCEPT !.rows = p.class.assignmentIDs]

GotList(p) ==
    [GotRows(p) EXCEPT
        !.origin = [id |-> GotRows(p).class.id, rows |-> p.class.assignmentIDs]]

LEMMA GotStudentGood ==
    ASSUME TypeOK, JoiningInv, current \in Copies, NEW k \in Places,
           NEW p \in Good(k), p.waits # << >>, Head(p.waits) = "student",
           classID[p.student] # NoClass
    PROVE  /\ Left(GotStudent(p)) > 1
           /\ NextRequest(GotStudent(p)) \in Good(k)
           /\ NextRequest(GotStudent(p)).screen = p.screen
<1> DEFINE c == classID[p.student]
           q == NextRequest(GotStudent(p))
<1>0. p \in Page /\ Suffix(p.waits, Requests[p.screen])
  BY DEF Good
<1>1. c \in Classes /\ Member(p.student, c) /\ p.student \in Students
  BY <1>0 DEF TypeOK, Page, JoiningInv
<1>2. Empty(c) \in Copies /\ Empty(c).id = c /\ Empty(c) \in Class
  BY <1>1 DEF Empty, Copies, Class
<1>3. /\ GotStudent(p) \in Page /\ GotStudent(p).waits = p.waits
      /\ GotStudent(p).class = Empty(c)
  BY <1>0, <1>2 DEF GotStudent, Page
<1>4. /\ \/ p.screen \in {"TeacherStudentAnswers", "ParentStudentOverview"}
            /\ Left(p) = 3
         \/ p.screen = "ParentStudentAssignmentOverview" /\ Left(p) = 4
      /\ Tail(p.waits) \in Seq(Kinds) /\ Suffix(Tail(p.waits), Requests[p.screen])
      /\ \A x : x.waits = Tail(p.waits) => Left(x) = Left(p) - 1
  BY <1>0, Stage
<1>5. /\ q \in Page /\ q.screen = p.screen /\ q.waits = Tail(p.waits)
      /\ q.student = p.student /\ q.class = Empty(c) /\ q.rows = p.rows
      /\ q.row = p.row /\ q.shown = p.shown /\ q.average = p.average
      /\ q.tapped = p.tapped /\ q.origin = p.origin /\ q.byName = p.byName
      /\ q.early = p.early
  BY <1>0, <1>3, <1>4, NextRequestFields DEF GotStudent, CountsInCurrent, Page
<1> HIDE DEF q
<1>6. /\ q.screen \notin CountsInCurrent
      /\ \/ q.screen \in {"TeacherStudentAnswers", "ParentStudentOverview"}
            /\ Left(q) = 2
         \/ q.screen = "ParentStudentAssignmentOverview" /\ Left(q) = 3
  BY <1>4, <1>5 DEF CountsInCurrent
<1>7. /\ ~Loaded(q)
      /\ ~(Left(q) > (IF q.screen = "ParentStudentAssignmentOverview" THEN 3 ELSE 2))
  BY <1>6 DEF Loaded
<1>9. Fetched(q)
  BY <1>1, <1>2, <1>5, <1>7 DEF Fetched, Good
<1>10. RowsOf(k, q)
  BY <1>5, <1>6, <1>7, PlaceOf DEF Good, RowsOf, ListRows, TappedRows, TypeOK
<1>11. ShownRow(q) /\ NanOf(q)
  BY <1>5, <1>6 DEF Good, ShownRow, NanOf
<1>12. Follows(q) /\ StudentsOf(q)
  BY <1>5, <1>6 DEF Good, Follows, StudentsOf
<1>13. q \in Good(k)
  BY <1>4, <1>5, <1>9, <1>10, <1>11, <1>12 DEF Good
<1>14. Left(GotStudent(p)) = Left(p)
  BY <1>3 DEF Left
<1> QED
  BY <1>4, <1>5, <1>13, <1>14 DEF q

LEMMA GotClassGood ==
    ASSUME TypeOK, current \in Copies, NEW k \in Places,
           NEW p \in Good(k), p.waits # << >>, Head(p.waits) = "class"
    PROVE  /\ Left(GotClass(p)) > 1
           /\ NextRequest(GotClass(p)) \in Good(k)
           /\ NextRequest(GotClass(p)).screen = p.screen
<1> DEFINE c == p.class.id
           e == <<p.student, c>> \in joining
           q == NextRequest(GotClass(p))
<1>0. p \in Page /\ Suffix(p.waits, Requests[p.screen]) /\ p.student \in Students
  BY DEF Good, Page
<1>1. /\ \/ p.screen \in {"TeacherStudentAnswers", "ParentStudentOverview"}
            /\ Left(p) = 2
         \/ p.screen = "ParentStudentAssignmentOverview" /\ Left(p) = 3
      /\ Tail(p.waits) \in Seq(Kinds) /\ Suffix(Tail(p.waits), Requests[p.screen])
      /\ \A x : x.waits = Tail(p.waits) => Left(x) = Left(p) - 1
  BY <1>0, Stage
<1>2. p.screen \notin CountsInCurrent
  BY <1>1 DEF CountsInCurrent
<1>3. c \in Classes /\ Member(p.student, c)
  <2>1. ~Loaded(p)
    BY <1>1, <1>2 DEF Loaded
  <2>2. ~(Left(p) > (IF p.screen = "ParentStudentAssignmentOverview" THEN 3 ELSE 2))
    BY <1>1
  <2> QED
    BY <2>1, <2>2 DEF Good, Fetched
<1>4. /\ Document(c) \in Copies /\ Document(c) \in Class
      /\ Document(c).id = c /\ Document(c).assignmentIDs = assignmentIDs[c]
      /\ Document(c).studentIDs = studentIDs[c]
  BY <1>3 DEF Document, Copies, Class, TypeOK
<1>e. e \in BOOLEAN /\ (e = FALSE => p.student \in studentIDs[c])
  BY <1>3 DEF Member
<1>d. GotClass(p) = [p EXCEPT !.class = Document(c), !.early = e]
  BY DEF GotClass
<1> HIDE DEF e
<1>5. /\ GotClass(p) \in Page /\ GotClass(p).waits = p.waits
      /\ GotClass(p).screen = p.screen /\ GotClass(p).student = p.student
      /\ GotClass(p).class = Document(c) /\ GotClass(p).rows = p.rows
      /\ GotClass(p).row = p.row /\ GotClass(p).shown = p.shown
      /\ GotClass(p).average = p.average /\ GotClass(p).tapped = p.tapped
      /\ GotClass(p).origin = p.origin /\ GotClass(p).byName = p.byName
      /\ GotClass(p).early = e
  BY <1>0, <1>4, <1>d, <1>e DEF Page
<1>6. /\ q \in Page /\ q.screen = p.screen /\ q.waits = Tail(p.waits)
      /\ q.student = p.student /\ q.class = Document(c) /\ q.rows = p.rows
      /\ q.row = p.row /\ q.shown = p.shown /\ q.average = p.average
      /\ q.tapped = p.tapped /\ q.origin = p.origin /\ q.byName = p.byName
      /\ q.early = e
  BY <1>1, <1>2, <1>5, NextRequestFields
<1> HIDE DEF q
<1>7. /\ q.screen \notin CountsInCurrent
      /\ \/ q.screen \in {"TeacherStudentAnswers", "ParentStudentOverview"}
            /\ Left(q) = 1
         \/ q.screen = "ParentStudentAssignmentOverview" /\ Left(q) = 2
  BY <1>1, <1>2, <1>6
<1>8. Loaded(q)
  BY <1>7 DEF Loaded
<1>9. Fetched(q)
  BY <1>4, <1>6, <1>8 DEF Fetched, Good
<1>10. RowsOf(k, q)
  <2>1. CASE p.screen = "ParentStudentOverview"
    <3>1. k = "list"
      BY <2>1, PlaceOf DEF Good, TypeOK
    <3> QED
      BY <2>1, <3>1, <1>6 DEF Good, RowsOf, ListRows
  <2>2. CASE p.screen # "ParentStudentOverview"
    <3>1. k = "answers"
      BY <2>2, <1>1, PlaceOf DEF Good, TypeOK
    <3>2. TappedRows(p) /\ p.screen # "none" /\ p.screen # "StudentAssignmentOverview"
      BY <3>1, <1>1 DEF Good, RowsOf
    <3>3. /\ p.tapped \in p.origin.rows /\ ~p.byName
          /\ p.row = RowOf(p.tapped, p.origin.rows)
      BY <3>2, <1>0 DEF TappedRows, Page
    <3>4. Counts(q, q.class)
      <4> SUFFICES ASSUME c = p.origin.id
                   PROVE  /\ p.origin.rows \subseteq assignmentIDs[c]
                          /\ InRange(p.row, assignmentIDs[c])
        BY <1>4, <1>6, <3>3 DEF Counts
      <4>1. p.origin.rows \in SUBSET assignmentIDs[c]
        BY <1>3 DEF Good, Fetched, Lists
      <4>2. assignmentIDs[c] \in SUBSET Assignments
        BY <1>3 DEF TypeOK
      <4>3. p.origin.rows \in SUBSET Nat /\ IsFiniteSet(p.origin.rows)
        BY <4>1, <4>2, Numbered
      <4>4. InRange(p.row, p.origin.rows) /\ p.row \in Nat
        BY <4>3, <3>3, <1>0, RowAt DEF Page
      <4> QED
        BY <4>1, <4>2, <4>4, InRangeGrows
    <3>5. TappedRows(q)
      BY <1>6, <3>3, <3>4 DEF TappedRows
    <3> QED
      BY <3>1, <3>5 DEF RowsOf
  <2> QED
    BY <2>1, <2>2
<1>11. ShownRow(q) /\ NanOf(q)
  BY <1>6, <1>7 DEF Good, ShownRow, NanOf
<1>12. Follows(q)
  BY <1>6, <1>7 DEF Good, Follows
<1>13. StudentsOf(q)
  BY <1>4, <1>6, <1>7, <1>e DEF StudentsOf
<1>14. q \in Good(k)
  BY <1>1, <1>6, <1>9, <1>10, <1>11, <1>12, <1>13 DEF Good
<1>15. Left(GotClass(p)) = Left(p)
  BY <1>5 DEF Left
<1> QED
  BY <1>1, <1>6, <1>14, <1>15 DEF q

\* The row of the one tapped is in range in every later copy of the list.
LEMMA TappedCounts ==
    ASSUME NEW p \in Page, NEW x \in Class, ~p.byName,
           p.tapped \in p.origin.rows, p.row = RowOf(p.tapped, p.origin.rows),
           x.id = p.origin.id => p.origin.rows \subseteq x.assignmentIDs
    PROVE  Counts(p, x)
<1> SUFFICES ASSUME x.id = p.origin.id
             PROVE  InRange(p.row, x.assignmentIDs)
  BY DEF Counts
<1>1. /\ p.origin.rows \in SUBSET x.assignmentIDs
      /\ x.assignmentIDs \in SUBSET Assignments /\ p.row \in Nat
      /\ p.origin.rows \in SUBSET Assignments
  BY DEF Page, Class
<1>2. p.origin.rows \in SUBSET Nat /\ IsFiniteSet(p.origin.rows)
  BY <1>1, Numbered
<1>3. InRange(p.row, p.origin.rows)
  BY <1>2, RowAt
<1> QED
  BY <1>1, <1>3, InRangeGrows

LEMMA GotStudentsGood ==
    ASSUME TypeOK, CurrentInv, NEW k \in Places,
           NEW p \in Good(k), p.waits # << >>, Head(p.waits) = "students",
           p.screen # "TeacherOverviewStudentList"
    PROVE  /\ Left(GotStudents(p)) > 1
           /\ NextRequest(GotStudents(p)) \in Good(k)
           /\ NextRequest(GotStudents(p)).screen = p.screen
<1> DEFINE g == GotStudents(p)
           q == NextRequest(g)
<1>0. /\ p \in Page /\ Suffix(p.waits, Requests[p.screen])
      /\ p.class \in Copies /\ p.class \in Class /\ p.origin \in Lists
      /\ current \in Copies /\ current \in Class
  BY DEF Good, Page, Fetched, CurrentInv, Copies
<1>1. /\ p.screen \in {"TeacherAssignmentOverview", "ParentStudentAssignmentOverview"}
      /\ Left(p) = 2
      /\ Tail(p.waits) \in Seq(Kinds) /\ Suffix(Tail(p.waits), Requests[p.screen])
      /\ \A x : x.waits = Tail(p.waits) => Left(x) = Left(p) - 1
  BY <1>0, Stage
<1>2. /\ g \in Page /\ g.waits = p.waits
      /\ g.screen = p.screen /\ g.student = p.student /\ g.class = p.class
      /\ g.students = p.class.studentIDs /\ g.rows = p.rows /\ g.row = p.row
      /\ g.shown = p.shown /\ g.average = p.average /\ g.tapped = p.tapped
      /\ g.origin = p.origin /\ g.byName = p.byName /\ g.early = p.early
  BY <1>0 DEF GotStudents, Page, Class
<1> HIDE DEF g
<1>3. /\ q \in Page /\ q.waits = Tail(p.waits)
      /\ q.screen = p.screen /\ q.student = p.student
      /\ q.class = IF p.screen \in CountsInCurrent THEN current ELSE p.class
      /\ q.students = p.class.studentIDs /\ q.rows = p.rows /\ q.row = p.row
      /\ q.shown = p.shown /\ q.average = p.average /\ q.tapped = p.tapped
      /\ q.origin = p.origin /\ q.byName = p.byName /\ q.early = p.early
  BY <1>0, <1>1, <1>2, NextRequestFields
<1> HIDE DEF q
<1>4. Left(q) = 1 /\ Loaded(q) /\ Loaded(p)
  BY <1>1, <1>3 DEF Loaded, CountsInCurrent
<1>5. k \in {"overview", "answers"}
  BY <1>1, PlaceOf DEF Good, TypeOK
<1>6. TappedRows(p) /\ p.screen # "none" /\ p.screen # "StudentAssignmentOverview"
  BY <1>1, <1>5 DEF Good, RowsOf
<1>7. /\ q.tapped \in q.origin.rows /\ ~q.byName
      /\ q.row = RowOf(q.tapped, q.origin.rows)
  BY <1>0, <1>3, <1>6 DEF TappedRows, Page
<1>x. Left(g) = Left(p)
  BY <1>2 DEF Left
<1> SUFFICES q \in Good(k)
  BY <1>1, <1>3, <1>x DEF q, g
<1>8. CASE p.screen = "TeacherAssignmentOverview"
  <2>0. p.screen \in CountsInCurrent /\ role = "teacher"
    BY <1>8, PlaceOf DEF CountsInCurrent, Good, TypeOK
  <2>1. q.class = current
    BY <2>0, <1>3
  <2>2. Fetched(q)
    BY <1>0, <1>3, <1>4, <2>1 DEF Fetched
  <2>3. Counts(q, q.class)
    BY <1>0, <1>3, <1>7, <2>1, TappedCounts DEF Good, Follows
  <2>4. RowsOf(k, q)
    BY <1>5, <1>7, <2>3 DEF RowsOf, TappedRows
  <2>5. ShownRow(q) /\ NanOf(q)
    BY <1>3, <1>8 DEF Good, ShownRow, NanOf
  <2>6. Follows(q)
    BY <1>3, <2>1 DEF Good, Follows
  <2>7. StudentsOf(q)
    <3>1. SUFFICES ASSUME q.students # {}
                   PROVE  current.id = TeacherClass
                          /\ q.students \subseteq studentIDs[TeacherClass]
      BY <1>3, <1>8, <2>1 DEF StudentsOf
    <3>2. p.class.id \in Classes /\ p.class.studentIDs \subseteq studentIDs[p.class.id]
      BY <1>0, <1>3, <3>1 DEF Copies
    <3>3. p.class.id \in {Dot, current.id} /\ current.id \in {Dot, TeacherClass}
      BY <2>0 DEF Good, Follows, CurrentInv
    <3>4. p.class.id = TeacherClass /\ current.id = TeacherClass
      BY <3>2, <3>3, ReportsAssumption
    <3> QED
      BY <1>3, <3>2, <3>4
  <2> QED
    BY <1>1, <1>3, <2>2, <2>4, <2>5, <2>6, <2>7 DEF Good
<1>9. CASE p.screen = "ParentStudentAssignmentOverview"
  <2>1. q.class = p.class
    BY <1>3, <1>9 DEF CountsInCurrent
  <2>2. Fetched(q)
    BY <1>0, <1>3, <1>4, <2>1 DEF Fetched
  <2>3. Counts(q, q.class)
    BY <1>3, <1>4, <1>6, <2>1 DEF TappedRows, Counts, NameClash
  <2>4. RowsOf(k, q)
    BY <1>5, <1>7, <2>3 DEF RowsOf, TappedRows
  <2>5. ShownRow(q) /\ NanOf(q)
    BY <1>3, <1>9 DEF Good, ShownRow, NanOf
  <2>6. Follows(q)
    BY <1>3, <1>9, <2>1 DEF Good, Follows, CountsInCurrent
  <2>7. StudentsOf(q)
    BY <1>1, <1>3, <1>4, <1>9, <2>1 DEF Good, StudentsOf
  <2> QED
    BY <1>1, <1>3, <2>2, <2>4, <2>5, <2>6, <2>7 DEF Good
<1> QED
  BY <1>1, <1>8, <1>9

LEMMA GotListGood ==
    ASSUME TypeOK, current \in Copies, NEW k \in Places,
           NEW p \in Good(k), p.waits # << >>, Head(p.waits) = "assignments",
           p.screen = "TeacherOverviewStudentList"
    PROVE  /\ k = "list"
           /\ Left(GotList(p)) > 1
           /\ NextRequest(GotList(p)) \in Good(k)
           /\ NextRequest(GotList(p)).screen = p.screen
<1> DEFINE ids == p.class.assignmentIDs
           o == [id |-> p.class.id, rows |-> ids]
           g == GotList(p)
           q == NextRequest(g)
<1>0. /\ p \in Page /\ Suffix(p.waits, Requests[p.screen])
      /\ p.class \in Copies /\ p.class \in Class
  BY DEF Good, Page, Fetched
<1>1. /\ Left(p) = 2
      /\ Tail(p.waits) \in Seq(Kinds) /\ Suffix(Tail(p.waits), Requests[p.screen])
      /\ \A x : x.waits = Tail(p.waits) => Left(x) = Left(p) - 1
  BY <1>0, Stage
<1>2. o \in Lists /\ o.id = p.class.id /\ o.rows = ids
  BY <1>0 DEF Lists, Copies, Class
<1> HIDE DEF o
<1>3. /\ g \in Page /\ g.waits = p.waits
      /\ g.screen = p.screen /\ g.students = p.students /\ g.rows = ids
      /\ g.shown = p.shown /\ g.average = p.average /\ g.origin = o
  BY <1>0, <1>2 DEF GotList, GotRows, Page, Class, Lists, o
<1> HIDE DEF g
<1>4. p.screen \in CountsInCurrent
  BY DEF CountsInCurrent
<1>5. /\ q \in Page /\ q.waits = Tail(p.waits) /\ q.class = current
      /\ q.screen = p.screen /\ q.students = p.students /\ q.rows = ids
      /\ q.shown = p.shown /\ q.average = p.average /\ q.origin = o
  BY <1>1, <1>3, <1>4, NextRequestFields
<1> HIDE DEF q
<1>6. k = "list"
  BY PlaceOf DEF Good, TypeOK
<1>7. Fetched(q)
  BY <1>2, <1>4, <1>5 DEF Fetched, Loaded
<1>8. RowsOf(k, q)
  BY <1>2, <1>5, <1>6 DEF RowsOf, ListRows
<1>9. ShownRow(q) /\ NanOf(q)
  BY <1>5 DEF Good, ShownRow, NanOf
<1>10. Follows(q)
  BY <1>2, <1>4, <1>5 DEF Good, Follows
<1>11. StudentsOf(q)
  BY <1>5 DEF StudentsOf
<1>12. q \in Good(k)
  BY <1>1, <1>5, <1>7, <1>8, <1>9, <1>10, <1>11 DEF Good
<1>13. Left(g) = Left(p)
  BY <1>3 DEF Left
<1> QED
  BY <1>1, <1>5, <1>6, <1>12, <1>13 DEF q, g

\* The answers that fill a list.
LEMMA ListShownFields ==
    ASSUME NEW g \in Page, NEW v \in {"none", "number", "N/A", "nan"}
    PROVE  /\ ListShown(g, v) \in Page
           /\ ListShown(g, v).screen = g.screen
           /\ ListShown(g, v).waits = << >>
           /\ ListShown(g, v).class = g.class
           /\ ListShown(g, v).rows = g.rows
           /\ ListShown(g, v).shown = g.shown
           /\ ListShown(g, v).average = v
           /\ ListShown(g, v).origin = g.origin
<1>1. << >> \in Seq({"student", "class", "students", "assignments"})
  BY EmptySeq
<1> QED
  BY <1>1 DEF ListShown, Page

LEMMA StudentsListFilled ==
    ASSUME TypeOK, NEW k \in Places, NEW s \in Students,
           NEW p \in Good(k), p.waits # << >>, Head(p.waits) = "students",
           p.screen = "TeacherOverviewStudentList"
    PROVE  LET g == [GotStudents(p) EXCEPT !.student = s] IN
           /\ Left(g) = 1 /\ ~Traps(g)
           /\ Filled(g) \in Good(k) /\ Filled(g).screen = p.screen
<1> DEFINE g == [GotStudents(p) EXCEPT !.student = s]
           q == Filled(g)
<1>0. /\ p \in Page /\ Suffix(p.waits, Requests[p.screen]) /\ p.class \in Class
      /\ Left(p) = 1
  BY Stage DEF Good, Page
<1>1. /\ g \in Page /\ g.screen = p.screen /\ g.waits = p.waits
      /\ g.rows = p.rows /\ g.class = p.class /\ g.origin = p.origin
      /\ g.shown = p.shown
  BY <1>0 DEF GotStudents, Page, Class
<1>2. Left(g) = 1 /\ ~Traps(g)
  BY <1>0, <1>1 DEF Left, Traps
<1>3. q = StudentOverviewShown(g)
  BY <1>1 DEF Filled
<1> HIDE DEF g
<1>4. FoundUnguarded(g.rows, g.student) \in {"nan", "number"}
  BY DEF FoundUnguarded
<1>5. /\ q \in Page /\ q.screen = p.screen /\ q.waits = << >>
      /\ q.rows = p.rows /\ q.class = p.class /\ q.origin = p.origin
      /\ q.shown = p.shown
  BY <1>1, <1>3, <1>4, ListShownFields DEF StudentOverviewShown
<1> HIDE DEF q
<1>6. k = "list"
  BY PlaceOf DEF Good, TypeOK
<1>7. Fetched(q) /\ Follows(q)
  BY <1>5 DEF Good, Fetched, Loaded, CountsInCurrent, Follows
<1>8. RowsOf(k, q)
  BY <1>5, <1>6 DEF Good, RowsOf, ListRows
<1>9. ShownRow(q) /\ NanOf(q) /\ StudentsOf(q)
  BY <1>5 DEF Good, ShownRow, NanOf, StudentsOf
<1>10. Suffix(q.waits, Requests[q.screen])
  BY <1>0, <1>5 DEF Requests, Suffix
<1>11. q \in Good(k)
  BY <1>5, <1>7, <1>8, <1>9, <1>10 DEF Good
<1> QED
  BY <1>2, <1>5, <1>11 DEF q, g

LEMMA ListFilled ==
    ASSUME TypeOK, CurrentInv, NEW k \in Places,
           NEW p \in Good(k), p.waits # << >>, Head(p.waits) = "assignments",
           p.screen \in {"TeacherAssignmentPage", "ParentStudentOverview",
                         "StudentAssignmentsView"}
    PROVE  /\ k = "list" /\ Left(GotList(p)) = 1 /\ ~Traps(GotList(p))
           /\ Filled(GotList(p)) \in Good(k)
           /\ Filled(GotList(p)).class = p.class
           /\ Filled(GotList(p)).screen = p.screen
<1> DEFINE ids == p.class.assignmentIDs
           o == [id |-> p.class.id, rows |-> ids]
           g == GotList(p)
           q == Filled(g)
<1>0. /\ p \in Page /\ Suffix(p.waits, Requests[p.screen])
      /\ p.class \in Copies /\ p.class \in Class /\ Left(p) = 1
  BY Stage DEF Good, Page, Fetched
<1>2. o \in Lists /\ o.id = p.class.id /\ o.rows = ids
  BY <1>0 DEF Lists, Copies, Class
<1> HIDE DEF o
<1>3. /\ g \in Page /\ g.waits = p.waits /\ g.class = p.class
      /\ g.screen = p.screen /\ g.rows = ids
      /\ g.shown = p.shown /\ g.origin = o
  BY <1>0, <1>2 DEF GotList, GotRows, Page, Class, Lists, o
<1> HIDE DEF g
<1>4. Left(g) = 1 /\ ~Traps(g)
  BY <1>0, <1>3 DEF Left, Traps
<1>5. \E v \in {"none", "N/A", "number"} : q = ListShown(g, v)
  BY <1>3 DEF Filled, AssignmentPageShown, MyAssignmentsShown, ChildShown, FoundGrade
<1>6. /\ q \in Page /\ q.screen = p.screen /\ q.waits = << >>
      /\ q.rows = ids /\ q.class = p.class /\ q.origin = o
      /\ q.shown = p.shown /\ q.average # "nan"
  BY <1>3, <1>5, ListShownFields
<1> HIDE DEF q
<1>7. k = "list"
  BY PlaceOf DEF Good, TypeOK
<1>8. Fetched(q)
  <2>1. Left(q) = 0
    BY <1>6 DEF Left
  <2> QED
    BY <1>0, <1>2, <1>6, <2>1 DEF Fetched, Loaded
<1>9. RowsOf(k, q)
  BY <1>2, <1>6, <1>7 DEF RowsOf, ListRows
<1>10. ShownRow(q) /\ NanOf(q) /\ StudentsOf(q)
  BY <1>6 DEF Good, ShownRow, NanOf, StudentsOf
<1>11. Follows(q)
  <2>1. CASE p.screen \in CountsInCurrent
    BY <1>2, <1>6, <2>1 DEF Good, Follows
  <2>2. CASE p.screen \notin CountsInCurrent
    <3>1. role = "parent"
      BY <2>2, PlaceOf DEF Good, TypeOK, CountsInCurrent
    <3>2. current.id = Dot /\ Dot \notin Classes
      BY <3>1, ReportsAssumption DEF CurrentInv
    <3>3. o.id = current.id => o.rows = {}
      BY <1>2, <3>2 DEF Lists
    <3> QED
      BY <1>6, <2>2, <3>3 DEF Follows
  <2> QED
    BY <2>1, <2>2
<1>12. Suffix(q.waits, Requests[q.screen])
  BY <1>0, <1>6 DEF Requests, Suffix
<1>13. q \in Good(k)
  BY <1>6, <1>8, <1>9, <1>10, <1>11, <1>12 DEF Good
<1> QED
  BY <1>4, <1>6, <1>7, <1>13 DEF q, g

\* The answers that fill a screen of one assignment.
LEMMA GotRowsFields ==
    ASSUME NEW p \in Page
    PROVE  /\ GotRows(p) \in Page
           /\ GotRows(p).screen = p.screen /\ GotRows(p).waits = p.waits
           /\ GotRows(p).student = p.student /\ GotRows(p).class = p.class
           /\ GotRows(p).students = p.students
           /\ GotRows(p).rows = p.class.assignmentIDs /\ GotRows(p).row = p.row
           /\ GotRows(p).shown = p.shown /\ GotRows(p).average = p.average
           /\ GotRows(p).tapped = p.tapped /\ GotRows(p).origin = p.origin
           /\ GotRows(p).byName = p.byName /\ GotRows(p).early = p.early
           /\ Left(GotRows(p)) = Left(p)
  BY DEF GotRows, Page, Class, Left

LEMMA ShownGood ==
    ASSUME TypeOK, NEW k \in Places,
           NEW p \in Good(k), p.waits # << >>, Head(p.waits) = "assignments",
           p.screen \in {"TeacherAssignmentOverview", "TeacherStudentAnswers",
                         "StudentAssignmentOverview",
                         "ParentStudentAssignmentOverview"},
           NEW q \in Page, q.screen = p.screen, q.waits = << >>,
           q.student = p.student, q.class = p.class, q.students = p.students,
           q.rows = p.class.assignmentIDs, q.row = p.row, q.tapped = p.tapped,
           q.origin = p.origin, q.byName = p.byName, q.early = p.early,
           InRange(q.row, q.rows), q.shown = Shown(q),
           q.average = "nan" => q.screen = "ParentStudentAssignmentOverview" /\ q.early
    PROVE  q \in Good(k)
<1>0. /\ p \in Page /\ Suffix(p.waits, Requests[p.screen]) /\ Left(p) = 1
      /\ Left(q) = 0
  BY Stage DEF Good, Left
<1>1. Loaded(p) /\ Loaded(q)
  BY <1>0 DEF Loaded
<1>2. k \in {"overview", "answers"}
  BY PlaceOf DEF Good, TypeOK
<1>3. Fetched(q) /\ Follows(q)
  BY <1>1 DEF Good, Fetched, Follows
<1>4. RowsOf(k, q)
  <2>1. TappedRows(p) /\ p.screen # "none"
    BY <1>2 DEF Good, RowsOf
  <2>2. Counts(q, q.class)
    BY <1>1, <2>1 DEF TappedRows, Counts, NameClash
  <2>3. TappedRows(q)
    BY <2>1, <2>2 DEF TappedRows
  <2> QED
    BY <1>2, <2>3 DEF RowsOf
<1>5. ShownRow(q)
  BY DEF ShownRow
<1>6. StudentsOf(q)
  BY <1>0 DEF Good, StudentsOf
<1>7. NanOf(q)
  BY DEF NanOf
<1>8. Suffix(q.waits, Requests[q.screen])
  BY <1>0 DEF Requests, Suffix
<1> QED
  BY <1>3, <1>4, <1>5, <1>6, <1>7, <1>8 DEF Good

LEMMA OverviewFilled ==
    ASSUME TypeOK, NEW k \in Places,
           NEW p \in Good(k), p.waits # << >>, Head(p.waits) = "assignments",
           p.screen = "TeacherAssignmentOverview", ~Traps(GotRows(p))
    PROVE  /\ Filled(GotRows(p)) \in Good(k)
           /\ Filled(GotRows(p)).screen = p.screen
<1> DEFINE g == GotRows(p)
           a == Shown(g)
           v == AverageTime(a, g.students)
           q == Filled(g)
<1>0. /\ p \in Page /\ g \in Page /\ g.screen = p.screen
      /\ g.student = p.student /\ g.class = p.class /\ g.students = p.students
      /\ g.rows = p.class.assignmentIDs /\ g.row = p.row
      /\ g.tapped = p.tapped /\ g.origin = p.origin
      /\ g.byName = p.byName /\ g.early = p.early
  BY GotRowsFields DEF Good
<1>1. /\ InRange(g.row, g.rows) /\ g.students # {}
      /\ HasResult(a, First(g.students))
  BY <1>0 DEF Traps, AssignmentOverviewTraps
<1>2. g.rows \in SUBSET Assignments /\ g.row \in Nat /\ g.students \in SUBSET Students
  BY <1>0 DEF Page
<1>3. a \in Assignments
  BY <1>1, <1>2, Numbered, AtRow DEF Shown
<1>4. First(g.students) \in g.students
  BY <1>1, <1>2, FirstIn
<1>5. v = "number"
  BY <1>1, <1>4 DEF AverageTime, WithTime
<1>6. q = [g EXCEPT !.waits = << >>, !.shown = a, !.average = v]
  BY <1>0 DEF Filled, AssignmentOverviewShown
<1> HIDE DEF q, v, g
<1>7. << >> \in Seq({"student", "class", "students", "assignments"})
  BY EmptySeq
<1> DEFINE b == Shown(g)
<1>8. b \in Assignments /\ q = [g EXCEPT !.waits = << >>, !.shown = b, !.average = v]
  BY <1>3, <1>6
<1> HIDE DEF b
<1>9. /\ q \in Page /\ q.waits = << >> /\ q.screen = g.screen
      /\ q.student = g.student /\ q.class = g.class /\ q.students = g.students
      /\ q.rows = g.rows /\ q.row = g.row /\ q.shown = b /\ q.average = "number"
      /\ q.tapped = g.tapped /\ q.origin = g.origin
      /\ q.byName = g.byName /\ q.early = g.early
  BY <1>0, <1>5, <1>7, <1>8 DEF Page
<1>10. q.shown = Shown(q)
  BY <1>9 DEF b, Shown
<1>11. q \in Good(k)
  BY <1>0, <1>1, <1>9, <1>10, ShownGood
<1> QED
  BY <1>0, <1>9, <1>11 DEF q, g

LEMMA AnswersFilled ==
    ASSUME TypeOK, NEW k \in Places,
           NEW p \in Good(k), p.waits # << >>, Head(p.waits) = "assignments",
           p.screen \in {"TeacherStudentAnswers", "StudentAssignmentOverview",
                         "ParentStudentAssignmentOverview"},
           ~Traps(GotRows(p))
    PROVE  /\ Filled(GotRows(p)) \in Good(k)
           /\ Filled(GotRows(p)).class = p.class
           /\ Filled(GotRows(p)).origin = p.origin
           /\ Filled(GotRows(p)).screen = p.screen
<1> DEFINE g == GotRows(p)
           a == Shown(g)
           c == HasResult(a, g.student)
           v == IF p.screen = "ParentStudentAssignmentOverview" /\ c
                THEN AverageTime(a, g.students) ELSE "none"
           q == Filled(g)
<1>0. /\ p \in Page /\ g \in Page /\ g.screen = p.screen
      /\ g.student = p.student /\ g.class = p.class /\ g.students = p.students
      /\ g.rows = p.class.assignmentIDs /\ g.row = p.row
      /\ g.tapped = p.tapped /\ g.origin = p.origin
      /\ g.byName = p.byName /\ g.early = p.early /\ g.average = p.average
  BY GotRowsFields DEF Good
<1>1. InRange(g.row, g.rows)
  BY <1>0 DEF Traps, AnswersTrap
<1>2. g.rows \in SUBSET Assignments /\ g.row \in Nat
  BY <1>0 DEF Page
<1>3. a \in Assignments
  BY <1>1, <1>2, Numbered, AtRow DEF Shown
<1>4. c \in BOOLEAN /\ v \in {"none", "nan", "number"} /\ g.average = "none"
  BY <1>0 DEF HasResult, AverageTime, Good, NanOf
<1>5. v = "nan" => p.screen = "ParentStudentAssignmentOverview" /\ p.early
  <2>1. SUFFICES ASSUME p.screen = "ParentStudentAssignmentOverview", c,
                        p.student \in p.students
                 PROVE  v # "nan"
    <3>1. Left(p) = 1
      BY Stage DEF Good
    <3>2. p.screen = "ParentStudentAssignmentOverview" =>
              p.early \/ p.student \in p.students
      BY <3>1 DEF Good, StudentsOf
    <3> QED
      BY <3>2
  <2>2. g.student \in WithTime(a, g.students)
    BY <1>0, <2>1 DEF WithTime
  <2> QED
    BY <2>1, <2>2 DEF AverageTime
<1>7. << >> \in Seq({"student", "class", "students", "assignments"})
  BY EmptySeq
<1> DEFINE b == Shown(g)
           d == c
           w == v
<1>8. b \in Assignments /\ d \in BOOLEAN /\ w \in {"none", "nan", "number"}
  BY <1>3, <1>4
<1>9. q = IF p.screen = "ParentStudentAssignmentOverview"
          THEN [[g EXCEPT !.waits = << >>, !.shown = b, !.complete = d] EXCEPT !.average = w]
          ELSE [g EXCEPT !.waits = << >>, !.shown = b, !.complete = d]
  BY <1>0 DEF Filled, TeacherAnswersShown, StudentAnswersShown, ParentAnswersShown,
              AnswersShown
<1>10. w = "nan" => p.screen = "ParentStudentAssignmentOverview" /\ p.early
  BY <1>5
<1> HIDE DEF q, v, g, a, c, b, d, w
<1>11. /\ q \in Page /\ q.waits = << >> /\ q.screen = g.screen
       /\ q.student = g.student /\ q.class = g.class /\ q.students = g.students
       /\ q.rows = g.rows /\ q.row = g.row /\ q.shown = b
       /\ q.average = IF p.screen = "ParentStudentAssignmentOverview"
                      THEN w ELSE g.average
       /\ q.tapped = g.tapped /\ q.origin = g.origin
       /\ q.byName = g.byName /\ q.early = g.early
  BY <1>0, <1>7, <1>8, <1>9 DEF Page
<1>12. q.shown = Shown(q)
  BY <1>11 DEF b, Shown
<1>13. q.average = "nan" => q.screen = "ParentStudentAssignmentOverview" /\ q.early
  BY <1>0, <1>4, <1>10, <1>11
<1>14. q \in Good(k)
  BY <1>0, <1>1, <1>11, <1>12, <1>13, ShownGood
<1> QED
  BY <1>0, <1>11, <1>14 DEF q, g

\* QuizResults looks for the row by name, in its own fetch of the list.
LEMMA FoundIn ==
    ASSUME NEW p \in Page
    PROVE  /\ FoundByName(p) \in Nat
           /\ p.tapped \in p.rows => InRange(FoundByName(p), p.rows)
           /\ p.tapped \in p.rows =>
                  \/ FoundByName(p) = RowOf(p.tapped, p.rows)
                  \/ \E a \in p.rows \ {p.tapped} : name[a] = name[p.tapped]
<1> DEFINE S == SameName(p)
           m == CHOOSE a \in S : \A b \in S : b <= a
<1>1. p.rows \in SUBSET Nat /\ IsFiniteSet(p.rows)
  BY Numbered DEF Page
<1>2. S \in SUBSET p.rows /\ S \in SUBSET Nat /\ IsFiniteSet(S)
  <2>1. S \subseteq p.rows
    BY DEF SameName
  <2> QED
    BY <1>1, <2>1, FS_Subset
<1>3. FoundByName(p) = IF S = {} THEN 0 ELSE RowOf(m, p.rows)
  BY DEF FoundByName
<1>4. S # {} => m \in S
  BY <1>2, Extremes
<1>5. p.tapped \in p.rows => p.tapped \in S
  BY DEF SameName
<1>6. \A a \in S : a \in p.rows /\ name[a] = name[p.tapped]
  BY DEF SameName
<1> HIDE DEF S, m
<1>7. RowOf(m, p.rows) \in Nat
  BY <1>1, RowBound
<1>8. S # {} => InRange(RowOf(m, p.rows), p.rows)
  BY <1>1, <1>2, <1>4, RowAt
<1> QED
  BY <1>3, <1>4, <1>5, <1>6, <1>7, <1>8

LEMMA ResultsFilled ==
    ASSUME TypeOK, current \in Copies, NEW k \in Places,
           NEW p \in Good(k), p.waits # << >>, Head(p.waits) = "assignments",
           p.screen = "QuizResults",
           p.class.id # p.origin.id => current.id = p.class.id
    PROVE  /\ k = "results" /\ ~Traps(GotRows(p))
           /\ Filled(GotRows(p)) \in Good(k)
           /\ Filled(GotRows(p)).class = p.class
           /\ Filled(GotRows(p)).origin = p.origin
           /\ Filled(GotRows(p)).screen = p.screen
<1> DEFINE g == GotRows(p)
           i == FoundByName(g)
           q == Filled(g)
<1>0. /\ p \in Page /\ g \in Page /\ g.screen = p.screen
      /\ g.student = p.student /\ g.class = p.class /\ g.students = p.students
      /\ g.rows = p.class.assignmentIDs
      /\ g.tapped = p.tapped /\ g.origin = p.origin /\ g.shown = p.shown
      /\ g.byName = p.byName /\ g.early = p.early /\ g.average = p.average
  BY GotRowsFields DEF Good
<1>1. /\ i \in Nat
      /\ g.tapped \in g.rows => InRange(i, g.rows)
      /\ g.tapped \in g.rows =>
             \/ i = RowOf(g.tapped, g.rows)
             \/ \E a \in g.rows \ {g.tapped} : name[a] = name[g.tapped]
  BY <1>0, FoundIn
<1>2. q = [g EXCEPT !.waits = << >>, !.row = i] /\ ~Traps(g)
  BY <1>0 DEF Filled, QuizResultsShown, Traps
<1>3. << >> \in Seq({"student", "class", "students", "assignments"})
  BY EmptySeq
<1> HIDE DEF q, i, g
<1>4. /\ q \in Page /\ q.waits = << >> /\ q.screen = g.screen
      /\ q.student = g.student /\ q.class = g.class /\ q.students = g.students
      /\ q.rows = g.rows /\ q.row = i /\ q.shown = g.shown
      /\ q.average = g.average /\ q.tapped = g.tapped /\ q.origin = g.origin
      /\ q.byName = g.byName /\ q.early = g.early
  BY <1>0, <1>1, <1>2, <1>3 DEF Page
<1>5. k = "results" /\ Suffix(p.waits, Requests[p.screen])
  BY PlaceOf DEF Good, TypeOK
<1>6. Fetched(q) /\ Follows(q)
  BY <1>0, <1>4 DEF Good, Fetched, Loaded, CountsInCurrent, Follows
<1>7. ResultsRows(p)
  BY <1>5 DEF Good, RowsOf
<1>8. Counts(q, current)
  <2> SUFFICES ASSUME current.id = p.origin.id
               PROVE  /\ p.origin.rows \subseteq current.assignmentIDs
                      /\ InRange(i, current.assignmentIDs)
                      /\ current.assignmentIDs = p.origin.rows =>
                             \/ i = RowOf(p.tapped, p.origin.rows)
                             \/ \E a \in p.origin.rows \ {p.tapped} :
                                    name[a] = name[p.tapped]
    BY <1>0, <1>4 DEF Counts, NameClash
  <2>1. p.class.id = current.id /\ p.class.id = p.origin.id
    OBVIOUS
  <2>2. p.tapped \in p.origin.rows /\ p.origin.rows \subseteq g.rows
    BY <1>0, <1>7, <2>1 DEF ResultsRows
  <2>3. g.rows \in SUBSET current.assignmentIDs
    BY <1>0, <2>1 DEF Good, Follows, CountsInCurrent
  <2>4. current.assignmentIDs \in SUBSET Assignments
    BY DEF Copies, Class
  <2>5. InRange(i, current.assignmentIDs)
    BY <1>0, <1>1, <2>2, <2>3, <2>4, InRangeGrows
  <2>6. current.assignmentIDs = p.origin.rows => g.rows = p.origin.rows
    BY <2>2, <2>3
  <2> QED
    BY <1>0, <1>1, <2>2, <2>3, <2>5, <2>6
<1>9. RowsOf(k, q)
  BY <1>0, <1>4, <1>5, <1>7, <1>8 DEF RowsOf, ResultsRows
<1>10. ShownRow(q) /\ NanOf(q) /\ StudentsOf(q)
  BY <1>0, <1>4 DEF Good, ShownRow, NanOf, StudentsOf
<1>11. Suffix(q.waits, Requests[q.screen])
  BY <1>0, <1>4, <1>5 DEF Requests, Suffix
<1>12. q \in Good(k)
  BY <1>0, <1>4, <1>6, <1>9, <1>10, <1>11 DEF Good
<1> QED
  BY <1>0, <1>2, <1>4, <1>5, <1>12 DEF q, g

----------------------------------------------------------------------------
(* The environment's steps: the documents change, this device does not.    *)
LEMMA DevicesStep ==
    ASSUME IInv, DocumentsGrow, TypeOK', JoiningInv', LateInv',
           UNCHANGED <<device, at, pages>>
    PROVE  IInv'
<1>1. PagesInv'
  <2>1. ASSUME NEW k \in Places PROVE pages'[k] \in Good(k)'
    <3>1. pages[k] \in Good(k)
      BY DEF IInv, PagesInv
    <3>2. pages[k] \in Good(k)'
      BY <3>1, GoodStays DEF device
    <3> QED
      BY <3>2
  <2> QED
    BY <2>1 DEF PagesInv
<1>2. CurrentInv'
  BY CopiesStay DEF IInv, CurrentInv, device
<1>3. ChainInv'
  BY DEF IInv, ChainInv, device
<1> QED
  BY <1>1, <1>2, <1>3 DEF IInv

LEMMA PutInClassStep ==
    ASSUME IInv, NEW s \in Students, NEW c \in Classes, PutInClass(s, c)
    PROVE  IInv'
<1>1. \A t \in Students, d \in Classes : Member(t, d) => Member(t, d)'
  BY DEF PutInClass, Member
<1>2. Member(s, c)'
  BY DEF PutInClass, Member
<1>3. DocumentsGrow
  BY <1>1 DEF PutInClass, Changed, device, DocumentsGrow
<1>4. TypeOK'
  BY ReportsAssumption DEF IInv, TypeOK, PutInClass, Changed, device
<1>5. JoiningInv'
  BY <1>1, <1>2 DEF IInv, JoiningInv, TypeOK, PutInClass
<1>6. LateInv'
  BY DEF IInv, LateInv, PutInClass
<1> QED
  BY <1>3, <1>4, <1>5, <1>6, DevicesStep DEF PutInClass, Changed

LEMMA JoinStep ==
    ASSUME IInv, NEW s \in Students, NEW c \in Classes, Join(s, c)
    PROVE  IInv'
<1>1. \A t \in Students, d \in Classes : Member(t, d) => Member(t, d)'
  BY DEF IInv, TypeOK, Join, Member
<1>3. DocumentsGrow
  <2>1. \A d \in Classes : studentIDs[d] \subseteq studentIDs'[d]
    BY DEF IInv, TypeOK, Join
  <2> QED
    BY <1>1, <2>1 DEF Join, device, DocumentsGrow
<1>4. TypeOK'
  BY DEF IInv, TypeOK, Join, device
<1>5. JoiningInv'
  BY <1>1 DEF IInv, JoiningInv, TypeOK, Join
<1>6. LateInv'
  BY DEF IInv, LateInv, Join
<1> QED
  BY <1>3, <1>4, <1>5, <1>6, DevicesStep DEF Join

LEMMA AddAssignmentStep ==
    ASSUME IInv, NEW c \in Classes, NEW a \in Assignments, AddAssignment(c, a)
    PROVE  IInv'
<1>1. \A t \in Students, d \in Classes : Member(t, d) => Member(t, d)'
  BY DEF AddAssignment, Member
<1>3. DocumentsGrow
  <2>1. \A d \in Classes : assignmentIDs[d] \subseteq assignmentIDs'[d]
    BY DEF IInv, TypeOK, AddAssignment
  <2> QED
    BY <1>1, <2>1 DEF AddAssignment, Changed, device, DocumentsGrow
<1>4. TypeOK'
  BY ReportsAssumption DEF IInv, TypeOK, AddAssignment, Changed, device
<1>5. JoiningInv'
  BY <1>1 DEF IInv, JoiningInv, AddAssignment
<1>6. LateInv'
  BY DEF IInv, LateInv, AddAssignment
<1> QED
  BY <1>3, <1>4, <1>5, <1>6, DevicesStep DEF AddAssignment, Changed

LEMMA AddProblemStep ==
    ASSUME IInv, NEW a \in Assignments, AddProblem(a)
    PROVE  IInv'
<1>1. \A t \in Students, d \in Classes : Member(t, d) => Member(t, d)'
  BY DEF AddProblem, Member
<1>3. DocumentsGrow
  BY <1>1 DEF AddProblem, Changed, device, DocumentsGrow
<1>4. TypeOK'
  BY ReportsAssumption DEF IInv, TypeOK, AddProblem, Changed, device
<1>5. JoiningInv'
  BY <1>1 DEF IInv, JoiningInv, AddProblem
<1>6. LateInv'
  <2>1. ASSUME NEW b \in Assignments \ late', NEW s \in Students, results[b][s] > 0
        PROVE  problems'[b] <= results[b][s]
    <3>1. b \notin late /\ b # a
      BY <2>1 DEF AddProblem
    <3>2. problems'[b] = problems[b]
      BY <3>1 DEF AddProblem, IInv, TypeOK
    <3> QED
      BY <2>1, <3>1, <3>2 DEF IInv, LateInv
  <2> QED
    BY <2>1 DEF LateInv, AddProblem
<1> QED
  BY <1>3, <1>4, <1>5, <1>6, DevicesStep DEF AddProblem, Changed

LEMMA EraseStep ==
    ASSUME IInv, NEW a \in Assignments, Erase(a)
    PROVE  IInv'
<1>1. \A t \in Students, d \in Classes : Member(t, d) => Member(t, d)'
  BY DEF Erase, Member
<1>3. DocumentsGrow
  BY <1>1 DEF Erase, Changed, device, DocumentsGrow
<1>4. TypeOK'
  BY ReportsAssumption DEF IInv, TypeOK, Erase, Changed, device
<1>5. JoiningInv'
  BY <1>1 DEF IInv, JoiningInv, Erase
<1>6. LateInv'
  <2>1. ASSUME NEW b \in Assignments \ late, NEW s \in Students, results'[b][s] > 0
        PROVE  problems[b] <= results'[b][s]
    <3>1. b # a /\ results'[b] = results[b]
      BY <2>1 DEF Erase, IInv, TypeOK
    <3> QED
      BY <2>1, <3>1 DEF IInv, LateInv
  <2> QED
    BY <2>1 DEF LateInv, Erase
<1> QED
  BY <1>3, <1>4, <1>5, <1>6, DevicesStep DEF Erase, Changed

LEMMA SubmitStep ==
    ASSUME IInv, NEW s \in Students, NEW a \in Assignments, Submit(s, a)
    PROVE  IInv'
<1>1. \A t \in Students, d \in Classes : Member(t, d) => Member(t, d)'
  BY DEF Submit, Member
<1>3. DocumentsGrow
  BY <1>1 DEF Submit, device, DocumentsGrow
<1>t. results' \in [Assignments -> [Students -> 0..MaxProblems]]
  <2>1. problems[a] \in 0..MaxProblems
    BY ReportsAssumption DEF IInv, TypeOK
  <2> QED
    BY <2>1 DEF IInv, TypeOK, Submit
<1>4. TypeOK'
  BY <1>t DEF IInv, TypeOK, Submit, device
<1>5. JoiningInv'
  BY <1>1 DEF IInv, JoiningInv, Submit
<1>6. LateInv'
  <2>1. ASSUME NEW b \in Assignments \ late, NEW t \in Students, results'[b][t] > 0
        PROVE  problems[b] <= results'[b][t]
    <3>1. CASE b = a /\ t = s
      <4>1. results'[b][t] = problems[b] /\ problems[b] \in Nat
        BY <3>1 DEF Submit, IInv, TypeOK
      <4> QED
        BY <4>1
    <3>2. CASE ~(b = a /\ t = s)
      <4>1. results'[b][t] = results[b][t]
        BY <3>2 DEF Submit, IInv, TypeOK
      <4> QED
        BY <2>1, <4>1 DEF IInv, LateInv
    <3> QED
      BY <3>1, <3>2
  <2> QED
    BY <2>1 DEF LateInv, Submit
<1> QED
  BY <1>3, <1>4, <1>5, <1>6, DevicesStep DEF Submit

LEMMA EnvironmentStep ==
    ASSUME IInv, Environment
    PROVE  IInv'
  BY PutInClassStep, JoinStep, AddAssignmentStep, AddProblemStep, EraseStep,
     SubmitStep DEF Environment

----------------------------------------------------------------------------
(* The homepage's steps.                                                   *)
LEMMA ClassLoadedStep ==
    ASSUME IInv, ClassLoaded
    PROVE  IInv'
<1>1. /\ loading \in Classes /\ current' = Document(loading)
      /\ UNCHANGED <<documents, name, role>> /\ TypeOK /\ CurrentInv
      /\ loading # NoClass /\ Running
  BY ReportsAssumption DEF ClassLoaded, IInv
<1>2. Document(loading) \in Copies /\ Document(loading) \in Class
      /\ Document(loading).id = loading
  BY <1>1 DEF Document, Copies, Class, TypeOK
<1>3. TypeOK'
  BY <1>1, <1>2 DEF TypeOK, ClassLoaded, documents
<1>4. PagesInv'
  <2>1. ASSUME NEW k \in Places PROVE pages'[k] \in Good(k)'
    <3>1. pages[k] \in Good(k) /\ pages' = pages
      BY DEF IInv, PagesInv, ClassLoaded
    <3>2. ASSUME k = "results", pages[k].screen # "none"
          PROVE  pages[k].origin.id = current.id
      <4>1. pages[k].screen \in ScreenOf[role][k]
        BY <3>1 DEF Good
      <4>2. pages[k].screen = "QuizResults" /\ role = "student"
        BY <1>1, <3>2, <4>1 DEF ScreenOf, TypeOK
      <4> QED
        BY <1>1, <3>2, <4>2 DEF IInv, ChainInv, Running
    <3>3. pages[k] \in Good(k)'
      BY <1>1, <3>1, <3>2, GoodLoads
    <3> QED
      BY <3>1, <3>3
  <2> QED
    BY <2>1 DEF PagesInv
<1>5. JoiningInv' /\ LateInv'
  BY <1>1 DEF IInv, JoiningInv, LateInv, Member, documents, ClassLoaded
<1>6. CurrentInv'
  <2>1. Document(loading) \in Copies'
    BY <1>1, <1>2 DEF Copies, documents
  <2> QED
    BY <1>1, <1>2, <2>1 DEF CurrentInv, ClassLoaded
<1>7. ChainInv'
  BY <1>1 DEF IInv, ChainInv, ClassLoaded
<1> QED
  BY <1>3, <1>4, <1>5, <1>6, <1>7 DEF IInv

LEMMA NoPageStays ==
    ASSUME TypeOK, UNCHANGED role, NEW k \in Places
    PROVE  NoPage \in Good(k)'
<1> SUFFICES ASSUME NEW p, p = NoPage PROVE p \in Good(k)'
  OBVIOUS
<1>1. /\ p.screen = "none" /\ p.waits = << >>
      /\ p.class = Empty(Dot) /\ p.students = {} /\ p.rows = {}
      /\ p.shown = None /\ p.average = "none"
      /\ p.origin = [id |-> Dot, rows |-> {}]
  BY DEF NoPage
<1>2. p \in Good(k) /\ p \in Page
  BY NoPageGood DEF TypeOK, Good
<1>3. p.screen \in ScreenOf[role'][k] /\ Suffix(p.waits, Requests[p.screen])
  BY <1>2 DEF Good
<1>4. Suffix(p.waits, Requests[p.screen])'
  BY <1>3 DEF Suffix
<1>5. Fetched(p)'
  <2>1. p.class \in Copies'
    BY <1>1, ReportsAssumption DEF Empty, Copies, Class
  <2>2. p.origin \in Lists'
    BY <1>1, ReportsAssumption DEF Lists
  <2>3. Loaded(p)
    BY <1>1 DEF Loaded, Left
  <2> QED
    BY <2>1, <2>2, <2>3 DEF Fetched, Loaded
<1>6. RowsOf(k, p)'
  BY <1>1 DEF RowsOf, ListRows, ResultsRows, TappedRows
<1>7. ShownRow(p)' /\ Follows(p)' /\ StudentsOf(p)' /\ NanOf(p)'
  BY <1>1 DEF ShownRow, Follows, StudentsOf, NanOf, CountsInCurrent
<1> QED
  BY <1>2, <1>3, <1>4, <1>5, <1>6, <1>7 DEF Good

LEMMA HomeClassTyped ==
    ASSUME TypeOK
    PROVE  /\ HomeClass \in Classes \cup {NoClass}
           /\ role = "teacher" => HomeClass = TeacherClass
           /\ role = "parent" => HomeClass = NoClass
  BY ReportsAssumption DEF TypeOK, HomeClass

LEMMA RelaunchStep ==
    ASSUME IInv, Relaunch
    PROVE  IInv'
<1>1. TypeOK /\ me \in Students
  BY DEF IInv, TypeOK
<1>2. Empty(Dot) \in Copies /\ Empty(Dot).id = Dot /\ Empty(Dot) \in Class
  BY EmptyIsCopy DEF Copies
<1>3. /\ HomeClass \in Classes \cup {NoClass}
      /\ role = "teacher" => HomeClass = TeacherClass
      /\ role = "parent" => HomeClass = NoClass
  BY <1>1, HomeClassTyped
<1>4. /\ pages' = [k \in Places |-> NoPage] /\ UNCHANGED role
      /\ current' = Empty(Dot) /\ loading' = HomeClass /\ at' = "home"
      /\ trap' = "none" /\ UNCHANGED documents /\ UNCHANGED <<name, me, changes, late>>
  BY DEF Relaunch
<1>a. UNCHANGED <<classID, studentIDs, assignmentIDs, problems, results, joining>>
  BY <1>4 DEF documents
<1> DEFINE n == NoPage
           h == HomeClass
<1>n. \A k \in Places : n \in Good(k)'
  BY <1>1, <1>4, NoPageStays
<1>5. n.screen = "none" /\ n \in Page
  BY <1>1, NoPageGood DEF NoPage, TypeOK, Good, Places
<1>6. pages' = [k \in Places |-> n] /\ loading' = h
  BY <1>4
<1>7. /\ h \in Classes \cup {NoClass}
      /\ role = "teacher" => h = TeacherClass
      /\ role = "parent" => h = NoClass
  BY <1>3
<1> HIDE DEF n, h
<1>8. TypeOK'
  BY <1>1, <1>2, <1>4, <1>a, <1>5, <1>6, <1>7 DEF TypeOK
<1>9. PagesInv'
  BY <1>6, <1>n DEF PagesInv
<1>10. JoiningInv' /\ LateInv'
  BY <1>4, <1>a DEF IInv, JoiningInv, LateInv, Member
<1>11. CurrentInv'
  <2>1. Empty(Dot) \in Copies'
    BY <1>2, <1>a DEF Copies
  <2> QED
    BY <1>2, <1>4, <1>6, <1>7, <2>1 DEF CurrentInv
<1>12. ChainInv'
  BY <1>4, <1>5, <1>6 DEF ChainInv, Places
<1> QED
  BY <1>8, <1>9, <1>10, <1>11, <1>12 DEF IInv

----------------------------------------------------------------------------
(* The arrival of an answer.                                               *)

\* The page q may take the place of the one at k.
Replaces(k, q) ==
    /\ q \in Good(k)
    /\ q.screen = pages[k].screen
    /\ role = "student" =>
           q.class = pages[k].class /\ (k # "list" => q.origin = pages[k].origin)

LEMMA PageStep ==
    ASSUME IInv, NEW k \in Places, NEW q,
           Replaces(k, q) \/ (q = NoPage /\ k \notin OnStack),
           pages' = [pages EXCEPT ![k] = q],
           UNCHANGED <<documents, device, at, changes, late, trap>>
    PROVE  IInv'
<1>1. q \in Good(k) /\ q \in Page
  BY NoPageGood DEF IInv, TypeOK, Replaces, Good
<1>2. /\ DocumentsGrow /\ current' = current
      /\ UNCHANGED <<classID, studentIDs, assignmentIDs, problems, results, joining>>
      /\ UNCHANGED <<name, role, me, current, loading>>
  BY DEF documents, device, DocumentsGrow, Member
<1>3. PagesInv'
  <2>1. ASSUME NEW j \in Places PROVE pages'[j] \in Good(j)'
    <3>1. pages'[j] \in Good(j)
      BY <1>1 DEF IInv, PagesInv, TypeOK
    <3> DEFINE p == pages'[j]
    <3>2. p \in Good(j)
      BY <3>1
    <3> HIDE DEF p
    <3>3. ASSUME NEW x \in Good(j) PROVE x \in Good(j)'
      BY <1>2, GoodStays
    <3> QED
      BY <3>1, <3>3
  <2> QED
    BY <2>1 DEF PagesInv
<1>4. TypeOK'
  BY <1>1, <1>2 DEF IInv, TypeOK
<1>5. JoiningInv' /\ LateInv'
  BY <1>2 DEF IInv, JoiningInv, LateInv, Member
<1>6. CurrentInv'
  BY <1>2, CopiesStay DEF IInv, CurrentInv
<1>7. ChainInv'
  <2>1. \A j \in Places : pages'[j] = IF j = k THEN q ELSE pages[j]
    BY DEF IInv, TypeOK
  <2>2. CASE Replaces(k, q)
    BY <1>2, <2>1, <2>2 DEF IInv, ChainInv, Replaces, Places, TypeOK, PagesInv, Good, ScreenOf
  <2>3. CASE q = NoPage /\ k \notin OnStack
    <3>1. q.screen = "none" /\ k # at
      BY <2>3 DEF NoPage, OnStack
    <3> QED
      BY <1>2, <2>1, <3>1 DEF IInv, ChainInv, Places
  <2> QED
    BY <2>2, <2>3
<1> QED
  BY <1>3, <1>4, <1>5, <1>6, <1>7 DEF IInv

LEMMA TrappedStep ==
    ASSUME IInv, NEW k \in Places, Trapped(k),
           UNCHANGED <<documents, device, changes, late>>
    PROVE  IInv'
<1>1. /\ DocumentsGrow
      /\ UNCHANGED <<classID, studentIDs, assignmentIDs, problems, results, joining>>
      /\ UNCHANGED <<name, role, me, current, loading, pages>>
      /\ at' = "trapped" /\ trap' = k
  BY DEF documents, device, DocumentsGrow, Member, Trapped
<1>2. PagesInv'
  <2>1. ASSUME NEW j \in Places PROVE pages'[j] \in Good(j)'
    <3>1. pages[j] \in Good(j)
      BY DEF IInv, PagesInv
    <3>2. pages[j] \in Good(j)'
      BY <1>1, <3>1, GoodStays
    <3> QED
      BY <1>1, <3>2
  <2> QED
    BY <2>1 DEF PagesInv
<1>3. TypeOK'
  BY <1>1 DEF IInv, TypeOK
<1>4. JoiningInv' /\ LateInv'
  BY <1>1 DEF IInv, JoiningInv, LateInv, Member
<1>5. CurrentInv'
  BY <1>1, CopiesStay DEF IInv, CurrentInv
<1>6. ChainInv'
  BY <1>1 DEF IInv, ChainInv
<1> QED
  BY <1>2, <1>3, <1>4, <1>5, <1>6 DEF IInv

LEMMA AdvanceStep ==
    ASSUME IInv, NEW k \in Places, NEW g, Advance(k, g),
           Left(g) > 1 => Replaces(k, NextRequest(g)),
           ~(Left(g) > 1) /\ ~Traps(g) => Replaces(k, Filled(g)),
           UNCHANGED <<documents, device, changes, late>>
    PROVE  IInv'
<1>1. CASE Left(g) > 1
  <2>1. /\ pages' = [pages EXCEPT ![k] = NextRequest(g)]
        /\ UNCHANGED <<at, trap>>
    BY <1>1 DEF Advance, Left, NextRequest
  <2>2. Replaces(k, NextRequest(g))
    BY <1>1
  <2> DEFINE q == NextRequest(g)
  <2>3. Replaces(k, q) /\ pages' = [pages EXCEPT ![k] = q]
    BY <2>1, <2>2
  <2> HIDE DEF q
  <2> QED
    BY <2>1, <2>3, PageStep
<1>2. CASE ~(Left(g) > 1) /\ Traps(g)
  BY <1>2, TrappedStep DEF Advance, Left
<1>3. CASE ~(Left(g) > 1) /\ ~Traps(g)
  <2> DEFINE q == IF k \in OnStack THEN Filled(g) ELSE NoPage
  <2>1. /\ pages' = [pages EXCEPT ![k] = q]
        /\ UNCHANGED <<at, trap>>
    BY <1>3 DEF Advance, Left
  <2>2. Replaces(k, q) \/ (q = NoPage /\ k \notin OnStack)
    BY <1>3
  <2> HIDE DEF q
  <2> QED
    BY <2>1, <2>2, PageStep
<1> QED
  BY <1>1, <1>2, <1>3

\* What the four answers start from.
LEMMA Waiting ==
    ASSUME IInv, NEW k \in Places, NEW what, Waits(k, what)
    PROVE  /\ TypeOK /\ JoiningInv /\ CurrentInv /\ current \in Copies
           /\ pages[k] \in Good(k) /\ pages[k] \in Page
           /\ pages[k].waits # << >> /\ Head(pages[k].waits) = what
           /\ pages[k].class.id \in Classes \cup {Dot, NoClass}
           /\ pages[k].class.studentIDs \subseteq Students
  BY DEF IInv, Waits, PagesInv, CurrentInv, TypeOK, Page, Class

LEMMA StudentArrivesStep ==
    ASSUME IInv, NEW k \in Places, StudentArrives(k)
    PROVE  IInv'
<1> DEFINE p == pages[k]
<1>1. /\ TypeOK /\ JoiningInv /\ CurrentInv /\ current \in Copies
      /\ p \in Good(k) /\ p \in Page
      /\ p.waits # << >> /\ Head(p.waits) = "student"
  BY Waiting DEF StudentArrives
<1>2. UNCHANGED <<documents, device, changes, late>>
  BY DEF StudentArrives
<1>3. CASE classID[p.student] = NoClass
  <2>1. Trapped(k)
    BY <1>3 DEF StudentArrives
  <2> QED
    BY <1>2, <2>1, TrappedStep
<1>4. CASE classID[p.student] # NoClass
  <2>1. Advance(k, GotStudent(p))
    BY <1>4 DEF StudentArrives, GotStudent
  <2>2. /\ Left(GotStudent(p)) > 1
        /\ NextRequest(GotStudent(p)) \in Good(k)
        /\ NextRequest(GotStudent(p)).screen = p.screen
    <3> HIDE DEF p
    <3> QED
      BY <1>1, <1>4, GotStudentGood
  <2>3. role # "student"
    <3>1. p.screen \in {"TeacherStudentAnswers", "ParentStudentOverview",
                        "ParentStudentAssignmentOverview"}
      BY <1>1, Stage DEF Good
    <3>2. p.screen \in ScreenOf[role][k] /\ role \in {"teacher", "parent", "student"}
      BY <1>1 DEF Good, TypeOK
    <3> HIDE DEF p
    <3> QED
      BY <3>1, <3>2, PlaceOf
  <2>4. Replaces(k, NextRequest(GotStudent(p)))
    BY <2>2, <2>3 DEF Replaces
  <2> QED
    BY <1>2, <2>1, <2>2, <2>4, AdvanceStep
<1> QED
  BY <1>3, <1>4

LEMMA ClassArrivesStep ==
    ASSUME IInv, NEW k \in Places, ClassArrives(k)
    PROVE  IInv'
<1> DEFINE p == pages[k]
<1>1. /\ TypeOK /\ CurrentInv /\ current \in Copies
      /\ p \in Good(k) /\ p \in Page
      /\ p.waits # << >> /\ Head(p.waits) = "class"
  BY Waiting DEF ClassArrives
<1>2. UNCHANGED <<documents, device, changes, late>>
  BY DEF ClassArrives
<1>3. Advance(k, GotClass(p))
  BY DEF ClassArrives, GotClass
<1>4. /\ Left(GotClass(p)) > 1
      /\ NextRequest(GotClass(p)) \in Good(k)
      /\ NextRequest(GotClass(p)).screen = p.screen
  <2> HIDE DEF p
  <2> QED
    BY <1>1, GotClassGood
<1>5. role # "student"
  BY <1>1, Stage, PlaceOf DEF Good, TypeOK
<1>6. Replaces(k, NextRequest(GotClass(p)))
  BY <1>4, <1>5 DEF Replaces
<1> QED
  BY <1>2, <1>3, <1>4, <1>6, AdvanceStep

LEMMA StudentsArriveStep ==
    ASSUME IInv, NEW k \in Places, StudentsArrive(k)
    PROVE  IInv'
<1> DEFINE p == pages[k]
           g == GotStudents(p)
<1>1. /\ TypeOK /\ CurrentInv /\ p \in Good(k) /\ p \in Page
      /\ p.waits # << >> /\ Head(p.waits) = "students"
      /\ p.class.studentIDs \subseteq Students
  BY Waiting DEF StudentsArrive
<1>2. UNCHANGED <<documents, device, changes, late>>
  BY DEF StudentsArrive
<1>3. role # "student"
  <2>1. p.screen \in {"TeacherAssignmentOverview", "TeacherOverviewStudentList",
                      "ParentStudentAssignmentOverview"}
    BY <1>1, Stage DEF Good
  <2>2. p.screen \in ScreenOf[role][k] /\ role \in {"teacher", "parent", "student"}
    BY <1>1 DEF Good, TypeOK
  <2> HIDE DEF p
  <2> QED
    BY <2>1, <2>2, PlaceOf
<1>4. g.screen = p.screen /\ g.students = p.class.studentIDs
  BY <1>1 DEF GotStudents, Page
<1>5. CASE p.screen = "TeacherOverviewStudentList"
  <2>1. PICK s \in Students : Advance(k, [g EXCEPT !.student = s])
    BY <1>1, <1>4, <1>5 DEF StudentsArrive, GotStudents
  <2> DEFINE h == [g EXCEPT !.student = s]
  <2>2. /\ Left(h) = 1 /\ ~Traps(h)
        /\ Filled(h) \in Good(k) /\ Filled(h).screen = p.screen
    <3> HIDE DEF p
    <3> QED
      BY <1>1, <1>5, StudentsListFilled
  <2>3. Advance(k, h)
    BY <2>1
  <2> HIDE DEF h
  <2>4. Replaces(k, Filled(h))
    BY <2>2, <1>3 DEF Replaces
  <2> QED
    BY <1>2, <2>2, <2>3, <2>4, AdvanceStep
<1>6. CASE p.screen # "TeacherOverviewStudentList"
  <2>1. Advance(k, g)
    BY <1>4, <1>6 DEF StudentsArrive, GotStudents
  <2>2. /\ Left(g) > 1
        /\ NextRequest(g) \in Good(k) /\ NextRequest(g).screen = p.screen
    <3> HIDE DEF p
    <3> QED
      BY <1>1, <1>6, GotStudentsGood
  <2> HIDE DEF g
  <2>3. Replaces(k, NextRequest(g))
    BY <2>2, <1>3 DEF Replaces
  <2> QED
    BY <1>2, <2>1, <2>2, <2>3, AdvanceStep
<1> QED
  BY <1>5, <1>6

LEMMA AssignmentsArriveStep ==
    ASSUME IInv, NEW k \in Places, AssignmentsArrive(k)
    PROVE  IInv'
<1> DEFINE p == pages[k]
<1>1. /\ TypeOK /\ CurrentInv /\ current \in Copies
      /\ p \in Good(k) /\ p \in Page
      /\ p.waits # << >> /\ Head(p.waits) = "assignments"
  BY Waiting DEF AssignmentsArrive
<1>2. UNCHANGED <<documents, device, changes, late>>
  BY DEF AssignmentsArrive
<1>3. Advance(k, IF k = "list" THEN GotList(p) ELSE GotRows(p))
  BY DEF AssignmentsArrive, GotList, GotRows
<1>4. /\ p.screen \in ScreenOf[role][k] /\ p.screen # "none"
      /\ role \in {"teacher", "parent", "student"}
      /\ p.screen # "TeacherOverviewStudentList" => Left(p) = 1
      /\ Left(GotRows(p)) = Left(p)
  BY <1>1, Stage, GotRowsFields DEF Good, TypeOK
<1>5. CASE p.screen = "TeacherOverviewStudentList"
  <2> DEFINE g == GotList(p)
  <2>1. /\ k = "list" /\ Left(g) > 1
        /\ NextRequest(g) \in Good(k) /\ NextRequest(g).screen = p.screen
    <3> HIDE DEF p
    <3> QED
      BY <1>1, <1>5, GotListGood
  <2>2. Advance(k, g) /\ role # "student"
    BY <1>3, <1>4, <1>5, <2>1, PlaceOf
  <2> HIDE DEF g
  <2>3. Replaces(k, NextRequest(g))
    BY <2>1, <2>2 DEF Replaces
  <2> QED
    BY <1>2, <2>1, <2>2, <2>3, AdvanceStep
<1>6. CASE p.screen \in {"TeacherAssignmentPage", "ParentStudentOverview",
                         "StudentAssignmentsView"}
  <2> DEFINE g == GotList(p)
  <2>1. /\ k = "list" /\ Left(g) = 1 /\ ~Traps(g)
        /\ Filled(g) \in Good(k) /\ Filled(g).screen = p.screen
        /\ Filled(g).class = p.class
    <3> HIDE DEF p
    <3> QED
      BY <1>1, <1>6, ListFilled
  <2>2. Advance(k, g)
    BY <1>3, <2>1
  <2> HIDE DEF g
  <2>3. Replaces(k, Filled(g))
    BY <2>1 DEF Replaces
  <2> QED
    BY <1>2, <2>1, <2>2, <2>3, AdvanceStep
<1>7. CASE p.screen \in {"TeacherAssignmentOverview", "TeacherStudentAnswers",
                         "StudentAssignmentOverview",
                         "ParentStudentAssignmentOverview", "QuizResults"}
  <2> DEFINE g == GotRows(p)
  <2>1. k # "list"
    BY <1>4, <1>7, PlaceOf
  <2>2. Advance(k, g) /\ Left(g) = 1
    BY <1>3, <1>4, <1>7, <2>1
  <2>3. ASSUME ~Traps(g) PROVE Replaces(k, Filled(g))
    <3>1. CASE p.screen = "TeacherAssignmentOverview"
      <4>1. Filled(g) \in Good(k) /\ Filled(g).screen = p.screen
        <5> HIDE DEF p
        <5> QED
          BY <1>1, <2>3, <3>1, OverviewFilled
      <4>2. role # "student"
        BY <1>4, <3>1, PlaceOf
      <4> HIDE DEF g
      <4> QED
        BY <4>1, <4>2 DEF Replaces
    <3>2. CASE p.screen \in {"TeacherStudentAnswers", "StudentAssignmentOverview",
                             "ParentStudentAssignmentOverview"}
      <4>1. /\ Filled(g) \in Good(k) /\ Filled(g).screen = p.screen
            /\ Filled(g).class = p.class /\ Filled(g).origin = p.origin
        <5> HIDE DEF p
        <5> QED
          BY <1>1, <2>3, <3>2, AnswersFilled
      <4> HIDE DEF g
      <4> QED
        BY <4>1 DEF Replaces
    <3>3. CASE p.screen = "QuizResults"
      <4>1. p.class.id # p.origin.id => current.id = p.class.id
        <5>1. k = "results"
          BY <1>4, <3>3, PlaceOf
        <5> QED
          BY <3>3, <5>1 DEF IInv, ChainInv
      <4>2. /\ Filled(g) \in Good(k) /\ Filled(g).screen = p.screen
            /\ Filled(g).class = p.class /\ Filled(g).origin = p.origin
        <5> HIDE DEF p
        <5> QED
          BY <1>1, <3>3, <4>1, ResultsFilled
      <4> HIDE DEF g
      <4> QED
        BY <4>2 DEF Replaces
    <3> QED
      BY <1>7, <3>1, <3>2, <3>3
  <2> HIDE DEF g
  <2> QED
    BY <1>2, <2>2, <2>3, AdvanceStep
<1>8. \/ p.screen = "TeacherOverviewStudentList"
      \/ p.screen \in {"TeacherAssignmentPage", "ParentStudentOverview",
                       "StudentAssignmentsView"}
      \/ p.screen \in {"TeacherAssignmentOverview", "TeacherStudentAnswers",
                       "StudentAssignmentOverview",
                       "ParentStudentAssignmentOverview", "QuizResults"}
  <2>1. p.screen \in Screens
    BY <1>4, PlaceOf
  <2> QED
    BY <1>4, <2>1 DEF Screens
<1> QED
  BY <1>5, <1>6, <1>7, <1>8

----------------------------------------------------------------------------
(* What the user does.                                                     *)
LEMMA PagesKept ==
    ASSUME IInv, DocumentsGrow, current' = current, NEW P,
           \A j \in Places : P[j] \in Good(j), pages' = P
    PROVE  PagesInv'
<1>1. ASSUME NEW j \in Places PROVE pages'[j] \in Good(j)'
  <2>1. P[j] \in Good(j)
    OBVIOUS
  <2>2. P[j] \in Good(j)'
    BY <2>1, GoodStays
  <2> QED
    BY <2>2
<1> QED
  BY <1>1 DEF PagesInv

LEMMA WithoutGood ==
    ASSUME IInv, NEW K
    PROVE  /\ Without(K) \in [Places -> Page]
           /\ \A j \in Places : /\ Without(K)[j] \in Good(j)
                                /\ Without(K)[j] \in {NoPage, pages[j]}
                                /\ j \in K /\ pages[j].waits = << >> =>
                                       Without(K)[j] = NoPage
                                /\ j \notin K => Without(K)[j] = pages[j]
<1>1. \A j \in Places : /\ NoPage \in Good(j) /\ NoPage \in Page
                        /\ pages[j] \in Good(j) /\ pages[j] \in Page
  BY NoPageGood DEF IInv, TypeOK, PagesInv, Good
<1> QED
  BY <1>1 DEF Without

LEMMA PresentStep ==
    ASSUME IInv, at # "trapped", at = "results" => pages["results"].waits = << >>,
           NEW k \in Places \ {"results"}, NEW p \in Good(k), p.screen # "none",
           Present(k, p),
           role = "student" /\ loading # NoClass =>
               p.class.id = current.id /\ (k = "answers" => p.origin.id = current.id)
    PROVE  IInv'
<1> DEFINE K == IF k = "list" THEN Places ELSE {"results"}
           W == Without(K)
           P == [W EXCEPT ![k] = p]
<1>1. /\ W \in [Places -> Page]
      /\ \A j \in Places : W[j] \in Good(j) /\ W[j] \in {NoPage, pages[j]}
      /\ pages["results"].waits = << >> => W["results"] = NoPage
  BY WithoutGood DEF Places
<1>2. pages' = P /\ at' = k /\ UNCHANGED <<documents, device, changes, late, trap>>
  BY DEF Present
<1> HIDE DEF W
<1>3. /\ p \in Page /\ P \in [Places -> Page]
      /\ \A j \in Places : P[j] = IF j = k THEN p ELSE W[j]
  BY <1>1 DEF Good
<1>4. \A j \in Places : P[j] \in Good(j)
  BY <1>1, <1>3
<1> HIDE DEF P
<1>5. /\ DocumentsGrow
      /\ UNCHANGED <<classID, studentIDs, assignmentIDs, problems, results, joining>>
      /\ UNCHANGED <<name, role, me, current, loading>>
  BY <1>2 DEF documents, device, DocumentsGrow, Member
<1>6. PagesInv'
  BY <1>2, <1>4, <1>5, PagesKept
<1>7. TypeOK'
  BY <1>2, <1>3, <1>5 DEF IInv, TypeOK
<1>8. JoiningInv' /\ LateInv'
  BY <1>2, <1>5 DEF IInv, JoiningInv, LateInv, Member
<1>9. CurrentInv'
  BY <1>5, CopiesStay DEF IInv, CurrentInv
<1>10. pages'["results"].screen # "QuizResults"
  <2>1. NoPage.screen = "none"
    BY DEF NoPage
  <2>2. pages'["results"] = W["results"]
    BY <1>2, <1>3 DEF Places
  <2>3. W["results"] \in {NoPage, pages["results"]}
    BY <1>1 DEF Places
  <2> QED
    BY <1>1, <2>1, <2>2, <2>3 DEF IInv, ChainInv
<1>11. ChainInv'
  BY <1>2, <1>3, <1>5, <1>10 DEF ChainInv
<1> QED
  BY <1>6, <1>7, <1>8, <1>9, <1>11 DEF IInv

LEMMA OpenListStep ==
    ASSUME IInv, at \in {"home", "list", "answers"}, NEW s \in Students,
           NEW screen \in Screens \ {"none"}, screen \in ScreenOf[role]["list"],
           OpenList(screen, s)
    PROVE  IInv'
<1> DEFINE p == NewPage(screen, s, 0, None, NoList, FALSE)
<1>1. current \in Copies /\ role \in {"teacher", "parent", "student"}
  BY DEF IInv, CurrentInv, TypeOK
<1>2. NoList \in Lists /\ NoList.id = Dot /\ NoList.rows = {}
  BY ReportsAssumption DEF NoList, Lists
<1>3. /\ p.rows = {} /\ p.origin = NoList /\ p.screen = screen
      /\ p.waits = Requests[screen]
      /\ p.class = IF screen \in CountsInCurrent THEN current ELSE Empty(NoClass)
  BY DEF NewPage
<1>4. RowsOf("list", p)
  <2>1. <<"assignments">> # << >>
    OBVIOUS
  <2> HIDE DEF p
  <2>2. p.screen = "StudentAssignmentsView" => p.waits # << >>
    BY <1>3, <2>1 DEF Requests
  <2> QED
    BY <1>2, <1>3, <2>2 DEF RowsOf, ListRows
<1>5. p \in Good("list")
  <2>1. 0 \in Nat /\ None \in Assignments \cup {None} /\ FALSE \in BOOLEAN
        /\ "list" \in Places
    BY DEF Places
  <2> QED
    BY <1>1, <1>2, <1>4, <2>1, NewPageGood
<1>6. Present("list", p)
  BY DEF OpenList
<1>7. role = "student" => p.class.id = current.id
  BY <1>1, <1>3, PlaceOf DEF Places, CountsInCurrent
<1> HIDE DEF p
<1>8. "list" \in Places \ {"results"}
  BY DEF Places
<1> QED
  BY <1>3, <1>5, <1>6, <1>7, <1>8, PresentStep

LEMMA TapStep ==
    ASSUME IInv, NEW k \in {"overview", "answers"}, NEW i \in Nat,
           NEW screen \in Screens \ {"none"}, screen \in ScreenOf[role][k],
           Tap(k, screen, i),
           role = "student" => /\ k = "answers"
                               /\ screen = "StudentAssignmentOverview"
                               /\ pages["list"].screen = "StudentAssignmentsView"
    PROVE  IInv'
<1> DEFINE l == pages["list"]
           a == At(i, l.rows)
           p == NewPage(screen, l.student, i, a, l.origin, FALSE)
<1>1. current \in Copies /\ role \in {"teacher", "parent", "student"}
  BY DEF IInv, CurrentInv, TypeOK
<1>2. l \in Good("list") /\ l \in Page
  BY DEF IInv, PagesInv, Places, Good
<1>3. /\ at = "list" /\ l.waits = << >> /\ InRange(i, l.rows)
      /\ Present(k, p)
  BY DEF Tap
<1>4. /\ l.rows = l.origin.rows
      /\ l.screen = "StudentAssignmentsView" => l.origin.id = l.class.id
  BY <1>2, <1>3 DEF Good, RowsOf, ListRows
<1>5. l.rows \in SUBSET Assignments /\ l.student \in Students /\ l.origin \in Lists
  BY <1>2 DEF Page, Good, Fetched
<1>6. a \in l.rows /\ RowOf(a, l.rows) = i
  BY <1>3, <1>5, Numbered, AtRow
<1>7. /\ p.origin = l.origin /\ p.screen = screen /\ p.tapped = a
      /\ p.row = i /\ p.byName = FALSE
      /\ p.class = IF screen \in CountsInCurrent THEN current ELSE Empty(NoClass)
  BY DEF NewPage
<1>8. l.origin.id = current.id => l.origin.rows \subseteq current.assignmentIDs
  BY <1>2 DEF Good, Follows
<1>9. Counts(p, p.class)
  <2>1. p.class.id = p.origin.id => p.origin.rows \subseteq p.class.assignmentIDs
    <3>1. CASE screen \in CountsInCurrent
      BY <1>7, <1>8, <3>1
    <3>2. CASE screen \notin CountsInCurrent
      <4>1. p.class.id = NoClass
        BY <1>7, <3>2, EmptyIsCopy
      <4>2. l.origin.id = NoClass => l.origin.rows = {}
        BY <1>5, ReportsAssumption DEF Lists
      <4> QED
        BY <1>7, <4>1, <4>2
    <3> QED
      BY <3>1, <3>2
  <2>2. p.class \in Class
    BY <1>1, <1>7, EmptyIsCopy DEF Copies
  <2>3. l.origin.rows \in SUBSET Assignments
    BY <1>4, <1>5
  <2> HIDE DEF p, a, l
  <2>4. InRange(i, l.origin.rows)
    BY <1>3, <1>4
  <2>5. ASSUME p.class.id = p.origin.id PROVE InRange(p.row, p.class.assignmentIDs)
    <3>1. /\ p.class.assignmentIDs \in SUBSET Assignments
          /\ l.origin.rows \in SUBSET p.class.assignmentIDs
      BY <1>7, <2>1, <2>2, <2>5 DEF Class
    <3> QED
      BY <1>7, <2>4, <3>1, InRangeGrows
  <2> QED
    BY <1>4, <1>6, <1>7, <2>1, <2>5 DEF Counts
<1>10. RowsOf(k, p)
  BY <1>4, <1>6, <1>7, <1>9 DEF RowsOf, TappedRows
<1>11. p \in Good(k)
  <2>1. /\ k \in Places /\ FALSE \in BOOLEAN
        /\ a \in Assignments \cup {None}
    BY <1>5, <1>6 DEF Places
  <2> HIDE DEF a, l
  <2> QED
    BY <1>1, <1>5, <1>8, <1>10, <2>1, NewPageGood
<1>12. role = "student" /\ loading # NoClass =>
           p.class.id = current.id /\ p.origin.id = current.id
  BY <1>3, <1>4, <1>7 DEF CountsInCurrent, IInv, ChainInv
<1>13. k \in Places \ {"results"}
  BY DEF Places
<1> HIDE DEF p, a, l
<1> QED
  BY <1>3, <1>7, <1>11, <1>12, <1>13, PresentStep

LEMMA OpenStep ==
    ASSUME IInv, OpenAssignments \/ OpenStudent \/ OpenMine
                     \/ \E s \in Students : OpenChild(s)
    PROVE  IInv'
<1>1. /\ me \in Students
      /\ "TeacherAssignmentPage" \in Screens /\ "TeacherOverviewStudentList" \in Screens
      /\ "StudentAssignmentsView" \in Screens /\ "ParentStudentOverview" \in Screens
  BY DEF IInv, TypeOK, Screens
<1>2. CASE OpenAssignments
  <2>1. role = "teacher" /\ at \in {"home", "list"}
        /\ OpenList("TeacherAssignmentPage", me)
    BY <1>2 DEF OpenAssignments
  <2>2. "TeacherAssignmentPage" \in ScreenOf[role]["list"]
    BY <2>1 DEF ScreenOf
  <2> QED
    BY <1>1, <2>1, <2>2, OpenListStep
<1>3. CASE OpenStudent
  <2>1. role = "teacher" /\ at \in {"home", "list"}
        /\ OpenList("TeacherOverviewStudentList", me)
    BY <1>3 DEF OpenStudent
  <2>2. "TeacherOverviewStudentList" \in ScreenOf[role]["list"]
    BY <2>1 DEF ScreenOf
  <2> QED
    BY <1>1, <2>1, <2>2, OpenListStep
<1>4. CASE OpenMine
  <2>1. role = "student" /\ at \in {"home", "answers"}
        /\ OpenList("StudentAssignmentsView", me)
    BY <1>4 DEF OpenMine
  <2>2. "StudentAssignmentsView" \in ScreenOf[role]["list"]
    BY <2>1 DEF ScreenOf
  <2> QED
    BY <1>1, <2>1, <2>2, OpenListStep
<1>5. CASE \E s \in Students : OpenChild(s)
  <2>1. PICK s \in Students : OpenChild(s)
    BY <1>5
  <2>2. role = "parent" /\ at = "home" /\ OpenList("ParentStudentOverview", s)
    BY <2>1 DEF OpenChild
  <2>3. "ParentStudentOverview" \in ScreenOf[role]["list"]
    BY <2>2 DEF ScreenOf
  <2> QED
    BY <1>1, <2>2, <2>3, OpenListStep
<1> QED
  BY <1>2, <1>3, <1>4, <1>5

LEMMA TapsStep ==
    ASSUME IInv, NEW i \in Nat,
           \/ TapAssignment(i) \/ TapStudentsAssignment(i)
           \/ TapChildsAssignment(i) \/ TapMyAssignment(i)
    PROVE  IInv'
<1>1. /\ pages["list"].screen \in ScreenOf[role]["list"]
      /\ role \in {"teacher", "parent", "student"}
  BY DEF IInv, PagesInv, TypeOK, Places, Good
<1>2. /\ "TeacherAssignmentOverview" \in Screens /\ "TeacherStudentAnswers" \in Screens
      /\ "ParentStudentAssignmentOverview" \in Screens
      /\ "StudentAssignmentOverview" \in Screens
  BY DEF Screens
<1>3. CASE TapAssignment(i)
  <2>1. /\ pages["list"].screen = "TeacherAssignmentPage"
        /\ Tap("overview", "TeacherAssignmentOverview", i)
    BY <1>3 DEF TapAssignment
  <2>2. role = "teacher"
    BY <1>1, <2>1 DEF ScreenOf
  <2>3. "TeacherAssignmentOverview" \in ScreenOf[role]["overview"]
    BY <2>2 DEF ScreenOf
  <2> QED
    BY <1>2, <2>1, <2>2, <2>3, TapStep
<1>4. CASE TapStudentsAssignment(i)
  <2>1. /\ pages["list"].screen = "TeacherOverviewStudentList"
        /\ Tap("answers", "TeacherStudentAnswers", i)
    BY <1>4 DEF TapStudentsAssignment
  <2>2. role = "teacher"
    BY <1>1, <2>1 DEF ScreenOf
  <2>3. "TeacherStudentAnswers" \in ScreenOf[role]["answers"]
    BY <2>2 DEF ScreenOf
  <2> QED
    BY <1>2, <2>1, <2>2, <2>3, TapStep
<1>5. CASE TapChildsAssignment(i)
  <2>1. /\ pages["list"].screen = "ParentStudentOverview"
        /\ Tap("answers", "ParentStudentAssignmentOverview", i)
    BY <1>5 DEF TapChildsAssignment
  <2>2. role = "parent"
    BY <1>1, <2>1 DEF ScreenOf
  <2>3. "ParentStudentAssignmentOverview" \in ScreenOf[role]["answers"]
    BY <2>2 DEF ScreenOf
  <2> QED
    BY <1>2, <2>1, <2>2, <2>3, TapStep
<1>6. CASE TapMyAssignment(i)
  <2>1. /\ pages["list"].screen = "StudentAssignmentsView"
        /\ Tap("answers", "StudentAssignmentOverview", i)
    BY <1>6 DEF TapMyAssignment
  <2>2. role = "student"
    BY <1>1, <2>1 DEF ScreenOf
  <2>3. "StudentAssignmentOverview" \in ScreenOf[role]["answers"]
    BY <2>2 DEF ScreenOf
  <2> QED
    BY <1>2, <2>1, <2>3, TapStep
<1> QED
  BY <1>3, <1>4, <1>5, <1>6

LEMMA TapStudentStep ==
    ASSUME IInv, NEW s \in Students, TapStudent(s)
    PROVE  IInv'
<1> DEFINE v == pages["overview"]
           o == [id |-> v.class.id, rows |-> v.rows]
           p == NewPage("TeacherStudentAnswers", s, v.row, v.shown, o, FALSE)
<1>1. current \in Copies /\ role \in {"teacher", "parent", "student"}
  BY DEF IInv, CurrentInv, TypeOK
<1>2. v \in Good("overview") /\ v \in Page
  BY DEF IInv, PagesInv, Places, Good
<1>3. at = "overview" /\ v.shown # None /\ Present("answers", p)
  BY DEF TapStudent
<1>4. /\ v.screen # "none" /\ v.rows = v.class.assignmentIDs
      /\ InRange(v.row, v.rows) /\ v.shown = At(v.row, v.rows)
  BY <1>2, <1>3 DEF Good, ShownRow, Shown
<1>5. v.screen = "TeacherAssignmentOverview" /\ role = "teacher"
  BY <1>1, <1>2, <1>4 DEF Good, ScreenOf
<1>6. v.rows \in SUBSET Assignments /\ v.row \in Nat /\ v.class \in Copies
  BY <1>2 DEF Page, Good, Fetched
<1>7. v.shown \in v.rows /\ RowOf(v.shown, v.rows) = v.row
  BY <1>4, <1>6, Numbered, AtRow
<1>8. o \in Lists /\ o.id = v.class.id /\ o.rows = v.rows
  BY <1>4, <1>6 DEF Lists, Copies, Class
<1>9. o.id = current.id => o.rows \subseteq current.assignmentIDs
  BY <1>2, <1>4, <1>5, <1>8 DEF Good, Follows, CountsInCurrent
<1> HIDE DEF o
<1>10. /\ p.origin = o /\ p.tapped = v.shown /\ p.row = v.row /\ p.byName = FALSE
       /\ p.screen = "TeacherStudentAnswers" /\ p.class = Empty(NoClass)
  BY DEF NewPage, CountsInCurrent
<1>11. Counts(p, p.class)
  <2>1. p.class.id = NoClass
    BY <1>10, EmptyIsCopy
  <2>2. v.class.id # NoClass
    BY <1>4, <1>6, <1>7, ReportsAssumption DEF Copies
  <2> QED
    BY <1>8, <1>10, <2>1, <2>2 DEF Counts
<1>12. RowsOf("answers", p)
  BY <1>7, <1>8, <1>10, <1>11 DEF RowsOf, TappedRows
<1>13. p \in Good("answers")
  <2>1. "TeacherStudentAnswers" \in ScreenOf[role]["answers"]
    BY <1>5 DEF ScreenOf
  <2>2. /\ "answers" \in Places /\ FALSE \in BOOLEAN
        /\ v.shown \in Assignments \cup {None}
        /\ "TeacherStudentAnswers" \in Screens \ {"none"}
    BY <1>6, <1>7 DEF Places, Screens
  <2> HIDE DEF v
  <2> QED
    BY <1>1, <1>6, <1>8, <1>9, <1>12, <2>1, <2>2, NewPageGood
<1>14. "answers" \in Places \ {"results"}
  BY DEF Places
<1> HIDE DEF p, v
<1> QED
  BY <1>3, <1>5, <1>10, <1>13, <1>14, PresentStep

LEMMA LeaveResultsStep ==
    ASSUME IInv, LeaveResults
    PROVE  IInv'
<1> DEFINE r == pages["results"]
           p == NewPage("StudentAssignmentOverview", me, r.row, r.tapped, r.origin, TRUE)
<1>1. /\ current \in Copies /\ role \in {"teacher", "parent", "student"}
      /\ me \in Students
  BY DEF IInv, CurrentInv, TypeOK
<1>2. r \in Good("results") /\ r \in Page
  BY DEF IInv, PagesInv, Places, Good
<1>3. at = "results" /\ r.waits = << >> /\ Present("answers", p)
  BY DEF LeaveResults
<1>4. r.screen = "QuizResults"
  BY <1>3 DEF IInv, ChainInv
<1>5. role = "student"
  BY <1>1, <1>2, <1>4 DEF Good, ScreenOf
<1>6. r.tapped \in r.origin.rows /\ Counts(r, current)
  BY <1>2, <1>3, <1>4 DEF Good, RowsOf, ResultsRows
<1>7. /\ r.row \in Nat /\ r.tapped \in Assignments \cup {None} /\ r.origin \in Lists
      /\ r.origin.id = current.id => r.origin.rows \subseteq current.assignmentIDs
  BY <1>2 DEF Page, Good, Fetched, Follows
<1>8. /\ p.origin = r.origin /\ p.tapped = r.tapped /\ p.row = r.row
      /\ p.byName = TRUE /\ p.screen = "StudentAssignmentOverview"
      /\ p.class = current
  BY DEF NewPage, CountsInCurrent
<1>9. Counts(p, p.class)
  BY <1>6, <1>8 DEF Counts, NameClash
<1>10. RowsOf("answers", p)
  BY <1>6, <1>8, <1>9 DEF RowsOf, TappedRows
<1>11. p \in Good("answers")
  <2>1. "StudentAssignmentOverview" \in ScreenOf[role]["answers"]
    BY <1>5 DEF ScreenOf
  <2>2. /\ "answers" \in Places /\ TRUE \in BOOLEAN
        /\ "StudentAssignmentOverview" \in Screens \ {"none"}
    BY DEF Places, Screens
  <2> HIDE DEF r
  <2> QED
    BY <1>1, <1>7, <1>10, <2>1, <2>2, NewPageGood
<1>12. loading # NoClass => p.class.id = current.id /\ p.origin.id = current.id
  BY <1>3, <1>5, <1>8 DEF IInv, ChainInv
<1>13. "answers" \in Places \ {"results"}
  BY DEF Places
<1> HIDE DEF p
<1> QED
  BY <1>3, <1>8, <1>11, <1>12, <1>13, PresentStep

LEMMA FinishQuizStep ==
    ASSUME IInv, FinishQuiz
    PROVE  IInv'
<1> DEFINE u == pages["answers"]
           a == u.tapped
           others == [s \in Students |-> IF HasResult(a, me) THEN 0 ELSE results[a][s]]
           new == [others EXCEPT ![me] = problems[a]]
           p == NewPage("QuizResults", me, 0, a, u.origin, FALSE)
           W == Without({"list", "answers"})
           P == [W EXCEPT !["results"] = p]
<1>1. /\ current \in Copies /\ me \in Students /\ role = "student" /\ at = "answers"
  BY DEF IInv, CurrentInv, TypeOK, FinishQuiz
<1>2. u \in Good("answers") /\ u \in Page /\ u.screen # "none"
  BY <1>1 DEF IInv, PagesInv, Places, Good, ChainInv
<1>3. /\ results' = [results EXCEPT ![a] = new]
      /\ pages' = P /\ at' = "results"
      /\ UNCHANGED <<classID, studentIDs, assignmentIDs, problems, joining,
                     device, changes, late, trap>>
  BY DEF FinishQuiz
<1>4. UNCHANGED <<name, role, me, current, loading>>
  BY <1>3 DEF device
<1>5. a \in u.origin.rows /\ a \in Assignments
  BY <1>2 DEF Good, RowsOf, TappedRows, Page
<1>6. /\ u.origin \in Lists
      /\ u.origin.id = current.id => u.origin.rows \subseteq current.assignmentIDs
  BY <1>2 DEF Good, Fetched, Follows
<1>7. /\ p.origin = u.origin /\ p.tapped = a /\ p.screen = "QuizResults"
      /\ p.class = current /\ p.waits = <<"assignments">>
  BY DEF NewPage, CountsInCurrent, Requests
<1>8. /\ new \in [Students -> 0..MaxProblems]
      /\ \A s \in Students :
             new[s] = IF s = me THEN problems[a]
                      ELSE IF HasResult(a, me) THEN 0 ELSE results[a][s]
  <2> HIDE DEF a
  <2>0. /\ problems \in [Assignments -> 1..MaxProblems]
        /\ results \in [Assignments -> [Students -> 0..MaxProblems]]
        /\ MaxProblems \in Nat /\ 0 \in 0..MaxProblems
    BY ReportsAssumption DEF IInv, TypeOK
  <2>1. /\ problems[a] \in 0..MaxProblems /\ 0 \in 0..MaxProblems
        /\ results[a] \in [Students -> 0..MaxProblems]
    BY <1>5, <2>0
  <2>2. others \in [Students -> 0..MaxProblems]
    BY <2>1
  <2> QED
    BY <1>1, <2>1, <2>2
<1> HIDE DEF new, others
<1>9. results' \in [Assignments -> [Students -> 0..MaxProblems]]
  <2> HIDE DEF a
  <2> QED
    BY <1>3, <1>5, <1>8 DEF IInv, TypeOK
<1>10. LateInv'
  <2> HIDE DEF a
  <2>1. ASSUME NEW b \in Assignments \ late, NEW s \in Students, results'[b][s] > 0
        PROVE  problems[b] <= results'[b][s]
    <3>1. CASE b = a
      <4>1. results'[b] = new
        BY <1>3, <1>5, <3>1 DEF IInv, TypeOK
      <4>2. CASE s = me
        <5>1. results'[b][s] = problems[b] /\ problems[b] \in Nat
          BY <1>5, <1>8, <3>1, <4>1, <4>2 DEF IInv, TypeOK
        <5> QED
          BY <5>1
      <4>3. CASE s # me
        <5>1. results'[b][s] = 0 \/ results'[b][s] = results[b][s]
          BY <1>8, <3>1, <4>1, <4>3
        <5> QED
          BY <2>1, <5>1 DEF IInv, LateInv
      <4> QED
        BY <4>2, <4>3
    <3>2. CASE b # a
      <4>1. results'[b] = results[b]
        BY <1>3, <3>2 DEF IInv, TypeOK
      <4> QED
        BY <2>1, <4>1 DEF IInv, LateInv
    <3> QED
      BY <3>1, <3>2
  <2> QED
    BY <1>3, <2>1 DEF LateInv
<1>11. p \in Good("results")
  <2>1. /\ "QuizResults" \in ScreenOf[role]["results"] /\ "results" \in Places
        /\ "QuizResults" \in Screens \ {"none"} /\ 0 \in Nat /\ FALSE \in BOOLEAN
    BY <1>1 DEF ScreenOf, Places, Screens
  <2>2. RowsOf("results", p)
    <3>0. <<"assignments">> # << >>
      OBVIOUS
    <3> HIDE DEF p
    <3>1. p.waits # << >>
      BY <1>7, <3>0
    <3> QED
      BY <1>5, <1>6, <1>7, <3>1 DEF RowsOf, ResultsRows
  <2>3. a \in Assignments \cup {None}
    BY <1>5
  <2> HIDE DEF u, a
  <2> QED
    BY <1>1, <1>6, <2>1, <2>2, <2>3, NewPageGood
<1>12. W \in [Places -> Page] /\ \A j \in Places : W[j] \in Good(j)
  BY WithoutGood
<1> HIDE DEF W
<1>13. /\ p \in Page /\ P \in [Places -> Page] /\ P["results"] = p
       /\ \A j \in Places : P[j] \in Good(j)
  BY <1>11, <1>12 DEF Good, Places
<1> HIDE DEF P
<1>14. DocumentsGrow
  BY <1>3, <1>4 DEF DocumentsGrow, Member
<1>15. PagesInv'
  BY <1>3, <1>4, <1>13, <1>14, PagesKept
<1>16. TypeOK'
  BY <1>3, <1>4, <1>9, <1>13 DEF IInv, TypeOK, Places
<1>17. JoiningInv'
  BY <1>3 DEF IInv, JoiningInv, Member
<1>18. CurrentInv'
  BY <1>4, <1>14, CopiesStay DEF IInv, CurrentInv
<1>19. ChainInv'
  <2>1. loading # NoClass => u.class.id = current.id /\ u.origin.id = current.id
    BY <1>1 DEF IInv, ChainInv
  <2>2. pages'["results"] = p
    BY <1>3, <1>13
  <2> HIDE DEF p
  <2> QED
    BY <1>3, <1>4, <1>7, <2>1, <2>2 DEF ChainInv
<1> QED
  BY <1>10, <1>15, <1>16, <1>17, <1>18, <1>19 DEF IInv

LEMMA BackStep ==
    ASSUME IInv, Back
    PROVE  IInv'
<1>1. /\ role # "student" /\ at \in {"overview", "answers"}
      /\ at' \in {"list", "overview"} /\ pages' = Without({at})
      /\ UNCHANGED <<documents, device, changes, late, trap>>
  BY DEF Back
<1>2. /\ DocumentsGrow
      /\ UNCHANGED <<classID, studentIDs, assignmentIDs, problems, results, joining>>
      /\ UNCHANGED <<name, role, me, current, loading>>
  BY <1>1 DEF documents, device, DocumentsGrow, Member
<1> DEFINE P == Without({at})
<1>3. /\ P \in [Places -> Page]
      /\ \A j \in Places : P[j] \in Good(j) /\ P[j] \in {NoPage, pages[j]}
  BY WithoutGood
<1>4. pages' = P
  BY <1>1
<1> HIDE DEF P
<1>5. PagesInv'
  BY <1>2, <1>3, <1>4, PagesKept
<1>6. TypeOK'
  BY <1>1, <1>2, <1>3, <1>4 DEF IInv, TypeOK, Places
<1>7. JoiningInv' /\ LateInv'
  BY <1>1, <1>2 DEF IInv, JoiningInv, LateInv, Member
<1>8. CurrentInv'
  BY <1>2, CopiesStay DEF IInv, CurrentInv
<1>9. ChainInv'
  <2>1. pages'["results"].screen # "QuizResults"
    <3>1. P["results"] \in Good("results") /\ role \in {"teacher", "parent", "student"}
      BY <1>3 DEF Places, IInv, TypeOK
    <3> QED
      BY <1>1, <1>4, <3>1 DEF Good, ScreenOf
  <2> QED
    BY <1>1, <1>2, <2>1 DEF ChainInv
<1> QED
  BY <1>5, <1>6, <1>7, <1>8, <1>9 DEF IInv

LEMMA OpenHomeStep ==
    ASSUME IInv, OpenHome
    PROVE  IInv'
<1> DEFINE P == Without(Places)
           h == HomeClass
<1>1. /\ at \in {"home", "list"} /\ at' = "home" /\ loading' = h
      /\ pages' = P
      /\ UNCHANGED <<documents, name, role, me, current, changes, late, trap>>
  BY DEF OpenHome
<1>2. /\ DocumentsGrow
      /\ UNCHANGED <<classID, studentIDs, assignmentIDs, problems, results, joining>>
  BY <1>1 DEF documents, DocumentsGrow, Member
<1>3. /\ P \in [Places -> Page]
      /\ \A j \in Places : P[j] \in Good(j) /\ P[j] \in {NoPage, pages[j]}
  BY WithoutGood
<1>4. /\ h \in Classes \cup {NoClass}
      /\ role = "teacher" => h = TeacherClass
      /\ role = "parent" => h = NoClass
  BY HomeClassTyped DEF IInv
<1>5. NoPage.screen = "none"
  BY DEF NoPage
<1> HIDE DEF P, h
<1>6. PagesInv'
  BY <1>1, <1>2, <1>3, PagesKept
<1>7. TypeOK'
  BY <1>1, <1>2, <1>3, <1>4 DEF IInv, TypeOK
<1>8. JoiningInv' /\ LateInv'
  BY <1>1, <1>2 DEF IInv, JoiningInv, LateInv, Member
<1>9. CurrentInv'
  BY <1>1, <1>2, <1>4, CopiesStay DEF IInv, CurrentInv
<1>10. ChainInv'
  <2>1. pages'["results"].screen # "QuizResults"
    BY <1>1, <1>3, <1>5 DEF Places, IInv, ChainInv
  <2> QED
    BY <1>1, <2>1 DEF ChainInv
<1> QED
  BY <1>6, <1>7, <1>8, <1>9, <1>10 DEF IInv
----------------------------------------------------------------------------
(* The invariant.                                                          *)
LEMMA InitInv ==
    ASSUME Init
    PROVE  IInv
<1>1. /\ role \in {"teacher", "parent", "student"} /\ me \in Students
      /\ name \in Namings
  <2>1. First(Students) \in Students
    BY ReportsAssumption, FirstIn
  <2> QED
    BY <2>1, ReportsAssumption DEF Init
<1>2. Empty(Dot) \in Copies /\ Empty(Dot).id = Dot /\ Empty(Dot) \in Class
  BY EmptyIsCopy DEF Copies
<1>3. NoPage.screen = "none" /\ \A k \in Places : NoPage \in Good(k)
  BY <1>1, NoPageGood DEF NoPage
<1>4. NoPage \in Page
  BY <1>3 DEF Places, Good
<1>5. classID \in [Students -> Classes \cup {NoClass}]
  BY ReportsAssumption DEF Init
<1>6. /\ HomeClass \in Classes \cup {NoClass}
      /\ role = "teacher" => HomeClass = TeacherClass
      /\ role = "parent" => HomeClass = NoClass
  BY <1>1, <1>5, ReportsAssumption DEF HomeClass
<1>7. TypeOK
  <2>1. /\ problems \in [Assignments -> 1..MaxProblems]
        /\ results \in [Assignments -> [Students -> 0..MaxProblems]]
    BY ReportsAssumption DEF Init
  <2>2. /\ studentIDs \in [Classes -> SUBSET Students]
        /\ assignmentIDs \in [Classes -> SUBSET Assignments]
        /\ joining \subseteq Students \X Classes
    BY ReportsAssumption DEF Init
  <2>3. /\ current \in Class /\ loading \in Classes \cup {NoClass}
        /\ at \in Places \cup {"home", "trapped"}
        /\ pages \in [Places -> Page] /\ late \subseteq Assignments
        /\ trap \in Places \cup {"none"} /\ changes \in 0..MaxChanges
    BY <1>2, <1>4, <1>6, ReportsAssumption DEF Init
  <2> QED
    BY <1>1, <1>5, <2>1, <2>2, <2>3 DEF TypeOK
<1>8. PagesInv
  BY <1>3 DEF Init, PagesInv
<1>9. JoiningInv
  BY ReportsAssumption DEF Init, JoiningInv, Member
<1>10. LateInv
  BY DEF Init, LateInv
<1>11. CurrentInv
  BY <1>2, <1>6 DEF Init, CurrentInv
<1>12. ChainInv
  BY <1>3 DEF Init, ChainInv, Places
<1> QED
  BY <1>7, <1>8, <1>9, <1>10, <1>11, <1>12 DEF IInv

LEMMA NextInv ==
    ASSUME IInv, [Next]_vars
    PROVE  IInv'
<1>1. CASE Environment
  BY <1>1, EnvironmentStep
<1>2. CASE \E k \in Places : Arrive(k)
  BY <1>2, StudentArrivesStep, ClassArrivesStep, StudentsArriveStep,
     AssignmentsArriveStep DEF Arrive
<1>3. CASE ClassLoaded
  BY <1>3, ClassLoadedStep
<1>4. CASE User
  <2>1. \A i \in 0..Cardinality(Assignments) : i \in Nat
    OBVIOUS
  <2> QED
    BY <1>4, <2>1, OpenStep, TapsStep, TapStudentStep, FinishQuizStep,
       LeaveResultsStep, BackStep, OpenHomeStep DEF User
<1>5. CASE Relaunch
  BY <1>5, RelaunchStep
<1>6. CASE UNCHANGED vars
  <2>1. /\ DocumentsGrow /\ UNCHANGED <<device, at, pages, changes, late, trap>>
        /\ UNCHANGED <<classID, studentIDs, assignmentIDs, problems, results, joining>>
        /\ UNCHANGED <<name, role, me, current, loading>>
    BY <1>6 DEF vars, documents, device, DocumentsGrow, Member
  <2>2. TypeOK' /\ JoiningInv' /\ LateInv'
    BY <2>1 DEF IInv, TypeOK, JoiningInv, LateInv, Member
  <2> QED
    BY <2>1, <2>2, DevicesStep
<1> QED
  BY <1>1, <1>2, <1>3, <1>4, <1>5, <1>6 DEF Next

(* Every page on the device is one the invariant allows, in every          *)
(* behaviour: the order of the fetches decides what a row number means.    *)
THEOREM Invariance == Spec => []IInv
  BY InitInv, NextInv, PTL DEF Spec

(* The state keeps its types; in particular a row number is a natural      *)
(* number, also where QuizResults has looked for it by name.               *)
THEOREM TypeCorrect == Spec => []TypeOK
<1>1. IInv => TypeOK
  BY DEF IInv
<1> QED
  BY <1>1, Invariance, PTL

LEMMA ShowsTheTapped ==
    ASSUME IInv
    PROVE  WrongAssignmentOnlyIf
<1> SUFFICES ASSUME NEW k \in {"overview", "answers"},
                    pages[k].shown \notin {None, pages[k].tapped},
                    pages[k].class.id = pages[k].origin.id,
                    pages[k].origin.rows = assignmentIDs[pages[k].origin.id]
             PROVE  /\ pages[k].byName
                    /\ \E a \in pages[k].rows \ {pages[k].tapped} :
                           name[a] = name[pages[k].tapped]
  BY DEF WrongAssignmentOnlyIf
<1> DEFINE p == pages[k]
<1>1. p \in Good(k) /\ p \in Page
  BY DEF IInv, PagesInv, Places, Good
<1>2. /\ p.screen # "none" /\ p.waits = << >> /\ p.rows = p.class.assignmentIDs
      /\ InRange(p.row, p.rows) /\ p.shown = At(p.row, p.rows)
  BY <1>1 DEF Good, ShownRow, Shown
<1>3. /\ p.tapped \in p.origin.rows
      /\ ~p.byName => p.row = RowOf(p.tapped, p.origin.rows)
      /\ Loaded(p) => Counts(p, p.class)
  BY <1>1, <1>2 DEF Good, RowsOf, TappedRows
<1>4. Counts(p, p.class)
  <2>1. Left(p) = 0
    BY <1>2 DEF Left
  <2> QED
    BY <1>3, <2>1 DEF Loaded
<1>5. p.class \in Copies /\ p.origin \in Lists
  BY <1>1 DEF Good, Fetched
<1>6. p.origin.id \in Classes
  BY <1>3, <1>5 DEF Lists
<1>7. p.rows = p.origin.rows
  <2>1. p.class.id = p.origin.id /\ p.origin.rows = assignmentIDs[p.origin.id]
    OBVIOUS
  <2> HIDE DEF p
  <2>2. p.origin.rows \subseteq p.class.assignmentIDs
    BY <1>4, <2>1 DEF Counts
  <2>3. p.class.assignmentIDs \subseteq assignmentIDs[p.origin.id]
    BY <1>5, <1>6, <2>1 DEF Copies
  <2>4. p.class.assignmentIDs \subseteq p.origin.rows
    BY <2>1, <2>3
  <2>5. p.class.assignmentIDs = p.origin.rows
    BY <2>2, <2>4
  <2> QED
    BY <1>2, <2>5
<1>8. p.rows \in SUBSET Nat /\ IsFiniteSet(p.rows)
  BY <1>1, Numbered DEF Page
<1>9. p.row # RowOf(p.tapped, p.rows)
  BY <1>2, <1>3, <1>7, <1>8, RowAt
<1>10. NameClash(p)
  BY <1>2, <1>4, <1>7, <1>9 DEF Counts
<1> QED
  BY <1>3, <1>7, <1>9, <1>10 DEF NameClash

LEMMA TrapOfAdvance ==
    ASSUME Running, at' = "trapped", NEW k \in Places, NEW g, Advance(k, g)
    PROVE  ~(Left(g) > 1) /\ Traps(g) /\ trap' = k
  BY DEF Running, Advance, Trapped, Left

\* What is known of a page in which a row was tapped.
LEMMA TappedPage ==
    ASSUME IInv, NEW k \in {"overview", "answers"}, pages[k].screen # "none"
    PROVE  /\ pages[k].tapped # None
           /\ pages[k].origin.id \in Classes
           /\ Loaded(pages[k]) => Counts(pages[k], pages[k].class)
<1> DEFINE p == pages[k]
<1>1. p \in Good(k) /\ p \in Page
  BY DEF IInv, PagesInv, Places, Good
<1>2. /\ p.tapped \in p.origin.rows
      /\ Loaded(p) => Counts(p, p.class)
  BY <1>1 DEF Good, RowsOf, TappedRows
<1>3. p.origin \in Lists /\ p.origin.rows \subseteq Assignments
  BY <1>1 DEF Good, Fetched, Page
<1>4. p.origin.id \in Classes
  BY <1>2, <1>3 DEF Lists
<1> QED
  BY <1>2, <1>3, <1>4, ReportsAssumption

LEMMA StudentTrap ==
    ASSUME IInv, Running, at' = "trapped", NEW k \in Places, StudentArrives(k)
    PROVE  trap' = k /\ TrapCause(pages[k])
<1> DEFINE p == pages[k]
<1>1. /\ TypeOK /\ JoiningInv /\ current \in Copies
      /\ p \in Good(k) /\ p \in Page
      /\ p.waits # << >> /\ Head(p.waits) = "student"
  BY Waiting DEF StudentArrives
<1>2. CASE classID[p.student] # NoClass
  <2>1. Advance(k, GotStudent(p))
    BY <1>2 DEF StudentArrives, GotStudent
  <2>2. Left(GotStudent(p)) > 1
    <3> HIDE DEF p
    <3> QED
      BY <1>1, <1>2, GotStudentGood
  <2> QED
    BY <2>1, <2>2, TrapOfAdvance
<1>3. CASE classID[p.student] = NoClass
  <2>1. trap' = k
    BY <1>3 DEF StudentArrives, Trapped
  <2>2. \/ p.screen = "ParentStudentOverview"
        \/ p.screen = "TeacherStudentAnswers" /\ Left(p) = 3
        \/ p.screen = "ParentStudentAssignmentOverview" /\ Left(p) = 4
    BY <1>1, Stage DEF Good
  <2>3. CASE p.screen = "ParentStudentOverview"
    BY <1>1, <2>1, <2>3 DEF TrapCause
  <2>4. CASE p.screen # "ParentStudentOverview"
    <3>1. k = "answers"
      <4>1. p.screen \in ScreenOf[role][k] /\ role \in {"teacher", "parent", "student"}
        BY <1>1 DEF Good, TypeOK
      <4> HIDE DEF p
      <4> QED
        BY <2>2, <2>4, <4>1, PlaceOf
    <3>2. p.tapped # None /\ p.origin.id \in Classes
      BY <2>2, <3>1, TappedPage
    <3>3. p.class = Empty(NoClass)
      <4>1. ~Loaded(p)
        BY <2>2, <2>4 DEF Loaded, CountsInCurrent
      <4>2. Left(p) > (IF p.screen = "ParentStudentAssignmentOverview" THEN 3 ELSE 2)
        BY <2>2, <2>4
      <4> QED
        BY <1>1, <4>1, <4>2 DEF Good, Fetched
    <3>4. p.class.id = NoClass
      BY <3>3, EmptyIsCopy
    <3> QED
      BY <2>1, <3>2, <3>4, ReportsAssumption DEF TrapCause
  <2> QED
    BY <2>3, <2>4
<1> QED
  BY <1>2, <1>3

LEMMA ClassTrap ==
    ASSUME IInv, Running, at' = "trapped", NEW k \in Places, ClassArrives(k)
    PROVE  FALSE
<1> DEFINE p == pages[k]
<1>1. /\ TypeOK /\ current \in Copies /\ p \in Good(k)
      /\ p.waits # << >> /\ Head(p.waits) = "class"
  BY Waiting DEF ClassArrives
<1>2. Advance(k, GotClass(p))
  BY DEF ClassArrives, GotClass
<1>3. Left(GotClass(p)) > 1
  <2> HIDE DEF p
  <2> QED
    BY <1>1, GotClassGood
<1> QED
  BY <1>2, <1>3, TrapOfAdvance

LEMMA StudentsTrap ==
    ASSUME IInv, Running, at' = "trapped", NEW k \in Places, StudentsArrive(k)
    PROVE  FALSE
<1> DEFINE p == pages[k]
           g == GotStudents(p)
<1>1. /\ TypeOK /\ CurrentInv /\ p \in Good(k) /\ p \in Page
      /\ p.waits # << >> /\ Head(p.waits) = "students"
      /\ p.class.studentIDs \subseteq Students
  BY Waiting DEF StudentsArrive
<1>2. g.screen = p.screen /\ g.students = p.class.studentIDs
  BY <1>1 DEF GotStudents, Page
<1>3. CASE p.screen = "TeacherOverviewStudentList"
  <2>1. PICK s \in Students : Advance(k, [g EXCEPT !.student = s])
    BY <1>1, <1>2, <1>3 DEF StudentsArrive, GotStudents
  <2> DEFINE h == [g EXCEPT !.student = s]
  <2>2. ~Traps(h)
    <3> HIDE DEF p
    <3> QED
      BY <1>1, <1>3, StudentsListFilled
  <2> QED
    BY <2>1, <2>2, TrapOfAdvance
<1>4. CASE p.screen # "TeacherOverviewStudentList"
  <2>1. Advance(k, g)
    BY <1>2, <1>4 DEF StudentsArrive, GotStudents
  <2>2. Left(g) > 1
    <3> HIDE DEF p
    <3> QED
      BY <1>1, <1>4, GotStudentsGood
  <2> HIDE DEF g
  <2> QED
    BY <2>1, <2>2, TrapOfAdvance
<1> QED
  BY <1>3, <1>4

LEMMA AssignmentsTrap ==
    ASSUME IInv, Running, at' = "trapped", NEW k \in Places, AssignmentsArrive(k)
    PROVE  trap' = k /\ TrapCause(pages[k])
<1> DEFINE p == pages[k]
           g == GotRows(p)
<1>1. /\ TypeOK /\ CurrentInv /\ current \in Copies /\ p \in Good(k) /\ p \in Page
      /\ p.waits # << >> /\ Head(p.waits) = "assignments"
      /\ p.screen \in ScreenOf[role][k] /\ role \in {"teacher", "parent", "student"}
  BY Waiting DEF AssignmentsArrive, Good, TypeOK
<1>2. Advance(k, IF k = "list" THEN GotList(p) ELSE g)
  BY DEF AssignmentsArrive, GotList, GotRows
<1>3. /\ g.screen = p.screen /\ g.student = p.student /\ g.students = p.students
      /\ g.rows = p.class.assignmentIDs /\ g.row = p.row
  BY <1>1, GotRowsFields
<1>4. /\ trap' = k
      /\ Traps(IF k = "list" THEN GotList(p) ELSE g)
  BY <1>2, TrapOfAdvance
<1>5. GotList(p).screen = p.screen
  BY <1>1, <1>3, GotRowsFields DEF GotList, Page
<1>6. p.screen \in {"TeacherAssignmentOverview", "TeacherStudentAnswers",
                    "ParentStudentAssignmentOverview", "StudentAssignmentOverview"}
  BY <1>3, <1>4, <1>5 DEF Traps
<1>7. /\ p.screen = "TeacherAssignmentOverview" => k = "overview"
      /\ p.screen # "TeacherAssignmentOverview" => k = "answers"
  <2> HIDE DEF p
  <2> QED
    BY <1>1, <1>6, PlaceOf
<1>8. Traps(g) /\ k \in {"overview", "answers"}
  BY <1>4, <1>7
<1>9. p.tapped # None /\ p.origin.id \in Classes
      /\ (Loaded(p) => Counts(p, p.class))
  BY <1>6, <1>8, TappedPage
<1>10. Counts(p, p.class)
  <2>1. Left(p) = 1
    BY <1>1, <1>6, Stage DEF Good
  <2> QED
    BY <1>9, <2>1 DEF Loaded
<1>11. /\ p.class \in Copies /\ p.class.assignmentIDs \in SUBSET Assignments
       /\ p.row \in Nat
  BY <1>1 DEF Good, Fetched, Copies, Class, Page
<1>12. CASE p.class.id # p.origin.id
  BY <1>4, <1>9, <1>12 DEF TrapCause
<1>13. CASE p.class.id = p.origin.id
  <2>1. InRange(g.row, g.rows)
    BY <1>3, <1>10, <1>13 DEF Counts
  <2> DEFINE a == Shown(g)
  <2>2. a \in p.class.assignmentIDs
    <3>1. At(p.row, p.class.assignmentIDs) \in p.class.assignmentIDs
      BY <1>3, <1>11, <2>1, Numbered, AtRow
    <3> QED
      BY <1>3, <3>1 DEF Shown
  <2>3. a \in assignmentIDs[p.class.id] /\ a \in Assignments
    BY <1>9, <1>11, <1>13, <2>2 DEF Copies
  <2>4. CASE p.screen = "TeacherAssignmentOverview"
    <3>1. p.students = {} \/ ~HasResult(a, First(p.students))
      BY <1>3, <1>8, <2>1, <2>4 DEF Traps, AssignmentOverviewTraps
    <3> HIDE DEF a
    <3>2. ASSUME p.students # {} PROVE First(p.students) \in studentIDs[p.class.id]
      <4>1. /\ p.class.id = TeacherClass
            /\ p.students \subseteq studentIDs[TeacherClass]
        BY <1>1, <2>4, <3>2 DEF Good, StudentsOf
      <4>2. First(p.students) \in p.students
        BY <1>1, <3>2, FirstIn DEF Page
      <4> QED
        BY <4>1, <4>2
    <3> HIDE DEF p
    <3>3. TrapCause(p)
      BY <2>3, <2>4, <3>1, <3>2 DEF TrapCause
    <3> QED
      BY <1>4, <3>3 DEF p
  <2>5. CASE p.screen # "TeacherAssignmentOverview"
    <3>1. HasResult(a, p.student) /\ ~Fits(a, p.student)
      BY <1>3, <1>6, <1>8, <2>1, <2>5 DEF Traps, AnswersTrap
    <3> HIDE DEF a
    <3>2. a \in late
      BY <1>1, <2>3, <3>1 DEF IInv, LateInv, HasResult, Fits, Page
    <3> HIDE DEF p
    <3>3. TrapCause(p)
      BY <2>3, <2>5, <3>2 DEF TrapCause
    <3> QED
      BY <1>4, <3>3 DEF p
  <2> QED
    BY <2>4, <2>5
<1> QED
  BY <1>12, <1>13

LEMMA OnlyArrivalsTrap ==
    ASSUME Next, Running, at' = "trapped"
    PROVE  \E k \in Places : Arrive(k)
<1>1. CASE Environment
  BY <1>1 DEF Environment, PutInClass, Join, AddAssignment, AddProblem, Erase, Submit,
              Changed, Running
<1>2. CASE ClassLoaded
  BY <1>2 DEF ClassLoaded, Running
<1>3. CASE User
  BY <1>3 DEF User, OpenAssignments, OpenStudent, OpenMine, OpenChild, OpenList,
              TapStudent, TapAssignment, TapStudentsAssignment, TapChildsAssignment,
              TapMyAssignment, Tap, Present, FinishQuiz, LeaveResults, Back, OpenHome
<1>4. CASE Relaunch
  BY <1>4 DEF Relaunch
<1> QED
  BY <1>1, <1>2, <1>3, <1>4 DEF Next

(* Whatever the numbers of students, assignments and classes and whatever  *)
(* the documents become: a screen shows another assignment than the one    *)
(* tapped only in another class, after the list has grown, or where a quiz *)
(* was looked for by a name that two assignments have.                     *)
THEOREM WrongAssignment == Spec => []WrongAssignmentOnlyIf
  BY ShowsTheTapped, Invariance, PTL

(* An average of nobody is on a student's overview or on the page of a     *)
(* parent whose child was between the two writes of AddStudent.            *)
THEOREM NanAverages == Spec => []NanOnlyIf
<1>1. IInv => NanOnlyIf
  BY DEF IInv, PagesInv, Good, NanOf, NanOnlyIf
<1> QED
  BY <1>1, Invariance, PTL

(* The app traps on these pages for the causes listed only.                *)
THEOREM TrapCauses == Spec => TrapsHaveACause
<1>1. IInv /\ [Next]_vars =>
          [Running /\ at' = "trapped" => TrapCause(pages[trap'])]_vars
  <2> SUFFICES ASSUME IInv, Next, Running, at' = "trapped"
               PROVE  TrapCause(pages[trap'])
    OBVIOUS
  <2>1. PICK k \in Places : Arrive(k)
    BY OnlyArrivalsTrap
  <2>2. trap' = k /\ TrapCause(pages[k])
    BY <2>1, StudentTrap, ClassTrap, StudentsTrap, AssignmentsTrap DEF Arrive
  <2> QED
    BY <2>2
<1> QED
  BY <1>1, Invariance, PTL DEF Spec, TrapsHaveACause

============================================================================
