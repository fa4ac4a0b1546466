--------------------------- MODULE ReportScreens ---------------------------
(***************************************************************************)
(* The screens that show assignments and results, on one device, while the *)
(* documents change.  A teacher goes from TeacherAssignmentPage to         *)
(* TeacherAssignmentOverview, and from there, or from                      *)
(* TeacherOverviewStudentList, to TeacherStudentAnswers; a parent from     *)
(* ParentStudentOverview to ParentStudentAssignmentOverview; a student     *)
(* from StudentAssignmentsView to StudentAssignmentOverview, and back to   *)
(* it through Quiz and QuizResults.                                        *)
(*                                                                         *)
(* Each screen asks for documents one after the other and is filled when   *)
(* the last has arrived.  A tap hands the next screen the number of a row, *)
(* and that screen counts the rows of its own, later, fetch.  The lists    *)
(* and the student's overview count in currentClassroom, which only the    *)
(* homepage replaces; the answers count in the class the student's         *)
(* document names by then.                                                 *)
(*                                                                         *)
(* Assignments and students are numbers: a fetch returns documents in the  *)
(* order of their IDs.  A result is the number of its answers, zero when   *)
(* GetResultIndexByID finds none: it finds the first, and only ClearResults*)
(* takes it away.  The other devices are the environment: their writes are *)
(* seen here once they are committed.                                      *)
(***************************************************************************)
EXTENDS Integers, Sequences, FiniteSets

CONSTANTS
    Students,
    Assignments,
    Namings,        \* the names the assignments may have, whatever their case
    Classes,
    Dot,            \* the class ".": currentClassroom before any fetch
    NoClass,        \* no classID in the student's document
    None,           \* no assignment
    FirstClass,     \* the class each student starts in, if any
    FirstList,      \* the assignments each class starts with
    TeacherClass,   \* the class of the teacher
    MaxProblems,    \* bound: problems of an assignment
    MaxChanges      \* bound: changes made by teachers, and erasures

ASSUME ReportsAssumption ==
    /\ IsFiniteSet(Students) /\ Students \subseteq Nat /\ Students # {}
    /\ IsFiniteSet(Assignments) /\ Assignments \subseteq Nat
    /\ Dot \notin Classes
    /\ NoClass \notin Classes
    /\ None \notin Assignments
    /\ FirstClass \in [Students -> Classes \cup {NoClass}]
    /\ FirstList \in [Classes -> SUBSET Assignments]
    /\ TeacherClass \in Classes
    /\ Namings # {}
    /\ MaxProblems \in Nat \ {0}
    /\ MaxChanges \in Nat

VARIABLES
    classID,        \* per student document
    studentIDs,     \* per class document
    assignmentIDs,  \* per class document
    problems,       \* per assignment document: how many it has
    results,        \* per assignment document and student
    joining,        \* students whose classID is written and whose class
                    \* does not have them yet
    name,           \* per assignment document
    role,           \* who is signed in: "teacher", "parent" or "student"
    me,             \* the student who is signed in, if one is
    current,        \* currentClassroom
    loading,        \* the class the homepage has asked for
    at,             \* the screen on top
    pages,          \* the screens, by the place they have in the chain
    changes,        \* changes so far
    late,           \* history: assignments given a problem after a result
    trap            \* history: the page whose filling trapped

documents == <<classID, studentIDs, assignmentIDs, problems, results, joining>>
device    == <<name, role, me, current, loading>>
vars      == <<documents, device, at, pages, changes, late, trap>>

Class == [id : Classes \cup {Dot, NoClass}, assignmentIDs : SUBSET Assignments,
          studentIDs : SUBSET Students]

Places == {"list", "overview", "answers", "results"}

Screens == {"none",
    "TeacherAssignmentPage", "TeacherAssignmentOverview",
    "TeacherOverviewStudentList", "TeacherStudentAnswers",
    "ParentStudentOverview", "ParentStudentAssignmentOverview",
    "StudentAssignmentsView", "StudentAssignmentOverview", "QuizResults"}

\* What the viewDidLoad of each screen asks for, one request after the other.
Requests == [
    none                            |-> << >>,
    TeacherAssignmentPage           |-> <<"assignments">>,
    TeacherAssignmentOverview       |-> <<"students", "assignments">>,
    TeacherOverviewStudentList      |-> <<"assignments", "students">>,
    TeacherStudentAnswers           |-> <<"student", "class", "assignments">>,
    ParentStudentOverview           |-> <<"student", "class", "assignments">>,
    ParentStudentAssignmentOverview |->
        <<"student", "class", "students", "assignments">>,
    StudentAssignmentsView          |-> <<"assignments">>,
    StudentAssignmentOverview       |-> <<"assignments">>,
    QuizResults                     |-> <<"assignments">>]

\* The others count in a class they have fetched themselves.
CountsInCurrent == {
    "TeacherAssignmentPage", "TeacherAssignmentOverview",
    "TeacherOverviewStudentList", "StudentAssignmentsView",
    "StudentAssignmentOverview", "QuizResults"}

Page == [
    screen   : Screens,
    waits    : Seq({"student", "class", "students", "assignments"}),
    student  : Students,            \* studentID, CurrentUser on a student's
    class    : Class,               \* where the request under way counts
    students : SUBSET Students,     \* the students that have arrived
    rows     : SUBSET Assignments,  \* the assignments that have arrived
    row      : Nat,                 \* assignIndex
    shown    : Assignments \cup {None},
    complete : BOOLEAN,             \* the student has a result of it
    average  : {"none", "number", "N/A", "nan"},
    tapped   : Assignments \cup {None},     \* history: in the row tapped,
    origin   : [id : Classes \cup {Dot, NoClass}, rows : SUBSET Assignments],
                                            \* and the list it was a row of
    byName   : BOOLEAN,             \* history: QuizResults counted the rows
    early    : BOOLEAN]             \* history: the class arrived without the
                                    \* student who is about to join it

TypeOK ==
    /\ classID \in [Students -> Classes \cup {NoClass}]
    /\ studentIDs \in [Classes -> SUBSET Students]
    /\ assignmentIDs \in [Classes -> SUBSET Assignments]
    /\ problems \in [Assignments -> 1..MaxProblems]
    /\ results \in [Assignments -> [Students -> 0..MaxProblems]]
    /\ joining \subseteq Students \X Classes
    /\ name \in Namings
    /\ role \in {"teacher", "parent", "student"}
    /\ me \in Students
    /\ current \in Class
    /\ loading \in Classes \cup {NoClass}
    /\ at \in Places \cup {"home", "trapped"}
    /\ pages \in [Places -> Page]
    /\ changes \in 0..MaxChanges
    /\ late \subseteq Assignments
    /\ trap \in Places \cup {"none"}

First(students) == CHOOSE s \in students : \A t \in students : s <= t

Empty(c) == [id |-> c, assignmentIDs |-> {}, studentIDs |-> {}]
Document(c) ==
    [id |-> c, assignmentIDs |-> assignmentIDs[c], studentIDs |-> studentIDs[c]]

\* A screen when it is presented: s, i and the rest are handed to it.
NewPage(screen, s, i, a, list, named) == [
    screen |-> screen, waits |-> Requests[screen], student |-> s,
    class |-> IF screen \in CountsInCurrent THEN current ELSE Empty(NoClass),
    students |-> {}, rows |-> {}, row |-> i, shown |-> None,
    complete |-> FALSE, average |-> "none",
    tapped |-> a, origin |-> list, byName |-> named, early |-> FALSE]

NoPage == [
    screen |-> "none", waits |-> << >>, student |-> me, class |-> Empty(Dot),
    students |-> {}, rows |-> {}, row |-> 0, shown |-> None,
    complete |-> FALSE, average |-> "none", tapped |-> None,
    origin |-> [id |-> Dot, rows |-> {}], byName |-> FALSE, early |-> FALSE]

\* The class the homepage asks for; a parent's asks for none.
HomeClass ==
    CASE role = "teacher" -> TeacherClass
      [] role = "student" -> classID[me]
      [] role = "parent"  -> NoClass

Init ==
    /\ classID = FirstClass
    /\ studentIDs = [c \in Classes |-> {s \in Students : FirstClass[s] = c}]
    /\ assignmentIDs = FirstList
    /\ problems = [a \in Assignments |-> 1]
    /\ results = [a \in Assignments |-> [s \in Students |-> 0]]
    /\ joining = {}
    /\ role \in {"teacher", "parent", "student"}
    /\ me \in (IF role = "student" THEN Students ELSE {First(Students)})
    /\ name \in (IF role = "student" THEN Namings ELSE {CHOOSE n \in Namings : TRUE})
    /\ current = Empty(Dot)
    /\ loading = HomeClass
    /\ at = "home"
    /\ pages = [k \in Places |-> NoPage]
    /\ changes = 0
    /\ late = {}
    /\ trap = "none"

Running == at # "trapped"
----------------------------------------------------------------------------
(* What other devices commit.                                              *)

Changed ==
    /\ changes < MaxChanges
    /\ changes' = changes + 1
    /\ UNCHANGED <<device, at, pages, trap>>

\* A teacher's AddStudent, first its write of the student's document, ...
PutInClass(s, c) ==
    /\ Changed
    /\ classID[s] # c           \* once more would change nothing
    /\ classID' = [classID EXCEPT ![s] = c]
    /\ joining' = joining \cup ({<<s, c>>} \ (studentIDs[c] \X {c}))
    /\ UNCHANGED <<studentIDs, assignmentIDs, problems, results, late>>

\* ... then its addition to the class.
Join(s, c) ==
    /\ <<s, c>> \in joining
    /\ studentIDs' = [studentIDs EXCEPT ![c] = @ \cup {s}]
    /\ joining' = joining \ {<<s, c>>}
    /\ UNCHANGED <<classID, assignmentIDs, problems, results, device, at, pages,
                   changes, late, trap>>

\* Classroom.AddAssignment and Assignment.AddProblem.  No screen calls them:
\* the class's work is put into the database with them, or by hand.
AddAssignment(c, a) ==
    /\ Changed
    /\ a \notin assignmentIDs[c]
    /\ assignmentIDs' = [assignmentIDs EXCEPT ![c] = @ \cup {a}]
    /\ UNCHANGED <<classID, studentIDs, problems, results, joining, late>>

AddProblem(a) ==
    /\ Changed
    /\ problems[a] < MaxProblems
    /\ problems' = [problems EXCEPT ![a] = @ + 1]
    /\ late' = IF \E s \in Students : results[a][s] > 0 THEN late \cup {a} ELSE late
    /\ UNCHANGED <<classID, studentIDs, assignmentIDs, results, joining>>

\* Someone takes a quiz a second time: insertResult's ClearResults.
Erase(a) ==
    /\ Changed
    /\ \E s \in Students : results[a][s] > 0
    /\ results' = [results EXCEPT ![a] = [s \in Students |-> 0]]
    /\ UNCHANGED <<classID, studentIDs, assignmentIDs, problems, joining, late>>

\* insertResult's AddResult, on the device of a student who has been put in a
\* class with the assignment.
Submit(s, a) ==
    /\ ~(role = "student" /\ s = me)
    /\ results[a][s] = 0
    /\ \E c \in Classes :
           /\ a \in assignmentIDs[c]
           /\ s \in studentIDs[c] \/ <<s, c>> \in joining
    /\ results' = [results EXCEPT ![a][s] = problems[a]]
    /\ UNCHANGED <<classID, studentIDs, assignmentIDs, problems, joining, device,
                   at, pages, changes, late, trap>>
----------------------------------------------------------------------------
\* The row with number i, counted from zero.
InRange(i, ids) == i < Cardinality(ids)
RowOf(a, ids) == Cardinality({b \in ids : b < a})
At(i, ids) == CHOOSE a \in ids : RowOf(a, ids) = i

\* GetResultIndexByID(id: s) # -1
HasResult(a, s) == results[a][s] > 0

\* Mutant: the loop runs one past the last problem.
FitsOnePast(a, s) == problems[a] < results[a][s]

\* makeScrollView writes studentAns[i] and questMetrics[i] for each problem i.
Fits(a, s) == problems[a] <= results[a][s]

Taken(rows, s) == {a \in rows : HasResult(a, s)}
WithTime(a, students) == {s \in students : HasResult(a, s)}

\* findGrade, where it does not test that the quotient is a number (as a
\* mutant: everywhere), and where it does.
FoundUnguarded(rows, s) == IF Taken(rows, s) = {} THEN "nan" ELSE "number"
FoundGrade(rows, s) == IF Taken(rows, s) = {} THEN "N/A" ELSE "number"

\* getAvgTime
AverageTime(a, students) ==
    IF WithTime(a, students) = {} THEN "nan" ELSE "number"
----------------------------------------------------------------------------
(* What each screen does with the documents it has asked for: whether it   *)
(* traps, and what it shows if not.                                        *)

Shown(p) == At(p.row, p.rows)

ListShown(p, average) == [p EXCEPT !.waits = << >>, !.average = average]

\* Rows without grades.
AssignmentPageShown(p) == ListShown(p, "none")

MyAssignmentsShown(p)   == ListShown(p, FoundGrade(p.rows, me))
ChildShown(p)           == ListShown(p, FoundGrade(p.rows, p.student))
StudentOverviewShown(p) == ListShown(p, FoundUnguarded(p.rows, p.student))

\* populateAssignPageLabels reads the first student's result before it looks
\* for one that exists.
AssignmentOverviewTraps(p) ==
    \/ ~InRange(p.row, p.rows)
    \/ p.students = {}
    \/ ~HasResult(Shown(p), First(p.students))

AssignmentOverviewShown(p) ==
    [p EXCEPT !.waits = << >>, !.shown = Shown(p),
              !.average = AverageTime(Shown(p), p.students)]

\* The three screens of one student's answers.
AnswersTrap(p) ==
    \/ ~InRange(p.row, p.rows)
    \/ HasResult(Shown(p), p.student) /\ ~Fits(Shown(p), p.student)

AnswersShown(p) ==
    [p EXCEPT !.waits = << >>, !.shown = Shown(p),
              !.complete = HasResult(Shown(p), p.student)]

TeacherAnswersShown(p) == AnswersShown(p)
StudentAnswersShown(p) == AnswersShown(p)
ParentAnswersShown(p) ==
    [AnswersShown(p) EXCEPT
        !.average = IF HasResult(Shown(p), p.student)
                    THEN AverageTime(Shown(p), p.students) ELSE "none"]

\* The last assignment with the name of CurrentAssignment, or the first one.
SameName(p) == {a \in p.rows : name[a] = name[p.tapped]}

\* Mutants: the number of an assignment that is not found is -1, as
\* elsewhere; the rows are counted from one.
FoundOrMinusOne(p) ==
    IF SameName(p) = {} THEN -1
    ELSE RowOf(CHOOSE a \in SameName(p) : \A b \in SameName(p) : b <= a, p.rows)

FoundFromOne(p) ==
    IF SameName(p) = {} THEN 0
    ELSE RowOf(CHOOSE a \in SameName(p) : \A b \in SameName(p) : b <= a, p.rows) + 1

FoundByName(p) ==
    IF SameName(p) = {} THEN 0
    ELSE RowOf(CHOOSE a \in SameName(p) : \A b \in SameName(p) : b <= a, p.rows)

QuizResultsShown(p) == [p EXCEPT !.waits = << >>, !.row = FoundByName(p)]

Traps(p) ==
    CASE p.screen = "TeacherAssignmentOverview" -> AssignmentOverviewTraps(p)
      [] p.screen \in {"TeacherStudentAnswers", "ParentStudentAssignmentOverview",
                       "StudentAssignmentOverview"} -> AnswersTrap(p)
      [] OTHER -> FALSE

Filled(p) ==
    CASE p.screen = "TeacherAssignmentPage" -> AssignmentPageShown(p)
      [] p.screen = "TeacherOverviewStudentList" -> StudentOverviewShown(p)
      [] p.screen = "StudentAssignmentsView" -> MyAssignmentsShown(p)
      [] p.screen = "ParentStudentOverview" -> ChildShown(p)
      [] p.screen = "TeacherAssignmentOverview" -> AssignmentOverviewShown(p)
      [] p.screen = "TeacherStudentAnswers" -> TeacherAnswersShown(p)
      [] p.screen = "StudentAssignmentOverview" -> StudentAnswersShown(p)
      [] p.screen = "ParentStudentAssignmentOverview" -> ParentAnswersShown(p)
      [] p.screen = "QuizResults" -> QuizResultsShown(p)
----------------------------------------------------------------------------
Waits(k, what) ==
    /\ Running
    /\ pages[k].waits # << >>
    /\ Head(pages[k].waits) = what

\* The screen on top and those the user can pop back to.
OnStack ==
    CASE at = "answers"  -> {"list", "overview", "answers"}
      [] at = "overview" -> {"list", "overview"}
      [] OTHER           -> {at}

Trapped(k) == at' = "trapped" /\ trap' = k /\ UNCHANGED pages

\* The page at k has become p, and the next request, if there is one, goes out.
Advance(k, p) ==
    IF Len(p.waits) > 1
    THEN /\ pages' = [pages EXCEPT ![k] =
                [p EXCEPT !.waits = Tail(@),
                          !.class = IF p.screen \in CountsInCurrent THEN current
                                                                    ELSE @]]
         /\ UNCHANGED <<at, trap>>
    ELSE IF Traps(p) THEN Trapped(k)
    ELSE /\ pages' = [pages EXCEPT ![k] = IF k \in OnStack THEN Filled(p) ELSE NoPage]
         /\ UNCHANGED <<at, trap>>

\* `student.classID!' of a student in no class.
StudentArrives(k) ==
    /\ Waits(k, "student")
    /\ LET c == classID[pages[k].student] IN
       IF c = NoClass THEN Trapped(k)
       ELSE Advance(k, [pages[k] EXCEPT !.class = Empty(c)])
    /\ UNCHANGED <<documents, device, changes, late>>

ClassArrives(k) ==
    /\ Waits(k, "class")
    /\ LET c == pages[k].class.id IN
       Advance(k, [pages[k] EXCEPT
                      !.class = Document(c),
                      !.early = <<pages[k].student, c>> \in joining])
    /\ UNCHANGED <<documents, device, changes, late>>

\* TeacherOverviewStudentList shows the student in the tapped row: which one
\* that is, is Enrollment's subject.
StudentsArrive(k) ==
    /\ Waits(k, "students")
    /\ LET p == [pages[k] EXCEPT !.students = pages[k].class.studentIDs] IN
       IF p.screen = "TeacherOverviewStudentList"
       THEN \E s \in p.students : Advance(k, [p EXCEPT !.student = s])
       ELSE Advance(k, p)
    /\ UNCHANGED <<documents, device, changes, late>>

AssignmentsArrive(k) ==
    /\ Waits(k, "assignments")
    /\ LET ids == pages[k].class.assignmentIDs
           p == [pages[k] EXCEPT !.rows = ids]
       IN Advance(k, IF k = "list"
                     THEN [p EXCEPT !.origin = [id |-> p.class.id, rows |-> ids]]
                     ELSE p)
    /\ UNCHANGED <<documents, device, changes, late>>

\* The homepage's fetch completes, whatever screen is on top by then.
ClassLoaded ==
    /\ Running
    /\ loading \in Classes
    /\ current' = Document(loading)
    /\ loading' = NoClass
    /\ UNCHANGED <<documents, name, role, me, at, pages, changes, late, trap>>
----------------------------------------------------------------------------
(* What the user does.                                                     *)

\* A screen the user has left for good is gone once it waits for nothing.
Without(K) ==
    [k \in Places |-> IF k \in K /\ pages[k].waits = << >> THEN NoPage ELSE pages[k]]

Present(k, p) ==
    /\ pages[k].waits = << >>       \* bound: one page of each place at a time
    /\ pages' = [Without(IF k = "list" THEN Places ELSE {"results"}) EXCEPT ![k] = p]
    /\ at' = k
    /\ UNCHANGED <<documents, device, changes, late, trap>>

NoList == [id |-> Dot, rows |-> {}]
OpenList(screen, s) == Present("list", NewPage(screen, s, 0, None, NoList, FALSE))

OpenAssignments == role = "teacher" /\ at \in {"home", "list"}
                       /\ OpenList("TeacherAssignmentPage", me)

OpenStudent ==
    /\ role = "teacher" /\ at \in {"home", "list"}
    /\ current.studentIDs # {}
    /\ OpenList("TeacherOverviewStudentList", me)

OpenChild(s) == role = "parent" /\ at = "home"
                    /\ OpenList("ParentStudentOverview", s)

\* Also the way back from an overview: the segue presents a new list.
OpenMine == role = "student" /\ at \in {"home", "answers"}
                /\ OpenList("StudentAssignmentsView", me)

\* A tap on row i of the list: the next screen gets the number.
Tap(k, screen, i) ==
    /\ at = "list"
    /\ pages["list"].waits = << >>
    /\ InRange(i, pages["list"].rows)
    /\ Present(k, NewPage(screen, pages["list"].student, i,
                          At(i, pages["list"].rows), pages["list"].origin, FALSE))

TapAssignment(i) ==
    /\ pages["list"].screen = "TeacherAssignmentPage"
    /\ Tap("overview", "TeacherAssignmentOverview", i)

TapStudentsAssignment(i) ==
    /\ pages["list"].screen = "TeacherOverviewStudentList"
    /\ Tap("answers", "TeacherStudentAnswers", i)

TapChildsAssignment(i) ==
    /\ pages["list"].screen = "ParentStudentOverview"
    /\ Tap("answers", "ParentStudentAssignmentOverview", i)

TapMyAssignment(i) ==
    /\ pages["list"].screen = "StudentAssignmentsView"
    /\ Tap("answers", "StudentAssignmentOverview", i)

\* A tap on a student of TeacherAssignmentOverview.
TapStudent(s) ==
    /\ at = "overview"
    /\ LET p == pages["overview"] IN
       /\ p.shown # None
       /\ s \in p.students
       /\ Present("answers",
                  NewPage("TeacherStudentAnswers", s, p.row, p.shown,
                          [id |-> p.class.id, rows |-> p.rows], FALSE))

\* The start button, hidden once the overview has found a result, leads to
\* the quiz of CurrentAssignment, and insertResult to QuizResults.
FinishQuiz ==
    /\ role = "student" /\ at = "answers"
    /\ ~pages["answers"].complete
    /\ LET p == pages["answers"]
           a == p.tapped
           others == [s \in Students |-> IF HasResult(a, me) THEN 0 ELSE results[a][s]]
       IN /\ results' = [results EXCEPT ![a] = [others EXCEPT ![me] = problems[a]]]
          /\ pages["results"].waits = << >>
          /\ pages' = [Without({"list", "answers"}) EXCEPT !["results"] =
                          NewPage("QuizResults", me, 0, a, p.origin, FALSE)]
    /\ at' = "results"
    /\ UNCHANGED <<classID, studentIDs, assignmentIDs, problems, joining, device,
                   changes, late, trap>>

\* The submit button of QuizResults, once its fetch has attached the gesture.
LeaveResults ==
    /\ at = "results"
    /\ LET p == pages["results"] IN
       /\ p.waits = << >>
       /\ Present("answers", NewPage("StudentAssignmentOverview", me, p.row,
                                     p.tapped, p.origin, TRUE))

\* The navigation controller pops the screen; the one below is as it was.
Back ==
    /\ role # "student"
    /\ \/ at = "overview" /\ at' = "list"
       \/ /\ at = "answers"
          /\ at' = IF pages["list"].screen = "TeacherAssignmentPage"
                   THEN "overview" ELSE "list"
    /\ pages' = Without({at})
    /\ UNCHANGED <<documents, device, changes, late, trap>>

OpenHome ==
    /\ at \in {"home", "list"}
    /\ loading = NoClass            \* bound: one fetch of the class at a time
    /\ at' = "home"
    /\ loading' = HomeClass
    /\ pages' = Without(Places)
    /\ UNCHANGED <<documents, name, role, me, current, changes, late, trap>>

\* The process has died of a trap.  (Ended elsewhere, it would start like one
\* that has not begun: this device writes nothing but its student's results.)
Relaunch ==
    /\ at = "trapped"
    /\ at' = "home"
    /\ trap' = "none"
    /\ pages' = [k \in Places |-> NoPage]
    /\ current' = Empty(Dot)
    /\ loading' = HomeClass
    /\ UNCHANGED <<documents, name, role, me, changes, late>>

Environment ==
    \/ \E s \in Students, c \in Classes : PutInClass(s, c) \/ Join(s, c)
    \/ \E c \in Classes, a \in Assignments : AddAssignment(c, a)
    \/ \E a \in Assignments : AddProblem(a) \/ Erase(a)
    \/ \E s \in Students, a \in Assignments : Submit(s, a)

Arrive(k) ==
    StudentArrives(k) \/ ClassArrives(k) \/ StudentsArrive(k) \/ AssignmentsArrive(k)

User ==
    \/ OpenAssignments \/ OpenStudent \/ OpenMine
    \/ \E s \in Students : OpenChild(s) \/ TapStudent(s)
    \/ \E i \in 0..Cardinality(Assignments) :
           \/ TapAssignment(i) \/ TapStudentsAssignment(i)
           \/ TapChildsAssignment(i) \/ TapMyAssignment(i)
    \/ FinishQuiz \/ LeaveResults \/ Back \/ OpenHome

Next ==
    \/ Environment
    \/ \E k \in Places : Arrive(k)
    \/ ClassLoaded
    \/ User
    \/ Relaunch

Spec == Init /\ [][Next]_vars
----------------------------------------------------------------------------
(* A row number outlives the list it was a row of, but a screen shows      *)
(* another assignment than the tapped one only if it counts in another     *)
(* class (the student has been put there, or the homepage has asked again),*)
(* if the list's class has more assignments by now, or, after a quiz, if   *)
(* two of its assignments have one name.                                   *)
WrongAssignmentOnlyIf ==
    \A k \in {"overview", "answers"} :
        LET p == pages[k] IN
        p.shown \notin {None, p.tapped} =>
            \/ p.class.id # p.origin.id
            \/ p.origin.rows # assignmentIDs[p.origin.id]
            \/ p.byName /\ \E a \in p.rows \ {p.tapped} : name[a] = name[p.tapped]

(* An average of nobody is shown in two places only: on the overview of a  *)
(* student who has taken nothing, where findGrade lacks its guard, and to  *)
(* a parent whose class fetch came between the two writes of AddStudent,   *)
(* so that the child is not among the classmates.                          *)
NanOnlyIf ==
    \A k \in Places :
        pages[k].average = "nan" =>
            \/ pages[k].screen = "TeacherOverviewStudentList"
            \/ pages[k].screen = "ParentStudentAssignmentOverview" /\ pages[k].early

\* What a page may trap for.
TrapCause(p) ==
    \/ p.screen = "ParentStudentOverview" /\ Head(p.waits) = "student"
    \/ p.tapped # None /\ p.class.id # p.origin.id
    \/ /\ p.screen = "TeacherAssignmentOverview"
       /\ \/ p.students = {}
          \/ \E s \in studentIDs[p.class.id], a \in assignmentIDs[p.class.id] :
                 ~HasResult(a, s)
    \/ /\ p.screen # "TeacherAssignmentOverview"
       /\ late \cap assignmentIDs[p.class.id] # {}

(* A screen traps for these reasons only.  A row number is out of range    *)
(* only in another class than the one it was counted in; only a parent's   *)
(* first screen meets a student without a class; the teacher's overview    *)
(* traps for a class without students, or one in which somebody has not    *)
(* done everything; and answers run out only where a problem was added     *)
(* after a result.                                                         *)
TrapsHaveACause ==
    [][Running /\ at' = "trapped" => TrapCause(pages[trap'])]_vars

============================================================================
