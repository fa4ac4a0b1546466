----------------------------- MODULE Enrollment -----------------------------
(***************************************************************************)
(* Teachers put students into classes.  A device is one running copy of    *)
(* the app, signed in as a teacher; its screens are the teacher's homepage *)
(* (TeacherViewController), the student list (TeacherStudentListPage, with *)
(* the popup AddStudentPopupController on it) and the overview of one      *)
(* student (TeacherOverviewStudentList).                                   *)
(*                                                                         *)
(* The shared state is classID in the student documents and studentIDs in  *)
(* the class documents.  A device works on currentClassroom, a copy that   *)
(* no listener keeps up to date: it is replaced whenever the homepage has  *)
(* fetched the class, and AddStudent appends to it.  Fetches complete      *)
(* later than the screens that asked for them, some of which are gone.     *)
(*                                                                         *)
(* Student IDs are numbers: a fetch returns documents in their order.      *)
(* studentIDs is a set here, because it is only asked what it contains.    *)
(* The student documents exist from the start, and every device has them:  *)
(* a fetch of students gets the whole collection.                          *)
(***************************************************************************)
EXTENDS Integers, Sequences, FiniteSets

CONSTANTS
    Students,       \* the student documents, by ID
    Codes,          \* what a teacher may type: IDs, some of no student
    Nobody,         \* no student's ID
    Classes,
    Dot,            \* the class ".": currentClassroom before any fetch
    NoClass,        \* the classID of a student or teacher in no class
    Devices,
    ClassOf,        \* the class of the teacher signed in on each device
    MaxAdds,        \* bound: additions per device
    MaxViews        \* bound: overviews opened per device

ASSUME EnrollmentAssumption ==
    /\ IsFiniteSet(Students)
    /\ Students \subseteq Codes
    /\ Codes \subseteq Int
    /\ Nobody \in Int \ Codes
    /\ Dot \in Classes
    /\ NoClass \notin Classes
    /\ ClassOf \in [Devices -> (Classes \ {Dot}) \cup {NoClass}]
    /\ MaxAdds \in Nat
    /\ MaxViews \in Nat

VARIABLES
    classID,        \* per student document
    studentIDs,     \* per class document
    queue,          \* per device: its writes that are not committed
    cached,         \* per device: studentIDs of the teacher's class, as last seen
    current,        \* per device: currentClassroom
    loading,        \* per device: the homepage has asked for the class
    answer,         \* per device: the answer to it, waiting for the main queue
    adding,         \* per device: the popup's fetches that are under way
    adds,           \* per device: the popup's Submit so far
    screen,         \* per device
    page,           \* per device: the classroom the list was asked for
    overview,       \* per device: the fetches of the latest overview
    views,          \* per device: overviews opened so far
    opened,         \* per device: the student the overview shows
    joined,         \* history: who has been added to which class
    replaced        \* history: a fetch has replaced currentClassroom since
                    \* the list, or that of an unfinished overview, asked

documents == <<classID, studentIDs>>
sdk       == <<queue, cached>>
class     == <<current, loading, answer>>
screens   == <<screen, page, overview, opened>>
counts    == <<adds, views>>
history   == <<joined, replaced>>
vars      == <<documents, sdk, class, adding, screens, counts, history>>

SetClass(s, c)      == [kind |-> "class", student |-> s, class |-> c, list |-> {}]
SetStudents(c, ids) == [kind |-> "list", student |-> Nobody, class |-> c, list |-> ids]
Join(s, c)          == [kind |-> "join", student |-> s, class |-> c, list |-> {}]

Write ==
    [kind : {"class", "join"}, student : Students, class : Classes, list : {{}}]
        \cup [kind : {"list"}, student : {Nobody}, class : Classes,
              list : SUBSET Students]

Classroom == [id : Classes, studentIDs : SUBSET Students]

\* The overview's chain of fetches: the row it was opened with, the student
\* who was in that row, and whom its own fetch asked for.
Overview == [waitsFor : {"nothing", "assignments", "students"},
             tapped : Students \cup {Nobody}, row : Nat, asked : SUBSET Students]

Screens == {"home", "listing", "list", "student", "trapped"}

TypeOK ==
    /\ classID \in [Students -> Classes \cup {NoClass}]
    /\ studentIDs \in [Classes -> SUBSET Students]
    /\ queue \in [Devices -> Seq(Write)]
    /\ cached \in [Devices -> SUBSET Students]
    /\ current \in [Devices -> Classroom]
    /\ loading \in [Devices -> BOOLEAN]
    /\ answer \in [Devices -> SUBSET SUBSET Students]
    /\ adding \in [Devices -> SUBSET (Codes \X (1..MaxAdds))]
    /\ adds \in [Devices -> 0..MaxAdds]
    /\ screen \in [Devices -> Screens]
    /\ page \in [Devices -> Classroom]
    /\ overview \in [Devices -> Overview]
    /\ views \in [Devices -> 0..MaxViews]
    /\ opened \in [Devices -> Students \cup {Nobody}]
    /\ joined \subseteq Students \X Classes
    /\ replaced \in [Devices -> BOOLEAN]

\* currentClassroom when the process starts.
InitialClassroom == [id |-> Dot, studentIDs |-> {}]

NoOverview ==
    [waitsFor |-> "nothing", tapped |-> Nobody, row |-> 0, asked |-> {}]

Init ==
    /\ classID = [s \in Students |-> NoClass]
    /\ studentIDs = [c \in Classes |-> {}]
    /\ queue = [d \in Devices |-> << >>]
    /\ cached = [d \in Devices |-> {}]
    /\ current = [d \in Devices |-> InitialClassroom]
    /\ loading = [d \in Devices |-> TRUE]
    /\ answer = [d \in Devices |-> {}]
    /\ adding = [d \in Devices |-> {}]
    /\ adds = [d \in Devices |-> 0]
    /\ screen = [d \in Devices |-> "home"]
    /\ page = [d \in Devices |-> InitialClassroom]
    /\ overview = [d \in Devices |-> NoOverview]
    /\ views = [d \in Devices |-> 0]
    /\ opened = [d \in Devices |-> Nobody]
    /\ joined = {}
    /\ replaced = [d \in Devices |-> FALSE]

\* Who class c has for device d, when the newest document it gets is `base':
\* its own queued additions are laid over it.
View(d, c, base) ==
    base \cup {queue[d][i].student :
                  i \in {k \in 1..Len(queue[d]) : /\ queue[d][k].kind = "join"
                                                  /\ queue[d][k].class = c}}

\* Mutant: the rows are counted from one, the array from zero.
PositionFromOne(s, ids) == Cardinality({t \in ids : t <= s}) + 1

\* Documents come back in the order of their IDs.
Position(s, ids) == Cardinality({t \in ids : t <= s})
At(i, ids) == CHOOSE s \in ids : Cardinality({t \in ids : t <= s}) = i

Running(d) == screen[d] # "trapped"
Goto(d, where) == screen' = [screen EXCEPT ![d] = where]

\* viewDidLoad of the list: it asks for the students of currentClassroom.
PresentList(d) ==
    /\ page' = [page EXCEPT ![d] = current[d]]
    /\ replaced' = [replaced EXCEPT ![d] = @ /\ overview[d].waitsFor # "nothing"]
    /\ Goto(d, "listing")
----------------------------------------------------------------------------
(* The homepage asks for the class of the teacher, whenever it is presented*)
ShowHome(d) ==
    /\ screen[d] \in {"home", "listing", "list"}
    /\ loading' = [loading EXCEPT ![d] = TRUE]
    /\ Goto(d, "home")
    /\ UNCHANGED <<documents, sdk, current, answer, adding, counts, page, overview,
                   opened, history>>

(* The SDK has the class, from the service or from its cache, with the     *)
(* device's own writes in it, and queues the completion.  Bound: one       *)
(* answer is queued at a time.                                             *)
ClassroomRead(d) ==
    /\ Running(d)
    /\ loading[d]
    /\ answer[d] = {}
    /\ ClassOf[d] # NoClass
    /\ \E base \in {studentIDs[ClassOf[d]], cached[d]} :
           /\ cached' = [cached EXCEPT ![d] = base]
           /\ answer' = [answer EXCEPT ![d] = {View(d, ClassOf[d], base)}]
    /\ loading' = [loading EXCEPT ![d] = FALSE]
    /\ UNCHANGED <<documents, queue, current, adding, counts, screens, history>>

(* There is no such class, or the fetch fails: the completion is not called*)
(* and currentClassroom stays as it is.                                    *)
ClassroomMissing(d) ==
    /\ Running(d)
    /\ loading[d]
    /\ loading' = [loading EXCEPT ![d] = FALSE]
    /\ UNCHANGED <<documents, sdk, current, answer, adding, counts, screens, history>>

(* The completion replaces currentClassroom, whatever screen is up by now  *)
(* and whoever has been added since the answer was made.                   *)
ClassroomFetched(d) ==
    /\ Running(d)
    /\ \E ids \in answer[d] :
           current' = [current EXCEPT ![d] = [id |-> ClassOf[d], studentIDs |-> ids]]
    /\ answer' = [answer EXCEPT ![d] = {}]
    /\ replaced' = [replaced EXCEPT ![d] = TRUE]
    /\ UNCHANGED <<documents, sdk, loading, adding, counts, screens, joined>>

ShowList(d) ==
    /\ screen[d] \in {"home", "listing", "list"}
    /\ PresentList(d)
    /\ UNCHANGED <<documents, sdk, class, adding, counts, overview, opened, joined>>

ListFetched(d) ==
    /\ screen[d] = "listing"
    /\ Goto(d, "list")
    /\ UNCHANGED <<documents, sdk, class, adding, counts, page, overview, opened, history>>

(* The popup's Submit asks for the student and presents the list again, at *)
(* once: the new list is asked for before the student is added.            *)
SubmitPressed(d, code) ==
    /\ screen[d] \in {"listing", "list"}
    /\ adds[d] < MaxAdds
    /\ adds' = [adds EXCEPT ![d] = @ + 1]
    /\ adding' = [adding EXCEPT ![d] = @ \cup {<<code, adds[d] + 1>>}]
    /\ PresentList(d)
    /\ UNCHANGED <<documents, sdk, class, views, overview, opened, joined>>

\* What adding s to the classroom writes, in order, when the local list has
\* become `ids': SetClassroom, then AddStudent's setStudents, its own
\* classID, and its arrayUnion.
AddStudent(s, c, ids) ==
    <<SetClass(s, c), SetStudents(c, ids), SetClass(s, c), Join(s, c)>>

(* The popup's fetch has found the student, who is added to whatever       *)
(* currentClassroom is by now.                                             *)
StudentFound(d, code, n) ==
    /\ Running(d)
    /\ <<code, n>> \in adding[d]
    /\ code \in Students
    /\ LET c   == current[d].id
           ids == current[d].studentIDs \cup {code}
       IN  /\ current' = [current EXCEPT ![d].studentIDs = ids]
           /\ queue' = [queue EXCEPT ![d] = @ \o AddStudent(code, c, ids)]
           /\ joined' = joined \cup {<<code, c>>}
    /\ adding' = [adding EXCEPT ![d] = @ \ {<<code, n>>}]
    /\ UNCHANGED <<documents, cached, loading, answer, counts, screens, replaced>>

(* No such student, or the fetch fails: nothing happens, and nobody is told*)
StudentMissing(d, code, n) ==
    /\ Running(d)
    /\ <<code, n>> \in adding[d]
    /\ adding' = [adding EXCEPT ![d] = @ \ {<<code, n>>}]
    /\ UNCHANGED <<documents, sdk, class, counts, screens, history>>
----------------------------------------------------------------------------
(* A tap on a row passes its index to an overview, which asks for the      *)
(* assignments first.  Bound: the fetches of the overview before it are    *)
(* over.                                                                   *)
TapStudent(d, s) ==
    /\ screen[d] = "list"
    /\ s \in page[d].studentIDs
    /\ overview[d].waitsFor = "nothing"
    /\ views[d] < MaxViews
    /\ views' = [views EXCEPT ![d] = @ + 1]
    /\ overview' = [overview EXCEPT ![d] =
           [waitsFor |-> "assignments", tapped |-> s,
            row |-> Position(s, page[d].studentIDs), asked |-> {}]]
    /\ opened' = [opened EXCEPT ![d] = Nobody]
    /\ Goto(d, "student")
    /\ UNCHANGED <<documents, sdk, class, adding, adds, page, history>>

(* The assignments are there: the overview asks for the students that      *)
(* currentClassroom has by now.                                            *)
AssignmentsFetched(d) ==
    /\ Running(d)
    /\ overview[d].waitsFor = "assignments"
    /\ overview' = [overview EXCEPT ![d] =
           [waitsFor |-> "students", tapped |-> @.tapped, row |-> @.row,
            asked |-> current[d].studentIDs]]
    /\ UNCHANGED <<documents, sdk, class, adding, counts, screen, page, opened, history>>

(* The students are there: the one in the row is shown, or there is no such*)
(* row, also when the overview has been left meanwhile.                    *)
StudentsFetched(d) ==
    /\ Running(d)
    /\ overview[d].waitsFor = "students"
    /\ LET row   == overview[d].row
           asked == overview[d].asked
       IN  \/ /\ row \in 1..Cardinality(asked)
              /\ opened' = [opened EXCEPT ![d] = At(row, asked)]
              /\ UNCHANGED screen
           \/ /\ row \notin 1..Cardinality(asked)
              /\ Goto(d, "trapped")
              /\ UNCHANGED opened
    /\ overview' = [overview EXCEPT ![d].waitsFor = "nothing"]
    /\ UNCHANGED <<documents, sdk, class, adding, counts, page, history>>

BackToList(d) ==
    /\ screen[d] = "student"
    /\ Goto(d, "list")
    /\ UNCHANGED <<documents, sdk, class, adding, counts, page, overview, opened, history>>
----------------------------------------------------------------------------
\* Mutant: setStudents writes the document of the class.
WriteOwnList(w) ==
    /\ classID' = IF w.kind = "class" THEN [classID EXCEPT ![w.student] = w.class]
                                      ELSE classID
    /\ studentIDs' = CASE w.kind = "list" -> [studentIDs EXCEPT ![w.class] = w.list]
                       [] w.kind = "join" -> [studentIDs EXCEPT ![w.class] = @ \cup {w.student}]
                       [] OTHER -> studentIDs

\* One write reaches its document.  setStudents names the document
\* Class/studentIDs, whatever the class, which nothing reads.
Apply(w) ==
    \/ /\ w.kind = "class"
       /\ classID' = [classID EXCEPT ![w.student] = w.class]
       /\ UNCHANGED studentIDs
    \/ /\ w.kind = "list"
       /\ UNCHANGED documents
    \/ /\ w.kind = "join"
       /\ studentIDs' = [studentIDs EXCEPT ![w.class] = @ \cup {w.student}]
       /\ UNCHANGED classID

\* Mutant: the queue is flushed only while the homepage is up.
CommitAtHome(d) ==
    /\ screen[d] = "home"
    /\ queue[d] # << >>
    /\ Apply(Head(queue[d]))
    /\ queue' = [queue EXCEPT ![d] = Tail(@)]
    /\ UNCHANGED <<cached, class, adding, counts, screens, history>>

(* The service commits the oldest write of a device; the device's cache has*)
(* it from then on.                                                        *)
Commit(d) ==
    /\ Running(d)
    /\ queue[d] # << >>
    /\ LET w == Head(queue[d])
       IN  /\ Apply(w)
           /\ cached' = IF w.kind = "join" /\ w.class = ClassOf[d]
                        THEN [cached EXCEPT ![d] = @ \cup {w.student}]
                        ELSE cached
    /\ queue' = [queue EXCEPT ![d] = Tail(@)]
    /\ UNCHANGED <<class, adding, counts, screens, history>>

\* Mutant: what is not committed is lost with the process.
RelaunchUnqueued(d) ==
    /\ queue' = [queue EXCEPT ![d] = << >>]
    /\ current' = [current EXCEPT ![d] = InitialClassroom]
    /\ loading' = [loading EXCEPT ![d] = TRUE]
    /\ answer' = [answer EXCEPT ![d] = {}]
    /\ adding' = [adding EXCEPT ![d] = {}]
    /\ page' = [page EXCEPT ![d] = InitialClassroom]
    /\ overview' = [overview EXCEPT ![d] = NoOverview]
    /\ opened' = [opened EXCEPT ![d] = Nobody]
    /\ replaced' = [replaced EXCEPT ![d] = FALSE]
    /\ Goto(d, "home")
    /\ UNCHANGED <<documents, cached, counts, joined>>

(* The process dies and the teacher comes back to the homepage; the SDK's  *)
(* queue and cache are on disk.                                            *)
Relaunch(d) ==
    /\ current' = [current EXCEPT ![d] = InitialClassroom]
    /\ loading' = [loading EXCEPT ![d] = TRUE]
    /\ answer' = [answer EXCEPT ![d] = {}]
    /\ adding' = [adding EXCEPT ![d] = {}]
    /\ page' = [page EXCEPT ![d] = InitialClassroom]
    /\ overview' = [overview EXCEPT ![d] = NoOverview]
    /\ opened' = [opened EXCEPT ![d] = Nobody]
    /\ replaced' = [replaced EXCEPT ![d] = FALSE]
    /\ Goto(d, "home")
    /\ UNCHANGED <<documents, sdk, counts, joined>>

Step(d) ==
    \/ ShowHome(d)
    \/ ClassroomRead(d)
    \/ ClassroomMissing(d)
    \/ ClassroomFetched(d)
    \/ ShowList(d)
    \/ ListFetched(d)
    \/ \E code \in Codes : SubmitPressed(d, code)
    \/ \E code \in Codes, n \in 1..MaxAdds :
           StudentFound(d, code, n) \/ StudentMissing(d, code, n)
    \/ \E s \in Students : TapStudent(d, s)
    \/ AssignmentsFetched(d)
    \/ StudentsFetched(d)
    \/ BackToList(d)
    \/ Commit(d)
    \/ Relaunch(d)

Next == \E d \in Devices : Step(d)

(* The SDK of a running process retries a write until the service has it.  *)
Fairness == \A d \in Devices : WF_vars(Commit(d))

Safety == Init /\ [][Next]_vars
Spec == Safety /\ Fairness
----------------------------------------------------------------------------
Queued(w) == \E d \in Devices : \E i \in 1..Len(queue[d]) : queue[d][i] = w

(* The two sides of an enrollment agree, but for an addition that is on its*)
(* way: a student whose document names a class is on that class's list or  *)
(* in a queue that will put them there, whatever two devices do with the   *)
(* same student (AddStudent writes classID before it joins the list).      *)
ClassHasStudent ==
    \A s \in Students :
        classID[s] # NoClass => \/ s \in studentIDs[classID[s]]
                                \/ Queued(Join(s, classID[s]))

(* Nobody's addition is lost, with two devices of one teacher adding from  *)
(* local lists that do not know of each other: the list is written with    *)
(* arrayUnion, and setStudents, which would overwrite it, misses the       *)
(* class's document.                                                       *)
NoAdditionLost ==
    \A s \in Students, c \in Classes :
        <<s, c>> \in joined => s \in studentIDs[c] \/ Queued(Join(s, c))

(* The row that the list passes on is missing from the overview's own list *)
(* only when the homepage's fetch has replaced currentClassroom in between:*)
(* with an answer older than an addition, or of another class.             *)
TrapsOnlyWhenReplaced ==
    \A d \in Devices : screen[d] = "trapped" => replaced[d]

(* An addition reaches the class's list, whatever becomes of the device's  *)
(* screens, unless a trapped app is never opened again.                    *)
AdditionsArrive ==
    \A s \in Students, c \in Classes :
        <<s, c>> \in joined ~> \/ s \in studentIDs[c]
                               \/ \E d \in Devices : ~Running(d)
----------------------------------------------------------------------------
(* "grab the array index of the student that has been tapped": the overview*)
(* shows the student whose row was tapped.                                 *)
OpensWhoWasTapped ==
    \A d \in Devices :
        screen[d] = "student" /\ opened[d] # Nobody =>
            opened[d] = overview[d].tapped
============================================================================
