------------------------- MODULE AssignmentResults -------------------------
(***************************************************************************)
(* The results of one assignment, submitted from several devices.          *)
(*                                                                         *)
(* A device is one running copy of the app, signed in as one student.  Its *)
(* screens are StudentAssignmentsView ("list"), StudentAssignmentOverview  *)
(* ("opening" until the fetch of its viewDidLoad returns, then "startable" *)
(* or "completed"), Quiz ("quiz") and QuizResults ("results").  The shared *)
(* state is the `results' field of the assignment document; a device reads *)
(* it through CurrentAssignment, kept fresh by a snapshot listener, and    *)
(* writes it in Quiz.insertResult.  What a quiz computes is QuizSession's  *)
(* subject: here a result is known by who submitted it, where and when.    *)
(***************************************************************************)
EXTENDS PendingWrites, FiniteSets

CONSTANTS
    Students,
    Devices,
    Owner,          \* the student signed in on each device
    MaxTries        \* bound: submissions per device

ASSUME ResultsAssumption ==
    /\ Owner \in [Devices -> Students]
    /\ MaxTries \in Nat

Result == [student : Students, device : Devices, number : 1..MaxTries]

Screens == {"list", "opening", "startable", "completed", "quiz", "results"}

VARIABLES
    server,     \* the field, as the service has it
    known,      \* per device: the field as last received, with acked own writes
    pending,    \* per device: its writes that are not committed
    screen,     \* per device
    local,      \* per device: CurrentAssignment.results
    echoed,     \* per device: the listener has run since the last own write
    tries,      \* per device: submissions so far
    submitted   \* history: every result ever submitted

store   == <<server, known, pending>>
device  == <<screen, local, echoed>>
vars    == <<store, device, tries, submitted>>

TypeOK ==
    /\ server \subseteq Result
    /\ known \in [Devices -> SUBSET Result]
    /\ pending \in [Devices -> Seq(Writes(Result))]
    /\ screen \in [Devices -> Screens]
    /\ local \in [Devices -> SUBSET Result]
    /\ echoed \in [Devices -> BOOLEAN]
    /\ tries \in [Devices -> 0..MaxTries]
    /\ submitted \subseteq Result

Init ==
    /\ server = {}
    /\ known = [d \in Devices |-> {}]
    /\ pending = [d \in Devices |-> << >>]
    /\ screen = [d \in Devices |-> "list"]
    /\ local = [d \in Devices |-> {}]
    /\ echoed = [d \in Devices |-> TRUE]
    /\ tries = [d \in Devices |-> 0]
    /\ submitted = {}

\* Mutant: a device does not see the writes it has queued.
ViewWithoutQueue(d, base) == base

\* What device d reads when the newest state it can get is `base'.
View(d, base) == Overlaid(base, pending[d])

\* A read reaches the service, or is answered from the device's cache.
Readable(d) == {server, known[d]}

\* Mutant: every result is taken for the student's.
AnyResult(d, results) == results

\* The results of the student of d, in a list: GetResultIndexByID(...) # -1
\* when there is one.
Own(d, results) == {r \in results : r.student = Owner[d]}

Goto(d, where) == screen' = [screen EXCEPT ![d] = where]
----------------------------------------------------------------------------
(* StudentAssignmentsView fetches the assignments, each with a listener,   *)
(* and a tap makes one of them CurrentAssignment.  The overview it presents*)
(* shows the start button until its own fetch says otherwise.              *)
OpenAssignment(d) ==
    /\ screen[d] = "list"
    /\ \E base \in Readable(d) :
           /\ known' = [known EXCEPT ![d] = base]
           /\ local' = [local EXCEPT ![d] = View(d, base)]
    /\ echoed' = [echoed EXCEPT ![d] = TRUE]
    /\ Goto(d, "opening")
    /\ UNCHANGED <<server, pending, tries, submitted>>

(* The fetch of the overview's viewDidLoad returns: the start button is    *)
(* hidden when the freshly fetched assignment has a result of the student. *)
(* CurrentAssignment is another object and is not touched.                 *)
PopulateOverview(d) ==
    /\ screen[d] = "opening"
    /\ \E base \in Readable(d) :
           /\ known' = [known EXCEPT ![d] = base]
           /\ Goto(d, IF Own(d, View(d, base)) = {} THEN "startable"
                                                    ELSE "completed")
    /\ UNCHANGED <<server, pending, local, echoed, tries, submitted>>

(* The start button's segue presents the quiz, also before the fetch of    *)
(* the overview has returned.                                              *)
StartQuiz(d) ==
    /\ screen[d] \in {"opening", "startable"}
    /\ tries[d] < MaxTries
    /\ Goto(d, "quiz")
    /\ UNCHANGED <<store, local, echoed, tries, submitted>>

BackToList(d) ==
    /\ screen[d] \in {"opening", "startable", "completed"}
    /\ Goto(d, "list")
    /\ local' = [local EXCEPT ![d] = {}]    \* no screen reads it again
    /\ echoed' = [echoed EXCEPT ![d] = TRUE]
    /\ UNCHANGED <<store, tries, submitted>>

NewResult(d) ==
    [student |-> Owner[d], device |-> d, number |-> tries[d] + 1]

\* Common to both branches of insertResult: r is handed in, `writes' are
\* queued, the submit button's segue presents QuizResults.
HandIn(d, r, writes) ==
    /\ pending' = [pending EXCEPT ![d] = @ \o writes]
    /\ submitted' = submitted \cup {r}
    /\ tries' = [tries EXCEPT ![d] = @ + 1]
    /\ echoed' = [echoed EXCEPT ![d] = FALSE]
    /\ Goto(d, "results")
    /\ UNCHANGED <<server, known>>

(* insertResult, when CurrentAssignment has no result of the student.      *)
SubmitFirst(d) ==
    /\ screen[d] = "quiz"
    /\ Own(d, local[d]) = {}
    /\ HandIn(d, NewResult(d), <<Add(NewResult(d))>>)
    /\ UNCHANGED local

(* insertResult, when CurrentAssignment has one: it is removed from the    *)
(* local list, the field is cleared and the new result is added.  `temp'   *)
(* is the remaining local list, never nil, so the loop that would add the  *)
(* other students' results again does not run.                             *)
SubmitAgain(d) ==
    /\ screen[d] = "quiz"
    /\ \E existing \in Own(d, local[d]) :
           local' = [local EXCEPT ![d] = @ \ {existing}]
    /\ HandIn(d, NewResult(d), <<Clear(NewResult(d)), Add(NewResult(d))>>)

\* Mutant: the gesture does not wait for the fetch.
ReturnBeforeEcho(d) ==
    /\ screen[d] = "results"
    /\ Goto(d, "opening")
    /\ UNCHANGED <<store, local, echoed, tries, submitted>>

(* QuizResults: its fetch has returned, so the gesture is attached, and the*)
(* tap presents the overview again, with the same CurrentAssignment.  The  *)
(* SDK answers the fetch after it has run the listener for the writes made *)
(* before it, on the same queue.                                           *)
ReturnToOverview(d) ==
    /\ screen[d] = "results"
    /\ echoed[d]
    /\ Goto(d, "opening")
    /\ UNCHANGED <<store, local, echoed, tries, submitted>>
----------------------------------------------------------------------------
(* The snapshot listener of CurrentAssignment: SetPropertiesFromDoc puts   *)
(* the document's results in place of the local list.                      *)
Hear(d, base) ==
    /\ screen[d] # "list"
    /\ known' = [known EXCEPT ![d] = base]
    /\ local' = [local EXCEPT ![d] = View(d, base)]
    /\ echoed' = [echoed EXCEPT ![d] = TRUE]
    /\ UNCHANGED <<server, pending, screen, tries, submitted>>

\* Mutant: the listener never leaves the cache.
HearCached(d) == Hear(d, known[d])

\* The listener is told of the device's own writes, and of the service's state.
HearOwn(d)    == Hear(d, known[d])
HearServer(d) == Hear(d, server)

\* Mutant: the queue is flushed only while the assignment's screens are open.
CommitOnScreen(d) ==
    /\ screen[d] # "list"
    /\ pending[d] # << >>
    /\ server' = Applied(server, Head(pending[d]))
    /\ known' = [known EXCEPT ![d] = Applied(@, Head(pending[d]))]
    /\ pending' = [pending EXCEPT ![d] = Tail(@)]
    /\ UNCHANGED <<device, tries, submitted>>

(* The service commits the oldest write of a device and acknowledges it.   *)
Commit(d) ==
    /\ pending[d] # << >>
    /\ server' = Applied(server, Head(pending[d]))
    /\ known' = [known EXCEPT ![d] = Applied(@, Head(pending[d]))]
    /\ pending' = [pending EXCEPT ![d] = Tail(@)]
    /\ UNCHANGED <<device, tries, submitted>>

(* The process dies, on any screen, and is started again.  The SDK's cache *)
(* and its queue are on disk.                                              *)
Relaunch(d) ==
    /\ screen[d] # "list"
    /\ Goto(d, "list")
    /\ local' = [local EXCEPT ![d] = {}]
    /\ echoed' = [echoed EXCEPT ![d] = TRUE]
    /\ UNCHANGED <<store, tries, submitted>>

Step(d) ==
    \/ OpenAssignment(d)
    \/ PopulateOverview(d)
    \/ StartQuiz(d)
    \/ BackToList(d)
    \/ SubmitFirst(d)
    \/ SubmitAgain(d)
    \/ ReturnToOverview(d)
    \/ HearOwn(d)
    \/ HearServer(d)
    \/ Commit(d)
    \/ Relaunch(d)

Next == \E d \in Devices : Step(d)

(* The SDK retries a write until the service has it and delivers snapshots *)
(* while there is a connection; no device is assumed offline forever.      *)
(* Nothing is assumed of the students.                                     *)
Fairness == \A d \in Devices : WF_vars(Commit(d)) /\ WF_vars(HearServer(d))

Safety == Init /\ [][Next]_vars
Spec == Safety /\ Fairness
----------------------------------------------------------------------------
\* The submitted results that no device has still to write.
Stored == submitted \ UNION {ToAdd(pending[d]) : d \in Devices}

\* Some student has submitted more than once, on one device or on several.
Retaken ==
    \E r, s \in submitted : r # s /\ r.student = s.student

(* While every student has submitted at most once, no submission is lost:  *)
(* each is in the field, or waits in the queue of its device, whatever the *)
(* order of commits, listeners and restarts.                               *)
FirstSubmissionsKept ==
    ~Retaken => Stored \subseteq server

(* A student has two results in the field only from two devices: on one    *)
(* device insertResult always finds the earlier result, because the        *)
(* listener has run before the quiz can be opened again.                   *)
OneResultPerDevice ==
    \A r, s \in server :
        r # s /\ r.student = s.student => r.device # s.device

(* A student who has submitted on this device and is offered the start     *)
(* button by a finished fetch has had the result erased by a submission on *)
(* another device, of a student who had one already.                       *)
OfferedAgainOnlyAfterErasure ==
    \A d \in Devices :
        screen[d] = "startable" /\ tries[d] > 0 =>
            \E r, s \in submitted :
                r # s /\ r.student = s.student /\ r.device # d

(* The field, with its queues and screens, is a results book.              *)
Book == INSTANCE ResultsBook WITH
            book <- server, handedIn <- submitted, stored <- Stored

\* Every submission is stored exactly once, and nothing but a resubmission
\* erases the field: insertResult's writes, in queue order, are a book's.
ImplementsBookSafely == Book!Safety

\* Every submission is eventually stored, whatever its device goes through
\* in the meantime: the queue survives, and the SDK retries.
SubmissionsReachTheBook == Book!Fairness

(* A device that stays on the assignment's screens sees the field as the   *)
(* service has it again and again: the listener, not the next fetch,       *)
(* catches up with what the other devices wrote.                           *)
ListsConverge ==
    \A d \in Devices : []<>(screen[d] = "list" \/ local[d] = server)
----------------------------------------------------------------------------
(* "resultIndex will be -1 if the student hasn't completed it yet": what   *)
(* the overview and four other screens read off GetResultIndexByID.  It    *)
(* takes no second device to break it: another student's resubmission      *)
(* erases this student's result (insertResult's dead loop).                *)
NoResultMeansNotCompleted ==
    \A d \in Devices : screen[d] = "startable" => tries[d] = 0
============================================================================
