---------------------------- MODULE QuizSession ----------------------------
(***************************************************************************)
(* One student taking one assignment on one device: the screen of          *)
(* Quiz.swift together with the timers of Result.swift.                    *)
(*                                                                         *)
(* The controller is one UIKit object and every handler runs to completion *)
(* on the main queue, so each handler is one action.  What interleaves     *)
(* with the handlers is the snapshot listener of CurrentAssignment, which  *)
(* replaces the live problem list while a quiz is open (AddProblem below), *)
(* the clock, and the death of the process.                                *)
(*                                                                         *)
(* Swift arrays are TLA+ sequences: index i of the code is i + 1 here, and *)
(* qIndex is the code's qIndex + 1.  Out-of-range accesses and forced      *)
(* unwraps of nil stop the process: phase "trapped".                       *)
(***************************************************************************)
EXTENDS Integers, Sequences, FiniteSets

CONSTANTS
    Answers,        \* the texts a student can type and a problem can expect
    Blank,          \* the empty text, one of Answers
    NoResult,       \* "this student has no result": Result() in the code
    ProblemLists,   \* the problem lists an assignment may start with
    MaxProblems,    \* bound: AddProblem never makes the list longer
    MaxTime,        \* bound: the clock stops there
    MaxAttempts     \* bound: submissions

ASSUME QuizAssumption ==
    /\ Blank \in Answers
    /\ ProblemLists \subseteq Seq(Answers)
    /\ MaxProblems \in Nat
    /\ MaxTime \in Nat
    /\ MaxAttempts \in Nat

VARIABLES
    problems,             \* CurrentAssignment.problems, live: the expected answers
    phase,                \* "overview", "quiz" or "trapped"
    qIndex,               \* the question on the screen
    StudentInput,         \* the text field
    StudentsAnswers,      \* the controller's copy of the answers
    totalPossibleGrade,   \* the number of problems when the quiz was opened
    TimeTakenPerQuestion, \* result.TimeTakenPerQuestion
    TimeTaken,            \* result.TimeTaken
    StartTime,            \* result.StartTime
    IndividualStartTime,  \* result.IndividualStartTime
    now,                  \* the clock, in ticks
    existingResult,       \* this student's result in CurrentAssignment.results
    \* history variables, read by the properties only
    typed,                \* the last text the student left under each question
    shown,                \* how long each question was on the screen
    attempts              \* the submissions: their duration and their grade

control == <<phase, qIndex, StudentInput>>
timers  == <<TimeTakenPerQuestion, TimeTaken, StartTime, IndividualStartTime>>
arrays  == <<StudentsAnswers, totalPossibleGrade>>
history == <<typed, shown, attempts>>
vars    == <<problems, control, arrays, timers, now, existingResult, history>>

Blanks(n) == [i \in 1..n |-> Blank]
Zeros(n)  == [i \in 1..n |-> 0]

\* A stored result.  Grade is a fraction: its numerator, `correct', and its
\* denominator, `total'.
Result == [correct : Nat, total : Nat, StudentAnswers : Seq(Answers),
           TimeTaken : Nat, TimeTakenPerQuestion : Seq(Nat)]

ASSUME NoResultAssumption == NoResult \notin Result

TypeOK ==
    /\ problems \in Seq(Answers)
    /\ phase \in {"overview", "quiz", "trapped"}
    /\ totalPossibleGrade \in Nat
    /\ qIndex \in Nat
    /\ StudentInput \in Answers
    /\ StudentsAnswers \in [1..totalPossibleGrade -> Answers]
    /\ TimeTakenPerQuestion \in [1..totalPossibleGrade -> Nat]
    /\ TimeTaken \in Nat
    /\ now \in Nat
    /\ StartTime \in 0..now
    /\ IndividualStartTime \in 0..now
    /\ existingResult \in Result \cup {NoResult}
    /\ typed \in [1..totalPossibleGrade -> Answers]
    /\ shown \in [1..totalPossibleGrade -> Nat]
    /\ attempts \in Seq([span : Nat, correct : Nat])

Init ==
    /\ problems \in ProblemLists
    /\ phase = "overview"
    /\ qIndex = 1
    /\ StudentInput = Blank
    /\ StudentsAnswers = Blanks(0)
    /\ totalPossibleGrade = 0
    /\ TimeTakenPerQuestion = Zeros(0)
    /\ TimeTaken = 0
    /\ StartTime = 0
    /\ IndividualStartTime = 0
    /\ now = 0
    /\ existingResult = NoResult
    /\ typed = Blanks(0)
    /\ shown = Zeros(0)
    /\ attempts = << >>
----------------------------------------------------------------------------
(* The timers of Result.swift.                                             *)

StartTimer == StartTime' = now

\* Mutant: the timer of the question is not started again.
TimerNotRestarted == UNCHANGED IndividualStartTime

StartIndividualQuestionTimer == IndividualStartTime' = now

\* Mutants: the earlier time is dropped; the difference is taken backwards;
\* a second visit overwrites the time of the first.
StopTimeAlone == now - StartTime
StopTimeBackwards == TimeTaken + (StartTime - now)
StopTimeOverwrites(ind) ==
    [TimeTakenPerQuestion EXCEPT ![ind] = now - IndividualStartTime]

\* What TimeTaken and TimeTakenPerQuestion become when the timers are stopped.
StopTime == TimeTaken + (now - StartTime)

StopIndividualTime(ind) ==
    [TimeTakenPerQuestion EXCEPT ![ind] = @ + (now - IndividualStartTime)]

\* Mutant: the text field is not saved.
AnswersUnsaved == StudentsAnswers

(* The text field is saved into StudentsAnswers before the controller      *)
(* leaves a question, by Back, Next and Submit alike.                      *)
SavedAnswers == [StudentsAnswers EXCEPT ![qIndex] = StudentInput]

\* Mutant: the last question is out of range.
CanShowButLast(q) == q \in 1..Len(problems) /\ q < totalPossibleGrade

(* setCurrentQuestion reads the live problem list and then the controller's*)
(* own array, which was sized when the quiz was opened.                    *)
CanShow(q) == q \in 1..Len(problems) /\ q \in 1..totalPossibleGrade
----------------------------------------------------------------------------
(* The controller is gone: the process died, or QuizResults was presented  *)
(* over it, from which no route leads back to it.                          *)
Discarded ==
    /\ qIndex' = 1
    /\ StudentInput' = Blank
    /\ totalPossibleGrade' = 0
    /\ StudentsAnswers' = Blanks(0)
    /\ TimeTakenPerQuestion' = Zeros(0)
    /\ TimeTaken' = 0
    /\ StartTime' = 0
    /\ IndividualStartTime' = 0
    /\ typed' = Blanks(0)
    /\ shown' = Zeros(0)

(* A quiz that has problems opens: the stored properties are initialised   *)
(* from CurrentAssignment, then viewDidLoad runs.  A result that scored is *)
(* continued, with its TimeTaken; one that scored nothing is started over. *)
viewDidLoad ==
    /\ phase = "overview"
    /\ Len(problems) > 0
    /\ Len(attempts) < MaxAttempts
    /\ totalPossibleGrade' = Len(problems)
    /\ StudentsAnswers' = Blanks(Len(problems))
    /\ TimeTaken' = IF existingResult # NoResult /\ existingResult.correct # 0
                    THEN existingResult.TimeTaken
                    ELSE 0
    /\ StartTimer
    /\ StartIndividualQuestionTimer
    /\ qIndex' = 1
    /\ StudentInput' = Blank
    /\ TimeTakenPerQuestion' = Zeros(Len(problems))
    /\ phase' = "quiz"
    /\ typed' = Blanks(Len(problems))
    /\ shown' = Zeros(Len(problems))
    /\ UNCHANGED <<problems, now, existingResult, attempts>>

(* An assignment without problems: the alert is presented, then            *)
(* setCurrentQuestion(index: 0) reads problems[0].                         *)
viewDidLoadEmpty ==
    /\ phase = "overview"
    /\ problems = << >>
    /\ phase' = "trapped"
    /\ UNCHANGED <<problems, qIndex, StudentInput, arrays, timers, now,
                   existingResult, history>>

(* The student edits the text field.                                       *)
Type(text) ==
    /\ phase = "quiz"
    /\ StudentInput' = text
    /\ typed' = [typed EXCEPT ![qIndex] = text]
    /\ UNCHANGED <<problems, phase, qIndex, arrays, timers, now,
                   existingResult, shown, attempts>>

BackButtonPressed ==
    /\ phase = "quiz"
    /\ qIndex > 1
    /\ StudentsAnswers' = SavedAnswers
    /\ TimeTakenPerQuestion' = StopIndividualTime(qIndex)
    /\ qIndex' = qIndex - 1
    /\ StudentInput' = StudentsAnswers'[qIndex']
    /\ StartIndividualQuestionTimer
    /\ UNCHANGED <<problems, phase, totalPossibleGrade, TimeTaken, StartTime,
                   now, existingResult, history>>

(* Next is bounded by the live list, not by the arrays: after the list has *)
(* grown it steps past their end and setCurrentQuestion traps.             *)
NextButtonPressed ==
    /\ phase = "quiz"
    /\ qIndex < Len(problems)
    /\ StudentsAnswers' = SavedAnswers
    /\ TimeTakenPerQuestion' = StopIndividualTime(qIndex)
    /\ StartIndividualQuestionTimer
    /\ \/ /\ CanShow(qIndex + 1)
          /\ qIndex' = qIndex + 1
          /\ StudentInput' = StudentsAnswers'[qIndex']
          /\ UNCHANGED phase
       \/ /\ ~CanShow(qIndex + 1)
          /\ phase' = "trapped"
          /\ UNCHANGED <<qIndex, StudentInput>>
    /\ UNCHANGED <<problems, totalPossibleGrade, TimeTaken, StartTime, now,
                   existingResult, history>>

(* Every answer of the controller is compared with the live problem of the *)
(* same index; the divisor is the count read when the quiz was opened.     *)
doGrading(answers) ==
    Cardinality({q \in 1..totalPossibleGrade : answers[q] = problems[q]})

createResult(answers) ==
    [correct |-> doGrading(answers),
     total |-> totalPossibleGrade,
     StudentAnswers |-> answers,
     TimeTaken |-> StopTime,
     TimeTakenPerQuestion |-> StopIndividualTime(qIndex)]

(* Submit saves, grades, stops both timers and puts the result in place of *)
(* the student's earlier one.  What that does to the shared result list is *)
(* the subject of AssignmentResults.                                       *)
SubmitButtonPressed ==
    /\ phase = "quiz"
    /\ existingResult' = createResult(SavedAnswers)
    /\ phase' = "overview"
    /\ Discarded
    /\ attempts' = Append(attempts, [span |-> now - StartTime,
                                     correct |-> doGrading(SavedAnswers)])
    /\ UNCHANGED <<problems, now>>
----------------------------------------------------------------------------
(* Another client adds a problem, and the listener of CurrentAssignment    *)
(* delivers the longer list: nothing tells the open quiz.                  *)
AddProblem(answer) ==
    /\ phase # "trapped"
    /\ Len(problems) < MaxProblems
    /\ problems' = Append(problems, answer)
    /\ UNCHANGED <<control, arrays, timers, now, existingResult, history>>

Tick ==
    /\ phase = "quiz"
    /\ now < MaxTime
    /\ now' = now + 1
    /\ shown' = [shown EXCEPT ![qIndex] = @ + 1]
    /\ UNCHANGED <<problems, control, arrays, timers, existingResult, typed,
                   attempts>>

(* The process dies (a trap, or the user or the system ends it) and is     *)
(* started again: the attempt that was open is gone, the stored result is  *)
(* not.                                                                    *)
Relaunch ==
    /\ phase \in {"quiz", "trapped"}
    /\ phase' = "overview"
    /\ Discarded
    /\ UNCHANGED <<problems, now, existingResult, attempts>>

Next ==
    \/ viewDidLoad
    \/ viewDidLoadEmpty
    \/ \E text \in Answers : Type(text)
    \/ BackButtonPressed
    \/ NextButtonPressed
    \/ SubmitButtonPressed
    \/ \E answer \in Answers : AddProblem(answer)
    \/ Tick
    \/ Relaunch

Spec == Init /\ [][Next]_vars
----------------------------------------------------------------------------
(* Moving between questions in any order never loses or misfiles an answer:*)
(* the array and the text field together hold, for every question, what    *)
(* the student last typed under it (BackButtonPressed, NextButtonPressed   *)
(* and setCurrentQuestion save and restore the field).                     *)
AnswersKept ==
    phase = "quiz" =>
        /\ StudentInput = typed[qIndex]
        /\ \A q \in 1..totalPossibleGrade :
               q # qIndex => StudentsAnswers[q] = typed[q]

(* However the student moves back and forth, the time booked on a question,*)
(* with the running timer for the one on the screen, is the time it was on *)
(* the screen (StopIndividualTime, StartIndividualQuestionTimer).          *)
QuestionTimesKept ==
    phase = "quiz" =>
        \A q \in 1..totalPossibleGrade :
            shown[q] = TimeTakenPerQuestion[q]
                       + (IF q = qIndex THEN now - IndividualStartTime ELSE 0)

(* The controller's arrays cover the question on the screen, and the live  *)
(* list has at least the problems it was opened with: no handler but Next  *)
(* can leave the arrays, and doGrading never reads past the problems.      *)
QuestionInRange ==
    phase = "quiz" => /\ qIndex \in 1..totalPossibleGrade
                      /\ totalPossibleGrade <= Len(problems)

(* The process traps in a quiz only when the assignment had no problems or *)
(* gained some after the quiz was opened.                                  *)
TrapsOnlyWhenGrown ==
    phase = "trapped" =>
        \/ totalPossibleGrade = 0
        \/ Len(problems) > totalPossibleGrade

(* Submit stores exactly what the student typed under every question, the  *)
(* time each was on the screen, and a grade that counts the answers which  *)
(* match, out of the problems the quiz was opened with.                    *)
SubmitsWhatWasTyped ==
    [][existingResult' # existingResult =>
        /\ existingResult'.StudentAnswers = typed
        /\ existingResult'.TimeTakenPerQuestion = shown
        /\ existingResult'.total = Len(typed)
        /\ existingResult'.correct =
               Cardinality({q \in DOMAIN typed : typed[q] = problems[q]})]_vars

\* The sum of f[i] over a finite set of indices, one unit at a time.
SumOver(S, f(_)) == Cardinality(UNION {{i} \X (1..f(i)) : i \in S})

(* TimeTaken of the stored result is the time of the last attempt and of   *)
(* the attempts before it, back to the last one that scored nothing: a     *)
(* retake of a result that scored goes on counting from it, a retake of a  *)
(* zero starts again (Quiz.swift's choice of `result').                    *)
TimeAccumulates ==
    LET last == Len(attempts)
        Counted == {i \in 1..last :
                       \A j \in i..(last - 1) : attempts[j].correct # 0}
    IN  existingResult # NoResult =>
            existingResult.TimeTaken =
                SumOver(Counted, LAMBDA i : attempts[i].span)

(* The times per question of the stored result add up to the last attempt  *)
(* alone, and never exceed its TimeTaken: they are reset when a retake     *)
(* starts although TimeTaken is not.                                       *)
SplitIsLastAttempt ==
    existingResult # NoResult =>
        LET split == existingResult.TimeTakenPerQuestion
            sum   == SumOver(DOMAIN split, LAMBDA q : split[q])
        IN  /\ sum = attempts[Len(attempts)].span
            /\ sum <= existingResult.TimeTaken
============================================================================
