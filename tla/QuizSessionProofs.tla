------------------------- MODULE QuizSessionProofs -------------------------
(***************************************************************************)
(* Theorems of QuizSession, for every set of texts, every initial problem  *)
(* list and every bound.                                                   *)
(***************************************************************************)
EXTENDS QuizSession, FiniteSetTheorems, SequenceTheorems, TLAPS

(* The inductive invariant.  AnswersKept and QuestionTimesKept speak of    *)
(* the arrays at qIndex and below the count they were sized with, so they  *)
(* need QuestionInRange; TrapsOnlyWhenGrown needs to know that a           *)
(* controller that is not on the screen has no arrays.                     *)
NoArraysOutside == phase = "overview" => totalPossibleGrade = 0

IInv ==
    /\ TypeOK
    /\ QuestionInRange
    /\ AnswersKept
    /\ QuestionTimesKept
    /\ NoArraysOutside
    /\ TrapsOnlyWhenGrown

----------------------------------------------------------------------------
(* A grade is a natural number: the matching questions are finitely many.  *)
LEMMA GradingType ==
    ASSUME NEW answers, totalPossibleGrade \in Nat
    PROVE  doGrading(answers) \in Nat
<1> DEFINE Matching == {q \in 1..totalPossibleGrade : answers[q] = problems[q]}
<1>1. IsFiniteSet(1..totalPossibleGrade)
  BY FS_Interval
<1>2. Matching \in SUBSET (1..totalPossibleGrade)
  OBVIOUS
<1>3. IsFiniteSet(Matching)
  BY <1>1, <1>2, FS_Subset
<1>4. Cardinality(Matching) \in Nat
  BY <1>3, FS_CardinalityType
<1> QED
  BY <1>4 DEF doGrading

(* What leaving a question stores is typed like the arrays it goes into.   *)
LEMMA LeavingTypes ==
    ASSUME TypeOK, QuestionInRange, phase = "quiz"
    PROVE  /\ SavedAnswers \in [1..totalPossibleGrade -> Answers]
           /\ StopIndividualTime(qIndex) \in [1..totalPossibleGrade -> Nat]
           /\ StopTime \in Nat
<1>1. now - IndividualStartTime \in Nat /\ now - StartTime \in Nat
  BY DEF TypeOK
<1> QED
  BY <1>1 DEF TypeOK, QuestionInRange, SavedAnswers, StopIndividualTime, StopTime

(* A function on 1..n is a sequence.                                       *)
LEMMA FunctionIsSeq ==
    ASSUME NEW S, NEW n \in Nat, NEW f \in [1..n -> S]
    PROVE  f \in Seq(S) /\ Len(f) = n
<1>1. \A i \in 1..n : f[i] \in S
  OBVIOUS
<1>2. f = [i \in 1..n |-> f[i]]
  OBVIOUS
<1> QED
  BY <1>1, <1>2, IsASeq

(* A submitted result is a Result.                                         *)
LEMMA ResultType ==
    ASSUME TypeOK, QuestionInRange, phase = "quiz"
    PROVE  createResult(SavedAnswers) \in Result
<1>1. doGrading(SavedAnswers) \in Nat
  BY GradingType DEF TypeOK
<1>2. SavedAnswers \in Seq(Answers) /\ StopIndividualTime(qIndex) \in Seq(Nat)
  BY LeavingTypes, FunctionIsSeq DEF TypeOK
<1> QED
  BY <1>1, <1>2, LeavingTypes DEF createResult, Result, TypeOK

----------------------------------------------------------------------------
LEMMA InitInvariant == Init => IInv
<1> SUFFICES ASSUME Init PROVE IInv
  OBVIOUS
<1> USE QuizAssumption DEF Init
<1>1. Blanks(0) \in [1..0 -> Answers] /\ Zeros(0) \in [1..0 -> Nat]
  BY DEF Blanks, Zeros
<1>2. TypeOK
  BY <1>1 DEF TypeOK
<1> QED
  BY <1>2 DEF IInv, QuestionInRange, AnswersKept, QuestionTimesKept,
              NoArraysOutside, TrapsOnlyWhenGrown

LEMMA NextInvariant == IInv /\ [Next]_vars => IInv'
<1> SUFFICES ASSUME IInv, [Next]_vars PROVE IInv'
  OBVIOUS
<1> USE QuizAssumption
<1>t. TypeOK /\ QuestionInRange
  BY DEF IInv
<1>0. Blanks(0) \in [1..0 -> Answers] /\ Zeros(0) \in [1..0 -> Nat]
  BY DEF Blanks, Zeros
<1>1. CASE viewDidLoad
  <2>1. Len(problems) \in Nat /\ Len(problems) > 0
    BY <1>1, <1>t DEF viewDidLoad, TypeOK
  <2>2. /\ Blanks(Len(problems)) \in [1..Len(problems) -> Answers]
        /\ Zeros(Len(problems)) \in [1..Len(problems) -> Nat]
    BY DEF Blanks, Zeros
  <2>3. TimeTaken' \in Nat
    BY <1>1, <1>t DEF viewDidLoad, TypeOK, Result
  <2>4. TypeOK'
    BY <1>1, <1>t, <2>1, <2>2, <2>3 DEF viewDidLoad, TypeOK, StartTimer,
       StartIndividualQuestionTimer
  <2>5. QuestionInRange' /\ AnswersKept'
    BY <1>1, <2>1 DEF viewDidLoad, QuestionInRange, AnswersKept, Blanks
  <2>6. QuestionTimesKept'
    BY <1>1, <1>t, <2>1 DEF viewDidLoad, TypeOK, QuestionTimesKept, Zeros,
       StartIndividualQuestionTimer
  <2> QED
    BY <1>1, <2>4, <2>5, <2>6 DEF viewDidLoad, IInv, NoArraysOutside,
       TrapsOnlyWhenGrown
<1>2. CASE viewDidLoadEmpty
  BY <1>2 DEF viewDidLoadEmpty, IInv, TypeOK, QuestionInRange, AnswersKept,
     QuestionTimesKept, NoArraysOutside, TrapsOnlyWhenGrown, arrays, timers,
     history
<1>3. ASSUME NEW text \in Answers, Type(text) PROVE IInv'
  BY <1>3 DEF Type, IInv, TypeOK, QuestionInRange, AnswersKept,
     QuestionTimesKept, NoArraysOutside, TrapsOnlyWhenGrown, arrays, timers
<1>4. CASE BackButtonPressed
  <2>0. /\ SavedAnswers \in [1..totalPossibleGrade -> Answers]
        /\ StopIndividualTime(qIndex) \in [1..totalPossibleGrade -> Nat]
        /\ qIndex - 1 \in 1..totalPossibleGrade
    BY <1>4, <1>t, LeavingTypes DEF BackButtonPressed, TypeOK, QuestionInRange
  <2>a. /\ StudentsAnswers' \in [1..totalPossibleGrade -> Answers]
        /\ TimeTakenPerQuestion' \in [1..totalPossibleGrade -> Nat]
        /\ qIndex' \in 1..totalPossibleGrade
    BY <1>4, <2>0 DEF BackButtonPressed
  <2>b. StudentInput' \in Answers /\ qIndex' \in Nat
    BY <1>4, <2>a DEF BackButtonPressed
  <2>c. IndividualStartTime' \in 0..now
    BY <1>4, <1>t DEF BackButtonPressed, TypeOK, StartIndividualQuestionTimer
  <2>1. TypeOK'
    BY <1>4, <1>t, <2>a, <2>b, <2>c DEF BackButtonPressed, TypeOK, history
  <2>2. QuestionInRange' /\ NoArraysOutside' /\ TrapsOnlyWhenGrown'
    BY <1>4, <1>t DEF BackButtonPressed, TypeOK, QuestionInRange,
       NoArraysOutside, TrapsOnlyWhenGrown, IInv
  <2>3. AnswersKept'
    BY <1>4, <1>t, LeavingTypes DEF BackButtonPressed, IInv, TypeOK,
       QuestionInRange, AnswersKept, SavedAnswers, history
  <2>4. QuestionTimesKept'
    BY <1>4, <1>t DEF BackButtonPressed, IInv, TypeOK, QuestionInRange,
       QuestionTimesKept, StopIndividualTime, StartIndividualQuestionTimer,
       history
  <2> QED
    BY <2>1, <2>2, <2>3, <2>4 DEF IInv
<1>5. CASE NextButtonPressed
  <2>s. /\ SavedAnswers \in [1..totalPossibleGrade -> Answers]
        /\ StopIndividualTime(qIndex) \in [1..totalPossibleGrade -> Nat]
    BY <1>5, <1>t, LeavingTypes DEF NextButtonPressed
  <2>0. /\ StudentsAnswers' \in [1..totalPossibleGrade -> Answers]
        /\ TimeTakenPerQuestion' \in [1..totalPossibleGrade -> Nat]
        /\ IndividualStartTime' \in 0..now
    BY <1>5, <1>t, <2>s DEF NextButtonPressed, TypeOK,
       StartIndividualQuestionTimer
  <2>1. CASE CanShow(qIndex + 1) /\ phase' = "quiz"
    <3>0. /\ qIndex' = qIndex + 1 /\ StudentInput' = StudentsAnswers'[qIndex']
          /\ qIndex + 1 \in 1..totalPossibleGrade
      BY <1>5, <2>1 DEF NextButtonPressed, CanShow
    <3>b. StudentInput' \in Answers /\ qIndex' \in Nat
      BY <2>0, <3>0
    <3>1. TypeOK'
      BY <1>5, <1>t, <2>0, <2>1, <3>b DEF NextButtonPressed, TypeOK, history
    <3>2. QuestionInRange' /\ NoArraysOutside' /\ TrapsOnlyWhenGrown'
      BY <1>5, <3>0, <1>t, <2>1 DEF NextButtonPressed, TypeOK,
         QuestionInRange, NoArraysOutside, TrapsOnlyWhenGrown
    <3>3. AnswersKept'
      BY <1>5, <3>0, <1>t, <2>1 DEF NextButtonPressed, IInv, TypeOK,
         QuestionInRange, AnswersKept, SavedAnswers, history
    <3>4. QuestionTimesKept'
      BY <1>5, <3>0, <1>t, <2>1 DEF NextButtonPressed, IInv, TypeOK,
         QuestionInRange, QuestionTimesKept, StopIndividualTime,
         StartIndividualQuestionTimer, history
    <3> QED
      BY <3>1, <3>2, <3>3, <3>4 DEF IInv
  <2>2. CASE ~CanShow(qIndex + 1) /\ phase' = "trapped"
    <3>1. TypeOK'
      BY <1>5, <1>t, <2>0, <2>2 DEF NextButtonPressed, TypeOK, history
    <3>2. Len(problems) > totalPossibleGrade
      BY <1>5, <1>t, <2>2 DEF NextButtonPressed, TypeOK, QuestionInRange,
         CanShow
    <3> QED
      BY <1>5, <2>2, <3>1, <3>2 DEF NextButtonPressed, IInv, QuestionInRange,
         AnswersKept, QuestionTimesKept, NoArraysOutside, TrapsOnlyWhenGrown
  <2> QED
    BY <1>5, <2>1, <2>2 DEF NextButtonPressed
<1>6. CASE SubmitButtonPressed
  <2>1. createResult(SavedAnswers) \in Result
    BY <1>6, <1>t, ResultType DEF SubmitButtonPressed
  <2>2. doGrading(SavedAnswers) \in Nat /\ now - StartTime \in Nat
    BY <1>t, GradingType DEF TypeOK
  <2>3. attempts' \in Seq([span : Nat, correct : Nat])
    BY <1>6, <1>t, <2>2 DEF SubmitButtonPressed, TypeOK
  <2>4. TypeOK'
    BY <1>6, <1>t, <1>0, <2>1, <2>3 DEF SubmitButtonPressed, Discarded, TypeOK
  <2> QED
    BY <1>6, <2>4 DEF SubmitButtonPressed, Discarded, IInv, QuestionInRange,
       AnswersKept, QuestionTimesKept, NoArraysOutside, TrapsOnlyWhenGrown
<1>7. ASSUME NEW answer \in Answers, AddProblem(answer) PROVE IInv'
  <2>1. /\ problems' \in Seq(Answers)
        /\ Len(problems') = Len(problems) + 1
        /\ Len(problems) \in Nat
    BY <1>7, <1>t DEF AddProblem, TypeOK
  <2>2. TypeOK'
    BY <1>7, <1>t, <2>1 DEF AddProblem, TypeOK, control, arrays, timers,
       history
  <2>3. QuestionInRange' /\ NoArraysOutside' /\ TrapsOnlyWhenGrown'
    BY <1>7, <1>t, <2>1 DEF AddProblem, IInv, TypeOK, QuestionInRange,
       NoArraysOutside, TrapsOnlyWhenGrown, control, arrays
  <2>4. AnswersKept' /\ QuestionTimesKept'
    BY <1>7 DEF AddProblem, IInv, AnswersKept, QuestionTimesKept, control,
       arrays, timers, history
  <2> QED
    BY <2>2, <2>3, <2>4 DEF IInv
<1>8. CASE Tick
  <2>1. TypeOK'
    BY <1>8, <1>t DEF Tick, TypeOK, QuestionInRange, control, arrays, timers
  <2>2. QuestionTimesKept'
    BY <1>8, <1>t DEF Tick, IInv, TypeOK, QuestionInRange, QuestionTimesKept,
       control, arrays, timers
  <2> QED
    BY <1>8, <2>1, <2>2 DEF Tick, IInv, QuestionInRange, AnswersKept,
       NoArraysOutside, TrapsOnlyWhenGrown, control, arrays, timers
<1>9. CASE Relaunch
  <2>1. TypeOK'
    BY <1>9, <1>t, <1>0 DEF Relaunch, Discarded, TypeOK
  <2> QED
    BY <1>9, <2>1 DEF Relaunch, Discarded, IInv, QuestionInRange, AnswersKept,
       QuestionTimesKept, NoArraysOutside, TrapsOnlyWhenGrown
<1>10. CASE UNCHANGED vars
  BY <1>10 DEF vars, control, arrays, timers, history, IInv, TypeOK,
     QuestionInRange, AnswersKept, QuestionTimesKept, NoArraysOutside,
     TrapsOnlyWhenGrown
<1> QED
  BY <1>1, <1>2, <1>3, <1>4, <1>5, <1>6, <1>7, <1>8, <1>9, <1>10 DEF Next

(* What Submit stores is what the history variables saw: the saved array   *)
(* is `typed', the stopped times are `shown'.                              *)
LEMMA SubmitStep ==
    ASSUME IInv, SubmitButtonPressed
    PROVE  /\ existingResult'.StudentAnswers = typed
           /\ existingResult'.TimeTakenPerQuestion = shown
           /\ existingResult'.total = Len(typed)
           /\ existingResult'.correct =
                  Cardinality({q \in DOMAIN typed : typed[q] = problems[q]})
<1>0. phase = "quiz"
  BY DEF SubmitButtonPressed
<1>1. SavedAnswers = typed
  BY <1>0 DEF IInv, TypeOK, QuestionInRange, AnswersKept, SavedAnswers
<1>2. StopIndividualTime(qIndex) = shown
  <2>1. \A q \in 1..totalPossibleGrade : StopIndividualTime(qIndex)[q] = shown[q]
    BY <1>0 DEF IInv, TypeOK, QuestionInRange, QuestionTimesKept,
       StopIndividualTime
  <2>2. StopIndividualTime(qIndex) \in [1..totalPossibleGrade -> Nat]
    BY <1>0, LeavingTypes DEF IInv
  <2> QED
    BY <2>1, <2>2 DEF IInv, TypeOK
<1>3. DOMAIN typed = 1..totalPossibleGrade /\ Len(typed) = totalPossibleGrade
  BY FunctionIsSeq DEF IInv, TypeOK
<1>4. existingResult' = createResult(typed)
  BY <1>1 DEF SubmitButtonPressed
<1> QED
  BY <1>2, <1>3, <1>4 DEF createResult, doGrading

(* The quiz screen keeps every inductive part of its invariant.            *)
THEOREM Invariance == Spec => []IInv
  BY InitInvariant, NextInvariant, PTL DEF Spec

(* Every variable of the quiz screen keeps its type.                       *)
THEOREM TypeCorrect == Spec => []TypeOK
<1>1. IInv => TypeOK
  BY DEF IInv
<1> QED
  BY <1>1, Invariance, PTL

(* No sequence of Back, Next and edits loses or misfiles an answer.        *)
THEOREM AnswersAreKept == Spec => []AnswersKept
<1>1. IInv => AnswersKept
  BY DEF IInv
<1> QED
  BY <1>1, Invariance, PTL

(* The time booked on each question is the time it was on the screen.      *)
THEOREM TimesAreKept == Spec => []QuestionTimesKept
<1>1. IInv => QuestionTimesKept
  BY DEF IInv
<1> QED
  BY <1>1, Invariance, PTL

(* The handlers stay inside the arrays they index.                         *)
THEOREM IndexStaysInRange == Spec => []QuestionInRange
<1>1. IInv => QuestionInRange
  BY DEF IInv
<1> QED
  BY <1>1, Invariance, PTL

(* A trap in a quiz has one of two causes, both in the problem list.       *)
THEOREM TrapCauses == Spec => []TrapsOnlyWhenGrown
<1>1. IInv => TrapsOnlyWhenGrown
  BY DEF IInv
<1> QED
  BY <1>1, Invariance, PTL

(* Whatever Submit stores is what the student typed, how long each question*)
(* was on the screen, and the count of the answers that match.             *)
THEOREM SubmissionsAreFaithful == Spec => SubmitsWhatWasTyped
<1>1. IInv /\ [Next]_vars =>
        (existingResult' # existingResult =>
            /\ existingResult'.StudentAnswers = typed
            /\ existingResult'.TimeTakenPerQuestion = shown
            /\ existingResult'.total = Len(typed)
            /\ existingResult'.correct =
                   Cardinality({q \in DOMAIN typed : typed[q] = problems[q]}))
  <2> SUFFICES ASSUME IInv, [Next]_vars, existingResult' # existingResult
               PROVE  SubmitButtonPressed
    BY SubmitStep
  <2> QED
    BY DEF Next, vars, viewDidLoad, viewDidLoadEmpty, Type,
       BackButtonPressed, NextButtonPressed, AddProblem, Tick, Relaunch
<1> QED
  BY <1>1, Invariance, PTL DEF Spec, SubmitsWhatWasTyped
----------------------------------------------------------------------------
(* The sums of TimeAccumulates and SplitIsLastAttempt count a set with one *)
(* element per tick, so what a step adds to a sum is what it adds to that  *)
(* set: a tick of the clock adds one slot to the question on the screen, a *)
(* submission adds the block of its attempt or starts the set again.       *)

\* The ticks of a split, and the ticks of the attempts i \in S.
Slots(f) == UNION {{q} \X (1..f[q]) : q \in DOMAIN f}
Spans(a, S) == UNION {{i} \X (1..a[i].span) : i \in S}

\* The attempts a stored result still counts: those after which every
\* earlier attempt scored.
CountedOf(a) ==
    {i \in 1..Len(a) : \A j \in i..(Len(a) - 1) : a[j].correct # 0}

(* The invariant of the sums: a result is stored exactly when something    *)
(* was submitted, and has the grade of the last attempt; the running total *)
(* is the one viewDidLoad chose; the ticks of the open attempt are those   *)
(* since StartTime.                                                        *)
StoredIsLast ==
    /\ existingResult = NoResult <=> attempts = << >>
    /\ existingResult # NoResult =>
           existingResult.correct = attempts[Len(attempts)].correct

RunningTotal ==
    phase = "quiz" =>
        TimeTaken = IF existingResult # NoResult /\ existingResult.correct # 0
                    THEN existingResult.TimeTaken
                    ELSE 0

OpenAttempt ==
    phase = "quiz" => /\ IsFiniteSet(Slots(shown))
                      /\ Cardinality(Slots(shown)) = now - StartTime

StoredTotal ==
    existingResult # NoResult =>
        /\ IsFiniteSet(Spans(attempts, CountedOf(attempts)))
        /\ existingResult.TimeTaken =
               Cardinality(Spans(attempts, CountedOf(attempts)))

StoredSplit ==
    existingResult # NoResult =>
        LET split == existingResult.TimeTakenPerQuestion IN
            /\ IsFiniteSet(Slots(split))
            /\ Cardinality(Slots(split)) = attempts[Len(attempts)].span
            /\ Cardinality(Slots(split)) <= existingResult.TimeTaken

SumInv ==
    /\ StoredIsLast
    /\ RunningTotal
    /\ OpenAttempt
    /\ StoredTotal
    /\ StoredSplit

----------------------------------------------------------------------------
(* A block of n ticks has n elements.                                      *)
LEMMA BlockCount ==
    ASSUME NEW i, NEW n \in Nat
    PROVE  IsFiniteSet({i} \X (1..n)) /\ Cardinality({i} \X (1..n)) = n
<1>1. IsFiniteSet({i}) /\ Cardinality({i}) = 1
  BY FS_Singleton
<1>2. IsFiniteSet(1..n) /\ Cardinality(1..n) = n
  BY FS_Interval
<1>3. /\ IsFiniteSet({i} \X (1..n))
      /\ Cardinality({i} \X (1..n)) = Cardinality({i}) * Cardinality(1..n)
  BY <1>1, <1>2, FS_Product
<1> QED
  BY <1>1, <1>2, <1>3

(* A block added to a set of ticks of other owners adds its length.        *)
LEMMA BlockAdded ==
    ASSUME NEW A, IsFiniteSet(A), NEW i, NEW n \in Nat,
           \A p \in A : p[1] # i
    PROVE  /\ IsFiniteSet(A \cup ({i} \X (1..n)))
           /\ Cardinality(A \cup ({i} \X (1..n))) = Cardinality(A) + n
<1> DEFINE B == {i} \X (1..n)
<1>1. IsFiniteSet(B) /\ Cardinality(B) = n
  BY BlockCount
<1>2. A \cap B = {}
  OBVIOUS
<1>3. Cardinality(A \cap B) = 0
  BY <1>2, FS_EmptySet
<1>4. Cardinality(A) \in Nat
  BY FS_CardinalityType
<1>5. /\ IsFiniteSet(A \cup B)
      /\ Cardinality(A \cup B) = Cardinality(A) + Cardinality(B)
                                 - Cardinality(A \cap B)
  BY <1>1, FS_Union
<1> QED
  BY <1>1, <1>3, <1>4, <1>5

(* A split of zeros has no ticks.                                          *)
LEMMA NoSlots ==
    ASSUME NEW n \in Nat
    PROVE  IsFiniteSet(Slots(Zeros(n))) /\ Cardinality(Slots(Zeros(n))) = 0
<1>1. \A q \in DOMAIN Zeros(n) : {q} \X (1..Zeros(n)[q]) = {}
  BY DEF Zeros
<1>2. Slots(Zeros(n)) = {}
  BY <1>1 DEF Slots
<1> QED
  BY <1>2, FS_EmptySet

(* One more unit in a split is one more tick.                              *)
LEMMA OneMoreSlot ==
    ASSUME NEW n \in Nat, NEW f \in [1..n -> Nat], NEW q \in 1..n,
           IsFiniteSet(Slots(f))
    PROVE  LET g == [f EXCEPT ![q] = @ + 1] IN
               /\ IsFiniteSet(Slots(g))
               /\ Cardinality(Slots(g)) = Cardinality(Slots(f)) + 1
<1> DEFINE g == [f EXCEPT ![q] = @ + 1]
           t == <<q, f[q] + 1>>
<1>1. /\ DOMAIN g = 1..n /\ DOMAIN f = 1..n
      /\ g[q] = f[q] + 1 /\ f[q] \in Nat
      /\ \A r \in 1..n : r # q => g[r] = f[r]
  OBVIOUS
<1>2. 1..(f[q] + 1) = (1..f[q]) \cup {f[q] + 1}
  BY <1>1
<1>3. {q} \X (1..g[q]) = ({q} \X (1..f[q])) \cup {t}
  BY <1>1, <1>2
<1>4. ASSUME NEW p PROVE p \in Slots(g) <=> p \in Slots(f) \/ p = t
  <2>1. p \in Slots(g) <=> \E r \in 1..n : p \in {r} \X (1..g[r])
    BY <1>1 DEF Slots
  <2>2. p \in Slots(f) <=> \E r \in 1..n : p \in {r} \X (1..f[r])
    BY <1>1 DEF Slots
  <2> HIDE DEF g, t
  <2> QED
    BY <2>1, <2>2, <1>1, <1>3
<1>5. Slots(g) = Slots(f) \cup {t}
  BY <1>4
<1>6. t \notin Slots(f)
  <2>1. ASSUME NEW r \in 1..n, t \in {r} \X (1..f[r]) PROVE FALSE
    <3>1. r = q /\ f[q] + 1 \in 1..f[r]
      BY <2>1
    <3> QED
      BY <3>1, <1>1
  <2> QED
    BY <2>1, <1>1 DEF Slots
<1> HIDE DEF g, t
<1>7. IsFiniteSet(Slots(f) \cup {t})
  BY FS_AddElement
<1>8. Cardinality(Slots(f) \cup {t}) = Cardinality(Slots(f)) + 1
  BY <1>6, FS_AddElement
<1>9. IsFiniteSet(Slots(g)) /\ Cardinality(Slots(g)) = Cardinality(Slots(f)) + 1
  BY <1>5, <1>7, <1>8
<1> QED
  BY <1>9 DEF g

(* One more attempt: if the attempt before it scored, the counted ones are *)
(* still counted; if not, or if there was none, it is counted alone.  The  *)
(* earlier attempts keep their ticks.                                      *)
LEMMA CountedAppend ==
    ASSUME NEW a \in Seq([span : Nat, correct : Nat]),
           NEW e \in [span : Nat, correct : Nat]
    PROVE  LET b == Append(a, e)
               n == Len(a) + 1
           IN  /\ CountedOf(b) =
                      IF a # << >> /\ a[Len(a)].correct # 0
                      THEN CountedOf(a) \cup {n}
                      ELSE {n}
               /\ \A S \in SUBSET (1..Len(a)) : Spans(b, S) = Spans(a, S)
               /\ Len(b) = n /\ b[n] = e
<1> DEFINE b == Append(a, e)
           n == Len(a) + 1
<1>1. /\ Len(a) \in Nat /\ Len(b) = n /\ b[n] = e
      /\ \A i \in 1..Len(a) : b[i] = a[i]
      /\ a # << >> => Len(a) \in 1..Len(a)
  BY EmptySeq, LenProperties, AppendProperties
<1>2. \A S \in SUBSET (1..Len(a)) : Spans(b, S) = Spans(a, S)
  BY <1>1 DEF Spans
<1>3. CountedOf(b) = {i \in 1..n : \A j \in i..Len(a) : b[j].correct # 0}
  BY <1>1 DEF CountedOf
<1> HIDE DEF b
<1>4. CASE a # << >> /\ a[Len(a)].correct # 0
  <2>1. ASSUME NEW i \in 1..Len(a)
        PROVE  (\A j \in i..Len(a) : b[j].correct # 0)
                   <=> (\A j \in i..(Len(a) - 1) : a[j].correct # 0)
    <3>1. \A j \in i..Len(a) : j \in 1..Len(a) /\ b[j] = a[j]
      BY <1>1
    <3>2. i..Len(a) = (i..(Len(a) - 1)) \cup {Len(a)}
      BY <1>1
    <3> QED
      BY <3>1, <3>2, <1>4
  <2>2. n..Len(a) = {}
    BY <1>1
  <2>3. 1..n = (1..Len(a)) \cup {n}
    BY <1>1
  <2>4. CountedOf(b) = CountedOf(a) \cup {n}
    BY <1>3, <2>1, <2>2, <2>3 DEF CountedOf
  <2> QED
    BY <2>4, <1>1, <1>2, <1>4 DEF b
<1>5. CASE ~(a # << >> /\ a[Len(a)].correct # 0)
  <2>1. ASSUME NEW i \in 1..Len(a)
        PROVE  ~ \A j \in i..Len(a) : b[j].correct # 0
    <3>1. a # << >> /\ Len(a) \in i..Len(a) /\ Len(a) \in 1..Len(a)
      BY <1>1, EmptySeq
    <3>2. b[Len(a)] = a[Len(a)]
      BY <1>1, <3>1
    <3> QED
      BY <3>1, <3>2, <1>5
  <2>2. n..Len(a) = {}
    BY <1>1
  <2>3. 1..n = (1..Len(a)) \cup {n}
    BY <1>1
  <2>4. CountedOf(b) = {n}
    BY <1>3, <2>1, <2>2, <2>3
  <2> QED
    BY <2>4, <1>1, <1>2, <1>5 DEF b
<1> QED
  BY <1>4, <1>5

(* The sums of the stored result after a submission.                       *)
LEMMA SubmitSums ==
    ASSUME IInv, SumInv, SubmitButtonPressed
    PROVE  SumInv'
<1> DEFINE span == now - StartTime
           e == [span |-> span, correct |-> doGrading(SavedAnswers)]
           n == Len(attempts) + 1
<1>0. /\ phase = "quiz" /\ phase' = "overview"
      /\ attempts' = Append(attempts, e)
      /\ existingResult' = createResult(SavedAnswers)
  BY DEF SubmitButtonPressed
<1>1. span \in Nat /\ TimeTaken \in Nat /\ TimeTaken + span \in Nat
  BY DEF IInv, TypeOK
<1>2. e \in [span : Nat, correct : Nat]
  BY <1>1, GradingType DEF IInv, TypeOK
<1>3. attempts \in Seq([span : Nat, correct : Nat]) /\ Len(attempts) \in Nat
  BY DEF IInv, TypeOK
<1>4. createResult(SavedAnswers) \in Result
  BY <1>0, ResultType DEF IInv
<1>5. existingResult' # NoResult
  BY <1>0, <1>4, NoResultAssumption
<1>6. /\ existingResult'.correct = e.correct
      /\ existingResult'.TimeTaken = TimeTaken + span
      /\ existingResult'.TimeTakenPerQuestion = shown
  BY <1>0, SubmitStep DEF createResult, StopTime
<1>7. /\ CountedOf(attempts') =
             IF attempts # << >> /\ attempts[Len(attempts)].correct # 0
             THEN CountedOf(attempts) \cup {n}
             ELSE {n}
      /\ \A S \in SUBSET (1..Len(attempts)) :
             Spans(attempts', S) = Spans(attempts, S)
      /\ Len(attempts') = n /\ attempts'[n] = e
  BY <1>0, <1>2, <1>3, CountedAppend
<1>8. attempts'[Len(attempts')] = e /\ attempts' # << >>
  BY <1>3, <1>7, EmptySeq
<1>9. e.span = span
  OBVIOUS
<1> HIDE DEF e, span
<1>s. StoredIsLast'
  BY <1>5, <1>6, <1>8 DEF StoredIsLast
<1>r. RunningTotal' /\ OpenAttempt'
  BY <1>0 DEF RunningTotal, OpenAttempt
<1>b. Spans(attempts', {n}) = {n} \X (1..span)
  BY <1>7, <1>9 DEF Spans
<1>c. IsFiniteSet({n} \X (1..span)) /\ Cardinality({n} \X (1..span)) = span
  BY <1>1, BlockCount
<1>t. StoredTotal'
  <2>1. CASE attempts # << >> /\ attempts[Len(attempts)].correct # 0
    <3> DEFINE A == Spans(attempts, CountedOf(attempts))
    <3>1. existingResult # NoResult /\ existingResult.correct # 0
      BY <2>1 DEF SumInv, StoredIsLast
    <3>2. IsFiniteSet(A) /\ Cardinality(A) = TimeTaken
      BY <3>1, <1>0 DEF SumInv, StoredTotal, RunningTotal
    <3>3. CountedOf(attempts) \in SUBSET (1..Len(attempts))
      BY DEF CountedOf
    <3>4. \A p \in A : p[1] # n
      BY <1>3, <3>3 DEF Spans
    <3>5. Spans(attempts', CountedOf(attempts)) = A
      BY <1>7, <3>3
    <3>6. Spans(attempts', CountedOf(attempts) \cup {n}) =
              Spans(attempts', CountedOf(attempts)) \cup Spans(attempts', {n})
      BY DEF Spans
    <3>7. Spans(attempts', CountedOf(attempts')) = A \cup ({n} \X (1..span))
      BY <1>7, <2>1, <3>5, <3>6, <1>b
    <3> HIDE DEF A
    <3>8. /\ IsFiniteSet(A \cup ({n} \X (1..span)))
          /\ Cardinality(A \cup ({n} \X (1..span))) = Cardinality(A) + span
      BY <3>2, <3>4, <1>1, BlockAdded
    <3> QED
      BY <1>6, <3>2, <3>7, <3>8 DEF StoredTotal
  <2>2. CASE ~(attempts # << >> /\ attempts[Len(attempts)].correct # 0)
    <3>1. ~(existingResult # NoResult /\ existingResult.correct # 0)
      BY <2>2 DEF SumInv, StoredIsLast
    <3>2. TimeTaken = 0
      BY <3>1, <1>0 DEF SumInv, RunningTotal
    <3>3. Spans(attempts', CountedOf(attempts')) = {n} \X (1..span)
      BY <1>7, <2>2, <1>b
    <3>4. existingResult'.TimeTaken = span
      BY <1>1, <1>6, <3>2
    <3> QED
      BY <3>3, <3>4, <1>c DEF StoredTotal
  <2> QED
    BY <2>1, <2>2
<1>p. StoredSplit'
  <2>1. IsFiniteSet(Slots(shown)) /\ Cardinality(Slots(shown)) = span
    BY <1>0 DEF SumInv, OpenAttempt, span
  <2>2. span <= TimeTaken + span
    BY <1>1
  <2>3. /\ IsFiniteSet(Slots(existingResult'.TimeTakenPerQuestion))
        /\ Cardinality(Slots(existingResult'.TimeTakenPerQuestion)) = span
    BY <1>6, <2>1
  <2>4. attempts'[Len(attempts')].span = span
    BY <1>8, <1>9
  <2> QED
    BY <1>6, <2>2, <2>3, <2>4 DEF StoredSplit
<1> QED
  BY <1>s, <1>r, <1>t, <1>p DEF SumInv

LEMMA InitSums == Init => SumInv
  BY DEF Init, SumInv, StoredIsLast, RunningTotal, OpenAttempt, StoredTotal,
     StoredSplit

LEMMA NextSums == IInv /\ SumInv /\ [Next]_vars => SumInv'
<1> SUFFICES ASSUME IInv, SumInv, [Next]_vars PROVE SumInv'
  OBVIOUS
\* The steps that leave the stored result and the open attempt alone.
<1>a. ASSUME UNCHANGED <<existingResult, attempts>>
      PROVE  StoredIsLast' /\ StoredTotal' /\ StoredSplit'
  BY <1>a DEF SumInv, StoredIsLast, StoredTotal, StoredSplit
<1>b. ASSUME UNCHANGED <<existingResult, attempts, TimeTaken, StartTime, now, shown>>,
             phase' = "quiz" => phase = "quiz"
      PROVE  SumInv'
  <2>1. RunningTotal' /\ OpenAttempt'
    BY <1>b DEF SumInv, RunningTotal, OpenAttempt
  <2> QED
    BY <1>a, <1>b, <2>1 DEF SumInv
<1>1. CASE viewDidLoad
  <2>1. Len(problems) \in Nat
    BY DEF IInv, TypeOK
  <2>2. shown' = Zeros(Len(problems)) /\ StartTime' = now' /\ now' = now
    BY <1>1 DEF viewDidLoad, StartTimer
  <2>3. now - now = 0
    BY DEF IInv, TypeOK
  <2>4. OpenAttempt'
    BY <2>1, <2>2, <2>3, NoSlots DEF OpenAttempt
  <2>5. RunningTotal'
    BY <1>1 DEF viewDidLoad, RunningTotal
  <2>6. UNCHANGED <<existingResult, attempts>>
    BY <1>1 DEF viewDidLoad
  <2> QED
    BY <1>a, <2>4, <2>5, <2>6 DEF SumInv
<1>2. CASE viewDidLoadEmpty
  BY <1>2, <1>b DEF viewDidLoadEmpty, timers, history
<1>3. ASSUME NEW text \in Answers, Type(text) PROVE SumInv'
  BY <1>3, <1>b DEF Type, timers
<1>4. CASE BackButtonPressed
  BY <1>4, <1>b DEF BackButtonPressed, history
<1>5. CASE NextButtonPressed
  <2>1. phase = "quiz"
    BY <1>5 DEF NextButtonPressed
  <2> QED
    BY <1>5, <1>b, <2>1 DEF NextButtonPressed, history
<1>6. CASE SubmitButtonPressed
  BY <1>6, SubmitSums
<1>7. ASSUME NEW answer \in Answers, AddProblem(answer) PROVE SumInv'
  BY <1>7, <1>b DEF AddProblem, control, timers, history
<1>8. CASE Tick
  <2>1. /\ phase = "quiz" /\ phase' = phase /\ now' = now + 1
        /\ shown' = [shown EXCEPT ![qIndex] = @ + 1]
        /\ UNCHANGED <<existingResult, attempts, TimeTaken, StartTime>>
    BY <1>8 DEF Tick, control, timers
  <2>2. /\ totalPossibleGrade \in Nat /\ qIndex \in 1..totalPossibleGrade
        /\ shown \in [1..totalPossibleGrade -> Nat]
        /\ now \in Nat /\ StartTime \in Nat
    BY <2>1 DEF IInv, TypeOK, QuestionInRange
  <2>3. IsFiniteSet(Slots(shown)) /\ Cardinality(Slots(shown)) = now - StartTime
    BY <2>1 DEF SumInv, OpenAttempt
  <2>4. /\ IsFiniteSet(Slots(shown'))
        /\ Cardinality(Slots(shown')) = Cardinality(Slots(shown)) + 1
    BY <2>1, <2>2, <2>3, OneMoreSlot
  <2>5. (now - StartTime) + 1 = now' - StartTime'
    BY <2>1, <2>2
  <2>6. OpenAttempt'
    BY <2>3, <2>4, <2>5 DEF OpenAttempt
  <2>7. RunningTotal'
    BY <2>1 DEF SumInv, RunningTotal
  <2> QED
    BY <1>a, <2>1, <2>6, <2>7 DEF SumInv
<1>9. CASE Relaunch
  <2>1. phase' = "overview" /\ UNCHANGED <<existingResult, attempts>>
    BY <1>9 DEF Relaunch
  <2> QED
    BY <1>a, <2>1 DEF SumInv, RunningTotal, OpenAttempt
<1>10. CASE UNCHANGED vars
  BY <1>10, <1>b DEF vars, control, timers, history
<1> QED
  BY <1>1, <1>2, <1>3, <1>4, <1>5, <1>6, <1>7, <1>8, <1>9, <1>10 DEF Next

(* The sums keep their invariant, beside the one of the quiz screen.       *)
THEOREM SumsInvariance == Spec => []SumInv
  BY InitSums, NextSums, Invariance, PTL DEF Spec

(* The stored total is the time of the last attempt and of those before it *)
(* back to the last that scored nothing, over any number of retakes.       *)
THEOREM TimeTakenAccumulates == Spec => []TimeAccumulates
<1>1. SumInv => TimeAccumulates
  BY DEF SumInv, StoredTotal, TimeAccumulates, SumOver, Spans, CountedOf
<1> QED
  BY <1>1, SumsInvariance, PTL

(* The stored split adds up to the last attempt alone, which the stored    *)
(* total is never below.                                                   *)
THEOREM SplitsAreOfTheLastAttempt == Spec => []SplitIsLastAttempt
<1>1. SumInv => SplitIsLastAttempt
  BY DEF SumInv, StoredSplit, SplitIsLastAttempt, SumOver, Slots
<1> QED
  BY <1>1, SumsInvariance, PTL
============================================================================
