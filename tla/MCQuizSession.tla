--------------------------- MODULE MCQuizSession ---------------------------
(* Two texts are enough to see an answer filed under the wrong question,   *)
(* and two problems to have a question to come back to.                    *)
EXTENDS QuizSession, TLC

CONSTANT right

MCAnswers == {right, Blank}
MCProblemLists == {<< >>, <<right, right>>}
============================================================================
