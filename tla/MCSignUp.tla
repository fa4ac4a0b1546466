------------------------------ MODULE MCSignUp ------------------------------
(* Who signs up on which device, and what the codes' documents contain.    *)
EXTENDS SignUp, TLC

CONSTANTS phone, tablet, smithjoh, x1, x2

\* Two students whose names abbreviate to the same user name.
Namesakes == [d \in {phone, tablet} |-> "student"]
SameBase  == [d \in {phone, tablet} |-> smithjoh]
Twice     == [d \in {phone, tablet} |-> 2]
OneNamed  == x1 :> smithjoh

\* The devices of namesakes can be exchanged.
SameDevices == Permutations({phone, tablet})

\* No property is about the screens, and no step of a student's form reads
\* the alert.
WithoutAlerts == <<service, queue, attempt, form, screen>>

\* A parent and a student of one name, and a code without one.
Family    == phone :> "student" @@ tablet :> "parent"
OneNamed2 == x1 :> smithjoh @@ x2 :> NoName
StudentTwice == phone :> 2 @@ tablet :> 1

\* One person alone.
Alone == phone :> "student"
AloneOnce == phone :> 1
AloneBase == phone :> smithjoh
============================================================================
