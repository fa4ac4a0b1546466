---------------------------- MODULE MCParentLink ----------------------------
(* Two parents, a student who may sign up, and a code that is redeemed for *)
(* the name s_x1.                                                          *)
EXTENDS ParentLink, TLC

CONSTANTS mother, father, ann, x1, sx1

OneCode == x1 :> sx1

\* How many codes each of them confirms.
MotherTwice == mother :> 2 @@ father :> 1
============================================================================
