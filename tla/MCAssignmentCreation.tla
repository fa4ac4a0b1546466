------------------------ MODULE MCAssignmentCreation ------------------------
(* Two devices that may draw the same ID, as two of one teacher do; the    *)
(* phone may draw another one as well.                                     *)
EXTENDS AssignmentCreation, TLC

CONSTANTS phone, tablet, t7, t8, quiz

Overlapping == phone :> {t7, t8} @@ tablet :> {t7}
============================================================================
