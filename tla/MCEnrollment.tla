---------------------------- MODULE MCEnrollment ----------------------------
(* Whose class a device's teacher has.  Student 2 comes before student 3,  *)
(* and 1 is nobody's ID.                                                   *)
EXTENDS Enrollment, TLC

CONSTANTS red, dot, phone

\* The teacher of the red class, on one device.
OneTeacher == phone :> red
============================================================================
