------------------------ MODULE MCAssignmentResults ------------------------
(* Which student is signed in on which device.                             *)
EXTENDS AssignmentResults, TLC

CONSTANTS ann, bob, phone, laptop

\* Two students, a device each.
OneDeviceEach == phone :> ann @@ laptop :> bob
============================================================================
