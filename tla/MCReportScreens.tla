-------------------------- MODULE MCReportScreens --------------------------
(* Two classes; one of the two students is in the first from the start.    *)
EXTENDS ReportScreens

CONSTANTS c1, c2

MCStudents    == {1, 2}
MCAssignments == {1, 2}
MCNamings     == {<<"one", "two">>, <<"same", "same">>}
MCClasses     == {c1, c2}
MCFirstClass  == [s \in MCStudents |-> IF s = 1 THEN c1 ELSE NoClass]
MCFirstList   == [c \in MCClasses |-> IF c = c1 THEN {2} ELSE {1}]
============================================================================
