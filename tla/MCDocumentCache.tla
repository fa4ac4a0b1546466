-------------------------- MODULE MCDocumentCache --------------------------
(* Two users of one device.  Of four writes the first empties the field    *)
(* and the service never accepts the third.                                *)
EXTENDS DocumentCache

CONSTANTS ann, bob

First  == {1}
Third  == {3}
============================================================================
