--------------------------- MODULE MCDocumentSync ---------------------------
(* Instances of DocumentSync for TLC.                                       *)
EXTENDS DocumentSync

CONSTANTS main, lib, run1, run2, dispose

OneDoc == {main}
TwoDocs == {main, lib}
OneRun == {run1, dispose}
TwoRuns == {run1, run2, dispose}
=============================================================================
