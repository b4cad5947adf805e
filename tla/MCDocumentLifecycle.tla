------------------------- MODULE MCDocumentLifecycle -------------------------
(***************************************************************************)
(* Instances of DocumentLifecycle for TLC.                                 *)
(***************************************************************************)
EXTENDS DocumentRefinement, TLC

CONSTANTS d1, d2, text, scan, r1, r2

OneDoc       == {d1}
TwoDocs      == {d1, d2}
TextAndScan  == {text, scan}
ScanIsBlank  == {scan}
TwoSlots     == {1, 2}
OneRetrier   == {r1}
TwoRetriers  == {r1, r2}
=============================================================================
