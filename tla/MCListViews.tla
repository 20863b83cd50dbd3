---------------------------- MODULE MCListViews ----------------------------
(* Small lists for ListViews: three saved frequencies on pages of two, one or *)
(* two of them Live.                                                         *)
EXTENDS ListViews

CONSTANTS f1, f2, f3, f4

FourFreqs == {f1, f2, f3, f4}
ThreeSaved == <<f1, f2, f3>>
OneLive == <<f2>>
=============================================================================
