--------------------------- MODULE MCStateStream ---------------------------
(***************************************************************************)
(* Instances of StateStream.                                               *)
(***************************************************************************)
EXTENDS StateStream
CONSTANTS tab, phone

OneTab(v)  == tab                            \* every socket of the same tab
TwoTabs(v) == IF v = 1 THEN tab ELSE phone
=============================================================================
