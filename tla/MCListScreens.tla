--------------------------- MODULE MCListScreens ----------------------------
(* An instance of ListScreens for TLC.                                     *)
EXTENDS ListScreens
=============================================================================
