------------------------------ MODULE MCViews ------------------------------
(***************************************************************************)
(* Days of two hours, a machine west of UTC and one east of it: clones of  *)
(* a project on both, and a directory of no project.                       *)
(***************************************************************************)
EXTENDS Views, TLC

MCZones == [west |-> -1, east |-> 1]

MCHomes ==
  {[machine |-> "west", project |-> "p", label |-> "a"],
   [machine |-> "east", project |-> "p", label |-> "b"],
   [machine |-> "east", project |-> "-", label |-> ""]}
=============================================================================
