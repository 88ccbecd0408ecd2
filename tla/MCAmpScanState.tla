--------------------------- MODULE MCAmpScanState ---------------------------
(***************************************************************************)
(* Small instances of AmpScanState: two threads, days that start at 1 and  *)
(* 3.                                                                      *)
(***************************************************************************)
EXTENDS AmpScanState, TLC

CONSTANTS t1, t2, r1, r2

DayStarts == {1, 3}

RunSymmetry == Permutations(Runs)
=============================================================================
