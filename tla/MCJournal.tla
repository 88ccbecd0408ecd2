----------------------------- MODULE MCJournal -----------------------------
(***************************************************************************)
(* Small instances of Journal.  Sessions: a dated one and one whose        *)
(* transcript carries no timestamp.  Of three revisions the agent answers  *)
(* only in the last, so a session grows both within and out of being a     *)
(* no-op.                                                                  *)
(***************************************************************************)
EXTENDS Journal, TLC

CONSTANTS dated, undated

DatedStart   == [k \in Keys |-> 1]
UndatedStart == [k \in Keys |-> IF k = undated THEN Undated ELSE 1]
LastRevOnly  == {MaxRev}

\* Sweeps are interchangeable, and the safety properties name none of them.
SweepSymmetry == Permutations(Sweeps)
=============================================================================
