----------------------------- MODULE MCHarness -----------------------------
(***************************************************************************)
(* Two of the three skills and two binaries; settings.json absent, with an *)
(* empty SessionStart beside other events, or with a hook of the person's. *)
(***************************************************************************)
EXTENDS Harness, TLC

CONSTANTS p1, p2

MCSkills == <<"wake", "brief">>
MCSettings == {Absent,
               Whole([NoHooks EXCEPT !.hooks = TRUE, !.start = TRUE, !.other = TRUE]),
               Whole([hooks |-> TRUE, start |-> TRUE, other |-> FALSE,
                      groups |-> <<<<"user">>>>])}
Symmetry == Permutations(Procs)
=============================================================================
