----------------------------- MODULE MCRegistry -----------------------------
(***************************************************************************)
(* Two repositories called app, one of them in a directory called app too, *)
(* on two machines that share a journal.                                   *)
(***************************************************************************)
EXTENDS Registry, TLC

CONSTANTS d1, d2, m1, m2

MCBase == [d \in {d1, d2} |-> "app"]
MCParent == (d1 :> "home") @@ (d2 :> "app")
MCSlugs == {"app", "home"}
MCFlags == {Shaped, <<"home">>}
At(a, b, c) == (m1 :> ((d1 :> a) @@ (d2 :> b))) @@ (m2 :> ((d1 :> c) @@ (d2 :> NoRepo)))
MCRepositories == {At("r1", "r1", "r1"), At(Local, "r1", Local), At(Local, Unnamed, "r1")}
Symmetry == Permutations(Procs)
=============================================================================
