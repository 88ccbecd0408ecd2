------------------------------ MODULE MCFlows ------------------------------
(***************************************************************************)
(* Two workers and three curated sessions, one of them summarised before   *)
(* with another model, with an older body, or as it stands but before its  *)
(* project was known; wake over two sessions.                              *)
(***************************************************************************)
EXTENDS Flows, TLC

CONSTANTS w1, w2

Fact(s, b, m, p) == [session |-> s, body |-> b, model |-> m, project |-> p]
MCJobs == <<Fact("s1", 2, "now", "p"), Fact("s2", 1, "now", "p"), Fact("s3", 1, "now", "p")>>
MCEarlier == {{}, {Fact("s1", 1, "now", "p"), Fact("s1", 2, "then", "p"),
              Fact("s2", 1, "now", "none")}}
MCRows == <<"s1", "s2">>
=============================================================================
